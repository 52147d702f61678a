----------------------------- MODULE MCTimerWait -----------------------------
(* TimerWait with a four-bit counter and instructions of one to three cycles. *)
(* A period of two cycles is shorter than a handler run, so that interrupts   *)
(* fall into every place; one of fifteen is longer.  A word of the CLINT has  *)
(* two bits, so that mtime carries within a few ticks and mtimecmp is set to  *)
(* times with different high words; a sleep of one tick may end before wfi,   *)
(* one of three ends after it.                                                *)
EXTENDS TimerWait
=============================================================================
