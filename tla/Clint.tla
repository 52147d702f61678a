-------------------------------- MODULE Clint --------------------------------
(***************************************************************************)
(* rtl/clint/clint.sv: the time, which advances with the edges of a slow   *)
(* clock, and the time from which on the interrupt is pending.  Both are   *)
(* of two words, and the bus reaches one word at a time.  Step is the      *)
(* clock edge of a cycle with the write request req on the port; tick      *)
(* tells whether the synchroniser has seen an edge.  The third register,   *)
(* msip, is written by the debugger and by the boot ROM only.              *)
(***************************************************************************)
EXTENDS Integers

CONSTANT WordBits           \* 32 in the code

VARIABLES mtime_q, mtimecmp_q

Word == 2^WordBits
Low(t)  == t % Word
High(t) == t \div Word
MaxTime == Word * Word - 1

Init == mtime_q = 0 /\ mtimecmp_q = 0

\* Mutant: one tick early.
timer_irq_early == mtime_q + 1 >= mtimecmp_q

timer_irq_o == mtime_q >= mtimecmp_q

count_time(tick) == mtime_q' = IF tick THEN (mtime_q + 1) % (MaxTime + 1) ELSE mtime_q

write(req) ==
  mtimecmp_q' = CASE req.reg = "MTIMECMP_LOW0"  -> High(mtimecmp_q) * Word + req.value
                  [] req.reg = "MTIMECMP_HIGH0" -> req.value * Word + Low(mtimecmp_q)
                  [] OTHER -> mtimecmp_q

Step(req, tick) == count_time(tick) /\ write(req)
=============================================================================
