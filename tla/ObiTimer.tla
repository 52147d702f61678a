------------------------------ MODULE ObiTimer ------------------------------
(***************************************************************************)
(* rtl/obi_timer/obi_timer.sv: a counter with a compare value, two control *)
(* bits and two sticky flags behind an OBI port that accepts a request in  *)
(* every cycle.  Step is the clock edge of a cycle with the write request  *)
(* req on the port, or NoWrite; reads change nothing.  All writes are      *)
(* whole words, as the C drivers issue them.                               *)
(*                                                                         *)
(* A write has a register, a value for COUNT and COMPARE, and for CTRL and *)
(* STATUS the set of the bits that are 1.                                  *)
(***************************************************************************)
EXTENDS Integers

CONSTANT CounterBits        \* 32 in the code

VARIABLES
  count_q, compare_q,
  ctrl_q,       \* enable_q and autoreset_q: those of the CTRL bits that are 1
  status_q      \* expired_sticky_q and overflow_sticky_q

timervars == <<count_q, compare_q, ctrl_q, status_q>>

Range == 2^CounterBits
NoWrite == [reg |-> "NONE", value |-> 0, bits |-> {}]

Init ==
  /\ count_q = 0 /\ compare_q = 0
  /\ ctrl_q = {} /\ status_q = {}

Enabled == "ENABLE" \in ctrl_q

\* Mutant: one cycle early.
expired_early == Enabled /\ compare_q # 0 /\ compare_q <= count_q + 1

expired_event  == Enabled /\ compare_q # 0 /\ compare_q <= count_q
overflow_event == Enabled /\ count_q = Range - 1

\* Mutant: the counter is one bit too wide.
CountWide(req) ==
  count_q' = CASE req.reg = "COUNT"   -> req.value
               [] req.reg = "COMPARE" -> 0
               [] OTHER -> IF expired_event /\ "AUTORESET" \in ctrl_q THEN 0
                           ELSE IF Enabled THEN (count_q + 1) % (2 * Range)
                           ELSE count_q

\* A write to COUNT or COMPARE beats the counter.
Count(req) ==
  count_q' = CASE req.reg = "COUNT"   -> req.value
               [] req.reg = "COMPARE" -> 0
               [] OTHER -> IF expired_event /\ "AUTORESET" \in ctrl_q THEN 0
                           ELSE IF Enabled THEN (count_q + 1) % Range
                           ELSE count_q

\* The flags are sticky; a write of 1 clears them, also in the cycle of the event.
Flags(req) ==
  status_q' = (status_q \cup (IF expired_event THEN {"EXPIRED"} ELSE {})
                        \cup (IF overflow_event THEN {"OVERFLOW"} ELSE {}))
              \ (IF req.reg = "STATUS" THEN req.bits ELSE {})

Step(req) ==
  /\ Count(req)
  /\ Flags(req)
  /\ compare_q' = IF req.reg = "COMPARE" THEN req.value ELSE compare_q
  /\ ctrl_q' = IF req.reg = "CTRL" THEN req.bits ELSE ctrl_q
=============================================================================
