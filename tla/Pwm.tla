-------------------------------- MODULE Pwm --------------------------------
(***************************************************************************)
(* One PWM channel of the drone controller: pwm_gen_driver.sv fed by its   *)
(* three registers in drone_controller_reg.sv.  One step is one cycle.     *)
(* Software sets the mode, the top and the compare value one at a time     *)
(* through the register port, in any order and at any moment.              *)
(*                                                                         *)
(* The value of CONF is its field MODE; the driver ignores CLK_DIV.        *)
(***************************************************************************)
EXTENDS Integers

CONSTANTS
  Range,         \* number of values of the counter and of the two registers: 2^32
  NoReq,         \* no request on the register port
  Requests       \* requests software may make on the register port

ASSUME PwmAssumption ==
  /\ Range \in Nat \ {0}
  /\ NoReq \notin Requests
  /\ \A r \in Requests :
       /\ r.we \in BOOLEAN /\ r.reg \in {"CONF", "COUNT_TOP", "COUNT_COMPARE"}
       /\ r.value \in 0..Range-1
       /\ r.reg = "CONF" => r.value \in 0..3

VARIABLES
  is_active, cpuif, rsp_pending, stored, cmd,   \* register block
  counter_q,                                    \* the driver
  span,     \* history: cycles since the period began, or Mixed
  high      \* history: those of them with the output high

regvars == <<is_active, cpuif, rsp_pending, stored, cmd>>
vars == <<regvars, counter_q, span, high>>

Reg == INSTANCE RegBlock WITH StoredRegs <- {"CONF", "COUNT_TOP", "COUNT_COMPARE"}

DISABLED == 0
EDGE_ALIGNED == 1     \* 2, center aligned, and 3 leave the counter at zero

mode_i            == stored["CONF"]
counter_top_i     == stored["COUNT_TOP"]
counter_compare_i == stored["COUNT_COMPARE"]

\* Mutants: the counter compared for equality; one cycle too late.
at_top_exactly == counter_q = (counter_top_i - 1) % Range
at_top_late    == counter_q > (counter_top_i - 1) % Range

\* The comparison is unsigned, so a top of 0 stands for the full range.
counter_at_top == counter_q >= (counter_top_i - 1) % Range

signal_o == counter_q < counter_compare_i /\ mode_i # DISABLED

Init ==
  /\ Reg!Init(0)
  /\ counter_q = 0
  /\ span = 0 /\ high = 0

\* Mutant: the counter is held, not cleared, outside edge-aligned mode.
CountHolds ==
  counter_q' = IF mode_i = EDGE_ALIGNED
               THEN IF counter_at_top THEN 0 ELSE (counter_q + 1) % Range
               ELSE counter_q

Count ==
  counter_q' = IF mode_i = EDGE_ALIGNED /\ ~counter_at_top
               THEN (counter_q + 1) % Range ELSE 0

\* A period begins when the counter is cleared; one during which a register changes
\* is Mixed and so are its figures.
Mixed == -1
History ==
  IF mode_i # EDGE_ALIGNED \/ counter_at_top
  THEN span' = 0 /\ high' = 0
  ELSE IF span = Mixed \/ stored' # stored
  THEN span' = Mixed /\ high' = 0
  ELSE span' = span + 1 /\ high' = high + (IF signal_o THEN 1 ELSE 0)

Cycle(req) == Reg!Step(req) /\ Count /\ History

Next == \E req \in (IF is_active THEN {} ELSE Requests) \cup {NoReq} : Cycle(req)

Spec == Init /\ [][Next]_vars

-----------------------------------------------------------------------------
(* Properties.                                                             *)

TypeOK ==
  /\ stored["CONF"] \in 0..3
  /\ counter_top_i \in 0..Range-1 /\ counter_compare_i \in 0..Range-1
  /\ counter_q \in 0..Range-1
  /\ span \in {Mixed} \cup 0..Range-1 /\ high \in 0..Range-1

Smaller(a, b) == IF a < b THEN a ELSE b
Period == IF counter_top_i = 0 THEN Range ELSE counter_top_i

\* A period in which software changes nothing takes exactly COUNT_TOP cycles (2^32 for
\* a top of 0), and the output is high in exactly min(COUNT_COMPARE, COUNT_TOP) of
\* them; whatever happened in the periods before.
DutyExact ==
  [][mode_i = EDGE_ALIGNED /\ counter_at_top /\ span # Mixed =>
       /\ span + 1 = Period
       /\ high + (IF signal_o THEN 1 ELSE 0) = Smaller(counter_compare_i, Period)]_vars

\* Lowering COUNT_TOP below the running counter never sends the counter on a lap
\* through its whole range: the cycle after, it is inside the new period.
NoRunaway ==
  [][mode_i = EDGE_ALIGNED => counter_q' < Period]_vars

\* The output of a running channel is high whenever the counter is above the compare
\* value: the register description of COUNT_COMPARE, which the driver does not follow.
HighAboveCompare ==
  mode_i = EDGE_ALIGNED /\ counter_q > counter_compare_i => signal_o
=============================================================================
