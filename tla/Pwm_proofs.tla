----------------------------- MODULE Pwm_proofs -----------------------------
(***************************************************************************)
(* Proofs about Pwm, for counters of every width and any requests.         *)
(***************************************************************************)
EXTENDS Pwm, TLAPS

Regs == {"CONF", "COUNT_TOP", "COUNT_COMPARE"}

\* The shape of the registers, and what the request being decoded may be.
RegsOK ==
  /\ stored = [r \in Regs |-> stored[r]]
  /\ cpuif \in Requests \cup {NoReq}

\* While nothing has changed since the period began, span is the counter, and the
\* output has been high as long as the counter was below the compare value.
PeriodAccounted ==
  span # Mixed =>
    /\ span = counter_q /\ counter_q < Period
    /\ high = Smaller(counter_compare_i, counter_q)

Inv == TypeOK /\ RegsOK /\ PeriodAccounted

-----------------------------------------------------------------------------
(* Arithmetic.                                                             *)

\* The value before a, in a counter that wraps.
LEMMA Before ==
  ASSUME NEW a \in 0..Range-1
  PROVE  (a - 1) % Range = (IF a = 0 THEN Range ELSE a) - 1
<1>1. Range \in Nat /\ Range > 0
  BY PwmAssumption
<1>2. CASE a = 0
  <2>1. \A b \in Nat : b > 0 => (0 - 1) % b = b - 1
    OBVIOUS
  <2> QED BY <1>1, <1>2, <2>1
<1>3. CASE a # 0
  <2>1. \A b, c \in Nat : c < b => c % b = c
    OBVIOUS
  <2> QED BY <1>1, <1>3, <2>1
<1> QED BY <1>2, <1>3

LEMMA After ==
  ASSUME NEW a \in Nat, a + 1 < Range PROVE (a + 1) % Range = a + 1
<1>1. \A b, c \in Nat : c < b => c % b = c
  OBVIOUS
<1> QED BY <1>1, PwmAssumption

LEMMA PeriodRange == ASSUME TypeOK PROVE Period \in 1..Range /\ Period \in Nat
BY PwmAssumption DEF TypeOK, Period

\* The counter is at the top from the last cycle of the period on.
LEMMA AtTop == ASSUME TypeOK PROVE counter_at_top <=> counter_q >= Period - 1
BY Before DEF TypeOK, Period, counter_at_top

\* What a cycle does to the counter.
LEMMA CountStep ==
  ASSUME TypeOK, Count
  PROVE  /\ mode_i # EDGE_ALIGNED \/ counter_at_top => counter_q' = 0
         /\ mode_i = EDGE_ALIGNED /\ ~counter_at_top =>
              counter_q' = counter_q + 1 /\ counter_q' < Period
<1>1. ASSUME ~counter_at_top PROVE counter_q + 1 < Period
  <2>1. ~(counter_q >= Period - 1)
    BY <1>1, AtTop, Zenon
  <2>2. counter_q \in Nat /\ Period \in Nat
    BY PeriodRange DEF TypeOK
  <2> QED BY <2>1, <2>2
<1>2. counter_q \in Nat /\ Range \in Nat /\ Period \in 1..Range
  BY PeriodRange, PwmAssumption DEF TypeOK
<1>3. ASSUME ~counter_at_top PROVE (counter_q + 1) % Range = counter_q + 1
  BY <1>1, <1>2, <1>3, After
<1> QED BY <1>1, <1>3 DEF Count

-----------------------------------------------------------------------------
(* The invariant.                                                          *)

LEMMA InvInit == Init => Inv
<1> SUFFICES ASSUME Init PROVE Inv
  OBVIOUS
<1>1. /\ stored = [r \in Regs |-> 0] /\ cpuif = NoReq /\ counter_q = 0 /\ span = 0 /\ high = 0
  BY DEF Init, Reg!Init, Regs
<1>2. TypeOK /\ RegsOK
  BY <1>1, PwmAssumption DEF TypeOK, RegsOK, Regs, counter_top_i, counter_compare_i
<1>3. PeriodAccounted
  BY <1>1, <1>2, PeriodRange
  DEF PeriodAccounted, Smaller, TypeOK, counter_compare_i, Regs
<1> QED BY <1>2, <1>3 DEF Inv

\* A register changes by a write, to a value of its type.
LEMMA RegsStep ==
  ASSUME TypeOK, RegsOK, NEW req \in Requests \cup {NoReq}, Reg!Step(req)
  PROVE  /\ RegsOK' /\ stored'["CONF"] \in 0..3
         /\ stored'["COUNT_TOP"] \in 0..Range-1 /\ stored'["COUNT_COMPARE"] \in 0..Range-1
<1>1. cpuif' \in Requests \cup {NoReq}
  BY DEF Reg!Step, Reg!Capture
<1>2. CASE stored' = stored
  BY <1>1, <1>2 DEF TypeOK, RegsOK, counter_top_i, counter_compare_i
<1>3. CASE /\ cpuif # NoReq /\ cpuif.reg \in Regs
           /\ stored' = [stored EXCEPT ![cpuif.reg] = cpuif.value]
  <2>1. cpuif \in Requests
    BY <1>3 DEF RegsOK
  <2>2. cpuif.value \in 0..Range-1 /\ (cpuif.reg = "CONF" => cpuif.value \in 0..3)
    BY <2>1, PwmAssumption
  <2>3. \A r \in Regs : stored'[r] = IF r = cpuif.reg THEN cpuif.value ELSE stored[r]
    BY <1>3 DEF RegsOK
  <2>4. RegsOK'
    BY <1>1, <1>3 DEF RegsOK
  <2> QED BY <2>2, <2>3, <2>4 DEF TypeOK, Regs, counter_top_i, counter_compare_i
<1> QED BY <1>2, <1>3 DEF Reg!Step, Reg!StoredFields, Regs

LEMMA InvNext == Inv /\ [Next]_vars => Inv'
<1> SUFFICES ASSUME Inv, [Next]_vars PROVE Inv'
  OBVIOUS
<1>1. CASE UNCHANGED vars
  BY <1>1 DEF vars, regvars, Inv, TypeOK, RegsOK, PeriodAccounted, Period, Smaller,
     counter_top_i, counter_compare_i
<1>2. ASSUME NEW req \in Requests \cup {NoReq}, Cycle(req) PROVE Inv'
  <2>1. /\ RegsOK' /\ stored'["CONF"] \in 0..3
        /\ stored'["COUNT_TOP"] \in 0..Range-1 /\ stored'["COUNT_COMPARE"] \in 0..Range-1
    BY <1>2, RegsStep DEF Inv, Cycle
  <2>2. /\ mode_i # EDGE_ALIGNED \/ counter_at_top => counter_q' = 0
        /\ mode_i = EDGE_ALIGNED /\ ~counter_at_top =>
             counter_q' = counter_q + 1 /\ counter_q' < Period
    BY <1>2, CountStep DEF Inv, Cycle
  <2>3. counter_q \in Nat /\ Period \in 1..Range /\ Range \in Nat /\ Range > 0
    BY PeriodRange, PwmAssumption DEF Inv, TypeOK
  <2>4. counter_q' \in 0..Range-1
    BY <2>2, <2>3
  <2>5. TypeOK' <=> span' \in {Mixed} \cup 0..Range-1 /\ high' \in 0..Range-1
    BY <2>1, <2>4 DEF TypeOK, counter_top_i, counter_compare_i
  <2>6. CASE mode_i # EDGE_ALIGNED \/ counter_at_top
    <3>1. span' = 0 /\ high' = 0 /\ counter_q' = 0
      BY <1>2, <2>2, <2>6 DEF Cycle, History
    <3>2. TypeOK'
      BY <2>3, <2>5, <3>1
    <3>3. Period' > 0 /\ counter_compare_i' \in Nat
      BY <2>1, <2>3 DEF Period, counter_top_i, counter_compare_i
    <3>4. \A c \in Nat : Smaller(c, 0) = 0
      BY DEF Smaller
    <3>5. Smaller(counter_compare_i', counter_q') = 0
      BY <3>1, <3>3, <3>4
    <3>6. PeriodAccounted'
      BY <3>1, <3>3, <3>5 DEF PeriodAccounted
    <3> QED BY <2>1, <3>2, <3>6 DEF Inv
  <2>7. CASE mode_i = EDGE_ALIGNED /\ ~counter_at_top
    <3>1. counter_q' = counter_q + 1 /\ counter_q' < Period
      BY <2>2, <2>7
    <3>2. CASE span = Mixed \/ stored' # stored
      <4>1. span' = Mixed /\ high' = 0
        BY <1>2, <2>7, <3>2 DEF Cycle, History
      <4> QED BY <2>1, <2>3, <2>5, <4>1 DEF Inv, PeriodAccounted
    <3>3. CASE span # Mixed /\ stored' = stored
      <4>1. span' = span + 1 /\ high' = high + (IF signal_o THEN 1 ELSE 0)
        BY <1>2, <2>7, <3>3 DEF Cycle, History
      <4>2. span = counter_q /\ high = Smaller(counter_compare_i, counter_q)
        BY <3>3 DEF Inv, PeriodAccounted
      <4>3. signal_o <=> counter_q < counter_compare_i
        BY <2>7 DEF signal_o, EDGE_ALIGNED, DISABLED
      <4>4. counter_compare_i \in Nat
        BY DEF Inv, TypeOK
      <4>5. high' = Smaller(counter_compare_i, counter_q + 1) /\ high' \in Nat /\ high' <= counter_q + 1
        BY <2>3, <4>1, <4>2, <4>3, <4>4 DEF Smaller
      <4>6. Period' = Period /\ counter_compare_i' = counter_compare_i
        BY <3>3 DEF Period, counter_top_i, counter_compare_i
      <4>7. span' \in 0..Range-1 /\ high' \in 0..Range-1
        BY <2>3, <3>1, <4>1, <4>2, <4>5
      <4>8. PeriodAccounted'
        BY <3>1, <4>1, <4>2, <4>5, <4>6 DEF PeriodAccounted, Smaller
      <4> QED BY <2>1, <2>5, <4>7, <4>8 DEF Inv
    <3> QED BY <3>2, <3>3
  <2> QED BY <2>6, <2>7
<1> QED BY <1>1, <1>2 DEF Next

\* Registers, counter and figures stay within their types.
THEOREM TypeCorrect == Spec => []TypeOK
<1>1. Inv => TypeOK
  BY DEF Inv
<1> QED BY <1>1, InvInit, InvNext, PTL DEF Spec

\* A counter of any width is back inside the period one cycle after the top was lowered.
THEOREM InsidePeriod == Spec => NoRunaway
<1>1. Inv /\ [Next]_vars => [mode_i = EDGE_ALIGNED => counter_q' < Period]_vars
  <2> SUFFICES ASSUME Inv, NEW req, Cycle(req), mode_i = EDGE_ALIGNED
               PROVE  counter_q' < Period
    BY DEF Next
  <2> QED BY CountStep, PeriodRange DEF Inv, Cycle
<1> QED BY <1>1, InvInit, InvNext, PTL DEF Spec, NoRunaway

\* A period without a write takes Period cycles and is high in the smaller of compare and
\* period of them, for counters of every width.
THEOREM ExactDuty == Spec => DutyExact
<1>1. Inv /\ [Next]_vars =>
        [mode_i = EDGE_ALIGNED /\ counter_at_top /\ span # Mixed =>
           /\ span + 1 = Period
           /\ high + (IF signal_o THEN 1 ELSE 0) = Smaller(counter_compare_i, Period)]_vars
  <2> SUFFICES ASSUME Inv, mode_i = EDGE_ALIGNED, counter_at_top, span # Mixed
               PROVE  /\ span + 1 = Period
                      /\ high + (IF signal_o THEN 1 ELSE 0) = Smaller(counter_compare_i, Period)
    OBVIOUS
  <2>1. /\ span = counter_q /\ counter_q < Period
        /\ high = Smaller(counter_compare_i, counter_q)
    BY DEF Inv, PeriodAccounted
  <2>2. counter_q >= Period - 1
    BY AtTop DEF Inv
  <2>3. counter_q \in Nat /\ Period \in Nat /\ counter_compare_i \in Nat
    BY PeriodRange DEF Inv, TypeOK
  <2>4. counter_q + 1 = Period
    BY <2>1, <2>2, <2>3
  <2>5. signal_o <=> counter_q < counter_compare_i
    BY DEF signal_o, EDGE_ALIGNED, DISABLED
  <2> QED BY <2>1, <2>3, <2>4, <2>5 DEF Smaller
<1> QED BY <1>1, InvInit, InvNext, PTL DEF Spec, DutyExact
=============================================================================
