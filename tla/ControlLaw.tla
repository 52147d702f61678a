----------------------------- MODULE ControlLaw -----------------------------
(***************************************************************************)
(* The arithmetic of controller_top.sv: u = K (xref - xstate) + u0 in      *)
(* three registered stages that run in every clock cycle, whatever the     *)
(* operand registers hold.  One step is one cycle.  The operands are given *)
(* by the reader (DroneController); here any one of them may change in any *)
(* cycle, as they do while a load is running.                              *)
(***************************************************************************)
EXTENDS VecArith

CONSTANTS
  Half,      \* 2^(NUM_W-1): elements are the numbers of -Half..Half-1
  Frac,      \* 2^(number of fractional bits); Q4.4: 16
  KRows,     \* K_MATRIX_DIM[0] = U_VEC_DIM
  KCols,     \* K_MATRIX_DIM[1] = X_VEC_DIM
  Ks, Xs, Us \* matrices, state and control vectors the operands may take

Rows == 0..KRows-1
Cols == 0..KCols-1

ASSUME LawAssumption ==
  /\ Half \in Nat \ {0} /\ Frac \in Nat \ {0}
  /\ KRows \in Nat \ {0} /\ KCols \in Nat \ {0}
  /\ Ks \subseteq [Rows -> [Cols -> Signed(Half)]]
  /\ Xs \subseteq [Cols -> Signed(Half)]
  /\ Us \subseteq [Rows -> Signed(Half)]

VARIABLES
  matk_q, xref_q, xstate_q, u0_q,  \* operands
  x_err_q,                         \* first stage
  k_dot_x_result_q,                \* second stage
  uout_q,                          \* third stage: a single element, not a vector
  quiet                            \* history: cycles since an operand changed, up to 3

operands == <<matk_q, xref_q, xstate_q, u0_q>>
vars == <<operands, x_err_q, k_dot_x_result_q, uout_q, quiet>>

ZeroX == [j \in Cols |-> 0]
ZeroU == [i \in Rows |-> 0]

Init ==
  /\ matk_q = [i \in Rows |-> ZeroX]
  /\ xref_q = ZeroX /\ xstate_q = ZeroX /\ u0_q = ZeroU
  /\ x_err_q = ZeroX /\ k_dot_x_result_q = ZeroU /\ uout_q = 0
  /\ quiet = 0

x_err_d == vec_sub_signed_sat(xref_q, xstate_q, Half)
k_dot_x_result_d == [i \in Rows |-> vec_dot_signed_sat(x_err_q, matk_q[i], Half)]

\* The sum of the vectors is connected to a wire of one element: the lowest.
uout_d == vec_add_signed_sat(u0_q, k_dot_x_result_q, Half)[0]

\* The registers of the three stages.
Pipeline ==
  /\ x_err_q' = x_err_d
  /\ k_dot_x_result_q' = k_dot_x_result_d
  /\ uout_q' = uout_d

Keep ==
  /\ UNCHANGED operands
  /\ quiet' = IF quiet < 3 THEN quiet + 1 ELSE quiet

LoadK      == matk_q' \in Ks   /\ UNCHANGED <<xref_q, xstate_q, u0_q>> /\ quiet' = 0
LoadXref   == xref_q' \in Xs   /\ UNCHANGED <<matk_q, xstate_q, u0_q>> /\ quiet' = 0
LoadXstate == xstate_q' \in Xs /\ UNCHANGED <<matk_q, xref_q, u0_q>>   /\ quiet' = 0
LoadU0     == u0_q' \in Us     /\ UNCHANGED <<matk_q, xref_q, xstate_q>> /\ quiet' = 0

Next == Pipeline /\ (Keep \/ LoadK \/ LoadXref \/ LoadXstate \/ LoadU0)

Spec == Init /\ [][Next]_vars

-----------------------------------------------------------------------------
(* Properties.                                                             *)

TypeOK ==
  /\ matk_q \in [Rows -> [Cols -> Signed(Half)]]
  /\ xref_q \in [Cols -> Signed(Half)] /\ xstate_q \in [Cols -> Signed(Half)]
  /\ u0_q \in [Rows -> Signed(Half)]
  /\ x_err_q \in [Cols -> Signed(Half)]
  /\ k_dot_x_result_q \in [Rows -> Signed(Half)]
  /\ uout_q \in Signed(Half)
  /\ quiet \in 0..3

\* The control law over the integers, every intermediate result clamped to the range.
Error == [j \in Cols |-> Clamp(xref_q[j] - xstate_q[j], Half)]
Law(i) == Clamp(u0_q[i] + Clamp(Dot(Error, matk_q[i]), Half), Half)

\* Three cycles after the last operand changed, the output is the control law of the
\* operands as they are: no stage wraps around, no stage still holds an older value.
SettlesToLaw == quiet = 3 => uout_q = Law(0)

\* What the package says of the numbers (Q4.4): the product of two of them has twice
\* the fractional bits, so the output is u0 + (K x_err) / Frac, to less than one unit.
Exact == Frac * u0_q[0] + Dot(Error, matk_q[0])
FixedPointLaw ==
  quiet = 3 /\ Exact \in (Frac * (-Half))..(Frac * (Half - 1))
    => Frac * uout_q - Exact \in (1 - Frac)..(Frac - 1)
=============================================================================
