------------------------- MODULE ControlLaw_proofs -------------------------
(***************************************************************************)
(* The saturating arithmetic computes the integers clamped to their range, *)
(* for every width and every length of the vectors; and the pipeline       *)
(* settles to the control law.                                             *)
(***************************************************************************)
EXTENDS ControlLaw, DataLemmas

-----------------------------------------------------------------------------
(* Numbers of finite width.                                                *)

\* The quotient of a number that lies less than d above q times d.
LEMMA Quotient ==
  ASSUME NEW d \in Nat \ {0}, NEW q \in Int, NEW x \in Int, q * d <= x, x < q * d + d
  PROVE  x \div d = q
<1> DEFINE p == q * d
           r == x - p
<1>1. p \in Int
  OBVIOUS
<1> HIDE DEF p
<1>2. r \in Int /\ x = p + r /\ 0 <= r /\ r < d
  BY <1>1 DEF p
<1> HIDE DEF r
<1> QED BY <1>2, Division DEF p

LEMMA Truncated ==
  ASSUME NEW h \in Nat \ {0}, NEW x \in Int
  PROVE  /\ Truncate(x, h) \in Signed(h)
         /\ x \in Signed(h) => Truncate(x, h) = x
<1> DEFINE n == 2*h
           y == x + h
<1>1. n \in Nat \ {0} /\ y \in Int /\ n = 2*h /\ y = x + h
  OBVIOUS
<1>2. Truncate(x, h) = (y % n) - h
  BY DEF Truncate
<1> HIDE DEF n, y
<1>3. y % n \in 0..n-1 /\ (0 <= y /\ y < n => y % n = y)
  BY <1>1, Remainder
<1> QED BY <1>1, <1>2, <1>3 DEF Signed

\* The two top bits of a number one bit wider tell where it lies.
LEMMA Saturated ==
  ASSUME NEW h \in Nat \ {0}, NEW x \in Signed(2*h)
  PROVE  Saturate(x, h) = Clamp(x, h)
<1> DEFINE n == 2*(2*h)
           y == x % n
<1>1. n \in Nat \ {0} /\ x \in Int /\ n = 4*h /\ -(2*h) <= x /\ x < 2*h
  BY DEF Signed
<1>2. UpperBits(x, 2*h, h) = y \div h
  BY DEF UpperBits
<1>3. y = IF x >= 0 THEN x ELSE x + 4*h
  <2>0. x < n /\ -n <= x
    BY <1>1
  <2> HIDE DEF n
  <2>1. x >= 0 => y = x
    BY <1>1, <2>0, Remainder
  <2>2. x < 0 => y = x + n
    BY <1>1, <2>0, Remainder
  <2> QED BY <1>1, <2>1, <2>2
<1> HIDE DEF y, n
<1>4. y \in Int
  BY <1>1, <1>3
<1>5. CASE x >= h
  <2>1. 1 * h <= y /\ y < 1 * h + h
    BY <1>1, <1>3, <1>5
  <2>2. y \div h = 1
    BY <1>4, <2>1, Quotient
  <2> QED BY <1>1, <1>2, <1>5, <2>2 DEF Saturate, Clamp
<1>6. CASE 0 <= x /\ x < h
  <2>1. 0 * h <= y /\ y < 0 * h + h
    BY <1>1, <1>3, <1>6
  <2>2. y \div h = 0
    BY <1>4, <2>1, Quotient
  <2>3. Truncate(x, h) = x
    BY <1>1, <1>6, Truncated DEF Signed
  <2> QED BY <1>1, <1>2, <1>6, <2>2, <2>3 DEF Saturate, Clamp
<1>7. CASE x < 0 /\ -h <= x
  <2>1. 3 * h <= y /\ y < 3 * h + h
    BY <1>1, <1>3, <1>7
  <2>2. y \div h = 3
    BY <1>4, <2>1, Quotient
  <2>3. Truncate(x, h) = x
    BY <1>1, <1>7, Truncated DEF Signed
  <2> QED BY <1>1, <1>2, <1>7, <2>2, <2>3 DEF Saturate, Clamp
<1>8. CASE x < -h
  <2>1. 2 * h <= y /\ y < 2 * h + h
    BY <1>1, <1>3, <1>8
  <2>2. y \div h = 2
    BY <1>4, <2>1, Quotient
  <2> QED BY <1>1, <1>2, <1>8, <2>2 DEF Saturate, Clamp
<1> QED BY <1>1, <1>5, <1>6, <1>7, <1>8

LEMMA SaturatedSum ==
  ASSUME NEW h \in Nat \ {0}, NEW a \in Signed(h), NEW b \in Signed(h)
  PROVE  /\ SatAdd(a, b, h) = Clamp(a + b, h)
         /\ SatSub(a, b, h) = Clamp(a - b, h)
<1>1. a + b \in Int /\ a - b \in Int /\ 2*h \in Nat \ {0}
  BY DEF Signed
<1>2. a + b \in Signed(2*h) /\ a - b \in Signed(2*h)
  BY DEF Signed
<1>3. Truncate(a + b, 2*h) = a + b /\ Truncate(a - b, 2*h) = a - b
  BY <1>1, <1>2, Truncated
<1> QED BY <1>2, <1>3, Saturated DEF SatAdd, SatSub

LEMMA Clamped == ASSUME NEW h \in Nat \ {0}, NEW x \in Int PROVE Clamp(x, h) \in Signed(h)
BY DEF Clamp, Signed

-----------------------------------------------------------------------------
(* The dot product.                                                        *)

\* The accumulator has bits enough for n terms.
LEMMA Pow2Reaches == ASSUME NEW n \in Nat PROVE Pow2Above(n) \in Nat /\ n <= Pow2Above(n)
<1> DEFINE S == {p \in {2^k : k \in 0..n} : p >= n}
<1>1. S \in SUBSET Nat
  BY PowerOfTwo
<1>2. 2^n \in S
  BY PowerOfTwo
<1>3. \E m \in S : \A k \in S : m <= k
  BY <1>1, <1>2, LeastMember
<1>4. Pow2Above(n) = Min(S)
  BY DEF Pow2Above
<1> HIDE DEF S
<1>5. Min(S) \in S
  BY <1>3 DEF Min
<1> QED BY <1>1, <1>4, <1>5 DEF S

LEMMA QuotientBounds ==
  ASSUME NEW d \in Nat \ {0}, NEW x \in Int
  PROVE  x \div d \in Int /\ (x \div d) * d <= x /\ x < (x \div d) * d + d
OBVIOUS

\* The upper bits of the accumulator are all equal if and only if the result fits.
LEMMA Narrowed ==
  ASSUME NEW h \in Nat \ {0}, NEW m \in Nat \ {0}, NEW acc \in Signed(h * m)
  PROVE  LET top == UpperBits(acc, h * m, h)
         IN  (IF top \in {0, (2 * (h * m)) \div h - 1} THEN Truncate(acc, h)
              ELSE IF acc < 0 THEN -h ELSE h - 1) = Clamp(acc, h)
<1> DEFINE e == h * m
           n == 2 * e
           y == acc % n
           top == y \div h
<1>1. e \in Nat /\ e >= h /\ n \in Nat \ {0} /\ acc \in Int /\ -e <= acc /\ acc < e
  BY DEF Signed
<1>2. UpperBits(acc, h * m, h) = top
  BY DEF UpperBits
<1>3. n \div h = 2 * m
  <2> DEFINE k == 2 * m
  <2>1. k * h = n /\ n < k * h + h /\ k \in Int
    OBVIOUS
  <2> HIDE DEF n, k
  <2>2. n \div h = k
    BY <1>1, <2>1, Quotient
  <2> QED BY <2>2 DEF k
<1>4. y = IF acc >= 0 THEN acc ELSE acc + n
  <2>0. acc < n /\ -n <= acc
    BY <1>1
  <2> HIDE DEF n
  <2>1. acc >= 0 => y = acc
    BY <1>1, <2>0, Remainder
  <2>2. acc < 0 => y = acc + n
    BY <1>1, <2>0, Remainder
  <2> QED BY <1>1, <2>1, <2>2
<1> DEFINE q == 2 * m - 1
<1>5. q \in Int /\ q * h = n - h /\ n = 2 * e
  OBVIOUS
<1> HIDE DEF e, n, y, q
<1>6. y \in Int /\ top \in Int /\ top * h <= y /\ y < top * h + h
  BY <1>1, <1>4, QuotientBounds
<1>7. acc \in Signed(h) => Truncate(acc, h) = acc
  BY <1>1, Truncated
<1>8. (acc \in Signed(h)) <=> (top = 0 \/ top = q)
  <2>1. ASSUME 0 <= acc, acc < h PROVE top = 0
    <3>1. 0 * h <= y /\ y < 0 * h + h
      BY <1>1, <1>4, <2>1
    <3> QED BY <1>6, <3>1, Quotient
  <2>2. ASSUME -h <= acc, acc < 0 PROVE top = q
    <3>1. q * h <= y /\ y < q * h + h
      BY <1>1, <1>4, <1>5, <2>2
    <3> QED BY <1>5, <1>6, <3>1, Quotient
  <2>3. ASSUME acc >= h \/ acc < -h PROVE top # 0
    <3>1. y >= h
      BY <1>1, <1>4, <1>5, <2>3
    <3> QED BY <1>6, <3>1
  <2>4. ASSUME acc >= h \/ acc < -h PROVE top # q
    <3>1. y < n - h
      BY <1>1, <1>4, <1>5, <2>4
    <3> QED BY <1>5, <1>6, <3>1
  <2> HIDE DEF top
  <2> QED BY <1>1, <2>1, <2>2, <2>3, <2>4 DEF Signed
<1>9. (2 * (h * m)) \div h - 1 = q
  BY <1>3 DEF n, e, q
<1> HIDE DEF top
<1>10. CASE acc \in Signed(h)
  BY <1>1, <1>2, <1>7, <1>8, <1>9, <1>10 DEF Clamp, Signed
<1>11. CASE acc \notin Signed(h)
  BY <1>1, <1>2, <1>8, <1>9, <1>11 DEF Clamp, Signed
<1> QED BY <1>10, <1>11

LEMMA ProductBound ==
  ASSUME NEW h \in Nat \ {0}, NEW a \in Signed(h), NEW b \in Signed(h)
  PROVE  a * b \in Int /\ -(h * h) <= a * b /\ a * b <= h * h
<1>1. a \in Int /\ -h <= a /\ a <= h /\ b \in Int /\ -h <= b /\ b <= h
  BY DEF Signed
<1> QED BY <1>1

\* The dot product of vectors of every length is the integer one, clamped.
LEMMA DotClamped ==
  ASSUME NEW h \in Nat \ {0}, NEW D, IsFiniteSet(D), D # {},
         NEW A \in [D -> Signed(h)], NEW B \in [D -> Signed(h)]
  PROVE  Dot(A, B) \in Int /\ vec_dot_signed_sat(A, B, h) = Clamp(Dot(A, B), h)
<1> DEFINE c == Cardinality(D)
           G == Pow2Above(c)
           w == h * h
           P == [i \in D |-> A[i] * B[i]]
           T == [i \in D |-> Truncate(A[i] * B[i], 2*h*h)]
           S == SumFunction(P)
<1>1. c \in Nat \ {0} /\ G \in Nat /\ c <= G /\ w \in Nat \ {0}
  BY Pow2Reaches, FS_CardinalityType, FS_EmptySet
<1>2. ASSUME NEW i \in D PROVE A[i] * B[i] \in Int /\ -w <= A[i] * B[i] /\ A[i] * B[i] <= w
  BY ProductBound
<1>3. T = P
  <2> SUFFICES ASSUME NEW i \in D PROVE Truncate(A[i] * B[i], 2*h*h) = A[i] * B[i]
    OBVIOUS
  <2> DEFINE x == A[i] * B[i]
  <2>1. x \in Int /\ -w <= x /\ x <= w
    BY <1>2
  <2>2. 2*h*h = 2*w
    OBVIOUS
  <2> HIDE DEF x, w
  <2>3. x \in Signed(2*w) /\ 2*w \in Nat \ {0}
    BY <1>1, <2>1 DEF Signed
  <2>4. Truncate(x, 2*w) = x
    BY <2>1, <2>3, Truncated
  <2> QED BY <2>2, <2>4 DEF x
<1>4. P \in [D -> Int] /\ \A i \in D : -w <= P[i] /\ P[i] <= w
  BY <1>2
<1> HIDE DEF P, T, c
<1>5. S \in Int /\ -(w * c) <= S /\ S <= w * c
  <2>1. w \in Int /\ -w \in Int /\ (-w) * c = -(w * c)
    BY <1>1
  <2> HIDE DEF w
  <2>2. S \in Int /\ (-w) * c <= S /\ S <= w * c
    BY <1>4, <2>1, SumBound DEF c
  <2> QED BY <2>1, <2>2
<1> DEFINE m == 2 * h * G
<1>6. m \in Nat \ {0} /\ h * m = 2 * (w * G)
  <2> HIDE DEF G
  <2> QED BY <1>1
<1>7. AccHalf(c, h) = h * m
  <2> HIDE DEF G
  <2>1. 2 * h * h * G = h * m
    BY <1>1
  <2> QED BY <2>1 DEF AccHalf, G
<1>8. w * c <= w * G /\ w * c \in Nat /\ w * G \in Nat /\ w * G > 0
  <2> HIDE DEF G, w
  <2> QED BY <1>1
<1> HIDE DEF w, G, m, S
<1>9. S \in Signed(h * m) /\ h * m \in Nat \ {0}
  BY <1>5, <1>6, <1>8 DEF Signed
<1>10. Truncate(S, h * m) = S
  BY <1>5, <1>9, Truncated
<1>11. Dot(A, B) = S
  BY DEF Dot, S, P
<1>12. vec_dot_signed_sat(A, B, h) =
         LET top == UpperBits(S, h * m, h)
         IN  IF top \in {0, (2 * (h * m)) \div h - 1} THEN Truncate(S, h)
             ELSE IF S < 0 THEN -h ELSE h - 1
  <2>1. DOMAIN A = D
    OBVIOUS
  <2>2. SumFunction([i \in D |-> Truncate(A[i] * B[i], 2*h*h)]) = S
    BY <1>3 DEF S, T
  <2> QED BY <1>7, <1>10, <2>1, <2>2 DEF vec_dot_signed_sat, c
<1> QED BY <1>5, <1>6, <1>9, <1>11, <1>12, Narrowed

-----------------------------------------------------------------------------
(* The pipeline.                                                           *)

LEMMA Dimensions ==
  /\ IsFiniteSet(Cols) /\ Cols # {} /\ 0 \in Rows
  /\ Half \in Nat \ {0} /\ 0 \in Signed(Half)
<1>1. KCols - 1 \in Int /\ KCols - 1 >= 0 /\ KRows - 1 >= 0 /\ KRows \in Nat
  BY LawAssumption
<1>2. IsFiniteSet(Cols)
  BY <1>1, FS_Interval DEF Cols
<1>3. 0 \in Cols /\ 0 \in Rows
  BY <1>1, LawAssumption DEF Cols, Rows
<1>4. Half \in Nat \ {0} /\ 0 \in Signed(Half)
  BY LawAssumption DEF Signed
<1> QED BY <1>2, <1>3, <1>4

\* What the three stages compute.
LEMMA Stages ==
  ASSUME TypeOK
  PROVE  /\ x_err_d = Error /\ Error \in [Cols -> Signed(Half)]
         /\ k_dot_x_result_d = [i \in Rows |-> Clamp(Dot(x_err_q, matk_q[i]), Half)]
         /\ k_dot_x_result_d \in [Rows -> Signed(Half)]
         /\ uout_d = Clamp(u0_q[0] + k_dot_x_result_q[0], Half) /\ uout_d \in Signed(Half)
<1>1. x_err_d = Error
  <2>1. \A j \in Cols : SatSub(xref_q[j], xstate_q[j], Half) = Clamp(xref_q[j] - xstate_q[j], Half)
    BY Dimensions, SaturatedSum DEF TypeOK
  <2> QED BY <2>1 DEF x_err_d, vec_sub_signed_sat, Error, TypeOK
<1>2. Error \in [Cols -> Signed(Half)]
  <2>1. \A j \in Cols : xref_q[j] - xstate_q[j] \in Int
    BY DEF TypeOK, Signed
  <2> QED BY <2>1, Dimensions, Clamped DEF Error
<1>3. ASSUME NEW i \in Rows
      PROVE  /\ Dot(x_err_q, matk_q[i]) \in Int
             /\ vec_dot_signed_sat(x_err_q, matk_q[i], Half) = Clamp(Dot(x_err_q, matk_q[i]), Half)
  BY Dimensions, DotClamped DEF TypeOK
<1>4. k_dot_x_result_d = [i \in Rows |-> Clamp(Dot(x_err_q, matk_q[i]), Half)]
  BY <1>3 DEF k_dot_x_result_d
<1>5. k_dot_x_result_d \in [Rows -> Signed(Half)]
  BY <1>3, <1>4, Dimensions, Clamped
<1>6. u0_q[0] \in Signed(Half) /\ k_dot_x_result_q[0] \in Signed(Half) /\ DOMAIN u0_q = Rows
  BY Dimensions DEF TypeOK
<1>7. uout_d = Clamp(u0_q[0] + k_dot_x_result_q[0], Half)
  BY <1>6, Dimensions, SaturatedSum DEF uout_d, vec_add_signed_sat
<1>8. uout_d \in Signed(Half)
  <2>1. u0_q[0] + k_dot_x_result_q[0] \in Int
    BY <1>6 DEF Signed
  <2> QED BY <1>7, <2>1, Dimensions, Clamped
<1> QED BY <1>1, <1>2, <1>4, <1>5, <1>7, <1>8

\* Each stage has settled one cycle after the stage before it.
Settled ==
  /\ quiet >= 1 => x_err_q = Error
  /\ quiet >= 2 => \A i \in Rows : k_dot_x_result_q[i] = Clamp(Dot(Error, matk_q[i]), Half)
  /\ SettlesToLaw
Inv == TypeOK /\ Settled

LEMMA InvInit == Init => Inv
<1> SUFFICES ASSUME Init PROVE Inv
  OBVIOUS
<1>1. TypeOK
  BY Dimensions DEF Init, TypeOK, ZeroX, ZeroU
<1> QED BY <1>1 DEF Init, Inv, Settled, SettlesToLaw

LEMMA InvNext == Inv /\ [Next]_vars => Inv'
<1> SUFFICES ASSUME Inv, [Next]_vars PROVE Inv'
  OBVIOUS
<1>1. CASE UNCHANGED vars
  BY <1>1 DEF vars, operands, Inv, TypeOK, Settled, SettlesToLaw, Law, Error
<1>2. CASE Next
  <2>1. /\ x_err_q' = x_err_d /\ k_dot_x_result_q' = k_dot_x_result_d /\ uout_q' = uout_d
        /\ Keep \/ LoadK \/ LoadXref \/ LoadXstate \/ LoadU0
    BY <1>2 DEF Next, Pipeline
  <2>2. TypeOK'
    <3>1. /\ matk_q' \in [Rows -> [Cols -> Signed(Half)]]
          /\ xref_q' \in [Cols -> Signed(Half)] /\ xstate_q' \in [Cols -> Signed(Half)]
          /\ u0_q' \in [Rows -> Signed(Half)] /\ quiet' \in 0..3
      BY <2>1, LawAssumption
      DEF Inv, TypeOK, Keep, LoadK, LoadXref, LoadXstate, LoadU0, operands
    <3> QED BY <2>1, <3>1, Stages DEF Inv, TypeOK
  <2>3. CASE Keep
    <3>1. /\ UNCHANGED <<matk_q, xref_q, xstate_q, u0_q>> /\ Error' = Error
          /\ quiet' = IF quiet < 3 THEN quiet + 1 ELSE quiet
          /\ quiet \in 0..3
      BY <2>3 DEF Keep, operands, Error, Inv, TypeOK
    <3>2. x_err_q' = Error'
      BY <2>1, <3>1, Stages DEF Inv
    <3>3. ASSUME quiet' >= 2, NEW i \in Rows
          PROVE  k_dot_x_result_q'[i] = Clamp(Dot(Error, matk_q[i]), Half)
      <4>1. x_err_q = Error
        BY <3>1, <3>3 DEF Inv, Settled
      <4> QED BY <2>1, <4>1, Stages DEF Inv
    <3>4. ASSUME quiet' = 3 PROVE uout_q' = Law(0)
      <4>1. k_dot_x_result_q[0] = Clamp(Dot(Error, matk_q[0]), Half)
        BY <3>1, <3>4, Dimensions DEF Inv, Settled
      <4> QED BY <2>1, <4>1, Stages DEF Inv, Law
    <3>5. Law(0)' = Law(0)
      BY <3>1 DEF Law
    <3> QED BY <2>2, <3>1, <3>2, <3>3, <3>4, <3>5 DEF Inv, Settled, SettlesToLaw
  <2>4. CASE ~Keep
    <3>1. quiet' = 0
      BY <2>1, <2>4 DEF LoadK, LoadXref, LoadXstate, LoadU0
    <3> QED BY <2>2, <3>1 DEF Inv, Settled, SettlesToLaw
  <2> QED BY <2>3, <2>4
<1> QED BY <1>1, <1>2

\* No stage ever leaves its range, whatever operands are loaded and when.
THEOREM TypeCorrect == Spec => []TypeOK
<1>1. Inv => TypeOK
  BY DEF Inv
<1> QED BY <1>1, InvInit, InvNext, PTL DEF Spec

\* Three cycles after the last operand changed the output is the clamped control law of
\* the operands, for numbers of every width and matrices of every size: the accumulator
\* is wide enough, and no stage wraps around or lags.
THEOREM Settles == Spec => []SettlesToLaw
<1>1. Inv => SettlesToLaw
  BY DEF Inv, Settled
<1> QED BY <1>1, InvInit, InvNext, PTL DEF Spec
=============================================================================
