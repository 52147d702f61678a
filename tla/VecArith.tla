------------------------------ MODULE VecArith ------------------------------
(***************************************************************************)
(* rtl/drone_controller/vector_arithmetic: saturating addition,            *)
(* subtraction and dot product of signed vectors, on two's complement      *)
(* numbers of finite width as the hardware computes them.  A width of w    *)
(* bits is given by h = 2^(w-1): the signed numbers of that width are      *)
(* -h..h-1, and one bit more doubles h.                                    *)
(***************************************************************************)
EXTENDS Integers, FiniteSetsExt, Functions

Signed(h) == -h..h-1

\* The number that the lowest bits of x represent, read as signed.
Truncate(x, h) == ((x + h) % (2*h)) - h

\* All bits of x from bit w-1 upwards, where x itself has the width given by e.
UpperBits(x, e, h) == (x % (2*e)) \div h

\* Mutants: a sum that does not fit is cut off; it is passed on one bit too wide.
Wrapped(x, h) == Truncate(x, h)
Unnarrowed(x, h) == x

\* The top two bits of a sum that is one bit wider than its result differ if and only
\* if it does not fit: 10 is an underflow, 01 an overflow.
Saturate(x, h) ==
  CASE UpperBits(x, 2*h, h) = 2 -> -h
    [] UpperBits(x, 2*h, h) = 1 -> h - 1
    [] OTHER -> Truncate(x, h)

SatAdd(a, b, h) == Saturate(Truncate(a + b, 2*h), h)
SatSub(a, b, h) == Saturate(Truncate(a - b, 2*h), h)

vec_add_signed_sat(A, B, h) == [i \in DOMAIN A |-> SatAdd(A[i], B[i], h)]
vec_sub_signed_sat(A, B, h) == [i \in DOMAIN A |-> SatSub(A[i], B[i], h)]

\* 2^$clog2(n), the growth of a sum of n terms.
Pow2Above(n) == Min({p \in {2^k : k \in 0..n} : p >= n})

\* ACC_W is the width of a product and $clog2(VEC_W) bits more.
AccHalf(n, h) == 2 * h * h * Pow2Above(n)

vec_dot_signed_sat(A, B, h) ==
  LET e   == AccHalf(Cardinality(DOMAIN A), h)
      acc == Truncate(SumFunction([i \in DOMAIN A |-> Truncate(A[i] * B[i], 2*h*h)]), e)
      top == UpperBits(acc, e, h)
  IN  IF top \in {0, (2*e) \div h - 1} THEN Truncate(acc, h)
      ELSE IF acc < 0 THEN -h ELSE h - 1

-----------------------------------------------------------------------------
(* The mathematics they stand for.                                         *)

Clamp(x, h) == IF x < -h THEN -h ELSE IF x >= h THEN h - 1 ELSE x
Dot(A, B)   == SumFunction([i \in DOMAIN A |-> A[i] * B[i]])
=============================================================================
