---------------------------- MODULE MCControlLaw ----------------------------
(* A 2 x 2 law on 3-bit numbers.  The samples reach both ends of the range,  *)
(* so that each of the three stages saturates, both ways, and does not.      *)
EXTENDS ControlLaw

Vec(a, b) == [i \in 0..1 |-> IF i = 0 THEN a ELSE b]
MCXs == {Vec(-4, 3), Vec(3, -4), Vec(1, 0), Vec(-4, -4)}
MCKs == {Vec(Vec(-4, -4), Vec(1, 2)), Vec(Vec(1, -1), Vec(0, 3)), Vec(Vec(1, 0), Vec(0, 0))}
MCUs == {Vec(3, 0), Vec(-4, 1)}
=============================================================================
