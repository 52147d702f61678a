------------------------------- MODULE MCPwm -------------------------------
(* A three-bit counter: tops below, at and above the counter, the compare    *)
(* values 0, inside the period and above it, every mode, and a read.         *)
EXTENDS Pwm

Set(r, v) == [we |-> TRUE, reg |-> r, value |-> v, bits |-> {}]

MCRequests ==
  {Set("CONF", m) : m \in 0..3}
  \cup {Set("COUNT_TOP", t) : t \in {0, 1, 3, 6}}
  \cup {Set("COUNT_COMPARE", c) : c \in {0, 2, 7}}
  \cup {[Set("CONF", 0) EXCEPT !.we = FALSE]}
=============================================================================
