------------------------------- MODULE ObiPort -------------------------------
(***************************************************************************)
(* The OBI interconnect as one manager sees it: requests are accepted in   *)
(* order when granted, at most MaxTrans are outstanding, and every         *)
(* accepted request is answered exactly once, in order, no earlier than    *)
(* the cycle after its grant.  rtl/obi/obi_demux.sv is what enforces this  *)
(* at the manager's side of the crossbar; ObiXbar implements this module   *)
(* for every manager.                                                      *)
(***************************************************************************)
EXTENDS Naturals, Sequences

CONSTANT MaxTrans            \* NumMaxTrans of the crossbar (croc_domain: 2)

VARIABLE inflight            \* accepted requests not answered yet, oldest first

Init == inflight = <<>>

\* A grant may be shown without a request; it then has no effect.
CanGrant   == Len(inflight) < MaxTrans
CanRespond == inflight # <<>>

\* One clock cycle: the head may be answered and one request accepted.
Step(req, item, gnt, rvalid) ==
  /\ gnt => CanGrant
  /\ rvalid => CanRespond
  /\ inflight' = (IF rvalid THEN Tail(inflight) ELSE inflight)
                 \o (IF req /\ gnt THEN <<item>> ELSE <<>>)
=============================================================================
