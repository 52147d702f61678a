------------------------------- MODULE ObiXbar -------------------------------
(***************************************************************************)
(* The main interconnect of croc_domain: rtl/obi/obi_xbar.sv, an obi_demux *)
(* behind every manager port and an obi_mux before every subordinate port, *)
(* with the delta_counter, rr_arb_tree and fifo_v3 cells they instantiate. *)
(* One step is one clock cycle.                                            *)
(*                                                                         *)
(* Managers follow the OBI rule for the A channel: a request stays up,     *)
(* unchanged, until it is granted.  Subordinates grant when they like and  *)
(* answer what they granted in order, a cycle later at the earliest; both  *)
(* are outside this module.  Addresses are abstracted to the subordinate   *)
(* they decode to and payloads to their issuer.  R ready is not used.      *)
(***************************************************************************)
EXTENDS Integers, FiniteSetsExt, SequencesExt, Functions

CONSTANTS
  NumMgrs,       \* managers are numbered from 0
  Subs,          \* subordinate ports
  Sub0,          \* the one select_q resets to
  None,          \* no request on an A channel; also: no manager
  Reach(_),      \* subordinates a manager ever addresses
  MaxTrans       \* NumMaxTrans: depth of the id fifos and of the demux counters

Mgrs == 0..NumMgrs-1

ASSUME XbarAssumption ==
  /\ NumMgrs \in 1..8
  /\ Sub0 \in Subs /\ None \notin Subs /\ None \notin Mgrs
  /\ \A m \in Mgrs : Reach(m) \subseteq Subs
  /\ MaxTrans \in Nat \ {0}

VARIABLES
  dst,        \* manager -> subordinate addressed by the request on its A channel
  counter_q,  \* manager -> delta_counter of its demux
  select_q,   \* manager -> subordinate of the latest request granted
  rr_q,       \* subordinate -> manager with priority
  lock_q,     \* subordinate -> arbitration is locked
  req_q,      \* subordinate -> managers taking part in the locked arbitration
  fifo,       \* subordinate -> ids the responses are routed by
  pend,       \* subordinate -> issuers of the requests it granted, not answered yet
  order,      \* manager -> history: subordinates of its requests not answered yet
  turn        \* subordinate -> history: flips with every request it grants

vars == <<dst, counter_q, select_q, rr_q, lock_q, req_q, fifo, pend, order,
          turn>>

Init ==
  /\ dst = [m \in Mgrs |-> None]
  /\ counter_q = [m \in Mgrs |-> 0]
  /\ select_q = [m \in Mgrs |-> Sub0]
  /\ rr_q = [s \in Subs |-> 0]
  /\ lock_q = [s \in Subs |-> FALSE]
  /\ req_q = [s \in Subs |-> {}]
  /\ fifo = [s \in Subs |-> <<>>]
  /\ pend = [s \in Subs |-> <<>>]
  /\ order = [m \in Mgrs |-> <<>>]
  /\ turn = [s \in Subs |-> FALSE]

-----------------------------------------------------------------------------
(* obi_demux.  rv is the set of subordinates with rvalid up in this cycle. *)

\* idx_width(NumMaxTrans); the counter has one bit more, its overflow.
CounterWidth == CHOOSE w \in 1..MaxTrans :
                  2^w >= MaxTrans /\ \A v \in 1..w-1 : 2^v < MaxTrans
in_flight(m) == counter_q[m] % 2^CounterWidth
overflow(m)  == counter_q[m] >= 2^CounterWidth

response_id(s) == IF fifo[s] = <<>> THEN None ELSE Head(fifo[s])
cnt_down(m, rv) == select_q[m] \in rv /\ response_id(select_q[m]) = m

\* Mutants: the destination is not compared; the limit is not observed; any answer
\* opens the way, not the last one only.
OpenToAny(m, rv)  == ~overflow(m)
OpenForever(m, rv) ==
  dst[m] = select_q[m] \/ in_flight(m) = 0 \/ (in_flight(m) = 1 /\ cnt_down(m, rv))
OpenAtAnyAnswer(m, rv) ==
  ~overflow(m) /\ (dst[m] = select_q[m] \/ in_flight(m) = 0 \/ rv # {})

\* A request passes unless answers from elsewhere are still to come.
Open(m, rv) ==
  /\ ~overflow(m)
  /\ dst[m] = select_q[m] \/ in_flight(m) = 0 \/ (in_flight(m) = 1 /\ cnt_down(m, rv))

-----------------------------------------------------------------------------
(* obi_mux.                                                                *)

sbr_ports_req(s, rv) == {m \in Mgrs : dst[m] = s /\ Open(m, rv)}
req_d(s, rv) == IF lock_q[s] THEN req_q[s] ELSE sbr_ports_req(s, rv)
fifo_full(s) == Len(fifo[s]) = MaxTrans

\* Mutant: the request is shown although its id cannot be stored.
mgr_port_req_ungated(s, rv) == req_d(s, rv) # {}

\* What the subordinate sees.
mgr_port_req(s, rv) == req_d(s, rv) # {} /\ ~fifo_full(s)

\* The tree: at every level the half the priority index lies in, if it requests; so
\* the requester whose index differs from rr_q in the least significant way.
Bit(i, b) == (i \div 2^b) % 2
Distance == [i \in Mgrs |-> [j \in Mgrs |->
  SumFunction([b \in 0..2 |-> IF Bit(i, b) # Bit(j, b) THEN 2^b ELSE 0])]]
selected_id(s, rv) ==
  CHOOSE i \in req_d(s, rv) :
    \A j \in req_d(s, rv) : Distance[i][rr_q[s]] <= Distance[j][rr_q[s]]

\* The managers that see their grant, when the subordinates in gnt grant.
GrantedTo(gnt, rv) ==
  {m \in Mgrs : dst[m] \in gnt /\ Open(m, rv) /\ selected_id(dst[m], rv) = m}

\* Mutant: the priority stays where it is.
next_idx_fixed(s, rv) == rr_q[s]

\* The next requester above the priority index, or else the lowest.
next_idx(s, rv) ==
  LET above == {i \in req_d(s, rv) : i > rr_q[s]}
  IN  IF above # {} THEN Min(above) ELSE Min(req_d(s, rv))

-----------------------------------------------------------------------------
(* The clock edge: granted are the managers that see their grant.          *)

\* A manager without an unserved request may put up another one.
Managers(granted) ==
  LET free == {m \in Mgrs : dst[m] = None \/ m \in granted}
  IN  \E next \in [free -> Subs \cup {None}] :
        /\ \A m \in free : next[m] \in Reach(m) \cup {None}
        /\ dst' = [m \in Mgrs |-> IF m \in free THEN next[m] ELSE dst[m]]

Demuxes(granted, rv) ==
  /\ counter_q' = [m \in Mgrs |->
       (counter_q[m] + (IF m \in granted THEN 1 ELSE 0)
                     - (IF cnt_down(m, rv) THEN 1 ELSE 0)) % 2^(CounterWidth + 1)]
  /\ select_q' = [m \in Mgrs |-> IF m \in granted THEN dst[m] ELSE select_q[m]]

\* fifo_v3: a full one drops what is pushed, an empty one has nothing to pop.
Fifo(q, push, pop, x) ==
  (IF pop /\ q # <<>> THEN Tail(q) ELSE q)
  \o (IF push /\ Len(q) < MaxTrans THEN <<x>> ELSE <<>>)

\* The stored request vector matters under the lock only, so only then it is kept.
Muxes(gnt, rv) ==
  /\ rr_q' = [s \in Subs |-> IF s \in gnt THEN next_idx(s, rv) ELSE rr_q[s]]
  /\ lock_q' = [s \in Subs |-> req_d(s, rv) # {} /\ s \notin gnt]
  /\ req_q' = [s \in Subs |-> IF s \in gnt THEN {} ELSE req_d(s, rv)]
  /\ fifo' = [s \in Subs |->
       IF s \in gnt THEN Fifo(fifo[s], TRUE, s \in rv, selected_id(s, rv))
       ELSE Fifo(fifo[s], FALSE, s \in rv, None)]

\* What is in fact outstanding, at the subordinates and for every manager.
Outstanding(gnt, rv, granted) ==
  /\ pend' = [s \in Subs |->
       (IF s \in rv THEN Tail(pend[s]) ELSE pend[s])
       \o (IF s \in gnt THEN <<selected_id(s, rv)>> ELSE <<>>)]
  /\ order' = [m \in Mgrs |->
       LET from == {s \in rv : Head(pend[s]) = m}
       IN  FoldSet(LAMBDA s, q : RemoveFirst(q, s), order[m], from)
           \o (IF m \in granted THEN <<dst[m]>> ELSE <<>>)]
  /\ turn' = [s \in Subs |-> turn[s] # (s \in gnt)]

\* A grant shown without a request changes nothing, so gnt is taken among those
\* subordinates that see one; rv among those that owe an answer.
Cycle(gnt, rv) ==
  LET granted == GrantedTo(gnt, rv)
  IN  /\ Managers(granted) /\ Demuxes(granted, rv) /\ Muxes(gnt, rv)
      /\ Outstanding(gnt, rv, granted)

Next ==
  \E rv \in SUBSET {s \in Subs : pend[s] # <<>>} :
    \E gnt \in SUBSET {s \in Subs : mgr_port_req(s, rv)} : Cycle(gnt, rv)

\* What a step did.
Served(s)   == turn'[s] # turn[s]
Answered(s) == Len(pend'[s]) # Len(pend[s]) + (IF Served(s) THEN 1 ELSE 0)
ServedFor(m) == dst[m] # None /\ Served(dst[m]) /\ Last(pend'[dst[m]]) = m

\* Subordinates grant a request they see sooner or later, and answer what they
\* granted: weak fairness of the steps that do, with ENABLED spelled out.
Spec ==
  /\ Init /\ [][Next]_vars
  /\ \A s \in Subs :
       /\ []<>(~mgr_port_req(s, {})) \/ []<><<Served(s)>>_vars
       /\ []<>(pend[s] = <<>>) \/ []<><<Answered(s)>>_vars

-----------------------------------------------------------------------------
(* Properties.                                                             *)

TypeOK ==
  /\ dst \in [Mgrs -> Subs \cup {None}]
  /\ counter_q \in [Mgrs -> 0..2^CounterWidth] /\ select_q \in [Mgrs -> Subs]
  /\ rr_q \in [Subs -> Mgrs] /\ lock_q \in [Subs -> BOOLEAN]
  /\ req_q \in [Subs -> SUBSET Mgrs]
  /\ fifo \in [Subs -> Seq(Mgrs)] /\ pend \in [Subs -> Seq(Mgrs)]
  /\ order \in [Mgrs -> Seq(Subs)]
  /\ turn \in [Subs -> BOOLEAN]

\* Every answer reaches the manager that asked: the ids in a mux are the issuers of
\* what its subordinate still owes, the counter of a demux counts what its manager is
\* owed, and all of that is owed by the one subordinate the demux listens to.
AnswersFindTheirIssuer ==
  /\ \A s \in Subs : fifo[s] = pend[s]
  /\ \A m \in Mgrs :
       /\ counter_q[m] = Len(order[m])
       /\ \A i \in 1..Len(order[m]) : order[m][i] = select_q[m]

\* What rr_arb_tree assumes of its inputs (lock_req) and its lock relies on: a demux
\* that has shown a mux a request goes on showing it until it is granted.
LockedStayRequested ==
  \A s \in Subs : \A m \in req_q[s] : dst[m] = s /\ Open(m, {})

\* Every manager port is an ObiPort: answers come in the order of the requests,
\* whatever the subordinates' latencies, and no more than MaxTrans are outstanding.
Port(m) == INSTANCE ObiPort WITH inflight <- order[m]
PortsKeepOrder ==
  [][\A m \in Mgrs : \E gnt, rvalid \in BOOLEAN :
       Port(m)!Step(dst[m] # None, dst[m], gnt, rvalid)]_order

\* No manager starves: whatever the others do, every request is granted.
NoStarvation ==
  \A m \in Mgrs : []<>(dst[m] = None) \/ []<><<ServedFor(m)>>_vars
=============================================================================
