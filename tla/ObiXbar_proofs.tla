--------------------------- MODULE ObiXbar_proofs ---------------------------
(***************************************************************************)
(* Proofs about ObiXbar: answers find their issuers and every manager port *)
(* is an ObiPort, for any number of subordinates, any reachability and     *)
(* every depth of the fifos.                                               *)
(***************************************************************************)
EXTENDS ObiXbar, DataLemmas, SequenceTheorems

-----------------------------------------------------------------------------
(* How often m occurs in the queue q.                                      *)

Places(q, m) == {i \in 1..Len(q) : q[i] = m}
Count(q, m)  == Cardinality(Places(q, m))
Bit1(b)      == IF b THEN 1 ELSE 0

LEMMA CountType ==
  ASSUME NEW T, NEW q \in Seq(T), NEW m
  PROVE  /\ IsFiniteSet(Places(q, m)) /\ Count(q, m) \in Nat /\ Count(q, m) <= Len(q)
         /\ q = <<>> => Count(q, m) = 0
         /\ q # <<>> /\ Head(q) = m => Count(q, m) > 0
<1>1. IsFiniteSet(1..Len(q)) /\ Cardinality(1..Len(q)) = Len(q)
  <2>1. Len(q) \in Nat
    OBVIOUS
  <2> QED BY <2>1, Interval
<1>2. IsFiniteSet(Places(q, m)) /\ Count(q, m) \in Nat /\ Count(q, m) <= Len(q)
  BY <1>1, FS_Subset, FS_CardinalityType DEF Places, Count
<1>3. q = <<>> => Places(q, m) = {}
  BY DEF Places
<1>4. q # <<>> /\ Head(q) = m => 1 \in Places(q, m)
  BY DEF Places
<1> QED BY <1>2, <1>3, <1>4, FS_EmptySet DEF Count

LEMMA CountAppend ==
  ASSUME NEW T, NEW q \in Seq(T), NEW x \in T, NEW m
  PROVE  Count(q \o <<x>>, m) = Count(q, m) + Bit1(x = m)
<1> DEFINE r == q \o <<x>>
           n == Len(q) + 1
<1>1. Len(r) = n /\ r[n] = x /\ \A i \in 1..Len(q) : r[i] = q[i]
  OBVIOUS
<1>2. n \notin Places(q, m) /\ Len(q) \in Nat
  BY DEF Places
<1> HIDE DEF r
<1>3. Places(r, m) = IF x = m THEN Places(q, m) \cup {n} ELSE Places(q, m)
  BY <1>1, <1>2 DEF Places
<1>4. IsFiniteSet(Places(q, m)) /\ Count(q, m) \in Nat
  BY CountType
<1> HIDE DEF n
<1>5. Cardinality(Places(q, m) \cup {n}) = Cardinality(Places(q, m)) + 1
  BY <1>2, <1>4, FS_AddElement
<1>6. Count(r, m) = Count(q, m) + Bit1(x = m)
  BY <1>3, <1>4, <1>5 DEF Count, Bit1
<1> QED BY <1>6 DEF r

LEMMA CountTail ==
  ASSUME NEW T, NEW q \in Seq(T), q # <<>>, NEW m
  PROVE  Count(Tail(q), m) = Count(q, m) - Bit1(Head(q) = m)
<1> DEFINE P == Places(q, m) \ {1}
           t == Tail(q)
<1>1. /\ t \in Seq(T) /\ Len(t) = Len(q) - 1 /\ Len(q) \in Nat /\ Len(q) > 0
      /\ \A i \in 1..Len(t) : t[i] = q[i+1]
  OBVIOUS
<1>2. IsFiniteSet(Places(q, m)) /\ IsFiniteSet(Places(t, m)) /\ Count(q, m) \in Nat
  BY <1>1, CountType
<1> HIDE DEF t
<1>3. [i \in Places(t, m) |-> i + 1] \in Bijection(Places(t, m), P)
  <2> DEFINE f == [i \in Places(t, m) |-> i + 1]
  <2>1. f \in [Places(t, m) -> P]
    BY <1>1 DEF Places
  <2>2. \A i, j \in Places(t, m) : f[i] = f[j] => i = j
    BY DEF Places
  <2>3. \A k \in P : \E i \in Places(t, m) : f[i] = k
    <3> SUFFICES ASSUME NEW k \in P PROVE k - 1 \in Places(t, m) /\ (k - 1) + 1 = k
      OBVIOUS
    <3> QED BY <1>1 DEF Places
  <2> QED BY <2>1, <2>2, <2>3 DEF Bijection, Injection, IsInjective, Surjection
<1>4. Cardinality(P) = Count(t, m)
  BY <1>2, <1>3, FS_Bijection DEF Count, ExistsBijection
<1>5. 1 \in Places(q, m) <=> Head(q) = m
  BY <1>1 DEF Places
<1> HIDE DEF P
<1>6. Cardinality(P) = IF Head(q) = m THEN Count(q, m) - 1 ELSE Count(q, m)
  BY <1>2, <1>5, FS_RemoveElement DEF P, Count
<1> QED BY <1>2, <1>4, <1>6 DEF t, Bit1

-----------------------------------------------------------------------------
(* What the operators of the crossbar choose.                              *)

\* The counter of a demultiplexer counts to the number of transactions and beyond.
LEMMA Widths ==
  /\ 2^CounterWidth \in Nat /\ MaxTrans <= 2^CounterWidth
  /\ 2^(CounterWidth + 1) \in Nat /\ 2^CounterWidth < 2^(CounterWidth + 1)
<1>0. MaxTrans \in Nat \ {0}
  BY XbarAssumption
<1> DEFINE S == {w \in 1..MaxTrans : 2^w >= MaxTrans}
<1>1. S \in SUBSET Nat /\ MaxTrans \in S
  BY <1>0, PowerOfTwo
<1>2. PICK w \in S : \A k \in S : w <= k
  BY <1>1, LeastMember
<1>3. w \in 1..MaxTrans /\ 2^w >= MaxTrans /\ \A v \in 1..w-1 : 2^v < MaxTrans
  <2> SUFFICES ASSUME NEW v \in 1..w-1, ~(2^v < MaxTrans) PROVE FALSE
    OBVIOUS
  <2>1. v \in Nat /\ 2^v \in Nat /\ v < w /\ v \in 1..MaxTrans
    BY <1>0, PowerOfTwo
  <2>2. v \in S
    BY <1>0, <2>1
  <2> QED BY <1>2, <2>1, <2>2
<1>4. CounterWidth \in 1..MaxTrans /\ 2^CounterWidth >= MaxTrans
  BY <1>3 DEF CounterWidth
<1>5. ASSUME NEW n \in Nat PROVE 2^n < 2^(n + 1)
  <2> DEFINE A == SUBSET (1..n)
             B == SUBSET (1..n+1)
  <2>1. IsFiniteSet(A) /\ Cardinality(A) = 2^n
    BY Interval, FS_SUBSET
  <2>2. IsFiniteSet(B) /\ Cardinality(B) = 2^(n+1)
    <3>1. IsFiniteSet(1..n+1) /\ Cardinality(1..n+1) = n+1
      BY Interval
    <3> QED BY <3>1, FS_SUBSET
  <2>3. A \in SUBSET B /\ {n+1} \in B /\ {n+1} \notin A
    OBVIOUS
  <2>4. 2^n \in Nat /\ 2^(n+1) \in Nat
    BY PowerOfTwo
  <2> HIDE DEF A, B
  <2>5. Cardinality(A) <= Cardinality(B) /\ Cardinality(A) # Cardinality(B)
    BY <2>2, <2>3, FS_Subset
  <2> QED BY <2>1, <2>2, <2>4, <2>5
<1>6. CounterWidth \in Nat /\ CounterWidth + 1 \in Nat
  BY <1>0, <1>4
<1> HIDE DEF S
<1> QED BY <1>4, <1>5, <1>6, PowerOfTwo, XbarAssumption

LEMMA LowestIn == ASSUME NEW S \in SUBSET Nat, S # {} PROVE Min(S) \in S
BY LeastMember DEF Min

LEMMA DistanceType == ASSUME NEW i \in Mgrs, NEW j \in Mgrs PROVE Distance[i][j] \in Nat
<1> DEFINE F == [b \in 0..2 |-> IF Bit(i, b) # Bit(j, b) THEN 2^b ELSE 0]
           w == 2^0 + 2^1 + 2^2
<1>1. IsFiniteSet(0..2)
  <2>1. 0 \in Int /\ 2 \in Int
    OBVIOUS
  <2> QED BY <2>1, FS_Interval, Zenon
<1>2. F \in [0..2 -> Int] /\ (\A b \in 0..2 : 0 <= F[b] /\ F[b] <= w) /\ w \in Int
  BY PowerOfTwo
<1> HIDE DEF F, w
<1>3. SumFunction(F) \in Int /\ 0 * Cardinality(0..2) <= SumFunction(F)
  BY <1>1, <1>2, SumBound
<1>4. 0 * Cardinality(0..2) = 0
  BY <1>1, FS_CardinalityType
<1> QED BY <1>3, <1>4 DEF Distance, F

\* The tree selects one of the requesters.
LEMMA Selected ==
  ASSUME NEW s \in Subs, NEW rv, rr_q[s] \in Mgrs, req_d(s, rv) \subseteq Mgrs, req_d(s, rv) # {}
  PROVE  selected_id(s, rv) \in req_d(s, rv) /\ next_idx(s, rv) \in req_d(s, rv)
<1> DEFINE R == req_d(s, rv)
           d(i) == Distance[i][rr_q[s]]
<1>1. \A i \in R : d(i) \in Nat
  BY DistanceType
<1>2. \E i \in R : \A j \in R : d(i) <= d(j)
  <2> DEFINE S == {d(i) : i \in R}
  <2>1. S \in SUBSET Nat /\ S # {}
    BY <1>1
  <2>2. \E m \in S : \A k \in S : m <= k
    <3> HIDE DEF S
    <3> QED BY <2>1, LeastMember
  <2> QED BY <2>2
<1>3. selected_id(s, rv) \in R
  BY <1>2 DEF selected_id
<1>4. Mgrs \subseteq Nat
  BY XbarAssumption DEF Mgrs
<1>5. next_idx(s, rv) \in R
  <2> DEFINE above == {i \in R : i > rr_q[s]}
  <2>1. above \in SUBSET Nat /\ R \in SUBSET Nat /\ R # {}
    BY <1>4
  <2>2. (above # {} => Min(above) \in above) /\ Min(R) \in R
    BY <2>1, LowestIn
  <2> QED BY <2>2 DEF next_idx
<1> QED BY <1>3, <1>5

-----------------------------------------------------------------------------
(* One clock cycle, for one manager.                                       *)

\* Everything a manager is owed is at the subordinate its demultiplexer listens to.
OwedByOne ==
  \A m \in Mgrs, s \in Subs :
    Count(pend[s], m) = IF s = select_q[m] THEN Len(order[m]) ELSE 0

\* The fifos hold no more than they can.
FifosFit == \A s \in Subs : Len(fifo[s]) <= MaxTrans

Inv ==
  TypeOK /\ AnswersFindTheirIssuer /\ LockedStayRequested /\ OwedByOne /\ FifosFit

\* One clock cycle in which the subordinates in rv answer and those in gnt grant.
InCycle(gnt, rv) ==
  /\ Inv /\ Cycle(gnt, rv)
  /\ rv \in SUBSET {s \in Subs : pend[s] # <<>>}
  /\ gnt \in SUBSET {s \in Subs : mgr_port_req(s, rv)}

\* What a demultiplexer has shown a multiplexer stays shown when answers come.
LEMMA OpenLonger ==
  ASSUME NEW m \in Mgrs, NEW rv, Open(m, {}) PROVE Open(m, rv)
BY DEF Open, cnt_down

\* The counter is the number of answers owed, and a request passes only if none of them
\* is to come from elsewhere.
LEMMA Counter ==
  ASSUME Inv, NEW m \in Mgrs, NEW rv
  PROVE  /\ counter_q[m] \in Nat /\ counter_q[m] = Len(order[m])
         /\ Open(m, rv) => /\ counter_q[m] < 2^CounterWidth
                          /\ \/ dst[m] = select_q[m]
                             \/ counter_q[m] = 0
                             \/ counter_q[m] = 1 /\ cnt_down(m, rv)
         /\ overflow(m) <=> ~(counter_q[m] < 2^CounterWidth)
         /\ counter_q[m] < 2^CounterWidth => in_flight(m) = counter_q[m]
<1>1. counter_q[m] \in Nat /\ counter_q[m] = Len(order[m])
  BY DEF Inv, TypeOK, AnswersFindTheirIssuer
<1> DEFINE R == 2^CounterWidth
<1>2. R \in Nat
  BY Widths
<1>3. counter_q[m] < R => in_flight(m) = counter_q[m]
  <2> SUFFICES ASSUME counter_q[m] < R PROVE counter_q[m] % R = counter_q[m]
    BY DEF in_flight
  <2> DEFINE k == counter_q[m]
  <2>1. k \in Int /\ R \in Nat \ {0} /\ 0 <= k /\ k < R
    <3> HIDE DEF R
    <3> QED BY <1>1, <1>2
  <2> HIDE DEF R, k
  <2>2. k % R = k
    BY <2>1, Remainder
  <2> QED BY <2>2 DEF k
<1>4. overflow(m) <=> ~(counter_q[m] < R)
  <2>1. overflow(m) <=> counter_q[m] >= R
    BY DEF overflow
  <2> HIDE DEF R
  <2> QED BY <1>1, <1>2, <2>1
<1> QED BY <1>1, <1>3, <1>4 DEF Open

\* A multiplexer arbitrates among managers that show it a request.
LEMMA Shown ==
  ASSUME Inv, NEW s \in Subs, NEW rv, NEW m \in req_d(s, rv)
  PROVE  m \in Mgrs /\ dst[m] = s /\ Open(m, rv)
<1>1. CASE lock_q[s]
  <2>1. m \in req_q[s] /\ m \in Mgrs
    BY <1>1 DEF req_d, Inv, TypeOK
  <2> QED BY <2>1, OpenLonger DEF Inv, LockedStayRequested
<1>2. CASE ~lock_q[s]
  BY <1>2 DEF req_d, sbr_ports_req
<1> QED BY <1>1, <1>2

\* The subordinate that grants serves the manager that sees the grant, and no other.
LEMMA Granted ==
  ASSUME Inv, NEW rv, NEW gnt \in SUBSET {s \in Subs : mgr_port_req(s, rv)}
  PROVE  /\ \A s \in gnt : selected_id(s, rv) \in Mgrs /\ next_idx(s, rv) \in Mgrs
         /\ \A s \in gnt, m \in Mgrs :
              selected_id(s, rv) = m <=> m \in GrantedTo(gnt, rv) /\ dst[m] = s
         /\ \A m \in GrantedTo(gnt, rv) : m \in Mgrs /\ dst[m] \in gnt /\ Open(m, rv)
<1>1. ASSUME NEW s \in gnt
      PROVE  /\ selected_id(s, rv) \in req_d(s, rv) /\ next_idx(s, rv) \in Mgrs
             /\ selected_id(s, rv) \in Mgrs
             /\ dst[selected_id(s, rv)] = s /\ Open(selected_id(s, rv), rv)
  <2>1. s \in Subs /\ req_d(s, rv) # {} /\ rr_q[s] \in Mgrs
    BY DEF mgr_port_req, Inv, TypeOK
  <2>2. req_d(s, rv) \subseteq Mgrs
    BY <2>1, Shown
  <2>3. selected_id(s, rv) \in req_d(s, rv) /\ next_idx(s, rv) \in req_d(s, rv)
    BY <2>1, <2>2, Selected
  <2> QED BY <2>1, <2>3, Shown
<1> QED BY <1>1 DEF GrantedTo

\* Removing what was answered: nothing, or the only subordinate that answers.
Remaining(q, from) == FoldSet(LAMBDA s, r : RemoveFirst(r, s), q, from)

LEMMA RemainingNone == ASSUME NEW q PROVE Remaining(q, {}) = q
<1> DEFINE P(g) == g = [t \in SUBSET {} |->
                          IF t = {} THEN q
                          ELSE LET x == CHOOSE x \in t : TRUE IN RemoveFirst(g[t \ {x}], x)]
           it == CHOOSE g : P(g)
<1>1. P([t \in SUBSET {} |-> q])
  OBVIOUS
<1>2. P(it)
  <2> HIDE DEF P
  <2> QED BY <1>1
<1>3. it[{}] = q
  BY <1>2
<1>4. Remaining(q, {}) = it[{}]
  BY DEF Remaining, FoldSet, MapThenFoldSet
<1> QED BY <1>3, <1>4

LEMMA RemainingOne == ASSUME NEW q, NEW s PROVE Remaining(q, {s}) = RemoveFirst(q, s)
<1> DEFINE P(g) == g = [t \in SUBSET {s} |->
                          IF t = {} THEN q
                          ELSE LET x == CHOOSE x \in t : TRUE IN RemoveFirst(g[t \ {x}], x)]
           it == CHOOSE g : P(g)
           h == [t \in SUBSET {s} |-> IF t = {} THEN q ELSE RemoveFirst(q, s)]
<1>1. P(h)
  <2> SUFFICES ASSUME NEW t \in SUBSET {s}, t # {}
               PROVE  LET x == CHOOSE x \in t : TRUE IN x = s /\ h[t \ {x}] = q
    BY Zenon
  <2>1. t = {s}
    OBVIOUS
  <2> QED BY <2>1
<1>2. P(it)
  <2> HIDE DEF P
  <2> QED BY <1>1
<1>3. it[{}] = q
  BY <1>2
<1>4. it[{s}] = LET x == CHOOSE x \in {s} : TRUE IN RemoveFirst(it[{s} \ {x}], x)
  BY <1>2
<1> HIDE DEF it
<1>5. it[{s}] = RemoveFirst(it[{}], s)
  <2>1. (CHOOSE x \in {s} : TRUE) = s /\ {s} \ {s} = {}
    OBVIOUS
  <2> QED BY <1>4, <2>1
<1>6. Remaining(q, {s}) = it[{s}]
  BY DEF Remaining, FoldSet, MapThenFoldSet, it
<1> QED BY <1>3, <1>5, <1>6

LEMMA RemoveHead ==
  ASSUME NEW T, NEW q \in Seq(T), q # <<>>, NEW s, Head(q) = s
  PROVE  RemoveFirst(q, s) = Tail(q)
<1> DEFINE I == {i \in 1..Len(q) : q[i] = s}
<1>1. Len(q) \in Nat /\ Len(q) > 0 /\ q[1] = s /\ 1 \in I
  OBVIOUS
<1>2. I \in SUBSET Nat /\ \A i \in I : 1 <= i
  OBVIOUS
<1>3. Min(I) = 1
  <2> DEFINE k == Min(I)
  <2> HIDE DEF I
  <2>1. k \in I /\ \A j \in I : k <= j
    BY <1>1, <1>2, LeastMember DEF Min
  <2> HIDE DEF k
  <2>2. k \in Nat /\ 1 <= k /\ k <= 1
    BY <1>1, <1>2, <2>1
  <2>3. k = 1
    BY <2>2
  <2> QED BY <2>3 DEF k
<1>4. RemoveFirst(q, s) = RemoveAt(q, 1)
  BY <1>1, <1>3 DEF RemoveFirst, SelectInSeq
<1>5. RemoveAt(q, 1) = Tail(q)
  BY <1>1 DEF RemoveAt
<1> QED BY <1>4, <1>5

-----------------------------------------------------------------------------
(* What a clock cycle does to the queues.                                  *)

\* A multiplexer: the oldest id leaves with an answer, the selected one comes in.
LEMMA MuxQueues ==
  ASSUME NEW rv, NEW gnt, InCycle(gnt, rv), NEW s \in Subs
  PROVE  /\ pend'[s] \in Seq(Mgrs) /\ fifo'[s] = pend'[s] /\ Len(fifo'[s]) <= MaxTrans
         /\ \A m \in Mgrs :
              Count(pend'[s], m) = Count(pend[s], m)
                                   - Bit1(s \in rv /\ Head(pend[s]) = m)
                                   + Bit1(s \in gnt /\ selected_id(s, rv) = m)
<1> DEFINE q == IF s \in rv THEN Tail(pend[s]) ELSE pend[s]
           x == selected_id(s, rv)
<1>1. /\ pend[s] \in Seq(Mgrs) /\ fifo[s] = pend[s] /\ Len(pend[s]) <= MaxTrans
      /\ s \in rv => pend[s] # <<>>
      /\ MaxTrans \in Nat
  BY XbarAssumption DEF InCycle, Inv, TypeOK, AnswersFindTheirIssuer, FifosFit
<1>2. s \in gnt => x \in Mgrs /\ Len(pend[s]) < MaxTrans
  <2>1. s \in gnt => x \in Mgrs /\ ~fifo_full(s)
    BY Granted DEF InCycle, mgr_port_req
  <2> HIDE DEF x
  <2> QED BY <1>1, <2>1 DEF fifo_full
<1>3. /\ q \in Seq(Mgrs) /\ Len(q) <= Len(pend[s])
      /\ \A m \in Mgrs : Count(q, m) = Count(pend[s], m) - Bit1(s \in rv /\ Head(pend[s]) = m)
  <2>1. CASE s \in rv
    BY <1>1, <2>1, HeadTailProperties, CountTail DEF Bit1
  <2>2. CASE s \notin rv
    <3>1. \A m \in Mgrs : Count(pend[s], m) \in Nat
      BY <1>1, CountType
    <3> QED BY <1>1, <2>2, <3>1 DEF Bit1
  <2> QED BY <2>1, <2>2
<1>4. pend'[s] = q \o (IF s \in gnt THEN <<x>> ELSE <<>>)
  BY DEF InCycle, Cycle, Outstanding
<1>5. fifo'[s] = q \o (IF s \in gnt THEN <<x>> ELSE <<>>)
  <2>1. fifo'[s] = IF s \in gnt THEN Fifo(fifo[s], TRUE, s \in rv, x)
                   ELSE Fifo(fifo[s], FALSE, s \in rv, None)
    BY DEF InCycle, Cycle, Muxes
  <2> HIDE DEF x
  <2> QED BY <1>1, <1>2, <2>1 DEF Fifo
<1> HIDE DEF q, x
<1>6. CASE s \in gnt
  <2>1. pend'[s] = q \o <<x>>
    BY <1>4, <1>6
  <2>2. q \o <<x>> \in Seq(Mgrs) /\ Len(q \o <<x>>) = Len(q) + 1 /\ Len(q) \in Nat
    BY <1>2, <1>3, <1>6
  <2>3. \A m \in Mgrs : Count(q \o <<x>>, m) = Count(q, m) + Bit1(x = m)
    BY <1>2, <1>3, <1>6, CountAppend
  <2>4. Len(pend'[s]) <= MaxTrans
    BY <1>1, <1>2, <1>3, <1>6, <2>1, <2>2
  <2> QED BY <1>3, <1>4, <1>5, <1>6, <2>1, <2>2, <2>3, <2>4 DEF x
<1>7. CASE s \notin gnt
  <2>1. pend'[s] = q /\ Len(q) \in Nat
    BY <1>3, <1>4, <1>7
  <2>2. \A m \in Mgrs : Count(q, m) \in Nat
    BY <1>3, CountType
  <2> QED BY <1>1, <1>3, <1>4, <1>5, <1>7, <2>1, <2>2 DEF Bit1
<1> QED BY <1>6, <1>7

\* A manager is answered by the subordinate its demultiplexer listens to, or not at all.
LEMMA AnsweredBy ==
  ASSUME NEW rv, NEW gnt, InCycle(gnt, rv), NEW m \in Mgrs
  PROVE  /\ \A s \in rv : Head(pend[s]) = m <=> cnt_down(m, rv) /\ s = select_q[m]
         /\ cnt_down(m, rv) => select_q[m] \in rv /\ order[m] # <<>>
<1>1. /\ select_q[m] \in Subs /\ order[m] \in Seq(Subs)
      /\ \A s \in Subs : pend[s] \in Seq(Mgrs) /\ fifo[s] = pend[s]
      /\ \A s \in rv : s \in Subs /\ pend[s] # <<>>
  BY DEF InCycle, Inv, TypeOK, AnswersFindTheirIssuer
<1>2. ASSUME NEW s \in rv, Head(pend[s]) = m
      PROVE  s = select_q[m] /\ order[m] # <<>>
  <2>1. Count(pend[s], m) > 0
    BY <1>1, <1>2, CountType
  <2>2. Count(pend[s], m) = IF s = select_q[m] THEN Len(order[m]) ELSE 0
    BY <1>1 DEF InCycle, Inv, OwedByOne
  <2>3. Len(<<>>) = 0
    OBVIOUS
  <2> QED BY <2>1, <2>2, <2>3
<1>3. cnt_down(m, rv) <=> select_q[m] \in rv /\ Head(pend[select_q[m]]) = m
  BY <1>1 DEF cnt_down, response_id
<1> QED BY <1>1, <1>2, <1>3

\* A manager port: the oldest answer owed is delivered, the request granted comes in.
LEMMA DemuxQueue ==
  ASSUME NEW rv, NEW gnt, InCycle(gnt, rv), NEW m \in Mgrs
  PROVE  order'[m] = (IF cnt_down(m, rv) THEN Tail(order[m]) ELSE order[m])
                     \o (IF m \in GrantedTo(gnt, rv) THEN <<dst[m]>> ELSE <<>>)
<1> DEFINE from == {s \in rv : Head(pend[s]) = m}
<1>1. order'[m] = Remaining(order[m], from)
                  \o (IF m \in GrantedTo(gnt, rv) THEN <<dst[m]>> ELSE <<>>)
  BY DEF InCycle, Cycle, Outstanding, Remaining
<1>2. CASE cnt_down(m, rv)
  <2>1. from = {select_q[m]} /\ order[m] # <<>>
    BY <1>2, AnsweredBy
  <2>2. order[m] \in Seq(Subs) /\ Head(order[m]) = select_q[m]
    BY <2>1 DEF InCycle, Inv, TypeOK, AnswersFindTheirIssuer
  <2>3. Remaining(order[m], {select_q[m]}) = Tail(order[m])
    BY <2>1, <2>2, RemainingOne, RemoveHead
  <2> HIDE DEF from
  <2> QED BY <1>1, <1>2, <2>1, <2>3
<1>3. CASE ~cnt_down(m, rv)
  <2>1. from = {}
    BY <1>3, AnsweredBy
  <2> HIDE DEF from
  <2> QED BY <1>1, <1>3, <2>1, RemainingNone
<1> QED BY <1>2, <1>3

-----------------------------------------------------------------------------
(* What a clock cycle does to the registers.                               *)

\* The counter follows the answers owed; they all come from the one subordinate.
LEMMA DemuxRegisters ==
  ASSUME NEW rv, NEW gnt, InCycle(gnt, rv), NEW m \in Mgrs
  PROVE  LET D == cnt_down(m, rv)
             G == m \in GrantedTo(gnt, rv)
         IN  /\ order'[m] \in Seq(Subs)
             /\ counter_q'[m] = Len(order'[m]) /\ counter_q'[m] \in 0..2^CounterWidth
             /\ counter_q'[m] = counter_q[m] - Bit1(D) + Bit1(G)
             /\ select_q'[m] = IF G THEN dst[m] ELSE select_q[m]
             /\ select_q'[m] \in Subs
             /\ \A i \in 1..Len(order'[m]) : order'[m][i] = select_q'[m]
             /\ D => counter_q[m] >= 1
             /\ G => dst[m] = select_q[m] \/ counter_q[m] - Bit1(D) = 0
<1> DEFINE D == cnt_down(m, rv)
           G == m \in GrantedTo(gnt, rv)
           C == 2^CounterWidth
           c == counter_q[m]
           q == IF D THEN Tail(order[m]) ELSE order[m]
<1>1. /\ order[m] \in Seq(Subs) /\ select_q[m] \in Subs
      /\ c = Len(order[m]) /\ c \in 0..C
      /\ \A i \in 1..Len(order[m]) : order[m][i] = select_q[m]
  BY DEF InCycle, Inv, TypeOK, AnswersFindTheirIssuer
<1>2. C \in Nat /\ 2^(CounterWidth + 1) \in Nat /\ C < 2^(CounterWidth + 1)
  BY Widths
<1>3. D => order[m] # <<>>
  BY AnsweredBy
<1>4. G => /\ dst[m] \in gnt /\ dst[m] \in Subs
           /\ c < C
           /\ dst[m] = select_q[m] \/ c = 0 \/ (c = 1 /\ D)
  BY Granted, Counter DEF InCycle
<1>5. order'[m] = q \o (IF G THEN <<dst[m]>> ELSE <<>>)
  BY DemuxQueue
<1>6. select_q'[m] = IF G THEN dst[m] ELSE select_q[m]
  BY DEF InCycle, Cycle, Demuxes
<1>7. counter_q'[m] = (c + Bit1(G) - Bit1(D)) % 2^(CounterWidth + 1)
  BY DEF InCycle, Cycle, Demuxes, Bit1
<1> HIDE DEF D, G, C, c
<1>8. /\ c \in Nat
      /\ D => c >= 1
      /\ q \in Seq(Subs) /\ Len(q) = c - Bit1(D)
      /\ \A i \in 1..Len(q) : q[i] = select_q[m]
  BY <1>1, <1>3 DEF Bit1
<1> HIDE DEF q
<1>9. counter_q'[m] = c - Bit1(D) + Bit1(G) /\ counter_q'[m] \in 0..C
  <2> DEFINE k == c + Bit1(G) - Bit1(D)
             R == 2^(CounterWidth + 1)
  <2>1. k \in 0..C /\ k = c - Bit1(D) + Bit1(G)
    <3>1. Bit1(D) = 0 \/ (Bit1(D) = 1 /\ c >= 1)
      BY <1>8 DEF Bit1
    <3>2. Bit1(G) = 0 \/ (Bit1(G) = 1 /\ c < C)
      BY <1>4 DEF Bit1
    <3>3. c \in Nat /\ C \in Nat /\ c <= C
      BY <1>1, <1>2
    <3> QED BY <3>1, <3>2, <3>3
  <2>2. k \in Int /\ R \in Nat \ {0} /\ 0 <= k /\ k < R
    <3> HIDE DEF k, R
    <3>1. R \in Nat /\ C < R
      BY <1>2 DEF R
    <3> QED BY <1>2, <2>1, <3>1
  <2>3. counter_q'[m] = k % R
    BY <1>7
  <2> HIDE DEF k, R
  <2>4. k % R = k
    BY <2>2, Remainder
  <2> QED BY <2>1, <2>3, <2>4
<1>10. G => dst[m] = select_q[m] \/ Len(q) = 0
  BY <1>4, <1>8 DEF Bit1
<1>11. CASE G
  <2>1. /\ order'[m] = q \o <<dst[m]>> /\ select_q'[m] = dst[m] /\ dst[m] \in Subs
        /\ \A i \in 1..Len(q) : q[i] = dst[m]
    BY <1>4, <1>5, <1>6, <1>8, <1>10, <1>11
  <2>2. q \o <<dst[m]>> \in Seq(Subs) /\ Len(q \o <<dst[m]>>) = Len(q) + 1
    BY <1>8, <2>1
  <2>3. \A i \in 1..Len(q) + 1 : (q \o <<dst[m]>>)[i] = dst[m]
    BY <1>8, <2>1
  <2> QED BY <1>6, <1>8, <1>9, <1>10, <1>11, <2>1, <2>2, <2>3 DEF Bit1, D, G, C, c
<1>12. CASE ~G
  <2>1. order'[m] = q /\ select_q'[m] = select_q[m]
    BY <1>5, <1>6, <1>8, <1>12
  <2>2. Bit1(G) = 0 /\ Bit1(D) \in 0..1
    BY <1>12 DEF Bit1
  <2>3. counter_q'[m] = Len(q) /\ counter_q'[m] \in 0..C
    BY <1>8, <1>9, <2>2
  <2> QED BY <1>1, <1>6, <1>8, <1>9, <1>12, <2>1, <2>3 DEF D, G, C, c
<1> QED BY <1>11, <1>12

\* A request shown and not granted stays up, and nothing it waits for comes in between.
LEMMA LockKept ==
  ASSUME NEW rv, NEW gnt, InCycle(gnt, rv)
  PROVE  LockedStayRequested'
<1> SUFFICES ASSUME NEW s \in Subs, NEW m \in req_q'[s]
             PROVE  (dst[m] = s /\ Open(m, {}))'
  BY DEF LockedStayRequested
<1>1. s \notin gnt /\ m \in req_d(s, rv)
  BY DEF InCycle, Cycle, Muxes
<1>2. m \in Mgrs /\ dst[m] = s /\ Open(m, rv)
  BY <1>1, Shown DEF InCycle
<1>3. m \notin GrantedTo(gnt, rv)
  BY <1>1, <1>2 DEF GrantedTo
<1>4. dst'[m] = s
  <2>1. dst[m] # None
    BY <1>2, XbarAssumption
  <2> QED BY <1>2, <1>3, <2>1 DEF InCycle, Cycle, Managers
<1> DEFINE C == 2^CounterWidth
           c == counter_q[m]
           e == counter_q'[m]
<1>5. /\ c \in Nat /\ c < C
      /\ dst[m] = select_q[m] \/ c = 0 \/ (c = 1 /\ cnt_down(m, rv))
  BY <1>2, Counter DEF InCycle
<1>6. /\ e = c - Bit1(cnt_down(m, rv)) + 0
      /\ e \in 0..C /\ select_q'[m] = select_q[m]
  BY <1>2, <1>3, DemuxRegisters DEF Bit1
<1>7. C \in Nat
  BY Widths
<1> HIDE DEF C, c, e
<1>8. e \in Nat /\ e < C /\ (dst[m] = select_q[m] \/ e = 0)
  BY <1>5, <1>6, <1>7 DEF Bit1
<1>9. ~(e >= C) /\ (e = 0 => e % C = 0)
  <2>1. e \in Int /\ C \in Nat \ {0} /\ 0 <= e
    BY <1>7, <1>8
  <2>2. e % C = e
    BY <1>8, <2>1, Remainder
  <2> QED BY <1>7, <1>8, <2>2
<1> QED BY <1>2, <1>4, <1>6, <1>8, <1>9 DEF Open, overflow, in_flight, C, e

\* What the subordinates owe a manager moves with the queues.
LEMMA OwedKept ==
  ASSUME NEW rv, NEW gnt, InCycle(gnt, rv)
  PROVE  OwedByOne'
<1> SUFFICES ASSUME NEW m \in Mgrs, NEW s \in Subs
             PROVE  Count(pend'[s], m) = IF s = select_q'[m] THEN Len(order'[m]) ELSE 0
  BY DEF OwedByOne, Count, Places
<1> DEFINE D == cnt_down(m, rv)
           G == m \in GrantedTo(gnt, rv)
           c == counter_q[m]
           n == Count(pend'[s], m)
           o == Count(pend[s], m)
           x == selected_id(s, rv)
<1>1. n = o - Bit1(s \in rv /\ Head(pend[s]) = m) + Bit1(s \in gnt /\ x = m)
  BY MuxQueues
<1>2. /\ o = (IF s = select_q[m] THEN c ELSE 0)
      /\ c \in Nat
  <2>1. c \in Nat /\ c = Len(order[m])
    BY Counter DEF InCycle
  <2>2. o = IF s = select_q[m] THEN Len(order[m]) ELSE 0
    BY DEF InCycle, Inv, OwedByOne
  <2> QED BY <2>1, <2>2
<1>3. (s \in rv /\ Head(pend[s]) = m) <=> (D /\ s = select_q[m])
  BY AnsweredBy
<1>4. (s \in gnt /\ x = m) <=> (G /\ dst[m] = s)
  BY Granted DEF InCycle
<1>5. /\ counter_q'[m] = Len(order'[m])
      /\ counter_q'[m] = c - Bit1(D) + Bit1(G)
      /\ select_q'[m] = IF G THEN dst[m] ELSE select_q[m]
      /\ D => c >= 1
      /\ G => dst[m] = select_q[m] \/ c - Bit1(D) = 0
  BY DemuxRegisters
<1> HIDE DEF D, G, c, n, o, x
<1>6. n = o - Bit1(D /\ s = select_q[m]) + Bit1(G /\ dst[m] = s)
  BY <1>1, <1>3, <1>4 DEF Bit1
<1>7. n = IF s = select_q'[m] THEN c - Bit1(D) + Bit1(G) ELSE 0
  BY <1>2, <1>5, <1>6 DEF Bit1
<1> QED BY <1>5, <1>7 DEF n

LEMMA TypeKept ==
  ASSUME NEW rv, NEW gnt, InCycle(gnt, rv)
  PROVE  TypeOK'
<1>1. dst' \in [Mgrs -> Subs \cup {None}]
  <2>1. dst \in [Mgrs -> Subs \cup {None}]
    BY DEF InCycle, Inv, TypeOK
  <2>2. Managers(GrantedTo(gnt, rv))
    BY DEF InCycle, Cycle
  <2> QED BY <2>1, <2>2 DEF Managers
<1>2. counter_q' \in [Mgrs -> 0..2^CounterWidth] /\ select_q' \in [Mgrs -> Subs]
  <2> DEFINE C == 0..2^CounterWidth
  <2>1. \A m \in Mgrs : counter_q'[m] \in C /\ select_q'[m] \in Subs
    BY DemuxRegisters
  <2>2. /\ counter_q' = [m \in Mgrs |-> counter_q'[m]]
        /\ select_q' = [m \in Mgrs |-> select_q'[m]]
    BY DEF InCycle, Cycle, Demuxes
  <2> HIDE DEF C
  <2>3. counter_q' \in [Mgrs -> C] /\ select_q' \in [Mgrs -> Subs]
    BY <2>1, <2>2
  <2> QED BY <2>3 DEF C
<1>3. /\ rr_q' \in [Subs -> Mgrs] /\ lock_q' \in [Subs -> BOOLEAN]
      /\ req_q' \in [Subs -> SUBSET Mgrs]
  <2>1. rr_q \in [Subs -> Mgrs] /\ Muxes(gnt, rv)
    BY DEF InCycle, Inv, TypeOK, Cycle
  <2>2. \A s \in gnt : next_idx(s, rv) \in Mgrs
    BY Granted DEF InCycle
  <2>3. \A s \in Subs : req_d(s, rv) \in SUBSET Mgrs
    BY Shown DEF InCycle
  <2>4. rr_q' \in [Subs -> Mgrs]
    BY <2>1, <2>2 DEF Muxes
  <2>5. req_q' \in [Subs -> SUBSET Mgrs]
    BY <2>1, <2>3 DEF Muxes
  <2>6. lock_q' \in [Subs -> BOOLEAN]
    BY <2>1 DEF Muxes
  <2> QED BY <2>4, <2>5, <2>6
<1>4. fifo' \in [Subs -> Seq(Mgrs)] /\ pend' \in [Subs -> Seq(Mgrs)]
  <2>1. \A s \in Subs : fifo'[s] \in Seq(Mgrs) /\ pend'[s] \in Seq(Mgrs)
    BY MuxQueues
  <2>2. fifo' = [s \in Subs |-> fifo'[s]] /\ pend' = [s \in Subs |-> pend'[s]]
    BY DEF InCycle, Cycle, Muxes, Outstanding
  <2> DEFINE Q == Seq(Mgrs)
  <2> HIDE DEF Q
  <2>3. \A s \in Subs : fifo'[s] \in Q /\ pend'[s] \in Q
    BY <2>1 DEF Q
  <2>4. fifo' \in [Subs -> Q] /\ pend' \in [Subs -> Q]
    BY <2>2, <2>3
  <2> QED BY <2>4 DEF Q
<1>5. order' \in [Mgrs -> Seq(Subs)]
  <2>1. \A m \in Mgrs : order'[m] \in Seq(Subs)
    BY DemuxRegisters
  <2>2. order' = [m \in Mgrs |-> order'[m]]
    BY DEF InCycle, Cycle, Outstanding
  <2> DEFINE Q == Seq(Subs)
  <2> HIDE DEF Q
  <2>3. \A m \in Mgrs : order'[m] \in Q
    BY <2>1 DEF Q
  <2>4. order' \in [Mgrs -> Q]
    BY <2>2, <2>3
  <2> QED BY <2>4 DEF Q
<1>6. turn' \in [Subs -> BOOLEAN]
  BY DEF InCycle, Cycle, Outstanding
<1> QED BY <1>1, <1>2, <1>3, <1>4, <1>5, <1>6 DEF TypeOK

-----------------------------------------------------------------------------
(* The invariant.                                                          *)

LEMMA Initially == Init => Inv
<1> SUFFICES ASSUME Init PROVE Inv
  OBVIOUS
<1>1. 2^CounterWidth \in Nat /\ 0 \in Mgrs /\ MaxTrans \in Nat
  BY Widths, XbarAssumption DEF Mgrs
<1> DEFINE C == 0..2^CounterWidth
<1>2. 0 \in C
  <2> DEFINE R == 2^CounterWidth
  <2> HIDE DEF R
  <2> QED BY <1>1 DEF R
<1>3. TypeOK
  <2> HIDE DEF C
  <2>1. counter_q \in [Mgrs -> C]
    BY <1>2 DEF Init
  <2>2. counter_q \in [Mgrs -> 0..2^CounterWidth]
    BY <2>1 DEF C
  <2> QED BY <1>1, <2>2, XbarAssumption DEF Init, TypeOK
<1>4. AnswersFindTheirIssuer /\ LockedStayRequested /\ FifosFit
  BY <1>1 DEF Init, AnswersFindTheirIssuer, LockedStayRequested, FifosFit
<1>5. OwedByOne
  <2>1. \A m \in Mgrs : Count(<<>>, m) = 0
    <3>1. <<>> \in Seq(Mgrs)
      OBVIOUS
    <3> QED BY <3>1, CountType
  <2>2. \A m \in Mgrs : Len(order[m]) = 0
    BY DEF Init
  <2>3. \A s \in Subs : pend[s] = <<>>
    BY DEF Init
  <2> QED BY <2>1, <2>2, <2>3 DEF OwedByOne
<1> QED BY <1>3, <1>4, <1>5 DEF Inv

LEMMA Inductive == Inv /\ [Next]_vars => Inv'
<1> SUFFICES ASSUME Inv, [Next]_vars PROVE Inv'
  OBVIOUS
<1>1. CASE Next
  <2>0. PICK rv \in SUBSET {s \in Subs : pend[s] # <<>>} :
          \E gnt \in SUBSET {s \in Subs : mgr_port_req(s, rv)} : Cycle(gnt, rv)
    BY <1>1 DEF Next
  <2>1. PICK gnt \in SUBSET {s \in Subs : mgr_port_req(s, rv)} : Cycle(gnt, rv)
    BY <2>0
  <2>2. InCycle(gnt, rv)
    BY <2>1 DEF InCycle
  <2>3. TypeOK'
    BY <2>2, TypeKept
  <2>4. AnswersFindTheirIssuer'
    BY <2>2, MuxQueues, DemuxRegisters DEF AnswersFindTheirIssuer
  <2>5. LockedStayRequested'
    BY <2>2, LockKept
  <2>6. OwedByOne'
    BY <2>2, OwedKept
  <2>7. FifosFit'
    BY <2>2, MuxQueues DEF FifosFit
  <2> QED BY <2>3, <2>4, <2>5, <2>6, <2>7 DEF Inv
<1>2. CASE UNCHANGED vars
  <2>1. TypeOK'
    BY <1>2 DEF vars, Inv, TypeOK
  <2>2. AnswersFindTheirIssuer' /\ FifosFit'
    BY <1>2 DEF vars, Inv, AnswersFindTheirIssuer, FifosFit
  <2>3. OwedByOne'
    BY <1>2 DEF vars, Inv, OwedByOne
  <2>4. ASSUME NEW m \in Mgrs PROVE Open(m, {})' <=> Open(m, {})
    BY <1>2 DEF vars, Open, overflow, in_flight, cnt_down
  <2>5. LockedStayRequested'
    <3>1. \A s \in Subs : req_q[s] \subseteq Mgrs
      BY DEF Inv, TypeOK
    <3> QED BY <1>2, <2>4, <3>1 DEF vars, Inv, LockedStayRequested
  <2> QED BY <2>1, <2>2, <2>3, <2>5 DEF Inv
<1> QED BY <1>1, <1>2

LEMMA Always == Spec => []Inv
<1>1. Spec => Init /\ [][Next]_vars
  BY DEF Spec
<1> QED BY <1>1, Initially, Inductive, PTL

\* The registers of the crossbar stay in their types: the counters of the demuxes reach
\* their overflow at most.
THEOREM TypeCorrect == Spec => []TypeOK
BY Always, PTL DEF Inv

\* However many managers and subordinates there are and whatever the depth of the
\* fifos: the ids in a mux are the issuers of what its subordinate owes, and a manager is
\* owed answers by the one subordinate its demux listens to, as many as it counts.
THEOREM AnswersReturn == Spec => []AnswersFindTheirIssuer
BY Always, PTL DEF Inv

\* What rr_arb_tree assumes of the requests it has locked: they stay up until granted.
THEOREM LockHolds == Spec => []LockedStayRequested
BY Always, PTL DEF Inv

\* A grant finds room in the port: what is owed is at the subordinate that grants, and
\* its fifo has room; or nothing is owed but the answer that comes in this cycle.
LEMMA RoomToGrant ==
  ASSUME MaxTrans >= 2, NEW rv, NEW gnt, InCycle(gnt, rv), NEW m \in GrantedTo(gnt, rv)
  PROVE  Len(order[m]) < MaxTrans /\ dst[m] # None
<1> DEFINE s == dst[m]
           c == counter_q[m]
<1>1. m \in Mgrs /\ s \in gnt /\ s \in Subs /\ Open(m, rv)
  BY Granted DEF InCycle
<1>2. c \in Nat /\ c = Len(order[m]) /\ (s = select_q[m] \/ c = 0 \/ c = 1)
  BY <1>1, Counter DEF InCycle
<1>3. Count(pend[s], m) = IF s = select_q[m] THEN Len(order[m]) ELSE 0
  BY <1>1 DEF InCycle, Inv, OwedByOne
<1>4. pend[s] \in Seq(Mgrs) /\ fifo[s] = pend[s] /\ Len(pend[s]) <= MaxTrans
  BY <1>1 DEF InCycle, Inv, TypeOK, AnswersFindTheirIssuer, FifosFit
<1>5. Count(pend[s], m) <= Len(pend[s]) /\ Count(pend[s], m) \in Nat
  BY <1>4, CountType
<1>6. Len(pend[s]) # MaxTrans
  BY <1>1, <1>4 DEF InCycle, mgr_port_req, fifo_full
<1>7. MaxTrans \in Nat /\ None \notin Subs
  BY XbarAssumption
<1>8. Len(order[m]) < MaxTrans
  <2> DEFINE k == Count(pend[s], m)
             p == Len(pend[s])
  <2>1. p \in Nat /\ p <= MaxTrans /\ p # MaxTrans /\ k <= p /\ k \in Nat
    BY <1>4, <1>5, <1>6
  <2>2. c \in Nat /\ (c = k \/ c = 0 \/ c = 1)
    BY <1>2, <1>3
  <2> HIDE DEF c, k, p
  <2>3. c < MaxTrans
    BY <1>7, <2>1, <2>2
  <2> QED BY <1>2, <2>3
<1> QED BY <1>1, <1>7, <1>8

LEMMA PortStep ==
  ASSUME MaxTrans >= 2, Inv, Next, NEW m \in Mgrs
  PROVE  \E gnt, rvalid \in BOOLEAN : Port(m)!Step(dst[m] # None, dst[m], gnt, rvalid)
<1>1. PICK rv \in SUBSET {s \in Subs : pend[s] # <<>>} :
        \E gnt \in SUBSET {s \in Subs : mgr_port_req(s, rv)} : Cycle(gnt, rv)
  BY DEF Next
<1>2. PICK gnt \in SUBSET {s \in Subs : mgr_port_req(s, rv)} : Cycle(gnt, rv)
  BY <1>1
<1>3. InCycle(gnt, rv)
  BY <1>2 DEF InCycle
<1> DEFINE D == cnt_down(m, rv)
           G == m \in GrantedTo(gnt, rv)
<1>4. order'[m] = (IF D THEN Tail(order[m]) ELSE order[m])
                  \o (IF G THEN <<dst[m]>> ELSE <<>>)
  BY <1>3, DemuxQueue
<1>5. D => order[m] # <<>>
  BY <1>3, AnsweredBy
<1>6. G => Len(order[m]) < MaxTrans /\ dst[m] # None
  BY <1>3, RoomToGrant
<1>7. D \in BOOLEAN /\ G \in BOOLEAN
  BY DEF cnt_down
<1> HIDE DEF D, G
<1>8. Port(m)!Step(dst[m] # None, dst[m], G, D)
  BY <1>4, <1>5, <1>6 DEF Port!Step, Port!CanGrant, Port!CanRespond
<1> QED BY <1>7, <1>8

\* Every manager port is an ObiPort, whatever the subordinates do, once the fifos hold
\* two ids or more; with one, a grant may come in the very cycle of the answer.
THEOREM PortsInOrder == ASSUME MaxTrans >= 2 PROVE Spec => PortsKeepOrder
<1>1. Spec => Init /\ [][Next]_vars
  BY DEF Spec
<1>2. Inv /\ [Next]_vars =>
        [\A m \in Mgrs : \E gnt, rvalid \in BOOLEAN :
           Port(m)!Step(dst[m] # None, dst[m], gnt, rvalid)]_order
  BY PortStep DEF vars
<1> QED BY <1>1, <1>2, Always, PTL DEF PortsKeepOrder
=============================================================================
