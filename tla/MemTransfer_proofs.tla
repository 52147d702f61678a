------------------------- MODULE MemTransfer_proofs -------------------------
(***************************************************************************)
(* Proofs about MemTransfer, for every set of start addresses, every       *)
(* length of a job and every number of outstanding transactions.           *)
(***************************************************************************)
EXTENDS MemTransfer, DataLemmas, SequenceTheorems, TLAPS

Items == BOOLEAN \X Nat

\* A read or a write is being served.
Serving == MI!Busy /\ ~MI!Conflict

\* The job is one that the client may ask for, and the words moved are those counted.
JobAccounted ==
  /\ MI!Busy => n_words_q \in 1..MaxWords /\ addr_word_q \in Bases
  /\ Serving => Len(moved) = word_counter_q

Inv == TypeOK /\ InFlightAccounted /\ JobAccounted

-----------------------------------------------------------------------------
(* One clock cycle, by what the block is doing.                            *)

\* An idle block takes over what the client asks for, and nothing is on the bus.
LEMMA IdleCycle ==
  ASSUME Inv, NEW read \in BOOLEAN, NEW write \in BOOLEAN, NEW gnt \in BOOLEAN,
         NEW rvalid \in BOOLEAN, NEW addr \in Bases, NEW n \in 1..MaxWords,
         Cycle(read, write, addr, n, gnt, rvalid), ~MI!Busy
  PROVE  /\ Inv'
         /\ req_read_q' = read /\ req_write_q' = write /\ addr_word_q' = addr /\ n_words_q' = n
         /\ moved' = IF read \/ write THEN <<>> ELSE moved
         /\ ~rvalid
<1>1. ~MI!Conflict /\ ~MI!Req /\ inflight = <<>>
  <2>1. req_read_q = FALSE /\ req_write_q = FALSE
    BY DEF Inv, TypeOK, MI!Busy
  <2> QED BY <2>1 DEF MI!Conflict, MI!Req, Inv, InFlightAccounted
<1>2. MI!Latch(read, write, addr, n)
  BY <1>1 DEF Cycle, MI!Step, MI!Refuse, MI!Count
<1>3. inflight' = <<>> /\ ~rvalid
  BY <1>1, SMT DEF Cycle, Bus!Step, Bus!CanRespond
<1>4. moved' = IF read \/ write THEN <<>> ELSE moved
  BY DEF Cycle, History
<1>5. TypeOK'
  BY <1>2, <1>3, <1>4, TransferAssumption DEF Inv, TypeOK, MI!Latch
<1>6. InFlightAccounted'
  BY <1>2, <1>3, TransferAssumption
  DEF InFlightAccounted, MI!Latch
<1>7. JobAccounted'
  <2>1. n_words_q' \in 1..MaxWords /\ addr_word_q' \in Bases /\ word_counter_q' = 0
    BY <1>2 DEF MI!Latch
  <2>2. MI!Busy' => Len(moved') = 0
    BY <1>2, <1>4 DEF MI!Busy, MI!Latch
  <2> QED BY <2>1, <2>2 DEF JobAccounted, Serving
<1> QED BY <1>2, <1>3, <1>4, <1>5, <1>6, <1>7 DEF Inv, MI!Latch

\* A read and a write at once are refused.
LEMMA RefuseCycle ==
  ASSUME Inv, NEW read \in BOOLEAN, NEW write \in BOOLEAN, NEW gnt \in BOOLEAN,
         NEW rvalid \in BOOLEAN, NEW addr \in Bases, NEW n \in 1..MaxWords,
         Cycle(read, write, addr, n, gnt, rvalid), MI!Conflict
  PROVE  Inv' /\ ~req_read_q' /\ ~req_write_q' /\ moved' = moved
<1>1. req_read_q = TRUE /\ req_write_q = TRUE
  BY DEF Inv, TypeOK, MI!Conflict
<1>2. MI!Busy /\ ~MI!Req /\ inflight = <<>>
  BY <1>1 DEF MI!Busy, MI!Conflict, MI!Req, Inv, InFlightAccounted
<1>3. MI!Refuse
  BY <1>2 DEF Cycle, MI!Step, MI!Latch, MI!Count
<1>4. inflight' = <<>> /\ ~rvalid
  BY <1>2, SMT DEF Cycle, Bus!Step, Bus!CanRespond
<1>5. moved' = moved
  BY <1>2, <1>4 DEF Cycle, History
<1>6. TypeOK'
  <2>1. inflight' \in Seq(BOOLEAN \X Nat) /\ Len(inflight') <= MaxTrans
    BY <1>4, TransferAssumption
  <2>2. moved' \in Seq(Nat)
    BY <1>5 DEF Inv, TypeOK
  <2> QED BY <1>3, <2>1, <2>2, Zenon DEF Inv, TypeOK, MI!Refuse
<1>7. ~MI!Busy'
  BY <1>3 DEF MI!Refuse, MI!Busy
<1>8. InFlightAccounted' /\ JobAccounted'
  BY <1>4, <1>7 DEF InFlightAccounted, JobAccounted, Serving
<1> QED BY <1>3, <1>5, <1>6, <1>8 DEF Inv, MI!Refuse

\* A grant counts while requests are left.
Accept(gnt) == gnt /\ req_counter_q < n_words_q

\* What a cycle of a read or a write does.
LEMMA ServeCycle ==
  ASSUME Inv, NEW read \in BOOLEAN, NEW write \in BOOLEAN, NEW gnt \in BOOLEAN,
         NEW rvalid \in BOOLEAN, NEW addr \in Bases, NEW n \in 1..MaxWords,
         Cycle(read, write, addr, n, gnt, rvalid), Serving
  PROVE  /\ UNCHANGED <<addr_word_q, n_words_q>>
         /\ req_counter_q' = req_counter_q + OneIf(Accept(gnt))
         /\ word_counter_q' = word_counter_q + OneIf(rvalid)
         /\ req_read_q' = (req_read_q /\ ~(rvalid /\ MI!LastWord))
         /\ req_write_q' = (req_write_q /\ ~(rvalid /\ MI!LastWord))
         /\ Advanced(inflight, <<req_write_q, MI!ReqAddr>>, Accept(gnt), rvalid, inflight')
         /\ inflight' \in Seq(Items) /\ Len(inflight') <= MaxTrans
         /\ rvalid => inflight # <<>>
         /\ moved' = IF rvalid THEN Append(moved, Head(inflight)[2]) ELSE moved
<1>1. MI!Count(gnt, rvalid)
  BY DEF Serving, Cycle, MI!Step, MI!Latch, MI!Refuse
<1>2. MI!Req = (req_counter_q < n_words_q)
  <2>1. (req_read_q # req_write_q) = TRUE
    BY Zenon DEF Inv, TypeOK, Serving, MI!Busy, MI!Conflict
  <2>2. (req_counter_q < n_words_q) \in BOOLEAN
    OBVIOUS
  <2> QED BY <2>1, <2>2, Zenon DEF MI!Req
<1>3. Accept(gnt) \in BOOLEAN /\ (MI!Req /\ gnt) = Accept(gnt)
  BY <1>2 DEF Accept
<1>4. <<req_write_q, MI!ReqAddr>> \in Items /\ inflight \in Seq(Items)
  BY TransferAssumption DEF Inv, TypeOK, MI!ReqAddr, Items
<1>5. /\ inflight' = (IF rvalid THEN Tail(inflight) ELSE inflight)
                     \o (IF Accept(gnt) THEN <<<<req_write_q, MI!ReqAddr>>>> ELSE <<>>)
      /\ rvalid => inflight # <<>>
      /\ Accept(gnt) => Len(inflight) < MaxTrans
  BY <1>3 DEF Cycle, Bus!Step, Bus!CanRespond, Bus!CanGrant, MI!We
<1>6. Advanced(inflight, <<req_write_q, MI!ReqAddr>>, Accept(gnt), rvalid, inflight')
  BY <1>3, <1>4, <1>5, QueueStep, Zenon
<1>7. inflight' \in Seq(Items)
  <2> DEFINE x == <<req_write_q, MI!ReqAddr>>
             t == IF rvalid THEN Tail(inflight) ELSE inflight
             w == IF Accept(gnt) THEN <<x>> ELSE <<>>
  <2> HIDE DEF x
  <2>1. t \in Seq(Items) /\ w \in Seq(Items)
    BY <1>4, <1>5 DEF x
  <2>2. inflight' = t \o w
    BY <1>5 DEF x
  <2> HIDE DEF t, w
  <2> QED BY <2>1, <2>2, ConcatProperties, Zenon
<1>8. Len(inflight') <= MaxTrans
  <2>1. Len(inflight) \in Nat /\ Len(inflight) <= MaxTrans
    BY <1>4, LenProperties DEF Inv, TypeOK
  <2>2. Len(inflight') = Len(inflight) - OneIf(rvalid) + OneIf(Accept(gnt))
    BY <1>6 DEF Advanced
  <2>3. Accept(gnt) => Len(inflight) < MaxTrans
    BY <1>5
  <2>4. OneIf(rvalid) \in {0, 1} /\ OneIf(Accept(gnt)) \in {0, 1}
        /\ (~Accept(gnt) => OneIf(Accept(gnt)) = 0)
    BY DEF OneIf
  <2> QED BY <2>1, <2>2, <2>3, <2>4, TransferAssumption
<1>9. moved' = IF rvalid THEN Append(moved, Head(inflight)[2]) ELSE moved
  BY DEF Cycle, History, Serving
<1> QED BY <1>1, <1>5, <1>6, <1>7, <1>8, <1>9 DEF MI!Count, OneIf, Accept

\* The counters keep up with the bus, and the last word leaves nothing on it.
LEMMA ServeKeeps ==
  ASSUME Inv, NEW read \in BOOLEAN, NEW write \in BOOLEAN, NEW gnt \in BOOLEAN,
         NEW rvalid \in BOOLEAN, NEW addr \in Bases, NEW n \in 1..MaxWords,
         Cycle(read, write, addr, n, gnt, rvalid), Serving
  PROVE  /\ Inv'
         /\ moved' = IF rvalid THEN Append(moved, addr_word_q + 4 * word_counter_q) ELSE moved
<1> DEFINE push == Accept(gnt)
           r == req_counter_q
           w == word_counter_q
           x == <<req_write_q, MI!ReqAddr>>
<1>1. /\ UNCHANGED <<addr_word_q, n_words_q>>
      /\ req_counter_q' = r + OneIf(push) /\ word_counter_q' = w + OneIf(rvalid)
      /\ req_read_q' = (req_read_q /\ ~(rvalid /\ MI!LastWord))
      /\ req_write_q' = (req_write_q /\ ~(rvalid /\ MI!LastWord))
      /\ Advanced(inflight, x, push, rvalid, inflight')
      /\ inflight' \in Seq(Items) /\ Len(inflight') <= MaxTrans
      /\ rvalid => inflight # <<>>
      /\ moved' = IF rvalid THEN Append(moved, Head(inflight)[2]) ELSE moved
  BY ServeCycle
<1>2. /\ r \in Nat /\ w \in Nat /\ n_words_q \in 1..MaxWords /\ addr_word_q \in Nat
      /\ w < n_words_q /\ r <= n_words_q /\ Len(inflight) = r - w
      /\ inflight \in Seq(Items) /\ addr_word_q \in Bases
      /\ req_read_q \in BOOLEAN /\ req_write_q \in BOOLEAN
      /\ \A i \in 1..Len(inflight) : inflight[i] = <<req_write_q, addr_word_q + 4 * (w + i - 1)>>
  BY TransferAssumption
  DEF Inv, TypeOK, InFlightAccounted, JobAccounted, Serving, Items
<1>3. x = <<req_write_q, addr_word_q + 4 * r>>
  BY DEF MI!ReqAddr
<1>4. rvalid => r > w
  BY <1>1, <1>2
<1>5. rvalid => Head(inflight) = <<req_write_q, addr_word_q + 4 * w>>
  BY <1>1, <1>2, <1>4
<1>6. moved' = IF rvalid THEN Append(moved, addr_word_q + 4 * w) ELSE moved
  BY <1>1, <1>5
<1>7. moved \in Seq(Nat) /\ Len(moved) = w
  BY DEF Inv, TypeOK, JobAccounted
<1>8. moved' \in Seq(Nat) /\ Len(moved') = w + OneIf(rvalid)
  BY <1>2, <1>6, <1>7 DEF OneIf
<1>9. /\ OneIf(push) \in {0, 1} /\ OneIf(rvalid) \in {0, 1} /\ push \in BOOLEAN
      /\ r + OneIf(push) <= n_words_q /\ w + OneIf(rvalid) <= r + OneIf(push)
      /\ w + OneIf(rvalid) <= n_words_q
  BY <1>2, <1>4 DEF OneIf, Accept
<1>10. /\ Len(inflight') = r - w - OneIf(rvalid) + OneIf(push)
       /\ \A i \in 1..Len(inflight') :
            inflight'[i] = IF i <= Len(inflight) - OneIf(rvalid) THEN inflight[i + OneIf(rvalid)] ELSE x
  BY <1>1, <1>2 DEF Advanced
<1> HIDE DEF push, x
<1>11. TypeOK'
  <2>1. r + OneIf(push) \in 0..MaxWords /\ w + OneIf(rvalid) \in 0..MaxWords
    BY <1>2, <1>9, TransferAssumption
  <2>2. req_read_q' \in BOOLEAN /\ req_write_q' \in BOOLEAN
    BY <1>1
  <2> QED BY <1>1, <1>8, <2>1, <2>2 DEF Inv, TypeOK, Items
<1>12. CASE rvalid /\ MI!LastWord
  <2>1. w = n_words_q - 1 /\ r = n_words_q
    BY <1>2, <1>4, <1>12 DEF MI!LastWord
  <2>2. OneIf(push) = 0 /\ OneIf(rvalid) = 1
    BY <1>2, <1>9, <1>12, <2>1 DEF OneIf
  <2>3. Len(inflight') = 0
    BY <1>2, <1>10, <2>1, <2>2
  <2>4. inflight' = <<>>
    BY <1>1, <2>3
  <2>5. ~req_read_q' /\ ~req_write_q'
    BY <1>1, <1>12
  <2> QED BY <1>6, <1>11, <2>4, <2>5
          DEF Inv, InFlightAccounted, JobAccounted, Serving, MI!Busy
<1>13. CASE ~(rvalid /\ MI!LastWord)
  <2>1. w + OneIf(rvalid) < n_words_q
    BY <1>2, <1>13 DEF MI!LastWord, OneIf
  <2>2. req_read_q' = req_read_q /\ req_write_q' = req_write_q
    BY <1>1, <1>2, <1>13, Zenon
  <2>3. ASSUME NEW i \in 1..Len(inflight')
        PROVE  inflight'[i] = <<req_write_q, addr_word_q + 4 * (w + OneIf(rvalid) + i - 1)>>
    <3>0. i \in Nat /\ i >= 1 /\ Len(inflight) \in Nat
      BY <1>2, <1>9, <1>10
    <3>1. CASE i <= Len(inflight) - OneIf(rvalid)
      <4>1. i + OneIf(rvalid) \in 1..Len(inflight) /\ i \in Nat
        BY <1>9, <3>0, <3>1
      <4>2. inflight'[i] = inflight[i + OneIf(rvalid)]
        BY <1>10, <3>1, Zenon
      <4>3. inflight[i + OneIf(rvalid)]
              = <<req_write_q, addr_word_q + 4 * (w + (i + OneIf(rvalid)) - 1)>>
        BY <1>2, <4>1, Zenon
      <4>4. w + (i + OneIf(rvalid)) - 1 = w + OneIf(rvalid) + i - 1
        <5>1. w \in Nat
          BY <1>2
        <5> HIDE DEF w
        <5> QED BY <1>9, <3>0, <5>1
      <4> QED BY <4>2, <4>3, <4>4
    <3>2. CASE ~(i <= Len(inflight) - OneIf(rvalid))
      <4>1. i \in Nat /\ i <= r - w - OneIf(rvalid) + OneIf(push) /\ i > r - w - OneIf(rvalid)
        BY <1>2, <1>9, <1>10, <3>2
      <4>2. w + OneIf(rvalid) + i - 1 = r
        <5>1. w \in Nat /\ r \in Nat
          BY <1>2
        <5>2. OneIf(push) \in {0, 1} /\ OneIf(rvalid) \in {0, 1}
          BY <1>9
        <5> HIDE DEF w, r
        <5> QED BY <4>1, <5>1, <5>2
      <4>3. inflight'[i] = x
        BY <1>10, <3>2, Zenon
      <4> QED BY <1>3, <4>2, <4>3
    <3> QED BY <3>1, <3>2
  <2>4. Len(inflight') = (r + OneIf(push)) - (w + OneIf(rvalid))
    BY <1>2, <1>9, <1>10
  <2>5. MI!Busy' = MI!Busy /\ MI!Conflict' = MI!Conflict
    BY <2>2 DEF MI!Busy, MI!Conflict
  <2>6. InFlightAccounted'
    BY <1>1, <1>9, <2>1, <2>2, <2>3, <2>4, <2>5 DEF InFlightAccounted, Serving
  <2>7. JobAccounted'
    BY <1>1, <1>2, <1>8, <2>5 DEF JobAccounted, Serving
  <2> QED BY <1>6, <1>11, <2>6, <2>7 DEF Inv
<1> QED BY <1>12, <1>13

-----------------------------------------------------------------------------
(* The invariant, and what follows from it.                                *)

LEMMA InvInit == Init => Inv
<1> SUFFICES ASSUME Init PROVE Inv
  OBVIOUS
<1>1. TypeOK
  <2>1. inflight \in Seq(BOOLEAN \X Nat) /\ Len(inflight) = 0 /\ moved \in Seq(Nat)
    BY DEF Init, Bus!Init
  <2>2. MaxWords \in Nat /\ 0 \in 0..MaxWords /\ 0 <= MaxTrans
    BY TransferAssumption
  <2> QED BY <2>1, <2>2 DEF Init, MI!Init, TypeOK
<1>2. ~MI!Busy /\ inflight = <<>>
  BY DEF Init, MI!Init, Bus!Init, MI!Busy
<1> QED BY <1>1, <1>2 DEF Inv, InFlightAccounted, JobAccounted, Serving

LEMMA InvNext == Inv /\ [Next]_vars => Inv'
<1> SUFFICES ASSUME Inv, [Next]_vars PROVE Inv'
  OBVIOUS
<1>1. CASE UNCHANGED vars
  BY <1>1 DEF vars, mivars, Inv, TypeOK, InFlightAccounted, JobAccounted, Serving,
     MI!Busy, MI!Conflict
<1>2. ASSUME NEW read \in BOOLEAN, NEW write \in BOOLEAN, NEW gnt \in BOOLEAN,
             NEW rvalid \in BOOLEAN, NEW addr \in Bases, NEW n \in 1..MaxWords,
             Cycle(read, write, addr, n, gnt, rvalid)
      PROVE  Inv'
  BY <1>2, IdleCycle, RefuseCycle, ServeKeeps DEF Serving
<1> QED BY <1>1, <1>2 DEF Next

\* Counters, port and history stay within their types, whatever the client asks for and
\* whenever the bus grants and answers.
THEOREM TypeCorrect == Spec => []TypeOK
<1>1. Inv => TypeOK
  BY DEF Inv
<1> QED BY <1>1, InvInit, InvNext, PTL DEF Spec

\* What is in flight is what the block has asked for and not received: no answer of one
\* job is ever counted as a word of the next.
THEOREM Accounted == Spec => []InFlightAccounted
<1>1. Inv => InFlightAccounted
  BY DEF Inv
<1> QED BY <1>1, InvInit, InvNext, PTL DEF Spec

\* A request that is not granted stays up with its address and its direction.
THEOREM HeldRequest == Spec => RequestHeldUntilGranted
<1>1. Inv /\ [Next]_vars =>
        [MI!Req /\ req_counter_q' = req_counter_q =>
           MI!Req' /\ MI!ReqAddr' = MI!ReqAddr /\ MI!We' = MI!We]_vars
  <2> SUFFICES ASSUME Inv, NEW read \in BOOLEAN, NEW write \in BOOLEAN, NEW gnt \in BOOLEAN,
                      NEW rvalid \in BOOLEAN, NEW addr \in Bases, NEW n \in 1..MaxWords,
                      Cycle(read, write, addr, n, gnt, rvalid),
                      MI!Req, req_counter_q' = req_counter_q
               PROVE  MI!Req' /\ MI!ReqAddr' = MI!ReqAddr /\ MI!We' = MI!We
    BY DEF Next
  <2>1. Serving
    BY DEF Inv, TypeOK, Serving, MI!Req, MI!Busy, MI!Conflict
  <2>2. /\ UNCHANGED <<addr_word_q, n_words_q>>
        /\ req_read_q' = (req_read_q /\ ~(rvalid /\ MI!LastWord))
        /\ req_write_q' = (req_write_q /\ ~(rvalid /\ MI!LastWord))
        /\ rvalid => inflight # <<>>
    BY <2>1, ServeCycle
  <2>3. ~(rvalid /\ MI!LastWord)
    <3> SUFFICES ASSUME rvalid, MI!LastWord PROVE FALSE
      OBVIOUS
    <3>1. Len(inflight) > 0
      BY <2>2 DEF Inv, TypeOK
    <3>2. Len(inflight) = req_counter_q - word_counter_q
      BY <2>1 DEF Inv, InFlightAccounted, Serving
    <3> QED BY <3>1, <3>2 DEF Inv, TypeOK, MI!Req, MI!LastWord
  <2>4. req_read_q' = req_read_q /\ req_write_q' = req_write_q
    BY <2>2, <2>3, Zenon DEF Inv, TypeOK
  <2> QED BY <2>2, <2>4 DEF MI!Req, MI!ReqAddr, MI!We
<1> QED BY <1>1, InvInit, InvNext, PTL DEF Spec, RequestHeldUntilGranted

-----------------------------------------------------------------------------
(* The block implements WordTransfer.                                      *)

LEMMA JobIdle == ~MI!Busy => AbstractJob = Promise!NoJob
BY DEF AbstractJob, Promise!NoJob

LEMMA JobBusy ==
  ASSUME TypeOK, MI!Busy
  PROVE  /\ AbstractJob.base = addr_word_q /\ AbstractJob.n = n_words_q
         /\ MI!Conflict => AbstractJob.mode = "both"
         /\ ~MI!Conflict => AbstractJob.mode \in {"read", "write"}
         /\ AbstractJob \in [mode : {"read", "write", "both"}, base : {addr_word_q}, n : {n_words_q}]
BY DEF AbstractJob, MI!Conflict

\* Every cycle moves the next word in order, starts a job, refuses one or does nothing
\* that the client could see; words are never lost, repeated or moved for another job.
THEOREM WordsInOrder == Spec => Promise!Init /\ [][Promise!Next]_Promise!vars
<1>1. Init => Promise!Init
  BY JobIdle DEF Init, MI!Init, MI!Busy, Promise!Init
<1>2. Inv /\ Inv' /\ [Next]_vars => [Promise!Next]_Promise!vars
  <2> SUFFICES ASSUME Inv, Inv', [Next]_vars PROVE [Promise!Next]_Promise!vars
    OBVIOUS
  <2>1. CASE UNCHANGED vars
    BY <2>1 DEF vars, mivars, Promise!vars, AbstractJob, MI!Busy, MI!Conflict
  <2>2. ASSUME NEW read \in BOOLEAN, NEW write \in BOOLEAN, NEW gnt \in BOOLEAN,
               NEW rvalid \in BOOLEAN, NEW addr \in Bases, NEW n \in 1..MaxWords,
               Cycle(read, write, addr, n, gnt, rvalid)
        PROVE  [Promise!Next]_Promise!vars
    <3>1. CASE ~MI!Busy
      <4>1. /\ req_read_q' = read /\ req_write_q' = write /\ addr_word_q' = addr
            /\ n_words_q' = n /\ moved' = IF read \/ write THEN <<>> ELSE moved
        BY <2>2, <3>1, IdleCycle
      <4>2. CASE read \/ write
        <5>1. MI!Busy'
          BY <4>1, <4>2 DEF MI!Busy
        <5>2. AbstractJob' \in Promise!Jobs
          BY <4>1, <4>2 DEF AbstractJob, Promise!Jobs, MI!Busy, MI!Conflict
        <5> QED BY <3>1, <4>1, <4>2, <5>2, JobIdle DEF Promise!Next, Promise!Start
      <4>3. CASE ~(read \/ write)
        <5>1. ~MI!Busy'
          BY <4>1, <4>3 DEF MI!Busy
        <5>2. AbstractJob' = AbstractJob
          BY <3>1, <5>1 DEF AbstractJob
        <5> QED BY <4>1, <4>3, <5>2 DEF Promise!vars
      <4> QED BY <4>2, <4>3
    <3>2. CASE MI!Conflict
      <4>1. ~MI!Busy' /\ moved' = moved
        BY <2>2, <3>2, RefuseCycle DEF MI!Busy
      <4>2. AbstractJob' = Promise!NoJob
        BY <4>1 DEF AbstractJob, Promise!NoJob
      <4>3. AbstractJob.mode = "both"
        BY <3>2, JobBusy DEF Inv, MI!Busy, MI!Conflict
      <4> QED BY <4>1, <4>2, <4>3 DEF Promise!Next, Promise!RefuseBoth
    <3>3. CASE Serving
      <4>1. /\ UNCHANGED <<addr_word_q, n_words_q>>
            /\ word_counter_q' = word_counter_q + OneIf(rvalid)
            /\ req_read_q' = (req_read_q /\ ~(rvalid /\ MI!LastWord))
            /\ req_write_q' = (req_write_q /\ ~(rvalid /\ MI!LastWord))
        BY <2>2, <3>3, ServeCycle
      <4>2. moved' = IF rvalid THEN Append(moved, addr_word_q + 4 * word_counter_q) ELSE moved
        BY <2>2, <3>3, ServeKeeps
      <4>3. /\ Len(moved) = word_counter_q /\ word_counter_q \in Nat /\ moved \in Seq(Nat)
            /\ word_counter_q < n_words_q /\ n_words_q \in Nat
        BY <3>3 DEF Inv, TypeOK, JobAccounted, InFlightAccounted, Serving
      <4>4. /\ AbstractJob.base = addr_word_q /\ AbstractJob.n = n_words_q
            /\ AbstractJob.mode \in {"read", "write"}
        BY <3>3, JobBusy DEF Inv, Serving
      <4>5. CASE ~(rvalid /\ MI!LastWord)
        <5>1. req_read_q' = req_read_q /\ req_write_q' = req_write_q
          BY <4>1, <4>5, Zenon DEF Inv, TypeOK
        <5>2. AbstractJob' = AbstractJob
          BY <4>1, <5>1 DEF AbstractJob, MI!Busy, MI!Conflict
        <5>3. CASE rvalid
          <6>1. moved' = Append(moved, AbstractJob.base + 4 * Len(moved))
            BY <4>2, <4>3, <4>4, <5>3
          <6>2. Len(moved') # AbstractJob.n
            BY <4>2, <4>3, <4>4, <4>5, <5>3 DEF MI!LastWord
          <6> QED BY <4>4, <5>2, <6>1, <6>2 DEF Promise!Next, Promise!MoveWord
        <5>4. CASE ~rvalid
          BY <4>2, <5>2, <5>4 DEF Promise!vars
        <5> QED BY <5>3, <5>4
      <4>6. CASE rvalid /\ MI!LastWord
        <5>1. ~MI!Busy'
          BY <4>1, <4>6 DEF MI!Busy
        <5>2. AbstractJob' = Promise!NoJob
          BY <5>1 DEF AbstractJob, Promise!NoJob
        <5>3. moved' = Append(moved, AbstractJob.base + 4 * Len(moved))
          BY <4>2, <4>3, <4>4, <4>6
        <5>4. Len(moved') = AbstractJob.n
          BY <4>2, <4>3, <4>4, <4>6 DEF MI!LastWord
        <5> QED BY <4>4, <5>2, <5>3, <5>4 DEF Promise!Next, Promise!MoveWord
      <4> QED BY <4>5, <4>6
    <3> QED BY <3>1, <3>2, <3>3 DEF Serving
  <2> QED BY <2>1, <2>2 DEF Next
<1> QED BY <1>1, <1>2, InvInit, InvNext, PTL DEF Spec
=============================================================================
