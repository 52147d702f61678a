----------------------- MODULE DroneController_proofs -----------------------
(***************************************************************************)
(* Proofs about DroneController, for matrices and vectors of every size,   *)
(* every number of outstanding transactions and every set of requests.     *)
(***************************************************************************)
EXTENDS DroneController, DataLemmas, SequenceTheorems, TLAPS

-----------------------------------------------------------------------------
(* Operand layout.                                                         *)

\* Every operand has words.
LEMMA NWordsType == ASSUME NEW p \in Phases PROVE NWords(p) \in Nat /\ NWords(p) > 0
<1>1. (KRows * KCols) \in Nat /\ KRows * KCols >= KCols
  BY DimAssumption
<1>2. KCols >= 4 /\ UDim >= 4
  BY DimAssumption
<1>3. \A k \in Nat : k >= 4 => k \div 4 \in Nat /\ k \div 4 > 0
  OBVIOUS
<1> QED BY <1>1, <1>2, <1>3, DimAssumption DEF NWords, Phases

\* Euclid's division, the two ways it is used.
LEMMA DivUnique ==
  ASSUME NEW b \in Nat \ {0}, NEW q \in Nat, NEW r \in Nat, r < b
  PROVE  (q * b + r) \div b = q
OBVIOUS

\* The quotient is within one divisor of its dividend.
LEMMA DivRest ==
  ASSUME NEW a \in Nat, NEW b \in Nat \ {0}
  PROVE  /\ a \div b \in Nat
         /\ (a \div b) * b <= a
         /\ a < (a \div b) * b + b
OBVIOUS

\* K has KRows rows of KCols / 4 words.
LEMMA KWords ==
  \E c \in Nat \ {0} : KCols = 4 * c /\ KCols \div 4 = c /\ NWords("MATRIX_K") = KRows * c
<1>1. PICK c \in Nat \ {0} : KCols = 4 * c
  BY DimAssumption
<1>2. KRows * KCols = 4 * (KRows * c) /\ KRows * c \in Nat
  BY <1>1, DimAssumption
<1>3. \A k \in Nat : (4 * k) \div 4 = k
  OBVIOUS
<1> QED BY <1>1, <1>2, <1>3 DEF NWords

\* Word n of an operand is written to the place 4n bytes into it.
LEMMA SlotPlace ==
  ASSUME NEW p \in Phases, NEW n \in 0..NWords(p)-1
  PROVE  Slot(p, n) \in Slots(p) /\ Offset(p, Slot(p, n)) = 4 * n
<1>1. CASE p = "MATRIX_K"
  <2>1. PICK c \in Nat \ {0} : KCols = 4 * c /\ KCols \div 4 = c /\ NWords(p) = KRows * c
    BY <1>1, KWords
  <2> DEFINE row == (n * 4) \div KCols
             col == n * 4 - row * KCols
  <2>2. n \in Nat /\ n < KRows * c
    BY <2>1, DimAssumption
  <2>3. row \in Nat /\ row * KCols <= n * 4 /\ n * 4 < row * KCols + KCols
    BY <2>2, DivRest, DimAssumption
  <2> HIDE DEF row
  <2>4. row * KCols = 4 * (row * c) /\ row * c \in Nat
    BY <2>1, <2>3
  <2>5. row * c <= n /\ n - row * c < c
    BY <2>1, <2>2, <2>3, <2>4
  <2>6. row < KRows
    <3>1. CASE row >= KRows
      <4>1. PICK d \in Nat : row = KRows + d
        <5> row - KRows \in Nat
          BY <2>3, <3>1, DimAssumption
        <5> QED BY <2>3, DimAssumption
      <4>2. row * c = KRows * c + d * c /\ d * c \in Nat /\ KRows * c \in Nat
        BY <2>1, <4>1, DimAssumption
      <4> QED BY <2>2, <2>4, <2>5, <4>2
    <3> QED BY <2>3, <3>1, DimAssumption
  <2>7. col = 4 * (n - row * c) /\ n - row * c \in 0..c-1
    BY <2>1, <2>2, <2>4, <2>5
  <2>8. Slot(p, n) = <<row, col>>
    BY <1>1 DEF Slot, row
  <2>9. <<row, col>> \in Slots(p)
    <3> DEFINE k == n - row * c
    <3>1. k \in 0..(KCols \div 4)-1 /\ row \in 0..KRows-1 /\ col = 4 * k
      BY <2>1, <2>3, <2>6, <2>7, DimAssumption
    <3> HIDE DEF k, col
    <3> QED BY <1>1, <3>1 DEF Slots
  <2>10. row * KCols + col = 4 * n
    BY <2>2, <2>4
  <2> QED BY <1>1, <2>8, <2>9, <2>10 DEF Offset
<1>2. CASE p # "MATRIX_K"
  BY <1>2, NWordsType DEF Slot, Slots, Offset
<1> QED BY <1>1, <1>2

\* ... and every place of an operand is that of one of its words.
LEMMA PlaceSlot ==
  ASSUME NEW p \in Phases, NEW s \in Slots(p)
  PROVE  \E n \in 0..NWords(p)-1 : s = Slot(p, n) /\ Offset(p, s) = 4 * n
<1>1. CASE p = "MATRIX_K"
  <2>1. PICK c \in Nat \ {0} : KCols = 4 * c /\ KCols \div 4 = c /\ NWords(p) = KRows * c
    BY <1>1, KWords
  <2>2. PICK i \in 0..KRows-1, j \in 0..c-1 : s = <<i, 4*j>>
    BY <1>1, <2>1 DEF Slots
  <2> DEFINE n == i * c + j
  <2>3. i * c \in Nat /\ j \in Nat /\ i \in Nat /\ 4 * j < KCols
    BY <2>1, <2>2, DimAssumption
  <2>4. n * 4 = i * KCols + 4 * j
    BY <2>1, <2>3
  <2>5. (n * 4) \div KCols = i
    BY <2>3, <2>4, DivUnique, DimAssumption
  <2>6. n \in 0..NWords(p)-1
    <3>1. i * c + c <= KRows * c
      BY <2>1, <2>2, DimAssumption
    <3> QED BY <2>1, <2>2, <2>3, <3>1, DimAssumption
  <2>7. n * 4 - i * KCols = 4 * j
    BY <2>3, <2>4, DimAssumption
  <2>8. Slot(p, n) = s
    BY <1>1, <2>2, <2>5, <2>7 DEF Slot
  <2>9. Offset(p, s) = 4 * n
    BY <1>1, <2>2, <2>3, <2>4 DEF Offset
  <2> QED BY <2>6, <2>8, <2>9
<1>2. CASE p # "MATRIX_K"
  BY <1>2, NWordsType DEF Slot, Slots, Offset
<1> QED BY <1>1, <1>2

-----------------------------------------------------------------------------
(* Type correctness.                                                       *)

\* Every cycle, whatever its inputs, keeps the types ...
LEMMA TypeNext == TypeOK /\ [Next]_vars => TypeOK'
<1> SUFFICES ASSUME TypeOK, [Next]_vars PROVE TypeOK'
  OBVIOUS
<1>1. CASE UNCHANGED vars
  BY <1>1 DEF TypeOK, vars, regvars, mivars
<1>2. ASSUME NEW gnt \in BOOLEAN, NEW rvalid \in BOOLEAN, NEW store \in Storable,
             NEW req \in Drivable, Cycle(req, store, gnt, rvalid)
      PROVE  TypeOK'
  <2>1. /\ is_active' \in BOOLEAN /\ rsp_pending' \in BOOLEAN
        /\ cpuif' \in Requests \cup {NoReq}
        /\ stored' \in [Pointers -> Bases] /\ cmd' \subseteq CmdBits
    BY <1>2, RequestAssumption
       DEF TypeOK, Cycle, Reg!Step, Reg!Capture, Reg!Respond, Reg!Occupy, Reg!StoredFields, Reg!CmdFields,
           Drivable, Bases
  <2>2. sram_addr_word \in Bases /\ n_words_wire \in {0} \cup {NWords(p) : p \in Phases}
    BY DEF TypeOK, sram_addr_word, n_words_wire, Loading, PointerOf, Pointers, Bases, Phases
  <2>a. \/ MI!Latch(Loading, FALSE, sram_addr_word, n_words_wire)
        \/ MI!Refuse
        \/ MI!Count(gnt, rvalid)
    BY <1>2 DEF Cycle, MI!Step
  <2>b. req_read_q' \in BOOLEAN /\ req_write_q' \in BOOLEAN
    <3>1. CASE MI!Latch(Loading, FALSE, sram_addr_word, n_words_wire)
      <4>1. req_read_q' = (rd_fsm_state_q \in Phases) /\ req_write_q' = FALSE
        BY <3>1 DEF MI!Latch, Loading
      <4>2. (rd_fsm_state_q \in Phases) \in BOOLEAN
        OBVIOUS
      <4> QED BY <4>1, <4>2
    <3>2. CASE MI!Refuse
      BY <3>2 DEF MI!Refuse
    <3>3. CASE MI!Count(gnt, rvalid)
      <4>1. /\ req_read_q' = (req_read_q /\ ~(rvalid /\ MI!LastWord))
            /\ req_write_q' = (req_write_q /\ ~(rvalid /\ MI!LastWord))
        BY <3>3 DEF MI!Count
      <4> QED BY <4>1, Zenon
    <3> QED BY <2>a, <3>1, <3>2, <3>3
  <2>3. /\ addr_word_q' \in Bases
        /\ n_words_q' \in {0} \cup {NWords(p) : p \in Phases}
        /\ req_counter_q' \in Nat /\ word_counter_q' \in Nat
    BY <2>a, <2>2 DEF TypeOK, MI!Latch, MI!Refuse, MI!Count
  <2>4. inflight' \in Seq(Words)
    <3>1. <<MI!ReqAddr, now>> \in Words
      BY RequestAssumption DEF TypeOK, MI!ReqAddr, Words, Bases
    <3>2. rvalid => inflight # <<>> /\ Tail(inflight) \in Seq(Words)
      BY <1>2 DEF TypeOK, Cycle, Bus!Step, Bus!CanRespond
    <3> QED BY <1>2, <3>1, <3>2 DEF TypeOK, Cycle, Bus!Step
  <2>5. rd_fsm_state_q' \in States /\ sram_n_words' \in {0} \cup {NWords(p) : p \in Phases}
    BY <1>2, <2>2 DEF TypeOK, Cycle, FsmIdle, FsmLoad, OnCommand, Successor, States, Phases
  <2>6. now' \in Nat /\ since' \in Nat
    BY <1>2 DEF TypeOK, Cycle, FsmIdle, FsmLoad, Store
  <2>7. /\ operand' = [p \in Phases |-> operand'[p]]
        /\ \A p \in Phases : operand'[p] \in [Slots(p) -> Words]
    <3>1. MI!DataValid(rvalid) => Head(inflight) \in Words
      BY <1>2 DEF TypeOK, Cycle, Bus!Step, Bus!CanRespond, MI!DataValid
    <3>2. CASE UNCHANGED operand
      BY <3>2 DEF TypeOK
    <3>3. CASE /\ Loading /\ MI!DataValid(rvalid)
               /\ operand' = [operand EXCEPT
                    ![rd_fsm_state_q][Slot(rd_fsm_state_q, word_counter_q)] = Head(inflight)]
      BY <3>1, <3>3 DEF TypeOK, Loading
    <3> QED BY <1>2, <3>2, <3>3 DEF Cycle, FsmIdle, FsmLoad
  <2> QED BY <2>1, <2>b, <2>3, <2>4, <2>5, <2>6, <2>7 DEF TypeOK
<1> QED BY <1>1, <1>2 DEF Next

\* ... so every register, counter and operand word stays within its type.
THEOREM TypeCorrect == Spec => []TypeOK
<1>1. Init => TypeOK
  <2> SUFFICES ASSUME Init PROVE TypeOK
    OBVIOUS
  <2>1. <<0, 0>> \in Words /\ inflight \in Seq(Words)
    BY DEF Init, Bus!Init, Words
  <2>2. /\ operand = [p \in Phases |-> operand[p]]
        /\ \A p \in Phases : operand[p] \in [Slots(p) -> Words]
    BY <2>1 DEF Init, Blank
  <2>3. req_read_q \in BOOLEAN /\ req_write_q \in BOOLEAN
    BY DEF Init, MI!Init
  <2>4. is_active \in BOOLEAN /\ rsp_pending \in BOOLEAN
    BY DEF Init, Reg!Init
  <2> QED
    BY <2>1, <2>2, <2>3, <2>4
    DEF Init, TypeOK, Reg!Init, MI!Init, Bus!Init, Bases, States, Phases
<1> QED BY <1>1, TypeNext, PTL DEF Spec

-----------------------------------------------------------------------------
(* The inductive invariant: the counters account for the bus, what is       *)
(* loaded lies in place, and what is not being loaded is whole.             *)

Safe == PhaseOwnsBus /\ PartPlaced /\ OperandsWhole /\ since <= now

\* A grant counts while requests are left.
Accept(gnt) == gnt /\ req_counter_q < n_words_q

\* What one cycle of a load does to the counters, the port, the FSM and the operand.
LEMMA LoadCycle ==
  ASSUME TypeOK, Safe, NEW gnt \in BOOLEAN, NEW rvalid \in BOOLEAN,
         NEW store \in BOOLEAN, NEW req, Cycle(req, store, gnt, rvalid), req_read_q
  PROVE  /\ Loading /\ UNCHANGED <<since, addr_word_q, n_words_q, req_write_q>>
         /\ req_counter_q' = req_counter_q + OneIf(Accept(gnt))
         /\ word_counter_q' = word_counter_q + OneIf(rvalid)
         /\ req_read_q' = ~(rvalid /\ MI!LastWord)
         /\ Advanced(inflight, <<MI!ReqAddr, now>>, Accept(gnt), rvalid, inflight')
         /\ rvalid => inflight # <<>>
         /\ rd_fsm_state_q' = IF rvalid /\ MI!LastWord THEN Successor(rd_fsm_state_q)
                              ELSE rd_fsm_state_q
         /\ operand' = IF rvalid
                       THEN [operand EXCEPT
                              ![rd_fsm_state_q][Slot(rd_fsm_state_q, word_counter_q)]
                                = Head(inflight)]
                       ELSE operand
         /\ now' \in Nat /\ now <= now'
<1>1. Loading /\ ~req_write_q
  BY DEF Safe, PhaseOwnsBus
<1>2. MI!Count(gnt, rvalid)
  BY <1>1 DEF Cycle, MI!Step, MI!Latch, MI!Refuse, MI!Busy, MI!Conflict
<1>3. FsmLoad(rvalid) /\ MI!DataValid(rvalid) = rvalid
      /\ MI!Done(rvalid) = (rvalid /\ MI!LastWord)
  <2>1. FsmLoad(rvalid)
    BY <1>1 DEF Cycle, FsmIdle
  <2>2. (rvalid /\ MI!LastWord) \in BOOLEAN
    OBVIOUS
  <2> QED BY <2>1, <2>2, <1>1, Zenon DEF MI!DataValid, MI!Done, MI!Conflict, MI!Busy, TypeOK
<1>4. req_read_q' = ~(rvalid /\ MI!LastWord) /\ req_write_q' = req_write_q
  <2>1. /\ req_read_q'  = (req_read_q  /\ ~(rvalid /\ MI!LastWord))
        /\ req_write_q' = (req_write_q /\ ~(rvalid /\ MI!LastWord))
    BY <1>2 DEF MI!Count
  <2>2. req_write_q = FALSE
    BY <1>1 DEF TypeOK
  <2> QED BY <1>1, <2>1, <2>2, Zenon
<1>5. MI!Req = (req_counter_q < n_words_q)
  <2>1. req_write_q = FALSE /\ req_read_q = TRUE
    BY <1>1 DEF TypeOK
  <2>2. (req_counter_q < n_words_q) \in BOOLEAN
    OBVIOUS
  <2> QED BY <2>1, <2>2, Zenon DEF MI!Req
<1>6. <<MI!ReqAddr, now>> \in Words
  BY RequestAssumption DEF TypeOK, MI!ReqAddr, Words, Bases
<1>7. /\ inflight' = (IF rvalid THEN Tail(inflight) ELSE inflight)
                     \o (IF Accept(gnt) THEN <<<<MI!ReqAddr, now>>>> ELSE <<>>)
      /\ rvalid => inflight # <<>>
  BY <1>5 DEF Cycle, Bus!Step, Bus!CanRespond, Accept
<1>8. Advanced(inflight, <<MI!ReqAddr, now>>, Accept(gnt), rvalid, inflight')
  <2>1. Accept(gnt) \in BOOLEAN /\ inflight \in Seq(Words)
    BY DEF TypeOK, Accept
  <2> QED BY <1>6, <1>7, <2>1, QueueStep, Zenon
<1>9. /\ req_counter_q' = req_counter_q + OneIf(Accept(gnt))
      /\ word_counter_q' = word_counter_q + OneIf(rvalid)
      /\ UNCHANGED <<addr_word_q, n_words_q>>
  BY <1>2 DEF MI!Count, OneIf, Accept
<1>10. now' \in Nat /\ now <= now'
  BY DEF Cycle, Store, TypeOK
<1> QED BY <1>1, <1>3, <1>4, <1>7, <1>8, <1>9, <1>10 DEF FsmLoad

\* The words of the current operand received up to and including this cycle lie in
\* place and are as fresh as the command.
InPlace(op, p, count, latest) ==
  \A s \in Slots(p) :
    Offset(p, s) < 4 * count =>
      op[p][s][1] = addr_word_q + Offset(p, s) /\ op[p][s][2] \in since..latest

\* Writing word number count extends the placed part of an operand by one word.
LEMMA Placed ==
  ASSUME TypeOK, Safe, NEW gnt \in BOOLEAN, NEW rvalid \in BOOLEAN,
         NEW store \in BOOLEAN, NEW req, Cycle(req, store, gnt, rvalid), req_read_q
  PROVE  InPlace(operand', rd_fsm_state_q, word_counter_q', now)
<1> DEFINE p == rd_fsm_state_q
<1>1. p \in Phases /\ word_counter_q \in Nat /\ n_words_q = NWords(p)
      /\ word_counter_q < NWords(p) /\ NWords(p) \in Nat
  BY NWordsType DEF TypeOK, Safe, PhaseOwnsBus, Loading
<1>2. InPlace(operand, p, word_counter_q, now)
  BY DEF Safe, PartPlaced, InPlace
<1>4. CASE ~rvalid
  <2>1. operand' = operand /\ word_counter_q' = word_counter_q
    BY <1>1, <1>4, LoadCycle DEF OneIf
  <2> QED BY <1>2, <2>1 DEF InPlace
<1>5. CASE rvalid
  <2>1. /\ operand' = [operand EXCEPT ![p][Slot(p, word_counter_q)] = Head(inflight)]
        /\ word_counter_q' = word_counter_q + 1
        /\ inflight # <<>>
    BY <1>5, LoadCycle DEF OneIf
  <2>2. Head(inflight)[1] = addr_word_q + 4 * word_counter_q
        /\ Head(inflight)[2] \in since..now
    <3>1. Head(inflight) = inflight[1] /\ 1 \in 1..Len(inflight)
      BY <2>1 DEF TypeOK
    <3>2. /\ inflight[1][1] = addr_word_q + 4 * (word_counter_q + 1 - 1)
          /\ inflight[1][2] \in since..now
      BY <3>1 DEF Safe, PhaseOwnsBus
    <3> QED BY <1>1, <3>1, <3>2
  <2>3. operand[p] \in [Slots(p) -> Words] /\ p \in DOMAIN operand
    BY <1>1 DEF TypeOK
  <2> SUFFICES ASSUME NEW s \in Slots(p), Offset(p, s) < 4 * (word_counter_q + 1)
               PROVE  /\ operand'[p][s][1] = addr_word_q + Offset(p, s)
                      /\ operand'[p][s][2] \in since..now
    BY <2>1 DEF InPlace
  <2>4. PICK n \in 0..NWords(p)-1 : s = Slot(p, n) /\ Offset(p, s) = 4 * n
    BY <1>1, PlaceSlot
  <2>5. CASE n = word_counter_q
    <3>1. operand'[p][s] = Head(inflight)
      BY <2>1, <2>3, <2>4, <2>5
    <3> QED BY <2>2, <2>4, <2>5, <3>1
  <2>6. CASE n # word_counter_q
    <3>1. s # Slot(p, word_counter_q)
      <4>1. Offset(p, Slot(p, word_counter_q)) = 4 * word_counter_q
        BY <1>1, SlotPlace
      <4>2. 4 * n # 4 * word_counter_q
        BY <1>1, <2>6
      <4> QED BY <2>4, <4>1, <4>2
    <3>2. operand'[p][s] = operand[p][s]
      BY <2>1, <2>3, <3>1
    <3>3. Offset(p, s) < 4 * word_counter_q
      BY <1>1, <2>4, <2>6
    <3> QED BY <1>2, <3>2, <3>3 DEF InPlace
  <2> QED BY <2>5, <2>6
<1> QED BY <1>4, <1>5

-----------------------------------------------------------------------------
(* The steps of the invariant.                                             *)

\* Outside a load the interface idles or latches the job of the phase just entered.
LEMMA IdleStep ==
  ASSUME TypeOK, Safe, NEW gnt \in BOOLEAN, NEW rvalid \in BOOLEAN,
         NEW store \in BOOLEAN, NEW req, Cycle(req, store, gnt, rvalid), ~req_read_q
  PROVE  Safe' /\ operand' = operand /\ (Loading => rd_fsm_state_q' = rd_fsm_state_q)
<1>1. req_read_q = FALSE /\ req_write_q = FALSE /\ inflight = <<>>
  BY DEF TypeOK, Safe, PhaseOwnsBus
<1>2. ~MI!Busy /\ ~MI!Conflict /\ ~MI!Req
  BY <1>1, Zenon DEF MI!Busy, MI!Conflict, MI!Req
<1>3. MI!Latch(Loading, FALSE, sram_addr_word, n_words_wire)
  BY <1>2 DEF Cycle, MI!Step, MI!Refuse, MI!Count
<1>4. /\ ~rvalid /\ inflight' = <<>>
      /\ ~MI!DataValid(rvalid) /\ ~MI!Done(rvalid)
  BY <1>1, <1>2 DEF Cycle, Bus!Step, Bus!CanRespond, MI!DataValid, MI!Done
<1>5. operand' = operand /\ (Loading => rd_fsm_state_q' = rd_fsm_state_q)
  BY <1>4 DEF Cycle, FsmIdle, FsmLoad
<1>6. (Loading <=> req_read_q') /\ req_write_q' = FALSE
  BY <1>3 DEF MI!Latch
<1>7. PhaseOwnsBus'
  <2>1. CASE ~Loading
    BY <1>4, <1>6, <2>1 DEF PhaseOwnsBus
  <2>2. CASE Loading
    <3>1. /\ n_words_q' = NWords(rd_fsm_state_q) /\ req_counter_q' = 0 /\ word_counter_q' = 0
          /\ rd_fsm_state_q' = rd_fsm_state_q
      BY <1>3, <1>5, <2>2 DEF MI!Latch, n_words_wire
    <3>2. NWords(rd_fsm_state_q) \in Nat /\ NWords(rd_fsm_state_q) > 0
      BY <2>2, NWordsType DEF Loading
    <3>3. Len(inflight') = 0
      BY <1>4
    <3> QED BY <1>4, <1>6, <2>2, <3>1, <3>2, <3>3 DEF PhaseOwnsBus, Loading
  <2> QED BY <2>1, <2>2
<1>8. PartPlaced'
  <2>1. Loading => word_counter_q' = 0
    BY <1>3 DEF MI!Latch
  <2>2. ASSUME NEW p \in Phases, NEW s \in Slots(p) PROVE ~(Offset(p, s) < 4 * 0)
    BY PlaceSlot, NWordsType
  <2>3. Loading => rd_fsm_state_q' \in Phases
    BY <1>5 DEF Loading
  <2> QED BY <1>6, <2>1, <2>2, <2>3 DEF PartPlaced
<1>9. OperandsWhole'
  <2>1. \A p \in Phases : p # rd_fsm_state_q' => p # rd_fsm_state_q
    BY <1>5 DEF Loading
  <2> QED BY <1>5, <2>1 DEF Safe, OperandsWhole, IsRegion
<1>10. since' <= now'
  BY DEF Cycle, FsmIdle, FsmLoad, Store, TypeOK, Safe
<1> QED BY <1>5, <1>7, <1>8, <1>9, <1>10 DEF Safe

\* A cycle of a load that is not the last.
LEMMA LoadStep ==
  ASSUME TypeOK, Safe, NEW gnt \in BOOLEAN, NEW rvalid \in BOOLEAN,
         NEW store \in BOOLEAN, NEW req, Cycle(req, store, gnt, rvalid),
         req_read_q, ~(rvalid /\ MI!LastWord)
  PROVE  Safe' /\ rd_fsm_state_q' = rd_fsm_state_q
<1> DEFINE p == rd_fsm_state_q
           w == word_counter_q
           r == req_counter_q
           n == n_words_q
           push == OneIf(Accept(gnt))
           pop == OneIf(rvalid)
<1>1. /\ Loading /\ p \in Phases /\ rd_fsm_state_q' = p /\ req_read_q'
      /\ UNCHANGED <<since, addr_word_q, n_words_q, req_write_q>>
      /\ req_counter_q' = r + push /\ word_counter_q' = w + pop
  BY LoadCycle DEF Loading
<1>2. /\ w \in Nat /\ r \in Nat /\ n \in Nat /\ n = NWords(p) /\ w < n /\ r <= n
      /\ Len(inflight) = r - w /\ ~req_write_q
      /\ addr_word_q \in Nat /\ since \in Nat /\ now \in Nat
  <2>1. addr_word_q \in Nat
    BY RequestAssumption DEF TypeOK, Bases
  <2> QED BY <1>1, <2>1, NWordsType DEF TypeOK, Safe, PhaseOwnsBus
<1>3. push \in {0, 1} /\ pop \in {0, 1} /\ r + push <= n /\ w + pop < n
  <2>1. push \in {0, 1} /\ pop \in {0, 1} /\ r + push <= n
    BY <1>2 DEF OneIf, Accept
  <2>2. w + pop < n
    BY <1>2 DEF OneIf, MI!LastWord
  <2> QED BY <2>1, <2>2
<1>4. /\ Len(inflight') = (r + push) - (w + pop)
      /\ \A i \in 1..Len(inflight') :
           inflight'[i] = IF i <= r - w - pop THEN inflight[i + pop] ELSE <<MI!ReqAddr, now>>
  <2>1. /\ Len(inflight') = Len(inflight) - pop + push
        /\ \A i \in 1..Len(inflight') :
             inflight'[i] = IF i <= Len(inflight) - pop THEN inflight[i + pop]
                            ELSE <<MI!ReqAddr, now>>
    BY LoadCycle, Zenon DEF Advanced
  <2> HIDE DEF push, pop
  <2>2. Len(inflight') = (r + push) - (w + pop)
    BY <1>2, <1>3, <2>1
  <2>3. Len(inflight) = r - w
    BY <1>2
  <2> QED BY <2>1, <2>2, <2>3, Zenon
<1>5. now' \in Nat /\ now <= now'
  BY LoadCycle
<1>6. ASSUME NEW i \in 1..Len(inflight')
      PROVE  /\ inflight'[i][1] = addr_word_q + 4 * (w + pop + i - 1)
             /\ inflight'[i][2] \in since..now'
  <2>1. i \in Nat /\ 1 <= i /\ i <= (r + push) - (w + pop)
    BY <1>2, <1>3, <1>4
  <2>2. CASE i <= r - w - pop
    <3>1. i + pop \in 1..Len(inflight) /\ inflight'[i] = inflight[i + pop]
      BY <1>2, <1>3, <1>4, <2>1, <2>2
    <3>2. /\ inflight[i + pop][1] = addr_word_q + 4 * (w + (i + pop) - 1)
          /\ inflight[i + pop][2] \in since..now
      BY <3>1 DEF Safe, PhaseOwnsBus
    <3>3. w + (i + pop) - 1 = w + pop + i - 1
      BY <1>2, <1>3, <2>1
    <3>4. since..now \subseteq since..now'
      BY <1>2, <1>5
    <3> QED BY <3>1, <3>2, <3>3, <3>4, Zenon
  <2>3. CASE i > r - w - pop
    <3>1. inflight'[i] = <<MI!ReqAddr, now>>
      BY <1>2, <1>3, <1>4, <2>1, <2>3
    <3>2. w + pop + i - 1 = r
      BY <1>2, <1>3, <2>1, <2>3
    <3>3. since <= now
      BY DEF Safe
    <3> QED BY <1>2, <1>5, <3>1, <3>2, <3>3 DEF MI!ReqAddr
  <2> QED BY <1>2, <1>3, <2>1, <2>2, <2>3
<1>7. PhaseOwnsBus'
  BY <1>1, <1>2, <1>3, <1>4, <1>6 DEF PhaseOwnsBus, Loading
<1>8. PartPlaced'
  <2>1. InPlace(operand', p, word_counter_q', now)
    BY <1>1, Placed
  <2>2. since..now \subseteq since..now'
    BY <1>2, <1>5
  <2> QED BY <1>1, <2>1, <2>2 DEF PartPlaced, InPlace
<1>9. OperandsWhole'
  <2>1. \A q \in Phases : q # p => operand'[q] = operand[q]
    BY <1>1, LoadCycle DEF TypeOK
  <2> QED BY <1>1, <2>1 DEF Safe, OperandsWhole, IsRegion
<1>10. since' <= now'
  BY <1>1, <1>2, <1>5 DEF Safe
<1> QED BY <1>1, <1>7, <1>8, <1>9, <1>10 DEF Safe

\* The last cycle of a load: the bus is empty and the operand is whole and fresh.
LEMMA LastStep ==
  ASSUME TypeOK, Safe, NEW gnt \in BOOLEAN, NEW rvalid \in BOOLEAN,
         NEW store \in BOOLEAN, NEW req, Cycle(req, store, gnt, rvalid),
         req_read_q, rvalid, MI!LastWord, NEW p, p = rd_fsm_state_q
  PROVE  /\ Safe' /\ IsRegion(p)'
         /\ \A s \in Slots(p) : operand'[p][s][2] \in since..now
<1> DEFINE w == word_counter_q
           r == req_counter_q
           n == n_words_q
<1>1. /\ Loading /\ p \in Phases /\ ~req_read_q'
      /\ UNCHANGED <<since, addr_word_q, req_write_q>>
      /\ word_counter_q' = w + 1 /\ inflight # <<>>
      /\ now' \in Nat /\ now <= now'
  BY LoadCycle DEF Loading, OneIf
<1>2. w \in Nat /\ r \in Nat /\ n \in Nat /\ n = NWords(p) /\ w < n /\ r <= n
      /\ Len(inflight) = r - w /\ ~req_write_q
  BY <1>1, NWordsType DEF TypeOK, Safe, PhaseOwnsBus
<1>3. w = n - 1 /\ r = n
  <2>1. inflight \in Seq(Words)
    BY DEF TypeOK
  <2>2. Len(inflight) >= 1
    BY <1>1, <2>1
  <2> QED BY <1>2, <2>2 DEF MI!LastWord
<1>4. inflight' = <<>>
  <2>1. Len(inflight') = Len(inflight) - OneIf(rvalid) + OneIf(Accept(gnt))
    BY LoadCycle, Zenon DEF Advanced
  <2>2. OneIf(rvalid) = 1 /\ OneIf(Accept(gnt)) = 0
    BY <1>2, <1>3 DEF OneIf, Accept
  <2>3. Len(inflight') = 0
    <3>1. Len(inflight) = 1
      BY <1>2, <1>3
    <3>2. Len(inflight') = 1 - 1 + 0
      BY <2>1, <2>2, <3>1, Zenon
    <3> QED BY <3>2
  <2>4. inflight' \in Seq(Words)
    <3>1. inflight \in Seq(Words) /\ Tail(inflight) \in Seq(Words)
      BY <1>1 DEF TypeOK
    <3>2. <<MI!ReqAddr, now>> \in Words
      BY RequestAssumption DEF TypeOK, MI!ReqAddr, Words, Bases
    <3> QED BY <3>1, <3>2 DEF Cycle, Bus!Step
  <2> QED BY <2>3, <2>4
<1>5. InPlace(operand', p, n, now)
  <2>1. InPlace(operand', p, word_counter_q', now)
    BY Placed
  <2>2. word_counter_q' = n
    BY <1>1, <1>2, <1>3
  <2> QED BY <2>1, <2>2
<1>6. \A s \in Slots(p) : /\ operand'[p][s][1] = addr_word_q + Offset(p, s)
                          /\ operand'[p][s][2] \in since..now
  <2>1. ASSUME NEW s \in Slots(p) PROVE Offset(p, s) < 4 * n
    BY <1>1, <1>2, PlaceSlot
  <2> QED BY <1>5, <2>1 DEF InPlace
<1>7. IsRegion(p)'
  BY <1>6 DEF IsRegion, TypeOK
<1>8. \A s \in Slots(p) : operand'[p][s][2] \in since..now
  BY <1>6
<1>9. PhaseOwnsBus' /\ PartPlaced'
  BY <1>1, <1>2, <1>4 DEF PhaseOwnsBus, PartPlaced
<1>10. OperandsWhole'
  <2>1. \A q \in Phases : q # p => operand'[q] = operand[q]
    BY <1>1, LoadCycle DEF TypeOK
  <2>2. \A q \in Phases : q # p => IsRegion(q)' \/ operand'[q] = [s \in Slots(q) |-> Blank]
    BY <2>1 DEF Safe, OperandsWhole, IsRegion
  <2> QED BY <1>7, <2>2 DEF OperandsWhole, IsRegion
<1>11. since' <= now'
  BY <1>1 DEF Safe, TypeOK
<1> QED BY <1>1, <1>7, <1>8, <1>9, <1>10, <1>11 DEF Safe

\* The invariant holds after reset ...
LEMMA SafeInit == Init => Safe
<1> SUFFICES ASSUME Init PROVE Safe
  OBVIOUS
<1>1. PhaseOwnsBus /\ PartPlaced
  BY DEF Init, MI!Init, Bus!Init, PhaseOwnsBus, PartPlaced
<1>2. OperandsWhole
  BY DEF Init, OperandsWhole
<1> QED BY <1>1, <1>2 DEF Init, Safe

\* ... and every cycle, whatever its inputs, preserves it.
LEMMA SafeNext == TypeOK /\ Safe /\ [Next]_vars => Safe'
<1> SUFFICES ASSUME TypeOK, Safe, [Next]_vars PROVE Safe'
  OBVIOUS
<1>1. CASE UNCHANGED vars
  <2>1. PhaseOwnsBus' /\ PartPlaced'
    BY <1>1 DEF Safe, PhaseOwnsBus, PartPlaced, Loading, vars, mivars
  <2>2. OperandsWhole' /\ since' <= now'
    BY <1>1 DEF Safe, OperandsWhole, IsRegion, vars
  <2> QED BY <2>1, <2>2 DEF Safe
<1>2. ASSUME NEW gnt \in BOOLEAN, NEW rvalid \in BOOLEAN, NEW store \in Storable,
             NEW req \in Drivable, Cycle(req, store, gnt, rvalid)
      PROVE  Safe'
  <2>1. store \in BOOLEAN
    BY DEF Storable
  <2>2. CASE ~req_read_q
    BY <1>2, <2>1, <2>2, IdleStep
  <2>3. CASE req_read_q /\ ~(rvalid /\ MI!LastWord)
    BY <1>2, <2>1, <2>3, LoadStep
  <2>4. CASE req_read_q /\ rvalid /\ MI!LastWord
    BY <1>2, <2>1, <2>4, LastStep
  <2> QED BY <2>2, <2>3, <2>4
<1> QED BY <1>1, <1>2 DEF Next

\* Whatever software, the arbiter and the memory do, the FSM and the memory interface
\* agree on the job and everything in flight belongs to the phase that is loading.
THEOREM BusOwnership == Spec => []PhaseOwnsBus
<1>1. Safe => PhaseOwnsBus
  BY DEF Safe
<1> QED BY <1>1, SafeInit, SafeNext, TypeCorrect, PTL DEF Spec

\* matk_q, u0_q and xref_q, xstate_q are never a mixture of two regions once their
\* load is over.
THEOREM WholeOperands == Spec => []OperandsWhole
<1>1. Safe => OperandsWhole
  BY DEF Safe
<1> QED BY <1>1, SafeInit, SafeNext, TypeCorrect, PTL DEF Spec

\* The words stored so far lie in place, from one region, no older than the command.
THEOREM WordsPlaced == Spec => []PartPlaced
<1>1. Safe => PartPlaced
  BY DEF Safe
<1> QED BY <1>1, SafeInit, SafeNext, TypeCorrect, PTL DEF Spec

\* A load leaves the operand complete and no word of it older than the command.
THEOREM LoadsComplete == Spec => LoadCompleteAndFresh
<1>1. TypeOK /\ Safe /\ [Next]_vars =>
        [Loading /\ rd_fsm_state_q' # rd_fsm_state_q =>
          \E p \in {rd_fsm_state_q} :
            /\ IsRegion(p)'
            /\ \A s \in Slots(p) : operand'[p][s][2] \in since..now]_vars
  <2> SUFFICES ASSUME TypeOK, Safe, NEW gnt \in BOOLEAN, NEW rvalid \in BOOLEAN,
                      NEW store \in Storable, NEW req \in Drivable,
                      Cycle(req, store, gnt, rvalid),
                      Loading, rd_fsm_state_q' # rd_fsm_state_q
               PROVE  \E p \in {rd_fsm_state_q} :
                        /\ IsRegion(p)'
                        /\ \A s \in Slots(p) : operand'[p][s][2] \in since..now
    BY DEF Next
  <2> PICK p \in {rd_fsm_state_q} : TRUE
    OBVIOUS
  <2>1. store \in BOOLEAN
    BY DEF Storable
  <2>2. req_read_q
    BY <2>1, IdleStep
  <2>3. rvalid /\ MI!LastWord
    BY <2>1, <2>2, LoadStep
  <2> QED BY <2>1, <2>2, <2>3, LastStep
<1> QED BY <1>1, SafeInit, SafeNext, TypeCorrect, PTL DEF Spec, LoadCompleteAndFresh
-----------------------------------------------------------------------------
(* The controller implements ControllerLoads, step by step.                *)

\* Todo, as a function of the FSM state alone.
TodoIn(st) == CASE st = "MATRIX_K"   -> <<"MATRIX_K", "VEC_U0", "VEC_XREF", "VEC_XSTATE">>
                [] st = "VEC_U0"     -> <<"VEC_U0", "VEC_XREF", "VEC_XSTATE">>
                [] st = "VEC_XREF"   -> <<"VEC_XREF", "VEC_XSTATE">>
                [] st = "VEC_XSTATE" -> <<"VEC_XSTATE">>
                [] OTHER             -> <<>>

\* The FSM state determines what is left to load, before and after a step.
LEMMA TodoOf == Todo = TodoIn(rd_fsm_state_q) /\ Todo' = TodoIn(rd_fsm_state_q')
<1>1. Tail(LoadOrder) = <<"VEC_U0", "VEC_XREF", "VEC_XSTATE">>
  BY DEF LoadOrder
<1>2. Tail(Tail(LoadOrder)) = <<"VEC_XREF", "VEC_XSTATE">>
  <2>1. Tail(<<"VEC_U0", "VEC_XREF", "VEC_XSTATE">>) = <<"VEC_XREF", "VEC_XSTATE">>
    OBVIOUS
  <2> QED BY <1>1, <2>1, Zenon
<1> QED BY <1>1, <1>2 DEF Todo, TodoIn, LoadOrder

\* A phase takes its operand off the list, and its successor is the next on it.
LEMMA TodoAdvances ==
  ASSUME NEW p \in Phases
  PROVE  /\ TodoIn(p) # <<>> /\ Head(TodoIn(p)) = p
         /\ TodoIn(Successor(p)) = Tail(TodoIn(p))
         /\ TodoIn(Successor(p)) = <<>> <=> Successor(p) \notin Phases
BY DEF TodoIn, Successor, Phases

\* The names of the operands are the phases.
LEMMA PromiseNames == Promise!Names = Phases
<1>1. DOMAIN LoadOrder = {1, 2, 3, 4}
  BY DEF LoadOrder
<1> QED BY <1>1 DEF Promise!Names, Promise!ToSet, LoadOrder, Phases

\* What is left to load is a suffix of the loading order.
LEMMA TodoIsSuffix == ASSUME NEW p \in Phases PROVE TodoIn(p) \in Promise!LoadLists
<1>1. LoadOrder \in Seq(Phases) /\ Len(LoadOrder) = 4
  BY DEF LoadOrder, Phases
<1>2. \A i \in 1..4 : SubSeq(LoadOrder, i, 4) \in Promise!LoadLists
  BY <1>1 DEF Promise!LoadLists
<1>3. ASSUME NEW i \in 1..4, TodoIn(p) \in Seq(Phases), Len(TodoIn(p)) = 5 - i,
             \A k \in 1..5-i : TodoIn(p)[k] = LoadOrder[i + k - 1]
      PROVE  TodoIn(p) \in Promise!LoadLists
  <2> DEFINE t == SubSeq(LoadOrder, i, 4)
  <2>1. t \in Seq(Phases) /\ Len(t) = 5 - i /\ \A k \in 1..5-i : t[k] = LoadOrder[i + k - 1]
    <3>1. /\ t \in Seq(Phases) /\ Len(t) = IF i <= 4 THEN 4 - i + 1 ELSE 0
          /\ \A k \in 1..4-i+1 : t[k] = LoadOrder[i + k - 1]
      BY <1>1, SubSeqProperties
    <3>2. 4 - i + 1 = 5 - i /\ i <= 4
      OBVIOUS
    <3> QED BY <3>1, <3>2
  <2> HIDE DEF t
  <2>2. TodoIn(p) = t
    BY <1>3, <2>1, SeqEqual
  <2> QED BY <1>2, <2>2 DEF t
<1>4. CASE p = "MATRIX_K"
  <2>1. TodoIn(p) = LoadOrder
    BY <1>4 DEF TodoIn, LoadOrder
  <2>2. \A k \in 1..4 : 1 + k - 1 = k
    OBVIOUS
  <2>3. 1 \in 1..4 /\ 5 - 1 = 4
    OBVIOUS
  <2>4. \A k \in 1..5-1 : TodoIn(p)[k] = LoadOrder[1 + k - 1]
    BY <2>1, <2>2, <2>3
  <2> QED BY <1>1, <1>3, <2>1, <2>3, <2>4
<1>5. CASE p = "VEC_U0"
  <2>1. TodoIn(p) = <<"VEC_U0", "VEC_XREF", "VEC_XSTATE">>
    BY <1>5 DEF TodoIn
  <2> QED BY <1>3, <2>1 DEF LoadOrder, Phases
<1>6. CASE p = "VEC_XREF"
  <2>1. TodoIn(p) = <<"VEC_XREF", "VEC_XSTATE">>
    BY <1>6 DEF TodoIn
  <2> QED BY <1>3, <2>1 DEF LoadOrder, Phases
<1>7. CASE p = "VEC_XSTATE"
  <2>1. TodoIn(p) = <<"VEC_XSTATE">>
    BY <1>7 DEF TodoIn
  <2> QED BY <1>3, <2>1 DEF LoadOrder, Phases
<1> QED BY <1>4, <1>5, <1>6, <1>7 DEF Phases

\* Every cycle of the controller is a step of its promise, a store or a stutter.
LEMMA PromiseStep ==
  ASSUME TypeOK, TypeOK', Safe, NEW gnt \in BOOLEAN, NEW rvalid \in BOOLEAN,
         NEW store \in BOOLEAN, NEW req, Cycle(req, store, gnt, rvalid)
  PROVE  [Promise!Next]_(Promise!vars)
<1>1. now \in Nat /\ now' \in {now, now + 1}
  BY DEF TypeOK, Cycle, Store
<1>2. ASSUME UNCHANGED <<Todo, Image, since>> PROVE [Promise!Next]_(Promise!vars)
  BY <1>1, <1>2 DEF Promise!Next, Promise!Store, Promise!vars
<1>3. ASSUME rd_fsm_state_q' = rd_fsm_state_q,
             \A p \in Phases : p # rd_fsm_state_q => operand'[p] = operand[p]
      PROVE  UNCHANGED <<Todo, Image>>
  BY <1>3 DEF Todo, Image
<1>4. CASE ~req_read_q /\ Loading
  <2>1. rd_fsm_state_q' = rd_fsm_state_q /\ operand' = operand
    BY <1>4, IdleStep
  <2>2. since' = since
    BY <1>4 DEF Cycle, FsmIdle, FsmLoad
  <2> QED BY <1>2, <1>3, <2>1, <2>2
<1>5. CASE ~Loading
  <2>1. ~req_read_q
    BY <1>5 DEF Safe, PhaseOwnsBus
  <2>2. operand' = operand
    BY <2>1, IdleStep
  <2>3. /\ rd_fsm_state_q' = OnCommand
        /\ since' = IF OnCommand \in Phases THEN now ELSE since
    BY <1>5 DEF Cycle, FsmIdle, FsmLoad
  <2>4. Todo = <<>> /\ Image = [p \in Phases |-> operand[p]]
    BY <1>5, TodoOf DEF Image, Loading, TodoIn, Phases
  <2>5. CASE OnCommand \in Phases
    <3>1. Todo' \in Promise!LoadLists /\ Head(Todo') = rd_fsm_state_q'
      BY <2>3, <2>5, TodoOf, TodoAdvances, TodoIsSuffix
    <3>2. Image' = [Image EXCEPT ![Head(Todo')] = Promise!Loading]
      BY <2>2, <2>4, <3>1 DEF Image, Promise!Loading
    <3> QED BY <1>1, <2>3, <2>4, <2>5, <3>1, <3>2
            DEF Promise!Next, Promise!Command, Promise!Tick
  <2>6. CASE OnCommand \notin Phases
    <3>1. Todo' = <<>> /\ Image' = [p \in Phases |-> operand'[p]]
      BY <2>3, <2>6, TodoOf DEF Image, TodoIn, Phases
    <3> QED BY <1>2, <2>2, <2>3, <2>4, <2>6, <3>1
  <2> QED BY <2>5, <2>6
<1>6. CASE req_read_q /\ ~(rvalid /\ MI!LastWord)
  <2>1. rd_fsm_state_q' = rd_fsm_state_q /\ UNCHANGED since
    BY <1>6, LoadStep, LoadCycle
  <2>2. \A p \in Phases : p # rd_fsm_state_q => operand'[p] = operand[p]
    BY <1>6, LoadCycle DEF TypeOK
  <2> QED BY <1>2, <1>3, <2>1, <2>2
<1>7. CASE req_read_q /\ rvalid /\ MI!LastWord
  <2> PICK p \in {rd_fsm_state_q} : TRUE
    OBVIOUS
  <2> DEFINE i == operand'[p]
  <2>1. /\ p \in Phases /\ rd_fsm_state_q' = Successor(p) /\ UNCHANGED since
        /\ \A q \in Phases : q # p => operand'[q] = operand[q]
    BY <1>7, LoadCycle DEF TypeOK, Loading
  <2>2. /\ Todo # <<>> /\ Head(Todo) = p /\ Todo' = Tail(Todo)
        /\ Successor(p) \in Phases <=> Todo' # <<>>
        /\ Successor(p) \in Phases => Head(Todo') = Successor(p)
    BY <2>1, TodoOf, TodoAdvances
  <2>3. Successor(p) # p
    BY <2>1 DEF Successor, Phases
  <2>4. i \in Promise!Images(p, since, now)
    <3>1. IsRegion(p)' /\ \A s \in Slots(p) : i[s][2] \in since..now
      BY <1>7, LastStep
    <3>2. PICK b \in Bases : \A s \in Slots(p) : i[s][1] = b + Offset(p, s)
      BY <3>1 DEF IsRegion
    <3>3. i \in [Slots(p) -> Words]
      BY <2>1 DEF TypeOK
    <3> DEFINE times == [s \in Slots(p) |-> i[s][2]]
    <3>4. times \in [Slots(p) -> since..now]
      BY <3>1
    <3>5. i = [s \in Slots(p) |-> <<b + Offset(p, s), times[s]>>]
      BY <3>2, <3>3 DEF Words
    <3> HIDE DEF times, i
    <3>6. \E c \in Bases, f \in [Slots(p) -> since..now] :
            i = [s \in Slots(p) |-> <<c + Offset(p, s), f[s]>>]
      BY <3>4, <3>5, Zenon
    <3>7. i \in {[s \in Slots(p) |-> <<c + Offset(p, s), f[s]>>] :
                   c \in Bases, f \in [Slots(p) -> since..now]}
      BY <3>6
    <3> QED BY <3>7 DEF Promise!Images
  <2>5. Image' = [t \in Phases |-> IF t = p THEN i
                                 ELSE IF Todo' # <<>> /\ t = Head(Todo')
                                      THEN Promise!Loading ELSE Image[t]]
    <3>1. \A t \in Phases : t = Successor(p) <=> Todo' # <<>> /\ t = Head(Todo')
      BY <2>2
    <3>2. Image' = [t \in Phases |-> IF t = Successor(p) THEN <<>> ELSE operand'[t]]
      BY <2>1 DEF Image
    <3>3. \A t \in Phases : t # p => Image[t] = operand[t]
      BY DEF Image
    <3> QED BY <2>1, <2>3, <3>1, <3>2, <3>3 DEF Promise!Loading
  <2> QED BY <1>1, <2>1, <2>2, <2>3, <2>4, <2>5, PromiseNames
          DEF Promise!Next, Promise!Loaded, Promise!Tick
<1> QED BY <1>4, <1>5, <1>6, <1>7

\* Reset is the initial state of the promise.
LEMMA PromiseInit == Init => Promise!Init
<1> SUFFICES ASSUME Init PROVE Promise!Init
  OBVIOUS
<1>1. Todo = <<>> /\ Image = [p \in Phases |-> [s \in Slots(p) |-> <<0, 0>>]]
  <2>1. ~Loading
    BY DEF Init, Loading, Phases
  <2> QED BY <2>1, TodoOf DEF Init, Image, Loading, Phases, TodoIn, Blank
<1> QED BY <1>1, PromiseNames DEF Init, Promise!Init

\* Whatever software writes, and whenever it writes it, the controller only ever does
\* what ControllerLoads allows: the safety part of ImplementsControllerLoads.
THEOREM KeepsPromise == Spec => Promise!Init /\ [][Promise!Next]_(Promise!vars)
<1>1. TypeOK /\ Safe /\ [Next]_vars => [Promise!Next]_(Promise!vars)
  <2> SUFFICES ASSUME TypeOK, Safe, [Next]_vars PROVE [Promise!Next]_(Promise!vars)
    OBVIOUS
  <2>1. CASE UNCHANGED vars
    BY <2>1 DEF vars, Promise!vars, Todo, Image
  <2>2. ASSUME NEW gnt \in BOOLEAN, NEW rvalid \in BOOLEAN, NEW store \in Storable,
               NEW req \in Drivable, Cycle(req, store, gnt, rvalid)
        PROVE  [Promise!Next]_(Promise!vars)
    <3>1. store \in BOOLEAN
      BY DEF Storable
    <3> QED BY <2>2, <3>1, TypeNext, PromiseStep
  <2> QED BY <2>1, <2>2 DEF Next
<1> QED BY <1>1, PromiseInit, SafeInit, SafeNext, TypeCorrect, PTL DEF Spec
=============================================================================
