--------------------------- MODULE DroneController ---------------------------
(***************************************************************************)
(* The drone controller as software sees it: register block, reader FSM    *)
(* (controller_top.sv), memory interface and OBI manager port, one step    *)
(* per clock cycle.  Software writes pointer registers and commands at any *)
(* moment the register block allows, including while a load is running,    *)
(* and stores to memory at any moment.                                     *)
(*                                                                         *)
(* Memory is not kept word by word.  A word read from the bus is the pair  *)
(* <<address, time>> of the cycle that granted it, time being the number   *)
(* of stores made so far: that determines its contents, and tells every    *)
(* stale, torn or misplaced word from the right one.                       *)
(***************************************************************************)
EXTENDS Integers, Sequences

CONSTANTS
  KRows, KCols,    \* K_MATRIX_DIM; X_VEC_DIM = KCols
  UDim,            \* U_VEC_DIM
  MaxTrans,        \* outstanding transactions of the manager port
  MaxTime,         \* bound: stores software makes
  NoReq,           \* no request on the register port
  Requests         \* requests software may make on the register port

ASSUME DimAssumption ==
  /\ KRows \in Nat \ {0} /\ KCols \in Nat \ {0} /\ UDim \in Nat \ {0}
  /\ KCols % 4 = 0 /\ UDim % 4 = 0
  /\ MaxTrans \in Nat \ {0}
  /\ MaxTime \in Nat

Pointers == {"K_MATRIX", "U0_VEC", "X_REF_VEC", "X_IN_VEC"}
CmdBits  == {"RUN_CALC", "UPDATE_CONTROLLER", "UPDATE_CONTROLLER_REFERENCE",
             "UPDATE_CONTROLLER_STATE"}

ASSUME RequestAssumption ==
  /\ NoReq \notin Requests
  /\ \A r \in Requests :
       r.we \in BOOLEAN /\ r.reg \in Pointers \cup {"CMD"}
       /\ r.value \in Nat /\ r.bits \subseteq CmdBits

VARIABLES
  is_active, cpuif, rsp_pending, stored, cmd,                  \* register block
  rd_fsm_state_q,                                              \* reader FSM
  sram_n_words,                                                \* latch (no default)
  req_read_q, req_write_q, addr_word_q, n_words_q,
  req_counter_q, word_counter_q,                               \* memory interface
  inflight,                                                    \* OBI port
  operand,      \* matk_q, u0_q, xref_q, xstate_q: word slot -> word
  now,          \* stores made so far
  since         \* history: now when the latest command was accepted

regvars == <<is_active, cpuif, rsp_pending, stored, cmd>>
mivars  == <<req_read_q, req_write_q, addr_word_q, n_words_q,
             req_counter_q, word_counter_q>>
vars == <<regvars, rd_fsm_state_q, sram_n_words, mivars, inflight, operand, now, since>>

Reg == INSTANCE RegBlock WITH StoredRegs <- Pointers
MI  == INSTANCE MemInterface
Bus == INSTANCE ObiPort

-----------------------------------------------------------------------------
(* Loading phases.                                                         *)

Phases == {"MATRIX_K", "VEC_U0", "VEC_XREF", "VEC_XSTATE"}
States == {"RST", "IDLE"} \cup Phases

NWords(p) == CASE p = "MATRIX_K" -> (KRows * KCols) \div 4
               [] p = "VEC_U0"   -> UDim \div 4
               [] OTHER          -> KCols \div 4

PointerOf(p) == CASE p = "MATRIX_K" -> "K_MATRIX"
                  [] p = "VEC_U0"   -> "U0_VEC"
                  [] p = "VEC_XREF" -> "X_REF_VEC"
                  [] OTHER          -> "X_IN_VEC"

\* Where words of an operand live: the row and the column of their first byte, in K;
\* row 0 and the position, in a vector.  Memory holds K row by row.
Slots(p) ==
  IF p = "MATRIX_K" THEN {<<i, 4*j>> : i \in 0..KRows-1, j \in 0..(KCols \div 4)-1}
  ELSE {<<0, 4*j>> : j \in 0..NWords(p)-1}
Offset(p, s) == IF p = "MATRIX_K" THEN s[1] * KCols + s[2] ELSE s[2]

\* Mutant: the row computed from the word number, not from the byte number.
SlotByWord(p, n) ==
  IF p = "MATRIX_K"
  THEN LET row == n \div KCols IN <<row, n * 4 - row * KCols>>
  ELSE <<0, n * 4>>

\* mat_row and mat_col: the slot that word n of the transfer is written to.
Slot(p, n) ==
  IF p = "MATRIX_K"
  THEN LET row == (n * 4) \div KCols IN <<row, n * 4 - row * KCols>>
  ELSE <<0, n * 4>>

Blank == <<0, 0>>

\* Mutant: u0 forgotten.
SuccessorSkips(p) == CASE p = "MATRIX_K"  -> "VEC_XREF"
                       [] p = "VEC_XREF"  -> "VEC_XSTATE"
                       [] OTHER           -> "IDLE"

Successor(p) == CASE p = "MATRIX_K" -> "VEC_U0"
                  [] p = "VEC_U0"   -> "VEC_XREF"
                  [] p = "VEC_XREF" -> "VEC_XSTATE"
                  [] OTHER          -> "IDLE"

\* The last assignment in the code wins: state over reference over controller.
OnCommand ==
  IF "UPDATE_CONTROLLER_STATE" \in cmd THEN "VEC_XSTATE"
  ELSE IF "UPDATE_CONTROLLER_REFERENCE" \in cmd THEN "VEC_XREF"
  ELSE IF "UPDATE_CONTROLLER" \in cmd THEN "MATRIX_K"
  ELSE rd_fsm_state_q

-----------------------------------------------------------------------------
(* Wires between the FSM and the memory interface.                         *)

Loading == rd_fsm_state_q \in Phases
sram_addr_word == IF Loading THEN stored[PointerOf(rd_fsm_state_q)] ELSE 0
\* Mutant: the number of the last word for the number of words.
n_words_short  == IF Loading THEN NWords(rd_fsm_state_q) - 1 ELSE sram_n_words
n_words_wire   == IF Loading THEN NWords(rd_fsm_state_q) ELSE sram_n_words

Init ==
  /\ Reg!Init(0)
  /\ MI!Init
  /\ Bus!Init
  /\ rd_fsm_state_q = "RST"
  /\ sram_n_words = 0
  /\ operand = [p \in Phases |-> [s \in Slots(p) |-> Blank]]
  /\ now = 0
  /\ since = 0

\* RST and IDLE: commands are looked at here and nowhere else.
FsmIdle ==
  /\ ~Loading
  /\ rd_fsm_state_q' = OnCommand
  /\ since' = IF OnCommand \in Phases THEN now ELSE since
  /\ UNCHANGED operand

\* Mutant: words placed by the request counter.
FsmLoadByRequest(rvalid) ==
  /\ Loading
  /\ operand' = IF MI!DataValid(rvalid)
                THEN [operand EXCEPT ![rd_fsm_state_q][Slot(rd_fsm_state_q, req_counter_q)]
                        = Head(inflight)]
                ELSE operand
  /\ rd_fsm_state_q' = IF MI!Done(rvalid) THEN Successor(rd_fsm_state_q)
                       ELSE rd_fsm_state_q
  /\ UNCHANGED since

\* A loading phase: every valid word goes to its slot, done moves to the next phase.
FsmLoad(rvalid) ==
  /\ Loading
  /\ operand' = IF MI!DataValid(rvalid)
                THEN [operand EXCEPT ![rd_fsm_state_q][Slot(rd_fsm_state_q, word_counter_q)]
                        = Head(inflight)]
                ELSE operand
  /\ rd_fsm_state_q' = IF MI!Done(rvalid) THEN Successor(rd_fsm_state_q)
                       ELSE rd_fsm_state_q
  /\ UNCHANGED since

Store(store) == now' = now + (IF store THEN 1 ELSE 0)

Cycle(req, store, gnt, rvalid) ==
  /\ Bus!Step(MI!Req, <<MI!ReqAddr, now>>, gnt, rvalid)
  /\ MI!Step(Loading, FALSE, sram_addr_word, n_words_wire, gnt, rvalid)
  /\ FsmIdle \/ FsmLoad(rvalid)
  /\ sram_n_words' = n_words_wire
  /\ Store(store)
  /\ Reg!Step(req)

\* Software drives the register port only when it can be captured: a request held
\* during is_active changes nothing until then.
Drivable == IF is_active THEN {NoReq} ELSE Requests \cup {NoReq}
Storable == IF now < MaxTime THEN BOOLEAN ELSE {FALSE}

Next == \E gnt, rvalid \in BOOLEAN, store \in Storable, req \in Drivable :
          Cycle(req, store, gnt, rvalid)

\* The clock runs; the arbiter eventually grants a held request; the memory
\* eventually answers an accepted one.  Software need not do anything.
Granted  == /\ MI!Req /\ Bus!CanGrant
            /\ \E req \in Drivable, store \in Storable, rvalid \in BOOLEAN :
                 Cycle(req, store, TRUE, rvalid)
Answered == /\ Bus!CanRespond
            /\ \E req \in Drivable, store \in Storable, gnt \in BOOLEAN :
                 Cycle(req, store, gnt, TRUE)

Spec == Init /\ [][Next]_vars /\ WF_vars(Next) /\ WF_vars(Granted) /\ WF_vars(Answered)
-----------------------------------------------------------------------------
(* Properties.                                                             *)

Bases == {0} \cup {r.value : r \in Requests}
Words == Nat \X Nat

TypeOK ==
  /\ is_active \in BOOLEAN /\ rsp_pending \in BOOLEAN
  /\ cpuif \in Requests \cup {NoReq}
  /\ stored \in [Pointers -> Bases]
  /\ cmd \subseteq CmdBits
  /\ rd_fsm_state_q \in States
  /\ sram_n_words \in {0} \cup {NWords(p) : p \in Phases}
  /\ req_read_q \in BOOLEAN /\ req_write_q \in BOOLEAN
  /\ addr_word_q \in Bases
  /\ n_words_q \in {0} \cup {NWords(p) : p \in Phases}
  /\ req_counter_q \in Nat /\ word_counter_q \in Nat
  /\ inflight \in Seq(Words)
  /\ operand = [p \in Phases |-> operand[p]]
  /\ \A p \in Phases : operand[p] \in [Slots(p) -> Words]
  /\ now \in Nat /\ since \in Nat

\* FSM and memory interface never disagree on the job: the interface is busy only in
\* a loading phase, with that phase's length, and everything on the bus is the rest
\* of that phase's region, in order and sampled after the command.  So no answer to
\* one phase's request can arrive in the next phase and be stored as its data.
PhaseOwnsBus ==
  /\ ~req_write_q
  /\ ~req_read_q => inflight = <<>>
  /\ req_read_q =>
       /\ Loading
       /\ n_words_q = NWords(rd_fsm_state_q)
       /\ word_counter_q < n_words_q
       /\ req_counter_q <= n_words_q
       /\ Len(inflight) = req_counter_q - word_counter_q
       /\ \A i \in 1..Len(inflight) :
            /\ inflight[i][1] = addr_word_q + 4 * (word_counter_q + i - 1)
            /\ inflight[i][2] \in since..now

\* The part of the current operand that has been loaded lies in place, comes from one
\* region and is no older than the command.
PartPlaced ==
  req_read_q =>
    \A s \in Slots(rd_fsm_state_q) :
      LET w == operand[rd_fsm_state_q][s]
          o == Offset(rd_fsm_state_q, s)
      IN  o < 4 * word_counter_q => w[1] = addr_word_q + o /\ w[2] \in since..now

\* An operand that is not being loaded is never a mixture: it is as reset left it or
\* the image of one region, whatever pointer writes and commands fell into its load.
IsRegion(p) ==
  \E b \in Bases : \A s \in Slots(p) : operand[p][s][1] = b + Offset(p, s)
OperandsWhole ==
  \A p \in Phases :
    p # rd_fsm_state_q => IsRegion(p) \/ operand[p] = [s \in Slots(p) |-> Blank]

\* When a phase ends its operand is complete: every word at its place, from a single
\* region, and sampled no earlier than the command that asked for it.  Software that
\* fills a buffer and then writes CMD can rely on this.
LoadCompleteAndFresh ==
  [][Loading /\ rd_fsm_state_q' # rd_fsm_state_q =>
       \E p \in {rd_fsm_state_q} :
         /\ IsRegion(p)'
         /\ \A s \in Slots(p) : operand'[p][s][2] \in since..now]_vars

\* The register port never wedges: whatever is captured is answered and freed.
RegPortFrees == is_active ~> ~is_active

\* The controller implements ControllerLoads: commands, once accepted, load a suffix
\* of K, u0, xref, xstate and terminate; commands written meanwhile have no effect.
LoadOrder == <<"MATRIX_K", "VEC_U0", "VEC_XREF", "VEC_XSTATE">>
Todo == CASE rd_fsm_state_q = "MATRIX_K"   -> LoadOrder
          [] rd_fsm_state_q = "VEC_U0"     -> Tail(LoadOrder)
          [] rd_fsm_state_q = "VEC_XREF"   -> Tail(Tail(LoadOrder))
          [] rd_fsm_state_q = "VEC_XSTATE" -> <<"VEC_XSTATE">>
          [] OTHER                         -> <<>>
Image == [p \in Phases |->
            IF p = rd_fsm_state_q THEN <<>>
            ELSE operand[p]]

Promise == INSTANCE ControllerLoads
             WITH Operands <- LoadOrder, todo <- Todo, image <- Image
ImplementsControllerLoads == Promise!Spec

\* xstate is loaded only when a command asks for it: the register description of the
\* UPDATE bits names the operands each of them reads, the FSM goes on to the rest.
StateLoadedOnDemand ==
  [][rd_fsm_state_q' = "VEC_XSTATE" /\ rd_fsm_state_q # "VEC_XSTATE" =>
       "UPDATE_CONTROLLER_STATE" \in cmd]_vars
=============================================================================
