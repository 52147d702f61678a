----------------------------- MODULE MemTransfer -----------------------------
(***************************************************************************)
(* controller_memory_interface between an arbitrary client and an OBI port *)
(* with arbitrary grant and response latencies.  One step is one clock     *)
(* cycle.  The client may raise request_read_i, request_write_i or both in *)
(* any cycle and change its address and length in every cycle: only the    *)
(* values of the cycle in which the block is idle may count.               *)
(***************************************************************************)
EXTENDS Integers, Sequences

CONSTANTS Bases, MaxWords, MaxTrans

ASSUME TransferAssumption ==
  /\ Bases \subseteq Nat
  /\ MaxWords \in Nat \ {0}
  /\ MaxTrans \in Nat \ {0}

VARIABLES req_read_q, req_write_q, addr_word_q, n_words_q,
          req_counter_q, word_counter_q,
          inflight,      \* the port: <<we, address>> of accepted requests
          moved          \* history: addresses answered in the latest job

mivars == <<req_read_q, req_write_q, addr_word_q, n_words_q,
            req_counter_q, word_counter_q>>
vars == <<mivars, inflight, moved>>

MI  == INSTANCE MemInterface
Bus == INSTANCE ObiPort

Init == MI!Init /\ Bus!Init /\ moved = <<>>

History(read, write, rvalid) ==
  moved' = IF ~MI!Busy
           THEN IF read \/ write THEN <<>> ELSE moved
           ELSE IF rvalid THEN Append(moved, Head(inflight)[2]) ELSE moved

Cycle(read, write, addr, n, gnt, rvalid) ==
  /\ Bus!Step(MI!Req, <<MI!We, MI!ReqAddr>>, gnt, rvalid)
  /\ MI!Step(read, write, addr, n, gnt, rvalid)
  /\ History(read, write, rvalid)

Next ==
  \E read, write, gnt, rvalid \in BOOLEAN, addr \in Bases, n \in 1..MaxWords :
    Cycle(read, write, addr, n, gnt, rvalid)

\* Fairness: the clock runs, a held request is eventually granted (the crossbar
\* arbiter is round robin) and an accepted one is eventually answered.
Granted ==
  \E read, write, rvalid \in BOOLEAN, addr \in Bases, n \in 1..MaxWords :
    MI!Req /\ Cycle(read, write, addr, n, TRUE, rvalid)
Answered ==
  \E read, write, gnt \in BOOLEAN, addr \in Bases, n \in 1..MaxWords :
    Cycle(read, write, addr, n, gnt, TRUE)

Fairness == WF_vars(Next) /\ WF_vars(Granted) /\ WF_vars(Answered)
Spec == Init /\ [][Next]_vars /\ Fairness

-----------------------------------------------------------------------------
(* Properties.                                                             *)

TypeOK ==
  /\ req_read_q \in BOOLEAN /\ req_write_q \in BOOLEAN
  /\ addr_word_q \in Bases \cup {0}
  /\ n_words_q \in 0..MaxWords
  /\ req_counter_q \in 0..MaxWords /\ word_counter_q \in 0..MaxWords
  /\ inflight \in Seq(BOOLEAN \X Nat) /\ Len(inflight) <= MaxTrans
  /\ moved \in Seq(Nat)

\* The two counters account for every transaction on the bus: what is in flight is
\* what was granted and not answered, in address order, and belongs to the job that
\* is being served; an idle block has nothing in flight, so no late answer of one
\* job can ever be counted as a word of the next.
InFlightAccounted ==
  /\ ~MI!Busy \/ MI!Conflict => inflight = <<>>
  /\ MI!Busy /\ ~MI!Conflict =>
       /\ word_counter_q < n_words_q
       /\ req_counter_q <= n_words_q
       /\ Len(inflight) = req_counter_q - word_counter_q
       /\ \A i \in 1..Len(inflight) :
            inflight[i] = <<req_write_q, addr_word_q + 4 * (word_counter_q + i - 1)>>

\* OBI A-channel stability: a request, once shown, stays up with the same address and
\* direction until the cycle that grants it, whatever the client does meanwhile.
RequestHeldUntilGranted ==
  [][MI!Req /\ req_counter_q' = req_counter_q =>
       MI!Req' /\ MI!ReqAddr' = MI!ReqAddr /\ MI!We' = MI!We]_vars

\* The block implements WordTransfer: words move in order, exactly once, done comes
\* with the last of them, nothing but done ends a job, and every job ends.
AbstractJob ==
  IF ~MI!Busy THEN [mode |-> "none", base |-> 0, n |-> 0]
  ELSE [mode |-> CASE MI!Conflict -> "both" [] req_read_q /\ ~req_write_q -> "read"
                   [] OTHER -> "write",
        base |-> addr_word_q, n |-> n_words_q]

Promise == INSTANCE WordTransfer WITH job <- AbstractJob, moved <- moved
ImplementsWordTransfer == Promise!Spec
=============================================================================
