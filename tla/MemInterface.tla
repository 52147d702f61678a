---------------------------- MODULE MemInterface ----------------------------
(***************************************************************************)
(* rtl/drone_controller/controller/controller_memory_interface.sv: the     *)
(* block that moves n words between the controller and a memory over one   *)
(* OBI manager port.  The module is the register-transfer description of   *)
(* the block alone: its flip-flops, its combinational outputs as operators *)
(* of the inputs of the cycle, and the clock edge as the action Step.  It  *)
(* is composed with a client and a bus in MemTransfer and DroneController. *)
(*                                                                         *)
(* Addresses are byte addresses, as in the code.  Payload wires (rdata,    *)
(* wdata) pass through the block unchanged and are left to the composing   *)
(* module; err_o is unconnected in controller_top and left out.            *)
(***************************************************************************)
EXTENDS Integers

VARIABLES
  req_read_q,      \* a read of n words is being served
  req_write_q,     \* a write of n words is being served
  addr_word_q,     \* latched start address
  n_words_q,       \* latched number of words
  req_counter_q,   \* requests granted so far: drives the address
  word_counter_q   \* responses received so far: drives done

mivars == <<req_read_q, req_write_q, addr_word_q, n_words_q,
            req_counter_q, word_counter_q>>

Init ==
  /\ req_read_q = FALSE
  /\ req_write_q = FALSE
  /\ addr_word_q = 0
  /\ n_words_q = 0
  /\ req_counter_q = 0
  /\ word_counter_q = 0

-----------------------------------------------------------------------------
(* Combinational outputs.                                                  *)

Busy     == req_read_q \/ req_write_q
Conflict == req_read_q /\ req_write_q

\* Mutants: the request not gated by the counter; the address driven by the responses.
ReqUngated        == req_read_q # req_write_q
ReqAddrByResponse == addr_word_q + 4 * word_counter_q

\* mgr_obi_req_o.req: gated once all n_words requests have been granted.
We      == req_write_q
Req     == (req_read_q # req_write_q) /\ req_counter_q < n_words_q
ReqAddr == addr_word_q + 4 * req_counter_q

\* Mutant: off by one.
LastWordEarly == word_counter_q >= n_words_q - 2

LastWord == word_counter_q >= n_words_q - 1

\* Mutant: done with the last word outstanding instead of received.
DoneEarly(rvalid) == Conflict \/ (Busy /\ LastWord)

\* data_word_valid_o, and request_done_o, in a cycle whose OBI rvalid is rvalid.
DataValid(rvalid) == req_read_q /\ ~req_write_q /\ rvalid
Done(rvalid)      == Conflict \/ (Busy /\ rvalid /\ LastWord)

-----------------------------------------------------------------------------
(* The clock edge.                                                         *)

\* Mutant: the counters of the previous job are kept.
LatchKeepsCounters(request_read, request_write, addr, n) ==
  /\ ~Busy
  /\ req_read_q'  = request_read
  /\ req_write_q' = request_write
  /\ addr_word_q' = addr
  /\ n_words_q'   = n
  /\ UNCHANGED <<req_counter_q, word_counter_q>>

\* Not in request mode: the inputs pass straight into the flip-flops.
Latch(request_read, request_write, addr, n) ==
  /\ ~Busy
  /\ req_read_q'  = request_read
  /\ req_write_q' = request_write
  /\ addr_word_q' = addr
  /\ n_words_q'   = n
  /\ req_counter_q'  = 0
  /\ word_counter_q' = 0

\* Read and write requested together: reported as an error, both dropped.
Refuse ==
  /\ Conflict
  /\ req_read_q'  = FALSE
  /\ req_write_q' = FALSE
  /\ UNCHANGED <<addr_word_q, n_words_q, req_counter_q, word_counter_q>>

\* Mutant: every grant counts, also one that answers no request.
CountUngated(gnt, rvalid) ==
  /\ Busy /\ ~Conflict
  /\ req_counter_q'  = req_counter_q + (IF gnt THEN 1 ELSE 0)
  /\ word_counter_q' = word_counter_q + (IF rvalid THEN 1 ELSE 0)
  /\ req_read_q'  = (req_read_q  /\ ~(rvalid /\ LastWord))
  /\ req_write_q' = (req_write_q /\ ~(rvalid /\ LastWord))
  /\ UNCHANGED <<addr_word_q, n_words_q>>

\* A read or a write in progress: grants and responses are counted apart.
Count(gnt, rvalid) ==
  /\ Busy /\ ~Conflict
  /\ req_counter_q'  = req_counter_q + (IF gnt /\ req_counter_q < n_words_q THEN 1 ELSE 0)
  /\ word_counter_q' = word_counter_q + (IF rvalid THEN 1 ELSE 0)
  /\ req_read_q'  = (req_read_q  /\ ~(rvalid /\ LastWord))
  /\ req_write_q' = (req_write_q /\ ~(rvalid /\ LastWord))
  /\ UNCHANGED <<addr_word_q, n_words_q>>

Step(request_read, request_write, addr, n, gnt, rvalid) ==
  \/ Latch(request_read, request_write, addr, n)
  \/ Refuse
  \/ Count(gnt, rvalid)
=============================================================================
