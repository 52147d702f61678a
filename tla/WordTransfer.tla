---------------------------- MODULE WordTransfer ----------------------------
(***************************************************************************)
(* What controller_memory_interface promises its client: a job, once       *)
(* started, moves the n words at base, base+4, ... in that order, each     *)
(* exactly once, cannot be aborted or redirected, and ends with the last   *)
(* word.  A job that asks for a read and a write at once is refused        *)
(* without touching memory.                                                *)
(***************************************************************************)
EXTENDS Integers, Sequences

CONSTANTS Bases,      \* start addresses a client may give
          MaxWords    \* longest job

VARIABLES job,        \* the job being served, or NoJob
          moved       \* addresses of the words moved by the latest job

vars == <<job, moved>>

NoJob == [mode |-> "none", base |-> 0, n |-> 0]
Jobs  == [mode : {"read", "write", "both"}, base : Bases, n : 1..MaxWords]

Init == job = NoJob /\ moved = <<>>

Start ==
  /\ job = NoJob
  /\ job' \in Jobs
  /\ moved' = <<>>

MoveWord ==
  /\ job.mode \in {"read", "write"}
  /\ moved' = Append(moved, job.base + 4 * Len(moved))
  /\ job' = IF Len(moved') = job.n THEN NoJob ELSE job

RefuseBoth ==
  /\ job.mode = "both"
  /\ job' = NoJob
  /\ UNCHANGED moved

Next == Start \/ MoveWord \/ RefuseBoth

Spec == Init /\ [][Next]_vars /\ WF_vars(MoveWord) /\ WF_vars(RefuseBoth)
=============================================================================
