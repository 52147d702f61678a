--------------------------- MODULE ControllerLoads ---------------------------
(***************************************************************************)
(* What the reader of the drone controller promises: an accepted command   *)
(* fixes the list of operands to load; they are loaded one at a time in    *)
(* that order; while an operand is being loaded its registers are not to   *)
(* be relied on, and once it is loaded it is the image of one memory       *)
(* region, every word in its place and none of them older than the         *)
(* command.  Nothing else ever changes an operand.                         *)
(*                                                                         *)
(* A word is <<address, time>>: where and when it was sampled.  Time is    *)
(* the number of stores software has made so far.                          *)
(***************************************************************************)
EXTENDS Integers, Sequences, SequencesExt

CONSTANTS
  Operands,    \* operand names in loading order
  Slots(_),    \* the places of the words of an operand
  Offset(_,_), \* of a place in an operand: how far its word is from the first
  Bases        \* addresses a pointer register may hold

VARIABLES todo,        \* operands still to load, the one being loaded first
          image,       \* operand -> its words, or Loading
          since,       \* time the latest command was accepted
          now

vars == <<todo, image, since, now>>

Loading == <<>>          \* differs from every image: operands have words
Names == ToSet(Operands)

\* The regions of memory an operand can be loaded from, each word sampled at some
\* time of the given interval.
Images(t, from, to) ==
  {[s \in Slots(t) |-> <<b + Offset(t, s), f[s]>>] :
     b \in Bases, f \in [Slots(t) -> from..to]}

\* A command starts somewhere in the loading order and runs to its end.
LoadLists == {SubSeq(Operands, i, Len(Operands)) : i \in 1..Len(Operands)}

Init ==
  /\ todo = <<>>
  /\ image = [t \in Names |-> [s \in Slots(t) |-> <<0, 0>>]]
  /\ since = 0
  /\ now = 0

Tick == now' \in {now, now + 1}      \* software may store in any cycle

Store ==
  /\ now' = now + 1
  /\ UNCHANGED <<todo, image, since>>

Command ==
  /\ todo = <<>>
  /\ todo' \in LoadLists
  /\ image' = [image EXCEPT ![Head(todo')] = Loading]
  /\ since' = now
  /\ Tick

Loaded ==
  /\ todo # <<>>
  /\ todo' = Tail(todo)
  /\ \E i \in Images(Head(todo), since, now) :
       image' = [t \in Names |-> IF t = Head(todo) THEN i
                                ELSE IF todo' # <<>> /\ t = Head(todo') THEN Loading
                                ELSE image[t]]
  /\ UNCHANGED since
  /\ Tick

Next == Command \/ Loaded \/ Store

Spec == Init /\ [][Next]_vars /\ WF_vars(Loaded)
=============================================================================
