------------------------------- MODULE Sidebar -------------------------------
(***************************************************************************)
(* js/sidebar.js: the tree beside the page.  An entry has an element while *)
(* its parent is open; closing an entry deletes the elements below it, and *)
(* opening it creates them anew, closed and not marked.                    *)
(*                                                                         *)
(* A tree is the set of the open nodes, the set of the entries marked as   *)
(* selected, and the node that was selected last.  An operation that needs *)
(* an element that is not there throws, and has no further effect.         *)
(***************************************************************************)
EXTENDS Ral

NoTree == [open |-> {}, marked |-> {}, selected |-> NoNode]

HasChildren(id) == Tree[id].children # <<>>
Exists(tree, id) == IsRoot(id) \/ Tree[id].parent \in tree.open
Below(id) == {n \in Nodes \ {id} : id \in Lineage[n]}

expand_node(tree, id) ==
  [tree EXCEPT !.open = @ \cup {n \in {id} : HasChildren(n) /\ Exists(tree, n)}]

\* Mutant: the entries below are hidden, not deleted.
collapse_node_only(tree, id) == [tree EXCEPT !.open = @ \ {id}]

collapse_node(tree, id) ==
  IF id \in tree.open
  THEN [tree EXCEPT !.open = @ \ (Below(id) \cup {id}), !.marked = @ \ Below(id)]
  ELSE tree

\* Elements that are missing exist once the node above has been opened.
expand_to_id(tree, id) == FoldLeft(expand_node, tree, get_ids_in_path[id])

\* The old mark goes first, then the new element is looked for.
select_node(tree, id) ==
  LET unmarked == [tree EXCEPT !.marked = @ \ {tree.selected}]
  IN  IF Exists(tree, id)
      THEN [unmarked EXCEPT !.marked = @ \cup {id}, !.selected = id]
      ELSE unmarked

collapse_all(tree) == FoldLeft(collapse_node, tree, Roots)

onClickTreeFold(tree, id, current) ==
  IF id \in tree.open THEN collapse_node(tree, id)
  ELSE select_node(expand_node(tree, id), current)

-----------------------------------------------------------------------------
(* Properties.                                                             *)

\* However entries are opened, closed and selected, an open entry is in the tree, and
\* at most one is marked: the one that was selected last.
TreeSound(tree) ==
  /\ \A n \in tree.open \cup tree.marked : Exists(tree, n)
  /\ tree.marked \subseteq {tree.selected}
=============================================================================
