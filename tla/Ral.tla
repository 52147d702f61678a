--------------------------------- MODULE Ral ---------------------------------
(***************************************************************************)
(* js/ral.js of the register documentation: the register tree behind the   *)
(* pages, positions in it, paths and addresses.                            *)
(*                                                                         *)
(* A node has a parent, children, a name, an offset from its parent, a     *)
(* size, the dimensions and the stride of an array (no dimensions: not an  *)
(* array) and the fields of a register.  The indexes last used for each    *)
(* array are the only part that changes; they are the argument idxs.       *)
(* A position is a node and a stack of the indexes of the nodes above it;  *)
(* a path is the sequence of its names and indexes.                        *)
(***************************************************************************)
EXTENDS Integers, Sequences, SequencesExt, FiniteSetsExt

CONSTANTS
  Nodes,         \* the ids 0 .. number_of_ids()-1
  Tree,          \* the contents of the data files
  Roots          \* RootNodeIds

NoNode == -1
NoPath == <<>>           \* no path, an empty one, or one that cannot be split
NoPosition == [id |-> NoNode, stack |-> <<>>]

\* Ids are given from the roots on, and siblings have different names, as in the data files.
ASSUME TreeAssumption ==
  /\ IsFiniteSet(Nodes) /\ 0 \in Nodes /\ Nodes = 0..Cardinality(Nodes)-1
  /\ Roots \in Seq({n \in Nodes : Tree[n].parent = NoNode})
  /\ \A n \in Nodes :
       /\ Tree[n].parent \in {NoNode} \cup {m \in Nodes : m < n}
       /\ Tree[n].children \in Seq({m \in Nodes : Tree[m].parent = n})
       /\ Tree[n].offset \in Nat /\ Tree[n].size \in Nat
       /\ Tree[n].dims \in Seq(Nat \ {0})
       /\ Tree[n].stride \in Nat /\ (Tree[n].dims # <<>> => Tree[n].stride > 0)
       /\ Tree[n].fields \in Seq(ToSet(Tree[n].fields))
       /\ n \in ToSet(IF Tree[n].parent = NoNode THEN Roots ELSE Tree[Tree[n].parent].children)
       /\ \A m \in Nodes : Tree[m].parent = Tree[n].parent /\ Tree[m].name = Tree[n].name => m = n

is_array(id)    == Tree[id].dims # <<>>
is_register(id) == Tree[id].fields # <<>>
IsRoot(id)      == Tree[id].parent = NoNode

-----------------------------------------------------------------------------
(* Ancestors.                                                              *)

get_ids_in_path ==
  LET up[id \in Nodes] == IF IsRoot(id) THEN <<id>> ELSE Append(up[Tree[id].parent], id)
  IN  [id \in Nodes |-> up[id]]

Lineage == [id \in Nodes |-> ToSet(get_ids_in_path[id])]
get_ancestors == [id \in Nodes |-> Front(get_ids_in_path[id])]

\* The deepest node above both, or the first node.
get_common_ancestor(id1, id2) ==
  LET common == Lineage[id1] \cap Lineage[id2]
  IN  IF common = {} THEN 0 ELSE CHOOSE n \in common : common \subseteq Lineage[n]

-----------------------------------------------------------------------------
(* Indexes.                                                                *)

Zeros == [id \in Nodes |-> [d \in DOMAIN Tree[id].dims |-> 0]]
IdxRange ==
  [id \in Nodes |->
     LET dims == Tree[id].dims
     IN  {ix \in [DOMAIN dims -> 0..Max({1} \cup ToSet(dims))-1] : \A d \in DOMAIN ix : ix[d] < dims[d]}]

get_current_idx_stack(idxs, id) ==
  [i \in DOMAIN get_ids_in_path[id] |-> idxs[get_ids_in_path[id][i]]]

\* Mutant: the node that the walk stops at is reset as well.
reset_indexes_all(idxs, from_id, to_id) ==
  [n \in Nodes |-> IF n \in Lineage[to_id] THEN Zeros[n] ELSE idxs[n]]

\* The walk from to_id upwards stops at from_id, and at the root.
reset_indexes(idxs, from_id, to_id) ==
  [n \in Nodes |-> IF n \in Lineage[to_id] \ Lineage[from_id] /\ ~IsRoot(n)
                   THEN Zeros[n] ELSE idxs[n]]

reset_indexes_to_next(idxs, id, current) ==
  reset_indexes(idxs, get_common_ancestor(id, current), id)

apply_idx_stack(idxs, id, stack) ==
  LET ids == get_ids_in_path[id]
  IN  [n \in Nodes |->
         IF \E i \in DOMAIN stack : ids[i] = n /\ stack[i] # <<>>
         THEN stack[CHOOSE i \in DOMAIN stack : ids[i] = n] ELSE idxs[n]]

-----------------------------------------------------------------------------
(* Paths.                                                                  *)

get_path(idxs, id) ==
  [i \in DOMAIN get_ids_in_path[id] |->
     [name |-> Tree[get_ids_in_path[id][i]].name, idxs |-> idxs[get_ids_in_path[id][i]]]]

FirstNamed(ids, name) ==
  LET hits == {i \in DOMAIN ids : Tree[ids[i]].name = name}
  IN  IF hits = {} THEN NoNode ELSE ids[Min(hits)]

get_child_by_name(id, name) == FirstNamed(Tree[id].children, name)

\* Mutant: an index is cut to the dimension, not to the last index.
SanitizeLoose(id, given) ==
  [d \in DOMAIN Tree[id].dims |->
     IF d > Len(given) THEN 0 ELSE Min({given[d], Tree[id].dims[d]})]

\* Mutant: the last index counts as too large.
SanitizeShort(id, given) ==
  [d \in DOMAIN Tree[id].dims |->
     IF d > Len(given) THEN 0 ELSE Min({given[d], Tree[id].dims[d] - 2})]

\* Indexes that are missing become 0, large ones the last one, others are dropped.
Sanitize(id, given) ==
  [d \in DOMAIN Tree[id].dims |->
     IF d > Len(given) THEN 0 ELSE Min({given[d], Tree[id].dims[d] - 1})]

parse_path(path) ==
  LET walk[i \in DOMAIN path] ==
        IF i = 1 THEN FirstNamed(Roots, path[1].name)
        ELSE IF walk[i-1] = NoNode THEN NoNode
        ELSE get_child_by_name(walk[i-1], path[i].name)
  IN  IF path = NoPath THEN NoPosition
      ELSE IF walk[Len(path)] = NoNode THEN NoPosition
      ELSE [id    |-> walk[Len(path)],
            stack |-> [i \in DOMAIN path |-> Sanitize(walk[i], path[i].idxs)]]

-----------------------------------------------------------------------------
(* Addresses.                                                              *)

Product(s) == FoldLeft(LAMBDA x, y : x * y, 1, s)

\* Mutant: the first dimension varies fastest.
FlatIdxColumns(dims, ix) ==
  FoldLeftDomain(LAMBDA sum, i : sum + ix[i] * Product(SubSeq(dims, 1, i - 1)), 0, ix)

FlatIdx(dims, ix) ==
  FoldLeftDomain(LAMBDA sum, i : sum + ix[i] * Product(SubSeq(dims, i + 1, Len(dims))), 0, ix)

get_addr_offset(idxs, id) ==
  Tree[id].offset + (IF is_array(id) THEN Tree[id].stride * FlatIdx(Tree[id].dims, idxs[id]) ELSE 0)

get_absolute_addr(idxs, id) ==
  FoldLeft(LAMBDA sum, n : sum + get_addr_offset(idxs, n), 0, get_ids_in_path[id])

get_total_size(id) ==
  Tree[id].size + (IF is_array(id) THEN Tree[id].stride * (Product(Tree[id].dims) - 1) ELSE 0)

Contains_(id, addr) ==
  addr >= Tree[id].offset /\ addr < Tree[id].offset + get_total_size(id)

\* Elements of an array and children of a node do not overlap, and lie within their parent.
ASSUME LayoutAssumption ==
  \A n \in Nodes :
    LET kids   == Tree[n].children
        end(c) == Tree[c].offset + get_total_size(c)
    IN  /\ Tree[n].size > 0 /\ (is_array(n) => Tree[n].size <= Tree[n].stride)
        /\ \A i \in DOMAIN kids : end(kids[i]) <= Tree[n].size
        /\ \A i, j \in DOMAIN kids :
             i = j \/ end(kids[i]) <= Tree[kids[j]].offset \/ end(kids[j]) <= Tree[kids[i]].offset

\* The indexes of element number flat of an array.
Unflatten(dims, flat) ==
  [d \in DOMAIN dims |-> (flat \div Product(SubSeq(dims, d + 1, Len(dims)))) % dims[d]]

\* The position below id, at an address relative to id's parent and inside id; none
\* if it falls between two elements.  The search takes the first child that fits.
Descend[p \in Nodes \X Nat] ==
  LET id    == p[1]
      addr  == p[2] - Tree[id].offset
      dims  == Tree[id].dims
      inner == IF is_array(id) THEN addr % Tree[id].stride ELSE addr
      here  == IF is_array(id) THEN Unflatten(dims, addr \div Tree[id].stride) ELSE <<>>
      kids  == Tree[id].children
      hits  == {i \in DOMAIN kids : Contains_(kids[i], inner)}
      below == IF hits = {} THEN NoPosition ELSE Descend[<<kids[Min(hits)], inner>>]
  IN  IF is_array(id) /\ inner >= Tree[id].size THEN NoPosition
      ELSE IF below = NoPosition THEN [id |-> id, stack |-> <<here>>]
      ELSE [below EXCEPT !.stack = <<here>> \o @]

lookup_by_address(addr, root_id) ==
  IF Contains_(root_id, addr) THEN Descend[<<root_id, addr>>] ELSE NoPosition

-----------------------------------------------------------------------------
(* Properties, of any tree whose siblings have different names and do not  *)
(* overlap.                                                                *)

\* The path the page puts into the URL leads back to the same node and indexes,
\* whichever node of the tree it is and whatever the arrays' indexes are.
PathsLeadBack(idxs) ==
  \A id \in Nodes :
    parse_path(get_path(idxs, id)) = [id |-> id, stack |-> get_current_idx_stack(idxs, id)]

\* Searching for the address a page displays finds that page with its indexes, or
\* the first of the nodes inside it that begins there.
AddressesLeadBack(idxs) ==
  \A id \in Nodes :
    LET root  == get_ids_in_path[id][1]
        stack == get_current_idx_stack(idxs, id)
        found == lookup_by_address(get_absolute_addr(idxs, id), root)
    IN  /\ found # NoPosition /\ id \in Lineage[found.id]
        /\ \A i \in DOMAIN stack : found.stack[i] = stack[i]
        /\ Tree[id].children = <<>> => found.id = id
=============================================================================
