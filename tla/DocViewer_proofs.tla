-------------------------- MODULE DocViewer_proofs --------------------------
(***************************************************************************)
(* Proofs about DocViewer, for every register tree, every search index,    *)
(* and any number of pages on their way and events of the reader.          *)
(***************************************************************************)
EXTENDS DocViewer, DataLemmas, SequenceTheorems, TLAPS

-----------------------------------------------------------------------------
(* What the functions of the page leave alone.                             *)

Fields ==
  {"CurrentID", "idxs", "disp", "registry", "page", "crumbs", "addr", "rdlfc", "title",
   "form", "tree", "modal", "history", "pos"}

\* Neither the page nor the current node changes.
Frame(u, v) == DOMAIN v = Fields /\ v.page = u.page /\ v.CurrentID = u.CurrentID

LEMMA HeadedFrame == ASSUME NEW u, DOMAIN u = Fields PROVE Frame(u, Headed(u))
BY DEF Frame, Fields, Headed, update_crumbtrail, update_absolute_addr, update_rdlfc_indexes

LEMMA FillFormFrame == ASSUME NEW u, DOMAIN u = Fields PROVE Frame(u, FillForm(u))
BY DEF Frame, Fields, FillForm

LEMMA PatchFrame == ASSUME NEW u, DOMAIN u = Fields PROVE Frame(u, patch_url_path(u))
BY DEF Frame, Fields, patch_url_path

\* The fields that handlers set by themselves.
LEMMA SetFrame ==
  ASSUME NEW u, DOMAIN u = Fields, NEW x
  PROVE  /\ Frame(u, [u EXCEPT !.tree = x]) /\ Frame(u, [u EXCEPT !.idxs = x])
         /\ Frame(u, [u EXCEPT !.modal = x]) /\ Frame(u, [u EXCEPT !.disp = x])
         /\ Frame(u, [u EXCEPT !.pos = x]) /\ Frame(u, [u EXCEPT !.title = x])
         /\ Frame(u, [u EXCEPT !.modal.active = x])
BY DEF Frame, Fields

LEMMA ExitFrame ==
  ASSUME NEW u, DOMAIN u = Fields, NEW cancel, NEW val
  PROVE  Frame(u, exitIndexEditModal(u, cancel, val)) /\ Frame(u, WindowClick(u, val))
<1> DEFINE closed == [u EXCEPT !.modal.active = FALSE]
           set    == [closed EXCEPT !.idxs[u.modal.id][u.modal.dim] = val]
<1>1. Frame(u, closed)
  BY SetFrame
<1>2. Frame(u, set)
  BY <1>1 DEF Frame, Fields
<1> HIDE DEF closed, set
<1>3. Frame(u, FillForm(patch_url_path(Headed(set))))
  BY <1>2, HeadedFrame, PatchFrame, FillFormFrame DEF Frame
<1>4. ASSUME NEW c PROVE Frame(u, exitIndexEditModal(u, c, val))
  BY <1>1, <1>3 DEF exitIndexEditModal, Frame, closed, set
<1> QED BY <1>4 DEF WindowClick

\* What a click does before it reaches the window.
LEMMA ThenClick ==
  ASSUME NEW u, NEW v, Frame(u, v), NEW val PROVE Frame(u, WindowClick(v, val))
<1>1. DOMAIN v = Fields
  BY DEF Frame
<1>2. Frame(v, WindowClick(v, val))
  BY <1>1, ExitFrame
<1> QED BY <1>2 DEF Frame

LEMMA ToNextFrame ==
  ASSUME NEW u, DOMAIN u = Fields, NEW id, NEW t
  PROVE  Frame(u, ToNext(u, id)) /\ Frame(u, ToNext([u EXCEPT !.tree = t], id))
BY DEF Frame, Fields, ToNext

LEMMA ShowFrame ==
  ASSUME NEW u, DOMAIN u = Fields, NEW span, NEW text
  PROVE  Frame(u, showIndexEditModal(u, span, text))
BY DEF Frame, Fields, showIndexEditModal

LEMMA SwitchFrame ==
  ASSUME NEW u, DOMAIN u = Fields, NEW span, NEW val
  PROVE  /\ Frame(u, onClickCrumbtrailIdx(u, span, val))
         /\ Frame(u, switch_to_prev_idx_edit(u, val))
         /\ Frame(u, switch_to_next_idx_edit(u, val))
<1> DEFINE closed == exitIndexEditModal(u, FALSE, val)
<1>1. Frame(u, closed)
  BY ExitFrame
<1> HIDE DEF closed
<1>2. ASSUME NEW s, NEW t
      PROVE  Frame(u, showIndexEditModal(u, s, t)) /\ Frame(u, showIndexEditModal(closed, s, t))
  <2>1. DOMAIN closed = Fields
    BY <1>1 DEF Frame
  <2>2. Frame(closed, showIndexEditModal(closed, s, t))
    BY <2>1, ShowFrame
  <2>3. Frame(u, showIndexEditModal(u, s, t))
    BY ShowFrame
  <2> QED BY <1>1, <2>2, <2>3 DEF Frame
<1>3. Frame(u, u)
  BY DEF Frame
<1> QED
  BY <1>2, <1>3 DEF closed, onClickCrumbtrailIdx, switch_to_prev_idx_edit, switch_to_next_idx_edit

LEMMA EditFrame ==
  ASSUME NEW u, DOMAIN u = Fields, NEW outcome PROVE Frame(u, Edited(u, outcome))
BY DEF Frame, Fields, Edited

LEMMA ResultFrame ==
  ASSUME NEW u, DOMAIN u = Fields, NEW i PROVE Frame(u, open_search_result(u, i))
BY DEF Frame, Fields, open_search_result

\* Following the URL changes the current node, and leaves the page as it is.
LEMMA ViaUrl ==
  ASSUME NEW u, DOMAIN u = Fields
  PROVE  DOMAIN load_page_via_url(u) = Fields /\ load_page_via_url(u).page = u.page
<1> DEFINE parsed == parse_path(u.history[u.pos])
           at     == [u EXCEPT !.CurrentID = parsed.id,
                               !.idxs = apply_idx_stack(@, parsed.id, parsed.stack)]
           start  == [u EXCEPT !.CurrentID = 0, !.history[u.pos] = NoPath]
<1>1. DOMAIN at = Fields /\ at.page = u.page /\ DOMAIN start = Fields /\ start.page = u.page
  BY DEF Fields
<1>2. load_page_via_url(u) = IF parsed = NoPosition THEN start ELSE patch_url_path(at)
  BY DEF load_page_via_url, Displayed
<1> HIDE DEF at, start
<1> QED BY <1>1, <1>2, PatchFrame DEF Frame

\* A page that comes is the current one.
LEMMA Arrived ==
  ASSUME NEW u, DOMAIN u = Fields, NEW id
  PROVE  LET shown == ShowInSidebar(load_page(u, id), id)
         IN  /\ DOMAIN shown = Fields /\ shown.page = shown.CurrentID
             /\ DOMAIN refresh_url(shown) = Fields
             /\ refresh_url(shown).page = refresh_url(shown).CurrentID
<1> DEFINE loaded == [u EXCEPT !.CurrentID = id, !.page = id, !.form = Fresh(id)]
           shown  == ShowInSidebar(load_page(u, id), id)
<1>1. DOMAIN loaded = Fields /\ loaded.page = loaded.CurrentID
  BY DEF Fields
<1>2. load_page(u, id) = FillForm(Headed(loaded))
  BY DEF load_page
<1> HIDE DEF loaded
<1>3. DOMAIN load_page(u, id) = Fields /\ load_page(u, id).page = load_page(u, id).CurrentID
  BY <1>1, <1>2, HeadedFrame, FillFormFrame DEF Frame
<1>4. DOMAIN shown = Fields /\ shown.page = shown.CurrentID
  BY <1>3 DEF ShowInSidebar, Fields
<1> HIDE DEF shown
<1>5. DOMAIN refresh_url(shown) = Fields
      /\ refresh_url(shown).page = refresh_url(shown).CurrentID
  BY <1>4 DEF refresh_url, Fields
<1> QED BY <1>4, <1>5 DEF shown

-----------------------------------------------------------------------------
(* Pages on their way.                                                     *)

\* PageIsCurrent is inductive once the state has its shape.
PageInv ==
  /\ DOMAIN ui = Fields
  /\ \E S : loads \in Seq(S)
  /\ PageIsCurrent

\* Most events leave page and current node alone, and at most ask for another page.
LEMMA Quiet ==
  ASSUME PageInv, Frame(ui, ui'), lost' = lost,
         loads' = loads \/ \E l : loads' = Append(loads, l)
  PROVE  PageInv'
<1>1. PICK S : loads \in Seq(S)
  BY DEF PageInv
<1>2. CASE loads' = loads
  BY <1>1, <1>2 DEF PageInv, Frame, PageIsCurrent
<1>3. ASSUME NEW l, loads' = Append(loads, l) PROVE PageInv'
  <2>1. loads' \in Seq(S \cup {l})
    BY <1>1, <1>3
  <2>2. \A i \in DOMAIN loads : i \in DOMAIN loads' /\ loads'[i] = loads[i]
    BY <1>1, <1>3
  <2>3. PageIsCurrent'
    BY <2>2 DEF PageInv, Frame, PageIsCurrent
  <2> QED BY <2>1, <2>3 DEF PageInv, Frame
<1> QED BY <1>2, <1>3

\* The scripts work on the node whose page is shown, unless the history has been used and
\* that page is on its way or failed: in whatever order pages come, for any tree.
THEOREM CurrentPage == Spec => []PageIsCurrent
<1>1. Init => PageInv
  <2> SUFFICES ASSUME Init PROVE PageInv
    OBVIOUS
  <2>1. DOMAIN ui = Fields /\ ui.page = NoNode /\ ui.CurrentID = NoNode
    BY DEF Init, Fields
  <2>2. loads \in Seq({})
    BY DEF Init
  <2> QED BY <2>1, <2>2 DEF PageInv, PageIsCurrent
<1>2. PageInv /\ [Next]_vars => PageInv'
  <2> SUFFICES ASSUME PageInv, [Next]_vars PROVE PageInv'
    OBVIOUS
  <2>0. DOMAIN ui = Fields /\ Frame(ui, ui)
    BY DEF PageInv, Frame
  <2>1. ASSUME NEW f \in DataFiles, RalFileArrives(f) PROVE PageInv'
    <3>1. CASE UNCHANGED <<ui, loads>>
      BY <2>0, <2>1, <3>1, Quiet DEF RalFileArrives
    <3>2. ASSUME NEW u, u = load_page_via_url(ui), NEW t,
                 ui' = [u EXCEPT !.tree = t], loads' = <<Load(u.CurrentID, "url")>>
          PROVE  PageInv'
      <4>1. DOMAIN u = Fields
        BY <2>0, <3>2, ViaUrl
      <4>2. DOMAIN ui' = Fields /\ ui'.CurrentID = u.CurrentID
        BY <3>2, <4>1, SetFrame DEF Frame
      <4>3. loads' \in Seq({Load(u.CurrentID, "url")})
        BY <3>2
      <4>4. 1 \in DOMAIN loads' /\ loads'[1] = Load(ui'.CurrentID, "url")
        BY <3>2, <4>2
      <4> QED BY <4>2, <4>3, <4>4 DEF PageInv, PageIsCurrent
    <3> QED BY <2>1, <3>1, <3>2 DEF RalFileArrives
  <2>2. ASSUME NEW f \in DataFiles, RalFileFails(f) PROVE PageInv'
    BY <2>0, <2>2, Quiet DEF RalFileFails
  <2>3. ASSUME NEW i \in DOMAIN loads, PageArrives(i) PROVE PageInv'
    <3>1. \E S : loads' \in Seq(S)
      BY <2>3, RemoveKeeps DEF PageArrives, PageInv
    <3>2. DOMAIN ui' = Fields /\ ui'.page = ui'.CurrentID
      BY <2>0, <2>3, Arrived DEF PageArrives
    <3> QED BY <3>1, <3>2 DEF PageInv, PageIsCurrent
  <2>4. ASSUME NEW i \in DOMAIN loads, PageFails(i) PROVE PageInv'
    <3>1. PICK S : loads \in Seq(S)
      BY DEF PageInv
    <3>2. loads' = RemoveAt(loads, i) /\ UNCHANGED ui /\ lost' = (lost \/ loads[i].by = "url")
      BY <2>4 DEF PageFails
    <3>3. /\ loads' \in Seq(S)
          /\ \A j \in DOMAIN loads \ {i} : \E k \in DOMAIN loads' : loads'[k] = loads[j]
      BY <3>1, <3>2, RemoveKeeps
    <3>4. PageIsCurrent'
      <4> SUFFICES ASSUME ui.page # ui.CurrentID, ~lost, loads[i].by # "url"
                   PROVE  \E k \in DOMAIN loads' : loads'[k] = Load(ui.CurrentID, "url")
        BY <3>2 DEF PageIsCurrent
      <4>1. PICK j \in DOMAIN loads : loads[j] = Load(ui.CurrentID, "url")
        BY DEF PageInv, PageIsCurrent
      <4>2. j # i
        BY <4>1 DEF Load
      <4> QED BY <3>3, <4>1, <4>2
    <3> QED BY <2>0, <3>2, <3>3, <3>4 DEF PageInv
  <2>5. CASE onClickNodeLink
    <3>1. PICK id, val : \/ ui' = WindowClick(ui, val) \/ ui' = WindowClick(ToNext(ui, id), val)
      BY <2>5 DEF onClickNodeLink
    <3>2. Frame(ui, ui')
      BY <2>0, <3>1, ToNextFrame, ThenClick
    <3> QED BY <2>5, <3>2, Quiet DEF onClickNodeLink, Ask, AskNothing, User
  <2>6. CASE onClickTreeLink
    <3>1. PICK id, val : \/ ui' = WindowClick(ui, val)
                         \/ ui' = WindowClick(
                                    ToNext([ui EXCEPT !.tree = expand_node(@, id)], id), val)
      BY <2>6 DEF onClickTreeLink
    <3>2. Frame(ui, ui')
      BY <2>0, <3>1, ToNextFrame, ThenClick
    <3> QED BY <2>6, <3>2, Quiet DEF onClickTreeLink, Ask, AskNothing, User
  <2>7. CASE ClickTreeFold
    <3>1. PICK t, val : ui' = WindowClick([ui EXCEPT !.tree = t], val)
      BY <2>7 DEF ClickTreeFold
    <3>2. Frame(ui, ui')
      BY <2>0, <3>1, SetFrame, ThenClick
    <3> QED BY <2>7, <3>2, Quiet DEF ClickTreeFold, AskNothing, User
  <2>8. CASE onClickTreeCollapseAll
    <3>1. PICK t, val : ui' = WindowClick([ui EXCEPT !.tree = t], val)
      BY <2>8 DEF onClickTreeCollapseAll
    <3>2. Frame(ui, ui')
      BY <2>0, <3>1, SetFrame, ThenClick
    <3> QED BY <2>8, <3>2, Quiet DEF onClickTreeCollapseAll, AskNothing, User
  <2>9. CASE load_parent_page
    BY <2>0, <2>9, Quiet DEF load_parent_page, Ask, User
  <2>10. CASE onPopState
    <3>1. PICK p : /\ ui' = load_page_via_url([ui EXCEPT !.pos = p])
                   /\ IF ui'.CurrentID = ui.CurrentID THEN UNCHANGED loads
                      ELSE loads' = Append(loads, Load(ui'.CurrentID, "url"))
      BY <2>10 DEF onPopState
    <3> DEFINE u == [ui EXCEPT !.pos = p]
    <3>2. DOMAIN u = Fields /\ u.page = ui.page
      BY <2>0, SetFrame DEF Frame
    <3> HIDE DEF u
    <3>3. DOMAIN load_page_via_url(u) = Fields /\ load_page_via_url(u).page = ui.page
      BY <3>2, ViaUrl
    <3>4. DOMAIN ui' = Fields /\ ui'.page = ui.page
      BY <3>1, <3>3 DEF u
    <3>5. lost' = lost
      BY <2>10 DEF onPopState, User
    <3>6. CASE ui'.CurrentID = ui.CurrentID
      BY <3>1, <3>4, <3>5, <3>6, Quiet DEF Frame
    <3>7. CASE ui'.CurrentID # ui.CurrentID
      <4>1. loads' = Append(loads, Load(ui'.CurrentID, "url"))
        BY <3>1, <3>7
      <4>2. PICK S : loads \in Seq(S)
        BY DEF PageInv
      <4>3. loads' \in Seq(S \cup {Load(ui'.CurrentID, "url")})
        BY <4>1, <4>2
      <4>4. Len(loads) + 1 \in DOMAIN loads' /\ loads'[Len(loads) + 1] = Load(ui'.CurrentID, "url")
        BY <4>1, <4>2
      <4> QED BY <3>4, <4>3, <4>4 DEF PageInv, PageIsCurrent
    <3> QED BY <3>6, <3>7
  <2>11. CASE ClickIndex
    <3>1. Frame(ui, ui')
      BY <2>0, <2>11, SwitchFrame DEF ClickIndex
    <3> QED BY <2>11, <3>1, Quiet DEF ClickIndex, AskNothing, User
  <2>12. CASE IndexKey
    <3>1. Frame(ui, ui')
      BY <2>0, <2>12, SwitchFrame, ExitFrame DEF IndexKey
    <3> QED BY <2>12, <3>1, Quiet DEF IndexKey, AskNothing, User
  <2>13. CASE ClickAway
    <3>1. Frame(ui, ui')
      BY <2>0, <2>13, ExitFrame DEF ClickAway
    <3> QED BY <2>13, <3>1, Quiet DEF ClickAway, AskNothing, User
  <2>14. CASE TypeField \/ PickEnum \/ TypeReg
    <3>1. Frame(ui, ui')
      BY <2>0, <2>14, EditFrame DEF TypeField, PickEnum, TypeReg
    <3> QED BY <2>14, <3>1, Quiet DEF TypeField, PickEnum, TypeReg, AskNothing, User
  <2>15. CASE ClickReset
    <3>1. Frame(ui, ui')
      BY <2>0, <2>15, EditFrame, ThenClick DEF ClickReset
    <3> QED BY <2>15, <3>1, Quiet DEF ClickReset, AskNothing, User
  <2>16. CASE ClickRadix
    <3>1. PICK d, o, val : \/ ui' = WindowClick(ui, val)
                           \/ ui' = WindowClick(Edited([ui EXCEPT !.disp = d], o), val)
      BY <2>16 DEF ClickRadix
    <3> DEFINE u == [ui EXCEPT !.disp = d]
    <3>2. Frame(ui, u)
      BY <2>0, SetFrame
    <3> HIDE DEF u
    <3>3. Frame(ui, Edited(u, o))
      BY <3>2, EditFrame DEF Frame
    <3>4. Frame(ui, ui')
      BY <2>0, <3>1, <3>3, ThenClick DEF u
    <3> QED BY <2>16, <3>4, Quiet DEF ClickRadix, AskNothing, User
  <2>17. CASE SearchKey \/ TypeQuery \/ SelectResult
    BY <2>0, <2>17, Quiet DEF SearchKey, TypeQuery, SelectResult, AskNothing, User
  <2>18. CASE onSearchButtonClick
    <3>1. Frame(ui, ui')
      BY <2>0, <2>18, ExitFrame DEF onSearchButtonClick
    <3> QED BY <2>18, <3>1, Quiet DEF onSearchButtonClick, AskNothing, User
  <2>19. CASE EnterResult
    <3>1. Frame(ui, ui')
      BY <2>0, <2>19, ResultFrame DEF EnterResult
    <3> QED BY <2>19, <3>1, Quiet DEF EnterResult, Ask, User
  <2>20. CASE ClickResult
    <3>1. Frame(ui, ui')
      BY <2>0, <2>20, ResultFrame, ThenClick DEF ClickResult
    <3> QED BY <2>20, <3>1, Quiet DEF ClickResult, Ask, User
  <2>21. CASE SearchRuns
    BY <2>0, <2>21, Quiet DEF SearchRuns
  <2>22. CASE UNCHANGED vars
    BY <2>0, <2>22, Quiet DEF vars
  <2> QED
    BY <2>1, <2>2, <2>3, <2>4, <2>5, <2>6, <2>7, <2>8, <2>9, <2>10, <2>11, <2>12, <2>13,
       <2>14, <2>15, <2>16, <2>17, <2>18, <2>19, <2>20, <2>21, <2>22 DEF Next
<1>3. PageInv => PageIsCurrent
  BY DEF PageInv
<1> QED BY <1>1, <1>2, <1>3, PTL DEF Spec

-----------------------------------------------------------------------------
(* The tree.                                                               *)

LEMMA NodeIds ==
  /\ Nodes \subseteq Nat /\ Cardinality(Nodes) \in Nat
  /\ \A n \in Nodes : n \in 0..Cardinality(Nodes)
<1>1. Cardinality(Nodes) \in Nat
  BY TreeAssumption, FS_CardinalityType
<1>2. Nodes = 0..Cardinality(Nodes)-1
  BY TreeAssumption
<1> QED BY <1>1, <1>2

\* The path to a node ends with the node, behind the path to its parent.
LEMMA PathOfIds ==
  \A id \in Nodes :
    /\ get_ids_in_path[id] \in Seq(Nodes)
    /\ get_ids_in_path[id] = IF IsRoot(id) THEN <<id>>
                             ELSE Append(get_ids_in_path[Tree[id].parent], id)
<1> DEFINE A    == Seq(Nodes)
           End  == {id \in Nodes : IsRoot(id)}
           pre  == [id \in Nodes |-> Tree[id].parent]
           base == [id \in Nodes |-> <<id>>]
           F    == [p \in A \X Nodes |-> Append(p[1], p[2])]
           rank == [id \in Nodes |-> id]
           N    == Cardinality(Nodes)
           P(f) == f = [id \in Nodes |-> IF IsRoot(id) THEN <<id>>
                                         ELSE Append(f[Tree[id].parent], id)]
           up   == CHOOSE f : P(f)
<1>1. N \in Nat /\ rank \in [Nodes -> 0..N]
  BY NodeIds
<1>2. \A id \in Nodes \ End : pre[id] \in Nodes /\ rank[pre[id]] < rank[id]
  BY TreeAssumption DEF IsRoot, NoNode
<1>3. \A id \in Nodes \cap End : base[id] \in A
  OBVIOUS
<1>4. F \in [A \X Nodes -> A]
  OBVIOUS
<1> HIDE DEF A, End, pre, base, F, rank, N
<1>5. \E f \in [Nodes -> A] : Solves(f, Nodes, End, base, pre, F)
  BY <1>1, <1>2, <1>3, <1>4, Recursion
<1>6. PICK f \in [Nodes -> A] : Solves(f, Nodes, End, base, pre, F)
  BY <1>5
<1>7. ASSUME NEW id \in Nodes
      PROVE  f[id] = IF IsRoot(id) THEN <<id>> ELSE Append(f[Tree[id].parent], id)
  <2>1. CASE IsRoot(id)
    BY <1>6, <2>1 DEF Solves, End, base
  <2>2. CASE ~IsRoot(id)
    <3>1. f[id] = F[<<f[pre[id]], id>>] /\ <<f[pre[id]], id>> \in A \X Nodes
      BY <1>2, <1>6, <2>2 DEF Solves, End
    <3> QED BY <2>2, <3>1 DEF F, pre
  <2> QED BY <2>1, <2>2
<1>8. P(f)
  BY <1>6, <1>7
<1>9. P(up)
  BY <1>8
<1>10. get_ids_in_path = [id \in Nodes |-> up[id]]
  BY DEF get_ids_in_path
<1> HIDE DEF up
<1>11. \A id \in Nodes : get_ids_in_path[id] = IF IsRoot(id) THEN <<id>>
                             ELSE Append(get_ids_in_path[Tree[id].parent], id)
  <2>1. \A id \in Nodes : ~IsRoot(id) => Tree[id].parent \in Nodes
    BY TreeAssumption DEF IsRoot
  <2> QED BY <1>9, <1>10, <2>1
<1> DEFINE G == {id \in Nodes : get_ids_in_path[id] \in Seq(Nodes)}
<1>12. ASSUME NEW id \in Nodes, \A m \in Nodes : rank[m] < rank[id] => m \in G
       PROVE  id \in G
  <2> SUFFICES get_ids_in_path[id] \in Seq(Nodes)
    OBVIOUS
  <2>1. CASE IsRoot(id)
    <3>1. <<id>> \in Seq(Nodes)
      OBVIOUS
    <3> QED BY <1>11, <2>1, <3>1, Zenon
  <2>2. CASE ~IsRoot(id)
    <3>1. Tree[id].parent \in Nodes /\ rank[Tree[id].parent] < rank[id]
      BY <1>2, <2>2 DEF End, pre
    <3>2. get_ids_in_path[Tree[id].parent] \in Seq(Nodes)
      BY <1>12, <3>1
    <3>3. get_ids_in_path[id] = Append(get_ids_in_path[Tree[id].parent], id)
      BY <1>11, <2>2
    <3>4. Append(get_ids_in_path[Tree[id].parent], id) \in Seq(Nodes)
      BY <3>2, AppendProperties
    <3> QED BY <3>3, <3>4, Zenon
  <2> QED BY <2>1, <2>2
<1>13. rank \in [Nodes -> Nat]
  BY NodeIds DEF rank
<1> HIDE DEF G
<1>14. Nodes \subseteq G
  BY <1>12, <1>13, RankInduction
<1> QED BY <1>11, <1>14 DEF G

LEMMA RootPath == ASSUME NEW id \in Nodes, IsRoot(id) PROVE get_ids_in_path[id] = <<id>>
BY PathOfIds

LEMMA ChildPath ==
  ASSUME NEW id \in Nodes, ~IsRoot(id), NEW m, m = Tree[id].parent
  PROVE  /\ m \in Nodes /\ m < id
         /\ Len(get_ids_in_path[id]) = Len(get_ids_in_path[m]) + 1
         /\ get_ids_in_path[id][Len(get_ids_in_path[m]) + 1] = id
         /\ \A j \in 1..Len(get_ids_in_path[m]) : get_ids_in_path[id][j] = get_ids_in_path[m][j]
<1>1. m \in Nodes /\ m < id
  BY TreeAssumption DEF IsRoot
<1>2. get_ids_in_path[m] \in Seq(Nodes) /\ get_ids_in_path[id] = Append(get_ids_in_path[m], id)
  BY <1>1, PathOfIds
<1> DEFINE q == get_ids_in_path[m]
<1> HIDE DEF q
<1>3. /\ q \in Seq(Nodes) => /\ Len(Append(q, id)) = Len(q) + 1
                             /\ Append(q, id)[Len(q) + 1] = id
                             /\ \A j \in 1..Len(q) : Append(q, id)[j] = q[j]
  BY AppendProperties
<1> QED BY <1>1, <1>2, <1>3 DEF q

\* A path to a node begins at a root, ends with the node, and begins with the paths to the
\* nodes on it.
PathBegins(id) ==
  LET p == get_ids_in_path[id]
  IN  /\ Len(p) \in Nat \ {0} /\ p[Len(p)] = id /\ IsRoot(p[1])
      /\ \A j \in 1..Len(p) :
           /\ Len(get_ids_in_path[p[j]]) = j
           /\ \A i \in 1..j : get_ids_in_path[p[j]][i] = p[i]

LEMMA PathShape == \A id \in Nodes : PathBegins(id)
<1> DEFINE rank == [id \in Nodes |-> id]
           G    == {id \in Nodes : PathBegins(id)}
<1>1. rank \in [Nodes -> Nat]
  BY NodeIds
<1>2. ASSUME NEW id \in Nodes, \A m \in Nodes : rank[m] < rank[id] => m \in G
      PROVE  id \in G
  <2> SUFFICES PathBegins(id)
    OBVIOUS
  <2>1. CASE IsRoot(id)
    <3> DEFINE p == get_ids_in_path[id]
    <3>1. p = <<id>>
      BY <2>1, RootPath
    <3>2. Len(p) = 1 /\ p[1] = id /\ \A j \in 1..Len(p) : j = 1
      BY <3>1
    <3> HIDE DEF p
    <3>3. \A j \in 1..Len(p) : p[j] = id /\ \A i \in 1..j : i = 1
      BY <3>2
    <3> QED BY <2>1, <3>2, <3>3 DEF PathBegins, p
  <2>2. CASE ~IsRoot(id)
    <3> DEFINE m == Tree[id].parent
               p == get_ids_in_path[id]
               q == get_ids_in_path[m]
    <3>1. /\ m \in Nodes /\ m < id /\ Len(p) = Len(q) + 1 /\ p[Len(q) + 1] = id
          /\ \A j \in 1..Len(q) : p[j] = q[j]
      BY <2>2, ChildPath
    <3>2. /\ Len(q) \in Nat \ {0} /\ IsRoot(q[1])
          /\ \A j \in 1..Len(q) : /\ Len(get_ids_in_path[q[j]]) = j
                                  /\ \A i \in 1..j : get_ids_in_path[q[j]][i] = q[i]
      BY <1>2, <3>1 DEF PathBegins
    <3>a. q = get_ids_in_path[m] /\ p = get_ids_in_path[id]
      OBVIOUS
    <3> HIDE DEF q, m, p
    <3>3. ASSUME NEW j \in 1..Len(p)
          PROVE  Len(get_ids_in_path[p[j]]) = j /\ \A i \in 1..j : get_ids_in_path[p[j]][i] = p[i]
      <4>1. CASE j = Len(p)
        BY <3>1, <3>2, <3>a, <4>1
      <4>2. CASE j # Len(p)
        <5>1. j \in 1..Len(q) /\ p[j] = q[j]
          BY <3>1, <3>2, <4>2
        <5>2. \A i \in 1..j : i \in 1..Len(q) /\ p[i] = q[i]
          BY <3>1, <3>2, <5>1
        <5> QED BY <3>2, <5>1, <5>2
      <4> QED BY <4>1, <4>2
    <3>4. Len(p) \in Nat \ {0} /\ p[Len(p)] = id /\ IsRoot(p[1])
      BY <3>1, <3>2
    <3> QED BY <3>3, <3>4, <3>a DEF PathBegins
  <2> QED BY <2>1, <2>2
<1> HIDE DEF rank, G
<1>3. Nodes \subseteq G
  BY <1>1, <1>2, RankInduction
<1> QED BY <1>3 DEF G

\* On a path each node is the parent of the next one.
LEMMA PathParents ==
  ASSUME NEW id \in Nodes, NEW j \in 1..Len(get_ids_in_path[id])-1
  PROVE  LET p == get_ids_in_path[id]
         IN  p[j] \in Nodes /\ p[j+1] \in Nodes /\ ~IsRoot(p[j+1]) /\ Tree[p[j+1]].parent = p[j]
<1> DEFINE p == get_ids_in_path[id]
           c == p[j+1]
           q == get_ids_in_path[c]
<1>1. p \in Seq(Nodes) /\ Len(p) \in Nat /\ PathBegins(id)
  BY PathOfIds, PathShape, LenProperties
<1>2. j \in 1..Len(p) /\ j + 1 \in 1..Len(p) /\ p[j] \in Nodes /\ c \in Nodes
  BY <1>1
<1>3. Len(q) = j + 1 /\ q[j] = p[j]
  BY <1>1, <1>2 DEF PathBegins
<1>4. ~IsRoot(c)
  <2> SUFFICES ASSUME IsRoot(c) PROVE FALSE
    OBVIOUS
  <2>1. q = <<c>>
    BY <1>2, RootPath
  <2> QED BY <1>3, <2>1
<1> DEFINE m == Tree[c].parent
           r == get_ids_in_path[m]
<1> HIDE DEF c
<1>5. /\ m \in Nodes /\ Len(q) = Len(r) + 1
      /\ \A i \in 1..Len(r) : q[i] = r[i]
  BY <1>2, <1>4, ChildPath
<1>6. Len(r) \in Nat \ {0} /\ r[Len(r)] = m
  BY <1>5, PathShape DEF PathBegins
<1> HIDE DEF r, m, q, p
<1>7. Len(r) = j
  BY <1>3, <1>5, <1>6
<1> QED BY <1>2, <1>3, <1>4, <1>5, <1>6, <1>7 DEF m, c, p

\* The ancestors of a node are its parent and those of the parent.
LEMMA LineageOf ==
  ASSUME NEW id \in Nodes
  PROVE  /\ Lineage[id] \subseteq Nodes /\ id \in Lineage[id]
         /\ IsRoot(id) => Lineage[id] = {id}
         /\ ~IsRoot(id) => /\ Tree[id].parent \in Nodes /\ Tree[id].parent < id
                           /\ Lineage[id] = Lineage[Tree[id].parent] \cup {id}
<1>0. \A n \in Nodes : DOMAIN get_ids_in_path[n] = 1..Len(get_ids_in_path[n])
  BY PathOfIds, LenProperties
<1>1. \A n \in Nodes : Lineage[n] = {get_ids_in_path[n][i] : i \in 1..Len(get_ids_in_path[n])}
  BY <1>0 DEF Lineage, ToSet
<1>2. Lineage[id] \subseteq Nodes
  <2>1. ASSUME NEW i \in 1..Len(get_ids_in_path[id]) PROVE get_ids_in_path[id][i] \in Nodes
    <3>1. get_ids_in_path[id] \in Seq(Nodes)
      BY PathOfIds
    <3> QED BY <3>1, ElementOfSeq
  <2> QED BY <1>1, <2>1
<1>3. id \in Lineage[id]
  BY <1>1, PathShape DEF PathBegins
<1>4. ASSUME IsRoot(id) PROVE Lineage[id] = {id}
  <2>1. get_ids_in_path[id] = <<id>>
    BY <1>4, RootPath
  <2> QED BY <1>1, <2>1
<1>5. ASSUME ~IsRoot(id)
      PROVE  /\ Tree[id].parent \in Nodes /\ Tree[id].parent < id
             /\ Lineage[id] = Lineage[Tree[id].parent] \cup {id}
  <2> DEFINE m == Tree[id].parent
             p == get_ids_in_path[id]
             q == get_ids_in_path[m]
  <2>1. /\ m \in Nodes /\ m < id /\ Len(p) = Len(q) + 1 /\ p[Len(q) + 1] = id
        /\ \A j \in 1..Len(q) : p[j] = q[j]
    BY <1>5, ChildPath
  <2>2. Len(q) \in Nat
    BY <2>1, PathShape DEF PathBegins
  <2>3. Lineage[id] = {p[i] : i \in 1..Len(p)} /\ Lineage[m] = {q[i] : i \in 1..Len(q)}
    BY <1>1, <2>1
  <2> HIDE DEF p, q, m
  <2>4. 1..Len(p) = 1..Len(q) \cup {Len(q) + 1}
    BY <2>1, <2>2
  <2>5. Lineage[id] = Lineage[m] \cup {id}
    BY <2>1, <2>3, <2>4
  <2> QED BY <2>1, <2>5 DEF m
<1> QED BY <1>2, <1>3, <1>4, <1>5

LEMMA LineageBefore == \A id \in Nodes : \A m \in Lineage[id] : m <= id
<1> DEFINE rank == [id \in Nodes |-> id]
           G    == {id \in Nodes : \A m \in Lineage[id] : m <= id}
<1>1. rank \in [Nodes -> Nat]
  BY NodeIds
<1>2. ASSUME NEW id \in Nodes, \A n \in Nodes : rank[n] < rank[id] => n \in G
      PROVE  id \in G
  <2>1. id \in Nat
    BY NodeIds
  <2>2. CASE IsRoot(id)
    BY <2>1, <2>2, LineageOf
  <2>3. CASE ~IsRoot(id)
    <3> DEFINE n == Tree[id].parent
    <3>1. n \in Nodes /\ n < id /\ Lineage[id] = Lineage[n] \cup {id} /\ Lineage[n] \subseteq Nodes
      BY <2>3, LineageOf
    <3>2. n \in G
      BY <1>2, <3>1
    <3> HIDE DEF n
    <3>3. ASSUME NEW m \in Lineage[n] PROVE m <= id
      <4>1. m \in Nat /\ n \in Nat /\ m <= n
        BY <3>1, <3>2, NodeIds
      <4> QED BY <2>1, <3>1, <4>1
    <3> QED BY <2>1, <3>1, <3>3
  <2> QED BY <2>2, <2>3
<1> HIDE DEF rank, G
<1>3. Nodes \subseteq G
  BY <1>1, <1>2, RankInduction
<1> QED BY <1>3 DEF G

-----------------------------------------------------------------------------
(* The sidebar.                                                            *)

Trees ==
  {t \in [open : SUBSET Nodes, marked : SUBSET Nodes, selected : Nodes \cup {NoNode}] :
     TreeSound(t)}

LEMMA NoTreeSound == NoTree \in Trees
BY DEF NoTree, Trees, TreeSound

LEMMA ExpandSound ==
  ASSUME NEW t \in Trees, NEW id \in Nodes PROVE expand_node(t, id) \in Trees
<1> DEFINE more == {n \in {id} : HasChildren(n) /\ Exists(t, n)}
           e    == [t EXCEPT !.open = @ \cup more]
<1>1. expand_node(t, id) = e
  BY DEF expand_node
<1>2. more \subseteq Nodes /\ \A n \in more : Exists(t, n)
  OBVIOUS
<1> HIDE DEF more
<1>3. /\ e \in [open : SUBSET Nodes, marked : SUBSET Nodes, selected : Nodes \cup {NoNode}]
      /\ e.open = t.open \cup more /\ e.marked = t.marked /\ e.selected = t.selected
  BY <1>2 DEF Trees
<1> HIDE DEF e
<1>4. \A n : Exists(t, n) => Exists(e, n)
  BY <1>3 DEF Exists
<1> QED BY <1>1, <1>2, <1>3, <1>4 DEF Trees, TreeSound

LEMMA CollapseSound ==
  ASSUME NEW t \in Trees, NEW id \in Nodes PROVE collapse_node(t, id) \in Trees
<1>1. CASE id \notin t.open
  BY <1>1 DEF collapse_node
<1>2. CASE id \in t.open
  <2> DEFINE c == [t EXCEPT !.open = @ \ (Below(id) \cup {id}), !.marked = @ \ Below(id)]
  <2>1. collapse_node(t, id) = c
    BY <1>2 DEF collapse_node
  <2>2. /\ c \in [open : SUBSET Nodes, marked : SUBSET Nodes, selected : Nodes \cup {NoNode}]
        /\ c.open = t.open \ (Below(id) \cup {id})
        /\ c.marked = t.marked \ Below(id) /\ c.selected = t.selected
    BY DEF Trees
  <2> HIDE DEF c
  <2>3. ASSUME NEW n \in c.open \cup c.marked PROVE Exists(c, n)
    <3> SUFFICES ASSUME ~IsRoot(n) PROVE Tree[n].parent \in c.open
      BY DEF Exists
    <3> DEFINE m == Tree[n].parent
    <3>1. n \in Nodes /\ n \notin Below(id) /\ n \in t.open \cup t.marked
      BY <2>2
    <3>2. m \in t.open
      BY <3>1 DEF Trees, TreeSound, Exists
    <3>3. /\ m \in Nodes /\ m < n /\ Lineage[n] = Lineage[m] \cup {n}
          /\ m \in Lineage[m]
      BY <3>1, LineageOf
    <3>4. id \notin Lineage[m]
      <4> SUFFICES ASSUME id \in Lineage[m] PROVE FALSE
        OBVIOUS
      <4>1. id \in Nat /\ m \in Nat /\ n \in Nat /\ id <= m
        BY <3>1, <3>3, NodeIds, LineageBefore
      <4>2. n # id
        BY <3>3, <4>1
      <4> QED BY <3>1, <3>3, <4>2 DEF Below
    <3> QED BY <2>2, <3>2, <3>3, <3>4 DEF Below
  <2> QED BY <2>1, <2>2, <2>3 DEF Trees, TreeSound
<1> QED BY <1>1, <1>2

LEMMA SelectSound ==
  ASSUME NEW t \in Trees, NEW id \in Nodes PROVE select_node(t, id) \in Trees
<1> DEFINE u == [t EXCEPT !.marked = @ \ {t.selected}]
           v == [u EXCEPT !.marked = @ \cup {id}, !.selected = id]
<1>1. select_node(t, id) = IF Exists(t, id) THEN v ELSE u
  BY DEF select_node
<1>2. /\ u \in [open : SUBSET Nodes, marked : SUBSET Nodes, selected : Nodes \cup {NoNode}]
      /\ u.open = t.open /\ u.marked = {} /\ u.selected = t.selected
  BY DEF Trees, TreeSound
<1> HIDE DEF u
<1>3. /\ v \in [open : SUBSET Nodes, marked : SUBSET Nodes, selected : Nodes \cup {NoNode}]
      /\ v.open = t.open /\ v.marked = {id} /\ v.selected = id
  BY <1>2
<1> HIDE DEF v
<1>4. \A n : /\ Exists(t, n) => Exists(u, n) /\ Exists(v, n)
             /\ n \in t.open => Exists(t, n)
  BY <1>2, <1>3 DEF Exists, Trees, TreeSound
<1> QED BY <1>1, <1>2, <1>3, <1>4 DEF Trees, TreeSound

LEMMA FoldSound ==
  ASSUME NEW t \in Trees, NEW id \in Nodes, NEW current \in Nodes
  PROVE  onClickTreeFold(t, id, current) \in Trees
BY CollapseSound, ExpandSound, SelectSound DEF onClickTreeFold

\* Once the nodes above it are open, an entry is in the tree.
LEMMA ExpandToSound ==
  ASSUME NEW t \in Trees, NEW id \in Nodes
  PROVE  expand_to_id(t, id) \in Trees /\ Exists(expand_to_id(t, id), id)
<1> DEFINE seq  == get_ids_in_path[id]
           D    == DOMAIN seq
           P(h) == h = [s \in SUBSET D |-> IF s = {} THEN t
                          ELSE LET x == Max(s) IN expand_node(h[s \ {x}], seq[x])]
           it   == CHOOSE h : P(h)
           F    == [p \in Trees \X D |-> expand_node(p[1], seq[p[2]])]
<1>1. expand_to_id(t, id) = it[D]
  BY DEF expand_to_id, FoldLeft, MapThenFoldSet
<1>2. D \in SUBSET Nat /\ IsFiniteSet(D) /\ \A i \in D : seq[i] \in Nodes
  <2>1. seq \in Seq(Nodes)
    BY PathOfIds
  <2> QED BY <2>1, Interval, ElementOfSeq, LenProperties
<1>2a. /\ D = 1..Len(seq) /\ Len(seq) \in Nat \ {0} /\ seq[Len(seq)] = id
       /\ IsRoot(seq[1])
       /\ \A j \in 1..Len(seq)-1 : Tree[seq[j+1]].parent = seq[j] /\ HasChildren(seq[j])
  <2>1. seq \in Seq(Nodes) /\ PathBegins(id)
    BY PathOfIds, PathShape
  <2>2. \A j \in 1..Len(seq)-1 : Tree[seq[j+1]].parent = seq[j] /\ HasChildren(seq[j])
    <3> SUFFICES ASSUME NEW j \in 1..Len(seq)-1
                 PROVE  Tree[seq[j+1]].parent = seq[j] /\ HasChildren(seq[j])
      OBVIOUS
    <3>1. /\ seq[j] \in Nodes /\ seq[j+1] \in Nodes /\ ~IsRoot(seq[j+1])
          /\ Tree[seq[j+1]].parent = seq[j]
      BY PathParents
    <3>2. seq[j+1] \in ToSet(Tree[seq[j]].children)
      BY <3>1, TreeAssumption DEF IsRoot
    <3>3. Tree[seq[j]].children # <<>>
      BY <3>2 DEF ToSet
    <3> QED BY <3>1, <3>3 DEF HasChildren
  <2> QED BY <2>1, <2>2, LenProperties DEF PathBegins
<1> HIDE DEF D, seq
<1>3. F \in [Trees \X D -> Trees]
  BY <1>2, ExpandSound
<1> HIDE DEF F
<1>4. PICK k \in [SUBSET D -> Trees] : FoldOf(D, F, t, k)
  BY <1>2, <1>3, FoldRecursion
<1>5. ASSUME NEW s \in SUBSET D, s # {} PROVE Max(s) \in D /\ s \ {Max(s)} \in SUBSET D
  BY <1>2, <1>5, FS_Subset, GreatestMember
<1>6. P(k)
  <2> SUFFICES ASSUME NEW s \in SUBSET D, s # {}
               PROVE  FoldStep(F, t, k, s) = expand_node(k[s \ {Max(s)}], seq[Max(s)])
    BY <1>4 DEF FoldOf, FoldStep
  <2>1. <<k[s \ {Max(s)}], Max(s)>> \in Trees \X D
    BY <1>4, <1>5
  <2> QED BY <2>1 DEF FoldStep, F
<1>7. P(it)
  BY <1>6
<1> HIDE DEF it
<1>8. it[{}] \in Trees
  BY <1>7
<1>9. ASSUME NEW s \in SUBSET D, s # {} /\ it[s \ {Max(s)}] \in Trees PROVE it[s] \in Trees
  <2>1. it[s] = expand_node(it[s \ {Max(s)}], seq[Max(s)])
    BY <1>7, <1>9
  <2>2. seq[Max(s)] \in Nodes
    BY <1>2, <1>5, <1>9
  <2> QED BY <1>9, <2>1, <2>2, ExpandSound
<1>10. \A s \in SUBSET D : it[s] \in Trees
  BY <1>2, <1>8, <1>9, FoldStays
<1>11. ASSUME NEW m \in D, Exists(it[1..m-1], seq[m]), HasChildren(seq[m])
       PROVE  seq[m] \in it[1..m].open
  <2> DEFINE s == 1..m
  <2>1. s \in SUBSET D /\ s # {} /\ m \in s /\ \A i \in s : i <= m
    BY <1>2a
  <2>2. s \ {m} = 1..m-1
    BY <1>2a
  <2> HIDE DEF s
  <2>3. Max(s) \in s /\ \A i \in s : i <= Max(s)
    <3>1. s \in SUBSET Nat /\ IsFiniteSet(s)
      BY <1>2, <2>1, FS_Subset
    <3> QED BY <2>1, <3>1, GreatestMember
  <2>4. Max(s) = m
    BY <1>2a, <2>1, <2>3
  <2>5. it[s] = expand_node(it[1..m-1], seq[m])
    BY <1>7, <2>1, <2>2, <2>4
  <2>6. 1..m-1 \in SUBSET D
    BY <1>2a
  <2>7. it[1..m-1] \in Trees
    BY <1>10, <2>6
  <2>8. expand_node(it[1..m-1], seq[m]).open =
          it[1..m-1].open \cup {n \in {seq[m]} : HasChildren(n) /\ Exists(it[1..m-1], n)}
    BY <2>7 DEF expand_node, Trees
  <2> QED BY <1>11, <2>5, <2>8 DEF s
<1>12. Exists(it[1..1-1], seq[1])
  BY <1>2a DEF Exists
<1>13. ASSUME NEW m \in 1..Len(seq)-1, Exists(it[1..m-1], seq[m])
       PROVE  Exists(it[1..(m+1)-1], seq[m+1])
  <2>1. m \in D /\ (m + 1) - 1 = m /\ HasChildren(seq[m]) /\ Tree[seq[m+1]].parent = seq[m]
    BY <1>2a
  <2>2. seq[m] \in it[1..m].open
    BY <1>11, <1>13, <2>1
  <2> QED BY <2>1, <2>2 DEF Exists
<1> DEFINE R(m) == m \in D => Exists(it[1..m-1], seq[m])
           H    == {m \in Nat : R(m)}
<1>14. 0 \in H
  BY <1>2a
<1>15. ASSUME NEW m \in Nat, m \in H PROVE m + 1 \in H
  <2>1. CASE m = 0
    BY <1>12, <2>1
  <2>2. CASE m # 0
    <3> SUFFICES ASSUME m + 1 \in D PROVE Exists(it[1..(m+1)-1], seq[m+1])
      OBVIOUS
    <3>1. m \in 1..Len(seq)-1 /\ m \in D
      BY <1>2a, <2>2
    <3> QED BY <1>13, <1>15, <3>1
  <2> QED BY <2>1, <2>2
<1>16. R(Len(seq))
  <2> HIDE DEF R
  <2>1. Nat \subseteq H
    BY <1>14, <1>15, NumberInduction
  <2> QED BY <1>2a, <2>1
<1>17. Exists(it[1..Len(seq)-1], id)
  BY <1>2a, <1>16
<1>18. Exists(it[D], id)
  <2> DEFINE n == Len(seq)
  <2>1. CASE IsRoot(id)
    BY <2>1 DEF Exists
  <2>2. CASE ~IsRoot(id)
    <3>0. D = 1..n /\ n \in Nat \ {0} /\ n \in D
      BY <1>2a
    <3>1. n \in D /\ D # {} /\ D = 1..n /\ D \ {n} = 1..n-1
      <4>1. (1..n) \ {n} = 1..n-1
        BY <3>0
      <4> QED BY <3>0, <4>1
    <3>2. Max(D) \in D /\ \A i \in D : i <= Max(D)
      BY <1>2, <3>1, GreatestMember
    <3>3. Max(D) = n
      BY <1>2a, <3>1, <3>2
    <3>4. it[D] = expand_node(it[1..n-1], seq[n])
      BY <1>7, <3>1, <3>3
    <3>5. it[1..n-1] \in Trees
      <4>1. 1..n-1 \in SUBSET D
        BY <1>2a
      <4> QED BY <1>10, <4>1
    <3>6. it[1..n-1].open \subseteq it[D].open
      BY <3>4, <3>5 DEF expand_node, Trees
    <3> QED BY <1>17, <3>6 DEF Exists
  <2> QED BY <2>1, <2>2
<1>19. it[D] \in Trees
  BY <1>10
<1> QED BY <1>1, <1>18, <1>19

\* What closing an entry keeps is kept by closing all.
LEMMA CollapseAllKeeps ==
  ASSUME NEW A, NEW t \in A, \A s \in A, n \in Nodes : collapse_node(s, n) \in A
  PROVE  collapse_all(t) \in A
<1> DEFINE seq  == Roots
           D    == DOMAIN seq
           P(h) == h = [s \in SUBSET D |-> IF s = {} THEN t
                          ELSE LET x == Max(s) IN collapse_node(h[s \ {x}], seq[x])]
           it   == CHOOSE h : P(h)
           F    == [p \in A \X D |-> collapse_node(p[1], seq[p[2]])]
<1>1. collapse_all(t) = it[D]
  BY DEF collapse_all, FoldLeft, MapThenFoldSet
<1>2. D \in SUBSET Nat /\ IsFiniteSet(D) /\ \A i \in D : seq[i] \in Nodes
  <2>1. seq \in Seq(Nodes)
    BY TreeAssumption
  <2> QED BY <2>1, Interval, ElementOfSeq, LenProperties
<1> HIDE DEF D, seq
<1>3. F \in [A \X D -> A]
  BY <1>2
<1> HIDE DEF F
<1>4. PICK k \in [SUBSET D -> A] : FoldOf(D, F, t, k)
  BY <1>2, <1>3, FoldRecursion
<1>5. ASSUME NEW s \in SUBSET D, s # {} PROVE Max(s) \in D /\ s \ {Max(s)} \in SUBSET D
  BY <1>2, <1>5, FS_Subset, GreatestMember
<1>6. P(k)
  <2> SUFFICES ASSUME NEW s \in SUBSET D, s # {}
               PROVE  FoldStep(F, t, k, s) = collapse_node(k[s \ {Max(s)}], seq[Max(s)])
    BY <1>4 DEF FoldOf, FoldStep
  <2>1. <<k[s \ {Max(s)}], Max(s)>> \in A \X D
    BY <1>4, <1>5
  <2> QED BY <2>1 DEF FoldStep, F
<1>7. P(it)
  BY <1>6
<1> HIDE DEF it
<1>8. it[{}] \in A
  BY <1>7
<1>9. ASSUME NEW s \in SUBSET D, s # {} /\ it[s \ {Max(s)}] \in A PROVE it[s] \in A
  <2>1. it[s] = collapse_node(it[s \ {Max(s)}], seq[Max(s)])
    BY <1>7, <1>9
  <2>2. seq[Max(s)] \in Nodes
    BY <1>2, <1>5, <1>9
  <2> QED BY <1>9, <2>1, <2>2
<1>10. \A s \in SUBSET D : it[s] \in A
  BY <1>2, <1>8, <1>9, FoldStays
<1> QED BY <1>1, <1>10

LEMMA CollapseAllSound ==
  ASSUME NEW t \in Trees PROVE collapse_all(t) \in Trees
BY CollapseSound, CollapseAllKeeps

-----------------------------------------------------------------------------
(* Indexes.                                                                *)

\* Indexes of the arrays of a node: one for each dimension, below it.
LEMMA IdxRangeIs ==
  ASSUME NEW id \in Nodes
  PROVE  IdxRange[id] = {ix \in [DOMAIN Tree[id].dims -> Nat] :
                           \A d \in DOMAIN Tree[id].dims : ix[d] < Tree[id].dims[d]}
<1> DEFINE dims == Tree[id].dims
           S    == {1} \cup ToSet(dims)
<1>1. dims \in Seq(Nat \ {0}) /\ DOMAIN dims = 1..Len(dims) /\ Len(dims) \in Nat
  BY TreeAssumption, LenProperties
<1>2. S \in SUBSET Nat /\ IsFiniteSet(S) /\ S # {} /\ \A d \in DOMAIN dims : dims[d] \in S
  <2> DEFINE f == [d \in 1..Len(dims) |-> dims[d]]
  <2>1. ToSet(dims) = {dims[d] : d \in 1..Len(dims)}
    BY <1>1 DEF ToSet
  <2>2. IsFiniteSet(ToSet(dims))
    <3>1. f \in Surjection(1..Len(dims), ToSet(dims))
      BY <2>1 DEF Surjection
    <3>2. IsFiniteSet(1..Len(dims))
      BY <1>1, FS_Interval
    <3> QED BY <3>1, <3>2, FS_Surjection
  <2>3. \A d \in 1..Len(dims) : dims[d] \in Nat
    BY <1>1, ElementOfSeq
  <2>4. IsFiniteSet(S)
    BY <2>1, <2>2, FS_AddElement
  <2> QED BY <1>1, <2>1, <2>3, <2>4
<1> HIDE DEF S
<1>3. Max(S) \in Nat /\ \A d \in DOMAIN dims : dims[d] <= Max(S) /\ dims[d] \in Nat
  BY <1>2, GreatestMember
<1>4. IdxRange[id] = {ix \in [DOMAIN dims -> 0..Max(S)-1] : \A d \in DOMAIN ix : ix[d] < dims[d]}
  BY DEF IdxRange, S
<1> HIDE DEF dims
<1>5. ASSUME NEW ix \in [DOMAIN dims -> Nat], \A d \in DOMAIN dims : ix[d] < dims[d]
      PROVE  ix \in [DOMAIN dims -> 0..Max(S)-1]
  <2>1. ASSUME NEW d \in DOMAIN dims PROVE ix[d] \in 0..Max(S)-1
    BY <1>3, <1>5
  <2> QED BY <2>1
<1>6. ASSUME NEW ix \in [DOMAIN dims -> 0..Max(S)-1] PROVE ix \in [DOMAIN dims -> Nat]
  BY <1>3
<1>7. IdxRange[id] = {ix \in [DOMAIN dims -> Nat] : \A d \in DOMAIN dims : ix[d] < dims[d]}
  BY <1>4, <1>5, <1>6
<1> QED BY <1>7 DEF dims

LEMMA Dimensions ==
  ASSUME NEW id \in Nodes
  PROVE  /\ Tree[id].dims \in Seq(Nat \ {0})
         /\ DOMAIN Tree[id].dims = 1..Len(Tree[id].dims) /\ Len(Tree[id].dims) \in Nat
         /\ \A d \in DOMAIN Tree[id].dims : Tree[id].dims[d] \in Nat \ {0}
<1>1. Tree[id].dims \in Seq(Nat \ {0})
  BY TreeAssumption
<1> QED BY <1>1, LenProperties, ElementOfSeq

LEMMA ZerosInRange == \A id \in Nodes : Zeros[id] \in IdxRange[id]
<1> SUFFICES ASSUME NEW id \in Nodes PROVE Zeros[id] \in IdxRange[id]
  OBVIOUS
<1>1. Zeros[id] = [d \in DOMAIN Tree[id].dims |-> 0]
  BY DEF Zeros
<1>2. \A d \in DOMAIN Tree[id].dims : 0 < Tree[id].dims[d]
  BY Dimensions
<1> QED BY <1>1, <1>2, IdxRangeIs

\* Whatever a path says, an array ends up with indexes it has.
LEMMA SanitizeInRange ==
  ASSUME NEW id \in Nodes, NEW given \in Seq(Nat)
  PROVE  Sanitize(id, given) \in IdxRange[id]
<1> DEFINE dims == Tree[id].dims
           at(d) == IF d > Len(given) THEN 0 ELSE Min({given[d], dims[d] - 1})
<1>1. Sanitize(id, given) = [d \in DOMAIN dims |-> at(d)]
  BY DEF Sanitize
<1>2. \A d \in DOMAIN dims : d \in Nat \ {0} /\ dims[d] \in Nat \ {0}
  BY Dimensions
<1>3. ASSUME NEW d \in DOMAIN dims PROVE at(d) \in Nat /\ at(d) < dims[d]
  <2>1. CASE d > Len(given)
    BY <1>2, <2>1
  <2>2. CASE ~(d > Len(given))
    <3> DEFINE T == {given[d], dims[d] - 1}
    <3>1. Len(given) \in Nat /\ d \in 1..Len(given)
      BY <1>2, <2>2
    <3>2. given[d] \in Nat /\ dims[d] - 1 \in Nat
      BY <1>2, <3>1, ElementOfSeq
    <3>3. T \in SUBSET Nat /\ T # {}
      BY <3>2
    <3>4. at(d) = Min(T)
      BY <2>2
    <3>5. dims[d] - 1 \in T
      OBVIOUS
    <3> HIDE DEF T, at, dims
    <3>6. PICK m \in T : \A k \in T : m <= k
      BY <3>3, LeastMember
    <3>7. Min(T) \in T /\ \A k \in T : Min(T) <= k
      BY <3>6 DEF Min
    <3>8. Min(T) \in Nat /\ Min(T) <= dims[d] - 1
      BY <3>3, <3>5, <3>7
    <3>9. \A a, b \in Nat : a <= b - 1 => a < b
      OBVIOUS
    <3> QED BY <1>2, <3>4, <3>8, <3>9
  <2> QED BY <2>1, <2>2
<1> HIDE DEF at, dims
<1>4. [d \in DOMAIN dims |-> at(d)] \in {ix \in [DOMAIN dims -> Nat] : \A d \in DOMAIN dims : ix[d] < dims[d]}
  BY <1>3
<1> QED BY <1>1, <1>4, IdxRangeIs DEF dims

\* A product multiplies factor by factor.
LEMMA ProductSteps ==
  ASSUME NEW seq \in Seq(Nat \ {0})
  PROVE  \E g \in [0..Len(seq) -> Nat \ {0}] :
           /\ g[0] = 1 /\ g[Len(seq)] = Product(seq)
           /\ \A i \in 1..Len(seq) : g[i] = g[i-1] * seq[i]
<1> DEFINE n    == Len(seq)
           D    == DOMAIN seq
           A    == Nat \ {0}
           P(h) == h = [s \in SUBSET D |-> IF s = {} THEN 1
                          ELSE LET x == Max(s) IN h[s \ {x}] * seq[x]]
           it   == CHOOSE h : P(h)
           F    == [p \in A \X D |-> p[1] * seq[p[2]]]
<1>1. Product(seq) = it[D]
  BY DEF Product, FoldLeft, MapThenFoldSet
<1>2. D = 1..n /\ n \in Nat /\ \A i \in D : seq[i] \in A
  BY ElementOfSeq, LenProperties
<1>3. D \in SUBSET Nat /\ IsFiniteSet(D)
  BY <1>2, Interval
<1> HIDE DEF D, n
<1>4. \A a, b \in A : a * b \in A
  OBVIOUS
<1>5. 1 \in A
  OBVIOUS
<1> HIDE DEF A
<1>6. F \in [A \X D -> A] /\ \A a \in A : \A i \in D : F[<<a, i>>] = a * seq[i]
  <2>1. \A p \in A \X D : p[1] * seq[p[2]] \in A
    BY <1>2, <1>4
  <2> QED BY <2>1
<1> HIDE DEF F
<1>7. PICK k \in [SUBSET D -> A] : FoldOf(D, F, 1, k)
  BY <1>3, <1>5, <1>6, FoldRecursion
<1>8. ASSUME NEW s \in SUBSET D, s # {} PROVE Max(s) \in D /\ s \ {Max(s)} \in SUBSET D
  BY <1>3, <1>8, FS_Subset, GreatestMember
<1>9. P(k)
  <2> SUFFICES ASSUME NEW s \in SUBSET D, s # {}
               PROVE  k[s] = k[s \ {Max(s)}] * seq[Max(s)]
    BY <1>7 DEF FoldOf, FoldStep
  <2> QED BY <1>6, <1>7, <1>8 DEF FoldOf, FoldStep
<1>10. P(it)
  BY <1>9
<1> HIDE DEF it
<1>11. it[{}] = 1
  BY <1>10
<1>12. ASSUME NEW s \in SUBSET D, s # {} /\ it[s \ {Max(s)}] \in A
       PROVE  it[s] = F[<<it[s \ {Max(s)}], Max(s)>>]
  <2>1. it[s] = it[s \ {Max(s)}] * seq[Max(s)]
    BY <1>10, <1>12
  <2> QED BY <1>6, <1>8, <1>12, <2>1
<1> HIDE DEF P
<1>13. StepsTo(A, n, 1, F, it[D])
  BY <1>2, <1>5, <1>6, <1>11, <1>12, FoldSteps
<1>14. PICK g \in [0..n -> A] :
         g[0] = 1 /\ g[n] = it[D] /\ \A i \in 1..n : g[i] = F[<<g[i-1], i>>]
  BY <1>13 DEF StepsTo
<1>15. \A i \in 1..n : g[i] = g[i-1] * seq[i]
  <2> SUFFICES ASSUME NEW i \in 1..n PROVE g[i] = g[i-1] * seq[i]
    OBVIOUS
  <2>1. i - 1 \in 0..n
    BY <1>2
  <2> QED BY <1>2, <1>6, <1>14, <2>1
<1> QED BY <1>1, <1>14, <1>15 DEF n, A

LEMMA ProductPositive == ASSUME NEW seq \in Seq(Nat \ {0}) PROVE Product(seq) \in Nat \ {0}
<1>1. PICK g \in [0..Len(seq) -> Nat \ {0}] : g[Len(seq)] = Product(seq)
  BY ProductSteps
<1>2. Len(seq) \in 0..Len(seq)
  BY LenProperties
<1> QED BY <1>1, <1>2

\* The element of an array at an address has indexes the array has.
LEMMA UnflattenInRange ==
  ASSUME NEW id \in Nodes, NEW flat \in Int
  PROVE  Unflatten(Tree[id].dims, flat) \in IdxRange[id]
<1> DEFINE dims  == Tree[id].dims
           rest(d) == Product(SubSeq(dims, d + 1, Len(dims)))
           ix(d) == (flat \div rest(d)) % dims[d]
<1>1. Unflatten(dims, flat) = [d \in DOMAIN dims |-> ix(d)]
  BY DEF Unflatten
<1>2. ASSUME NEW d \in DOMAIN dims PROVE ix(d) \in Nat /\ ix(d) < dims[d]
  <2>1. d \in 1..Len(dims) /\ Len(dims) \in Nat /\ dims[d] \in Nat \ {0} /\ dims \in Seq(Nat \ {0})
    BY Dimensions
  <2>2. SubSeq(dims, d + 1, Len(dims)) \in Seq(Nat \ {0})
    BY <2>1, SubSeqProperties
  <2>3. rest(d) \in Nat \ {0}
    BY <2>2, ProductPositive
  <2> HIDE DEF rest, dims
  <2>4. flat \div rest(d) \in Int
    BY <2>3
  <2>5. \A x \in Int : \A n \in Nat \ {0} : x % n \in Nat /\ x % n < n
    OBVIOUS
  <2> QED BY <2>1, <2>4, <2>5
<1> HIDE DEF ix, dims
<1>3. [d \in DOMAIN dims |-> ix(d)] \in {i \in [DOMAIN dims -> Nat] : \A d \in DOMAIN dims : i[d] < dims[d]}
  BY <1>2
<1> QED BY <1>1, <1>3, IdxRangeIs DEF dims

-----------------------------------------------------------------------------
(* Positions.                                                              *)

\* A node, and indexes in range for each node on its path.
Placed(id, stack) ==
  /\ id \in Nodes /\ DOMAIN stack = 1..Len(get_ids_in_path[id])
  /\ \A i \in 1..Len(get_ids_in_path[id]) : stack[i] \in IdxRange[get_ids_in_path[id][i]]

\* Setting the indexes of a position, or resetting some, keeps all of them in range.
IdxsOK(idxs) == DOMAIN idxs = Nodes /\ \A n \in Nodes : idxs[n] \in IdxRange[n]

LEMMA ApplyOK ==
  ASSUME NEW idxs, IdxsOK(idxs), NEW id, NEW stack, Placed(id, stack)
  PROVE  IdxsOK(apply_idx_stack(idxs, id, stack))
<1> DEFINE ids == get_ids_in_path[id]
           new == apply_idx_stack(idxs, id, stack)
<1>1. new = [n \in Nodes |->
               IF \E i \in DOMAIN stack : ids[i] = n /\ stack[i] # <<>>
               THEN stack[CHOOSE i \in DOMAIN stack : ids[i] = n] ELSE idxs[n]]
  BY DEF apply_idx_stack
<1> HIDE DEF new
<1>2. ASSUME NEW n \in Nodes PROVE new[n] \in IdxRange[n]
  <2>1. CASE \E i \in DOMAIN stack : ids[i] = n /\ stack[i] # <<>>
    <3> DEFINE k == CHOOSE i \in DOMAIN stack : ids[i] = n
    <3>1. k \in DOMAIN stack /\ ids[k] = n
      BY <2>1
    <3>2. new[n] = stack[k]
      BY <1>1, <2>1
    <3> HIDE DEF k
    <3> QED BY <3>1, <3>2 DEF Placed
  <2>2. CASE ~\E i \in DOMAIN stack : ids[i] = n /\ stack[i] # <<>>
    BY <1>1, <2>2 DEF IdxsOK
  <2> QED BY <2>1, <2>2
<1> QED BY <1>1, <1>2 DEF IdxsOK, new

LEMMA ResetOK ==
  ASSUME NEW idxs, IdxsOK(idxs), NEW from_id, NEW to_id
  PROVE  IdxsOK(reset_indexes(idxs, from_id, to_id))
BY ZerosInRange DEF IdxsOK, reset_indexes

LEMMA SetIndexOK ==
  ASSUME NEW idxs, IdxsOK(idxs), NEW id \in Nodes, NEW dim \in DOMAIN Tree[id].dims,
         NEW val \in 0..Tree[id].dims[dim]-1
  PROVE  IdxsOK([idxs EXCEPT ![id][dim] = val])
<1> DEFINE new == [idxs EXCEPT ![id][dim] = val]
           at  == [idxs[id] EXCEPT ![dim] = val]
<1>1. /\ idxs[id] \in [DOMAIN Tree[id].dims -> Nat]
      /\ \A d \in DOMAIN Tree[id].dims : idxs[id][d] < Tree[id].dims[d]
  BY IdxRangeIs DEF IdxsOK
<1>2. val \in Nat /\ val < Tree[id].dims[dim]
  BY Dimensions
<1>3. at \in [DOMAIN Tree[id].dims -> Nat] /\ \A d \in DOMAIN Tree[id].dims : at[d] < Tree[id].dims[d]
  BY <1>1, <1>2
<1>4. at \in IdxRange[id]
  BY <1>3, IdxRangeIs
<1>5. new = [idxs EXCEPT ![id] = at]
  OBVIOUS
<1> HIDE DEF at, new
<1> QED BY <1>4, <1>5 DEF IdxsOK, new

LEMMA FirstNamedIn ==
  ASSUME NEW S, NEW ids \in Seq(S), NEW name
  PROVE  FirstNamed(ids, name) \in S \cup {NoNode}
<1> DEFINE hits == {i \in DOMAIN ids : Tree[ids[i]].name = name}
<1>1. hits \in SUBSET Nat /\ hits \subseteq 1..Len(ids)
  BY LenProperties
<1>2. FirstNamed(ids, name) = IF hits = {} THEN NoNode ELSE ids[Min(hits)]
  BY DEF FirstNamed
<1> HIDE DEF hits
<1>3. ASSUME hits # {} PROVE ids[Min(hits)] \in S
  <2>1. PICK m \in hits : \A k \in hits : m <= k
    BY <1>1, <1>3, LeastMember
  <2>2. Min(hits) \in hits
    BY <2>1 DEF Min
  <2>3. Min(hits) \in 1..Len(ids)
    BY <1>1, <2>2
  <2> QED BY <2>3, ElementOfSeq
<1> QED BY <1>2, <1>3

\* What a path from the URL leads to is a position.
PathOK(path) == path \in Seq(ToSet(path)) /\ \A s \in ToSet(path) : s.idxs \in Seq(Nat)

\* The nodes that parse_path goes through.
Walks(walk, path) ==
  \A i \in 1..Len(path) :
    walk[i] = IF i = 1 THEN FirstNamed(Roots, path[1].name)
              ELSE IF walk[i-1] = NoNode THEN NoNode
              ELSE get_child_by_name(walk[i-1], path[i].name)

Elsewhere == Nodes \cup {NoNode}

LEMMA WalkExists ==
  ASSUME NEW path, PathOK(path), path # <<>>
  PROVE  \E walk \in [1..Len(path) -> Elsewhere] :
           /\ Walks(walk, path)
           /\ parse_path(path) =
                IF walk[Len(path)] = NoNode THEN NoPosition
                ELSE [id    |-> walk[Len(path)],
                      stack |-> [i \in 1..Len(path) |-> Sanitize(walk[i], path[i].idxs)]]
<1> DEFINE n    == Len(path)
           D    == DOMAIN path
           P(f) == f = [i \in D |-> IF i = 1 THEN FirstNamed(Roots, path[1].name)
                                    ELSE IF f[i-1] = NoNode THEN NoNode
                                    ELSE get_child_by_name(f[i-1], path[i].name)]
           walk == CHOOSE f : P(f)
           End  == {1}
           pre  == [i \in D |-> i - 1]
           rank == [i \in D |-> i]
           base == [i \in D |-> FirstNamed(Roots, path[1].name)]
           F    == [p \in Elsewhere \X D |->
                      IF p[1] = NoNode THEN NoNode ELSE get_child_by_name(p[1], path[p[2]].name)]
<1>1. n \in Nat \ {0} /\ D = 1..n
  <2>1. path \in Seq(ToSet(path))
    BY DEF PathOK
  <2> QED BY <2>1, EmptySeq, LenProperties
<1>2. parse_path(path) =
        IF walk[n] = NoNode THEN NoPosition
        ELSE [id |-> walk[n], stack |-> [i \in D |-> Sanitize(walk[i], path[i].idxs)]]
  BY DEF parse_path, NoPath
<1> HIDE DEF n, D
<1>3. n \in Nat /\ rank \in [D -> 0..n]
  BY <1>1
<1>4. \A i \in D \ End : pre[i] \in D /\ rank[pre[i]] < rank[i]
  BY <1>1
<1>5. \A i \in D \cap End : base[i] \in Elsewhere
  <2>1. Roots \in Seq(Nodes)
    BY TreeAssumption
  <2>2. FirstNamed(Roots, path[1].name) \in Elsewhere
    BY <2>1, FirstNamedIn DEF Elsewhere
  <2> QED BY <2>2
<1>6. F \in [Elsewhere \X D -> Elsewhere]
  <2> SUFFICES ASSUME NEW id \in Elsewhere, id # NoNode, NEW i \in D
               PROVE  get_child_by_name(id, path[i].name) \in Elsewhere
    BY DEF Elsewhere
  <2>1. id \in Nodes
    BY DEF Elsewhere
  <2>2. Tree[id].children \in Seq({m \in Nodes : Tree[m].parent = id})
    BY <2>1, TreeAssumption
  <2>3. Tree[id].children \in Seq(Nodes)
    BY <2>2
  <2> QED BY <2>3, FirstNamedIn DEF get_child_by_name, Elsewhere
<1> HIDE DEF F, base, rank, pre, End
<1>7. \E f \in [D -> Elsewhere] : Solves(f, D, End, base, pre, F)
  BY <1>3, <1>4, <1>5, <1>6, Recursion
<1>8. PICK f \in [D -> Elsewhere] : Solves(f, D, End, base, pre, F)
  BY <1>7
<1>9. ASSUME NEW i \in D
      PROVE  f[i] = IF i = 1 THEN FirstNamed(Roots, path[1].name)
                    ELSE IF f[i-1] = NoNode THEN NoNode
                    ELSE get_child_by_name(f[i-1], path[i].name)
  <2>1. CASE i = 1
    BY <1>8, <2>1 DEF Solves, End, base
  <2>2. CASE i # 1
    <3>1. i \notin End /\ pre[i] = i - 1 /\ pre[i] \in D
      BY <1>4, <2>2 DEF End, pre
    <3>2. f[i] = F[<<f[i-1], i>>] /\ <<f[i-1], i>> \in Elsewhere \X D
      BY <1>8, <3>1 DEF Solves
    <3> QED BY <2>2, <3>2 DEF F
  <2> QED BY <2>1, <2>2
<1>10. P(f)
  BY <1>8, <1>9
<1>11. P(walk)
  BY <1>10
<1> HIDE DEF walk
<1>12. Walks(walk, path)
  BY <1>1, <1>11 DEF Walks, n
<1>13. walk \in [D -> Elsewhere]
  <2> DEFINE G == {i \in D : walk[i] \in Elsewhere}
  <2>1. ASSUME NEW i \in D, \A j \in D : rank[j] < rank[i] => j \in G PROVE i \in G
    <3>1. CASE i = 1
      <4>1. base[i] \in Elsewhere /\ base[i] = FirstNamed(Roots, path[1].name)
        BY <1>5, <3>1 DEF base, End
      <4>2. walk[i] = FirstNamed(Roots, path[1].name)
        BY <1>11, <3>1
      <4> QED BY <4>1, <4>2
    <3>2. CASE i # 1
      <4>1. i - 1 \in D /\ rank[i-1] < rank[i]
        BY <1>4, <3>2 DEF pre, End
      <4>2. walk[i-1] \in Elsewhere
        BY <2>1, <4>1
      <4>3. F[<<walk[i-1], i>>] \in Elsewhere
        BY <1>6, <4>2
      <4>4. walk[i] = IF walk[i-1] = NoNode THEN NoNode
                      ELSE get_child_by_name(walk[i-1], path[i].name)
        BY <1>11, <3>2
      <4> QED BY <4>2, <4>3, <4>4 DEF F
    <3> QED BY <3>1, <3>2
  <2>2. rank \in [D -> Nat]
    BY <1>3
  <2> HIDE DEF G
  <2>3. D \subseteq G
    BY <2>1, <2>2, RankInduction
  <2>4. walk = [i \in D |-> walk[i]]
    BY <1>11
  <2> QED BY <2>3, <2>4 DEF G
<1> QED BY <1>1, <1>2, <1>12, <1>13 DEF n

\* A node that is found by its name below another one is a child of it.
LEMMA ChildNamed ==
  ASSUME NEW id \in Nodes, NEW name, get_child_by_name(id, name) # NoNode
  PROVE  LET c == get_child_by_name(id, name)
         IN  /\ c \in Nodes /\ ~IsRoot(c) /\ Tree[c].parent = id
<1>1. Tree[id].children \in Seq({m \in Nodes : Tree[m].parent = id})
  BY TreeAssumption
<1>2. get_child_by_name(id, name) \in {m \in Nodes : Tree[m].parent = id}
  BY <1>1, FirstNamedIn DEF get_child_by_name
<1>3. id # NoNode
  BY NodeIds DEF NoNode
<1> QED BY <1>2, <1>3 DEF IsRoot

LEMMA RootNamed ==
  ASSUME NEW name, FirstNamed(Roots, name) # NoNode
  PROVE  FirstNamed(Roots, name) \in Nodes /\ IsRoot(FirstNamed(Roots, name))
<1>1. Roots \in Seq({n \in Nodes : Tree[n].parent = NoNode})
  BY TreeAssumption
<1>2. FirstNamed(Roots, name) \in {n \in Nodes : Tree[n].parent = NoNode}
  BY <1>1, FirstNamedIn
<1> QED BY <1>2 DEF IsRoot

\* The nodes parse_path goes through are those on the path to the last one.
WalkedTo(walk, i) ==
  walk[i] # NoNode =>
    /\ walk[i] \in Nodes /\ Len(get_ids_in_path[walk[i]]) = i
    /\ \A j \in 1..i : get_ids_in_path[walk[i]][j] = walk[j]

LEMMA WalkIsPath ==
  ASSUME NEW path, PathOK(path), NEW walk \in [1..Len(path) -> Elsewhere], Walks(walk, path)
  PROVE  \A i \in 1..Len(path) : WalkedTo(walk, i)
<1> DEFINE D    == 1..Len(path)
           rank == [i \in D |-> i]
           G    == {i \in D : WalkedTo(walk, i)}
<1>1. Len(path) \in Nat
  BY LenProperties DEF PathOK
<1>2. rank \in [D -> Nat]
  BY <1>1
<1>3. ASSUME NEW i \in D, \A j \in D : rank[j] < rank[i] => j \in G PROVE i \in G
  <2> SUFFICES ASSUME walk[i] # NoNode
               PROVE  /\ walk[i] \in Nodes /\ Len(get_ids_in_path[walk[i]]) = i
                      /\ \A j \in 1..i : get_ids_in_path[walk[i]][j] = walk[j]
    BY DEF WalkedTo
  <2>1. CASE i = 1
    <3>1. walk[1] = FirstNamed(Roots, path[1].name)
      BY <2>1 DEF Walks
    <3>2. walk[1] \in Nodes /\ IsRoot(walk[1])
      BY <2>1, <3>1, RootNamed
    <3>3. get_ids_in_path[walk[1]] = <<walk[1]>>
      BY <3>2, RootPath
    <3> QED BY <2>1, <3>2, <3>3
  <2>2. CASE i # 1
    <3> DEFINE m == walk[i-1]
               c == walk[i]
               q == get_ids_in_path[m]
               p == get_ids_in_path[c]
    <3>0. i \in Nat /\ i - 1 \in D /\ rank[i-1] < rank[i]
      BY <1>1, <2>2
    <3>1. walk[i] = IF walk[i-1] = NoNode THEN NoNode
                    ELSE get_child_by_name(walk[i-1], path[i].name)
      BY <2>2 DEF Walks
    <3>2. m # NoNode /\ c = get_child_by_name(m, path[i].name)
      BY <3>1
    <3>3. i - 1 \in G
      BY <1>3, <3>0
    <3>4. m \in Nodes /\ Len(q) = i - 1 /\ \A j \in 1..i-1 : q[j] = walk[j]
      BY <3>2, <3>3 DEF WalkedTo
    <3>5. c \in Nodes /\ ~IsRoot(c) /\ Tree[c].parent = m
      BY <3>2, <3>4, ChildNamed
    <3>6. Len(p) = Len(q) + 1 /\ p[Len(q) + 1] = c /\ \A j \in 1..Len(q) : p[j] = q[j]
      BY <3>5, ChildPath
    <3> HIDE DEF p, q, m
    <3>7. Len(p) = i /\ p[i] = c
      BY <3>0, <3>4, <3>6
    <3>8. ASSUME NEW j \in 1..i PROVE p[j] = walk[j]
      <4>1. CASE j = i
        BY <3>7, <4>1
      <4>2. CASE j # i
        <5>1. j \in 1..i-1
          BY <3>0, <4>2
        <5> QED BY <3>4, <3>6, <5>1
      <4> QED BY <4>1, <4>2
    <3> QED BY <3>5, <3>7, <3>8 DEF p
  <2> QED BY <2>1, <2>2
<1> HIDE DEF rank, G, D
<1>4. D \subseteq G
  BY <1>2, <1>3, RankInduction
<1> QED BY <1>4 DEF G, D

LEMMA ParsePlaced ==
  ASSUME NEW path, PathOK(path), parse_path(path) # NoPosition
  PROVE  Placed(parse_path(path).id, parse_path(path).stack)
<1>1. path # <<>>
  BY DEF parse_path, NoPath
<1> DEFINE n == Len(path)
<1>2. PICK walk \in [1..n -> Elsewhere] :
        /\ Walks(walk, path)
        /\ parse_path(path) =
             IF walk[n] = NoNode THEN NoPosition
             ELSE [id    |-> walk[n],
                   stack |-> [i \in 1..n |-> Sanitize(walk[i], path[i].idxs)]]
  BY <1>1, WalkExists
<1>3. /\ walk[n] # NoNode /\ parse_path(path).id = walk[n]
      /\ parse_path(path).stack = [i \in 1..n |-> Sanitize(walk[i], path[i].idxs)]
  BY <1>2
<1>4. \A i \in 1..n : WalkedTo(walk, i)
  BY <1>2, WalkIsPath
<1>5. path \in Seq(ToSet(path)) /\ n \in Nat \ {0}
  BY <1>1, EmptySeq, LenProperties DEF PathOK
<1> DEFINE p == get_ids_in_path[walk[n]]
<1>6. walk[n] \in Nodes /\ Len(p) = n /\ \A i \in 1..n : p[i] = walk[i]
  BY <1>3, <1>4, <1>5 DEF WalkedTo
<1>7. p \in Seq(Nodes)
  BY <1>6, PathOfIds
<1> HIDE DEF p
<1>8. ASSUME NEW i \in 1..n PROVE Sanitize(walk[i], path[i].idxs) \in IdxRange[p[i]]
  <2>1. walk[i] \in Nodes
    BY <1>6, <1>7, ElementOfSeq
  <2>2. path[i].idxs \in Seq(Nat)
    <3>1. path[i] \in ToSet(path)
      BY <1>5, ElementOfSeq
    <3> QED BY <3>1 DEF PathOK
  <2> QED BY <1>6, <2>1, <2>2, SanitizeInRange
<1> HIDE DEF n
<1> QED BY <1>3, <1>6, <1>8 DEF Placed, p

LEMMA Extents ==
  ASSUME NEW id \in Nodes
  PROVE  /\ Tree[id].offset \in Nat /\ Tree[id].size \in Nat
         /\ is_array(id) => Tree[id].stride \in Nat \ {0}
<1>1. /\ Tree[id].offset \in Nat /\ Tree[id].size \in Nat /\ Tree[id].stride \in Nat
      /\ (Tree[id].dims # <<>> => Tree[id].stride > 0)
  BY TreeAssumption, Zenon
<1>2. \A n \in Nat : n > 0 => n \in Nat \ {0}
  OBVIOUS
<1> QED BY <1>1, <1>2, Zenon DEF is_array

\* One step of the search for an address: the address inside the element of the node, its
\* indexes, the children that hold the address, and what the first of them makes of it.
Inner(p) ==
  IF is_array(p[1]) THEN (p[2] - Tree[p[1]].offset) % Tree[p[1]].stride
  ELSE p[2] - Tree[p[1]].offset
Here(p) ==
  IF is_array(p[1])
  THEN Unflatten(Tree[p[1]].dims, (p[2] - Tree[p[1]].offset) \div Tree[p[1]].stride) ELSE <<>>
Hits(p) == {i \in DOMAIN Tree[p[1]].children : Contains_(Tree[p[1]].children[i], Inner(p))}
Child(p) == <<Tree[p[1]].children[Min(Hits(p))], Inner(p)>>
Joined(p, below) ==
  IF is_array(p[1]) /\ Inner(p) >= Tree[p[1]].size THEN NoPosition
  ELSE IF below = NoPosition THEN [id |-> p[1], stack |-> <<Here(p)>>]
  ELSE [below EXCEPT !.stack = <<Here(p)>> \o @]
DescendStep(f, p) == Joined(p, IF Hits(p) = {} THEN NoPosition ELSE f[Child(p)])

Points == Nodes \X Nat
AllIdxs == UNION {IdxRange[n] : n \in Nodes}
Positions == [id : Elsewhere, stack : Seq(AllIdxs)]

LEMMA HereInRange == ASSUME NEW p \in Points PROVE Here(p) \in IdxRange[p[1]]
<1> DEFINE id == p[1]
<1>1. id \in Nodes /\ p[2] \in Nat
  BY DEF Points
<1>2. Tree[id].offset \in Nat /\ (is_array(id) => Tree[id].stride \in Nat \ {0})
  BY <1>1, Extents
<1>3. CASE is_array(id)
  <2> DEFINE flat == (p[2] - Tree[id].offset) \div Tree[id].stride
  <2>1. flat \in Int
    BY <1>1, <1>2, <1>3
  <2>2. Here(p) = Unflatten(Tree[id].dims, flat)
    BY <1>3 DEF Here
  <2> HIDE DEF flat
  <2> QED BY <1>1, <2>1, <2>2, UnflattenInRange
<1>4. CASE ~is_array(id)
  <2>1. Tree[id].dims = <<>> /\ Here(p) = <<>>
    BY <1>4 DEF is_array, Here
  <2>2. <<>> \in [DOMAIN <<>> -> Nat] /\ \A d \in DOMAIN <<>> : FALSE
    OBVIOUS
  <2> QED BY <1>1, <2>1, <2>2, IdxRangeIs
<1> QED BY <1>3, <1>4

LEMMA ChildIsBelow ==
  ASSUME NEW p \in Points, Hits(p) # {}
  PROVE  /\ Child(p) \in Points /\ Tree[Child(p)[1]].parent = p[1]
         /\ ~IsRoot(Child(p)[1]) /\ p[1] < Child(p)[1]
<1> DEFINE id   == p[1]
           kids == Tree[id].children
           S    == {m \in Nodes : Tree[m].parent = id}
           k    == Min(Hits(p))
<1>1. id \in Nodes /\ p[2] \in Nat
  BY DEF Points
<1>2. kids \in Seq(S)
  BY <1>1, TreeAssumption
<1>3. Hits(p) \in SUBSET Nat /\ Hits(p) \subseteq 1..Len(kids)
  BY <1>2, LenProperties DEF Hits
<1>4. k \in Hits(p)
  <2>1. PICK m \in Hits(p) : \A j \in Hits(p) : m <= j
    BY <1>3, LeastMember
  <2> QED BY <2>1 DEF Min
<1>5. kids[k] \in S /\ Contains_(kids[k], Inner(p)) /\ Child(p) = <<kids[k], Inner(p)>>
  <2>1. k \in 1..Len(kids)
    BY <1>3, <1>4
  <2>2. kids[k] \in S
    BY <1>2, <2>1, ElementOfSeq
  <2> QED BY <1>4, <2>2 DEF Hits, Child
<1> HIDE DEF k, kids
<1>6. Inner(p) \in Int
  <2>1. Tree[id].offset \in Nat /\ (is_array(id) => Tree[id].stride \in Nat \ {0})
    BY <1>1, Extents
  <2>2. p[2] - Tree[id].offset \in Int
    BY <1>1, <2>1
  <2>3. \A x \in Int : \A n \in Nat \ {0} : x % n \in Int
    OBVIOUS
  <2> QED BY <2>1, <2>2, <2>3 DEF Inner
<1>7. Tree[kids[k]].offset \in Nat
  BY <1>5, Extents
<1>8. Inner(p) \in Nat
  BY <1>5, <1>6, <1>7 DEF Contains_
<1>9. kids[k] \in Nodes /\ Tree[kids[k]].parent = id /\ id # NoNode
  BY <1>1, <1>5, NodeIds DEF NoNode
<1>10. id < kids[k]
  BY <1>9, TreeAssumption
<1> QED BY <1>5, <1>8, <1>9, <1>10 DEF Points, IsRoot

LEMMA JoinedIn ==
  ASSUME NEW p \in Points, NEW below \in Positions PROVE Joined(p, below) \in Positions
<1>1. Here(p) \in AllIdxs /\ p[1] \in Nodes
  BY HereInRange DEF AllIdxs, Points
<1>2. NoPosition \in Positions
  BY DEF Positions, NoPosition, Elsewhere
<1> DEFINE S == AllIdxs
           s == <<Here(p)>>
<1>3. s \in Seq(S)
  BY <1>1
<1>4. below.stack \in Seq(S)
  BY DEF Positions
<1> HIDE DEF S, s
<1>5. s \o below.stack \in Seq(S)
  BY <1>3, <1>4, ConcatProperties
<1>6. [id |-> p[1], stack |-> s] \in Positions
  BY <1>1, <1>3 DEF Positions, Elsewhere, S
<1>7. [below EXCEPT !.stack = s \o @] \in Positions
  BY <1>5 DEF Positions, S
<1> QED BY <1>2, <1>6, <1>7 DEF Joined, s

LEMMA DescendSteps ==
  /\ \A p \in Points : Descend[p] \in Positions
  /\ \A p \in Points : Descend[p] = DescendStep(Descend, p)
<1> DEFINE A    == Positions
           P(f) == f = [p \in Points |-> DescendStep(f, p)]
           N    == Cardinality(Nodes)
           End  == {p \in Points : Hits(p) = {}}
           pre  == [p \in Points |-> Child(p)]
           rank == [p \in Points |-> N - p[1]]
           base == [p \in Points |-> Joined(p, NoPosition)]
           F    == [x \in A \X Points |-> Joined(x[2], x[1])]
<1>1. Descend = CHOOSE f : P(f)
  BY DEF Descend, DescendStep, Joined, Child, Hits, Here, Inner, Points
<1>2. N \in Nat /\ \A n \in Nodes : n \in 0..N
  BY NodeIds
<1>3. rank \in [Points -> 0..N]
  <2>1. \A p \in Points : N - p[1] \in 0..N
    BY <1>2 DEF Points
  <2> QED BY <2>1
<1>4. \A p \in Points \ End : pre[p] \in Points /\ rank[pre[p]] < rank[p]
  <2> SUFFICES ASSUME NEW p \in Points, Hits(p) # {}
               PROVE  Child(p) \in Points /\ N - Child(p)[1] < N - p[1]
    OBVIOUS
  <2>1. Child(p) \in Points /\ p[1] < Child(p)[1]
    BY ChildIsBelow
  <2>2. p[1] \in 0..N /\ Child(p)[1] \in 0..N
    BY <1>2, <2>1 DEF Points
  <2> QED BY <1>2, <2>1, <2>2
<1>a. NoPosition \in A
  BY DEF Positions, NoPosition, Elsewhere
<1>5. \A p \in Points \cap End : base[p] \in A
  BY <1>a, JoinedIn
<1>6. F \in [A \X Points -> A]
  BY JoinedIn
<1> HIDE DEF A, N, End, pre, rank, base, F
<1>7. \E f \in [Points -> A] : Solves(f, Points, End, base, pre, F)
  BY <1>2, <1>3, <1>4, <1>5, <1>6, Recursion
<1>8. PICK f \in [Points -> A] : Solves(f, Points, End, base, pre, F)
  BY <1>7
<1>9. ASSUME NEW p \in Points PROVE f[p] = DescendStep(f, p)
  <2>1. CASE Hits(p) = {}
    BY <1>8, <2>1 DEF Solves, End, base, DescendStep
  <2>2. CASE Hits(p) # {}
    <3>1. f[p] = F[<<f[pre[p]], p>>] /\ <<f[pre[p]], p>> \in A \X Points
      BY <1>4, <1>8, <2>2 DEF Solves, End
    <3>2. F[<<f[pre[p]], p>>] = Joined(p, f[pre[p]])
      BY <3>1 DEF F
    <3> QED BY <2>2, <3>1, <3>2 DEF DescendStep, pre
  <2> QED BY <2>1, <2>2
<1>10. P(f)
  BY <1>8, <1>9
<1>11. P(Descend)
  BY <1>1, <1>10
<1> HIDE DEF P
<1>12. \A p \in Points : Descend[p] = DescendStep(Descend, p)
  BY <1>11 DEF P
<1> DEFINE G == {p \in Points : Descend[p] \in A}
<1>13. ASSUME NEW p \in Points, \A q \in Points : rank[q] < rank[p] => q \in G PROVE p \in G
  <2>1. CASE Hits(p) = {}
    <3>1. Descend[p] = Joined(p, NoPosition)
      BY <1>12, <2>1 DEF DescendStep
    <3> QED BY <1>a, <3>1, JoinedIn DEF A
  <2>2. CASE Hits(p) # {}
    <3>1. Child(p) \in Points /\ rank[Child(p)] < rank[p]
      BY <1>4, <2>2 DEF End, pre
    <3>2. Descend[Child(p)] \in A
      BY <1>13, <3>1
    <3>3. Descend[p] = Joined(p, Descend[Child(p)])
      BY <1>12, <2>2 DEF DescendStep
    <3> QED BY <3>2, <3>3, JoinedIn DEF A
  <2> QED BY <2>1, <2>2
<1>14. rank \in [Points -> Nat]
  BY <1>2, <1>3
<1> HIDE DEF G
<1>15. Points \subseteq G
  BY <1>13, <1>14, RankInduction
<1> QED BY <1>12, <1>15 DEF G, A

\* What is found below a node is on a path through the node; there are indexes for the node
\* and for those below it on the path.
FoundBelow(n, pos) ==
  pos # NoPosition =>
    LET d == Len(get_ids_in_path[n])
        q == get_ids_in_path[pos.id]
    IN  /\ pos.id \in Nodes /\ d <= Len(q) /\ q[d] = n
        /\ Len(pos.stack) = Len(q) - d + 1
        /\ \A i \in 1..Len(pos.stack) : pos.stack[i] \in IdxRange[q[d + i - 1]]

LEMMA JoinedBelow ==
  ASSUME NEW p \in Points, NEW below \in Positions,
         below = NoPosition \/ \E c \in Nodes : /\ ~IsRoot(c) /\ Tree[c].parent = p[1]
                                                /\ FoundBelow(c, below)
  PROVE  FoundBelow(p[1], Joined(p, below))
<1> DEFINE n == p[1]
           d == Len(get_ids_in_path[n])
<1>1. n \in Nodes /\ d \in Nat \ {0} /\ get_ids_in_path[n][d] = n
  BY PathShape DEF PathBegins, Points
<1>2. Here(p) \in IdxRange[n]
  BY HereInRange
<1>3. CASE Joined(p, below) = NoPosition
  BY <1>3 DEF FoundBelow
<1>4. CASE Joined(p, below) # NoPosition /\ below = NoPosition
  <2> DEFINE s == <<Here(p)>>
  <2>1. Joined(p, below) = [id |-> n, stack |-> s]
    BY <1>4 DEF Joined
  <2>2. Len(s) = 1 /\ s[1] = Here(p)
    OBVIOUS
  <2> HIDE DEF s
  <2>3. \A i \in 1..Len(s) : s[i] \in IdxRange[get_ids_in_path[n][d + i - 1]]
    <3> SUFFICES ASSUME NEW i \in 1..Len(s)
                 PROVE  s[i] \in IdxRange[get_ids_in_path[n][d + i - 1]]
      OBVIOUS
    <3>1. i = 1 /\ d + i - 1 = d
      BY <1>1, <2>2
    <3> QED BY <1>1, <1>2, <2>2, <3>1
  <2>4. Len(s) = d - d + 1 /\ d <= d
    BY <1>1, <2>2
  <2> DEFINE pos == Joined(p, below)
  <2>5. pos.id = n /\ pos.stack = s
    BY <2>1
  <2> HIDE DEF pos, n
  <2>6. FoundBelow(n, pos)
    BY <1>1, <2>3, <2>4, <2>5 DEF FoundBelow
  <2> QED BY <2>6 DEF n, pos
<1>5. CASE Joined(p, below) # NoPosition /\ below # NoPosition
  <2>1. PICK c \in Nodes : ~IsRoot(c) /\ Tree[c].parent = n /\ FoundBelow(c, below)
    BY <1>5
  <2> DEFINE s   == <<Here(p)>>
             t   == below.stack
             q   == get_ids_in_path[below.id]
             pos == Joined(p, below)
  <2>2. Len(get_ids_in_path[c]) = d + 1
    BY <2>1, ChildPath
  <2>3. /\ below.id \in Nodes /\ d + 1 <= Len(q) /\ q[d + 1] = c
        /\ Len(t) = Len(q) - (d + 1) + 1
        /\ \A i \in 1..Len(t) : t[i] \in IdxRange[q[d + 1 + i - 1]]
    BY <1>5, <2>1, <2>2 DEF FoundBelow
  <2>4. Len(q) \in Nat
    BY <2>3, PathShape DEF PathBegins
  <2>5. q[d] = n
    <3>1. d \in 1..Len(q)-1
      BY <1>1, <2>3, <2>4
    <3>2. Tree[q[d + 1]].parent = q[d]
      BY <2>3, <3>1, PathParents
    <3> QED BY <2>1, <2>3, <3>2
  <2>6. t \in Seq(AllIdxs) /\ s \in Seq(AllIdxs) /\ Len(s) = 1 /\ s[1] = Here(p)
    BY <1>1, <1>2 DEF Positions, AllIdxs
  <2>7. /\ pos = [below EXCEPT !.stack = s \o @]
        /\ pos.id = below.id /\ pos.stack = s \o t
    <3>1. pos = [below EXCEPT !.stack = s \o @]
      BY <1>5 DEF Joined
    <3> HIDE DEF pos, s
    <3> QED BY <3>1 DEF Positions
  <2> HIDE DEF s, t, q, pos, n, d
  <2>8. /\ s \o t \in Seq(AllIdxs) /\ Len(s \o t) = Len(s) + Len(t)
        /\ \A i \in 1..Len(s) + Len(t) :
             (s \o t)[i] = IF i <= Len(s) THEN s[i] ELSE t[i - Len(s)]
    BY <2>6, ConcatProperties, Zenon
  <2>9. Len(t) \in Nat /\ Len(s \o t) = Len(q) - d + 1
    BY <1>1, <2>3, <2>4, <2>6, <2>8
  <2>10. ASSUME NEW i \in 1..Len(s \o t) PROVE (s \o t)[i] \in IdxRange[q[d + i - 1]]
    <3>1. CASE i = 1
      <4>1. (s \o t)[1] = s[1] /\ d + i - 1 = d
        BY <1>1, <2>6, <2>8, <2>9, <3>1
      <4> QED BY <1>2, <2>5, <2>6, <3>1, <4>1 DEF n
    <3>2. CASE i # 1
      <4>1. i - 1 \in 1..Len(t) /\ i \in Nat /\ i \in 1..Len(s) + Len(t) /\ ~(i <= Len(s))
        BY <2>6, <2>8, <2>9, <3>2
      <4>2. (s \o t)[i] = t[i - 1]
        BY <2>6, <2>8, <4>1
      <4>3. d + 1 + (i - 1) - 1 = d + i - 1
        BY <1>1, <4>1
      <4>4. t[i - 1] \in IdxRange[q[d + 1 + (i - 1) - 1]]
        BY <2>3, <4>1
      <4> QED BY <4>2, <4>3, <4>4
    <3> QED BY <3>1, <3>2
  <2>11. d <= Len(q)
    BY <1>1, <2>3, <2>4
  <2>12. /\ pos.id \in Nodes /\ d <= Len(q) /\ q[d] = n
         /\ Len(pos.stack) = Len(q) - d + 1
         /\ \A i \in 1..Len(pos.stack) : pos.stack[i] \in IdxRange[q[d + i - 1]]
    BY <2>3, <2>5, <2>7, <2>9, <2>10, <2>11
  <2>13. q = get_ids_in_path[pos.id] /\ d = Len(get_ids_in_path[n])
    BY <2>7 DEF q, d
  <2>14. FoundBelow(n, pos)
    BY <2>12, <2>13 DEF FoundBelow
  <2> QED BY <2>14 DEF n, pos
<1> QED BY <1>3, <1>4, <1>5

LEMMA DescendBelow == \A p \in Points : FoundBelow(p[1], Descend[p])
<1> DEFINE N    == Cardinality(Nodes)
           rank == [p \in Points |-> N - p[1]]
           G    == {p \in Points : FoundBelow(p[1], Descend[p])}
<1>1. N \in Nat /\ \A p \in Points : p[1] \in 0..N
  BY NodeIds DEF Points
<1>2. rank \in [Points -> Nat]
  <2>1. \A p \in Points : N - p[1] \in Nat
    BY <1>1
  <2> QED BY <2>1
<1>3. ASSUME NEW p \in Points, \A x \in Points : rank[x] < rank[p] => x \in G PROVE p \in G
  <2>1. CASE Hits(p) = {}
    <3>1. Descend[p] = Joined(p, NoPosition)
      BY <2>1, DescendSteps DEF DescendStep
    <3>2. NoPosition \in Positions
      BY DEF Positions, NoPosition, Elsewhere
    <3> QED BY <3>1, <3>2, JoinedBelow
  <2>2. CASE Hits(p) # {}
    <3> DEFINE c == Child(p)
    <3>1. Descend[p] = Joined(p, Descend[c])
      BY <2>2, DescendSteps DEF DescendStep
    <3>2. c \in Points /\ Tree[c[1]].parent = p[1] /\ ~IsRoot(c[1]) /\ p[1] < c[1]
      BY <2>2, ChildIsBelow
    <3>3. rank[c] < rank[p]
      <4>1. p[1] \in 0..N /\ c[1] \in 0..N
        BY <1>1, <3>2
      <4>2. N - c[1] < N - p[1]
        BY <1>1, <3>2, <4>1
      <4> QED BY <3>2, <4>2
    <3>4. c \in G
      BY <1>3, <3>2, <3>3
    <3> HIDE DEF c
    <3>5. FoundBelow(c[1], Descend[c]) /\ Descend[c] \in Positions /\ c[1] \in Nodes
      BY <3>2, <3>4, DescendSteps DEF Points
    <3> QED BY <3>1, <3>2, <3>5, JoinedBelow
  <2> QED BY <2>1, <2>2
<1> HIDE DEF rank, G
<1>4. Points \subseteq G
  BY <1>2, <1>3, RankInduction
<1> QED BY <1>4 DEF G

\* What the search for an address finds is a position.
LEMMA LookupPlaced ==
  ASSUME NEW addr \in Int, NEW root \in Nodes, IsRoot(root),
         lookup_by_address(addr, root) # NoPosition
  PROVE  LET pos == lookup_by_address(addr, root) IN Placed(pos.id, pos.stack)
<1> DEFINE pos == lookup_by_address(addr, root)
           p   == <<root, addr>>
<1>1. Contains_(root, addr) /\ pos = Descend[p]
  BY DEF lookup_by_address
<1>2. addr \in Nat
  <2>1. Tree[root].offset \in Nat /\ addr >= Tree[root].offset
    BY <1>1, Extents DEF Contains_
  <2> QED BY <2>1
<1>3. p \in Points /\ p[1] = root
  BY <1>2 DEF Points
<1>4. FoundBelow(root, pos) /\ pos \in Positions
  BY <1>1, <1>3, DescendBelow, DescendSteps
<1>5. Len(get_ids_in_path[root]) = 1
  <2>1. get_ids_in_path[root] = <<root>>
    BY RootPath
  <2> QED BY <2>1
<1> DEFINE q == get_ids_in_path[pos.id]
<1> HIDE DEF pos, p
<1>6. /\ pos.id \in Nodes /\ Len(pos.stack) = Len(q) - 1 + 1
      /\ \A i \in 1..Len(pos.stack) : pos.stack[i] \in IdxRange[q[1 + i - 1]]
  <2>1. pos # NoPosition
    BY DEF pos
  <2> QED BY <1>4, <1>5, <2>1 DEF FoundBelow
<1>7. Len(q) \in Nat
  BY <1>6, PathShape DEF PathBegins
<1>8. DOMAIN pos.stack = 1..Len(pos.stack)
  BY <1>4, LenProperties DEF Positions
<1> HIDE DEF q
<1>9. Len(pos.stack) = Len(q) /\ \A i \in 1..Len(q) : 1 + i - 1 = i
  BY <1>6, <1>7
<1>10. \A i \in 1..Len(q) : pos.stack[i] \in IdxRange[q[i]]
  BY <1>6, <1>9
<1>11. Placed(pos.id, pos.stack)
  BY <1>6, <1>8, <1>9, <1>10 DEF Placed, q
<1> QED BY <1>11 DEF pos

-----------------------------------------------------------------------------
(* Words of a query and the places in the index.                           *)

LEMMA QueryWordsTyped ==
  ASSUME NEW T, NEW words \in Seq(Seq(T)) PROVE get_query_words(words) \in Seq(Seq(T))
<1> DEFINE parts(w) == IF Len(w) = 1 THEN <<w>> ELSE <<w>> \o [i \in DOMAIN w |-> <<w[i]>>]
           seqs == [i \in DOMAIN words |-> parts(words[i])]
           all  == FlattenSeq(seqs)
           D    == DOMAIN all
           A    == Seq(Seq(T))
           op(kept, w) == IF w \in {<<t>> : t \in Short} \cup ToSet(kept) THEN kept
                          ELSE Append(kept, w)
           P(h) == h = [s \in SUBSET D |-> IF s = {} THEN <<>>
                          ELSE LET x == Max(s) IN op(h[s \ {x}], all[x])]
           it   == CHOOSE h : P(h)
           F    == [p \in A \X D |-> op(p[1], all[p[2]])]
<1>1. get_query_words(words) = it[D]
  BY DEF get_query_words, FoldLeft, MapThenFoldSet
<1>2. all \in A
  <2>1. ASSUME NEW w \in Seq(T) PROVE parts(w) \in A
    <3> DEFINE R == Seq(T)
               s == <<w>>
               t == [i \in DOMAIN w |-> <<w[i]>>]
    <3>1. s \in Seq(R)
      OBVIOUS
    <3>2. t \in Seq(R)
      <4>1. \A i \in DOMAIN w : <<w[i]>> \in R
        BY LenProperties, ElementOfSeq
      <4>2. DOMAIN w = 1..Len(w) /\ Len(w) \in Nat
        BY LenProperties
      <4> HIDE DEF R
      <4> QED BY <4>1, <4>2
    <3> HIDE DEF R, s, t
    <3>3. s \o t \in Seq(R)
      BY <3>1, <3>2, ConcatProperties
    <3> QED BY <3>1, <3>3 DEF R, s, t
  <2>2. DOMAIN words = 1..Len(words) /\ Len(words) \in Nat /\ \A i \in DOMAIN words : words[i] \in Seq(T)
    BY LenProperties, ElementOfSeq
  <2> HIDE DEF parts, A
  <2>3. seqs \in Seq(A)
    BY <2>1, <2>2
  <2> HIDE DEF seqs
  <2> QED BY <2>3, FlattenTyped DEF A
<1> HIDE DEF all, seqs, parts
<1>3. D \in SUBSET Nat /\ IsFiniteSet(D) /\ \A i \in D : all[i] \in Seq(T)
  BY <1>2, Interval, ElementOfSeq, LenProperties
<1> HIDE DEF D
<1>4. \A a \in A : \A x \in D : op(a, all[x]) \in A
  BY <1>3, AppendProperties
<1>5. <<>> \in A
  OBVIOUS
<1> HIDE DEF op, A
<1>6. F \in [A \X D -> A]
  BY <1>4
<1> HIDE DEF F
<1>7. PICK k \in [SUBSET D -> A] : FoldOf(D, F, <<>>, k)
  BY <1>3, <1>5, <1>6, FoldRecursion
<1>8. ASSUME NEW s \in SUBSET D, s # {} PROVE Max(s) \in D /\ s \ {Max(s)} \in SUBSET D
  BY <1>3, <1>8, FS_Subset, GreatestMember
<1>9. P(k)
  <2> SUFFICES ASSUME NEW s \in SUBSET D, s # {}
               PROVE  FoldStep(F, <<>>, k, s) = op(k[s \ {Max(s)}], all[Max(s)])
    BY <1>7 DEF FoldOf, FoldStep
  <2>1. <<k[s \ {Max(s)}], Max(s)>> \in A \X D
    BY <1>7, <1>8
  <2> QED BY <2>1 DEF FoldStep, F
<1>10. P(it)
  BY <1>9
<1> HIDE DEF it
<1>11. \A s \in SUBSET D : it[s] \in A
  <2>1. it[{}] \in A
    BY <1>5, <1>10
  <2>2. ASSUME NEW s \in SUBSET D, s # {} /\ it[s \ {Max(s)}] \in A PROVE it[s] \in A
    <3>1. it[s] = op(it[s \ {Max(s)}], all[Max(s)])
      BY <1>10, <2>2
    <3>2. Max(s) \in D
      BY <1>8, <2>2
    <3> QED BY <1>4, <2>2, <3>1, <3>2
  <2> QED BY <1>3, <2>1, <2>2, FoldStays
<1> QED BY <1>1, <1>11 DEF A

LEMMA IndexedTyped ==
  ASSUME NEW T, NEW query, query.words \in Seq(Seq(T)) PROVE Indexed(query) \in Seq(Seq(T))
<1> DEFINE all  == get_query_words(query.words)
           D    == DOMAIN all
           A    == Seq(Seq(T))
           op(kept, w) == IF Bucket(w) = NoBucket THEN kept ELSE Append(kept, w)
           P(h) == h = [s \in SUBSET D |-> IF s = {} THEN <<>>
                          ELSE LET x == Max(s) IN op(h[s \ {x}], all[x])]
           it   == CHOOSE h : P(h)
           F    == [p \in A \X D |-> op(p[1], all[p[2]])]
<1>1. Indexed(query) = it[D]
  BY DEF Indexed, FoldLeft, MapThenFoldSet
<1>2. all \in A
  BY QueryWordsTyped
<1> HIDE DEF all
<1>3. D \in SUBSET Nat /\ IsFiniteSet(D) /\ \A i \in D : all[i] \in Seq(T)
  BY <1>2, Interval, ElementOfSeq, LenProperties
<1> HIDE DEF D
<1>4. \A a \in A : \A x \in D : op(a, all[x]) \in A
  BY <1>3, AppendProperties
<1>5. <<>> \in A
  OBVIOUS
<1> HIDE DEF op, A
<1>6. F \in [A \X D -> A]
  BY <1>4
<1> HIDE DEF F
<1>7. PICK k \in [SUBSET D -> A] : FoldOf(D, F, <<>>, k)
  BY <1>3, <1>5, <1>6, FoldRecursion
<1>8. ASSUME NEW s \in SUBSET D, s # {} PROVE Max(s) \in D /\ s \ {Max(s)} \in SUBSET D
  BY <1>3, <1>8, FS_Subset, GreatestMember
<1>9. P(k)
  <2> SUFFICES ASSUME NEW s \in SUBSET D, s # {}
               PROVE  FoldStep(F, <<>>, k, s) = op(k[s \ {Max(s)}], all[Max(s)])
    BY <1>7 DEF FoldOf, FoldStep
  <2>1. <<k[s \ {Max(s)}], Max(s)>> \in A \X D
    BY <1>7, <1>8
  <2> QED BY <2>1 DEF FoldStep, F
<1>10. P(it)
  BY <1>9
<1> HIDE DEF it
<1>11. \A s \in SUBSET D : it[s] \in A
  <2>1. it[{}] \in A
    BY <1>5, <1>10
  <2>2. ASSUME NEW s \in SUBSET D, s # {} /\ it[s \ {Max(s)}] \in A PROVE it[s] \in A
    <3>1. it[s] = op(it[s \ {Max(s)}], all[Max(s)])
      BY <1>10, <2>2
    <3>2. Max(s) \in D
      BY <1>8, <2>2
    <3> QED BY <1>4, <2>2, <3>1, <3>2
  <2> QED BY <1>3, <2>1, <2>2, FoldStays
<1> QED BY <1>1, <1>11 DEF A

\* The places that the index knows.
Places ==
  UNION {{[id |-> l.id, field |-> l.field] : l \in ToSet(w.at)} : w \in ToSet(Index)}

LEMMA PlacesAreNodes == \A p \in Places : p.id \in Nodes
BY SearchAssumption DEF Places

\* A keyword leads to the places of the words that it begins.
Place(l) == [id |-> l.id, field |-> l.field]
LeadsTo(keyword, p) ==
  \E w \in ToSet(Index) : keyword \in w.begins /\ \E l \in ToSet(w.at) : p = Place(l)

LocationsOf(keywords) ==
  {l \in [keyword : ToSet(keywords), full : BOOLEAN, place : Places] : LeadsTo(l.keyword, l.place)}

LEMMA LocationsTyped ==
  ASSUME NEW T, NEW keywords \in Seq(T)
  PROVE  /\ Locations(keywords) \in Seq(LocationsOf(keywords))
         /\ \A k \in ToSet(keywords) : \A p : LeadsTo(k, p) =>
              \E l \in ToSet(Locations(keywords)) : l.keyword = k /\ l.place = p
<1> DEFINE R == LocationsOf(keywords)
           at(k, w) ==
             IF keywords[k] \notin Index[w].begins THEN <<>>
             ELSE [l \in DOMAIN Index[w].at |->
                     [keyword |-> keywords[k], full |-> Index[w].word = keywords[k],
                      place   |-> [id |-> Index[w].at[l].id, field |-> Index[w].at[l].field]]]
           row(k) == [w \in DOMAIN Index |-> at(k, w)]
           rows == [k \in DOMAIN keywords |-> FlattenSeq(row(k))]
<1>1. Locations(keywords) = FlattenSeq(rows)
  BY DEF Locations
<1>2. DOMAIN keywords = 1..Len(keywords) /\ Len(keywords) \in Nat
      /\ \A k \in DOMAIN keywords : keywords[k] \in ToSet(keywords)
  BY LenProperties DEF ToSet
<1>3. /\ DOMAIN Index = 1..Len(Index) /\ Len(Index) \in Nat
      /\ \A w \in DOMAIN Index : Index[w] \in ToSet(Index)
  <2>1. Index \in Seq(ToSet(Index))
    BY SearchAssumption
  <2> QED BY <2>1, LenProperties DEF ToSet
<1>4. ASSUME NEW k \in DOMAIN keywords, NEW w \in DOMAIN Index
      PROVE  /\ at(k, w) \in Seq(R)
             /\ keywords[k] \in Index[w].begins => \A l \in ToSet(Index[w].at) :
                  \E r \in ToSet(at(k, w)) : r.keyword = keywords[k] /\ r.place = Place(l)
  <2> DEFINE places == Index[w].at
             loc(l) == [keyword |-> keywords[k], full |-> Index[w].word = keywords[k],
                        place   |-> [id |-> places[l].id, field |-> places[l].field]]
             locs == [l \in DOMAIN places |-> loc(l)]
  <2>1. places \in Seq(ToSet(places))
    BY <1>3, SearchAssumption
  <2>2. DOMAIN places = 1..Len(places) /\ Len(places) \in Nat
    BY <2>1, LenProperties
  <2>3. ASSUME NEW l \in DOMAIN places, keywords[k] \in Index[w].begins PROVE loc(l) \in R
    <3> DEFINE place == [id |-> places[l].id, field |-> places[l].field]
    <3>1. place \in Places
      BY <1>3 DEF Places, ToSet
    <3>2. keywords[k] \in ToSet(keywords) /\ (Index[w].word = keywords[k]) \in BOOLEAN
      BY <1>2
    <3>3. LeadsTo(keywords[k], place)
      BY <1>3, <2>3 DEF LeadsTo, Place, ToSet
    <3> HIDE DEF place
    <3> QED BY <3>1, <3>2, <3>3 DEF LocationsOf, place
  <2>4. at(k, w) = IF keywords[k] \notin Index[w].begins THEN <<>> ELSE locs
    OBVIOUS
  <2>5. \A l \in DOMAIN places : loc(l).keyword = keywords[k] /\ loc(l).place = Place(places[l])
    BY DEF Place
  <2>6. \A l \in ToSet(places) : \E i \in DOMAIN places : places[i] = l
    BY DEF ToSet
  <2> HIDE DEF loc, R
  <2>7. \A l \in DOMAIN places : loc(l) \in ToSet(locs)
    BY DEF ToSet
  <2> HIDE DEF places, at
  <2>8. ASSUME keywords[k] \in Index[w].begins PROVE locs \in Seq(R)
    BY <2>2, <2>3, <2>8
  <2>9. <<>> \in Seq(R)
    OBVIOUS
  <2>10. ASSUME keywords[k] \in Index[w].begins, NEW l \in ToSet(places)
         PROVE  \E r \in ToSet(at(k, w)) : r.keyword = keywords[k] /\ r.place = Place(l)
    <3>1. PICK i \in DOMAIN places : places[i] = l
      BY <2>6
    <3> QED BY <2>4, <2>5, <2>7, <2>10, <3>1
  <2> QED BY <2>4, <2>8, <2>9, <2>10 DEF places
<1> HIDE DEF at, R
<1>5. ASSUME NEW k \in DOMAIN keywords
      PROVE  /\ FlattenSeq(row(k)) \in Seq(R)
             /\ \A w \in DOMAIN Index : ToSet(at(k, w)) \subseteq ToSet(FlattenSeq(row(k)))
  <2>1. row(k) \in Seq(Seq(R)) /\ DOMAIN row(k) = DOMAIN Index
        /\ \A w \in DOMAIN Index : row(k)[w] = at(k, w)
    BY <1>3, <1>4
  <2> HIDE DEF row
  <2> QED BY <2>1, FlattenTyped
<1> HIDE DEF row
<1>6. rows \in Seq(Seq(R)) /\ DOMAIN rows = DOMAIN keywords
      /\ \A k \in DOMAIN keywords : rows[k] = FlattenSeq(row(k))
  BY <1>2, <1>5
<1> HIDE DEF rows
<1>7. /\ FlattenSeq(rows) \in Seq(R)
      /\ \A k \in DOMAIN rows : ToSet(rows[k]) \subseteq ToSet(FlattenSeq(rows))
  BY <1>6, FlattenTyped
<1>8. ASSUME NEW k \in ToSet(keywords), NEW p, LeadsTo(k, p)
      PROVE  \E l \in ToSet(Locations(keywords)) : l.keyword = k /\ l.place = p
  <2>1. PICK i \in DOMAIN keywords : keywords[i] = k
    BY DEF ToSet
  <2>2. PICK w \in ToSet(Index) : k \in w.begins /\ \E l \in ToSet(w.at) : p = Place(l)
    BY <1>8 DEF LeadsTo
  <2>3. PICK j \in DOMAIN Index : Index[j] = w
    BY DEF ToSet
  <2>4. PICK r \in ToSet(at(i, j)) : r.keyword = k /\ r.place = p
    BY <1>4, <2>1, <2>2, <2>3
  <2>5. r \in ToSet(rows[i])
    BY <1>5, <1>6, <2>4
  <2>6. r \in ToSet(FlattenSeq(rows))
    BY <1>6, <1>7, <2>5
  <2> QED BY <1>1, <2>4, <2>6
<1> QED BY <1>1, <1>7, <1>8 DEF R

\* Whatever the order, what matches is a place of the index.
LEMMA RankedTyped ==
  ASSUME NEW keywords, NEW found \in Seq(LocationsOf(keywords))
  PROVE  Ranked(found, keywords) \in Seq(Places)
<1> DEFINE at(p, full)  == {l.keyword : l \in {m \in ToSet(found) : m.place = p /\ m.full \in full}}
           whole(p)     == Cardinality(at(p, {TRUE}))
           begun(p)     == Cardinality(at(p, {FALSE}))
           before(p, q) == whole(p) > whole(q) \/ (whole(p) = whole(q) /\ begun(p) >= begun(q))
           ahead(places, p) == {i \in DOMAIN places : before(places[i], p)}
           skipped(places, l) == l.place \in ToSet(places) \/ at(l.place, BOOLEAN) # ToSet(keywords)
           op(places, l) == IF skipped(places, l) THEN places
                            ELSE InsertAt(places, 1 + Cardinality(ahead(places, l.place)), l.place)
           D    == DOMAIN found
           A    == Seq(Places)
           P(h) == h = [s \in SUBSET D |-> IF s = {} THEN <<>>
                          ELSE LET x == Max(s) IN op(h[s \ {x}], found[x])]
           it   == CHOOSE h : P(h)
           F    == [p \in A \X D |-> op(p[1], found[p[2]])]
<1>1. Ranked(found, keywords) = it[D]
  BY DEF Ranked, FoldLeft, MapThenFoldSet
<1>2. D \in SUBSET Nat /\ IsFiniteSet(D) /\ \A i \in D : found[i].place \in Places
  <2>1. D \in SUBSET Nat /\ IsFiniteSet(D)
    BY Interval, LenProperties
  <2>2. \A i \in D : found[i] \in LocationsOf(keywords)
    BY ElementOfSeq, LenProperties
  <2> QED BY <2>1, <2>2 DEF LocationsOf
<1> HIDE DEF D, skipped, before, at, whole, begun
<1>4. ASSUME NEW a \in A, NEW x \in D PROVE op(a, found[x]) \in A
  <2> DEFINE C == ahead(a, found[x].place)
  <2>1. C \in SUBSET DOMAIN a /\ found[x].place \in Places
    BY <1>2
  <2> HIDE DEF C
  <2>2. InsertAt(a, 1 + Cardinality(C), found[x].place) \in A
    BY <2>1, InsertTyped
  <2> QED BY <2>2 DEF C
<1>5. <<>> \in A
  OBVIOUS
<1> HIDE DEF op, A
<1>6. F \in [A \X D -> A]
  BY <1>4
<1> HIDE DEF F
<1>7. PICK k \in [SUBSET D -> A] : FoldOf(D, F, <<>>, k)
  BY <1>2, <1>5, <1>6, FoldRecursion
<1>8. ASSUME NEW s \in SUBSET D, s # {} PROVE Max(s) \in D /\ s \ {Max(s)} \in SUBSET D
  BY <1>2, <1>8, FS_Subset, GreatestMember
<1>9. P(k)
  <2> SUFFICES ASSUME NEW s \in SUBSET D, s # {}
               PROVE  FoldStep(F, <<>>, k, s) = op(k[s \ {Max(s)}], found[Max(s)])
    BY <1>7 DEF FoldOf, FoldStep
  <2>1. <<k[s \ {Max(s)}], Max(s)>> \in A \X D
    BY <1>7, <1>8
  <2> QED BY <2>1 DEF FoldStep, F
<1>10. P(it)
  BY <1>9
<1> HIDE DEF it
<1>11. \A s \in SUBSET D : it[s] \in A
  <2>1. it[{}] \in A
    BY <1>5, <1>10
  <2>2. ASSUME NEW s \in SUBSET D, s # {} /\ it[s \ {Max(s)}] \in A PROVE it[s] \in A
    <3>1. it[s] = op(it[s \ {Max(s)}], found[Max(s)])
      BY <1>10, <2>2
    <3>2. Max(s) \in D
      BY <1>8, <2>2
    <3> QED BY <1>4, <2>2, <3>1, <3>2
  <2> QED BY <1>2, <2>1, <2>2, FoldStays
<1> QED BY <1>1, <1>11 DEF A

LEMMA MatchesTyped ==
  ASSUME NEW T, NEW keywords \in Seq(T) PROVE get_matches(keywords) \in Seq(Places)
<1> DEFINE places == Ranked(Locations(keywords), keywords)
           n      == Min({Len(places), MAX_CONTENT_RESULTS})
<1>1. places \in Seq(Places)
  BY LocationsTyped, RankedTyped
<1>2. get_matches(keywords) = SubSeq(places, 1, n)
  BY DEF get_matches
<1> HIDE DEF places
<1>3. n \in 0..Len(places)
  <2> DEFINE S == {Len(places), MAX_CONTENT_RESULTS}
  <2>1. Len(places) \in Nat /\ S \in SUBSET Nat /\ S # {} /\ Len(places) \in S
    BY <1>1, SearchAssumption, LenProperties
  <2> HIDE DEF S
  <2>2. PICK m \in S : \A k \in S : m <= k
    BY <2>1, LeastMember
  <2>3. Min(S) \in S /\ Min(S) <= Len(places)
    BY <2>1, <2>2 DEF Min
  <2> QED BY <2>1, <2>3 DEF S
<1> HIDE DEF n
<1> QED BY <1>1, <1>2, <1>3, SubSeqProperties

-----------------------------------------------------------------------------
(* The form.                                                               *)

\* The form: its texts are numbers or no numbers, and what an event saves is a number.
Texts == Int \cup {Garbage}
FormOK(form) ==
  /\ DOMAIN form = {"reg", "field", "enum", "bad", "selects", "clean"}
  /\ form.reg \in Texts
  /\ form.field \in [DOMAIN form.field -> Texts]
OutcomeOK(o) == FormOK(o.form) /\ (o.saved => o.form.reg \in Nat)

LEMMA FieldsOf ==
  ASSUME NEW id \in Nodes
  PROVE  /\ IsFiniteSet(FieldSet[id])
         /\ \A name \in FieldNames[id] : /\ lookup_field_idx(id, name) \in FieldSet[id]
                                         /\ lookup_field_idx(id, name).name = name
<1> DEFINE fields == Tree[id].fields
<1>1. fields \in Seq(ToSet(fields))
  BY TreeAssumption
<1>2. FieldSet[id] = {fields[i] : i \in DOMAIN fields}
  BY DEF FieldSet, ToSet
<1> HIDE DEF fields
<1>3. IsFiniteSet(FieldSet[id])
  <2>1. IsFiniteSet(DOMAIN fields)
    BY <1>1, LenProperties, Interval
  <2> DEFINE f == [i \in DOMAIN fields |-> fields[i]]
  <2>2. f \in Surjection(DOMAIN fields, FieldSet[id])
    BY <1>2 DEF Surjection
  <2> QED BY <2>1, <2>2, FS_Surjection
<1>4. ASSUME NEW name \in FieldNames[id]
      PROVE  /\ lookup_field_idx(id, name) \in FieldSet[id]
             /\ lookup_field_idx(id, name).name = name
  <2>1. \E f \in FieldSet[id] : f.name = name
    BY DEF FieldNames
  <2> QED BY <2>1 DEF lookup_field_idx
<1> QED BY <1>3, <1>4

\* How many bits a field has.
Width(f) == f.msb - f.lsb + 1

LEMMA FieldSizes ==
  ASSUME NEW id \in Nodes, NEW f \in FieldSet[id]
  PROVE  /\ f.lsb \in Nat /\ 2^f.lsb \in Nat \ {0} /\ MaxValue(f) \in Nat \ {0}
         /\ f.reset \in Nat /\ f.reset < MaxValue(f)
         /\ Width(f) \in Nat \ {0} /\ MaxValue(f) = 2^Width(f)
<1>1. FieldSet[id] \subseteq FieldRecords /\ f.lsb <= f.msb /\ f.reset < MaxValue(f)
  BY FieldsAssumption
<1>2. f.lsb \in Nat /\ f.msb \in Nat /\ f.reset \in Nat
  BY <1>1 DEF FieldRecords
<1>3. Width(f) \in Nat \ {0} /\ MaxValue(f) = 2^Width(f)
  BY <1>1, <1>2 DEF Width, MaxValue
<1> QED BY <1>1, <1>2, <1>3, PowerPositive

LEMMA SliceNat ==
  ASSUME NEW id \in Nodes, NEW f \in FieldSet[id], NEW value \in Int
  PROVE  Slice(value, f) \in Nat
<1>1. 2^f.lsb \in Nat \ {0} /\ MaxValue(f) \in Nat \ {0}
  BY FieldSizes
<1>2. \A v \in Int, p, q \in Nat \ {0} : (v \div p) % q \in Nat
  OBVIOUS
<1> QED BY <1>1, <1>2, Zenon DEF Slice

\* What each field's text adds to the register.
Parts(form, id) ==
  [f \in FieldSet[id] |-> (form.field[f.name] % MaxValue(f)) * 2^f.lsb]

\* The register's text becomes the sum of what the fields stand for.
LEMMA RegisterSum ==
  ASSUME NEW id \in Nodes, NEW form, FormOK(form), Encodable(form), Fits(form, id)
  PROVE  /\ Parts(form, id) \in [FieldSet[id] -> Nat]
         /\ \E g :
              /\ Sums(g, Parts(form, id), FieldSet[id]) /\ g[FieldSet[id]] \in Nat
              /\ update_reg_value_tester(form, id) =
                   [form EXCEPT !.reg = g[FieldSet[id]], !.bad = @ \ {REG}]
<1> DEFINE D == FieldSet[id]
           F == Parts(form, id)
           value(f) == (form.field[f.name] % MaxValue(f)) * 2^f.lsb
           P(g) == g = [s \in SUBSET D |-> IF s = {} THEN 0
                          ELSE LET x == CHOOSE x \in s : TRUE IN value(x) + g[s \ {x}]]
           it == CHOOSE g : P(g)
           sum == MapThenSumSet(LAMBDA f : (form.field[f.name] % MaxValue(f)) * 2^f.lsb, D)
           pick == [s \in SUBSET D |-> CHOOSE x \in s : TRUE]
<1>1. sum = it[D]
  BY DEF MapThenSumSet, MapThenFoldSet
<1>2. ASSUME NEW f \in D PROVE value(f) \in Nat
  <2>1. f.name \in DOMAIN form.field
    BY DEF Fits, FieldNames
  <2>2. form.field[f.name] \in Int
    BY <2>1 DEF FormOK, Texts, Encodable
  <2>3. 2^f.lsb \in Nat \ {0} /\ MaxValue(f) \in Nat \ {0}
    BY FieldSizes
  <2>4. \A v \in Int, p, q \in Nat \ {0} : (v % p) * q \in Nat
    <3>1. \A v \in Int, p \in Nat \ {0} : v % p \in Nat
      OBVIOUS
    <3>2. \A r, q \in Nat : r * q \in Nat
      OBVIOUS
    <3> QED BY <3>1, <3>2
  <2> QED BY <2>2, <2>3, <2>4, Zenon
<1>3. /\ IsFiniteSet(D) /\ F \in [D -> Nat] /\ F \in [D -> Int]
      /\ \A f \in D : F[f] = value(f)
  <2>1. F = [f \in D |-> value(f)]
    BY DEF Parts
  <2> HIDE DEF value, F
  <2> QED BY <1>2, <2>1, FieldsOf
<1> HIDE DEF value
<1>4. Picks(pick, D)
  BY DEF Picks
<1>5. update_reg_value_tester(form, id) = [form EXCEPT !.reg = sum, !.bad = @ \ {REG}]
  BY DEF update_reg_value_tester
<1> HIDE DEF D, F, pick, sum
<1>6. P(it)
  <2>1. PICK g : Sums(g, F, D)
    BY <1>3, SumRecursion
  <2>2. ASSUME NEW s \in SUBSET D
        PROVE  SumStep(F, g, s) = IF s = {} THEN 0
                                  ELSE LET x == CHOOSE x \in s : TRUE IN value(x) + g[s \ {x}]
    <3>1. CASE s = {}
      BY <3>1 DEF SumStep
    <3>2. CASE s # {}
      <4>1. pick[s] = (CHOOSE x \in s : TRUE) /\ pick[s] \in D
        BY <1>4, <3>2 DEF Picks, pick
      <4>2. F[pick[s]] = value(pick[s])
        BY <1>3, <4>1
      <4> QED BY <3>2, <4>1, <4>2 DEF SumStep
    <3> QED BY <3>1, <3>2
  <2>3. P(g)
    BY <2>1, <2>2 DEF Sums
  <2> QED BY <2>3
<1> HIDE DEF it
<1>7. ASSUME NEW s \in SUBSET D PROVE it[s] = SumStep(F, it, s)
  <2>1. CASE s = {}
    BY <1>6, <2>1 DEF SumStep
  <2>2. CASE s # {}
    <3>1. pick[s] = (CHOOSE x \in s : TRUE) /\ pick[s] \in D
      BY <1>4, <2>2 DEF Picks, pick
    <3>2. F[pick[s]] = value(pick[s])
      BY <1>3, <3>1
    <3> QED BY <1>6, <2>2, <3>1, <3>2 DEF SumStep
  <2> QED BY <2>1, <2>2
<1>8. it[{}] \in Nat
  BY <1>6
<1>9. ASSUME NEW s \in SUBSET D, s # {}, it[s \ {pick[s]}] \in Nat PROVE it[s] \in Nat
  <2>1. pick[s] \in D /\ it[s] = F[pick[s]] + it[s \ {pick[s]}]
    BY <1>4, <1>7, <1>9 DEF pick, Picks, SumStep
  <2>2. F[pick[s]] \in Nat
    BY <1>3, <2>1
  <2> QED BY <1>9, <2>1, <2>2
<1>10. \A s \in SUBSET D : it[s] \in Nat
  BY <1>3, <1>4, <1>8, <1>9, SetStays
<1> DEFINE g == [s \in SUBSET D |-> it[s]]
<1>11. g \in [SUBSET D -> Int] /\ \A s \in SUBSET D : g[s] = it[s]
  BY <1>10
<1> HIDE DEF g
<1>12. Sums(g, F, D)
  BY <1>7, <1>11 DEF Sums, SumStep
<1>13. g[D] = sum /\ sum \in Nat
  BY <1>1, <1>10, <1>11
<1> QED BY <1>3, <1>5, <1>11, <1>12, <1>13 DEF D, F

LEMMA RegisterValue ==
  ASSUME NEW id \in Nodes, NEW form, FormOK(form), Encodable(form), Fits(form, id)
  PROVE  /\ FormOK(update_reg_value_tester(form, id))
         /\ update_reg_value_tester(form, id).reg \in Nat
         /\ update_reg_value_tester(form, id).field = form.field
<1>1. PICK sum \in Nat :
        update_reg_value_tester(form, id) = [form EXCEPT !.reg = sum, !.bad = @ \ {REG}]
  <2>1. PICK g :
          /\ Sums(g, Parts(form, id), FieldSet[id]) /\ g[FieldSet[id]] \in Nat
          /\ update_reg_value_tester(form, id) =
               [form EXCEPT !.reg = g[FieldSet[id]], !.bad = @ \ {REG}]
    BY RegisterSum
  <2> QED BY <2>1
<1> QED BY <1>1 DEF FormOK, Texts

\* The inputs show the register's bits; its own text stays.
LEMMA BitsShown ==
  ASSUME NEW id \in Nodes, NEW form, FormOK(form), NEW names \in SUBSET FieldNames[id]
  PROVE  /\ FormOK(ShowBits(form, id, names))
         /\ ShowBits(form, id, names).reg = form.reg
<1> DEFINE bits(name) == Slice(form.reg, lookup_field_idx(id, name))
           field == [n \in DOMAIN form.field |-> IF n \in names THEN bits(n) ELSE form.field[n]]
           enum  == [n \in DOMAIN form.enum |->
                       IF n \in names \cap Encoded[id] THEN bits(n) ELSE form.enum[n]]
<1>1. CASE form.reg = Garbage
  BY <1>1 DEF ShowBits
<1>2. CASE form.reg # Garbage
  <2>1. form.reg \in Int
    BY <1>2 DEF FormOK, Texts
  <2>2. \A n \in names : bits(n) \in Nat
    BY <2>1, FieldsOf, SliceNat
  <2>3. ShowBits(form, id, names) =
          [form EXCEPT !.field = field, !.enum = enum, !.bad = @ \ names]
    BY <1>2 DEF ShowBits
  <2> HIDE DEF bits
  <2>4. field \in [DOMAIN form.field -> Texts]
    BY <2>2 DEF FormOK, Texts
  <2> HIDE DEF field, enum
  <2> QED BY <2>3, <2>4 DEF FormOK
<1> QED BY <1>1, <1>2

LEMMA ResetInputs ==
  ASSUME NEW id \in Nodes, NEW form, FormOK(form), is_register(id)
  PROVE  /\ FormOK(reset_field_inputs(form, id)) /\ reset_field_inputs(form, id).reg \in Nat
         /\ Fits(reset_field_inputs(form, id), id)
<1> DEFINE field == [name \in FieldNames[id] |-> lookup_field_idx(id, name).reset]
           enum  == [name \in Encoded[id] |-> lookup_field_idx(id, name).reset]
           reset == [form EXCEPT !.field = field, !.enum = enum, !.clean = TRUE]
<1>1. field \in [FieldNames[id] -> Nat]
  BY FieldsOf, FieldSizes
<1>2. reset_field_inputs(form, id) = update_reg_value_tester(reset, id)
  BY DEF reset_field_inputs
<1> HIDE DEF field, enum
<1>3. FormOK(reset) /\ reset.field = field
  BY <1>1 DEF FormOK, Texts
<1> HIDE DEF reset
<1>4. Encodable(reset) /\ Fits(reset, id)
  <2>1. Garbage \notin Nat
    <3>1. Garbage \notin Int
      BY FieldsAssumption, Zenon
    <3> QED BY <3>1
  <2>2. DOMAIN reset.field = FieldNames[id] /\ \A name \in FieldNames[id] : reset.field[name] \in Nat
    BY <1>1, <1>3
  <2> QED BY <2>1, <2>2 DEF Encodable, Fits
<1> QED BY <1>2, <1>3, <1>4, RegisterValue DEF Fits

LEMMA FirstForms ==
  /\ FormOK(NoForm)
  /\ \A id \in Nodes : FormOK(BlankForm(id)) /\ FormOK(Fresh(id))
<1>1. FormOK(NoForm)
  <2>1. <<>> \in [DOMAIN <<>> -> Texts]
    OBVIOUS
  <2> QED BY <2>1 DEF NoForm, FormOK, Texts
<1>2. ASSUME NEW id \in Nodes PROVE FormOK(BlankForm(id))
  BY DEF BlankForm, FormOK, Texts
<1> QED BY <1>1, <1>2 DEF Fresh

LEMMA InitValue ==
  ASSUME NEW id \in Nodes, NEW form, FormOK(form), NEW saved, saved = NoValue \/ saved \in Nat,
         NEW disp
  PROVE  FormOK(init_reg_value(form, id, saved, disp))
<1> DEFINE filled == [form EXCEPT !.reg = saved, !.bad = @ \ {REG}, !.clean = Fits(form, id)]
           shown  == update_field_value_testers(filled, id)
           reset  == reset_field_inputs(form, id)
<1>1. saved \in Nat => FormOK(filled)
  BY DEF FormOK, Texts
<1> HIDE DEF filled
<1>2. saved \in Nat => FormOK(shown)
  BY <1>1, BitsShown DEF update_field_value_testers
<1>3. Fits(form, id) => FormOK(reset)
  BY ResetInputs DEF Fits
<1> HIDE DEF shown, reset
<1>4. \A x, s : FormOK(x) => FormOK([x EXCEPT !.selects = s])
  BY DEF FormOK
<1>5. init_reg_value(form, id, saved, disp) =
        IF Fits(form, id)
        THEN [(IF saved = NoValue THEN reset ELSE shown) EXCEPT !.selects = Selects(id, disp)]
        ELSE IF saved = NoValue \/ form = NoForm THEN form ELSE filled
  BY DEF init_reg_value, filled, shown, reset
<1> QED BY <1>1, <1>2, <1>3, <1>4, <1>5

LEMMA FieldInput ==
  ASSUME NEW id \in Nodes, NEW form, FormOK(form), NEW name, NEW text \in Texts
  PROVE  OutcomeOK(onDecodedFieldInput(form, id, name, text))
<1> DEFINE typed   == [form EXCEPT !.field[name] = text]
           f       == lookup_field_idx(id, name)
           valid   == text # Garbage /\ text \in 0..MaxValue(f)-1
           checked == [typed EXCEPT !.bad = @ \ {name},
                                    !.enum = IF f.encode THEN [@ EXCEPT ![name] = text] ELSE @]
           done    == update_reg_value_tester(checked, id)
           unfit   == [typed EXCEPT !.clean = FALSE]
           marked  == [typed EXCEPT !.bad = @ \cup {name}, !.clean = FALSE]
<1>1. FormOK(typed) /\ DOMAIN typed.field = DOMAIN form.field
  BY DEF FormOK
<1> HIDE DEF typed
<1>2. FormOK(unfit) /\ FormOK(marked)
  BY <1>1 DEF FormOK
<1>3. FormOK(checked) /\ checked.field = typed.field
  BY <1>1 DEF FormOK
<1>4. onDecodedFieldInput(form, id, name, text) =
        IF ~Fits(form, id) THEN Outcome(unfit, FALSE)
        ELSE IF ~valid THEN Outcome(marked, FALSE)
        ELSE Outcome(done, Encodable(checked))
  BY DEF onDecodedFieldInput, typed
<1> HIDE DEF checked, f
<1>5. Fits(form, id) => Fits(checked, id)
  BY <1>1, <1>3 DEF Fits
<1>6. Fits(form, id) /\ Encodable(checked) => FormOK(done) /\ done.reg \in Nat
  BY <1>3, <1>5, RegisterValue
<1>7. ~Encodable(checked) => FormOK(done)
  BY <1>3 DEF update_reg_value_tester
<1> HIDE DEF valid, done, unfit, marked
<1> QED BY <1>2, <1>4, <1>6, <1>7 DEF OutcomeOK, Outcome

LEMMA EnumChange ==
  ASSUME NEW id \in Nodes, NEW form, FormOK(form), NEW name, NEW value \in Nat
  PROVE  OutcomeOK(onDecodedFieldEnumChange(form, id, name, value))
<1> DEFINE picked == [form EXCEPT !.enum[name] = value]
           copied == [picked EXCEPT !.field[name] = value]
           done   == update_reg_value_tester(copied, id)
           unfit  == [picked EXCEPT !.clean = FALSE]
<1>1. FormOK(picked) /\ picked.field = form.field
  BY DEF FormOK
<1> HIDE DEF picked
<1>2. FormOK(unfit)
  BY <1>1 DEF FormOK
<1>3. FormOK(copied) /\ DOMAIN copied.field = DOMAIN form.field
  <2> DEFINE field == [picked.field EXCEPT ![name] = value]
  <2>1. copied = [picked EXCEPT !.field = field] /\ value \in Texts
    BY DEF Texts
  <2>2. DOMAIN field = DOMAIN form.field /\ field \in [DOMAIN field -> Texts]
    BY <1>1, <2>1 DEF FormOK
  <2> HIDE DEF field
  <2> QED BY <1>1, <2>1, <2>2 DEF FormOK
<1>4. onDecodedFieldEnumChange(form, id, name, value) =
        IF ~Fits(form, id) THEN Outcome(unfit, FALSE) ELSE Outcome(done, Encodable(copied))
  BY DEF onDecodedFieldEnumChange, picked
<1> HIDE DEF copied
<1>5. Fits(form, id) => Fits(copied, id)
  BY <1>3 DEF Fits
<1>6. Fits(form, id) /\ Encodable(copied) => FormOK(done) /\ done.reg \in Nat
  BY <1>3, <1>5, RegisterValue
<1>7. ~Encodable(copied) => FormOK(done)
  BY <1>3 DEF update_reg_value_tester
<1> HIDE DEF done, unfit
<1> QED BY <1>2, <1>4, <1>6, <1>7 DEF OutcomeOK, Outcome

LEMMA RegInput ==
  ASSUME NEW id \in Nodes, NEW form, FormOK(form), NEW text \in Texts
  PROVE  OutcomeOK(onEncodedRegInput(form, id, text))
<1> DEFINE typed  == [form EXCEPT !.reg = text]
           marked == [typed EXCEPT !.bad = @ \cup {REG}]
           unfit  == [typed EXCEPT !.bad = @ \ {REG}, !.clean = FALSE]
           good   == [typed EXCEPT !.bad = @ \ {REG}, !.clean = TRUE]
           done   == update_field_value_testers(good, id)
<1>1. FormOK(marked) /\ FormOK(unfit) /\ FormOK(good) /\ good.reg = text
  BY DEF FormOK
<1>2. onEncodedRegInput(form, id, text) =
        IF text = Garbage \/ text < 0 THEN Outcome(marked, FALSE)
        ELSE IF ~Fits(form, id) THEN Outcome(unfit, FALSE) ELSE Outcome(done, TRUE)
  BY DEF onEncodedRegInput
<1> HIDE DEF marked, unfit, good
<1>3. FormOK(done) /\ done.reg = text
  BY <1>1, BitsShown DEF update_field_value_testers
<1> HIDE DEF done
<1>4. text = Garbage \/ text < 0 \/ text \in Nat
  BY DEF Texts
<1> QED BY <1>1, <1>2, <1>3, <1>4 DEF OutcomeOK, Outcome

LEMMA ResetValue ==
  ASSUME NEW id \in Nodes, NEW form, FormOK(form)
  PROVE  OutcomeOK(onResetRegValue(form, id))
BY ResetInputs DEF onResetRegValue, Fits, OutcomeOK, Outcome

LEMMA RadixSwitch ==
  ASSUME NEW id \in Nodes, NEW form, FormOK(form), Fits(form, id),
         NEW name \in DOMAIN form.field, NEW disp
  PROVE  OutcomeOK(onRadixSwitch(form, id, name, disp))
<1> DEFINE shown == [form EXCEPT !.selects = (@ \ {name}) \cup (Selects(id, disp) \cap {name})]
<1>1. FormOK(shown)
  BY DEF FormOK
<1>2. onRadixSwitch(form, id, name, disp) = Outcome(ShowBits(shown, id, {name}), FALSE)
  BY DEF onRadixSwitch, update_field_value_tester
<1> HIDE DEF shown
<1>3. {name} \in SUBSET FieldNames[id]
  BY DEF Fits
<1>4. FormOK(ShowBits(shown, id, {name}))
  BY <1>1, <1>3, BitsShown
<1> QED BY <1>2, <1>4 DEF OutcomeOK, Outcome

-----------------------------------------------------------------------------
(* The page keeps its shape.                                               *)

HistoryOK(u) ==
  /\ u.history \in Seq(ToSet(u.history)) /\ u.pos \in DOMAIN u.history
  /\ \A i \in DOMAIN u.history : PathOK(u.history[i])

\* The index being edited is one of an array, on the page or not.
ModalOK(m) ==
  /\ DOMAIN m = {"active", "id", "dim", "span", "text"}
  /\ m.active => m.id \in Nodes /\ m.dim \in DOMAIN Tree[m.id].dims

UiOK(u) ==
  /\ DOMAIN u = Fields
  /\ u.CurrentID \in Elsewhere /\ u.page \in Elsewhere /\ u.crumbs.id \in Elsewhere
  /\ IdxsOK(u.idxs)
  /\ u.registry \in [DOMAIN u.registry -> Nat]
  /\ FormOK(u.form)
  /\ u.tree \in Trees
  /\ ModalOK(u.modal)
  /\ HistoryOK(u)

\* The documentation is open.
Opened(u) == UiOK(u) /\ u.CurrentID \in Nodes

LEMMA PathTyped ==
  ASSUME NEW idxs, IdxsOK(idxs), NEW id \in Nodes PROVE PathOK(get_path(idxs, id))
<1> DEFINE ids == get_ids_in_path[id]
           step(i) == [name |-> Tree[ids[i]].name, idxs |-> idxs[ids[i]]]
           path == [i \in DOMAIN ids |-> step(i)]
<1>1. ids \in Seq(Nodes)
  BY PathOfIds
<1>2. DOMAIN ids = 1..Len(ids) /\ Len(ids) \in Nat /\ \A i \in DOMAIN ids : ids[i] \in Nodes
  BY <1>1, LenProperties, ElementOfSeq
<1>3. get_path(idxs, id) = path
  BY DEF get_path
<1> HIDE DEF ids
<1>4. \A n \in Nodes : idxs[n] \in Seq(Nat)
  <2> SUFFICES ASSUME NEW n \in Nodes PROVE idxs[n] \in Seq(Nat)
    OBVIOUS
  <2>1. idxs[n] \in [DOMAIN Tree[n].dims -> Nat]
    BY IdxRangeIs DEF IdxsOK
  <2>2. DOMAIN Tree[n].dims = 1..Len(Tree[n].dims) /\ Len(Tree[n].dims) \in Nat
    BY Dimensions
  <2> QED BY <2>1, <2>2
<1>5. \A i \in DOMAIN ids : step(i).idxs \in Seq(Nat)
  BY <1>2, <1>4
<1> HIDE DEF step
<1>6. path \in Seq(ToSet(path)) /\ \A s \in ToSet(path) : s.idxs \in Seq(Nat)
  <2>1. ToSet(path) = {step(i) : i \in DOMAIN ids}
    BY DEF ToSet
  <2>2. path \in Seq(ToSet(path))
    BY <1>2, <2>1
  <2> QED BY <1>5, <2>1, <2>2
<1> QED BY <1>3, <1>6 DEF PathOK

\* Another path takes the place of the one in the URL.
LEMMA HistoryPatched ==
  ASSUME NEW u, DOMAIN u = Fields, HistoryOK(u), NEW path, PathOK(path)
  PROVE  HistoryOK([u EXCEPT !.history[u.pos] = path])
<1> DEFINE h == u.history
           v == [u EXCEPT !.history[u.pos] = path]
           S == ToSet(h) \cup {path}
<1>1. h \in Seq(S) /\ u.pos \in DOMAIN h
  BY DEF HistoryOK
<1>2. v.history = [h EXCEPT ![u.pos] = path] /\ v.pos = u.pos
  BY DEF Fields
<1>3. v.history \in Seq(S) /\ DOMAIN v.history = DOMAIN h
  BY <1>1, <1>2
<1>4. \A i \in DOMAIN h : PathOK(v.history[i])
  BY <1>2 DEF HistoryOK
<1> HIDE DEF v
<1>5. v.history \in Seq(ToSet(v.history))
  <2> DEFINE g == v.history
  <2>1. g \in Seq(S)
    BY <1>3
  <2> HIDE DEF g
  <2>2. g \in Seq(ToSet(g))
    BY <2>1 DEF ToSet
  <2> QED BY <2>2 DEF g
<1>6. HistoryOK(v)
  BY <1>1, <1>2, <1>3, <1>4, <1>5 DEF HistoryOK
<1> QED BY <1>6 DEF v

LEMMA HeadedOK == ASSUME NEW u, Opened(u) PROVE Opened(Headed(u))
<1> DEFINE v == Headed(u)
<1>1. DOMAIN u = Fields
  BY DEF Opened, UiOK
<1>2. /\ DOMAIN v = Fields /\ v.CurrentID = u.CurrentID /\ v.page = u.page
      /\ v.crumbs.id = u.CurrentID /\ v.idxs = u.idxs /\ v.registry = u.registry
      /\ v.form = u.form /\ v.tree = u.tree /\ v.modal = u.modal /\ v.history = u.history
      /\ v.pos = u.pos
  BY <1>1 DEF Fields, Headed, update_crumbtrail, update_absolute_addr, update_rdlfc_indexes, Crumbs
<1> HIDE DEF v
<1>3. Opened(v)
  BY <1>2 DEF Opened, UiOK, HistoryOK, Elsewhere
<1> QED BY <1>3 DEF v

LEMMA PatchOK == ASSUME NEW u, Opened(u) PROVE Opened(patch_url_path(u))
<1> DEFINE v == patch_url_path(u)
           path == Path(u, u.CurrentID)
<1>1. DOMAIN u = Fields /\ HistoryOK(u) /\ PathOK(path)
  BY PathTyped DEF Opened, UiOK, Path
<1>2. v = [u EXCEPT !.history[u.pos] = path]
  BY DEF patch_url_path
<1> HIDE DEF path, v
<1>3. HistoryOK(v)
  BY <1>1, <1>2, HistoryPatched
<1>4. /\ DOMAIN v = Fields /\ v.CurrentID = u.CurrentID /\ v.page = u.page
      /\ v.crumbs = u.crumbs /\ v.idxs = u.idxs /\ v.registry = u.registry
      /\ v.form = u.form /\ v.tree = u.tree /\ v.modal = u.modal
  BY <1>1, <1>2 DEF Fields
<1>5. Opened(v)
  BY <1>3, <1>4 DEF Opened, UiOK
<1> QED BY <1>5 DEF v

\* A field of the page is set.
LEMMA SetOK ==
  ASSUME NEW u, UiOK(u), NEW x
  PROVE  /\ x \in Elsewhere => UiOK([u EXCEPT !.CurrentID = x])
         /\ UiOK([u EXCEPT !.title = x]) /\ UiOK([u EXCEPT !.disp = x])
         /\ IdxsOK(x) => UiOK([u EXCEPT !.idxs = x])
         /\ FormOK(x) => UiOK([u EXCEPT !.form = x])
         /\ x \in Trees => UiOK([u EXCEPT !.tree = x])
         /\ ModalOK(x) => UiOK([u EXCEPT !.modal = x])
         /\ x \in [DOMAIN x -> Nat] => UiOK([u EXCEPT !.registry = x])
         /\ x \in DOMAIN u.history => UiOK([u EXCEPT !.pos = x])
<1>1. x \in Elsewhere => UiOK([u EXCEPT !.CurrentID = x])
  BY DEF UiOK, HistoryOK, Fields
<1>2. UiOK([u EXCEPT !.title = x]) /\ UiOK([u EXCEPT !.disp = x])
  BY DEF UiOK, HistoryOK, Fields
<1>3. IdxsOK(x) => UiOK([u EXCEPT !.idxs = x])
  BY DEF UiOK, HistoryOK, Fields
<1>4. FormOK(x) => UiOK([u EXCEPT !.form = x])
  BY DEF UiOK, HistoryOK, Fields
<1>5. x \in Trees => UiOK([u EXCEPT !.tree = x])
  BY DEF UiOK, HistoryOK, Fields
<1>6. ModalOK(x) => UiOK([u EXCEPT !.modal = x])
  BY DEF UiOK, HistoryOK, Fields
<1>7. x \in [DOMAIN x -> Nat] => UiOK([u EXCEPT !.registry = x])
  BY DEF UiOK, HistoryOK, Fields
<1>8. x \in DOMAIN u.history => UiOK([u EXCEPT !.pos = x])
  BY DEF UiOK, HistoryOK, Fields
<1> QED BY <1>1, <1>2, <1>3, <1>4, <1>5, <1>6, <1>7, <1>8

LEMMA StateTyped ==
  ASSUME NEW u, UiOK(u) PROVE get_reg_state(u) = NoValue \/ get_reg_state(u) \in Nat
BY DEF get_reg_state, UiOK

LEMMA FillFormOK ==
  ASSUME NEW u, Opened(u)
  PROVE  Opened(FillForm(u)) /\ FillForm(u).CurrentID = u.CurrentID
<1> DEFINE form == init_reg_value(u.form, u.CurrentID, get_reg_state(u), u.disp)
<1>1. FormOK(form)
  <2>1. get_reg_state(u) = NoValue \/ get_reg_state(u) \in Nat
    BY StateTyped DEF Opened
  <2>2. FormOK(u.form) /\ u.CurrentID \in Nodes
    BY DEF Opened, UiOK
  <2> QED BY <2>1, <2>2, InitValue
<1>2. FillForm(u) = u \/ FillForm(u) = [u EXCEPT !.form = form]
  BY DEF FillForm
<1> HIDE DEF form
<1>3. UiOK([u EXCEPT !.form = form]) /\ [u EXCEPT !.form = form].CurrentID = u.CurrentID
  BY <1>1, SetOK DEF Opened, UiOK, Fields
<1> QED BY <1>2, <1>3 DEF Opened

LEMMA ExitOK ==
  ASSUME NEW u, Opened(u), NEW cancel, NEW val
  PROVE  Opened(exitIndexEditModal(u, cancel, val)) /\ Opened(WindowClick(u, val))
<1> DEFINE m      == u.modal
           closed == [u EXCEPT !.modal = [m EXCEPT !.active = FALSE]]
           idxs   == [u.idxs EXCEPT ![m.id][m.dim] = val]
           set    == [closed EXCEPT !.idxs = idxs]
<1>1. DOMAIN u = Fields /\ ModalOK(m) /\ IdxsOK(u.idxs) /\ u.CurrentID \in Nodes
  BY DEF Opened, UiOK
<1>2. Opened(closed) /\ closed.idxs = u.idxs
  <2>1. ModalOK([m EXCEPT !.active = FALSE])
    BY <1>1 DEF ModalOK
  <2>2. UiOK(closed)
    BY <2>1, SetOK DEF Opened
  <2>3. closed.CurrentID = u.CurrentID /\ closed.idxs = u.idxs
    BY <1>1 DEF Fields
  <2> QED BY <1>1, <2>2, <2>3 DEF Opened
<1>3. ASSUME m.active, val \in 0..Tree[m.id].dims[m.dim]-1 PROVE Opened(set)
  <2>1. IdxsOK(idxs)
    BY <1>1, <1>3, SetIndexOK DEF ModalOK
  <2> HIDE DEF closed, idxs
  <2>2. UiOK(set)
    BY <1>2, <2>1, SetOK DEF Opened
  <2>3. set.CurrentID = closed.CurrentID
    BY <1>2 DEF Opened, UiOK, Fields
  <2> QED BY <1>2, <2>2, <2>3 DEF Opened
<1>4. ASSUME NEW c
      PROVE  exitIndexEditModal(u, c, val) =
               IF ~m.active THEN u
               ELSE IF c \/ val \notin 0..Tree[m.id].dims[m.dim]-1 THEN closed
               ELSE FillForm(patch_url_path(Headed(set)))
  <2>1. closed = [u EXCEPT !.modal.active = FALSE]
    OBVIOUS
  <2>2. set = [closed EXCEPT !.idxs[m.id][m.dim] = val]
    BY <1>2
  <2> HIDE DEF closed, set
  <2> QED BY <2>1, <2>2 DEF exitIndexEditModal
<1> HIDE DEF closed, set, m
<1>5. Opened(set) => Opened(FillForm(patch_url_path(Headed(set))))
  BY HeadedOK, PatchOK, FillFormOK
<1>6. ASSUME NEW c PROVE Opened(exitIndexEditModal(u, c, val))
  BY <1>2, <1>3, <1>4, <1>5
<1> QED BY <1>6 DEF WindowClick

\* The spans of indexes of the crumb trail.
SpanSet == UNION {{[id |-> n, dim |-> d] : d \in DOMAIN Tree[n].dims} : n \in Nodes}

LEMMA SpansTyped == \A id \in Nodes : SpansOf[id] \in Seq(SpanSet)
<1> SUFFICES ASSUME NEW id \in Nodes PROVE SpansOf[id] \in Seq(SpanSet)
  OBVIOUS
<1> DEFINE ids == get_ids_in_path[id]
           span(n) == [d \in DOMAIN Tree[n].dims |-> [id |-> n, dim |-> d]]
           rows == [i \in DOMAIN ids |-> span(ids[i])]
<1>1. SpansOf[id] = FlattenSeq(rows)
  BY DEF SpansOf
<1>2. DOMAIN ids = 1..Len(ids) /\ Len(ids) \in Nat /\ \A i \in DOMAIN ids : ids[i] \in Nodes
  BY PathOfIds, LenProperties, ElementOfSeq
<1>3. ASSUME NEW n \in Nodes PROVE span(n) \in Seq(SpanSet)
  <2>1. DOMAIN Tree[n].dims = 1..Len(Tree[n].dims) /\ Len(Tree[n].dims) \in Nat
    BY Dimensions
  <2>2. \A d \in DOMAIN Tree[n].dims : [id |-> n, dim |-> d] \in SpanSet
    BY DEF SpanSet
  <2> QED BY <2>1, <2>2
<1> HIDE DEF span, ids
<1>4. rows \in Seq(Seq(SpanSet))
  BY <1>2, <1>3
<1> HIDE DEF rows
<1> QED BY <1>1, <1>4, FlattenTyped

LEMMA ShowModalOK ==
  ASSUME NEW u, Opened(u), NEW span, NEW text PROVE Opened(showIndexEditModal(u, span, text))
<1> DEFINE m == [active |-> TRUE, id |-> Spans(u)[span].id,
                 dim |-> Spans(u)[span].dim, span |-> span, text |-> text]
           v == [u EXCEPT !.modal = m]
<1>1. CASE span \notin DOMAIN Spans(u)
  BY <1>1 DEF showIndexEditModal
<1>2. CASE span \in DOMAIN Spans(u)
  <2>1. Spans(u) \in Seq(SpanSet)
    <3>1. CASE u.crumbs.id = NoNode
      BY <3>1 DEF Spans
    <3>2. CASE u.crumbs.id \in Nodes
      <4>1. u.crumbs.id # NoNode
        BY <3>2, NodeIds DEF NoNode
      <4> QED BY <3>2, <4>1, SpansTyped DEF Spans
    <3> QED BY <3>1, <3>2 DEF Opened, UiOK, Elsewhere
  <2>2. Spans(u)[span] \in SpanSet
    BY <1>2, <2>1, ElementOfSeq, LenProperties
  <2>3. ModalOK(m)
    BY <2>2 DEF SpanSet, ModalOK
  <2> HIDE DEF m
  <2>4. UiOK(v) /\ v.CurrentID = u.CurrentID
    BY <2>3, SetOK DEF Opened, UiOK, Fields
  <2>5. showIndexEditModal(u, span, text) = v
    BY <1>2 DEF showIndexEditModal, m
  <2> HIDE DEF v
  <2> QED BY <2>4, <2>5 DEF Opened
<1> QED BY <1>1, <1>2

LEMMA SwitchOK ==
  ASSUME NEW u, Opened(u), NEW span, NEW val
  PROVE  /\ Opened(onClickCrumbtrailIdx(u, span, val))
         /\ Opened(switch_to_prev_idx_edit(u, val))
         /\ Opened(switch_to_next_idx_edit(u, val))
<1> DEFINE closed == exitIndexEditModal(u, FALSE, val)
<1>1. Opened(closed)
  BY ExitOK
<1> HIDE DEF closed
<1>2. ASSUME NEW s, NEW t
      PROVE  Opened(showIndexEditModal(u, s, t)) /\ Opened(showIndexEditModal(closed, s, t))
  BY <1>1, ShowModalOK
<1> QED
  BY <1>2 DEF closed, onClickCrumbtrailIdx, switch_to_prev_idx_edit, switch_to_next_idx_edit

LEMMA LoadPageOK ==
  ASSUME NEW u, UiOK(u), NEW id \in Nodes
  PROVE  Opened(load_page(u, id)) /\ load_page(u, id).CurrentID = id
<1> DEFINE loaded == [u EXCEPT !.CurrentID = id, !.page = id, !.form = Fresh(id)]
<1>1. FormOK(Fresh(id)) /\ id \in Elsewhere
  BY FirstForms DEF Elsewhere
<1>2. UiOK(loaded) /\ loaded.CurrentID = id
  BY <1>1 DEF UiOK, HistoryOK, Fields
<1>3. load_page(u, id) = FillForm(Headed(loaded))
  BY DEF load_page
<1> HIDE DEF loaded
<1>4. Opened(loaded)
  BY <1>2 DEF Opened
<1>5. Opened(Headed(loaded)) /\ Headed(loaded).CurrentID = id
  BY <1>2, <1>4, HeadedOK, HeadedFrame DEF Frame, UiOK
<1> QED BY <1>3, <1>5, FillFormOK

LEMMA ShowInSidebarOK ==
  ASSUME NEW u, Opened(u), NEW id \in Nodes PROVE Opened(ShowInSidebar(u, id))
<1> DEFINE tree == select_node(expand_to_id(u.tree, id), id)
<1>1. tree \in Trees
  BY ExpandToSound, SelectSound DEF Opened, UiOK
<1>2. ShowInSidebar(u, id) = [u EXCEPT !.tree = tree, !.title = id]
  BY DEF ShowInSidebar
<1> HIDE DEF tree
<1>3. UiOK([u EXCEPT !.tree = tree, !.title = id])
  BY <1>1 DEF Opened, UiOK, HistoryOK, Fields
<1>4. [u EXCEPT !.tree = tree, !.title = id].CurrentID = u.CurrentID
  BY DEF Opened, UiOK, Fields
<1> QED BY <1>2, <1>3, <1>4 DEF Opened

LEMMA RefreshOK == ASSUME NEW u, Opened(u) PROVE Opened(refresh_url(u))
<1> DEFINE h    == u.history
           path == Path(u, u.CurrentID)
           cut  == SubSeq(h, 1, u.pos)
           S    == ToSet(h) \cup {path}
           new  == Append(cut, path)
           v    == [u EXCEPT !.history = new, !.pos = u.pos + 1]
<1>1. h \in Seq(S) /\ u.pos \in 1..Len(h) /\ Len(h) \in Nat
  BY LenProperties DEF Opened, UiOK, HistoryOK
<1>2. PathOK(path) /\ \A i \in DOMAIN h : PathOK(h[i])
  BY PathTyped DEF Opened, UiOK, Path, HistoryOK
<1>3. refresh_url(u) = v
  BY DEF refresh_url, Opened, UiOK, Fields
<1> HIDE DEF path, h
<1>4. /\ cut \in Seq(S) /\ Len(cut) = u.pos
      /\ \A i \in 1..u.pos : i \in DOMAIN h /\ cut[i] = h[i]
  BY <1>1, SubSeqProperties, LenProperties
<1>5. path \in S
  OBVIOUS
<1> HIDE DEF cut, S
<1>6. /\ new \in Seq(S) /\ DOMAIN new = 1..u.pos+1 /\ new[u.pos+1] = path
      /\ \A i \in 1..u.pos : new[i] = cut[i]
  BY <1>1, <1>4, <1>5, AppendProperties, LenProperties
<1> HIDE DEF new
<1>7. \A i \in DOMAIN new : PathOK(new[i])
  <2> SUFFICES ASSUME NEW i \in 1..u.pos+1 PROVE PathOK(new[i])
    BY <1>6
  <2>1. i = u.pos + 1 \/ i \in 1..u.pos
    BY <1>1
  <2> QED BY <1>2, <1>4, <1>6, <2>1
<1>8. new \in Seq(ToSet(new)) /\ u.pos + 1 \in DOMAIN new
  <2>1. u.pos + 1 \in 1..u.pos+1
    BY <1>1
  <2> QED BY <1>6, <2>1 DEF ToSet
<1>9. UiOK(v) /\ v.CurrentID = u.CurrentID
  BY <1>7, <1>8 DEF Opened, UiOK, HistoryOK, Fields
<1> QED BY <1>3, <1>9 DEF Opened

\* Indexes from paths are within their dimensions.
LEMMA DisplayedOK ==
  ASSUME NEW u, UiOK(u) PROVE Opened(load_page_via_url(u))
<1> DEFINE parsed == parse_path(u.history[u.pos])
           idxs   == apply_idx_stack(u.idxs, parsed.id, parsed.stack)
           at     == [u EXCEPT !.CurrentID = parsed.id, !.idxs = idxs]
           home   == [u EXCEPT !.CurrentID = 0]
           start  == [home EXCEPT !.history[home.pos] = NoPath]
<1>1. load_page_via_url(u) = IF parsed = NoPosition THEN start ELSE patch_url_path(at)
  <2>1. start = [u EXCEPT !.CurrentID = 0, !.history[u.pos] = NoPath]
    BY DEF UiOK, Fields
  <2>2. at = [u EXCEPT !.CurrentID = parsed.id,
                       !.idxs = apply_idx_stack(@, parsed.id, parsed.stack)]
    OBVIOUS
  <2> HIDE DEF at, start
  <2> QED BY <2>1, <2>2 DEF load_page_via_url, Displayed
<1>2. Opened(start)
  <2>1. 0 \in Nodes
    BY TreeAssumption
  <2>2. UiOK(home) /\ home.CurrentID = 0
    BY <2>1, SetOK DEF UiOK, Fields, Elsewhere
  <2>3. PathOK(NoPath)
    BY DEF PathOK, NoPath, ToSet
  <2> HIDE DEF home
  <2>4. HistoryOK(start)
    BY <2>2, <2>3, HistoryPatched DEF UiOK
  <2>5. /\ DOMAIN start = Fields /\ start.CurrentID = home.CurrentID /\ start.page = home.page
        /\ start.crumbs = home.crumbs /\ start.idxs = home.idxs
        /\ start.registry = home.registry /\ start.form = home.form
        /\ start.tree = home.tree /\ start.modal = home.modal
    BY <2>2 DEF UiOK, Fields
  <2> HIDE DEF start
  <2> QED BY <2>1, <2>2, <2>4, <2>5 DEF Opened, UiOK
<1>3. ASSUME parsed # NoPosition PROVE Opened(at)
  <2>1. PathOK(u.history[u.pos])
    BY DEF UiOK, HistoryOK
  <2>2. Placed(parsed.id, parsed.stack)
    BY <1>3, <2>1, ParsePlaced
  <2> HIDE DEF parsed
  <2>3. IdxsOK(idxs) /\ parsed.id \in Nodes
    BY <2>2, ApplyOK DEF UiOK, Placed
  <2> HIDE DEF idxs
  <2>4. UiOK(at) /\ at.CurrentID = parsed.id
    BY <2>3 DEF UiOK, HistoryOK, Fields, Elsewhere
  <2> QED BY <2>3, <2>4 DEF Opened
<1> HIDE DEF at, start, parsed
<1> QED BY <1>1, <1>2, <1>3, PatchOK

LEMMA EditedOK ==
  ASSUME NEW u, Opened(u), NEW outcome, OutcomeOK(outcome) PROVE Opened(Edited(u, outcome))
<1> DEFINE key == addr_key(u)
           reg == IF outcome.saved THEN save_reg_state(u.registry, key, outcome.form.reg)
                  ELSE u.registry
           v   == [u EXCEPT !.form = outcome.form, !.registry = reg]
<1>1. Edited(u, outcome) = v
  BY DEF Edited, Opened, UiOK, Fields
<1>2. u.registry \in [DOMAIN u.registry -> Nat] /\ FormOK(outcome.form)
  BY DEF Opened, UiOK, OutcomeOK
<1> HIDE DEF key
<1>3. reg \in [DOMAIN reg -> Nat]
  <2>1. CASE ~outcome.saved
    BY <1>2, <2>1
  <2>2. CASE outcome.saved
    <3> DEFINE r == outcome.form.reg
               D == {key} \cup DOMAIN u.registry
    <3>1. r \in Nat
      BY <2>2 DEF OutcomeOK
    <3>2. reg = [x \in D |-> IF x = key THEN r ELSE u.registry[x]]
      BY <2>2 DEF save_reg_state
    <3> HIDE DEF r, reg, D
    <3>3. DOMAIN reg = D
      BY <3>2
    <3>4. \A x \in D : reg[x] \in Nat
      BY <1>2, <3>1, <3>2 DEF D
    <3> QED BY <3>2, <3>3, <3>4
  <2> QED BY <2>1, <2>2
<1> HIDE DEF reg
<1>4. UiOK(v) /\ v.CurrentID = u.CurrentID
  BY <1>2, <1>3 DEF Opened, UiOK, HistoryOK, Fields
<1> QED BY <1>1, <1>4 DEF Opened

LEMMA ToNextOK ==
  ASSUME NEW u, Opened(u), NEW id PROVE Opened(ToNext(u, id))
<1> DEFINE idxs == reset_indexes_to_next(u.idxs, id, u.CurrentID)
<1>1. IdxsOK(idxs)
  BY ResetOK DEF reset_indexes_to_next, Opened, UiOK
<1>2. ToNext(u, id) = [u EXCEPT !.idxs = idxs]
  BY DEF ToNext
<1> HIDE DEF idxs
<1>3. UiOK([u EXCEPT !.idxs = idxs]) /\ [u EXCEPT !.idxs = idxs].CurrentID = u.CurrentID
  BY <1>1, SetOK DEF Opened, UiOK, Fields
<1> QED BY <1>2, <1>3 DEF Opened

LEMMA TreeOK ==
  ASSUME NEW u, Opened(u), NEW tree \in Trees PROVE Opened([u EXCEPT !.tree = tree])
BY SetOK DEF Opened, UiOK, Fields

-----------------------------------------------------------------------------
(* Paths lead back to where they come from.                                *)

\* Among siblings a name finds the node that has it.
LEMMA NameFinds ==
  ASSUME NEW S, NEW ids \in Seq(S), NEW n \in ToSet(ids),
         \A m \in S : Tree[m].name = Tree[n].name => m = n
  PROVE  FirstNamed(ids, Tree[n].name) = n
<1> DEFINE hits == {i \in DOMAIN ids : Tree[ids[i]].name = Tree[n].name}
<1>1. hits \in SUBSET Nat /\ DOMAIN ids = 1..Len(ids)
  BY LenProperties
<1>2. FirstNamed(ids, Tree[n].name) = IF hits = {} THEN NoNode ELSE ids[Min(hits)]
  BY DEF FirstNamed
<1>3. PICK k \in DOMAIN ids : ids[k] = n
  BY DEF ToSet
<1>4. k \in hits
  BY <1>3
<1>5. \A i \in hits : ids[i] = n
  <2> SUFFICES ASSUME NEW i \in hits PROVE ids[i] = n
    OBVIOUS
  <2>1. ids[i] \in S /\ Tree[ids[i]].name = Tree[n].name
    BY <1>1, ElementOfSeq
  <2> QED BY <2>1
<1> HIDE DEF hits
<1>6. PICK m \in hits : \A i \in hits : m <= i
  BY <1>1, <1>4, LeastMember
<1>7. Min(hits) \in hits
  BY <1>6 DEF Min
<1> QED BY <1>2, <1>4, <1>5, <1>7

LEMMA RootFound ==
  ASSUME NEW n \in Nodes, IsRoot(n) PROVE FirstNamed(Roots, Tree[n].name) = n
<1> DEFINE S == {m \in Nodes : Tree[m].parent = NoNode}
<1>1. Roots \in Seq(S)
  BY TreeAssumption
<1>2. n \in ToSet(Roots) /\ \A m \in S : Tree[m].name = Tree[n].name => m = n
  BY TreeAssumption DEF IsRoot
<1> HIDE DEF S
<1> QED BY <1>1, <1>2, NameFinds

LEMMA ChildFound ==
  ASSUME NEW n \in Nodes, ~IsRoot(n)
  PROVE  get_child_by_name(Tree[n].parent, Tree[n].name) = n
<1> DEFINE p == Tree[n].parent
           S == {m \in Nodes : Tree[m].parent = p}
<1>1. p \in Nodes /\ Tree[p].children \in Seq(S)
  BY TreeAssumption DEF IsRoot
<1>2. n \in ToSet(Tree[p].children) /\ \A m \in S : Tree[m].name = Tree[n].name => m = n
  BY TreeAssumption DEF IsRoot
<1>3. get_child_by_name(p, Tree[n].name) = FirstNamed(Tree[p].children, Tree[n].name)
  BY DEF get_child_by_name
<1> HIDE DEF S, p
<1>4. FirstNamed(Tree[p].children, Tree[n].name) = n
  BY <1>1, <1>2, NameFinds
<1> QED BY <1>3, <1>4 DEF p

\* Indexes in range stay as they are.
LEMMA SanitizeKeeps ==
  ASSUME NEW id \in Nodes, NEW ix \in IdxRange[id] PROVE Sanitize(id, ix) = ix
<1> DEFINE dims == Tree[id].dims
           at(d) == IF d > Len(ix) THEN 0 ELSE Min({ix[d], dims[d] - 1})
<1>1. Sanitize(id, ix) = [d \in DOMAIN dims |-> at(d)]
  BY DEF Sanitize
<1>2. /\ DOMAIN dims = 1..Len(dims) /\ Len(dims) \in Nat
      /\ \A d \in DOMAIN dims : d \in Nat \ {0} /\ dims[d] \in Nat \ {0}
  BY Dimensions
<1>3. ix \in [DOMAIN dims -> Nat] /\ \A d \in DOMAIN dims : ix[d] < dims[d]
  BY IdxRangeIs
<1>4. ix \in Seq(Nat) /\ Len(ix) = Len(dims)
  <2>1. ix \in Seq(Nat) /\ DOMAIN ix = 1..Len(dims)
    BY <1>2, <1>3
  <2> QED BY <1>2, <2>1, LenProperties
<1>5. ASSUME NEW d \in DOMAIN dims PROVE at(d) = ix[d]
  <2> DEFINE T == {ix[d], dims[d] - 1}
  <2>1. at(d) = Min(T)
    BY <1>2, <1>4
  <2>2. ix[d] \in Nat /\ dims[d] - 1 \in Nat /\ ix[d] <= dims[d] - 1
    BY <1>2, <1>3
  <2>3. ix[d] \in T /\ \A k \in T : ix[d] <= k
    BY <2>2
  <2>4. \A m \in T : (\A k \in T : m <= k) => m = ix[d]
    BY <2>2
  <2> HIDE DEF T, at, dims
  <2>5. Min(T) = ix[d]
    BY <2>3, <2>4 DEF Min
  <2> QED BY <2>1, <2>5
<1> HIDE DEF at
<1>6. [d \in DOMAIN dims |-> at(d)] = [d \in DOMAIN dims |-> ix[d]]
  BY <1>5
<1> HIDE DEF dims
<1> QED BY <1>1, <1>3, <1>6

\* The path of a position is parsed into that position.
LEMMA LeadsBack == ASSUME NEW idxs, IdxsOK(idxs) PROVE PathsLeadBack(idxs)
<1> SUFFICES ASSUME NEW id \in Nodes
             PROVE  parse_path(get_path(idxs, id)) =
                      [id |-> id, stack |-> get_current_idx_stack(idxs, id)]
  BY DEF PathsLeadBack
<1> DEFINE ids  == get_ids_in_path[id]
           path == get_path(idxs, id)
           n    == Len(ids)
<1>1. /\ ids \in Seq(Nodes) /\ n \in Nat \ {0} /\ DOMAIN ids = 1..n
      /\ \A i \in 1..n : ids[i] \in Nodes
  <2>1. ids \in Seq(Nodes)
    BY PathOfIds
  <2>2. n \in Nat \ {0}
    BY PathShape DEF PathBegins
  <2> QED BY <2>1, <2>2, LenProperties, ElementOfSeq
<1>2. path = [i \in 1..n |-> [name |-> Tree[ids[i]].name, idxs |-> idxs[ids[i]]]]
  BY <1>1 DEF get_path
<1>3. get_current_idx_stack(idxs, id) = [i \in 1..n |-> idxs[ids[i]]]
  BY <1>1 DEF get_current_idx_stack
<1>4. PathOK(path) /\ IsRoot(ids[1]) /\ ids[n] = id
  BY PathTyped, PathShape DEF PathBegins
<1>5. \A i \in 2..n : ~IsRoot(ids[i]) /\ Tree[ids[i]].parent = ids[i-1]
  <2> SUFFICES ASSUME NEW i \in 2..n PROVE ~IsRoot(ids[i]) /\ Tree[ids[i]].parent = ids[i-1]
    OBVIOUS
  <2> DEFINE j == i - 1
  <2>1. j \in 1..n-1 /\ j + 1 = i
    BY <1>1
  <2> HIDE DEF j
  <2>2. ~IsRoot(ids[j+1]) /\ Tree[ids[j+1]].parent = ids[j]
    BY <2>1, PathParents
  <2> QED BY <2>1, <2>2 DEF j
<1>6. Len(path) = n /\ path # <<>>
  <2>1. DOMAIN path = 1..n /\ path \in Seq(ToSet(path))
    BY <1>2, <1>4 DEF PathOK
  <2>2. Len(path) = n
    BY <1>1, <2>1, LenProperties
  <2> QED BY <1>1, <2>2
<1> HIDE DEF path, ids, n
<1>7. PICK walk \in [1..n -> Elsewhere] :
        /\ Walks(walk, path)
        /\ parse_path(path) =
             IF walk[n] = NoNode THEN NoPosition
             ELSE [id    |-> walk[n],
                   stack |-> [i \in 1..n |-> Sanitize(walk[i], path[i].idxs)]]
  BY <1>4, <1>6, WalkExists
<1> DEFINE D    == 1..n
           rank == [i \in D |-> i]
           G    == {i \in D : walk[i] = ids[i]}
<1>8. ASSUME NEW i \in D, \A j \in D : rank[j] < rank[i] => j \in G PROVE i \in G
  <2>1. CASE i = 1
    <3>1. walk[1] = FirstNamed(Roots, path[1].name) /\ path[1].name = Tree[ids[1]].name
      BY <1>2, <1>6, <1>7, <2>1 DEF Walks
    <3> QED BY <1>1, <1>4, <2>1, <3>1, RootFound
  <2>2. CASE i # 1
    <3>1. i \in 2..n /\ i - 1 \in D /\ rank[i-1] < rank[i]
      BY <1>1, <2>2
    <3>2. walk[i-1] = ids[i-1] /\ ids[i-1] \in Nodes
      BY <1>1, <1>8, <3>1
    <3>3. ids[i-1] # NoNode
      BY <3>2, NodeIds DEF NoNode
    <3>4. walk[i] = IF walk[i-1] = NoNode THEN NoNode
                    ELSE get_child_by_name(walk[i-1], path[i].name)
      BY <1>6, <1>7, <2>2 DEF Walks
    <3>5. walk[i] = get_child_by_name(Tree[ids[i]].parent, Tree[ids[i]].name)
      BY <1>2, <1>5, <3>1, <3>2, <3>3, <3>4
    <3> QED BY <1>1, <1>5, <3>1, <3>5, ChildFound
  <2> QED BY <2>1, <2>2
<1>9. rank \in [D -> Nat]
  BY <1>1
<1> HIDE DEF rank, G, D
<1>10. D \subseteq G
  BY <1>8, <1>9, RankInduction
<1>11. \A i \in 1..n : walk[i] = ids[i]
  BY <1>10 DEF D, G
<1>12. ASSUME NEW i \in 1..n PROVE Sanitize(walk[i], path[i].idxs) = idxs[ids[i]]
  <2>1. path[i].idxs = idxs[ids[i]] /\ ids[i] \in Nodes /\ idxs[ids[i]] \in IdxRange[ids[i]]
    BY <1>1, <1>2 DEF IdxsOK
  <2> QED BY <1>11, <2>1, SanitizeKeeps
<1>13. [i \in 1..n |-> Sanitize(walk[i], path[i].idxs)] = [i \in 1..n |-> idxs[ids[i]]]
  BY <1>12
<1>14. walk[n] = id /\ id # NoNode
  BY <1>1, <1>4, <1>11, NodeIds DEF NoNode
<1> QED BY <1>3, <1>7, <1>13, <1>14 DEF path

-----------------------------------------------------------------------------
(* What is shown agrees.                                                   *)

LEMMA SameAddress ==
  ASSUME NEW idxs, NEW other, NEW id \in Nodes, \A n \in Lineage[id] : other[n] = idxs[n]
  PROVE  get_absolute_addr(other, id) = get_absolute_addr(idxs, id)
<1> DEFINE seq  == get_ids_in_path[id]
           D    == DOMAIN seq
           P(h) == h = [s \in SUBSET D |-> IF s = {} THEN 0
                          ELSE LET x == Max(s) IN h[s \ {x}] + get_addr_offset(idxs, seq[x])]
           Q(h) == h = [s \in SUBSET D |-> IF s = {} THEN 0
                          ELSE LET x == Max(s) IN h[s \ {x}] + get_addr_offset(other, seq[x])]
           it   == CHOOSE h : P(h)
           at   == CHOOSE h : Q(h)
<1>1. get_absolute_addr(idxs, id) = it[D] /\ get_absolute_addr(other, id) = at[D]
  BY DEF get_absolute_addr, FoldLeft, MapThenFoldSet
<1>2. D \in SUBSET Nat /\ IsFiniteSet(D) /\ \A i \in D : seq[i] \in Lineage[id]
  <2>1. seq \in Seq(Nodes)
    BY PathOfIds
  <2>2. D \in SUBSET Nat /\ IsFiniteSet(D)
    BY <2>1, Interval, LenProperties
  <2> QED BY <2>2 DEF Lineage, ToSet
<1> HIDE DEF D, seq
<1>3. \A i \in D : get_addr_offset(other, seq[i]) = get_addr_offset(idxs, seq[i])
  BY <1>2 DEF get_addr_offset
<1>4. \A s \in SUBSET D : s # {} => Max(s) \in D
  BY <1>2, FS_Subset, GreatestMember
<1>5. ASSUME NEW h PROVE P(h) <=> Q(h)
  BY <1>3, <1>4
<1> HIDE DEF P, Q
<1>6. it = at
  BY <1>5
<1> QED BY <1>1, <1>6

\* Of two nodes on a path the later one has the earlier above it.
LEMMA PathChain ==
  ASSUME NEW id \in Nodes, NEW j \in 1..Len(get_ids_in_path[id]), NEW i \in 1..j
  PROVE  get_ids_in_path[id][i] \in Lineage[get_ids_in_path[id][j]]
<1> DEFINE p == get_ids_in_path[id]
           q == get_ids_in_path[p[j]]
<1>1. p \in Seq(Nodes) /\ PathBegins(id)
  BY PathOfIds, PathShape
<1>2. p[j] \in Nodes /\ Len(q) = j /\ q[i] = p[i]
  BY <1>1, ElementOfSeq DEF PathBegins
<1>3. q \in Seq(Nodes) /\ i \in 1..Len(q)
  BY <1>2, PathOfIds
<1> HIDE DEF q
<1>4. q[i] \in ToSet(q)
  BY <1>3, LenProperties DEF ToSet
<1> QED BY <1>2, <1>4 DEF Lineage, q

\* The common ancestor has all the others above it.
LEMMA CommonAncestor ==
  ASSUME NEW id1 \in Nodes, NEW id2
  PROVE  Lineage[id1] \cap Lineage[id2] \subseteq Lineage[get_common_ancestor(id1, id2)]
<1> DEFINE common == Lineage[id1] \cap Lineage[id2]
           p      == get_ids_in_path[id1]
           K      == {i \in DOMAIN p : p[i] \in common}
<1> SUFFICES ASSUME common # {}
             PROVE  \E n \in common : common \subseteq Lineage[n]
  BY DEF get_common_ancestor
<1>1. DOMAIN p = 1..Len(p) /\ Len(p) \in Nat
  BY PathOfIds, LenProperties
<1>2. \A c \in common : \E i \in DOMAIN p : c = p[i]
  BY DEF Lineage, ToSet
<1> HIDE DEF common
<1>3. K \in SUBSET Nat /\ K # {} /\ IsFiniteSet(K)
  <2>1. DOMAIN p \in SUBSET Nat /\ IsFiniteSet(DOMAIN p)
    BY <1>1, Interval
  <2> HIDE DEF p
  <2>2. K \subseteq DOMAIN p
    OBVIOUS
  <2>3. IsFiniteSet(K)
    BY <2>1, <2>2, FS_Subset
  <2>4. K # {}
    BY <1>2
  <2> QED BY <2>1, <2>2, <2>3, <2>4
<1> DEFINE k == Max(K)
<1>4. k \in K /\ \A i \in K : i <= k
  BY <1>3, GreatestMember
<1> HIDE DEF k
<1>5. ASSUME NEW c \in common PROVE c \in Lineage[p[k]]
  <2>1. PICK i \in DOMAIN p : c = p[i]
    BY <1>2
  <2>2. i \in K /\ i <= k /\ k \in 1..Len(p) /\ i \in 1..k
    BY <1>1, <1>4, <2>1
  <2> QED BY <2>1, <2>2, PathChain
<1> QED BY <1>4, <1>5

\* On the way to the next node the indexes of the path to this one stay.
LEMMA NextKeepsPath ==
  ASSUME NEW idxs, IdxsOK(idxs), NEW id \in Nodes, NEW current \in Nodes
  PROVE  \A n \in Lineage[current] : reset_indexes_to_next(idxs, id, current)[n] = idxs[n]
<1> SUFFICES ASSUME NEW n \in Lineage[current]
             PROVE  reset_indexes_to_next(idxs, id, current)[n] = idxs[n]
  OBVIOUS
<1>1. n \in Nodes
  BY LineageOf
<1>2. n \in Lineage[id] => n \in Lineage[get_common_ancestor(id, current)]
  BY CommonAncestor
<1> QED BY <1>1, <1>2 DEF reset_indexes_to_next, reset_indexes

-----------------------------------------------------------------------------
(* The mark of the sidebar.                                                *)

LEMMA MarkStays ==
  ASSUME NEW t \in Trees, NEW id
  PROVE  expand_node(t, id).selected = t.selected /\ collapse_node(t, id).selected = t.selected
BY DEF Trees, expand_node, collapse_node

LEMMA MarkStaysFolded ==
  ASSUME NEW t \in Trees, NEW id, NEW current \in Nodes
  PROVE  /\ collapse_all(t).selected = t.selected
         /\ t.selected = current => onClickTreeFold(t, id, current).selected = current
<1>1. collapse_all(t).selected = t.selected
  <2> DEFINE A == {s \in Trees : s.selected = t.selected}
  <2>1. \A s \in A, n \in Nodes : collapse_node(s, n) \in A
    BY CollapseSound, MarkStays
  <2>2. t \in A
    OBVIOUS
  <2> HIDE DEF A
  <2>3. collapse_all(t) \in A
    BY <2>1, <2>2, CollapseAllKeeps
  <2> QED BY <2>3 DEF A
<1>2. ASSUME t.selected = current PROVE onClickTreeFold(t, id, current).selected = current
  <2> DEFINE e == expand_node(t, id)
  <2>1. e.selected = current /\ collapse_node(t, id).selected = current
    BY <1>2, MarkStays
  <2>2. e = [t EXCEPT !.open = @ \cup {n \in {id} : HasChildren(n) /\ Exists(t, n)}]
    BY DEF expand_node
  <2>3. DOMAIN e = {"open", "marked", "selected"}
    BY <2>2 DEF Trees
  <2> HIDE DEF e
  <2>4. select_node(e, current).selected = current
    BY <2>1, <2>3 DEF select_node
  <2> QED BY <2>1, <2>4 DEF onClickTreeFold, e
<1> QED BY <1>1, <1>2

-----------------------------------------------------------------------------
(* Page, title, sidebar, crumb trail, address and URL.                     *)

\* What stands around the page is about the current position.
Titled(u) ==
  /\ u.crumbs = Crumbs(u) /\ u.addr = get_absolute_addr(u.idxs, u.CurrentID)
  /\ u.rdlfc = <<u.idxs[u.CurrentID],
                 IF IsRoot(u.CurrentID) THEN <<>> ELSE u.idxs[Above(u.CurrentID)]>>

Agree(u) ==
  /\ u = [f \in Fields |-> u[f]]
  /\ Titled(u)
  /\ u.page = u.CurrentID /\ u.title = u.CurrentID /\ u.tree.selected = u.CurrentID

UrlFits(u) ==
  \/ u.history[u.pos] = Path(u, u.CurrentID)
  \/ u.history[u.pos] = NoPath /\ u.CurrentID = 0

LEMMA AgreeHeaded == ASSUME NEW u, Agree(u) PROVE Headed(u) = u
<1> DEFINE a == update_crumbtrail(u)
           b == update_absolute_addr(a)
           c == update_rdlfc_indexes(b)
<1>1. u = [f \in Fields |-> u[f]] /\ Titled(u)
  BY DEF Agree
<1>2. a = [u EXCEPT !.crumbs = u.crumbs]
  BY <1>1 DEF Titled, update_crumbtrail
<1>3. a = u
  BY <1>1, <1>2
<1> HIDE DEF a
<1>4. b = [u EXCEPT !.addr = u.addr]
  BY <1>1, <1>3 DEF Titled, update_absolute_addr
<1>5. b = u
  BY <1>1, <1>4
<1> HIDE DEF b
<1>6. c = [u EXCEPT !.rdlfc = u.rdlfc]
  BY <1>1, <1>5 DEF Titled, update_rdlfc_indexes
<1>7. c = u
  BY <1>1, <1>6
<1> QED BY <1>7 DEF Headed, a, b

\* Fields that are left alone.
Alike(u, v) ==
  /\ v = [f \in Fields |-> v[f]]
  /\ v.CurrentID = u.CurrentID /\ v.idxs = u.idxs

SameUrl(u, v) == v.history = u.history /\ v.pos = u.pos

SameTitles(u, v) == v.crumbs = u.crumbs /\ v.addr = u.addr /\ v.rdlfc = u.rdlfc

SamePage(u, v) == v.page = u.page /\ v.title = u.title /\ v.tree = u.tree

LEMMA Untouched ==
  ASSUME NEW u, NEW v, Alike(u, v)
  PROVE  /\ SameTitles(u, v) /\ SamePage(u, v) /\ Agree(u) => Agree(v)
         /\ SameUrl(u, v) /\ UrlFits(u) => UrlFits(v)
<1>1. ASSUME SameTitles(u, v), SamePage(u, v), Agree(u) PROVE Agree(v)
  <2>1. Crumbs(v) = Crumbs(u)
    BY DEF Crumbs, Alike
  <2>2. Titled(v)
    BY <1>1, <2>1 DEF Titled, Agree, Alike, SameTitles
  <2> QED BY <1>1, <2>2 DEF Agree, Alike, SamePage
<1>2. SameUrl(u, v) /\ UrlFits(u) => UrlFits(v)
  BY DEF SameUrl, UrlFits, Alike, Path
<1> QED BY <1>1, <1>2

\* The head of the page is written for the current position.
LEMMA HeadedTitled ==
  ASSUME NEW u, DOMAIN u = Fields
  PROVE  LET v == Headed(u)
         IN  Alike(u, v) /\ Titled(v) /\ SameUrl(u, v) /\ SamePage(u, v)
<1> DEFINE a == update_crumbtrail(u)
           b == update_absolute_addr(a)
           c == update_rdlfc_indexes(b)
<1>1. /\ DOMAIN a = Fields /\ a.CurrentID = u.CurrentID /\ a.idxs = u.idxs
      /\ a.crumbs = Crumbs(u) /\ SameUrl(u, a) /\ SamePage(u, a)
  BY DEF update_crumbtrail, Fields, SameUrl, SamePage
<1> HIDE DEF a
<1>2. /\ DOMAIN b = Fields /\ b.CurrentID = a.CurrentID /\ b.idxs = a.idxs /\ b.crumbs = a.crumbs
      /\ b.addr = get_absolute_addr(a.idxs, a.CurrentID) /\ SameUrl(a, b) /\ SamePage(a, b)
  BY <1>1 DEF update_absolute_addr, Fields, SameUrl, SamePage
<1> HIDE DEF b
<1>3. /\ c = [f \in Fields |-> c[f]] /\ c.CurrentID = b.CurrentID /\ c.idxs = b.idxs
      /\ c.crumbs = b.crumbs /\ c.addr = b.addr
      /\ c.rdlfc = <<b.idxs[b.CurrentID],
                     IF IsRoot(b.CurrentID) THEN <<>> ELSE b.idxs[Above(b.CurrentID)]>>
      /\ SameUrl(b, c) /\ SamePage(b, c)
  BY <1>2 DEF update_rdlfc_indexes, Fields, SameUrl, SamePage
<1> HIDE DEF c
<1>4. Headed(u) = c
  BY DEF Headed, a, b, c
<1>5. Crumbs(c) = Crumbs(u)
  BY <1>1, <1>2, <1>3 DEF Crumbs
<1> QED BY <1>1, <1>2, <1>3, <1>4, <1>5 DEF Alike, Titled, SameUrl, SamePage

\* Filling the form touches the form only.
LEMMA FillFormAlike ==
  ASSUME NEW u, u = [f \in Fields |-> u[f]]
  PROVE  LET v == FillForm(u)
         IN  Alike(u, v) /\ SameTitles(u, v) /\ SameUrl(u, v) /\ SamePage(u, v)
BY DEF FillForm, Fields, Alike, SameTitles, SameUrl, SamePage

LEMMA PatchFits ==
  ASSUME NEW u, DOMAIN u = Fields, u.pos \in DOMAIN u.history
  PROVE  LET v == patch_url_path(u)
         IN  Alike(u, v) /\ SameTitles(u, v) /\ SamePage(u, v) /\ UrlFits(v)
<1> DEFINE v == patch_url_path(u)
<1>1. /\ Alike(u, v) /\ SameTitles(u, v) /\ SamePage(u, v) /\ v.pos = u.pos
      /\ v.history = [u.history EXCEPT ![u.pos] = Path(u, u.CurrentID)]
  BY DEF patch_url_path, Fields, Alike, SameTitles, SamePage
<1> HIDE DEF v
<1>2. UrlFits(v)
  BY <1>1 DEF UrlFits, Path, Alike
<1> QED BY <1>1, <1>2 DEF v

LEMMA TitledStays ==
  ASSUME NEW u, NEW v, Alike(u, v), SameTitles(u, v), Titled(u) PROVE Titled(v)
<1>1. Crumbs(v) = Crumbs(u)
  BY DEF Crumbs, Alike
<1> QED BY <1>1 DEF Titled, Alike, SameTitles

\* New indexes reach head, URL and form.
LEMMA Rewritten ==
  ASSUME NEW s, DOMAIN s = Fields, s.pos \in DOMAIN s.history
  PROVE  LET v == FillForm(patch_url_path(Headed(s)))
         IN  Alike(s, v) /\ Titled(v) /\ SamePage(s, v) /\ UrlFits(v)
<1> DEFINE h == Headed(s)
           p == patch_url_path(h)
           v == FillForm(p)
<1>1. Alike(s, h) /\ Titled(h) /\ SameUrl(s, h) /\ SamePage(s, h)
  BY HeadedTitled
<1> HIDE DEF h
<1>2. DOMAIN h = Fields /\ h.pos \in DOMAIN h.history
  BY <1>1 DEF Alike, SameUrl
<1>3. Alike(h, p) /\ SameTitles(h, p) /\ SamePage(h, p) /\ UrlFits(p)
  BY <1>2, PatchFits
<1> HIDE DEF p
<1>4. Titled(p)
  BY <1>1, <1>3, TitledStays
<1>5. Alike(p, v) /\ SameTitles(p, v) /\ SameUrl(p, v) /\ SamePage(p, v)
  BY <1>3, FillFormAlike DEF Alike
<1> HIDE DEF v
<1>6. Titled(v)
  BY <1>4, <1>5, TitledStays
<1>7. UrlFits(v)
  BY <1>3, <1>5, Untouched
<1>8. Alike(s, v) /\ SamePage(s, v)
  BY <1>1, <1>3, <1>5 DEF Alike, SamePage
<1> QED BY <1>6, <1>7, <1>8 DEF v, p, h

\* What a step that leaves the page keeps.
Keeps(u, v) ==
  v.CurrentID = u.CurrentID /\ (Agree(u) => Agree(v)) /\ (UrlFits(u) => UrlFits(v))

LEMMA KeepsThrough ==
  ASSUME NEW u, NEW v, NEW w, Keeps(u, v), Keeps(v, w) PROVE Keeps(u, w)
BY DEF Keeps

LEMMA KeepsSet ==
  ASSUME NEW u, DOMAIN u = Fields, NEW x
  PROVE  /\ Keeps(u, [u EXCEPT !.modal = x]) /\ Keeps(u, [u EXCEPT !.form = x])
         /\ Keeps(u, [u EXCEPT !.disp = x]) /\ Keeps(u, [u EXCEPT !.registry = x])
         /\ x.selected = u.tree.selected => Keeps(u, [u EXCEPT !.tree = x])
<1>1. ASSUME NEW v, Alike(u, v), SameTitles(u, v), SamePage(u, v), SameUrl(u, v)
      PROVE  Keeps(u, v)
  BY <1>1, Untouched DEF Keeps, Alike
<1>2. Keeps(u, [u EXCEPT !.modal = x])
  <2> DEFINE v == [u EXCEPT !.modal = x]
  <2>1. Alike(u, v) /\ SameTitles(u, v) /\ SamePage(u, v) /\ SameUrl(u, v)
    BY DEF Fields, Alike, SameTitles, SamePage, SameUrl
  <2> HIDE DEF v
  <2> QED BY <1>1, <2>1 DEF v
<1>3. Keeps(u, [u EXCEPT !.form = x])
  <2> DEFINE v == [u EXCEPT !.form = x]
  <2>1. Alike(u, v) /\ SameTitles(u, v) /\ SamePage(u, v) /\ SameUrl(u, v)
    BY DEF Fields, Alike, SameTitles, SamePage, SameUrl
  <2> HIDE DEF v
  <2> QED BY <1>1, <2>1 DEF v
<1>4. Keeps(u, [u EXCEPT !.disp = x])
  <2> DEFINE v == [u EXCEPT !.disp = x]
  <2>1. Alike(u, v) /\ SameTitles(u, v) /\ SamePage(u, v) /\ SameUrl(u, v)
    BY DEF Fields, Alike, SameTitles, SamePage, SameUrl
  <2> HIDE DEF v
  <2> QED BY <1>1, <2>1 DEF v
<1>5. Keeps(u, [u EXCEPT !.registry = x])
  <2> DEFINE v == [u EXCEPT !.registry = x]
  <2>1. Alike(u, v) /\ SameTitles(u, v) /\ SamePage(u, v) /\ SameUrl(u, v)
    BY DEF Fields, Alike, SameTitles, SamePage, SameUrl
  <2> HIDE DEF v
  <2> QED BY <1>1, <2>1 DEF v
<1>6. ASSUME x.selected = u.tree.selected PROVE Keeps(u, [u EXCEPT !.tree = x])
  <2> DEFINE v == [u EXCEPT !.tree = x]
  <2>1. Alike(u, v) /\ SameTitles(u, v) /\ SameUrl(u, v)
    BY DEF Fields, Alike, SameTitles, SameUrl
  <2>2. v.page = u.page /\ v.title = u.title /\ v.tree = x
    BY DEF Fields
  <2> HIDE DEF v
  <2>3. Titled(u) => Titled(v)
    BY <2>1, TitledStays
  <2>4. Agree(u) => Agree(v)
    BY <1>6, <2>1, <2>2, <2>3 DEF Agree, Alike
  <2>5. UrlFits(u) => UrlFits(v)
    BY <2>1, Untouched
  <2> QED BY <2>1, <2>4, <2>5 DEF Keeps, Alike, v
<1> QED BY <1>2, <1>3, <1>4, <1>5, <1>6

LEMMA ExitKeeps ==
  ASSUME NEW u, Opened(u), NEW cancel, NEW val
  PROVE  Keeps(u, exitIndexEditModal(u, cancel, val)) /\ Keeps(u, WindowClick(u, val))
<1> DEFINE m      == u.modal
           closed == [u EXCEPT !.modal = [m EXCEPT !.active = FALSE]]
           idxs   == [u.idxs EXCEPT ![m.id][m.dim] = val]
           set    == [closed EXCEPT !.idxs = idxs]
           out    == FillForm(patch_url_path(Headed(set)))
<1>1. DOMAIN u = Fields /\ u.pos \in DOMAIN u.history
  BY DEF Opened, UiOK, HistoryOK
<1>2. Keeps(u, closed) /\ DOMAIN closed = Fields /\ closed.idxs = u.idxs
  BY <1>1, KeepsSet DEF Fields
<1>3. /\ DOMAIN set = Fields /\ set.CurrentID = u.CurrentID /\ SamePage(u, set)
      /\ SameUrl(u, set)
  BY <1>1 DEF Fields, SamePage, SameUrl
<1>4. ASSUME NEW c
      PROVE  exitIndexEditModal(u, c, val) =
               IF ~m.active THEN u
               ELSE IF c \/ val \notin 0..Tree[m.id].dims[m.dim]-1 THEN closed
               ELSE out
  <2>1. closed = [u EXCEPT !.modal.active = FALSE]
    OBVIOUS
  <2>2. set = [closed EXCEPT !.idxs[m.id][m.dim] = val]
    BY <1>2
  <2> HIDE DEF closed, set
  <2> QED BY <2>1, <2>2 DEF exitIndexEditModal
<1> HIDE DEF closed, set, m
<1>5. Alike(set, out) /\ Titled(out) /\ SamePage(set, out) /\ UrlFits(out)
  BY <1>1, <1>3, Rewritten DEF SameUrl
<1> HIDE DEF out
<1>6. Agree(u) => Agree(out)
  BY <1>3, <1>5 DEF Agree, Alike, SamePage
<1>7. Keeps(u, out) /\ Keeps(u, u)
  BY <1>3, <1>5, <1>6 DEF Keeps, Alike
<1>8. ASSUME NEW c PROVE Keeps(u, exitIndexEditModal(u, c, val))
  BY <1>2, <1>4, <1>7
<1> QED BY <1>8 DEF WindowClick

LEMMA SwitchKeeps ==
  ASSUME NEW u, Opened(u), NEW span, NEW val
  PROVE  /\ Keeps(u, onClickCrumbtrailIdx(u, span, val))
         /\ Keeps(u, switch_to_prev_idx_edit(u, val))
         /\ Keeps(u, switch_to_next_idx_edit(u, val))
<1> DEFINE closed == exitIndexEditModal(u, FALSE, val)
<1>1. Opened(closed) /\ Keeps(u, closed) /\ Keeps(u, u)
  BY ExitOK, ExitKeeps DEF Keeps
<1> HIDE DEF closed
<1>2. ASSUME NEW v, Opened(v), NEW s, NEW t PROVE Keeps(v, showIndexEditModal(v, s, t))
  <2> DEFINE m == [active |-> TRUE, id |-> Spans(v)[s].id,
                   dim |-> Spans(v)[s].dim, span |-> s, text |-> t]
  <2>1. DOMAIN v = Fields /\ Keeps(v, v)
    BY <1>2 DEF Opened, UiOK, Keeps
  <2>2. showIndexEditModal(v, s, t) = v \/ showIndexEditModal(v, s, t) = [v EXCEPT !.modal = m]
    BY DEF showIndexEditModal
  <2> HIDE DEF m
  <2>3. Keeps(v, [v EXCEPT !.modal = m])
    BY <2>1, KeepsSet
  <2> QED BY <2>1, <2>2, <2>3
<1>3. ASSUME NEW s, NEW t
      PROVE  Keeps(u, showIndexEditModal(u, s, t)) /\ Keeps(u, showIndexEditModal(closed, s, t))
  BY <1>1, <1>2, KeepsThrough
<1> QED
  BY <1>1, <1>3 DEF closed, onClickCrumbtrailIdx, switch_to_prev_idx_edit, switch_to_next_idx_edit

LEMMA EditedKeeps ==
  ASSUME NEW u, Opened(u), NEW outcome PROVE Keeps(u, Edited(u, outcome))
<1> DEFINE reg == IF outcome.saved THEN save_reg_state(u.registry, addr_key(u), outcome.form.reg)
                  ELSE u.registry
           a   == [u EXCEPT !.form = outcome.form]
           b   == [a EXCEPT !.registry = reg]
<1>1. DOMAIN u = Fields
  BY DEF Opened, UiOK
<1>2. Keeps(u, a) /\ DOMAIN a = Fields
  BY <1>1, KeepsSet
<1>3. Edited(u, outcome) = b
  BY <1>1 DEF Edited, Fields
<1> HIDE DEF a, reg
<1>4. Keeps(a, b)
  BY <1>2, KeepsSet
<1> QED BY <1>2, <1>3, <1>4, KeepsThrough

\* On the way to another page, this one's indexes stay.
LEMMA ToNextKeeps ==
  ASSUME NEW u, Opened(u), NEW id \in Nodes PROVE Keeps(u, ToNext(u, id))
<1> DEFINE idxs == reset_indexes_to_next(u.idxs, id, u.CurrentID)
           cid  == u.CurrentID
           v    == [u EXCEPT !.idxs = idxs]
<1>1. DOMAIN u = Fields /\ IdxsOK(u.idxs) /\ cid \in Nodes
  BY DEF Opened, UiOK
<1>2. ToNext(u, id) = v
  BY DEF ToNext
<1>3. \A n \in Lineage[cid] : idxs[n] = u.idxs[n]
  BY <1>1, NextKeepsPath
<1> HIDE DEF idxs
<1>4. /\ v = [f \in Fields |-> v[f]] /\ v.CurrentID = cid /\ v.idxs = idxs
      /\ SameTitles(u, v) /\ SamePage(u, v) /\ SameUrl(u, v)
  BY <1>1 DEF Fields, SameTitles, SamePage, SameUrl
<1> HIDE DEF v, cid
<1>5. \A i \in DOMAIN get_ids_in_path[cid] : idxs[get_ids_in_path[cid][i]] = u.idxs[get_ids_in_path[cid][i]]
  BY <1>1, <1>3 DEF Lineage, ToSet
<1>6. /\ get_current_idx_stack(idxs, cid) = get_current_idx_stack(u.idxs, cid)
      /\ get_path(idxs, cid) = get_path(u.idxs, cid)
  BY <1>5 DEF get_current_idx_stack, get_path
<1>7. get_absolute_addr(idxs, cid) = get_absolute_addr(u.idxs, cid)
  BY <1>1, <1>3, SameAddress
<1>8. idxs[cid] = u.idxs[cid] /\ (~IsRoot(cid) => idxs[Above(cid)] = u.idxs[Above(cid)])
  <2>1. cid \in Lineage[cid]
    BY <1>1, LineageOf
  <2>2. ASSUME ~IsRoot(cid) PROVE Above(cid) \in Lineage[cid]
    <3>1. Above(cid) \in Nodes /\ Lineage[cid] = Lineage[Above(cid)] \cup {cid}
      BY <1>1, <2>2, LineageOf DEF Above
    <3> QED BY <3>1, LineageOf
  <2> QED BY <1>3, <2>1, <2>2
<1>9. u.CurrentID = cid
  BY DEF cid
<1>10. Titled(u) => Titled(v)
  BY <1>4, <1>6, <1>7, <1>8, <1>9 DEF Titled, Crumbs, SameTitles
<1>11. Agree(u) => Agree(v)
  BY <1>4, <1>9, <1>10 DEF Agree, SamePage
<1>12. UrlFits(u) => UrlFits(v)
  BY <1>4, <1>6, <1>9 DEF UrlFits, Path, SameUrl
<1> QED BY <1>2, <1>4, <1>9, <1>11, <1>12 DEF Keeps

\* A page that has come is all about its node, and a link's or a result's URL as well.
LEMMA ShownAgrees ==
  ASSUME NEW u, UiOK(u), NEW id \in Nodes
  PROVE  LET v == ShowInSidebar(load_page(u, id), id)
         IN  Agree(v) /\ v.idxs = u.idxs /\ SameUrl(u, v) /\ v.CurrentID = id
<1> DEFINE s == [u EXCEPT !.CurrentID = id, !.page = id, !.form = Fresh(id)]
           h == Headed(s)
           l == FillForm(h)
           tree == select_node(expand_to_id(l.tree, id), id)
           v == [l EXCEPT !.tree = tree, !.title = id]
<1>1. /\ DOMAIN s = Fields /\ s.CurrentID = id /\ s.page = id /\ s.idxs = u.idxs
      /\ s.tree = u.tree /\ SameUrl(u, s)
  BY DEF UiOK, Fields, SameUrl
<1> HIDE DEF s
<1>2. Alike(s, h) /\ Titled(h) /\ SameUrl(s, h) /\ SamePage(s, h)
  BY <1>1, HeadedTitled
<1> HIDE DEF h
<1>3. Alike(h, l) /\ SameTitles(h, l) /\ SameUrl(h, l) /\ SamePage(h, l)
  BY <1>2, FillFormAlike DEF Alike
<1> HIDE DEF l
<1>4. Titled(l)
  BY <1>2, <1>3, TitledStays
<1>5. /\ l = [f \in Fields |-> l[f]] /\ l.CurrentID = id /\ l.page = id /\ l.idxs = u.idxs
      /\ l.tree = u.tree /\ SameUrl(u, l)
  BY <1>1, <1>2, <1>3 DEF Alike, SamePage, SameUrl
<1>6. tree.selected = id
  <2> DEFINE e == expand_to_id(l.tree, id)
  <2>1. e \in Trees /\ Exists(e, id)
    BY <1>5, ExpandToSound DEF UiOK
  <2> HIDE DEF e
  <2>2. select_node(e, id).selected = id
    BY <2>1 DEF select_node, Trees
  <2> QED BY <2>2 DEF e
<1> HIDE DEF tree
<1>7. /\ v = [f \in Fields |-> v[f]] /\ v.CurrentID = id /\ v.page = id /\ v.title = id
      /\ v.tree = tree /\ v.idxs = u.idxs /\ SameTitles(l, v) /\ SameUrl(u, v)
  BY <1>5 DEF Fields, SameTitles, SameUrl
<1>8. ShowInSidebar(load_page(u, id), id) = v
  BY DEF ShowInSidebar, load_page, v, tree, l, h, s
<1> HIDE DEF v
<1>9. Alike(l, v)
  BY <1>5, <1>7 DEF Alike
<1>10. Titled(v)
  BY <1>4, <1>7, <1>9, TitledStays
<1>11. Agree(v)
  BY <1>6, <1>7, <1>10 DEF Agree
<1> QED BY <1>7, <1>8, <1>11

LEMMA RefreshFits ==
  ASSUME NEW u, Opened(u) PROVE Agree(u) => Agree(refresh_url(u)) /\ UrlFits(refresh_url(u))
<1> DEFINE path == Path(u, u.CurrentID)
           cut  == SubSeq(u.history, 1, u.pos)
           new  == Append(cut, path)
           v    == [u EXCEPT !.history = new, !.pos = u.pos + 1]
<1>1. DOMAIN u = Fields /\ u.history \in Seq(ToSet(u.history)) /\ u.pos \in 1..Len(u.history)
  BY LenProperties DEF Opened, UiOK, HistoryOK
<1>2. refresh_url(u) = v
  BY <1>1 DEF refresh_url, Fields
<1>3. cut \in Seq(ToSet(u.history)) /\ Len(cut) = u.pos
  BY <1>1, SubSeqProperties
<1> DEFINE S == ToSet(u.history) \cup {path}
<1> HIDE DEF cut
<1>4. cut \in Seq(S) /\ path \in S
  BY <1>3
<1> HIDE DEF path, S
<1>5. new[u.pos + 1] = path
  BY <1>3, <1>4, AppendProperties
<1> HIDE DEF new
<1>6. /\ Alike(u, v) /\ SameTitles(u, v) /\ SamePage(u, v)
      /\ v.history = new /\ v.pos = u.pos + 1
  BY <1>1 DEF Fields, Alike, SameTitles, SamePage
<1> HIDE DEF v
<1>7. v.history[v.pos] = Path(v, v.CurrentID)
  BY <1>5, <1>6 DEF Path, Alike, path
<1> QED BY <1>2, <1>6, <1>7, Untouched DEF UrlFits

\* Through the URL the page itself stays as it is, until the one asked for has come.
LEMMA DisplayedFits ==
  ASSUME NEW u, UiOK(u)
  PROVE  LET v == load_page_via_url(u)
         IN  /\ UrlFits(v) /\ v = [f \in Fields |-> v[f]]
             /\ SameTitles(u, v) /\ SamePage(u, v)
<1> DEFINE parsed == parse_path(u.history[u.pos])
           idxs   == apply_idx_stack(u.idxs, parsed.id, parsed.stack)
           at     == [u EXCEPT !.CurrentID = parsed.id, !.idxs = idxs]
           start  == [u EXCEPT !.CurrentID = 0, !.history[u.pos] = NoPath]
<1>1. load_page_via_url(u) = IF parsed = NoPosition THEN start ELSE patch_url_path(at)
  <2>1. at = [u EXCEPT !.CurrentID = parsed.id,
                       !.idxs = apply_idx_stack(@, parsed.id, parsed.stack)]
    OBVIOUS
  <2> HIDE DEF at
  <2> QED BY <2>1 DEF load_page_via_url, Displayed
<1>2. DOMAIN u = Fields /\ u.pos \in DOMAIN u.history
  BY DEF UiOK, HistoryOK
<1>3. /\ UrlFits(start) /\ start = [f \in Fields |-> start[f]]
      /\ SameTitles(u, start) /\ SamePage(u, start)
  <2>1. /\ start = [f \in Fields |-> start[f]] /\ start.CurrentID = 0 /\ start.pos = u.pos
        /\ start.history = [u.history EXCEPT ![u.pos] = NoPath]
        /\ SameTitles(u, start) /\ SamePage(u, start)
    BY <1>2 DEF Fields, SameTitles, SamePage
  <2> HIDE DEF start
  <2>2. start.history[start.pos] = NoPath
    BY <1>2, <2>1
  <2> QED BY <2>1, <2>2 DEF UrlFits
<1> HIDE DEF parsed, idxs
<1>4. DOMAIN at = Fields /\ SameTitles(u, at) /\ SamePage(u, at) /\ SameUrl(u, at)
  BY <1>2 DEF Fields, SameTitles, SamePage, SameUrl
<1> HIDE DEF at, start
<1>5. /\ Alike(at, patch_url_path(at)) /\ SameTitles(at, patch_url_path(at))
      /\ SamePage(at, patch_url_path(at)) /\ UrlFits(patch_url_path(at))
  BY <1>2, <1>4, PatchFits DEF SameUrl
<1> DEFINE v == patch_url_path(at)
<1>6. /\ UrlFits(v) /\ v = [f \in Fields |-> v[f]]
      /\ SameTitles(u, v) /\ SamePage(u, v)
  <2> HIDE DEF v
  <2> QED BY <1>4, <1>5 DEF Alike, SameTitles, SamePage, v
<1> QED BY <1>1, <1>3, <1>6

\* The same indexes along the path have the same address and the same headings.
LEMMA SameHeads ==
  ASSUME NEW idxs, NEW other, NEW id \in Nodes,
         get_current_idx_stack(other, id) = get_current_idx_stack(idxs, id)
  PROVE  /\ get_absolute_addr(other, id) = get_absolute_addr(idxs, id)
         /\ other[id] = idxs[id] /\ (~IsRoot(id) => other[Above(id)] = idxs[Above(id)])
<1> DEFINE ids == get_ids_in_path[id]
           f(x) == [i \in DOMAIN ids |-> x[ids[i]]]
<1>1. f(other) = f(idxs)
  BY DEF get_current_idx_stack
<1>2. ASSUME NEW i \in DOMAIN ids PROVE other[ids[i]] = idxs[ids[i]]
  <2>1. f(other)[i] = other[ids[i]] /\ f(idxs)[i] = idxs[ids[i]]
    OBVIOUS
  <2> QED BY <1>1, <2>1, Zenon
<1>3. \A n \in Lineage[id] : other[n] = idxs[n]
  BY <1>2 DEF Lineage, ToSet
<1> HIDE DEF ids
<1>4. id \in Lineage[id]
  BY LineageOf
<1>5. ~IsRoot(id) => Above(id) \in Lineage[id]
  <2> SUFFICES ASSUME ~IsRoot(id) PROVE Above(id) \in Lineage[id]
    OBVIOUS
  <2>1. Above(id) \in Nodes /\ Lineage[id] = Lineage[Above(id)] \cup {id}
    BY LineageOf DEF Above
  <2> QED BY <2>1, LineageOf
<1> QED BY <1>3, <1>4, <1>5, SameAddress

\* Back at the same node and the same indexes, nothing on the page is stale.
LEMMA SamePosition ==
  ASSUME NEW u, Agree(u), NEW v, v = [f \in Fields |-> v[f]], SameTitles(u, v), SamePage(u, v),
         v.CurrentID = u.CurrentID, v.CurrentID \in Nodes, v.crumbs = Crumbs(v)
  PROVE  Agree(v)
<1> DEFINE id == v.CurrentID
<1>1. u.CurrentID = id /\ Crumbs(v) = Crumbs(u) /\ id \in Nodes
  BY Zenon DEF Agree, Titled, SameTitles
<1>2. get_current_idx_stack(v.idxs, id) = get_current_idx_stack(u.idxs, id)
  BY <1>1 DEF Crumbs
<1> HIDE DEF id
<1>3. /\ get_absolute_addr(v.idxs, id) = get_absolute_addr(u.idxs, id)
      /\ v.idxs[id] = u.idxs[id] /\ (~IsRoot(id) => v.idxs[Above(id)] = u.idxs[Above(id)])
  BY <1>1, <1>2, SameHeads
<1>4. Titled(v)
  <2>1. /\ v.crumbs = Crumbs(v) /\ v.addr = get_absolute_addr(u.idxs, id)
        /\ v.rdlfc = <<u.idxs[id], IF IsRoot(id) THEN <<>> ELSE u.idxs[Above(id)]>>
        /\ v.CurrentID = id
    BY <1>1, Zenon DEF Titled, Agree, SameTitles, id
  <2> QED BY <1>3, <2>1 DEF Titled
<1> QED BY <1>4, Zenon DEF Agree, SamePage

-----------------------------------------------------------------------------
(* The search.                                                             *)

\* A result of search g, with indexes of the nodes above or without.
ResultOf(r, g) ==
  /\ r.gen = g /\ r.id \in Nodes
  /\ r.stack = NoStack \/ Placed(r.id, r.stack)

\* A sequence of results that search g has found.
Found(s, g) == s \in Seq(ToSet(s)) /\ \A r \in ToSet(s) : ResultOf(r, g)

LEMMA FoundBy ==
  ASSUME NEW g, NEW S, NEW s \in Seq(S), \A r \in S : ResultOf(r, g) PROVE Found(s, g)
<1>1. ToSet(s) \subseteq S /\ s \in Seq(ToSet(s))
  BY DEF ToSet
<1> QED BY <1>1 DEF Found

LEMMA FoundNothing == ASSUME NEW g PROVE Found(<<>>, g)
BY DEF Found, ToSet

LEMMA FoundOne ==
  ASSUME NEW g, NEW id \in Nodes, NEW anchor
  PROVE  Found(<<Result(g, id, NoStack, anchor)>>, g)
<1> DEFINE r == Result(g, id, NoStack, anchor)
           s == <<r>>
           S == {r}
<1>1. ResultOf(r, g)
  BY DEF Result, ResultOf
<1> HIDE DEF r
<1>2. s \in Seq(S) /\ \A q \in S : ResultOf(q, g)
  BY <1>1
<1> HIDE DEF s, S
<1>3. Found(s, g)
  BY <1>2, FoundBy
<1> QED BY <1>3 DEF s, r

LEMMA FoundMore ==
  ASSUME NEW g, NEW s, NEW t, Found(s, g), Found(t, g) PROVE Found(s \o t, g)
<1> DEFINE S == ToSet(s) \cup ToSet(t)
<1>1. s \in Seq(S) /\ t \in Seq(S) /\ \A r \in S : ResultOf(r, g)
  BY DEF Found
<1> HIDE DEF S
<1>2. s \o t \in Seq(S)
  BY <1>1
<1> QED BY <1>1, <1>2, FoundBy

\* What one node adds, itself or its fields, one after the other.
FieldResults(g, id) == {Result(g, id, NoStack, f.name) : f \in ToSet(Tree[id].fields)}
FieldAdds(g, id, keywords, s, name) ==
  IF test_path(PathTokens[id] \o TokensOf[name], keywords)
  THEN Append(s, Result(g, id, NoStack, name)) ELSE s

FieldWalk(g, id, keywords, v) ==
  /\ v \in [0..Len(Tree[id].fields) -> Seq(FieldResults(g, id))]
  /\ v[0] = <<>>
  /\ PathHits(g, id, keywords) = IF test_path(PathTokens[id], keywords)
                                 THEN <<Result(g, id, NoStack, NoAnchor)>>
                                 ELSE v[Len(Tree[id].fields)]
  /\ \A i \in 1..Len(Tree[id].fields) :
       v[i] = FieldAdds(g, id, keywords, v[i-1], Tree[id].fields[i].name)

LEMMA FieldSteps ==
  ASSUME NEW g, NEW id \in Nodes, NEW keywords PROVE \E v : FieldWalk(g, id, keywords, v)
<1> DEFINE fields == Tree[id].fields
           n      == Len(fields)
           D      == DOMAIN fields
           op(s, f) == FieldAdds(g, id, keywords, s, f.name)
           P(h) == h = [s \in SUBSET D |->
                          IF s = {} THEN <<>>
                          ELSE LET x == Max(s) IN op(h[s \ {x}], fields[x])]
           it   == CHOOSE h : P(h)
           R == FieldResults(g, id)
           A == Seq(R)
           F == [p \in A \X D |-> op(p[1], fields[p[2]])]
<1>1. /\ n \in Nat /\ D = 1..n /\ D \in SUBSET Nat /\ IsFiniteSet(D)
      /\ \A x \in D : fields[x] \in ToSet(fields)
  <2>1. fields \in Seq(ToSet(fields))
    BY TreeAssumption
  <2> HIDE DEF fields
  <2>2. D = 1..Len(fields) /\ Len(fields) \in Nat
    BY <2>1
  <2>3. \A x \in D : fields[x] \in ToSet(fields)
    BY DEF ToSet
  <2> QED BY <2>2, <2>3, Interval
<1>2. \A a \in A : \A x \in D : op(a, fields[x]) \in A
  <2> SUFFICES ASSUME NEW a \in A, NEW x \in D PROVE op(a, fields[x]) \in A
    OBVIOUS
  <2> DEFINE r == Result(g, id, NoStack, fields[x].name)
  <2>1. r \in R
    BY <1>1 DEF FieldResults
  <2> HIDE DEF R, r
  <2>2. Append(a, r) \in A
    BY <2>1
  <2> QED BY <2>2 DEF r, FieldAdds
<1>3. <<>> \in A
  BY DEF A
<1>5. PathHits(g, id, keywords) = IF test_path(PathTokens[id], keywords)
                                 THEN <<Result(g, id, NoStack, NoAnchor)>> ELSE it[D]
  BY DEF PathHits, FoldLeft, MapThenFoldSet, FieldAdds
<1> HIDE DEF op, A, D, n
<1>6. F \in [A \X D -> A]
  BY <1>2
<1> HIDE DEF F
<1>7. PICK k \in [SUBSET D -> A] : FoldOf(D, F, <<>>, k)
  BY <1>1, <1>3, <1>6, FoldRecursion
<1>8. ASSUME NEW s \in SUBSET D, s # {}
      PROVE  Max(s) \in D /\ s \ {Max(s)} \in SUBSET D
  BY <1>1, <1>8, FS_Subset, GreatestMember
<1>9. P(k)
  <2> SUFFICES ASSUME NEW s \in SUBSET D, s # {}
               PROVE  FoldStep(F, <<>>, k, s) = op(k[s \ {Max(s)}], fields[Max(s)])
    BY <1>7 DEF FoldOf, FoldStep
  <2>1. <<k[s \ {Max(s)}], Max(s)>> \in A \X D
    BY <1>7, <1>8
  <2> QED BY <1>7, <1>8, <2>1 DEF FoldOf, FoldStep, F
<1>10. P(it)
  BY <1>9
<1> HIDE DEF it
<1>11. ASSUME NEW s \in SUBSET D, s # {} /\ it[s \ {Max(s)}] \in A
       PROVE  it[s] = F[<<it[s \ {Max(s)}], Max(s)>>]
  <2>1. it[s] = op(it[s \ {Max(s)}], fields[Max(s)])
    BY <1>10, <1>11
  <2>2. <<it[s \ {Max(s)}], Max(s)>> \in A \X D
    BY <1>8, <1>11
  <2> QED BY <2>1, <2>2 DEF F
<1>12. it[{}] = <<>>
  BY <1>10
<1> HIDE DEF P
<1>13. StepsTo(A, n, <<>>, F, it[D])
  BY <1>1, <1>3, <1>6, <1>11, <1>12, FoldSteps
<1>14. PICK v \in [0..n -> A] :
         v[0] = <<>> /\ v[n] = it[D] /\ \A i \in 1..n : v[i] = F[<<v[i-1], i>>]
  BY <1>13 DEF StepsTo
<1>15. ASSUME NEW i \in 1..n PROVE v[i] = op(v[i-1], fields[i])
  <2>1. <<v[i-1], i>> \in A \X D
    BY <1>1
  <2> QED BY <1>14, <2>1 DEF F
<1> QED BY <1>5, <1>14, <1>15 DEF A, n, op, FieldWalk

LEMMA PathHitsFound ==
  ASSUME NEW g, NEW id \in Nodes, NEW keywords PROVE Found(PathHits(g, id, keywords), g)
<1> DEFINE R == FieldResults(g, id)
           n == Len(Tree[id].fields)
<1>0. PICK v : FieldWalk(g, id, keywords, v)
  BY FieldSteps, Zenon
<1>1. /\ v \in [0..n -> Seq(R)]
      /\ PathHits(g, id, keywords) = IF test_path(PathTokens[id], keywords)
                                     THEN <<Result(g, id, NoStack, NoAnchor)>> ELSE v[n]
  BY <1>0 DEF FieldWalk
<1>2. \A q \in R : ResultOf(q, g)
  BY DEF FieldResults, Result, ResultOf
<1>3. n \in 0..n
  BY TreeAssumption, LenProperties
<1> HIDE DEF R, n
<1>4. Found(v[n], g)
  BY <1>1, <1>2, <1>3, FoundBy
<1> QED BY <1>1, <1>4, FoundOne

\* What a chunk of nodes adds, one after the other.
ChunkResults(g, first, last, keywords) ==
  UNION {ToSet(PathHits(g, id, keywords)) : id \in first..last}
NodeAdds(g, n, keywords, s, id) ==
  IF n + Len(s) >= MAX_PATH_RESULTS THEN s ELSE s \o PathHits(g, id, keywords)

ChunkWalk(g, first, last, n, keywords, v) ==
  /\ v \in [0..last-first+1 -> Seq(ChunkResults(g, first, last, keywords))]
  /\ v[0] = <<>> /\ v[last-first+1] = Chunk(g, first, last, n, keywords)
  /\ \A i \in 1..last-first+1 : v[i] = NodeAdds(g, n, keywords, v[i-1], first + i - 1)

LEMMA ChunkSteps ==
  ASSUME NEW g, NEW first \in Nat, NEW last \in first-1..number_of_ids-1, NEW n, NEW keywords
  PROVE  \E v : ChunkWalk(g, first, last, n, keywords, v)
<1> DEFINE ids == [i \in 1..last - first + 1 |-> first + i - 1]
           m   == last - first + 1
           D   == DOMAIN ids
           op(s, id) == NodeAdds(g, n, keywords, s, id)
           P(h) == h = [s \in SUBSET D |->
                          IF s = {} THEN <<>>
                          ELSE LET x == Max(s) IN op(h[s \ {x}], ids[x])]
           it   == CHOOSE h : P(h)
           R == ChunkResults(g, first, last, keywords)
           A == Seq(R)
           F == [p \in A \X D |-> op(p[1], ids[p[2]])]
<1>1. /\ m \in Nat /\ D = 1..m /\ D \in SUBSET Nat /\ IsFiniteSet(D)
      /\ \A x \in D : ids[x] = first + x - 1 /\ ids[x] \in first..last /\ ids[x] \in Nodes
  <2>1. Cardinality(Nodes) \in Nat /\ Nodes = 0..Cardinality(Nodes)-1
    BY TreeAssumption, FS_CardinalityType
  <2>2. m \in Nat /\ D = 1..m /\ \A x \in D : ids[x] = first + x - 1
    BY <2>1 DEF number_of_ids
  <2> HIDE DEF ids
  <2>3. \A x \in D : ids[x] \in first..last /\ ids[x] \in Nodes
    BY <2>1, <2>2 DEF number_of_ids
  <2> QED BY <2>2, <2>3, Interval
<1>2. \A a \in A : \A x \in D : op(a, ids[x]) \in A
  <2> SUFFICES ASSUME NEW a \in A, NEW x \in D PROVE op(a, ids[x]) \in A
    OBVIOUS
  <2> DEFINE t == PathHits(g, ids[x], keywords)
  <2>1. t \in Seq(ToSet(t))
    BY <1>1, PathHitsFound DEF Found
  <2>2. ToSet(t) \subseteq R
    BY <1>1 DEF ChunkResults
  <2> HIDE DEF R, t
  <2>3. a \o t \in A
    BY <2>1, <2>2
  <2> QED BY <2>3 DEF t, NodeAdds
<1>3. <<>> \in A
  BY DEF A
<1>5. Chunk(g, first, last, n, keywords) = it[D]
  BY DEF Chunk, FoldLeft, MapThenFoldSet, NodeAdds
<1> HIDE DEF op, A, D, R, m, ids
<1>6. F \in [A \X D -> A]
  BY <1>2
<1> HIDE DEF F
<1>7. PICK k \in [SUBSET D -> A] : FoldOf(D, F, <<>>, k)
  BY <1>1, <1>3, <1>6, FoldRecursion
<1>8. ASSUME NEW s \in SUBSET D, s # {}
      PROVE  Max(s) \in D /\ s \ {Max(s)} \in SUBSET D
  BY <1>1, <1>8, FS_Subset, GreatestMember
<1>9. P(k)
  <2> SUFFICES ASSUME NEW s \in SUBSET D, s # {}
               PROVE  FoldStep(F, <<>>, k, s) = op(k[s \ {Max(s)}], ids[Max(s)])
    BY <1>7 DEF FoldOf, FoldStep
  <2>1. <<k[s \ {Max(s)}], Max(s)>> \in A \X D
    BY <1>7, <1>8
  <2> QED BY <1>7, <1>8, <2>1 DEF FoldOf, FoldStep, F
<1>10. P(it)
  BY <1>9
<1> HIDE DEF it
<1>11. ASSUME NEW s \in SUBSET D, s # {} /\ it[s \ {Max(s)}] \in A
       PROVE  it[s] = F[<<it[s \ {Max(s)}], Max(s)>>]
  <2>1. it[s] = op(it[s \ {Max(s)}], ids[Max(s)])
    BY <1>10, <1>11
  <2>2. <<it[s \ {Max(s)}], Max(s)>> \in A \X D
    BY <1>8, <1>11
  <2> QED BY <2>1, <2>2 DEF F
<1>12. it[{}] = <<>>
  BY <1>10
<1> HIDE DEF P
<1>13. StepsTo(A, m, <<>>, F, it[D])
  BY <1>1, <1>3, <1>6, <1>11, <1>12, FoldSteps
<1>14. PICK v \in [0..m -> A] :
         v[0] = <<>> /\ v[m] = it[D] /\ \A i \in 1..m : v[i] = F[<<v[i-1], i>>]
  BY <1>13 DEF StepsTo
<1>15. ASSUME NEW i \in 1..m PROVE v[i] = op(v[i-1], ids[i])
  <2>1. <<v[i-1], i>> \in A \X D
    BY <1>1
  <2> QED BY <1>14, <2>1 DEF F
<1>16. \A i \in 1..m : v[i] = op(v[i-1], first + i - 1)
  BY <1>1, <1>15
<1> QED BY <1>5, <1>14, <1>16 DEF A, R, m, op, ChunkWalk

LEMMA ChunkFound ==
  ASSUME NEW g, NEW first \in Nat, NEW last \in first-1..number_of_ids-1, NEW n, NEW keywords
  PROVE  Found(Chunk(g, first, last, n, keywords), g)
<1> DEFINE R == ChunkResults(g, first, last, keywords)
           m == last - first + 1
<1>0. PICK v : ChunkWalk(g, first, last, n, keywords, v)
  BY ChunkSteps, Zenon
<1>1. v \in [0..m -> Seq(R)] /\ v[m] = Chunk(g, first, last, n, keywords)
  BY <1>0 DEF ChunkWalk
<1>2. number_of_ids \in Nat
  BY TreeAssumption, FS_CardinalityType DEF number_of_ids
<1>3. m \in 0..m
  BY <1>2
<1>4. \A q \in R : ResultOf(q, g)
  <2>1. ASSUME NEW id \in first..last
        PROVE  \A q \in ToSet(PathHits(g, id, keywords)) : ResultOf(q, g)
    <3>1. id \in Nodes
      BY TreeAssumption, FS_CardinalityType DEF number_of_ids
    <3> QED BY <3>1, PathHitsFound DEF Found
  <2> QED BY <2>1 DEF ChunkResults
<1> HIDE DEF R, m
<1>5. Chunk(g, first, last, n, keywords) \in Seq(R)
  BY <1>1, <1>3
<1> QED BY <1>4, <1>5, FoundBy

\* What an address adds.
LEMMA AddressHitsFound ==
  ASSUME NEW g, NEW addr \in Int PROVE Found(AddressHits(g, addr), g)
<1> DEFINE positions == [i \in DOMAIN Roots |-> lookup_by_address(addr, Roots[i])]
           D == DOMAIN positions
           op(s, p) == IF p = NoPosition THEN s ELSE Append(s, Result(g, p.id, p.stack, NoAnchor))
           P(h) == h = [s \in SUBSET D |->
                          IF s = {} THEN <<>>
                          ELSE LET x == Max(s) IN op(h[s \ {x}], positions[x])]
           it   == CHOOSE h : P(h)
           R == {Result(g, positions[i].id, positions[i].stack, NoAnchor) :
                   i \in {j \in D : positions[j] # NoPosition}}
           A == Seq(R)
           F == [p \in A \X D |-> op(p[1], positions[p[2]])]
<1>0. AddressHits(g, addr) = it[D]
  BY DEF AddressHits, PositionsFound, FoldLeft, MapThenFoldSet
<1>1. D \in SUBSET Nat /\ IsFiniteSet(D)
  <2>1. D = 1..Len(Roots) /\ Len(Roots) \in Nat
    BY TreeAssumption
  <2> QED BY <2>1, Interval
<1>1a. \A i \in D : positions[i] # NoPosition => Placed(positions[i].id, positions[i].stack)
  <2> SUFFICES ASSUME NEW i \in D, positions[i] # NoPosition
               PROVE  Placed(positions[i].id, positions[i].stack)
    OBVIOUS
  <2>1. Roots \in Seq({n \in Nodes : Tree[n].parent = NoNode}) /\ i \in DOMAIN Roots
    BY TreeAssumption
  <2>2. Roots[i] \in {n \in Nodes : Tree[n].parent = NoNode}
    BY <2>1, ElementOfSeq, LenProperties
  <2>3. Roots[i] \in Nodes /\ IsRoot(Roots[i]) /\ positions[i] = lookup_by_address(addr, Roots[i])
    BY <2>1, <2>2 DEF IsRoot
  <2> HIDE DEF positions
  <2> QED BY <2>3, LookupPlaced
<1> HIDE DEF positions
<1>2. \A a \in A : \A x \in D : op(a, positions[x]) \in A
  <2> SUFFICES ASSUME NEW a \in A, NEW x \in D, positions[x] # NoPosition
               PROVE  op(a, positions[x]) \in A
    OBVIOUS
  <2> DEFINE r == Result(g, positions[x].id, positions[x].stack, NoAnchor)
  <2>1. r \in R
    OBVIOUS
  <2> HIDE DEF R, r
  <2>2. Append(a, r) \in A
    BY <2>1
  <2> QED BY <2>2 DEF r
<1>3. <<>> \in A
  BY DEF A
<1>4. \A q \in R : ResultOf(q, g)
  BY <1>1a DEF Result, ResultOf, Placed
<1> HIDE DEF op, A, D, R
<1>6. F \in [A \X D -> A]
  BY <1>2
<1> HIDE DEF F
<1>7. PICK k \in [SUBSET D -> A] : FoldOf(D, F, <<>>, k)
  BY <1>1, <1>3, <1>6, FoldRecursion
<1>8. ASSUME NEW s \in SUBSET D, s # {}
      PROVE  Max(s) \in D /\ s \ {Max(s)} \in SUBSET D
  BY <1>1, <1>8, FS_Subset, GreatestMember
<1>9. P(k)
  <2> SUFFICES ASSUME NEW s \in SUBSET D, s # {}
               PROVE  FoldStep(F, <<>>, k, s) = op(k[s \ {Max(s)}], positions[Max(s)])
    BY <1>7 DEF FoldOf, FoldStep
  <2>1. <<k[s \ {Max(s)}], Max(s)>> \in A \X D
    BY <1>7, <1>8
  <2> QED BY <1>7, <1>8, <2>1 DEF FoldOf, FoldStep, F
<1>10. P(it)
  BY <1>9
<1> HIDE DEF it
<1>11. \A s \in SUBSET D : it[s] \in A
  <2>1. it[{}] \in A
    BY <1>3, <1>10
  <2>2. ASSUME NEW s \in SUBSET D, s # {} /\ it[s \ {Max(s)}] \in A PROVE it[s] \in A
    BY <1>2, <1>8, <1>10, <2>2
  <2> QED BY <1>1, <2>1, <2>2, FoldStays
<1>12. Found(it[D], g)
  BY <1>4, <1>11, FoundBy DEF A
<1> QED BY <1>0, <1>12

\* The next pause lies ahead, at the end at the latest.
LEMMA BreakAhead ==
  ASSUME NEW id \in 0..number_of_ids PROVE NextBreak(id) \in id..number_of_ids
<1> DEFINE S == {j \in id..number_of_ids :
                   j = number_of_ids \/ j % SEARCH_CHOMP_SIZE = SEARCH_CHOMP_SIZE - 1}
<1>1. number_of_ids \in Nat
  BY TreeAssumption, FS_CardinalityType DEF number_of_ids
<1>2. S \in SUBSET Nat /\ S # {} /\ S \subseteq id..number_of_ids
  BY <1>1
<1>3. NextBreak(id) = Min(S)
  BY DEF NextBreak
<1> HIDE DEF S
<1>4. PICK m \in S : \A k \in S : m <= k
  BY <1>2, LeastMember
<1>5. Min(S) \in S
  BY <1>4 DEF Min
<1> QED BY <1>2, <1>3, <1>5

LEMMA SomeNodes == number_of_ids \in Nat \ {0}
BY TreeAssumption, FS_CardinalityType DEF number_of_ids

\* A query, where its search pauses, and the places it has yet to show.
Words == Seq(Seq(DOMAIN BucketOf))
QueryOK(q) ==
  /\ q.kind \in {"empty", "short", "address", "words"}
  /\ q.addr \in Int /\ q.keywords \in Seq(Seq(Tokens)) /\ q.words \in Words
RunOK(run) ==
  /\ DOMAIN run = {"phase", "query", "at", "found", "need", "matches"}
  /\ QueryOK(run.query)
  /\ run.phase = "path" => run.at \in 0..number_of_ids-1
  /\ run.phase = "preview" => run.matches \in Seq(Places) /\ run.at \in DOMAIN run.matches

LEMMA NoQueryOK == QueryOK(NoQuery) /\ RunOK(NoRun)
<1>1. <<>> \in Words
  BY DEF Words
<1>2. QueryOK(NoQuery)
  <2>1. <<>> \in Seq(Seq(Tokens))
    OBVIOUS
  <2> QED BY <1>1, <2>1 DEF NoQuery, QueryOK
<1> HIDE DEF QueryOK
<1> QED BY <1>2 DEF NoRun, Run, RunOK

LEMMA StartContentOK ==
  ASSUME NEW query, QueryOK(query), NEW found PROVE RunOK(StartContent(query, found))
BY DEF RunOK, StartContent, Run

LEMMA ScannedOK ==
  ASSUME NEW query, QueryOK(query), NEW at \in 0..number_of_ids, NEW found
  PROVE  RunOK(Scanned(query, at, found))
<1>1. CASE at = number_of_ids \/ found >= MAX_PATH_RESULTS
  BY <1>1, StartContentOK DEF Scanned
<1>2. CASE ~(at = number_of_ids \/ found >= MAX_PATH_RESULTS)
  <2>1. at \in 0..number_of_ids-1
    BY <1>2, SomeNodes
  <2>2. Scanned(query, at, found) = Run("path", query, at, found)
    BY <1>2 DEF Scanned
  <2> QED BY <2>1, <2>2 DEF Run, RunOK
<1> QED BY <1>1, <1>2

\* Every search that was started but the last has been told to stop, and nothing is
\* found while the search bar is closed.
SearchInv ==
  /\ started \in Nat /\ controller \in {0, started}
  /\ DOMAIN runs = 1..MaxSearches
  /\ \A g \in 1..MaxSearches :
       /\ runs[g] = NoRun \/ g \in aborted \/ g = controller
       /\ RunOK(runs[g])
  /\ Found(results, started)
  /\ selected_result \in 0..Len(results)
  /\ ~active => controller = 0 /\ results = <<>>

LEMMA SearchStart == SearchInit => SearchInv
BY FoundNothing, NoQueryOK DEF SearchInit, SearchInv

LEMMA ResultsLength ==
  ASSUME NEW s, NEW g, Found(s, g) PROVE Len(s) \in Nat /\ DOMAIN s = 1..Len(s)
BY DEF Found

LEMMA StartKeeps ==
  ASSUME SearchInv, NEW query, QueryOK(query), start_search(query), active' = TRUE
  PROVE  SearchInv'
<1> DEFINE g    == started + 1
           last == NextBreak(0) - 1
<1>1. g \in Nat /\ started' = g /\ controller' = g /\ g \in 1..MaxSearches
  BY SearchAssumption DEF start_search, SearchInv
<1>2. aborted' = aborted \cup ({controller} \ {0}) /\ selected_result' = 0
  BY DEF start_search
<1>3. last \in 0-1..number_of_ids-1 /\ last + 1 \in 0..number_of_ids
  BY BreakAhead, SomeNodes
<1>4. /\ Found(results', g)
      /\ runs' = runs \/ \E r : RunOK(r) /\ runs' = [runs EXCEPT ![g] = r]
  <2> HIDE DEF g, last
  <2>1. CASE query.kind = "empty"
    BY <2>1, FoundNothing DEF start_search
  <2>2. CASE query.kind = "address"
    <3>1. results' = AddressHits(g, query.addr) /\ UNCHANGED runs
      BY <2>2 DEF start_search, g
    <3> QED BY <3>1, AddressHitsFound DEF QueryOK
  <2>3. CASE query.kind = "short"
    <3>1. results' = <<>> /\ runs' = [runs EXCEPT ![g] = StartContent(query, 0)]
      BY <2>3 DEF start_search, g
    <3> QED BY <3>1, FoundNothing, StartContentOK
  <2>4. CASE query.kind \notin {"empty", "address", "short"}
    <3>1. PICK hits \in {Chunk(g, 0, last, 0, query.keywords)} :
               /\ results' = hits
               /\ runs' = [runs EXCEPT ![g] = Scanned(query, last + 1, Len(hits))]
      BY <2>4 DEF start_search, g, last
    <3>2. Found(hits, g)
      BY <1>3, <3>1, ChunkFound
    <3>3. RunOK(Scanned(query, last + 1, Len(hits)))
      BY <1>3, ScannedOK
    <3> QED BY <3>1, <3>2, <3>3
  <2> QED BY <2>1, <2>2, <2>3, <2>4
<1>5. DOMAIN runs' = 1..MaxSearches
  BY <1>4 DEF SearchInv
<1>6. ASSUME NEW h \in 1..MaxSearches
      PROVE  /\ runs'[h] = NoRun \/ h \in aborted' \/ h = controller'
             /\ RunOK(runs'[h])
  <2>1. CASE h = g
    BY <1>1, <1>4, <2>1 DEF SearchInv
  <2>2. CASE h # g
    <3>1. runs'[h] = runs[h]
      BY <1>4, <2>2 DEF SearchInv
    <3> QED BY <1>2, <3>1 DEF SearchInv
  <2> QED BY <2>1, <2>2
<1>7. selected_result' \in 0..Len(results')
  BY <1>2, <1>4, ResultsLength
<1> QED BY <1>1, <1>4, <1>5, <1>6, <1>7 DEF SearchInv

LEMMA OpenKeeps ==
  ASSUME SearchInv, NEW query, QueryOK(query), open_search(query) PROVE SearchInv'
<1>1. CASE query = NoQuery
  <2>1. /\ results' = <<>> /\ selected_result' = 0 /\ active' = TRUE
        /\ UNCHANGED <<controller, started, aborted, runs>>
    BY <1>1 DEF open_search
  <2> QED BY <2>1, FoundNothing DEF SearchInv
<1>2. CASE query # NoQuery
  BY <1>2, StartKeeps DEF open_search
<1> QED BY <1>1, <1>2

LEMMA CloseKeeps == ASSUME SearchInv, close_search PROVE SearchInv'
<1>1. Found(results', started')
  BY FoundNothing DEF close_search
<1>2. \A g \in 1..MaxSearches : runs'[g] = runs[g] /\ (g = controller => g \in aborted')
  BY DEF close_search
<1> QED BY <1>1, <1>2 DEF close_search, SearchInv

LEMMA SelectKeeps == ASSUME SearchInv, NEW i \in 0..Len(results), Select(i) PROVE SearchInv'
BY DEF Select, SearchInv

\* A search that wakes up goes on only if it is the last.
LEMMA BecameKeeps ==
  ASSUME SearchInv, NEW g \in 1..MaxSearches, runs[g] # NoRun, NEW run, NEW added,
         Became(g, run, added), RunOK(run),
         added = <<>> \/ (g \notin aborted /\ Found(added, g))
  PROVE  SearchInv'
<1>1. /\ runs' = [runs EXCEPT ![g] = run] /\ results' = results \o added
      /\ UNCHANGED <<active, selected_result, controller, started, aborted>>
  BY DEF Became
<1>2. g \in aborted \/ g = controller
  BY DEF SearchInv
<1>3. Found(results', started) /\ Len(results') \in Nat /\ Len(results) <= Len(results')
      /\ (~active => results' = <<>>)
  <2>1. CASE added = <<>>
    <3>1. results' = results
      BY <1>1, <2>1 DEF SearchInv, Found
    <3> QED BY <3>1, ResultsLength DEF SearchInv
  <2>2. CASE g \notin aborted /\ Found(added, g)
    <3>1. g = started /\ active
      BY <1>2, <2>2 DEF SearchInv
    <3>2. Found(results', started)
      BY <1>1, <2>2, <3>1, FoundMore DEF SearchInv
    <3>3. Len(results \o added) = Len(results) + Len(added) /\ Len(added) \in Nat
      BY <2>2 DEF SearchInv, Found
    <3> QED BY <1>1, <3>1, <3>2, <3>3, ResultsLength
  <2> QED BY <2>1, <2>2
<1>4. selected_result \in 0..Len(results')
  BY <1>3, ResultsLength DEF SearchInv
<1>5. \A h \in 1..MaxSearches :
        /\ runs'[h] = NoRun \/ h \in aborted \/ h = controller
        /\ RunOK(runs'[h])
  BY <1>1, <1>2 DEF SearchInv
<1>6. DOMAIN runs' = 1..MaxSearches
  BY <1>1 DEF SearchInv
<1> QED BY <1>1, <1>3, <1>4, <1>5, <1>6 DEF SearchInv

LEMMA WakesKeeps == ASSUME SearchInv, SearchWakes PROVE SearchInv'
<1> SUFFICES ASSUME NEW g \in 1..MaxSearches,
                    \/ ScanOn(g) \/ MatchOn(g) \/ PreviewArrives(g) \/ PreviewFails(g)
                    \/ \E b \in runs[g].need : BucketArrives(g, b) \/ BucketFails(g, b)
             PROVE  SearchInv'
  BY DEF SearchWakes
<1> DEFINE r == runs[g]
<1>0. RunOK(r) /\ QueryOK(r.query)
  BY DEF SearchInv, RunOK
<1>1. r # NoRun
  BY DEF NoRun, Run, ScanOn, MatchOn, PreviewArrives, PreviewFails
<1>2. \A at, found : \A phase \in {"done", "match", "failed"} :
        RunOK(Run(phase, r.query, at, found))
  BY <1>0 DEF RunOK, Run
<1>3. CASE Stop(g)
  <2>1. RunOK(Run("done", r.query, 0, r.found))
    BY <1>2
  <2> QED BY <1>1, <1>3, <2>1, BecameKeeps DEF Stop
<1>4. CASE ScanOn(g) /\ g \notin aborted
  <2> DEFINE last == NextBreak(r.at + 1) - 1
             hits == Chunk(g, r.at, last, r.found, r.query.keywords)
             run  == Scanned(r.query, last + 1, r.found + Len(hits))
  <2>1. r.at \in 0..number_of_ids-1
    BY <1>0, <1>4 DEF ScanOn, RunOK
  <2>2. r.at + 1 \in 0..number_of_ids
    BY <2>1, SomeNodes
  <2>3. last \in r.at-1..number_of_ids-1 /\ last + 1 \in 0..number_of_ids /\ r.at \in Nat
    BY <2>1, <2>2, BreakAhead, SomeNodes
  <2>4. Became(g, run, hits)
    BY <1>4 DEF ScanOn
  <2> HIDE DEF last
  <2>5. Found(hits, g)
    BY <2>3, ChunkFound
  <2>6. RunOK(run)
    BY <1>0, <2>3, ScannedOK
  <2> HIDE DEF hits, run
  <2> QED BY <1>1, <1>4, <2>4, <2>5, <2>6, BecameKeeps
<1>5. CASE MatchOn(g) /\ ~Stop(g)
  <2> DEFINE keywords == Indexed(r.query)
             places   == get_matches(keywords)
             run == [Run("preview", r.query, 1, r.found) EXCEPT !.matches = places]
  <2>1. Became(g, run, <<>>) /\ places # <<>>
    BY <1>5 DEF MatchOn
  <2>2. RunOK(run)
    <3>1. keywords \in Seq(Seq(DOMAIN BucketOf))
      BY <1>0, IndexedTyped DEF QueryOK, Words
    <3> HIDE DEF keywords
    <3>2. places \in Seq(Places)
      BY <3>1, MatchesTyped
    <3> HIDE DEF places
    <3>3. 1 \in DOMAIN places
      BY <2>1, <3>2
    <3> QED BY <1>0, <3>2, <3>3 DEF Run, RunOK
  <2> HIDE DEF run
  <2> QED BY <1>1, <2>1, <2>2, BecameKeeps
<1>6. CASE PreviewArrives(g) /\ g \notin aborted
  <2> DEFINE m   == r.matches[r.at]
             next == [r EXCEPT !.at = @ + 1]
             run == IF r.at = Len(r.matches) THEN Run("done", r.query, 0, r.found) ELSE next
             hit == <<Result(g, m.id, NoStack, m.field)>>
  <2>1. Became(g, run, hit) /\ r.phase = "preview"
    BY <1>6 DEF PreviewArrives
  <2>2. r.matches \in Seq(Places) /\ r.at \in DOMAIN r.matches
    BY <1>0, <2>1 DEF RunOK
  <2>3. r.at \in 1..Len(r.matches) /\ Len(r.matches) \in Nat
    BY <2>2, LenProperties
  <2>4. RunOK(run)
    <3>1. CASE r.at = Len(r.matches)
      BY <1>2, <3>1
    <3>2. CASE r.at # Len(r.matches)
      <4>1. r.at + 1 \in DOMAIN r.matches
        BY <2>2, <2>3, <3>2, LenProperties
      <4>2. RunOK(next)
        BY <1>0, <2>1, <2>2, <4>1 DEF RunOK
      <4> QED BY <3>2, <4>2
    <3> QED BY <3>1, <3>2
  <2>5. m.id \in Nodes
    BY <2>2, <2>3, ElementOfSeq, PlacesAreNodes
  <2> HIDE DEF m
  <2>6. Found(hit, g)
    BY <2>5, FoundOne
  <2> HIDE DEF run, hit
  <2> QED BY <1>1, <1>6, <2>1, <2>4, <2>6, BecameKeeps
<1>7. CASE PreviewFails(g)
  <2>1. RunOK(Run("failed", r.query, 0, r.found))
    BY <1>2
  <2> QED BY <1>1, <1>7, <2>1, BecameKeeps DEF PreviewFails
<1>8. ASSUME NEW b \in r.need, BucketArrives(g, b), ~Stop(g) PROVE SearchInv'
  <2>1. CASE Became(g, [r EXCEPT !.need = @ \ {b}], <<>>)
    <3>1. RunOK([r EXCEPT !.need = @ \ {b}])
      BY <1>0 DEF RunOK
    <3> QED BY <1>1, <2>1, <3>1, BecameKeeps
  <2>2. CASE Became(g, Run("match", r.query, 0, r.found), <<>>)
    <3>1. RunOK(Run("match", r.query, 0, r.found))
      BY <1>2
    <3> QED BY <1>1, <2>2, <3>1, BecameKeeps
  <2> QED BY <1>8, <2>1, <2>2 DEF BucketArrives
<1>9. ASSUME NEW b \in r.need, BucketFails(g, b) PROVE SearchInv'
  <2> DEFINE run == [r EXCEPT !.need = @ \ {b}, !.phase = "failed"]
  <2>1. Became(g, run, <<>>)
    BY <1>9 DEF BucketFails
  <2>2. RunOK(run)
    BY <1>0 DEF RunOK
  <2> HIDE DEF run
  <2> QED BY <1>1, <2>1, <2>2, BecameKeeps
<1> QED
  BY <1>3, <1>4, <1>5, <1>6, <1>7, <1>8, <1>9 DEF ScanOn, MatchOn, PreviewArrives

\* What an event means for the search.
SearchStep ==
  \/ UNCHANGED searchVars
  \/ \E q : QueryOK(q) /\ (open_search(q) \/ onSearchInputUpdate(q))
  \/ close_search
  \/ \E i \in 0..Len(results) : Select(i)
  \/ SearchWakes

LEMMA PathTokensTyped == ASSUME NEW id \in Nodes PROVE PathTokens[id] \in Seq(DOMAIN Lower)
<1> DEFINE ids  == get_ids_in_path[id]
           seqs == [i \in DOMAIN ids |-> TokensOf[Tree[ids[i]].name]]
           path == PathTokens[id]
           L    == DOMAIN Lower
<1>1. DOMAIN ids = 1..Len(ids) /\ Len(ids) \in Nat /\ \A i \in DOMAIN ids : ids[i] \in Nodes
  BY PathOfIds, LenProperties, ElementOfSeq
<1>2. path = FlattenSeq(seqs)
  BY DEF PathTokens
<1>3. \A n \in Nodes : TokensOf[Tree[n].name] \in Seq(L)
  BY SearchAssumption
<1> HIDE DEF ids, path, L
<1>4. seqs \in Seq(Seq(L))
  BY <1>1, <1>3
<1> HIDE DEF seqs
<1>5. path \in Seq(L)
  BY <1>2, <1>4, FlattenTyped
<1> QED BY <1>5 DEF path, L

LEMMA PathQueryOK == ASSUME Opened(ui) PROVE QueryOK(PathQuery)
<1> DEFINE id       == ui.CurrentID
           ids      == get_ids_in_path[id]
           tokens(n) == TokensOf[Tree[n].name]
           lower(n) == [t \in DOMAIN tokens(n) |-> Lower[tokens(n)[t]]]
<1>1. id \in Nodes
  BY DEF Opened
<1>2. DOMAIN ids = 1..Len(ids) /\ Len(ids) \in Nat /\ \A i \in DOMAIN ids : ids[i] \in Nodes
  BY <1>1, PathOfIds, LenProperties, ElementOfSeq
<1>3. PathWords(id) = [i \in DOMAIN ids |-> lower(ids[i])]
  BY DEF PathWords
<1>4. ASSUME NEW n \in Nodes PROVE lower(n) \in Seq(DOMAIN BucketOf)
  <2>1. tokens(n) \in Seq(DOMAIN Lower) /\ Lower \in [DOMAIN Lower -> DOMAIN BucketOf]
    BY SearchAssumption
  <2> HIDE DEF tokens
  <2>2. /\ DOMAIN tokens(n) = 1..Len(tokens(n)) /\ Len(tokens(n)) \in Nat
        /\ \A t \in DOMAIN tokens(n) : tokens(n)[t] \in DOMAIN Lower
    BY <2>1, LenProperties, ElementOfSeq
  <2>3. \A t \in DOMAIN tokens(n) : Lower[tokens(n)[t]] \in DOMAIN BucketOf
    BY <2>1, <2>2
  <2> QED BY <2>2, <2>3
<1> HIDE DEF ids, lower
<1>5. PathWords(id) \in Words
  BY <1>2, <1>3, <1>4 DEF Words
<1>6. PathQuery.keywords \in Seq(Seq(Tokens))
  <2> DEFINE path == PathTokens[id]
  <2>1. path \in Seq(DOMAIN Lower) /\ DOMAIN Lower \subseteq Tokens
    BY <1>1, PathTokensTyped DEF Tokens
  <2>2. path \in Seq(Tokens)
    BY <2>1
  <2>3. PathQuery.keywords = <<path>>
    BY DEF PathQuery
  <2> HIDE DEF path
  <2> QED BY <2>2, <2>3
<1>7. PathQuery.kind = "words" /\ PathQuery.addr = 0 /\ PathQuery.words = PathWords(id)
  BY DEF PathQuery
<1> QED BY <1>5, <1>6, <1>7 DEF QueryOK

LEMMA SearchSteps == ASSUME SearchInv, UiOK(ui), [Next]_vars PROVE SearchStep
<1>1. ASSUME SelectResult PROVE \E i \in 0..Len(results) : Select(i)
  <2>1. Len(results) \in Nat /\ DOMAIN results = 1..Len(results) /\ selected_result \in 0..Len(results)
    BY ResultsLength DEF SearchInv
  <2>2. CASE ArrowUp
    BY <2>1, <2>2 DEF ArrowUp
  <2>3. CASE ArrowDown
    BY <2>1, <2>3 DEF ArrowDown
  <2>4. ASSUME NEW i \in DOMAIN results, onSearchResultMousemove(i)
        PROVE  \E j \in 0..Len(results) : Select(j)
    BY <2>1, <2>4 DEF onSearchResultMousemove
  <2> QED BY <1>1, <2>2, <2>3, <2>4 DEF SelectResult
<1>2. ASSUME SearchKey \/ onSearchButtonClick \/ TypeQuery PROVE SearchStep
  <2>1. \A q \in Queries \cup {NoQuery} : QueryOK(q)
    BY SearchAssumption, NamesAssumption, NoQueryOK DEF QueryOK, Words
  <2>2. CASE SearchKey
    <3>1. Opened(ui)
      BY <2>2 DEF SearchKey, User, Opened, UiOK, Elsewhere
    <3> QED BY <2>1, <2>2, <3>1, PathQueryOK DEF SearchKey, SearchStep
  <2>3. CASE onSearchButtonClick
    BY <2>1, <2>3 DEF onSearchButtonClick, SearchStep
  <2>4. CASE TypeQuery
    BY <2>1, <2>4 DEF TypeQuery, SearchStep
  <2> QED BY <1>2, <2>2, <2>3, <2>4
<1>3. ASSUME onClickTreeLink \/ EnterResult \/ ClickResult PROVE close_search
  BY <1>3 DEF onClickTreeLink, EnterResult, ClickResult
<1>4. ASSUME \/ \E f \in DataFiles : RalFileArrives(f) \/ RalFileFails(f)
             \/ \E i \in DOMAIN loads : PageArrives(i) \/ PageFails(i)
             \/ onClickNodeLink \/ ClickTreeFold \/ onClickTreeCollapseAll
             \/ load_parent_page \/ onPopState
      PROVE  UNCHANGED searchVars
  BY <1>4 DEF RalFileArrives, RalFileFails, PageArrives, PageFails, onClickNodeLink,
              ClickTreeFold, onClickTreeCollapseAll, load_parent_page, onPopState
<1>5. ASSUME \/ ClickIndex \/ IndexKey \/ ClickAway
             \/ TypeField \/ PickEnum \/ TypeReg \/ ClickReset \/ ClickRadix
      PROVE  UNCHANGED searchVars
  BY <1>5 DEF ClickIndex, IndexKey, ClickAway, TypeField, PickEnum, TypeReg, ClickReset, ClickRadix
<1>6. ASSUME SearchRuns PROVE SearchWakes
  BY <1>6 DEF SearchRuns
<1>7. ASSUME UNCHANGED vars PROVE UNCHANGED searchVars
  BY <1>7 DEF vars
<1> QED
  BY <1>1, <1>2, <1>3, <1>4, <1>5, <1>6, <1>7, Zenon DEF Next, SearchStep

LEMMA SearchKeeps == ASSUME SearchInv, UiOK(ui), [Next]_vars PROVE SearchInv'
<1>1. CASE UNCHANGED searchVars
  BY <1>1 DEF searchVars, SearchInv
<1>2. ASSUME NEW q, QueryOK(q), open_search(q) \/ onSearchInputUpdate(q) PROVE SearchInv'
  BY <1>2, OpenKeeps, StartKeeps DEF onSearchInputUpdate
<1> QED BY <1>1, <1>2, SearchSteps, CloseKeeps, SelectKeeps, WakesKeeps DEF SearchStep

-----------------------------------------------------------------------------
(* The page, the pages on their way and the search together.               *)

Loads == [id : Nodes, by : {"link", "url", "search"}]

\* What every part relies on: the indexes that results and paths bring are within their
\* dimensions, and so are those on display.
ViewerInv ==
  /\ UiOK(ui)
  /\ loads \in Seq(Loads)
  /\ session \in Sessions /\ events \in 0..session.max
  /\ SearchInv

LEMMA OpenedOnce == ASSUME ViewerInv, NEW kind, User(kind) PROVE Opened(ui)
BY DEF ViewerInv, User, Opened, UiOK, Elsewhere

LEMMA LoadTyped ==
  ASSUME NEW id \in Nodes, NEW by \in {"link", "url", "search"} PROVE Load(id, by) \in Loads
BY DEF Load, Loads

LEMMA AskTyped ==
  ASSUME ViewerInv, NEW id \in Nodes, NEW by \in {"link", "url", "search"}, Ask(id, by)
  PROVE  loads' \in Seq(Loads)
<1> DEFINE l == Load(id, by)
<1>1. l \in Loads /\ loads' = Append(loads, l)
  BY LoadTyped DEF Ask
<1> HIDE DEF l
<1> QED BY <1>1 DEF ViewerInv

LEMMA AskNothingTyped == ASSUME ViewerInv, AskNothing PROVE loads' \in Seq(Loads)
BY DEF ViewerInv, AskNothing

LEMMA LinksTyped == ASSUME UiOK(ui) PROVE Links \subseteq Nodes
<1>1. NoNode \notin Nodes
  BY NodeIds DEF NoNode
<1>2. ASSUME NEW n \in Nodes
      PROVE  ToSet(Tree[n].children) \subseteq Nodes /\ ToSet(get_ancestors[n]) \subseteq Nodes
  <2>1. Tree[n].children \in Seq({m \in Nodes : Tree[m].parent = n})
    BY TreeAssumption
  <2>2. ToSet(Tree[n].children) \subseteq Nodes
    BY <2>1, ElementOfSeq, LenProperties DEF ToSet
  <2> DEFINE ids == get_ids_in_path[n]
  <2>3. ids \in Seq(Nodes) /\ get_ancestors[n] = SubSeq(ids, 1, Len(ids) - 1)
    BY PathOfIds DEF get_ancestors, Front
  <2>4. Len(ids) >= 1 /\ Len(ids) \in Nat
    BY <2>3, PathShape, LenProperties DEF PathBegins
  <2> HIDE DEF ids
  <2>5. get_ancestors[n] \in Seq(Nodes)
    BY <2>3, <2>4, SubSeqProperties
  <2>6. ToSet(get_ancestors[n]) \subseteq Nodes
    BY <2>5, ElementOfSeq, LenProperties DEF ToSet
  <2> QED BY <2>2, <2>6
<1> QED BY <1>1, <1>2 DEF Links, UiOK, Elsewhere

LEMMA ResultTyped ==
  ASSUME SearchInv, NEW i \in DOMAIN results PROVE ResultOf(results[i], started)
BY DEF SearchInv, Found, ToSet

LEMMA EnteredTyped == ASSUME SearchInv, Entered # 0 PROVE Entered \in DOMAIN results
<1>1. Len(results) \in Nat /\ DOMAIN results = 1..Len(results) /\ selected_result \in 0..Len(results)
  BY ResultsLength DEF SearchInv
<1> QED BY <1>1 DEF Entered

LEMMA ResultOK ==
  ASSUME ViewerInv, Opened(ui), NEW i \in DOMAIN results
  PROVE  Opened(open_search_result(ui, i)) /\ results[i].id \in Nodes
<1> DEFINE r    == results[i]
           idxs == IF r.stack = NoStack THEN reset_indexes(ui.idxs, 0, r.id)
                   ELSE apply_idx_stack(ui.idxs, r.id, r.stack)
           v    == [ui EXCEPT !.idxs = idxs]
<1>1. r.id \in Nodes /\ (r.stack = NoStack \/ Placed(r.id, r.stack))
  BY ResultTyped DEF ViewerInv, ResultOf
<1> HIDE DEF r
<1>2. IdxsOK(idxs)
  BY <1>1, ResetOK, ApplyOK DEF Opened, UiOK
<1>3. open_search_result(ui, i) = v
  BY DEF open_search_result, r
<1> HIDE DEF idxs
<1>4. UiOK(v) /\ v.CurrentID = ui.CurrentID
  BY <1>2, SetOK DEF Opened, UiOK, Fields
<1> QED BY <1>1, <1>3, <1>4 DEF Opened, r

\* Pages arrive, or fail to.
LEMMA ArrivalKeeps ==
  ASSUME ViewerInv,
         \/ \E f \in DataFiles : RalFileArrives(f) \/ RalFileFails(f)
         \/ \E i \in DOMAIN loads : PageArrives(i) \/ PageFails(i)
  PROVE  UiOK(ui') /\ loads' \in Seq(Loads)
<1>1. ASSUME NEW f \in DataFiles, RalFileArrives(f) PROVE UiOK(ui') /\ loads' \in Seq(Loads)
  <2>1. CASE UNCHANGED <<ui, loads>>
    BY <2>1 DEF ViewerInv
  <2>2. ASSUME NEW u, u = load_page_via_url(ui),
               ui' = [u EXCEPT !.tree = expand_to_id(NoTree, u.CurrentID)],
               loads' = <<Load(u.CurrentID, "url")>>
        PROVE  UiOK(ui') /\ loads' \in Seq(Loads)
    <3>1. Opened(u) /\ u.CurrentID \in Nodes
      BY <2>2, DisplayedOK DEF ViewerInv, Opened
    <3>2. expand_to_id(NoTree, u.CurrentID) \in Trees
      BY <3>1, NoTreeSound, ExpandToSound
    <3>3. UiOK(ui')
      BY <2>2, <3>1, <3>2, TreeOK DEF Opened
    <3> DEFINE l == Load(u.CurrentID, "url")
    <3>4. l \in Loads /\ loads' = <<l>>
      BY <2>2, <3>1, LoadTyped
    <3> HIDE DEF l
    <3> QED BY <3>3, <3>4
  <2> QED BY <1>1, <2>1, <2>2 DEF RalFileArrives
<1>2. ASSUME NEW f \in DataFiles, RalFileFails(f) PROVE UiOK(ui') /\ loads' \in Seq(Loads)
  BY <1>2 DEF RalFileFails, ViewerInv
<1>3. ASSUME NEW i \in DOMAIN loads, PageArrives(i) PROVE UiOK(ui') /\ loads' \in Seq(Loads)
  <2> DEFINE id    == loads[i].id
             page  == load_page(ui, id)
             shown == ShowInSidebar(page, id)
  <2>1. loads \in Seq(Loads)
    BY DEF ViewerInv
  <2>2. id \in Nodes
    <3>1. loads[i] \in Loads
      BY <2>1, ElementOfSeq, LenProperties
    <3> QED BY <3>1 DEF Loads
  <2>3. loads' \in Seq(Loads)
    BY <1>3, <2>1, RemoveKeeps DEF PageArrives
  <2>4. ui' = shown \/ ui' = refresh_url(shown)
    BY <1>3 DEF PageArrives
  <2> HIDE DEF id
  <2>5. Opened(page)
    BY <2>2, LoadPageOK DEF ViewerInv
  <2> HIDE DEF page
  <2>6. Opened(shown)
    BY <2>2, <2>5, ShowInSidebarOK
  <2> HIDE DEF shown
  <2>7. Opened(refresh_url(shown))
    BY <2>6, RefreshOK
  <2> QED BY <2>3, <2>4, <2>6, <2>7 DEF Opened
<1>4. ASSUME NEW i \in DOMAIN loads, PageFails(i) PROVE UiOK(ui') /\ loads' \in Seq(Loads)
  BY <1>4, RemoveKeeps DEF PageFails, ViewerInv
<1> QED BY <1>1, <1>2, <1>3, <1>4

\* The reader goes to another page.
LEMMA TravelKeeps ==
  ASSUME ViewerInv,
         onClickNodeLink \/ onClickTreeLink \/ load_parent_page \/ onPopState
         \/ EnterResult \/ ClickResult
  PROVE  UiOK(ui') /\ loads' \in Seq(Loads)
<1>0. Opened(ui) /\ UiOK(ui) /\ SearchInv
  BY OpenedOnce DEF ViewerInv, onClickNodeLink, onClickTreeLink, load_parent_page, onPopState,
                    EnterResult, ClickResult
<1>1. \A u : Opened(u) => UiOK(u) /\ \A val : Opened(WindowClick(u, val))
  BY ExitOK DEF Opened
<1>2. CASE onClickNodeLink
  <2>1. PICK id \in Links, val \in Vals :
          IF id = ui.CurrentID THEN ui' = WindowClick(ui, val) /\ AskNothing
          ELSE ui' = WindowClick(ToNext(ui, id), val) /\ Ask(id, "link")
    BY <1>2 DEF onClickNodeLink
  <2>2. id \in Nodes /\ Opened(ToNext(ui, id))
    BY <1>0, LinksTyped, ToNextOK
  <2> QED BY <1>0, <1>1, <2>1, <2>2, AskTyped, AskNothingTyped
<1>3. CASE onClickTreeLink
  <2> DEFINE open(id) == [ui EXCEPT !.tree = expand_node(@, id)]
  <2>1. PICK id \in Nodes, val \in Vals :
          IF id = ui.CurrentID THEN ui' = WindowClick(ui, val) /\ AskNothing
          ELSE ui' = WindowClick(ToNext(open(id), id), val) /\ Ask(id, "link")
    BY <1>3 DEF onClickTreeLink
  <2>2. Opened(open(id))
    <3>1. expand_node(ui.tree, id) \in Trees
      BY <1>0, ExpandSound DEF UiOK
    <3> QED BY <1>0, <3>1, TreeOK
  <2> HIDE DEF open
  <2>3. Opened(ToNext(open(id), id))
    BY <2>2, ToNextOK
  <2> QED BY <1>0, <1>1, <2>1, <2>3, AskTyped, AskNothingTyped
<1>4. CASE load_parent_page
  <2>1. Above(ui.CurrentID) \in Nodes
    BY <1>0, <1>4, LineageOf DEF load_parent_page, Above, Opened
  <2> QED BY <1>0, <1>4, <2>1, AskTyped DEF load_parent_page
<1>5. CASE onPopState
  <2>1. PICK p \in {ui.pos - 1, ui.pos + 1} \cap DOMAIN ui.history :
          \E moved \in {load_page_via_url([ui EXCEPT !.pos = p])} :
            /\ ui' = moved
            /\ loads' = loads \/ loads' = Append(loads, Load(moved.CurrentID, "url"))
    BY <1>5 DEF onPopState
  <2> DEFINE moved == load_page_via_url([ui EXCEPT !.pos = p])
             l     == Load(moved.CurrentID, "url")
  <2>2. UiOK([ui EXCEPT !.pos = p])
    BY <1>0, SetOK
  <2>3. ui' = moved /\ (loads' = loads \/ loads' = Append(loads, l))
    BY <2>1
  <2>4. Opened(moved)
    BY <2>2, DisplayedOK
  <2> HIDE DEF moved
  <2>5. l \in Loads
    BY <2>4, LoadTyped DEF Opened
  <2> HIDE DEF l
  <2> QED BY <1>1, <2>3, <2>4, <2>5 DEF ViewerInv
<1>6. CASE EnterResult
  <2>1. Entered \in DOMAIN results
    BY <1>0, <1>6, EnteredTyped DEF EnterResult
  <2>2. Opened(open_search_result(ui, Entered)) /\ results[Entered].id \in Nodes
    BY <1>0, <2>1, ResultOK
  <2> QED BY <1>1, <1>6, <2>2, AskTyped DEF EnterResult
<1>7. CASE ClickResult
  <2>1. PICK i \in DOMAIN results, val \in Vals :
          /\ ui' = WindowClick(open_search_result(ui, i), val)
          /\ Ask(results[i].id, "search")
    BY <1>7 DEF ClickResult
  <2>2. Opened(open_search_result(ui, i)) /\ results[i].id \in Nodes
    BY <1>0, ResultOK
  <2> QED BY <1>1, <2>1, <2>2, AskTyped
<1> QED BY <1>2, <1>3, <1>4, <1>5, <1>6, <1>7

\* The reader stays.
LEMMA StayKeeps ==
  ASSUME ViewerInv,
         \/ ClickTreeFold \/ onClickTreeCollapseAll \/ ClickIndex \/ IndexKey \/ ClickAway
         \/ SearchKey \/ onSearchButtonClick \/ TypeQuery \/ SelectResult \/ SearchRuns
         \/ UNCHANGED vars
  PROVE  UiOK(ui') /\ loads' \in Seq(Loads)
<1>1. loads' = loads
  <2>1. CASE SearchRuns \/ UNCHANGED vars
    BY <2>1 DEF SearchRuns, vars
  <2>2. CASE \/ ClickTreeFold \/ onClickTreeCollapseAll \/ ClickIndex \/ IndexKey \/ ClickAway
             \/ SearchKey \/ onSearchButtonClick \/ TypeQuery \/ SelectResult
    <3>1. AskNothing
      BY <2>2 DEF ClickTreeFold, onClickTreeCollapseAll, ClickIndex, IndexKey, ClickAway,
                  SearchKey, onSearchButtonClick, TypeQuery, SelectResult
    <3> QED BY <3>1 DEF AskNothing
  <2> QED BY <2>1, <2>2
<1>2. CASE SearchKey \/ TypeQuery \/ SelectResult \/ SearchRuns \/ UNCHANGED vars
  <2>1. ui' = ui
    BY <1>2 DEF SearchKey, TypeQuery, SelectResult, SearchRuns, vars
  <2> QED BY <1>1, <2>1 DEF ViewerInv
<1>3. CASE \/ ClickTreeFold \/ onClickTreeCollapseAll \/ ClickIndex \/ IndexKey \/ ClickAway
           \/ onSearchButtonClick
  <2>0. Opened(ui) /\ UiOK(ui) /\ ui.tree \in Trees /\ ui.CurrentID \in Nodes
    <3>1. Opened(ui)
      BY <1>3, OpenedOnce DEF ClickTreeFold, onClickTreeCollapseAll, ClickIndex,
                              IndexKey, ClickAway, onSearchButtonClick
    <3> QED BY <3>1 DEF Opened, UiOK
  <2> SUFFICES Opened(ui')
    BY <1>1 DEF Opened, ViewerInv
  <2>1. CASE ClickTreeFold
    <3>1. PICK id \in Nodes, val \in Vals :
            ui' = WindowClick([ui EXCEPT !.tree = onClickTreeFold(@, id, ui.CurrentID)], val)
      BY <2>1 DEF ClickTreeFold
    <3> DEFINE tree == onClickTreeFold(ui.tree, id, ui.CurrentID)
               u    == [ui EXCEPT !.tree = tree]
    <3>2. tree \in Trees /\ ui' = WindowClick(u, val)
      BY <2>0, <3>1, FoldSound
    <3> HIDE DEF tree
    <3>3. Opened(u)
      BY <2>0, <3>2, TreeOK
    <3> HIDE DEF u
    <3> QED BY <3>2, <3>3, ExitOK
  <2>2. CASE onClickTreeCollapseAll
    <3>1. PICK val \in Vals : ui' = WindowClick([ui EXCEPT !.tree = collapse_all(@)], val)
      BY <2>2 DEF onClickTreeCollapseAll
    <3> DEFINE tree == collapse_all(ui.tree)
               u    == [ui EXCEPT !.tree = tree]
    <3>2. tree \in Trees /\ ui' = WindowClick(u, val)
      BY <2>0, <3>1, CollapseAllSound
    <3> HIDE DEF tree
    <3>3. Opened(u)
      BY <2>0, <3>2, TreeOK
    <3> HIDE DEF u
    <3> QED BY <3>2, <3>3, ExitOK
  <2>3. CASE ClickIndex
    <3>1. PICK span, val : ui' = onClickCrumbtrailIdx(ui, span, val)
      BY <2>3 DEF ClickIndex
    <3> QED BY <2>0, <3>1, SwitchOK
  <2>4. CASE IndexKey
    <3>1. PICK val : \/ ui' = switch_to_prev_idx_edit(ui, val)
                     \/ ui' = switch_to_next_idx_edit(ui, val)
                     \/ \E cancel \in BOOLEAN : ui' = exitIndexEditModal(ui, cancel, val)
      BY <2>4 DEF IndexKey
    <3> QED BY <2>0, <3>1, SwitchOK, ExitOK
  <2>5. CASE ClickAway \/ onSearchButtonClick
    <3>1. PICK val : ui' = WindowClick(ui, val)
      BY <2>5 DEF ClickAway, onSearchButtonClick
    <3> QED BY <2>0, <3>1, ExitOK
  <2> QED BY <1>3, <2>1, <2>2, <2>3, <2>4, <2>5
<1> QED BY <1>2, <1>3

\* The reader types into the form.
LEMMA FormKeeps ==
  ASSUME ViewerInv, TypeField \/ PickEnum \/ TypeReg \/ ClickReset \/ ClickRadix
  PROVE  UiOK(ui') /\ loads' \in Seq(Loads)
<1>0. Opened(ui) /\ FormOK(ui.form) /\ ui.CurrentID \in Nodes
  BY OpenedOnce DEF TypeField, PickEnum, TypeReg, ClickReset, ClickRadix, Opened, UiOK
<1>1. loads' \in Seq(Loads)
  BY AskNothingTyped DEF TypeField, PickEnum, TypeReg, ClickReset, ClickRadix
<1>2. \A u : Opened(u) => UiOK(u) /\ \A val : Opened(WindowClick(u, val))
  BY ExitOK DEF Opened
<1>3. CASE TypeField
  <2>1. PICK name \in DOMAIN ui.form.field, text \in FieldTexts :
          ui' = Edited(ui, onDecodedFieldInput(ui.form, ui.CurrentID, name, text))
    BY <1>3 DEF TypeField
  <2>2. text \in Texts
    <3>1. FieldTexts \subseteq Int \cup {Garbage}
      BY ReaderAssumption, Zenon
    <3> QED BY <3>1 DEF Texts
  <2>3. OutcomeOK(onDecodedFieldInput(ui.form, ui.CurrentID, name, text))
    BY <1>0, <2>2, FieldInput
  <2> QED BY <1>0, <1>1, <1>2, <2>1, <2>3, EditedOK
<1>4. CASE PickEnum
  <2>1. PICK name \in ui.form.selects, value \in Nat :
          ui' = Edited(ui, onDecodedFieldEnumChange(ui.form, ui.CurrentID, name, value))
    BY <1>4 DEF PickEnum
  <2>2. OutcomeOK(onDecodedFieldEnumChange(ui.form, ui.CurrentID, name, value))
    BY <1>0, EnumChange
  <2> QED BY <1>0, <1>1, <1>2, <2>1, <2>2, EditedOK
<1>5. CASE TypeReg
  <2>1. PICK text \in RegTexts :
          ui' = Edited(ui, onEncodedRegInput(ui.form, ui.CurrentID, text))
    BY <1>5 DEF TypeReg
  <2>2. text \in Texts
    <3>1. RegTexts \subseteq Int \cup {Garbage}
      BY ReaderAssumption, Zenon
    <3> QED BY <3>1 DEF Texts
  <2>3. OutcomeOK(onEncodedRegInput(ui.form, ui.CurrentID, text))
    BY <1>0, <2>2, RegInput
  <2> QED BY <1>0, <1>1, <1>2, <2>1, <2>3, EditedOK
<1>6. CASE ClickReset
  <2>1. OutcomeOK(onResetRegValue(ui.form, ui.CurrentID))
    BY <1>0, ResetValue
  <2>2. Opened(Edited(ui, onResetRegValue(ui.form, ui.CurrentID)))
    BY <1>0, <2>1, EditedOK
  <2> QED BY <1>1, <1>2, <1>6, <2>2 DEF ClickReset
<1>7. CASE ClickRadix
  <2> DEFINE disp(name) == SwitchRadix(ui.disp, ui.CurrentID, name)
             set(name)  == [ui EXCEPT !.disp = disp(name)]
             out(name)  == onRadixSwitch(ui.form, ui.CurrentID, name, disp(name))
  <2>1. PICK name \in DOMAIN ui.form.field, val \in Vals :
          ui' = WindowClick(IF ~Fits(ui.form, ui.CurrentID) THEN ui
                            ELSE Edited(set(name), out(name)), val)
    BY <1>7 DEF ClickRadix
  <2>2. Opened(set(name))
    BY <1>0, SetOK DEF Opened, UiOK, Fields
  <2>3. Fits(ui.form, ui.CurrentID) => OutcomeOK(out(name))
    BY <1>0, RadixSwitch
  <2> HIDE DEF set, out
  <2>4. Fits(ui.form, ui.CurrentID) => Opened(Edited(set(name), out(name)))
    BY <2>2, <2>3, EditedOK
  <2> QED BY <1>0, <1>1, <1>2, <2>1, <2>4
<1> QED BY <1>3, <1>4, <1>5, <1>6, <1>7

LEMMA ViewerStart == Init => ViewerInv
<1> SUFFICES ASSUME Init PROVE ViewerInv
  OBVIOUS
<1>1. PICK p \in InitialPaths :
        /\ DOMAIN ui = Fields
        /\ ui.CurrentID = NoNode /\ ui.page = NoNode /\ ui.crumbs = NoCrumbs
        /\ ui.idxs = [n \in Nodes |-> Zeros[n]] /\ ui.registry = <<>> /\ ui.form = NoForm
        /\ ui.tree = NoTree /\ ui.modal = NoModal /\ ui.history = <<p>> /\ ui.pos = 1
  BY DEF Init, Fields
<1>2. IdxsOK(ui.idxs)
  BY <1>1, ZerosInRange DEF IdxsOK
<1>3. HistoryOK(ui)
  <2>1. PathOK(p)
    BY ReaderAssumption DEF PathOK
  <2>2. ui.history \in Seq({p}) /\ DOMAIN ui.history = {1} /\ ui.history[1] = p
    BY <1>1
  <2>3. ui.history \in Seq(ToSet(ui.history))
    BY <2>2 DEF ToSet
  <2> QED BY <1>1, <2>1, <2>2, <2>3 DEF HistoryOK
<1>4. ui.registry \in [DOMAIN ui.registry -> Nat]
  BY <1>1
<1>5. ModalOK(ui.modal) /\ ui.crumbs.id = NoNode
  BY <1>1 DEF NoModal, ModalOK, NoCrumbs
<1>6. UiOK(ui)
  BY <1>1, <1>2, <1>3, <1>4, <1>5, FirstForms, NoTreeSound DEF UiOK, Elsewhere
<1>7. session \in Sessions /\ events = 0 /\ session.max \in Nat
  BY ReaderAssumption DEF Init
<1>8. loads \in Seq(Loads)
  BY DEF Init
<1> QED BY <1>6, <1>7, <1>8, SearchStart DEF Init, ViewerInv

LEMMA EventsCounted ==
  ASSUME ViewerInv, [Next]_vars PROVE session' \in Sessions /\ events' \in 0..session'.max
<1>1. ASSUME NEW kind, User(kind) PROVE session' \in Sessions /\ events' \in 0..session'.max
  <2>1. session' = session /\ events < session.max /\ events' = events + 1
    BY <1>1 DEF User
  <2>2. session.max \in Nat /\ session \in Sessions /\ events \in 0..session.max
    BY ReaderAssumption DEF ViewerInv
  <2> QED BY <2>1, <2>2
<1>2. CASE UNCHANGED <<session, events>>
  BY <1>2 DEF ViewerInv
<1>3. CASE \/ \E f \in DataFiles : RalFileArrives(f) \/ RalFileFails(f)
           \/ \E i \in DOMAIN loads : PageArrives(i) \/ PageFails(i)
           \/ SearchRuns \/ UNCHANGED vars
  <2>1. UNCHANGED <<session, events>>
    BY <1>3 DEF RalFileArrives, RalFileFails, PageArrives, PageFails, SearchRuns, vars
  <2> QED BY <1>2, <2>1
<1>4. CASE \/ onClickNodeLink \/ onClickTreeLink \/ ClickTreeFold \/ onClickTreeCollapseAll
           \/ load_parent_page \/ onPopState \/ ClickIndex \/ IndexKey \/ ClickAway
  BY <1>1, <1>4 DEF onClickNodeLink, onClickTreeLink, ClickTreeFold, onClickTreeCollapseAll,
                    load_parent_page, onPopState, ClickIndex, IndexKey, ClickAway
<1>5. CASE \/ TypeField \/ PickEnum \/ TypeReg \/ ClickReset \/ ClickRadix
           \/ SearchKey \/ onSearchButtonClick \/ TypeQuery \/ SelectResult \/ EnterResult
           \/ ClickResult
  BY <1>1, <1>5 DEF TypeField, PickEnum, TypeReg, ClickReset, ClickRadix, SearchKey,
                    onSearchButtonClick, TypeQuery, SelectResult, EnterResult, ClickResult
<1> QED BY <1>3, <1>4, <1>5 DEF Next

LEMMA ViewerKeeps == ViewerInv /\ [Next]_vars => ViewerInv'
<1> SUFFICES ASSUME ViewerInv, [Next]_vars PROVE ViewerInv'
  OBVIOUS
<1>1. UiOK(ui') /\ loads' \in Seq(Loads)
  BY ArrivalKeeps, TravelKeeps, StayKeeps, FormKeeps DEF Next
<1>2. SearchInv'
  BY SearchKeeps DEF ViewerInv
<1> QED BY <1>1, <1>2, EventsCounted DEF ViewerInv

LEMMA ViewerShape == Spec => []ViewerInv
BY ViewerStart, ViewerKeeps, PTL DEF Spec

\* Every part of the page keeps its type; above all, no sequence of paths, editors of
\* indexes and results of searches brings an index beyond the dimension of its array.
THEOREM Typing == Spec => []TypeOK
<1>1. ViewerInv => TypeOK
  <2> SUFFICES ASSUME ViewerInv PROVE TypeOK
    OBVIOUS
  <2>1. \A i \in DOMAIN loads : loads[i] \in Loads
    BY ElementOfSeq, LenProperties DEF ViewerInv
  <2> QED BY <2>1 DEF ViewerInv, UiOK, HistoryOK, IdxsOK, Loads, Elsewhere, TypeOK
<1> QED BY <1>1, ViewerShape, PTL

\* An open entry of the tree is in the tree, and at most one is marked: however entries
\* are opened, closed and selected, for every tree.
THEOREM SoundSidebar == Spec => []SidebarSound
<1>1. ViewerInv => SidebarSound
  BY DEF ViewerInv, UiOK, Trees, SidebarSound
<1> QED BY <1>1, ViewerShape, PTL

\* Every result on display was found by the latest search: for every tree, every index and
\* any number of searches that pause, wait or are told to stop.
THEOREM LatestResults == Spec => []ResultsOfLatestQuery
<1>1. ViewerInv => ResultsOfLatestQuery
  <2> SUFFICES ASSUME ViewerInv PROVE ResultsOfLatestQuery
    OBVIOUS
  <2>1. \A i \in DOMAIN results : ResultOf(results[i], started)
    BY ResultTyped DEF ViewerInv
  <2> QED BY <2>1 DEF ViewerInv, SearchInv, ResultOf, ResultsOfLatestQuery
<1> QED BY <1>1, ViewerShape, PTL

-----------------------------------------------------------------------------
(* In the end all parts agree.                                             *)

\* Unless the history variable says otherwise: a page the URL asked for is alone on its
\* way, and the URL is there already; a result has set its indexes; or all parts agree.
AgreeInv ==
  ~rough =>
    IF Pending({"url"}) THEN loads = <<Load(ui.CurrentID, "url")>> /\ UrlFits(ui)
    ELSE Pending({"search"}) \/ ui.CurrentID = NoNode \/ (Agree(ui) /\ UrlFits(ui))

LEMMA AskPending ==
  ASSUME loads \in Seq(Loads), NEW id \in Nodes, NEW by \in {"link", "url", "search"},
         Ask(id, by), NEW kinds
  PROVE  Pending(kinds)' <=> Pending(kinds) \/ by \in kinds
<1> DEFINE l == Load(id, by)
<1>1. l \in Loads /\ l.by = by /\ loads' = Append(loads, l)
  BY LoadTyped DEF Ask, Load
<1> HIDE DEF l
<1>2. /\ Len(loads) \in Nat /\ DOMAIN loads = 1..Len(loads)
      /\ Append(loads, l) \in Seq(Loads) /\ Len(Append(loads, l)) = Len(loads) + 1
      /\ \A i \in 1..Len(loads) : Append(loads, l)[i] = loads[i]
      /\ Append(loads, l)[Len(loads) + 1] = l
  BY <1>1, AppendProperties, LenProperties
<1>3. DOMAIN loads' = 1..Len(loads) \cup {Len(loads) + 1}
  <2>1. DOMAIN loads' = 1..Len(loads)+1
    BY <1>1, <1>2, LenProperties
  <2> QED BY <1>2, <2>1
<1> QED BY <1>1, <1>2, <1>3 DEF Pending

LEMMA GonePending ==
  ASSUME loads \in Seq(Loads), NEW i \in DOMAIN loads, loads' = RemoveAt(loads, i), NEW kinds
  PROVE  /\ Pending(kinds)' => Pending(kinds)
         /\ Pending(kinds) => Pending(kinds)' \/ loads[i].by \in kinds
<1>1. Pending(kinds) => Pending(kinds)' \/ loads[i].by \in kinds
  <2>1. \A j \in DOMAIN loads \ {i} : \E k \in DOMAIN loads' : loads'[k] = loads[j]
    BY RemoveKeeps
  <2> QED BY <2>1 DEF Pending
<1>2. Pending(kinds)' => Pending(kinds)
  <2> DEFINE S == ToSet(loads)
  <2>1. loads \in Seq(S)
    BY LenProperties DEF ToSet
  <2> HIDE DEF S
  <2>2. loads' \in Seq(S)
    BY <2>1, RemoveKeeps
  <2>3. \A k \in DOMAIN loads' : loads'[k] \in S
    BY <2>2, ElementOfSeq, LenProperties
  <2> QED BY <2>3 DEF Pending, S, ToSet
<1> QED BY <1>1, <1>2

LEMMA OnlyOneGone == ASSUME NEW x PROVE RemoveAt(<<x>>, 1) = <<>>
<1>1. SubSeq(<<x>>, 1, 0) = <<>> /\ SubSeq(<<x>>, 2, 1) = <<>>
  OBVIOUS
<1>2. <<>> \o <<>> = <<>>
  OBVIOUS
<1>3. RemoveAt(<<x>>, 1) = SubSeq(<<x>>, 1, 0) \o SubSeq(<<x>>, 2, 1)
  BY DEF RemoveAt
<1> QED BY <1>1, <1>2, <1>3

LEMMA QuietAgrees ==
  ASSUME AgreeInv, AskNothing, Keeps(ui, ui') PROVE AgreeInv'
<1>1. \A kinds : Pending(kinds)' <=> Pending(kinds)
  BY DEF AskNothing, Pending
<1> QED BY <1>1 DEF AgreeInv, AskNothing, Keeps

LEMMA LinkAgrees ==
  ASSUME ViewerInv, AgreeInv, NEW id \in Nodes, Ask(id, "link"), Keeps(ui, ui') PROVE AgreeInv'
<1>1. \A kinds : Pending(kinds)' <=> Pending(kinds) \/ "link" \in kinds
  BY AskPending DEF ViewerInv
<1>2. /\ Pending({"url"})' <=> Pending({"url"})
      /\ Pending({"search"})' <=> Pending({"search"})
  BY <1>1
<1>3. rough' = (rough \/ Pending({"url"}))
  BY DEF Ask
<1> QED BY <1>2, <1>3 DEF AgreeInv, Keeps

LEMMA ResultAgrees ==
  ASSUME ViewerInv, NEW id \in Nodes, Ask(id, "search") PROVE AgreeInv'
<1>1. \A kinds : Pending(kinds)' <=> Pending(kinds) \/ "search" \in kinds
  BY AskPending DEF ViewerInv
<1>2. /\ Pending({"url"})' <=> Pending({"url"})
      /\ Pending({"search"})'
  BY <1>1
<1>3. rough' = (rough \/ Pending({"url"}))
  BY DEF Ask
<1> QED BY <1>2, <1>3 DEF AgreeInv

LEMMA ArrivalAgrees ==
  ASSUME ViewerInv, AgreeInv, NEW i \in DOMAIN loads, PageArrives(i) PROVE AgreeInv'
<1> DEFINE id    == loads[i].id
           page  == load_page(ui, id)
           shown == ShowInSidebar(page, id)
<1>1. loads \in Seq(Loads) /\ loads[i] \in Loads /\ UiOK(ui)
  BY ElementOfSeq, LenProperties DEF ViewerInv
<1>2. id \in Nodes
  BY <1>1 DEF Loads
<1>3. /\ loads' = RemoveAt(loads, i) /\ ui' = IF loads[i].by = "url" THEN shown ELSE refresh_url(shown)
      /\ rough' = (rough /\ (loads[i].by = "url" \/ loads' # <<>>))
  BY DEF PageArrives
<1> HIDE DEF id
<1>4. Agree(shown) /\ shown.idxs = ui.idxs /\ SameUrl(ui, shown) /\ shown.CurrentID = id
  BY <1>1, <1>2, ShownAgrees
<1>5. Opened(shown)
  BY <1>1, <1>2, LoadPageOK, ShowInSidebarOK
<1> HIDE DEF shown, page
<1> SUFFICES ASSUME ~rough' PROVE ~Pending({"url"})' /\ Agree(ui') /\ UrlFits(ui')
  BY DEF AgreeInv
<1>6. CASE loads[i].by = "url"
  <2>1. Pending({"url"}) /\ ~rough
    BY <1>3, <1>6 DEF Pending
  <2>2. loads = <<Load(ui.CurrentID, "url")>> /\ UrlFits(ui)
    BY <2>1 DEF AgreeInv
  <2>3. i = 1 /\ loads[1] = Load(ui.CurrentID, "url")
    BY <2>2
  <2>4. id = ui.CurrentID
    BY <2>3 DEF id, Load
  <2>5. loads' = <<>>
    BY <1>3, <2>2, <2>3, OnlyOneGone
  <2>6. ~Pending({"url"})'
    BY <2>5 DEF Pending
  <2>7. Alike(ui, shown)
    BY <1>4, <2>4 DEF Alike, Agree
  <2>8. UrlFits(shown)
    BY <1>4, <2>2, <2>7, Untouched
  <2> QED BY <1>3, <1>4, <1>6, <2>6, <2>8
<1>7. CASE loads[i].by # "url"
  <2>1. Agree(ui') /\ UrlFits(ui')
    BY <1>3, <1>4, <1>5, <1>7, RefreshFits
  <2>2. ~Pending({"url"})'
    <3>1. CASE rough
      <4>1. loads' = <<>>
        BY <1>3, <1>7, <3>1
      <4> QED BY <4>1 DEF Pending
    <3>2. CASE ~rough
      <4>1. Pending({"url"}) => loads = <<Load(ui.CurrentID, "url")>>
        BY <3>2 DEF AgreeInv
      <4>2. ~Pending({"url"})
        <5> SUFFICES ASSUME loads = <<Load(ui.CurrentID, "url")>> PROVE FALSE
          BY <4>1
        <5>1. loads[i] = Load(ui.CurrentID, "url")
          OBVIOUS
        <5> QED BY <1>7, <5>1 DEF Load
      <4> QED BY <1>1, <1>3, <4>2, GonePending
    <3> QED BY <3>1, <3>2
  <2> QED BY <2>1, <2>2
<1> QED BY <1>6, <1>7

LEMMA FailureAgrees ==
  ASSUME ViewerInv, AgreeInv, NEW i \in DOMAIN loads, PageFails(i) PROVE AgreeInv'
<1>1. loads \in Seq(Loads)
  BY DEF ViewerInv
<1>2. /\ loads' = RemoveAt(loads, i) /\ rough' = (rough \/ loads[i].by \in {"url", "search"})
      /\ ui' = ui
  BY DEF PageFails
<1> SUFFICES ASSUME ~rough' PROVE AgreeInv'
  BY DEF AgreeInv
<1>3. ~rough /\ loads[i].by \notin {"url", "search"}
  BY <1>2
<1>4. ~Pending({"url"})
  <2> SUFFICES ASSUME loads = <<Load(ui.CurrentID, "url")>> PROVE FALSE
    BY <1>3 DEF AgreeInv
  <2>1. loads[i] = Load(ui.CurrentID, "url")
    OBVIOUS
  <2> QED BY <1>3, <2>1 DEF Load
<1>5. ~Pending({"url"})' /\ (Pending({"search"}) => Pending({"search"})')
  BY <1>1, <1>2, <1>3, <1>4, GonePending
<1> QED BY <1>2, <1>3, <1>4, <1>5 DEF AgreeInv

\* The tree is changed, but not its mark.
LEMMA TreeKeeps ==
  ASSUME NEW u, DOMAIN u = Fields, NEW tree,
         u.tree.selected = u.CurrentID => tree.selected = u.CurrentID
  PROVE  Keeps(u, [u EXCEPT !.tree = tree])
<1> DEFINE v == [u EXCEPT !.tree = tree]
<1>1. Alike(u, v) /\ SameTitles(u, v) /\ SameUrl(u, v)
  BY DEF Fields, Alike, SameTitles, SameUrl
<1>2. v.page = u.page /\ v.title = u.title /\ v.tree = tree
  BY DEF Fields
<1> HIDE DEF v
<1>3. Titled(u) => Titled(v)
  BY <1>1, TitledStays
<1>4. Agree(u) => Agree(v)
  BY <1>1, <1>2, <1>3 DEF Agree, Alike
<1>5. UrlFits(u) => UrlFits(v)
  BY <1>1, Untouched
<1> QED BY <1>1, <1>4, <1>5 DEF Keeps, Alike, v

LEMMA FilesAgree ==
  ASSUME ViewerInv, AgreeInv, NEW f, RalFileArrives(f) \/ RalFileFails(f) PROVE AgreeInv'
<1>1. CASE UNCHANGED <<ui, loads, rough>>
  BY <1>1 DEF AgreeInv, Pending
<1>2. CASE RalFileArrives(f) /\ files.arrived \cup {f} = DataFiles
  <2> DEFINE u    == load_page_via_url(ui)
             tree == expand_to_id(NoTree, u.CurrentID)
             v    == [u EXCEPT !.tree = tree]
             l    == Load(u.CurrentID, "url")
  <2>1. ui' = v /\ loads' = <<l>>
    BY <1>2 DEF RalFileArrives
  <2>2. UrlFits(u) /\ u = [x \in Fields |-> u[x]]
    BY DisplayedFits DEF ViewerInv
  <2> HIDE DEF u, tree
  <2>3. Alike(u, v) /\ SameUrl(u, v)
    BY <2>2 DEF Alike, SameUrl, Fields
  <2> HIDE DEF v
  <2>4. UrlFits(ui') /\ ui'.CurrentID = u.CurrentID
    BY <2>1, <2>2, <2>3, Untouched DEF Alike
  <2>5. l.by = "url"
    BY DEF Load
  <2>6. loads' = <<Load(ui'.CurrentID, "url")>> /\ Pending({"url"})'
    <3> HIDE DEF l
    <3>1. DOMAIN loads' = {1} /\ loads'[1] = l
      BY <2>1
    <3>2. Pending({"url"})'
      BY <2>5, <3>1 DEF Pending
    <3> QED BY <2>1, <2>4, <3>2 DEF l
  <2> QED BY <2>4, <2>6 DEF AgreeInv
<1>3. RalFileFails(f) => UNCHANGED <<ui, loads, rough>>
  BY DEF RalFileFails
<1>4. RalFileArrives(f) /\ files.arrived \cup {f} # DataFiles => UNCHANGED <<ui, loads, rough>>
  BY DEF RalFileArrives
<1> QED BY <1>1, <1>2, <1>3, <1>4

LEMMA HistoryAgrees == ASSUME ViewerInv, AgreeInv, onPopState PROVE AgreeInv'
<1>1. PICK p \in {ui.pos - 1, ui.pos + 1} \cap DOMAIN ui.history :
        \E moved \in {load_page_via_url([ui EXCEPT !.pos = p])} :
          /\ ui' = moved
          /\ IF moved.CurrentID = ui.CurrentID
             THEN /\ UNCHANGED loads
                  /\ rough' = (rough \/ loads # <<>> \/ moved.crumbs # Crumbs(moved))
             ELSE /\ Len(loads) < MaxLoads
                  /\ loads' = Append(loads, Load(moved.CurrentID, "url"))
                  /\ rough' = (rough \/ loads # <<>>)
  BY DEF onPopState
<1> DEFINE u     == [ui EXCEPT !.pos = p]
           moved == load_page_via_url(u)
           l     == Load(moved.CurrentID, "url")
<1>2. Opened(ui) /\ UiOK(ui) /\ UiOK(u)
  <2>1. Opened(ui)
    BY OpenedOnce DEF onPopState
  <2>2. UiOK(ui)
    BY DEF ViewerInv
  <2> QED BY <1>1, <2>1, <2>2, SetOK
<1>3. Opened(moved)
  BY <1>2, DisplayedOK
<1>4. /\ UrlFits(moved) /\ moved = [f \in Fields |-> moved[f]]
      /\ SameTitles(u, moved) /\ SamePage(u, moved)
  BY <1>2, DisplayedFits
<1>5. SameTitles(ui, u) /\ SamePage(ui, u)
  BY <1>2 DEF SameTitles, SamePage, UiOK, Fields
<1>6. SameTitles(ui, moved) /\ SamePage(ui, moved)
  BY <1>4, <1>5 DEF SameTitles, SamePage
<1>7. ui' = moved
  BY <1>1
<1>8. CASE moved.CurrentID = ui.CurrentID
  <2>1. /\ loads' = loads
        /\ rough' = (rough \/ loads # <<>> \/ moved.crumbs # Crumbs(moved))
    BY <1>1, <1>8
  <2> HIDE DEF moved, u
  <2> SUFFICES ASSUME ~rough' PROVE AgreeInv'
    BY DEF AgreeInv
  <2>2. ~rough /\ loads = <<>> /\ moved.crumbs = Crumbs(moved)
    BY <2>1
  <2>3. ~Pending({"url"}) /\ ~Pending({"search"}) /\ ~Pending({"url"})'
    BY <2>1, <2>2 DEF Pending
  <2>4. ui.CurrentID # NoNode
    BY DEF onPopState, User
  <2>5. Agree(ui)
    BY <2>2, <2>3, <2>4 DEF AgreeInv
  <2>6. moved.CurrentID \in Nodes /\ UiOK(moved)
    BY <1>3 DEF Opened
  <2>7. Agree(moved)
    BY <1>4, <1>6, <1>8, <2>2, <2>5, <2>6, SamePosition
  <2> QED BY <1>4, <1>7, <2>3, <2>7 DEF AgreeInv
<1>9. CASE moved.CurrentID # ui.CurrentID
  <2>1. loads' = Append(loads, l) /\ rough' = (rough \/ loads # <<>>)
    BY <1>1, <1>9
  <2> HIDE DEF moved, u
  <2> SUFFICES ASSUME ~rough' PROVE AgreeInv'
    BY DEF AgreeInv
  <2>2. l.by = "url"
    BY DEF Load
  <2>3. loads' = <<Load(ui'.CurrentID, "url")>> /\ Pending({"url"})'
    <3> HIDE DEF l
    <3>1. loads' = <<l>>
      <4>1. loads = <<>>
        BY <2>1
      <4> QED BY <2>1, <4>1
    <3>2. DOMAIN loads' = {1} /\ loads'[1] = l
      BY <3>1
    <3>3. Pending({"url"})'
      BY <2>2, <3>2 DEF Pending
    <3> QED BY <1>7, <3>1, <3>3 DEF l
  <2> QED BY <1>4, <1>7, <2>3 DEF AgreeInv
<1> QED BY <1>8, <1>9

LEMMA ClickedKeeps ==
  ASSUME NEW u, NEW v, Opened(v), Keeps(u, v), NEW val PROVE Keeps(u, WindowClick(v, val))
<1>1. Keeps(v, WindowClick(v, val))
  BY ExitKeeps
<1> QED BY <1>1, KeepsThrough

LEMMA LinksAgree ==
  ASSUME ViewerInv, AgreeInv, onClickNodeLink \/ onClickTreeLink \/ load_parent_page
  PROVE  AgreeInv'
<1>0. Opened(ui) /\ UiOK(ui) /\ Keeps(ui, ui) /\ DOMAIN ui = Fields /\ ui.tree \in Trees
  <2>1. Opened(ui)
    BY OpenedOnce DEF onClickNodeLink, onClickTreeLink, load_parent_page
  <2> QED BY <2>1 DEF Opened, UiOK, Keeps
<1>1. CASE onClickNodeLink
  <2>1. PICK id \in Links, val \in Vals :
          IF id = ui.CurrentID THEN ui' = WindowClick(ui, val) /\ AskNothing
          ELSE ui' = WindowClick(ToNext(ui, id), val) /\ Ask(id, "link")
    BY <1>1 DEF onClickNodeLink
  <2>2. id \in Nodes
    BY <1>0, LinksTyped
  <2>3. /\ Keeps(ui, WindowClick(ui, val)) /\ Keeps(ui, WindowClick(ToNext(ui, id), val))
    <3>1. Opened(ToNext(ui, id)) /\ Keeps(ui, ToNext(ui, id))
      BY <1>0, <2>2, ToNextOK, ToNextKeeps
    <3> QED BY <1>0, <3>1, ClickedKeeps
  <2> QED BY <2>1, <2>2, <2>3, QuietAgrees, LinkAgrees
<1>2. CASE onClickTreeLink
  <2> DEFINE open(id) == [ui EXCEPT !.tree = expand_node(@, id)]
  <2>1. PICK id \in Nodes, val \in Vals :
          IF id = ui.CurrentID THEN ui' = WindowClick(ui, val) /\ AskNothing
          ELSE ui' = WindowClick(ToNext(open(id), id), val) /\ Ask(id, "link")
    BY <1>2 DEF onClickTreeLink
  <2> DEFINE u == open(id)
  <2>2. Opened(u) /\ Keeps(ui, u)
    <3>1. /\ expand_node(ui.tree, id) \in Trees
          /\ expand_node(ui.tree, id).selected = ui.tree.selected
      BY <1>0, ExpandSound, MarkStays
    <3> QED BY <1>0, <3>1, TreeOK, TreeKeeps
  <2>3. \/ ui' = WindowClick(ui, val) /\ AskNothing
        \/ ui' = WindowClick(ToNext(u, id), val) /\ Ask(id, "link")
    BY <2>1
  <2> HIDE DEF u
  <2>4. Opened(ToNext(u, id)) /\ Keeps(ui, ToNext(u, id))
    <3>1. Opened(ToNext(u, id)) /\ Keeps(u, ToNext(u, id))
      BY <2>2, ToNextOK, ToNextKeeps
    <3> QED BY <2>2, <3>1, KeepsThrough
  <2>5. Keeps(ui, WindowClick(ui, val)) /\ Keeps(ui, WindowClick(ToNext(u, id), val))
    BY <1>0, <2>4, ClickedKeeps
  <2> QED BY <2>3, <2>5, QuietAgrees, LinkAgrees
<1>3. CASE load_parent_page
  <2>1. Above(ui.CurrentID) \in Nodes
    BY <1>0, <1>3, LineageOf DEF load_parent_page, Above, Opened
  <2>2. Ask(Above(ui.CurrentID), "link") /\ ui' = ui
    BY <1>3 DEF load_parent_page
  <2> QED BY <1>0, <2>1, <2>2, LinkAgrees
<1> QED BY <1>1, <1>2, <1>3

LEMMA ResultsAgree ==
  ASSUME ViewerInv, EnterResult \/ ClickResult PROVE AgreeInv'
<1>0. Opened(ui) /\ SearchInv
  BY OpenedOnce DEF ViewerInv, EnterResult, ClickResult
<1>1. CASE EnterResult
  <2>1. Entered \in DOMAIN results
    BY <1>0, <1>1, EnteredTyped DEF EnterResult
  <2>2. results[Entered].id \in Nodes /\ Ask(results[Entered].id, "search")
    BY <1>0, <1>1, <2>1, ResultOK DEF EnterResult
  <2> QED BY <2>2, ResultAgrees
<1>2. CASE ClickResult
  <2>1. PICK i \in DOMAIN results : Ask(results[i].id, "search")
    BY <1>2 DEF ClickResult
  <2> QED BY <1>0, <2>1, ResultOK, ResultAgrees
<1> QED BY <1>1, <1>2

LEMMA StayAgrees ==
  ASSUME ViewerInv, AgreeInv,
         \/ ClickTreeFold \/ onClickTreeCollapseAll \/ ClickIndex \/ IndexKey \/ ClickAway
         \/ SearchKey \/ onSearchButtonClick \/ TypeQuery \/ SelectResult
  PROVE  AgreeInv'
<1>0. /\ Opened(ui) /\ UiOK(ui) /\ Keeps(ui, ui) /\ DOMAIN ui = Fields /\ ui.tree \in Trees
      /\ ui.CurrentID \in Nodes
  <2>1. Opened(ui)
    BY OpenedOnce DEF ClickTreeFold, onClickTreeCollapseAll, ClickIndex, IndexKey, ClickAway,
                      SearchKey, onSearchButtonClick, TypeQuery, SelectResult
  <2> QED BY <2>1 DEF Opened, UiOK, Keeps
<1>1. AskNothing
  BY DEF ClickTreeFold, onClickTreeCollapseAll, ClickIndex, IndexKey, ClickAway,
         SearchKey, onSearchButtonClick, TypeQuery, SelectResult
<1> SUFFICES Keeps(ui, ui')
  BY <1>1, QuietAgrees
<1>2. CASE ClickTreeFold
  <2>1. PICK id \in Nodes, val \in Vals :
          ui' = WindowClick([ui EXCEPT !.tree = onClickTreeFold(@, id, ui.CurrentID)], val)
    BY <1>2 DEF ClickTreeFold
  <2> DEFINE tree == onClickTreeFold(ui.tree, id, ui.CurrentID)
             u    == [ui EXCEPT !.tree = tree]
  <2>2. /\ tree \in Trees /\ ui' = WindowClick(u, val)
        /\ ui.tree.selected = ui.CurrentID => tree.selected = ui.CurrentID
    BY <1>0, <2>1, FoldSound, MarkStaysFolded
  <2> HIDE DEF tree
  <2>3. Opened(u) /\ Keeps(ui, u)
    BY <1>0, <2>2, TreeOK, TreeKeeps
  <2> HIDE DEF u
  <2> QED BY <2>2, <2>3, ClickedKeeps
<1>3. CASE onClickTreeCollapseAll
  <2>1. PICK val \in Vals : ui' = WindowClick([ui EXCEPT !.tree = collapse_all(@)], val)
    BY <1>3 DEF onClickTreeCollapseAll
  <2> DEFINE tree == collapse_all(ui.tree)
             u    == [ui EXCEPT !.tree = tree]
  <2>2. tree \in Trees /\ ui' = WindowClick(u, val) /\ tree.selected = ui.tree.selected
    BY <1>0, <2>1, CollapseAllSound, MarkStaysFolded
  <2> HIDE DEF tree
  <2>3. Opened(u) /\ Keeps(ui, u)
    BY <1>0, <2>2, TreeOK, TreeKeeps
  <2> HIDE DEF u
  <2> QED BY <2>2, <2>3, ClickedKeeps
<1>4. CASE ClickIndex
  <2>1. PICK span, val : ui' = onClickCrumbtrailIdx(ui, span, val)
    BY <1>4 DEF ClickIndex
  <2> QED BY <1>0, <2>1, SwitchKeeps
<1>5. CASE IndexKey
  <2>1. PICK val : \/ ui' = switch_to_prev_idx_edit(ui, val)
                   \/ ui' = switch_to_next_idx_edit(ui, val)
                   \/ \E cancel \in BOOLEAN : ui' = exitIndexEditModal(ui, cancel, val)
    BY <1>5 DEF IndexKey
  <2> QED BY <1>0, <2>1, SwitchKeeps, ExitKeeps
<1>6. CASE ClickAway \/ onSearchButtonClick
  <2>1. PICK val : ui' = WindowClick(ui, val)
    BY <1>6 DEF ClickAway, onSearchButtonClick
  <2> QED BY <1>0, <2>1, ExitKeeps
<1>7. CASE SearchKey \/ TypeQuery \/ SelectResult
  <2>1. ui' = ui
    BY <1>7 DEF SearchKey, TypeQuery, SelectResult
  <2> QED BY <1>0, <2>1
<1> QED BY <1>2, <1>3, <1>4, <1>5, <1>6, <1>7

LEMMA FormAgrees ==
  ASSUME ViewerInv, AgreeInv, TypeField \/ PickEnum \/ TypeReg \/ ClickReset \/ ClickRadix
  PROVE  AgreeInv'
<1>0. Opened(ui) /\ Keeps(ui, ui) /\ FormOK(ui.form) /\ ui.CurrentID \in Nodes /\ DOMAIN ui = Fields
  BY OpenedOnce DEF TypeField, PickEnum, TypeReg, ClickReset, ClickRadix, Opened, UiOK, Keeps
<1>1. AskNothing
  BY DEF TypeField, PickEnum, TypeReg, ClickReset, ClickRadix
<1> SUFFICES Keeps(ui, ui')
  BY <1>1, QuietAgrees
<1>2. CASE TypeField \/ PickEnum \/ TypeReg
  <2>1. PICK outcome : ui' = Edited(ui, outcome)
    BY <1>2 DEF TypeField, PickEnum, TypeReg
  <2> QED BY <1>0, <2>1, EditedKeeps
<1>3. CASE ClickReset
  <2> DEFINE v == Edited(ui, onResetRegValue(ui.form, ui.CurrentID))
  <2>1. Keeps(ui, v)
    BY <1>0, EditedKeeps
  <2>2. Opened(v)
    BY <1>0, ResetValue, EditedOK
  <2>3. PICK val \in Vals : ui' = WindowClick(v, val)
    BY <1>3 DEF ClickReset
  <2> HIDE DEF v
  <2> QED BY <2>1, <2>2, <2>3, ClickedKeeps
<1>4. CASE ClickRadix
  <2> DEFINE disp(name) == SwitchRadix(ui.disp, ui.CurrentID, name)
             set(name)  == [ui EXCEPT !.disp = disp(name)]
             out(name)  == onRadixSwitch(ui.form, ui.CurrentID, name, disp(name))
  <2>1. PICK name \in DOMAIN ui.form.field, val \in Vals :
          ui' = WindowClick(IF ~Fits(ui.form, ui.CurrentID) THEN ui
                            ELSE Edited(set(name), out(name)), val)
    BY <1>4 DEF ClickRadix
  <2> DEFINE w == Edited(set(name), out(name))
  <2>2. Opened(set(name)) /\ Keeps(ui, set(name))
    <3>1. Opened(set(name))
      BY <1>0, SetOK DEF Opened, UiOK, Fields
    <3>2. Keeps(ui, set(name))
      BY <1>0, KeepsSet
    <3> QED BY <3>1, <3>2
  <2>3. Fits(ui.form, ui.CurrentID) => OutcomeOK(out(name))
    BY <1>0, RadixSwitch
  <2> HIDE DEF set, out
  <2>4. Fits(ui.form, ui.CurrentID) => Opened(w) /\ Keeps(ui, w)
    <3>1. Keeps(set(name), w)
      BY <2>2, EditedKeeps
    <3>2. Keeps(ui, w)
      BY <2>2, <3>1, KeepsThrough
    <3>3. Fits(ui.form, ui.CurrentID) => Opened(w)
      BY <2>2, <2>3, EditedOK
    <3> QED BY <3>2, <3>3
  <2> HIDE DEF w
  <2>5. Opened(ui) /\ Keeps(ui, ui)
    BY <1>0
  <2> DEFINE v == IF ~Fits(ui.form, ui.CurrentID) THEN ui ELSE w
  <2>6. Opened(v) /\ Keeps(ui, v) /\ ui' = WindowClick(v, val)
    BY <2>1, <2>4, <2>5 DEF w
  <2> HIDE DEF v
  <2> QED BY <2>6, ClickedKeeps
<1> QED BY <1>2, <1>3, <1>4

LEMMA AgreeKeeps == ViewerInv /\ AgreeInv /\ [Next]_vars => AgreeInv'
<1> SUFFICES ASSUME ViewerInv, AgreeInv, [Next]_vars PROVE AgreeInv'
  OBVIOUS
<1>1. CASE SearchRuns \/ UNCHANGED vars
  <2>1. UNCHANGED <<ui, loads, rough>>
    BY <1>1 DEF SearchRuns, vars
  <2> QED BY <2>1 DEF AgreeInv, Pending
<1>2. CASE \/ onClickNodeLink \/ onClickTreeLink \/ load_parent_page \/ onPopState
           \/ EnterResult \/ ClickResult
  BY <1>2, LinksAgree, HistoryAgrees, ResultsAgree
<1>3. CASE \/ ClickTreeFold \/ onClickTreeCollapseAll \/ ClickIndex \/ IndexKey \/ ClickAway
           \/ SearchKey \/ onSearchButtonClick \/ TypeQuery \/ SelectResult
           \/ TypeField \/ PickEnum \/ TypeReg \/ ClickReset \/ ClickRadix
  BY <1>3, StayAgrees, FormAgrees
<1>4. CASE \/ \E f \in DataFiles : RalFileArrives(f) \/ RalFileFails(f)
           \/ \E i \in DOMAIN loads : PageArrives(i) \/ PageFails(i)
  BY <1>4, FilesAgree, ArrivalAgrees, FailureAgrees
<1> QED BY <1>1, <1>2, <1>3, <1>4 DEF Next

LEMMA ViewerAgrees == Spec => []AgreeInv
<1>1. Init => AgreeInv
  BY DEF Init, AgreeInv, Pending
<1> QED BY <1>1, ViewerShape, AgreeKeeps, PTL DEF Spec

\* Once nothing is on its way, page, title, sidebar, crumb trail, address, indexes and URL
\* are about one position: for every tree, every reader, any number of pages that arrive in
\* any order, and links that fail.
THEOREM SettledParts == Spec => []PartsAgree
<1>1. AgreeInv => PartsAgree
  <2> SUFFICES ASSUME AgreeInv, Settled PROVE Agree(ui) /\ UrlFits(ui)
    BY AgreeHeaded DEF PartsAgree, Agree, UrlFits
  <2>1. ~Pending({"url"}) /\ ~Pending({"search"}) /\ ~rough /\ ui.CurrentID # NoNode
    BY DEF Settled, Pending
  <2> QED BY <2>1 DEF AgreeInv
<1> QED BY <1>1, ViewerAgrees, PTL

-----------------------------------------------------------------------------
(* The values the reader has entered.                                      *)

Kept(u, v) == DOMAIN v = Fields /\ v.registry = u.registry

LEMMA SetKept ==
  ASSUME NEW u, DOMAIN u = Fields, NEW x
  PROVE  /\ Kept(u, u)
         /\ Kept(u, [u EXCEPT !.tree = x]) /\ Kept(u, [u EXCEPT !.idxs = x])
         /\ Kept(u, [u EXCEPT !.modal = x]) /\ Kept(u, [u EXCEPT !.disp = x])
         /\ Kept(u, [u EXCEPT !.pos = x]) /\ Kept(u, [u EXCEPT !.modal.active = x])
BY DEF Kept, Fields

LEMMA WrittenKept ==
  ASSUME NEW u, DOMAIN u = Fields
  PROVE  Kept(u, Headed(u)) /\ Kept(u, FillForm(u)) /\ Kept(u, patch_url_path(u))
<1>1. Kept(u, Headed(u))
  BY DEF Kept, Fields, Headed, update_crumbtrail, update_absolute_addr, update_rdlfc_indexes
<1>2. Kept(u, FillForm(u)) /\ Kept(u, patch_url_path(u))
  BY DEF Kept, Fields, FillForm, patch_url_path
<1> QED BY <1>1, <1>2

LEMMA ExitKept ==
  ASSUME NEW u, NEW v, Kept(u, v), NEW cancel, NEW val
  PROVE  Kept(u, exitIndexEditModal(v, cancel, val)) /\ Kept(u, WindowClick(v, val))
<1> DEFINE closed == [v EXCEPT !.modal.active = FALSE]
           set    == [closed EXCEPT !.idxs[v.modal.id][v.modal.dim] = val]
<1>1. Kept(u, closed)
  BY SetKept DEF Kept
<1>2. Kept(u, set)
  BY <1>1 DEF Kept, Fields
<1> HIDE DEF closed, set
<1>3. Kept(u, FillForm(patch_url_path(Headed(set))))
  BY <1>2, WrittenKept DEF Kept
<1>4. ASSUME NEW c PROVE Kept(u, exitIndexEditModal(v, c, val))
  BY <1>1, <1>3 DEF exitIndexEditModal, closed, set
<1> QED BY <1>4 DEF WindowClick

LEMMA SwitchKept ==
  ASSUME NEW u, DOMAIN u = Fields, NEW span, NEW val
  PROVE  /\ Kept(u, onClickCrumbtrailIdx(u, span, val))
         /\ Kept(u, switch_to_prev_idx_edit(u, val))
         /\ Kept(u, switch_to_next_idx_edit(u, val))
<1> DEFINE closed == exitIndexEditModal(u, FALSE, val)
<1>0. Kept(u, u)
  BY DEF Kept
<1>1. Kept(u, u) /\ Kept(u, closed)
  BY <1>0, ExitKept
<1> HIDE DEF closed
<1>2. ASSUME NEW s, NEW t, NEW v, Kept(u, v) PROVE Kept(u, showIndexEditModal(v, s, t))
  BY <1>2 DEF showIndexEditModal, Kept, Fields
<1> QED
  BY <1>1, <1>2 DEF closed, onClickCrumbtrailIdx, switch_to_prev_idx_edit, switch_to_next_idx_edit

LEMMA TravelKept ==
  ASSUME NEW u, DOMAIN u = Fields, NEW id, NEW i
  PROVE  /\ Kept(u, ToNext(u, id)) /\ Kept(u, open_search_result(u, i))
         /\ Kept(u, load_page_via_url(u))
<1>1. Kept(u, ToNext(u, id)) /\ Kept(u, open_search_result(u, i))
  BY DEF Kept, Fields, ToNext, open_search_result
<1>2. Kept(u, load_page_via_url(u))
  <2> DEFINE parsed == parse_path(u.history[u.pos])
             at     == [u EXCEPT !.CurrentID = parsed.id,
                                 !.idxs = apply_idx_stack(@, parsed.id, parsed.stack)]
             start  == [u EXCEPT !.CurrentID = 0, !.history[u.pos] = NoPath]
  <2>1. Kept(u, at) /\ Kept(u, start)
    BY DEF Kept, Fields
  <2>2. load_page_via_url(u) = IF parsed = NoPosition THEN start ELSE patch_url_path(at)
    BY DEF load_page_via_url, Displayed
  <2> HIDE DEF at, start
  <2> QED BY <2>1, <2>2, WrittenKept DEF Kept
<1> QED BY <1>1, <1>2

LEMMA ShownKept ==
  ASSUME NEW u, DOMAIN u = Fields, NEW id
  PROVE  LET shown == ShowInSidebar(load_page(u, id), id)
         IN  Kept(u, shown) /\ Kept(u, refresh_url(shown))
<1> DEFINE s     == [u EXCEPT !.CurrentID = id, !.page = id, !.form = Fresh(id)]
           page  == load_page(u, id)
           shown == ShowInSidebar(page, id)
<1>1. Kept(u, s) /\ page = FillForm(Headed(s))
  BY DEF Kept, Fields, load_page
<1> HIDE DEF s, page
<1>2. Kept(u, page)
  BY <1>1, WrittenKept DEF Kept
<1>3. Kept(u, shown)
  BY <1>2 DEF Kept, Fields, ShowInSidebar
<1> HIDE DEF shown
<1>4. Kept(u, refresh_url(shown))
  BY <1>3 DEF Kept, Fields, refresh_url
<1> QED BY <1>3, <1>4 DEF shown, page

\* At most the value at the address of the current node is new.
Saved(u, v) ==
  \A a \in DOMAIN v.registry \ {addr_key(u)} :
    a \in DOMAIN u.registry /\ v.registry[a] = u.registry[a]

LEMMA EditedSaves ==
  ASSUME NEW u, DOMAIN u = Fields, NEW v, Kept(u, v), addr_key(v) = addr_key(u), NEW outcome
  PROVE  DOMAIN Edited(v, outcome) = Fields /\ Saved(u, Edited(v, outcome))
<1> DEFINE key == addr_key(v)
           reg == IF outcome.saved THEN save_reg_state(v.registry, key, outcome.form.reg)
                  ELSE v.registry
           w   == Edited(v, outcome)
<1>1. DOMAIN w = Fields /\ w.registry = reg
  BY DEF Edited, Kept, Fields
<1>2. \A a \in DOMAIN reg \ {key} : a \in DOMAIN v.registry /\ reg[a] = v.registry[a]
  BY DEF save_reg_state
<1> HIDE DEF reg, key, w
<1>3. Saved(u, w)
  BY <1>1, <1>2 DEF Saved, Kept, key
<1> QED BY <1>1, <1>3 DEF w

LEMMA SavedByKept ==
  ASSUME NEW u, NEW v, NEW w, Saved(u, v), Kept(v, w) PROVE Saved(u, w)
BY DEF Saved, Kept

LEMMA FormSaves ==
  ASSUME Opened(ui), TypeField \/ PickEnum \/ TypeReg \/ ClickReset \/ ClickRadix
  PROVE  Saved(ui, ui')
<1>0. DOMAIN ui = Fields /\ Kept(ui, ui) /\ Saved(ui, ui)
  BY DEF Opened, UiOK, Kept, Saved
<1>1. ASSUME NEW v, Saved(ui, v), DOMAIN v = Fields, NEW val PROVE Saved(ui, WindowClick(v, val))
  <2>1. Kept(v, WindowClick(v, val))
    BY <1>1, ExitKept DEF Kept
  <2> QED BY <1>1, <2>1, SavedByKept
<1>2. CASE TypeField \/ PickEnum \/ TypeReg
  <2>1. PICK outcome : ui' = Edited(ui, outcome)
    BY <1>2 DEF TypeField, PickEnum, TypeReg
  <2> QED BY <1>0, <2>1, EditedSaves
<1>3. CASE ClickReset
  <2>1. PICK outcome, val : ui' = WindowClick(Edited(ui, outcome), val)
    BY <1>3 DEF ClickReset
  <2> QED BY <1>0, <1>1, <2>1, EditedSaves
<1>4. CASE ClickRadix
  <2>1. PICK disp, outcome, val :
          \/ ui' = WindowClick(ui, val)
          \/ ui' = WindowClick(Edited([ui EXCEPT !.disp = disp], outcome), val)
    BY <1>4 DEF ClickRadix
  <2> DEFINE u == [ui EXCEPT !.disp = disp]
             v == Edited(u, outcome)
  <2>2. Kept(ui, u) /\ addr_key(u) = addr_key(ui)
    BY <1>0, SetKept DEF addr_key, Fields
  <2>3. ui' = WindowClick(ui, val) \/ ui' = WindowClick(v, val)
    BY <2>1
  <2> HIDE DEF u
  <2>4. DOMAIN v = Fields /\ Saved(ui, v)
    BY <1>0, <2>2, EditedSaves
  <2> HIDE DEF v
  <2> QED BY <1>0, <1>1, <2>3, <2>4
<1> QED BY <1>2, <1>3, <1>4

LEMMA OthersKeep ==
  ASSUME DOMAIN ui = Fields, [Next]_vars,
         ~(TypeField \/ PickEnum \/ TypeReg \/ ClickReset \/ ClickRadix)
  PROVE  ui'.registry = ui.registry
<1>0. Kept(ui, ui)
  BY DEF Kept
<1> SUFFICES Kept(ui, ui')
  BY DEF Kept
<1>1. ASSUME NEW f, RalFileArrives(f) \/ RalFileFails(f) PROVE Kept(ui, ui')
  <2> DEFINE u == load_page_via_url(ui)
  <2>1. ui' = ui \/ \E t : ui' = [u EXCEPT !.tree = t]
    BY <1>1 DEF RalFileArrives, RalFileFails
  <2>2. Kept(ui, u)
    BY TravelKept
  <2> HIDE DEF u
  <2>3. \A t : Kept(u, [u EXCEPT !.tree = t])
    BY <2>2, SetKept DEF Kept
  <2>4. \A t : Kept(ui, [u EXCEPT !.tree = t])
    BY <2>2, <2>3 DEF Kept
  <2> QED BY <1>0, <2>1, <2>4
<1>2. ASSUME NEW i, PageArrives(i) \/ PageFails(i) PROVE Kept(ui, ui')
  <2> DEFINE id == loads[i].id
             shown == ShowInSidebar(load_page(ui, id), id)
  <2>1. ui' = ui \/ ui' = shown \/ ui' = refresh_url(shown)
    BY <1>2 DEF PageArrives, PageFails
  <2> QED BY <1>0, <2>1, ShownKept
<1>3. CASE onClickNodeLink \/ onClickTreeLink
  <2>1. PICK id, val, t :
          \/ ui' = WindowClick(ui, val) \/ ui' = WindowClick(ToNext(ui, id), val)
          \/ ui' = WindowClick(ToNext([ui EXCEPT !.tree = t], id), val)
    BY <1>3 DEF onClickNodeLink, onClickTreeLink
  <2> DEFINE u == [ui EXCEPT !.tree = t]
  <2>2. Kept(ui, u)
    BY SetKept
  <2>3. \/ ui' = WindowClick(ui, val) \/ ui' = WindowClick(ToNext(ui, id), val)
        \/ ui' = WindowClick(ToNext(u, id), val)
    BY <2>1
  <2> HIDE DEF u
  <2>4. Kept(ui, ToNext(ui, id)) /\ Kept(ui, ToNext(u, id))
    BY <2>2, TravelKept DEF Kept
  <2> QED BY <1>0, <2>3, <2>4, ExitKept
<1>4. CASE ClickTreeFold \/ onClickTreeCollapseAll
  <2>1. PICK t, val : ui' = WindowClick([ui EXCEPT !.tree = t], val)
    BY <1>4 DEF ClickTreeFold, onClickTreeCollapseAll
  <2> QED BY <2>1, SetKept, ExitKept
<1>5. CASE load_parent_page \/ SearchKey \/ TypeQuery \/ SelectResult \/ SearchRuns \/ UNCHANGED vars
  BY <1>0, <1>5 DEF load_parent_page, SearchKey, TypeQuery, SelectResult, SearchRuns, vars
<1>6. CASE onPopState
  <2>1. PICK p : ui' = load_page_via_url([ui EXCEPT !.pos = p])
    BY <1>6 DEF onPopState
  <2> DEFINE u == [ui EXCEPT !.pos = p]
  <2>2. Kept(ui, u) /\ ui' = load_page_via_url(u)
    BY <2>1, SetKept
  <2> HIDE DEF u
  <2> QED BY <2>2, TravelKept DEF Kept
<1>7. CASE ClickIndex \/ IndexKey
  <2>1. PICK span, val, c : \/ ui' = onClickCrumbtrailIdx(ui, span, val)
                            \/ ui' = switch_to_prev_idx_edit(ui, val)
                            \/ ui' = switch_to_next_idx_edit(ui, val)
                            \/ ui' = exitIndexEditModal(ui, c, val)
    BY <1>7 DEF ClickIndex, IndexKey
  <2> QED BY <1>0, <2>1, SwitchKept, ExitKept
<1>8. CASE ClickAway \/ onSearchButtonClick
  <2>1. PICK val : ui' = WindowClick(ui, val)
    BY <1>8 DEF ClickAway, onSearchButtonClick
  <2> QED BY <1>0, <2>1, ExitKept
<1>9. CASE EnterResult \/ ClickResult
  <2>1. PICK i, val : \/ ui' = open_search_result(ui, i)
                      \/ ui' = WindowClick(open_search_result(ui, i), val)
    BY <1>9 DEF EnterResult, ClickResult
  <2> QED BY <2>1, TravelKept, ExitKept
<1> QED BY <1>1, <1>2, <1>3, <1>4, <1>5, <1>6, <1>7, <1>8, <1>9 DEF Next

\* What is entered is kept under the address on display and changes nothing else, also
\* while the pages of links are on their way: for every tree and everything typed.
THEOREM SavedWhereShown == Spec => EditsSavedWhereShown
<1> DEFINE A == ui'.registry # ui.registry /\ ~rough /\ ~Pending({"url", "search"}) =>
                  \A a \in DOMAIN ui'.registry \ {ui.addr} :
                    a \in DOMAIN ui.registry /\ ui'.registry[a] = ui.registry[a]
<1>1. ViewerInv /\ AgreeInv /\ [Next]_vars => [A]_vars
  <2> SUFFICES ASSUME ViewerInv, AgreeInv, [Next]_vars, ui'.registry # ui.registry,
                      ~rough, ~Pending({"url", "search"})
               PROVE  \A a \in DOMAIN ui'.registry \ {ui.addr} :
                        a \in DOMAIN ui.registry /\ ui'.registry[a] = ui.registry[a]
    OBVIOUS
  <2>1. TypeField \/ PickEnum \/ TypeReg \/ ClickReset \/ ClickRadix
    BY OthersKeep DEF ViewerInv, UiOK
  <2>2. Opened(ui) /\ ui.CurrentID # NoNode
    BY <2>1, OpenedOnce DEF TypeField, PickEnum, TypeReg, ClickReset, ClickRadix, User
  <2>3. ~Pending({"url"}) /\ ~Pending({"search"})
    BY DEF Pending
  <2>4. ui.addr = addr_key(ui)
    BY <2>2, <2>3 DEF AgreeInv, Agree, Titled, addr_key
  <2> QED BY <2>1, <2>2, <2>4, FormSaves DEF Saved
<1> HIDE DEF A
<1>2. Spec => [][A]_vars
  BY <1>1, ViewerShape, ViewerAgrees, PTL DEF Spec
<1> QED BY <1>2 DEF EditsSavedWhereShown, A

\* The path of every position the reader can reach is parsed into that position again: for
\* every tree whose siblings have different names.
THEOREM PathsRoundTrip == Spec => PathRoundTrip
<1> DEFINE A == ui'.idxs # ui.idxs => PathsLeadBack(ui'.idxs)
<1>1. ViewerInv' => A
  BY LeadsBack DEF ViewerInv, UiOK
<1> HIDE DEF A
<1>2. Spec => [][A]_vars
  BY <1>1, ViewerShape, PTL
<1> QED BY <1>2 DEF PathRoundTrip, A

-----------------------------------------------------------------------------
(* Addresses lead back.                                                    *)

\* What index k of an array counts in the number of an element.
Worth(dims, k) == Product(SubSeq(dims, k + 1, Len(dims)))

LEMMA WorthSteps ==
  ASSUME NEW dims \in Seq(Nat \ {0})
  PROVE  /\ \A k \in 0..Len(dims) : Worth(dims, k) \in Nat \ {0}
         /\ \A k \in 1..Len(dims) : Worth(dims, k-1) = dims[k] * Worth(dims, k)
         /\ Worth(dims, Len(dims)) = 1 /\ Worth(dims, 0) = Product(dims)
<1> DEFINE n    == Len(dims)
           A    == Nat \ {0}
           t(k) == SubSeq(dims, k + 1, n)
<1>1. n \in Nat /\ \A i \in 1..n : dims[i] \in A
  BY ElementOfSeq, LenProperties
<1>2. ASSUME NEW k \in 0..n
      PROVE  /\ t(k) \in Seq(A) /\ Len(t(k)) = n - k
             /\ \A i \in 1..n-k : t(k)[i] = dims[k + i]
  BY Suffix
<1>3. \A k \in 0..n : Worth(dims, k) = Product(t(k))
  BY DEF Worth
<1>4. \A k \in 0..n : Product(t(k)) \in A
  BY <1>2, ProductPositive
<1>5. ASSUME NEW k \in 1..n PROVE Product(t(k-1)) = dims[k] * Product(t(k))
  <2> DEFINE m == n - k
  <2>1. /\ m \in Nat /\ k \in 0..n /\ k - 1 \in 0..n /\ n - (k-1) = m + 1
        /\ dims[k] \in A
    BY <1>1
  <2>2. /\ t(k-1) \in Seq(A) /\ Len(t(k-1)) = m + 1
        /\ \A i \in 1..m+1 : t(k-1)[i] = dims[(k-1) + i]
    BY <1>2, <2>1
  <2>3. t(k) \in Seq(A) /\ Len(t(k)) = m /\ \A i \in 1..m : t(k)[i] = dims[k + i]
    BY <1>2, <2>1
  <2> DEFINE s == t(k-1)
             r == t(k)
  <2> HIDE DEF s, r, m
  <2>4. PICK g \in [0..m+1 -> A] :
          g[0] = 1 /\ g[m+1] = Product(s) /\ \A i \in 1..m+1 : g[i] = g[i-1] * s[i]
    <3>1. s \in Seq(Nat \ {0}) /\ Len(s) = m + 1
      BY <2>2 DEF s
    <3> QED BY <3>1, ProductSteps
  <2>5. PICK h \in [0..m -> A] :
          h[0] = 1 /\ h[m] = Product(r) /\ \A i \in 1..m : h[i] = h[i-1] * r[i]
    <3>1. r \in Seq(Nat \ {0}) /\ Len(r) = m
      BY <2>3 DEF r
    <3> QED BY <3>1, ProductSteps
  <2>6. s[1] = dims[k]
    <3>1. 1 \in 1..m+1 /\ (k-1) + 1 = k
      BY <2>1
    <3> QED BY <2>2, <3>1 DEF s
  <2>7. \A i \in 1..m : s[i+1] = r[i]
    <3> SUFFICES ASSUME NEW i \in 1..m PROVE s[i+1] = r[i]
      OBVIOUS
    <3>1. i + 1 \in 1..m+1 /\ (k-1) + (i+1) = k + i
      BY <2>1
    <3>2. s[i+1] = dims[(k-1) + (i+1)]
      BY <2>2, <3>1 DEF s
    <3>3. r[i] = dims[k + i]
      BY <2>3 DEF r
    <3> QED BY <3>1, <3>2, <3>3
  <2>8. Factors(m + 1, s, g)
    <3>1. \A i \in 1..m+1 : s[i] \in A
      BY <2>2, ElementOfSeq DEF s
    <3> QED BY <2>4, <3>1 DEF Factors
  <2>9. Factors(m, r, h)
    <3>1. \A i \in 1..m : r[i] \in A
      BY <2>3, ElementOfSeq DEF r
    <3> QED BY <2>5, <3>1 DEF Factors
  <2>10. g[m+1] = s[1] * h[m]
    <3>1. OneMore(m, s, r, g, h)
      BY <2>7, <2>8, <2>9 DEF OneMore
    <3> QED BY <2>1, <3>1, FirstFactor
  <2> QED BY <2>4, <2>5, <2>6, <2>10 DEF s, r
<1>6. Product(t(n)) = 1
  <2>1. n \in 0..n /\ n - n = 0
    BY <1>1
  <2>2. t(n) \in Seq(Nat \ {0}) /\ Len(t(n)) = 0
    BY <1>2, <2>1
  <2> HIDE DEF t
  <2>3. PICK g \in [0..0 -> Nat \ {0}] : g[0] = 1 /\ g[0] = Product(t(n))
    BY <2>2, ProductSteps
  <2> QED BY <2>3
<1>7. t(0) = dims
  <2>1. 0 \in 0..n /\ n - 0 = n /\ \A i \in 1..n : 0 + i = i
    BY <1>1
  <2>2. t(0) \in Seq(A) /\ Len(t(0)) = n /\ \A i \in 1..n : t(0)[i] = dims[i]
    BY <1>2, <2>1
  <2> HIDE DEF t, A
  <2> QED BY <2>2, SeqEqual DEF A
<1>8. 0 \in 0..n /\ n \in 0..n /\ \A k \in 1..n : k \in 0..n /\ k - 1 \in 0..n
  BY <1>1
<1> HIDE DEF t, n, A
<1> QED BY <1>3, <1>4, <1>5, <1>6, <1>7, <1>8 DEF n, A

\* The number of an element is a sum, index by index.
LEMMA FlatSteps ==
  ASSUME NEW dims \in Seq(Nat \ {0}), NEW ix \in [1..Len(dims) -> Nat]
  PROVE  \E g \in [0..Len(dims) -> Nat] :
           /\ g[0] = 0 /\ g[Len(dims)] = FlatIdx(dims, ix)
           /\ \A i \in 1..Len(dims) : g[i] = g[i-1] + ix[i] * Worth(dims, i)
<1> DEFINE n    == Len(dims)
           seq  == [i \in DOMAIN ix |-> i]
           D    == DOMAIN seq
           term(i) == ix[i] * Worth(dims, i)
           P(h) == h = [s \in SUBSET D |-> IF s = {} THEN 0
                          ELSE LET x == Max(s) IN h[s \ {x}] + term(seq[x])]
           it   == CHOOSE h : P(h)
           F    == [p \in Nat \X D |-> p[1] + term(p[2])]
<1>1. FlatIdx(dims, ix) = it[D]
  BY DEF FlatIdx, FoldLeftDomain, FoldLeft, MapThenFoldSet, Worth
<1>2. D = 1..n /\ n \in Nat /\ \A i \in D : seq[i] = i
  BY LenProperties
<1>3. D \in SUBSET Nat /\ IsFiniteSet(D)
  BY <1>2, Interval
<1>4. \A i \in D : term(i) \in Nat
  <2> SUFFICES ASSUME NEW i \in 1..n PROVE term(i) \in Nat
    BY <1>2
  <2>1. Worth(dims, i) \in Nat /\ ix[i] \in Nat
    BY <1>2, WorthSteps
  <2> QED BY <2>1
<1> HIDE DEF D, n, seq, term
<1>5. F \in [Nat \X D -> Nat] /\ \A a \in Nat : \A i \in D : F[<<a, i>>] = a + term(i)
  <2>1. \A p \in Nat \X D : p[1] + term(p[2]) \in Nat
    BY <1>4
  <2> QED BY <2>1
<1> HIDE DEF F
<1>6. PICK k \in [SUBSET D -> Nat] : FoldOf(D, F, 0, k)
  BY <1>3, <1>5, FoldRecursion
<1>7. ASSUME NEW s \in SUBSET D, s # {} PROVE Max(s) \in D /\ s \ {Max(s)} \in SUBSET D
  BY <1>3, <1>7, FS_Subset, GreatestMember
<1>8. P(k)
  <2> SUFFICES ASSUME NEW s \in SUBSET D, s # {}
               PROVE  k[s] = k[s \ {Max(s)}] + term(seq[Max(s)])
    BY <1>6 DEF FoldOf, FoldStep
  <2>1. Max(s) \in D /\ k[s \ {Max(s)}] \in Nat
    BY <1>6, <1>7
  <2>2. k[s] = F[<<k[s \ {Max(s)}], Max(s)>>]
    BY <1>6 DEF FoldOf, FoldStep
  <2> QED BY <1>2, <1>5, <2>1, <2>2
<1>9. P(it)
  BY <1>8
<1> HIDE DEF it
<1>10. it[{}] = 0
  BY <1>9
<1>11. ASSUME NEW s \in SUBSET D, s # {} /\ it[s \ {Max(s)}] \in Nat
       PROVE  it[s] = F[<<it[s \ {Max(s)}], Max(s)>>]
  <2>1. it[s] = it[s \ {Max(s)}] + term(seq[Max(s)])
    BY <1>9, <1>11
  <2>2. Max(s) \in D /\ it[s \ {Max(s)}] \in Nat
    BY <1>7, <1>11
  <2>3. seq[Max(s)] = Max(s)
    BY <1>2, <2>2
  <2> QED BY <1>5, <2>1, <2>2, <2>3
<1> HIDE DEF P
<1>12. StepsTo(Nat, n, 0, F, it[D])
  <2>1. 0 \in Nat
    OBVIOUS
  <2> QED BY <1>2, <1>5, <1>10, <1>11, <2>1, FoldSteps
<1>13. PICK g \in [0..n -> Nat] :
         g[0] = 0 /\ g[n] = it[D] /\ \A i \in 1..n : g[i] = F[<<g[i-1], i>>]
  BY <1>12 DEF StepsTo
<1>14. \A i \in 1..n : g[i] = g[i-1] + term(i)
  <2> SUFFICES ASSUME NEW i \in 1..n PROVE g[i] = g[i-1] + term(i)
    OBVIOUS
  <2>1. i - 1 \in 0..n
    BY <1>2
  <2> QED BY <1>2, <1>5, <1>13, <2>1
<1> QED BY <1>1, <1>13, <1>14 DEF n, term

\* Indexes within the dimensions of an array can be read off the number of the element.
LEMMA FlatDigits ==
  ASSUME NEW dims \in Seq(Nat \ {0}), NEW ix \in [1..Len(dims) -> Nat],
         \A d \in 1..Len(dims) : ix[d] < dims[d]
  PROVE  /\ FlatIdx(dims, ix) \in Nat /\ FlatIdx(dims, ix) < Product(dims)
         /\ Unflatten(dims, FlatIdx(dims, ix)) = ix
<1> DEFINE n == Len(dims)
           x == FlatIdx(dims, ix)
           w == [k \in 0..n |-> Worth(dims, k)]
<1>1. n \in Nat /\ DOMAIN dims = 1..n /\ \A i \in 1..n : dims[i] \in Nat \ {0}
  BY ElementOfSeq, LenProperties
<1>2. /\ \A k \in 0..n : w[k] \in Nat \ {0}
      /\ \A k \in 1..n : w[k-1] = dims[k] * w[k]
      /\ w[n] = 1 /\ w[0] = Product(dims)
  <2>1. 0 \in 0..n /\ n \in 0..n /\ \A k \in 1..n : k \in 0..n /\ k - 1 \in 0..n
    BY <1>1
  <2> QED BY <2>1, WorthSteps
<1>3. PICK g \in [0..n -> Nat] :
        g[0] = 0 /\ g[n] = x /\ \A i \in 1..n : g[i] = g[i-1] + ix[i] * Worth(dims, i)
  BY FlatSteps
<1>4. \A i \in 1..n : w[i] = Worth(dims, i) /\ ix[i] \in Nat /\ ix[i] < dims[i]
  BY <1>1
<1>5. Unflatten(dims, x) = [d \in 1..n |-> (x \div w[d]) % dims[d]]
  BY <1>1, <1>4 DEF Unflatten, Worth
<1> HIDE DEF x, w
<1>6. Mixed(n, dims, ix, w, g, x)
  BY <1>1, <1>2, <1>3, <1>4 DEF Mixed
<1>7. x \in Nat /\ x < w[0] /\ \A d \in 1..n : (x \div w[d]) % dims[d] = ix[d]
  BY <1>1, <1>6, MixedDigits
<1>8. Unflatten(dims, x) = ix
  BY <1>5, <1>7
<1> QED BY <1>2, <1>7, <1>8 DEF x

\* The element of an array, or the node itself, that the indexes say: an address in it is in
\* the node's range, and the search goes on with the rest of the address.
LEMMA ElementAt ==
  ASSUME NEW id \in Nodes, NEW ix \in IdxRange[id], NEW r \in Nat, r < Tree[id].size,
         NEW a, a = Tree[id].offset
                    + (IF is_array(id) THEN Tree[id].stride * FlatIdx(Tree[id].dims, ix) ELSE 0) + r
  PROVE  /\ a \in Nat /\ r <= a /\ Contains_(id, a)
         /\ Inner(<<id, a>>) = r /\ Here(<<id, a>>) = ix
<1> DEFINE dims == Tree[id].dims
           off  == Tree[id].offset
           x    == FlatIdx(dims, ix)
           m    == Product(dims)
           st   == Tree[id].stride
           size == Tree[id].size
<1>1. /\ off \in Nat /\ size \in Nat /\ (is_array(id) => st \in Nat \ {0})
      /\ (is_array(id) => size <= st)
  BY Extents, LayoutAssumption
<1>2. ix \in [1..Len(dims) -> Nat] /\ \A d \in 1..Len(dims) : ix[d] < dims[d]
  <2>1. ix \in [DOMAIN dims -> Nat] /\ \A d \in DOMAIN dims : ix[d] < dims[d]
    BY IdxRangeIs
  <2> QED BY <2>1, Dimensions
<1>3. dims \in Seq(Nat \ {0})
  BY Dimensions
<1>4. x \in Nat /\ x < m /\ Unflatten(dims, x) = ix
  BY <1>2, <1>3, FlatDigits
<1>5. m \in Nat
  BY <1>3, ProductPositive
<1>6. get_total_size(id) = size + (IF is_array(id) THEN st * (m - 1) ELSE 0)
  BY DEF get_total_size
<1>7. /\ Contains_(id, a) <=> a >= off /\ a < off + get_total_size(id)
      /\ Inner(<<id, a>>) = IF is_array(id) THEN (a - off) % st ELSE a - off
      /\ Here(<<id, a>>) = IF is_array(id) THEN Unflatten(dims, (a - off) \div st) ELSE <<>>
      /\ a = off + (IF is_array(id) THEN st * x ELSE 0) + r
  BY DEF Contains_, Inner, Here
<1>8. ~is_array(id) => ix = <<>>
  <2> SUFFICES ASSUME dims = <<>> PROVE ix = <<>>
    BY DEF is_array
  <2>1. Len(dims) = 0
    OBVIOUS
  <2> QED BY <1>2, <2>1
<1> HIDE DEF dims, off, x, m, st, size
<1>9. CASE ~is_array(id)
  <2>1. a = off + r /\ a \in Nat /\ get_total_size(id) = size
    BY <1>1, <1>6, <1>7, <1>9
  <2>2. r < size
    BY DEF size
  <2> QED BY <1>1, <1>7, <1>8, <1>9, <2>1, <2>2
<1>10. CASE is_array(id)
  <2>1. st \in Nat \ {0} /\ r < size /\ r < st
    BY <1>1, <1>10 DEF size
  <2> DEFINE y == st * x
             z == st * (m - 1)
  <2>2. y \in Nat /\ z \in Nat /\ y <= z
    <3> DEFINE d == m - 1 - x
    <3>1. d \in Nat /\ m - 1 = x + d
      BY <1>4, <1>5
    <3> HIDE DEF d
    <3>2. st * (x + d) = st * x + st * d /\ st * x \in Nat /\ st * d \in Nat
      BY <1>4, <2>1, <3>1
    <3> QED BY <3>1, <3>2
  <2>3. a - off = y + r /\ a \in Nat /\ get_total_size(id) = size + z
    <3>1. a = off + y + r
      BY <1>7, <1>10
    <3>2. get_total_size(id) = size + z
      BY <1>6, <1>10
    <3> HIDE DEF y, z
    <3> QED BY <1>1, <2>2, <3>1, <3>2
  <2>4. a - off = x * st + r
    <3>1. x * st = y
      BY <1>4, <2>1
    <3> HIDE DEF y
    <3> QED BY <2>3, <3>1
  <2> HIDE DEF y, z
  <2>5. Contains_(id, a) /\ r <= a
    <3>1. a >= off /\ r <= a /\ a < off + (size + z)
      BY <1>1, <2>1, <2>2, <2>3
    <3>2. Contains_(id, a) <=> a >= off /\ a < off + get_total_size(id)
      BY <1>7
    <3> QED BY <2>3, <3>1, <3>2
  <2>6. (a - off) % st = r /\ (a - off) \div st = x
    <3>1. 0 <= r /\ r < st /\ r \in Int /\ x \in Int /\ a - off \in Int
      BY <1>1, <1>4, <2>1, <2>3
    <3> QED BY <2>1, <2>4, <3>1, Division
  <2> QED BY <1>4, <1>7, <1>10, <2>3, <2>5, <2>6
<1> QED BY <1>9, <1>10

LEMMA SizeIsInt == ASSUME NEW n \in Nodes PROVE get_total_size(n) \in Int
<1>1. Tree[n].size \in Nat /\ (is_array(n) => Tree[n].stride \in Nat)
  BY Extents
<1>2. Product(Tree[n].dims) \in Nat
  BY Dimensions, ProductPositive
<1> QED BY <1>1, <1>2 DEF get_total_size

\* If a child holds the address the search goes on with that child.
LEMMA ChildAt ==
  ASSUME NEW p \in Points, NEW c, c \in ToSet(Tree[p[1]].children), Contains_(c, Inner(p)),
         Inner(p) \in Int
  PROVE  Hits(p) # {} /\ Child(p) = <<c, Inner(p)>>
<1> DEFINE id   == p[1]
           kids == Tree[id].children
           S    == {m \in Nodes : Tree[m].parent = id}
           b    == Inner(p)
           lo(i) == Tree[kids[i]].offset
           hi(i) == Tree[kids[i]].offset + get_total_size(kids[i])
<1>1. id \in Nodes /\ kids \in Seq(S) /\ DOMAIN kids = 1..Len(kids) /\ Len(kids) \in Nat
  <2>1. id \in Nodes
    BY DEF Points
  <2>2. kids \in Seq(S)
    BY <2>1, TreeAssumption
  <2> QED BY <2>1, <2>2, LenProperties
<1>2. PICK k \in DOMAIN kids : c = kids[k]
  BY DEF ToSet
<1>3. \A i \in DOMAIN kids : i \in Hits(p) <=> b >= lo(i) /\ b < hi(i)
  BY DEF Hits, Contains_
<1>4. \A i, j \in DOMAIN kids : i = j \/ hi(i) <= lo(j) \/ hi(j) <= lo(i)
  BY <1>1, LayoutAssumption
<1>5. \A i \in DOMAIN kids : lo(i) \in Int /\ hi(i) \in Int
  <2> SUFFICES ASSUME NEW i \in DOMAIN kids PROVE lo(i) \in Int /\ hi(i) \in Int
    OBVIOUS
  <2>1. kids[i] \in Nodes
    <3>1. kids[i] \in S
      BY <1>1, ElementOfSeq
    <3> QED BY <3>1
  <2>2. lo(i) \in Nat
    BY <2>1, Extents
  <2>3. get_total_size(kids[i]) \in Int
    BY <2>1, SizeIsInt
  <2> QED BY <2>2, <2>3
<1>6. Contains_(c, b) => k \in Hits(p)
  BY <1>2 DEF Hits
<1>7. Hits(p) \subseteq DOMAIN kids
  BY DEF Hits
<1> HIDE DEF lo, hi, kids, b
<1>8. ASSUME NEW i \in Hits(p) PROVE i = k
  <2>1. i \in DOMAIN kids /\ k \in DOMAIN kids /\ k \in Hits(p) /\ b \in Int
    BY <1>2, <1>6, <1>7 DEF b
  <2>2. b >= lo(i) /\ b < hi(i) /\ b >= lo(k) /\ b < hi(k)
    BY <1>3, <1>8, <2>1
  <2>3. i = k \/ hi(i) <= lo(k) \/ hi(k) <= lo(i)
    BY <1>4, <2>1
  <2>4. lo(i) \in Int /\ hi(i) \in Int /\ lo(k) \in Int /\ hi(k) \in Int
    BY <1>5, <2>1
  <2> QED BY <2>1, <2>2, <2>3, <2>4
<1>9. Hits(p) = {k} /\ k \in Nat
  BY <1>1, <1>2, <1>6, <1>8 DEF b
<1>10. Min(Hits(p)) = k
  BY <1>9 DEF Min
<1> QED BY <1>2, <1>9, <1>10 DEF Child, kids

\* The address of a node is a sum, node by node from its root on.
LEMMA AddressSteps ==
  ASSUME NEW idxs, NEW id \in Nodes,
         \A m \in Nodes : get_addr_offset(idxs, m) \in Nat
  PROVE  LET ids == get_ids_in_path[id]
         IN  \E g \in [0..Len(ids) -> Nat] :
               /\ g[0] = 0 /\ g[Len(ids)] = get_absolute_addr(idxs, id)
               /\ \A i \in 1..Len(ids) : g[i] = g[i-1] + get_addr_offset(idxs, ids[i])
<1> DEFINE ids  == get_ids_in_path[id]
           n    == Len(ids)
           D    == DOMAIN ids
           off(m) == get_addr_offset(idxs, m)
           P(h) == h = [s \in SUBSET D |-> IF s = {} THEN 0
                          ELSE LET x == Max(s) IN h[s \ {x}] + off(ids[x])]
           it   == CHOOSE h : P(h)
           F    == [p \in Nat \X D |-> p[1] + off(ids[p[2]])]
<1>1. get_absolute_addr(idxs, id) = it[D]
  BY DEF get_absolute_addr, FoldLeft, MapThenFoldSet
<1>2. ids \in Seq(Nodes)
  BY PathOfIds
<1> HIDE DEF ids, off
<1>3. D = 1..n /\ n \in Nat /\ \A i \in D : off(ids[i]) \in Nat
  <2>1. D = 1..n /\ n \in Nat /\ \A i \in D : ids[i] \in Nodes
    BY <1>2, ElementOfSeq, LenProperties
  <2> QED BY <2>1 DEF off
<1>4. D \in SUBSET Nat /\ IsFiniteSet(D)
  BY <1>3, Interval
<1> HIDE DEF D, n
<1>5. F \in [Nat \X D -> Nat] /\ \A a \in Nat : \A i \in D : F[<<a, i>>] = a + off(ids[i])
  <2>1. \A p \in Nat \X D : p[1] + off(ids[p[2]]) \in Nat
    BY <1>3
  <2> QED BY <2>1
<1> HIDE DEF F
<1>6. PICK k \in [SUBSET D -> Nat] : FoldOf(D, F, 0, k)
  BY <1>4, <1>5, FoldRecursion
<1>7. ASSUME NEW s \in SUBSET D, s # {} PROVE Max(s) \in D /\ s \ {Max(s)} \in SUBSET D
  BY <1>4, <1>7, FS_Subset, GreatestMember
<1>8. P(k)
  <2> SUFFICES ASSUME NEW s \in SUBSET D, s # {}
               PROVE  k[s] = k[s \ {Max(s)}] + off(ids[Max(s)])
    BY <1>6 DEF FoldOf, FoldStep
  <2>1. Max(s) \in D /\ k[s \ {Max(s)}] \in Nat
    BY <1>6, <1>7
  <2>2. k[s] = F[<<k[s \ {Max(s)}], Max(s)>>]
    BY <1>6 DEF FoldOf, FoldStep
  <2> QED BY <1>5, <2>1, <2>2
<1>9. P(it)
  BY <1>8
<1> HIDE DEF it
<1>10. it[{}] = 0 /\ 0 \in Nat
  BY <1>9
<1>11. ASSUME NEW s \in SUBSET D, s # {} /\ it[s \ {Max(s)}] \in Nat
       PROVE  it[s] = F[<<it[s \ {Max(s)}], Max(s)>>]
  <2>1. it[s] = it[s \ {Max(s)}] + off(ids[Max(s)])
    BY <1>9, <1>11
  <2>2. Max(s) \in D /\ it[s \ {Max(s)}] \in Nat
    BY <1>7, <1>11
  <2> QED BY <1>5, <2>1, <2>2
<1> HIDE DEF P
<1>12. StepsTo(Nat, n, 0, F, it[D])
  BY <1>3, <1>5, <1>10, <1>11, FoldSteps
<1>13. PICK g \in [0..n -> Nat] :
         g[0] = 0 /\ g[n] = it[D] /\ \A i \in 1..n : g[i] = F[<<g[i-1], i>>]
  BY <1>12 DEF StepsTo
<1>14. \A i \in 1..n : g[i] = g[i-1] + off(ids[i])
  <2> SUFFICES ASSUME NEW i \in 1..n PROVE g[i] = g[i-1] + off(ids[i])
    OBVIOUS
  <2>1. i - 1 \in 0..n
    BY <1>3
  <2> QED BY <1>3, <1>5, <1>13, <2>1
<1> QED BY <1>1, <1>13, <1>14 DEF n, ids, off

LEMMA OffsetIsNat ==
  ASSUME NEW idxs, IdxsOK(idxs), NEW m \in Nodes PROVE get_addr_offset(idxs, m) \in Nat
<1> DEFINE dims == Tree[m].dims
           ix   == idxs[m]
           x    == FlatIdx(dims, ix)
<1>1. Tree[m].offset \in Nat /\ (is_array(m) => Tree[m].stride \in Nat)
  BY Extents
<1>2. dims \in Seq(Nat \ {0}) /\ ix \in [1..Len(dims) -> Nat] /\ \A d \in 1..Len(dims) : ix[d] < dims[d]
  <2>1. ix \in [DOMAIN dims -> Nat] /\ \A d \in DOMAIN dims : ix[d] < dims[d]
    BY IdxRangeIs DEF IdxsOK
  <2> QED BY <2>1, Dimensions
<1>3. x \in Nat
  BY <1>2, FlatDigits
<1>4. get_addr_offset(idxs, m) = Tree[m].offset + (IF is_array(m) THEN Tree[m].stride * x ELSE 0)
  BY DEF get_addr_offset
<1> HIDE DEF x
<1> QED BY <1>1, <1>3, <1>4

\* What a step of the search adds to the position found further down.
LEMMA JoinedOn ==
  ASSUME NEW p \in Points, NEW below \in Positions, Inner(p) \in Int, Inner(p) < Tree[p[1]].size
  PROVE  LET pos == Joined(p, below)
         IN  /\ pos # NoPosition /\ Len(pos.stack) = Len(below.stack) + 1 /\ pos.stack[1] = Here(p)
             /\ below = NoPosition => pos.id = p[1]
             /\ below # NoPosition =>
                  /\ pos.id = below.id
                  /\ \A j \in 1..Len(below.stack) : pos.stack[j+1] = below.stack[j]
<1> DEFINE s   == <<Here(p)>>
           t   == below.stack
           pos == Joined(p, below)
<1>1. Here(p) \in AllIdxs /\ p[1] \in Nodes
  BY HereInRange DEF AllIdxs, Points
<1>2. t \in Seq(AllIdxs) /\ s \in Seq(AllIdxs) /\ Len(s) = 1 /\ s[1] = Here(p) /\ Len(t) \in Nat
  BY <1>1 DEF Positions
<1>3. ~(is_array(p[1]) /\ Inner(p) >= Tree[p[1]].size)
  <2>1. Tree[p[1]].size \in Nat
    BY <1>1, Extents
  <2> QED BY <2>1
<1>4. Joined(p, below) = IF below = NoPosition THEN [id |-> p[1], stack |-> s]
                         ELSE [below EXCEPT !.stack = s \o @]
  BY <1>3 DEF Joined
<1>5. NoPosition.stack = <<>> /\ Len(<<>>) = 0
  BY DEF NoPosition
<1> HIDE DEF s, t
<1>6. CASE below = NoPosition
  <2>1. pos.id = p[1] /\ pos.stack = s /\ Len(t) = 0
    <3>1. pos = [id |-> p[1], stack |-> s]
      BY <1>4, <1>6
    <3>2. t = <<>>
      BY <1>5, <1>6 DEF t
    <3> HIDE DEF pos
    <3> QED BY <3>1, <3>2
  <2> HIDE DEF pos
  <2>2. pos # NoPosition
    <3> SUFFICES ASSUME pos = NoPosition PROVE FALSE
      OBVIOUS
    <3>1. Len(pos.stack) = 1 /\ pos.stack = <<>>
      BY <1>2, <1>5, <2>1
    <3> QED BY <1>5, <3>1
  <2>3. Len(pos.stack) = Len(t) + 1 /\ pos.stack[1] = Here(p)
    BY <1>2, <2>1
  <2> QED BY <1>6, <2>1, <2>2, <2>3 DEF pos, t
<1>7. CASE below # NoPosition
  <2>1. pos.id = below.id /\ pos.stack = s \o t
    <3>1. pos = [below EXCEPT !.stack = s \o @]
      BY <1>4, <1>7
    <3> HIDE DEF pos
    <3> QED BY <3>1 DEF Positions, t
  <2>2. /\ Len(s \o t) = Len(s) + Len(t)
        /\ \A i \in 1..Len(s) + Len(t) :
             (s \o t)[i] = IF i <= Len(s) THEN s[i] ELSE t[i - Len(s)]
    BY <1>2, ConcatProperties, Zenon
  <2> HIDE DEF pos
  <2>3. Len(pos.stack) = Len(t) + 1 /\ pos.stack[1] = Here(p)
    BY <1>2, <2>1, <2>2
  <2>4. \A j \in 1..Len(t) : pos.stack[j+1] = t[j]
    <3> SUFFICES ASSUME NEW j \in 1..Len(t) PROVE (s \o t)[j+1] = t[j]
      BY <2>1
    <3>1. j + 1 \in 1..Len(s)+Len(t) /\ ~(j + 1 <= Len(s)) /\ (j + 1) - Len(s) = j
      BY <1>2
    <3> QED BY <2>2, <3>1
  <2>5. pos # NoPosition
    BY <1>2, <1>5, <2>3
  <2> QED BY <1>7, <2>1, <2>3, <2>4, <2>5 DEF pos, t
<1> QED BY <1>6, <1>7

\* Each node of a path is a child of the one before.
LEMMA PathChild ==
  ASSUME NEW id \in Nodes, NEW i \in 1..Len(get_ids_in_path[id])-1
  PROVE  get_ids_in_path[id][i+1] \in ToSet(Tree[get_ids_in_path[id][i]].children)
<1> DEFINE ids == get_ids_in_path[id]
           m   == ids[i+1]
<1>1. ids \in Seq(Nodes) /\ Len(ids) \in Nat
  BY PathOfIds, LenProperties
<1>2. Tree[m].parent = ids[i] /\ ~IsRoot(m)
  BY PathParents
<1>3. m \in Nodes /\ Tree[m].parent # NoNode
  <2>1. i + 1 \in 1..Len(ids)
    BY <1>1
  <2> QED BY <1>1, <1>2, <2>1, ElementOfSeq DEF IsRoot
<1>4. m \in ToSet(IF Tree[m].parent = NoNode THEN Roots ELSE Tree[Tree[m].parent].children)
  BY <1>3, TreeAssumption
<1> QED BY <1>2, <1>3, <1>4

\* The positions the search goes through: what is left of the address inside each node.
WayTo(idxs, id, t) ==
  LET ids == get_ids_in_path[id]
      n   == Len(ids)
  IN  /\ t \in [0..n -> Nat] /\ t[0] = get_absolute_addr(idxs, id) /\ t[n] = 0
      /\ \A i \in 1..n : /\ t[i] < Tree[ids[i]].size /\ Contains_(ids[i], t[i-1])
                         /\ Inner(<<ids[i], t[i-1]>>) = t[i]
                         /\ Here(<<ids[i], t[i-1]>>) = idxs[ids[i]]

LEMMA WayDown ==
  ASSUME NEW idxs, IdxsOK(idxs), NEW id \in Nodes
  PROVE  \E t : WayTo(idxs, id, t)
<1> DEFINE ids  == get_ids_in_path[id]
           n    == Len(ids)
           off(m) == get_addr_offset(idxs, m)
           a    == get_absolute_addr(idxs, id)
           size(i) == Tree[ids[i]].size
<1>1. /\ ids \in Seq(Nodes) /\ n \in Nat \ {0}
      /\ \A i \in 1..n : ids[i] \in Nodes
  <2>1. ids \in Seq(Nodes)
    BY PathOfIds
  <2>2. n \in Nat \ {0}
    BY PathShape DEF PathBegins
  <2> QED BY <2>1, <2>2, LenProperties, ElementOfSeq
<1>2. \A m \in Nodes : off(m) \in Nat
  BY OffsetIsNat
<1>3. PICK g \in [0..n -> Nat] :
        g[0] = 0 /\ g[n] = a /\ \A i \in 1..n : g[i] = g[i-1] + off(ids[i])
  BY <1>2, AddressSteps
<1>4. \A i \in 1..n-1 : ids[i+1] \in ToSet(Tree[ids[i]].children)
  BY PathChild
<1> DEFINE t == [i \in 0..n |-> a - g[i]]
           Inside(i) == t[i] \in Nat /\ t[i] < size(i)
           Good(i) == /\ t[i-1] \in Nat /\ Contains_(ids[i], t[i-1])
                      /\ Inner(<<ids[i], t[i-1]>>) = t[i]
                      /\ Here(<<ids[i], t[i-1]>>) = idxs[ids[i]]
<1>5. /\ t[0] = a /\ t[n] = 0
      /\ \A i \in 1..n : t[i-1] = off(ids[i]) + t[i]
  <2>1. a \in Nat /\ 0 \in 0..n /\ n \in 0..n
    BY <1>1, <1>3
  <2>2. ASSUME NEW i \in 1..n PROVE t[i-1] = off(ids[i]) + t[i]
    <3>1. i \in 0..n /\ i - 1 \in 0..n
      BY <1>1
    <3>2. g[i] = g[i-1] + off(ids[i]) /\ g[i-1] \in Nat /\ off(ids[i]) \in Nat
      BY <1>1, <1>2, <1>3, <3>1
    <3>3. t[i] = a - g[i] /\ t[i-1] = a - g[i-1] /\ g[i] \in Nat
      BY <1>3, <3>1
    <3> DEFINE x == g[i]
               y == g[i-1]
               z == off(ids[i])
    <3>4. x \in Nat /\ y \in Nat /\ z \in Nat /\ x = y + z /\ t[i] = a - x /\ t[i-1] = a - y
      BY <3>2, <3>3
    <3> HIDE DEF t, a, x, y, z
    <3>5. t[i-1] = z + t[i]
      BY <2>1, <3>4
    <3> QED BY <3>5 DEF z
  <2>3. t[0] = a /\ t[n] = 0
    BY <1>3, <2>1
  <2> HIDE DEF t, a, off, n
  <2> QED BY <2>2, <2>3
<1> HIDE DEF t, ids, n, off, a
\* The rest of the address lies in the node, so the search goes on from the node above.
<1>6. ASSUME NEW i \in 1..n, Inside(i) PROVE Good(i)
  <2> DEFINE m == ids[i]
             b == t[i-1]
  <2>1. m \in Nodes /\ idxs[m] \in IdxRange[m] /\ t[i] \in Nat /\ t[i] < Tree[m].size
    BY <1>1, <1>6 DEF IdxsOK
  <2>2. b = Tree[m].offset
            + (IF is_array(m) THEN Tree[m].stride * FlatIdx(Tree[m].dims, idxs[m]) ELSE 0) + t[i]
    BY <1>5 DEF off, get_addr_offset
  <2> HIDE DEF m, b
  <2>3. b \in Nat /\ Contains_(m, b) /\ Inner(<<m, b>>) = t[i] /\ Here(<<m, b>>) = idxs[m]
    BY <2>1, <2>2, ElementAt
  <2> QED BY <2>3 DEF m, b
<1>7. Inside(n)
  <2>1. ids[n] \in Nodes
    BY <1>1
  <2>2. size(n) > 0 /\ size(n) \in Nat
    BY <2>1, LayoutAssumption, Extents
  <2> QED BY <1>5, <2>2
<1>8. ASSUME NEW i \in 2..n, Inside(i) PROVE Inside(i-1)
  <2> DEFINE j == i - 1
             m == ids[j]
             c == ids[i]
  <2>1. j \in 1..n-1 /\ j \in 1..n /\ j + 1 = i /\ i \in 1..n
    BY <1>1
  <2>2. t[j] \in Nat /\ Contains_(c, t[j])
    BY <1>6, <1>8, <2>1
  <2>3. c \in ToSet(Tree[m].children) /\ m \in Nodes /\ c \in Nodes
    BY <1>1, <1>4, <2>1
  <2> HIDE DEF j, m, c
  <2>4. Tree[c].offset + get_total_size(c) <= Tree[m].size
    <3>1. PICK k \in DOMAIN Tree[m].children : c = Tree[m].children[k]
      BY <2>3 DEF ToSet
    <3> QED BY <2>3, <3>1, LayoutAssumption
  <2>5. t[j] < Tree[c].offset + get_total_size(c)
    BY <2>2 DEF Contains_
  <2>6. get_total_size(c) \in Int /\ Tree[c].offset \in Nat /\ Tree[m].size \in Nat
    BY <2>3, SizeIsInt, Extents
  <2>7. t[j] < Tree[m].size
    BY <2>2, <2>4, <2>5, <2>6
  <2> QED BY <2>2, <2>7 DEF j, m
<1>9. \A i \in 1..n : Inside(i)
  <2> DEFINE G == {j \in 0..n-1 : Inside(n-j)}
  <2>1. n - 1 \in Nat /\ 0 \in 0..n-1 /\ n - 0 = n
    BY <1>1
  <2> HIDE DEF Inside
  <2>2. 0 \in G
    BY <1>7, <2>1
  <2>3. ASSUME NEW j \in 1..n-1, j - 1 \in G PROVE j \in G
    <3> DEFINE i == n - (j - 1)
    <3>1. i \in 2..n /\ i - 1 = n - j /\ j \in 0..n-1
      BY <1>1
    <3>2. Inside(i)
      BY <2>3
    <3> HIDE DEF i
    <3>3. Inside(i - 1)
      BY <1>8, <3>1, <3>2
    <3> QED BY <3>1, <3>3
  <2>4. \A j \in 1..n-1 : j - 1 \in G => j \in G
    BY <2>3
  <2> HIDE DEF G
  <2>5. \A j \in 0..n-1 : j \in G
    BY <2>1, <2>2, <2>4, StepInduction
  <2> SUFFICES ASSUME NEW i \in 1..n PROVE Inside(i)
    OBVIOUS
  <2>6. n - i \in 0..n-1 /\ n - (n - i) = i
    BY <1>1
  <2>7. n - i \in G
    BY <2>5, <2>6
  <2> QED BY <2>6, <2>7 DEF G
<1>10. \A i \in 1..n : Inside(i) /\ Good(i)
  <2> HIDE DEF Inside, Good
  <2> QED BY <1>6, <1>9
<1>11. t \in [0..n -> Nat]
  <2>1. \A i \in 0..n : t[i] \in Nat
    <3> SUFFICES ASSUME NEW i \in 0..n PROVE t[i] \in Nat
      OBVIOUS
    <3>1. i \in 1..n \/ (i = 0 /\ 1 \in 1..n /\ 1 - 1 = 0)
      BY <1>1
    <3> QED BY <1>10, <3>1
  <2> QED BY <2>1 DEF t
<1>12. WayTo(idxs, id, t)
  BY <1>5, <1>10, <1>11 DEF WayTo, ids, n, a
<1> QED BY <1>12

\* What the search finds from node i of the way down to id: id or a node below it, with the
\* indexes of the nodes from node i to id.
FoundAt(idxs, id, i, pos) ==
  LET ids == get_ids_in_path[id]
      l   == Len(ids) - i + 1
  IN  /\ pos # NoPosition /\ pos \in Positions /\ pos.id \in Nodes /\ id \in Lineage[pos.id]
      /\ l <= Len(pos.stack) /\ \A j \in 1..l : pos.stack[j] = idxs[ids[i+j-1]]
      /\ Tree[id].children = <<>> => pos.id = id

\* The search for an address on display ends at the node, or below it, with its indexes.
LEMMA AddressBack == ASSUME NEW idxs, IdxsOK(idxs) PROVE AddressesLeadBack(idxs)
<1> SUFFICES ASSUME NEW id \in Nodes
             PROVE  LET root  == get_ids_in_path[id][1]
                        stack == get_current_idx_stack(idxs, id)
                        found == lookup_by_address(get_absolute_addr(idxs, id), root)
                    IN  /\ found # NoPosition /\ id \in Lineage[found.id]
                        /\ \A i \in DOMAIN stack : found.stack[i] = stack[i]
                        /\ Tree[id].children = <<>> => found.id = id
  BY Zenon DEF AddressesLeadBack
<1> DEFINE ids == get_ids_in_path[id]
           n   == Len(ids)
<1>1. /\ ids \in Seq(Nodes) /\ n \in Nat \ {0} /\ DOMAIN ids = 1..n /\ ids[n] = id
      /\ \A i \in 1..n : ids[i] \in Nodes
  <2>1. ids \in Seq(Nodes)
    BY PathOfIds
  <2>2. n \in Nat \ {0} /\ ids[n] = id
    BY PathShape DEF PathBegins
  <2> QED BY <2>1, <2>2, LenProperties, ElementOfSeq
<1>2. PICK t \in [0..n -> Nat] :
        /\ t[0] = get_absolute_addr(idxs, id) /\ t[n] = 0
        /\ \A i \in 1..n : /\ t[i] < Tree[ids[i]].size /\ Contains_(ids[i], t[i-1])
                           /\ Inner(<<ids[i], t[i-1]>>) = t[i]
                           /\ Here(<<ids[i], t[i-1]>>) = idxs[ids[i]]
  <2>1. PICK t : WayTo(idxs, id, t)
    BY WayDown
  <2> QED BY <2>1 DEF WayTo
<1> DEFINE p == [i \in 1..n |-> <<ids[i], t[i-1]>>]
<1>3. ASSUME NEW i \in 1..n
      PROVE  /\ p[i] \in Points /\ p[i][1] = ids[i] /\ p[i] = <<ids[i], t[i-1]>>
             /\ Inner(p[i]) = t[i] /\ t[i] \in Nat /\ t[i] < Tree[ids[i]].size
             /\ Here(p[i]) = idxs[ids[i]]
  <2>1. i \in 0..n /\ i - 1 \in 0..n
    BY <1>1
  <2>2. ids[i] \in Nodes /\ t[i-1] \in Nat /\ t[i] \in Nat
    BY <1>1, <1>2, <2>1
  <2> QED BY <1>2, <2>2 DEF Points
<1> HIDE DEF p
<1>4. ASSUME NEW i \in 1..n-1
      PROVE  Descend[p[i]] = Joined(p[i], Descend[p[i+1]])
  <2>1. i \in 1..n /\ i + 1 \in 1..n /\ (i + 1) - 1 = i
    BY <1>1
  <2> DEFINE c == ids[i+1]
  <2>2. c \in ToSet(Tree[ids[i]].children)
    BY <1>4, PathChild
  <2>3. Contains_(c, Inner(p[i])) /\ Inner(p[i]) \in Int
    <3> DEFINE k == i + 1
    <3>1. k \in 1..n /\ k - 1 = i
      BY <2>1
    <3> HIDE DEF k
    <3>2. Contains_(ids[k], t[k-1])
      BY <1>2, <3>1
    <3>3. Inner(p[i]) = t[i] /\ t[i] \in Int
      BY <1>3, <2>1
    <3> QED BY <3>1, <3>2, <3>3 DEF k
  <2>4. p[i+1] = <<c, Inner(p[i])>>
    BY <1>3, <2>1
  <2> HIDE DEF c
  <2>5. Hits(p[i]) # {} /\ Child(p[i]) = <<c, Inner(p[i])>>
    <3>1. p[i] \in Points /\ c \in ToSet(Tree[p[i][1]].children)
      BY <1>3, <2>1, <2>2
    <3> QED BY <2>3, <3>1, ChildAt
  <2>6. Descend[p[i]] = DescendStep(Descend, p[i])
    BY <1>3, <2>1, DescendSteps
  <2> QED BY <2>4, <2>5, <2>6 DEF DescendStep
<1> DEFINE Good(i) == FoundAt(idxs, id, i, Descend[p[i]])
<1>5. Good(n)
  <2> DEFINE q   == p[n]
             pos == Descend[q]
  <2>1. n \in 1..n
    BY <1>1
  <2>2. q \in Points /\ q[1] = id /\ Inner(q) \in Int /\ Inner(q) < Tree[q[1]].size
        /\ Here(q) = idxs[id]
    BY <1>1, <1>3, <2>1
  <2> HIDE DEF q
  <2>3. PICK below \in Positions :
          pos = Joined(q, below) /\ (Tree[id].children = <<>> => below = NoPosition)
    <3>1. pos = DescendStep(Descend, q)
      BY <2>2, DescendSteps
    <3>2. CASE Hits(q) = {}
      <4>1. NoPosition \in Positions
        BY DEF Positions, NoPosition, Elsewhere
      <4> QED BY <3>1, <3>2, <4>1 DEF DescendStep
    <3>3. CASE Hits(q) # {}
      <4>1. Child(q) \in Points
        BY <2>2, <3>3, ChildIsBelow
      <4>2. Descend[Child(q)] \in Positions
        BY <4>1, DescendSteps
      <4>3. Tree[id].children # <<>>
        BY <2>2, <3>3 DEF Hits
      <4> QED BY <3>1, <3>3, <4>2, <4>3 DEF DescendStep
    <3> QED BY <3>2, <3>3
  <2>4. /\ pos # NoPosition /\ Len(pos.stack) = Len(below.stack) + 1 /\ pos.stack[1] = idxs[id]
        /\ below = NoPosition => pos.id = id
    BY <2>2, <2>3, JoinedOn
  <2>5. pos \in Positions /\ FoundBelow(id, pos)
    BY <2>2, DescendSteps, DescendBelow
  <2>6. Len(below.stack) \in Nat
    BY LenProperties DEF Positions
  <2> HIDE DEF pos
  <2>7. pos.id \in Nodes /\ id \in Lineage[pos.id]
    <3> DEFINE r == get_ids_in_path[pos.id]
    <3>1. pos.id \in Nodes /\ n <= Len(r) /\ r[n] = id
      BY <2>4, <2>5 DEF FoundBelow
    <3>2. Len(r) \in Nat /\ r \in Seq(Nodes)
      BY <3>1, PathOfIds, LenProperties
    <3>3. n \in DOMAIN r
      BY <1>1, <3>1, <3>2, LenProperties
    <3>4. Lineage[pos.id] = ToSet(r)
      BY <3>1 DEF Lineage
    <3> HIDE DEF r
    <3> QED BY <3>1, <3>3, <3>4 DEF ToSet
  <2> DEFINE l == n - n + 1
  <2>8. l = 1 /\ n + 1 - 1 = n
    BY <1>1
  <2>9. l <= Len(pos.stack) /\ \A j \in 1..l : pos.stack[j] = idxs[ids[n+j-1]]
    BY <1>1, <2>4, <2>6, <2>8
  <2>10. Tree[id].children = <<>> => pos.id = id
    BY <2>3, <2>4
  <2> QED BY <2>4, <2>5, <2>7, <2>9, <2>10 DEF FoundAt, pos, q
<1>6. ASSUME NEW i \in 1..n-1, Good(i+1) PROVE Good(i)
  <2> DEFINE q     == p[i]
             pos   == Descend[q]
             below == Descend[p[i+1]]
             l     == n - (i + 1) + 1
  <2>1. i \in 1..n /\ i + 1 \in 1..n /\ l \in Nat /\ n - i + 1 = l + 1
    BY <1>1
  <2>2. q \in Points /\ q[1] = ids[i] /\ Inner(q) \in Int /\ Inner(q) < Tree[q[1]].size
        /\ Here(q) = idxs[ids[i]]
    BY <1>3, <2>1
  <2>3. /\ below # NoPosition /\ below \in Positions /\ below.id \in Nodes
        /\ id \in Lineage[below.id]
        /\ l <= Len(below.stack) /\ \A j \in 1..l : below.stack[j] = idxs[ids[(i+1)+j-1]]
        /\ Tree[id].children = <<>> => below.id = id
    BY <1>6 DEF FoundAt
  <2>4. pos = Joined(q, below) /\ pos \in Positions
    BY <1>4, <2>2, DescendSteps
  <2> HIDE DEF q, below
  <2>5. /\ pos # NoPosition /\ Len(pos.stack) = Len(below.stack) + 1
        /\ pos.stack[1] = idxs[ids[i]] /\ pos.id = below.id
        /\ \A j \in 1..Len(below.stack) : pos.stack[j+1] = below.stack[j]
    BY <2>2, <2>3, <2>4, JoinedOn
  <2>6. Len(below.stack) \in Nat
    BY <2>3, LenProperties DEF Positions
  <2> HIDE DEF pos
  <2>7. l + 1 <= Len(pos.stack)
    BY <2>1, <2>3, <2>5, <2>6
  <2>8. \A j \in 1..l+1 : pos.stack[j] = idxs[ids[i+j-1]]
    <3> SUFFICES ASSUME NEW j \in 1..l+1 PROVE pos.stack[j] = idxs[ids[i+j-1]]
      OBVIOUS
    <3>1. CASE j = 1
      <4>1. i + 1 - 1 = i
        BY <2>1
      <4> QED BY <2>5, <3>1, <4>1
    <3>2. CASE j # 1
      <4> DEFINE k == j - 1
      <4>1. k \in 1..l /\ k \in 1..Len(below.stack) /\ k + 1 = j /\ (i+1)+k-1 = i+j-1
        BY <2>1, <2>3, <2>6, <3>2
      <4> HIDE DEF k
      <4>2. pos.stack[k+1] = below.stack[k] /\ below.stack[k] = idxs[ids[(i+1)+k-1]]
        BY <2>3, <2>5, <4>1
      <4> QED BY <4>1, <4>2
    <3> QED BY <3>1, <3>2
  <2>9. Good(i)
    <3>1. /\ pos # NoPosition /\ pos \in Positions /\ pos.id \in Nodes /\ id \in Lineage[pos.id]
          /\ Tree[id].children = <<>> => pos.id = id
      BY <2>3, <2>4, <2>5
    <3>2. n - i + 1 <= Len(pos.stack) /\ \A j \in 1..n-i+1 : pos.stack[j] = idxs[ids[i+j-1]]
      BY <2>1, <2>7, <2>8
    <3> HIDE DEF l
    <3> QED BY <3>1, <3>2 DEF FoundAt, pos, q
  <2> QED BY <2>9
<1> HIDE DEF Good
<1>7. Good(1)
  <2> DEFINE G == {j \in 0..n-1 : Good(n-j)}
  <2>1. n - 1 \in Nat /\ 0 \in 0..n-1 /\ n - 0 = n
    BY <1>1
  <2>2. 0 \in G
    BY <1>5, <2>1
  <2>3. ASSUME NEW j \in 1..n-1, j - 1 \in G PROVE j \in G
    <3> DEFINE i == n - j
    <3>1. i \in 1..n-1 /\ i + 1 = n - (j - 1) /\ j \in 0..n-1
      BY <1>1
    <3>2. Good(i + 1)
      BY <2>3, <3>1
    <3> HIDE DEF i
    <3>3. Good(i)
      BY <1>6, <3>1, <3>2
    <3> QED BY <3>1, <3>3 DEF i
  <2>4. \A j \in 1..n-1 : j - 1 \in G => j \in G
    BY <2>3
  <2> HIDE DEF G
  <2>5. \A j \in 0..n-1 : j \in G
    BY <2>1, <2>2, <2>4, StepInduction
  <2>6. n - 1 \in G /\ n - (n - 1) = 1
    BY <1>1, <2>1, <2>5
  <2> QED BY <2>6 DEF G
<1> DEFINE addr  == get_absolute_addr(idxs, id)
           found == lookup_by_address(addr, ids[1])
<1>8. found = Descend[p[1]]
  <2>1. 1 \in 1..n /\ 1 - 1 = 0
    BY <1>1
  <2>2. p[1] = <<ids[1], t[1-1]>> /\ Contains_(ids[1], t[1-1])
    BY <1>2, <1>3, <2>1, Zenon
  <2>3. p[1] = <<ids[1], addr>> /\ Contains_(ids[1], addr)
    BY <1>2, <2>1, <2>2
  <2> QED BY <2>3 DEF lookup_by_address
<1> HIDE DEF found
<1>9. /\ found # NoPosition /\ id \in Lineage[found.id]
      /\ \A j \in 1..n : found.stack[j] = idxs[ids[j]]
      /\ Tree[id].children = <<>> => found.id = id
  <2>1. FoundAt(idxs, id, 1, found)
    BY <1>7, <1>8 DEF Good
  <2>2. n - 1 + 1 = n /\ \A j \in 1..n : 1 + j - 1 = j
    BY <1>1
  <2> QED BY <2>1, <2>2 DEF FoundAt
<1>10. get_current_idx_stack(idxs, id) = [i \in 1..n |-> idxs[ids[i]]]
  BY <1>1 DEF get_current_idx_stack
<1> QED BY <1>9, <1>10 DEF found

\* Searching for the address on display leads back to the page, for every register tree
\* whose nodes do not overlap and all indexes of its arrays.
THEOREM AddressesRoundTrip == Spec => AddressRoundTrip
<1> DEFINE A == ui'.idxs # ui.idxs => AddressesLeadBack(ui'.idxs)
<1>1. ViewerInv' => A
  BY AddressBack DEF ViewerInv, UiOK
<1> HIDE DEF A
<1>2. Spec => [][A]_vars
  BY <1>1, ViewerShape, PTL
<1> QED BY <1>2 DEF AddressRoundTrip, A

-----------------------------------------------------------------------------
(* The form shows the register's bits.                                     *)

\* The inputs are those of the fields.  In a form with no invalid text since it was filled
\* in they hold numbers that fit, and the selects say the same.
InputsFit(form, id) ==
  /\ DOMAIN form.field = FieldNames[id] /\ DOMAIN form.enum = Encoded[id]
  /\ form.clean => \A f \in FieldSet[id] :
       /\ form.field[f.name] \in 0..MaxValue(f)-1
       /\ f.encode => form.enum[f.name] = form.field[f.name]

FormHolds(form, id) == is_register(id) /\ InputsFit(form, id) /\ FieldsShowRegister(form, id)

LEMMA Registers ==
  ASSUME NEW id \in Nodes PROVE is_register(id) <=> FieldNames[id] # {}
<1> DEFINE fields == Tree[id].fields
<1>1. fields \in Seq(ToSet(fields))
  BY TreeAssumption
<1>2. FieldSet[id] = ToSet(fields) /\ FieldNames[id] = {f.name : f \in FieldSet[id]}
  BY DEF FieldSet, FieldNames
<1>3. is_register(id) <=> fields # <<>>
  BY DEF is_register
<1> HIDE DEF fields
<1>4. fields = <<>> <=> ToSet(fields) = {}
  BY <1>1, LenProperties DEF ToSet
<1> QED BY <1>2, <1>3, <1>4

LEMMA LookupFinds ==
  ASSUME NEW id \in Nodes, NEW f \in FieldSet[id]
  PROVE  /\ f.name \in FieldNames[id] /\ lookup_field_idx(id, f.name) = f
         /\ f.name # REG /\ (f.encode => f.name \in Encoded[id])
<1>1. f.name \in FieldNames[id] /\ (f.encode => f.name \in Encoded[id])
  BY DEF FieldNames, Encoded
<1>2. lookup_field_idx(id, f.name) \in FieldSet[id] /\ lookup_field_idx(id, f.name).name = f.name
  BY <1>1, FieldsOf
<1>3. \A g \in FieldSet[id] : f # g => f.name # g.name
  BY FieldsAssumption
<1>4. f.name # REG
  <2>1. FieldSet[id] \subseteq FieldRecords
    BY FieldsAssumption
  <2> QED BY <2>1 DEF FieldRecords
<1> QED BY <1>1, <1>2, <1>3, <1>4

\* Registers that share the names of their fields have the same fields.
LEMMA Twins ==
  ASSUME NEW m \in Nodes, NEW n \in Nodes, FieldNames[m] = FieldNames[n], NEW f \in FieldSet[m]
  PROVE  \E g \in FieldSet[n] :
           g.name = f.name /\ g.lsb = f.lsb /\ g.msb = f.msb /\ g.encode = f.encode
<1> DEFINE bare(x) == [x EXCEPT !.reset = 0, !.disp = "H"]
<1>1. FieldNames[m] \cap FieldNames[n] # {}
  BY LookupFinds
<1>2. {bare(x) : x \in FieldSet[m]} = {bare(x) : x \in FieldSet[n]}
  BY <1>1, FieldsAssumption
<1>3. PICK g \in FieldSet[n] : bare(g) = bare(f)
  BY <1>2
<1>4. f \in FieldRecords /\ g \in FieldRecords
  BY FieldsAssumption
<1>5. \A x \in FieldRecords : /\ bare(x).name = x.name /\ bare(x).lsb = x.lsb
                              /\ bare(x).msb = x.msb /\ bare(x).encode = x.encode
  BY DEF FieldRecords
<1> HIDE DEF bare
<1> QED BY <1>3, <1>4, <1>5

LEMMA EncodedTwins ==
  ASSUME NEW m \in Nodes, NEW n \in Nodes, FieldNames[m] = FieldNames[n]
  PROVE  Encoded[m] = Encoded[n]
<1>1. ASSUME NEW k \in Nodes, NEW l \in Nodes, FieldNames[k] = FieldNames[l]
      PROVE  Encoded[k] \subseteq Encoded[l]
  <2> SUFFICES ASSUME NEW name \in Encoded[k] PROVE name \in Encoded[l]
    OBVIOUS
  <2>1. PICK f \in FieldSet[k] : f.encode /\ f.name = name
    BY DEF Encoded
  <2>2. PICK g \in FieldSet[l] : g.name = f.name /\ g.encode = f.encode
    BY <1>1, Twins
  <2> QED BY <2>1, <2>2 DEF Encoded
<1> QED BY <1>1

LEMMA HoldsMoves ==
  ASSUME NEW m \in Nodes, NEW n \in Nodes, FieldNames[m] = FieldNames[n],
         NEW form, FormHolds(form, m)
  PROVE  FormHolds(form, n)
<1>1. is_register(n) /\ DOMAIN form.field = FieldNames[n] /\ DOMAIN form.enum = Encoded[n]
  BY Registers, EncodedTwins DEF FormHolds, InputsFit
<1>2. ASSUME form.clean, NEW g \in FieldSet[n]
      PROVE  /\ form.field[g.name] \in 0..MaxValue(g)-1
             /\ g.encode => form.enum[g.name] = form.field[g.name]
             /\ REG \notin form.bad => form.field[g.name] = Slice(form.reg, g)
  <2>1. PICK f \in FieldSet[m] :
          f.name = g.name /\ f.lsb = g.lsb /\ f.msb = g.msb /\ f.encode = g.encode
    BY Twins
  <2>2. MaxValue(f) = MaxValue(g) /\ Slice(form.reg, f) = Slice(form.reg, g)
    BY <2>1 DEF MaxValue, Slice
  <2>3. /\ form.field[f.name] \in 0..MaxValue(f)-1
        /\ f.encode => form.enum[f.name] = form.field[f.name]
        /\ REG \notin form.bad => form.field[f.name] = Slice(form.reg, f)
    BY <1>2 DEF FormHolds, InputsFit, FieldsShowRegister
  <2> QED BY <2>1, <2>2, <2>3
<1>3. FieldsShowRegister(form, n)
  BY <1>2 DEF FieldsShowRegister
<1> QED BY <1>1, <1>2, <1>3 DEF FormHolds, InputsFit

\* The register has each field's number at the field's bits.
LEMMA RegisterHolds ==
  ASSUME NEW id \in Nodes, NEW form, FormOK(form), Fits(form, id), InputsFit(form, id)
  PROVE  LET to == update_reg_value_tester(form, id)
         IN  /\ FormHolds(to, id) /\ to.clean = form.clean
             /\ to.clean => Encodable(form) /\ REG \notin to.bad
<1> DEFINE D == FieldSet[id]
           to == update_reg_value_tester(form, id)
<1>1. form.clean => Encodable(form)
  <2> SUFFICES ASSUME form.clean, NEW name \in FieldNames[id] PROVE form.field[name] # Garbage
    BY DEF Encodable, InputsFit
  <2>1. PICK f \in D : f.name = name
    BY DEF FieldNames
  <2>2. form.field[name] \in Int
    BY <2>1 DEF InputsFit
  <2>3. Garbage \notin Int
    BY FieldsAssumption, Zenon
  <2> QED BY <2>2, <2>3
<1>2. CASE ~Encodable(form)
  <2>1. to = form /\ ~form.clean
    BY <1>1, <1>2 DEF update_reg_value_tester
  <2> QED BY <2>1 DEF FormHolds, FieldsShowRegister, Fits
<1>3. CASE Encodable(form)
  <2> DEFINE F == Parts(form, id)
  <2>0. F \in [D -> Nat]
    BY <1>3, RegisterSum
  <2>2. PICK g :
          /\ Sums(g, F, D) /\ g[D] \in Nat
          /\ to = [form EXCEPT !.reg = g[D], !.bad = @ \ {REG}]
    BY <1>3, RegisterSum
  <2>3. /\ to.reg = g[D] /\ to.field = form.field /\ to.enum = form.enum
        /\ to.clean = form.clean /\ REG \notin to.bad
    BY <2>2 DEF FormOK
  <2>4. \A f \in D : F[f] = (form.field[f.name] % MaxValue(f)) * 2^f.lsb
    BY DEF Parts
  <2> HIDE DEF to, F
  <2>1. F \in [D -> Int]
    BY <2>0
  <2>5. InputsFit(to, id)
    BY <2>3 DEF InputsFit
  <2>6. ASSUME form.clean PROVE \A f \in D : form.field[f.name] = Slice(g[D], f)
    <3> DEFINE low == [f \in D |-> f.lsb]
               len == [f \in D |-> Width(f)]
               v   == [f \in D |-> form.field[f.name]]
    <3>1. low \in [D -> Nat] /\ len \in [D -> Nat \ {0}] /\ v \in [D -> Nat]
      BY <2>6, FieldSizes DEF InputsFit
    <3>2. \A f \in D : low[f] = f.lsb /\ len[f] = Width(f) /\ v[f] = form.field[f.name]
      OBVIOUS
    <3> HIDE DEF low, len, v
    <3>3. ASSUME NEW f \in D PROVE v[f] < 2^len[f] /\ F[f] = v[f] * 2^low[f]
      <4>1. v[f] \in 0..MaxValue(f)-1 /\ MaxValue(f) \in Nat \ {0} /\ MaxValue(f) = 2^len[f]
        BY <2>6, <3>2, FieldSizes DEF InputsFit
      <4>2. \A x, k \in Nat : x < k => x % k = x
        OBVIOUS
      <4>3. v[f] \in Nat /\ v[f] < MaxValue(f)
        BY <4>1
      <4>4. v[f] % MaxValue(f) = v[f]
        BY <4>1, <4>2, <4>3
      <4> QED BY <2>4, <3>2, <4>1, <4>3, <4>4, Zenon
    <3>4. ASSUME NEW f \in D, NEW h \in D
          PROVE  f = h \/ low[f] + len[f] <= low[h] \/ low[h] + len[h] <= low[f]
      <4>1. f # h => f.msb < h.lsb \/ h.msb < f.lsb
        BY FieldsAssumption
      <4>2. D \subseteq FieldRecords
        BY FieldsAssumption
      <4>3. f.lsb \in Nat /\ f.msb \in Nat /\ h.lsb \in Nat /\ h.msb \in Nat
        BY <4>2 DEF FieldRecords
      <4> QED BY <3>2, <4>1, <4>3 DEF Width
    <3>5. IsFiniteSet(D)
      BY FieldsOf
    <3> HIDE DEF D
    <3>6. \A f \in D : (g[D] \div 2^low[f]) % 2^len[f] = v[f]
      <4>1. Shifted(F, v, low, len, D)
        BY <2>1, <3>1, <3>3, <3>4, Zenon DEF Shifted
      <4>2. Sums(g, F, D)
        BY <2>2
      <4>3. Digits(g[D], v, low, len, D)
        BY <3>5, <4>1, <4>2, DigitsOfSum, Zenon
      <4> QED BY <4>3, Zenon DEF Digits
    <3>7. \A f \in D : MaxValue(f) = 2^len[f]
      BY <3>2, FieldSizes DEF D
    <3>8. ASSUME NEW f \in D PROVE form.field[f.name] = Slice(g[D], f)
      <4>1. form.field[f.name] = (g[D] \div 2^f.lsb) % MaxValue(f)
        BY <3>2, <3>6, <3>7, Zenon
      <4> QED BY <4>1 DEF Slice
    <3> QED BY <3>8 DEF D
  <2>7. FieldsShowRegister(to, id)
    BY <2>3, <2>5, <2>6 DEF FieldsShowRegister, InputsFit
  <2> QED BY <1>3, <2>3, <2>5, <2>7 DEF FormHolds, Fits, to
<1> QED BY <1>2, <1>3

\* What becomes of the form when bits of the register are shown.
LEMMA BitsAre ==
  ASSUME NEW id \in Nodes, NEW form, FormOK(form), form.reg \in Int, NEW names
  PROVE  LET to      == ShowBits(form, id, names)
             bits(n) == Slice(form.reg, lookup_field_idx(id, n))
         IN  /\ DOMAIN to.field = DOMAIN form.field /\ DOMAIN to.enum = DOMAIN form.enum
             /\ to.reg = form.reg /\ to.clean = form.clean /\ to.bad = form.bad \ names
             /\ \A n \in DOMAIN form.field :
                  to.field[n] = IF n \in names THEN bits(n) ELSE form.field[n]
             /\ \A n \in DOMAIN form.enum :
                  to.enum[n] = IF n \in names \cap Encoded[id] THEN bits(n) ELSE form.enum[n]
<1> DEFINE bits(n) == Slice(form.reg, lookup_field_idx(id, n))
           field == [n \in DOMAIN form.field |-> IF n \in names THEN bits(n) ELSE form.field[n]]
           enum  == [n \in DOMAIN form.enum |->
                       IF n \in names \cap Encoded[id] THEN bits(n) ELSE form.enum[n]]
           to    == [form EXCEPT !.field = field, !.enum = enum, !.bad = @ \ names]
<1>1. form.reg # Garbage
  <2>1. Garbage \notin Int
    BY FieldsAssumption, Zenon
  <2> QED BY <2>1
<1>2. ShowBits(form, id, names) = to
  BY <1>1 DEF ShowBits
<1>3. /\ DOMAIN field = DOMAIN form.field /\ DOMAIN enum = DOMAIN form.enum
      /\ \A n \in DOMAIN form.field :
           field[n] = IF n \in names THEN bits(n) ELSE form.field[n]
      /\ \A n \in DOMAIN form.enum :
           enum[n] = IF n \in names \cap Encoded[id] THEN bits(n) ELSE form.enum[n]
  OBVIOUS
<1> HIDE DEF field, enum
<1>4. /\ to.field = field /\ to.enum = enum /\ to.reg = form.reg /\ to.clean = form.clean
      /\ to.bad = form.bad \ names
  BY DEF FormOK
<1> HIDE DEF to, bits
<1>5. /\ DOMAIN to.field = DOMAIN form.field /\ DOMAIN to.enum = DOMAIN form.enum
      /\ \A n \in DOMAIN form.field :
           to.field[n] = IF n \in names THEN bits(n) ELSE form.field[n]
      /\ \A n \in DOMAIN form.enum :
           to.enum[n] = IF n \in names \cap Encoded[id] THEN bits(n) ELSE form.enum[n]
  BY <1>3, <1>4, Zenon
<1> QED BY <1>2, <1>4, <1>5 DEF bits

LEMMA SliceFits ==
  ASSUME NEW id \in Nodes, NEW f \in FieldSet[id], NEW value \in Int
  PROVE  Slice(value, f) \in 0..MaxValue(f)-1
<1>1. 2^f.lsb \in Nat \ {0} /\ MaxValue(f) \in Nat \ {0}
  BY FieldSizes
<1>2. \A v \in Int, p, q \in Nat \ {0} : (v \div p) % q \in 0..q-1
  <2>1. \A v \in Int, p \in Nat \ {0} : v \div p \in Int
    OBVIOUS
  <2>2. \A v \in Int, q \in Nat \ {0} : v % q \in 0..q-1
    OBVIOUS
  <2> QED BY <2>1, <2>2
<1> QED BY <1>1, <1>2, Zenon DEF Slice

\* Showing some fields' bits changes nothing in a form that shows them already; showing all
\* bits makes any form show them.
LEMMA BitsHold ==
  ASSUME NEW id \in Nodes, NEW form, FormOK(form), is_register(id),
         DOMAIN form.field = FieldNames[id], DOMAIN form.enum = Encoded[id],
         NEW names \in SUBSET FieldNames[id],
         FormHolds(form, id) \/ (names = FieldNames[id] /\ form.reg \in Int)
  PROVE  LET to == ShowBits(form, id, names)
         IN  /\ FormHolds(to, id) /\ to.reg = form.reg /\ to.clean = form.clean
             /\ REG \in to.bad <=> REG \in form.bad
             /\ FormHolds(form, id) /\ form.clean /\ REG \notin form.bad =>
                  \A n \in FieldNames[id] : to.field[n] = form.field[n]
<1> DEFINE to == ShowBits(form, id, names)
<1>1. CASE form.reg = Garbage
  <2>1. to = form
    BY <1>1 DEF ShowBits
  <2>2. form.reg \notin Int
    <3>1. Garbage \notin Int
      BY FieldsAssumption, Zenon
    <3> QED BY <1>1, <3>1
  <2> QED BY <2>1, <2>2
<1>2. CASE form.reg # Garbage
  <2>1. form.reg \in Int
    BY <1>2 DEF FormOK, Texts
  <2> DEFINE bits(n) == Slice(form.reg, lookup_field_idx(id, n))
  <2>2. /\ DOMAIN to.field = DOMAIN form.field /\ DOMAIN to.enum = DOMAIN form.enum
        /\ to.reg = form.reg /\ to.clean = form.clean /\ to.bad = form.bad \ names
        /\ \A n \in DOMAIN form.field :
             to.field[n] = IF n \in names THEN bits(n) ELSE form.field[n]
        /\ \A n \in DOMAIN form.enum :
             to.enum[n] = IF n \in names \cap Encoded[id] THEN bits(n) ELSE form.enum[n]
    BY <2>1, BitsAre
  <2> HIDE DEF to, bits
  <2>3. ASSUME NEW f \in FieldSet[id]
        PROVE  /\ f.name \in FieldNames[id] /\ bits(f.name) = Slice(form.reg, f)
               /\ bits(f.name) \in 0..MaxValue(f)-1 /\ f.name # REG
               /\ f.encode => f.name \in Encoded[id]
    BY <2>1, LookupFinds, SliceFits DEF bits
  <2>4. REG \notin names
    <3> SUFFICES ASSUME REG \in names PROVE FALSE
      OBVIOUS
    <3>1. PICK f \in FieldSet[id] : f.name = REG
      BY DEF FieldNames
    <3> QED BY <2>3, <3>1
  <2>5. REG \in to.bad <=> REG \in form.bad
    BY <2>2, <2>4
  <2>6. ASSUME to.clean, NEW f \in FieldSet[id]
        PROVE  /\ to.field[f.name] \in 0..MaxValue(f)-1
               /\ f.encode => to.enum[f.name] = to.field[f.name]
               /\ REG \notin to.bad => to.field[f.name] = Slice(to.reg, f)
    <3>1. CASE f.name \in names
      BY <2>2, <2>3, <3>1
    <3>2. CASE f.name \notin names
      <4>1. FormHolds(form, id) /\ form.clean
        BY <2>2, <2>3, <2>6, <3>2
      <4>2. /\ to.field[f.name] = form.field[f.name]
            /\ f.encode => to.enum[f.name] = form.enum[f.name]
        BY <2>2, <2>3, <3>2
      <4>3. /\ form.field[f.name] \in 0..MaxValue(f)-1
            /\ f.encode => form.enum[f.name] = form.field[f.name]
            /\ REG \notin form.bad => form.field[f.name] = Slice(form.reg, f)
        BY <4>1 DEF FormHolds, InputsFit, FieldsShowRegister
      <4> QED BY <2>2, <2>5, <4>2, <4>3
    <3> QED BY <3>1, <3>2
  <2>7. FormHolds(to, id)
    BY <2>2, <2>6 DEF FormHolds, InputsFit, FieldsShowRegister
  <2>8. ASSUME FormHolds(form, id), form.clean, REG \notin form.bad, NEW n \in FieldNames[id]
        PROVE  to.field[n] = form.field[n]
    <3>1. PICK f \in FieldSet[id] : f.name = n
      BY DEF FieldNames
    <3>2. form.field[n] = Slice(form.reg, f)
      BY <2>8, <3>1 DEF FormHolds, FieldsShowRegister
    <3> QED BY <2>2, <2>3, <3>1, <3>2
  <2> QED BY <2>2, <2>5, <2>7, <2>8 DEF to
<1> QED BY <1>1, <1>2

\* After a reset the fields have their values after reset, and nothing is marked.
LEMMA ResetHolds ==
  ASSUME NEW id \in Nodes, NEW form, FormOK(form), is_register(id)
  PROVE  LET to == reset_field_inputs(form, id)
         IN  /\ FormHolds(to, id) /\ to.clean /\ REG \notin to.bad
             /\ \A f \in FieldSet[id] : to.field[f.name] = f.reset
<1> DEFINE field == [name \in FieldNames[id] |-> lookup_field_idx(id, name).reset]
           enum  == [name \in Encoded[id] |-> lookup_field_idx(id, name).reset]
           reset == [form EXCEPT !.field = field, !.enum = enum, !.clean = TRUE]
           to    == update_reg_value_tester(reset, id)
<1>1. /\ DOMAIN field = FieldNames[id] /\ DOMAIN enum = Encoded[id]
      /\ \A n \in FieldNames[id] : field[n] = lookup_field_idx(id, n).reset
      /\ \A n \in Encoded[id] : enum[n] = lookup_field_idx(id, n).reset
  OBVIOUS
<1>2. ASSUME NEW f \in FieldSet[id]
      PROVE  /\ field[f.name] = f.reset /\ f.reset \in 0..MaxValue(f)-1
             /\ f.encode => enum[f.name] = f.reset
  <2>1. /\ f.name \in FieldNames[id] /\ lookup_field_idx(id, f.name) = f
        /\ f.encode => f.name \in Encoded[id]
    BY LookupFinds
  <2>2. f.reset \in Nat /\ MaxValue(f) \in Nat /\ f.reset < MaxValue(f)
    BY FieldSizes
  <2> HIDE DEF field, enum
  <2>3. f.reset \in 0..MaxValue(f)-1
    BY <2>2
  <2> QED BY <1>1, <2>1, <2>3
<1>3. field \in [FieldNames[id] -> Nat]
  BY FieldsOf, FieldSizes
<1>4. reset_field_inputs(form, id) = to
  BY DEF reset_field_inputs
<1> HIDE DEF field, enum
<1>5. FormOK(reset) /\ reset.field = field /\ reset.enum = enum /\ reset.clean
  BY <1>3 DEF FormOK, Texts
<1> HIDE DEF reset
<1>6. Fits(reset, id) /\ InputsFit(reset, id)
  BY <1>1, <1>2, <1>5 DEF Fits, InputsFit
<1>7. /\ FormHolds(to, id) /\ to.clean = reset.clean
      /\ to.clean => Encodable(reset) /\ REG \notin to.bad
  BY <1>5, <1>6, RegisterHolds
<1>8. to.field = reset.field
  BY <1>5 DEF update_reg_value_tester, FormOK
<1> HIDE DEF to
<1> QED BY <1>2, <1>4, <1>5, <1>7, <1>8

\* Where the form shows the register, an event either leaves what it shows or saves it.
OutcomeHolds(o, form, id) ==
  /\ FormHolds(o.form, id)
  /\ o.form.clean /\ REG \notin o.form.bad =>
       \/ o.saved
       \/ /\ form.clean /\ REG \notin form.bad /\ o.form.reg = form.reg
          /\ \A n \in FieldNames[id] : o.form.field[n] = form.field[n]

LEMMA OutcomeMoves ==
  ASSUME NEW m \in Nodes, NEW n \in Nodes, FieldNames[m] = FieldNames[n],
         NEW o, NEW form, OutcomeHolds(o, form, m)
  PROVE  OutcomeHolds(o, form, n)
<1>1. FormHolds(o.form, n)
  BY HoldsMoves DEF OutcomeHolds
<1> QED BY <1>1, Zenon DEF OutcomeHolds

\* The handlers find the page's elements exactly if the nodes have the same fields.
LEMMA FitsMoves ==
  ASSUME NEW p \in Nodes, NEW id \in Nodes, NEW form, FormHolds(form, p)
  PROVE  /\ Fits(form, id) <=> FieldNames[p] = FieldNames[id]
         /\ Fits(form, id) => FormHolds(form, id)
<1>1. DOMAIN form.field = FieldNames[p] /\ is_register(p)
  BY DEF FormHolds, InputsFit
<1>2. FieldNames[p] = FieldNames[id] => is_register(id)
  BY <1>1, Registers
<1> QED BY <1>1, <1>2, HoldsMoves DEF Fits

\* The fields' inputs are saved as soon as they make up a register.
LEMMA WrittenHolds ==
  ASSUME NEW id \in Nodes, NEW form, FormOK(form), is_register(id), InputsFit(form, id),
         NEW old
  PROVE  OutcomeHolds(Outcome(update_reg_value_tester(form, id), Encodable(form)), old, id)
<1> DEFINE to == update_reg_value_tester(form, id)
<1>1. Fits(form, id)
  BY DEF Fits, InputsFit
<1>2. FormHolds(to, id) /\ to.clean = form.clean /\ (to.clean => Encodable(form))
  BY <1>1, RegisterHolds
<1> HIDE DEF to
<1> QED BY <1>2 DEF OutcomeHolds, Outcome, to

\* A form with an invalid text promises nothing more.
LEMMA UncleanHolds ==
  ASSUME NEW id \in Nodes, NEW form, is_register(id), ~form.clean,
         DOMAIN form.field = FieldNames[id], DOMAIN form.enum = Encoded[id], NEW old
  PROVE  OutcomeHolds(Outcome(form, FALSE), old, id)
BY DEF OutcomeHolds, Outcome, FormHolds, InputsFit, FieldsShowRegister

LEMMA FieldInputHolds ==
  ASSUME NEW p \in Nodes, NEW id \in Nodes, NEW form, FormOK(form), FormHolds(form, p),
         NEW name \in DOMAIN form.field, NEW text \in Texts
  PROVE  OutcomeHolds(onDecodedFieldInput(form, id, name, text), form, p)
<1> DEFINE typed   == [form EXCEPT !.field[name] = text]
           f       == lookup_field_idx(id, name)
           valid   == text # Garbage /\ text \in 0..MaxValue(f)-1
           enum    == IF f.encode THEN [typed.enum EXCEPT ![name] = text] ELSE typed.enum
           checked == [typed EXCEPT !.bad = @ \ {name}, !.enum = enum]
           done    == update_reg_value_tester(checked, id)
           unfit   == [typed EXCEPT !.clean = FALSE]
           marked  == [typed EXCEPT !.bad = @ \cup {name}, !.clean = FALSE]
<1>1. is_register(p) /\ DOMAIN form.field = FieldNames[p] /\ DOMAIN form.enum = Encoded[p]
  BY DEF FormHolds, InputsFit
<1>2. /\ FormOK(typed) /\ DOMAIN typed.field = DOMAIN form.field /\ typed.enum = form.enum
      /\ typed.clean = form.clean
      /\ \A n \in DOMAIN form.field : typed.field[n] = IF n = name THEN text ELSE form.field[n]
  BY DEF FormOK
<1>3. onDecodedFieldInput(form, id, name, text) =
        IF ~Fits(form, id) THEN Outcome(unfit, FALSE)
        ELSE IF ~valid THEN Outcome(marked, FALSE)
        ELSE Outcome(done, Encodable(checked))
  <2>1. checked = [typed EXCEPT !.bad = @ \ {name},
                                !.enum = IF f.encode THEN [@ EXCEPT ![name] = text] ELSE @]
    OBVIOUS
  <2> HIDE DEF checked, typed
  <2> QED BY <2>1 DEF onDecodedFieldInput, typed
<1> HIDE DEF typed
<1>4. OutcomeHolds(Outcome(unfit, FALSE), form, p) /\ OutcomeHolds(Outcome(marked, FALSE), form, p)
  <2>1. /\ unfit.field = typed.field /\ unfit.enum = typed.enum /\ ~unfit.clean
        /\ marked.field = typed.field /\ marked.enum = typed.enum /\ ~marked.clean
    BY <1>2 DEF FormOK
  <2> HIDE DEF unfit, marked
  <2> QED BY <1>1, <1>2, <2>1, UncleanHolds
<1>5. ASSUME Fits(form, id), valid PROVE OutcomeHolds(Outcome(done, Encodable(checked)), form, p)
  <2>1. FieldNames[p] = FieldNames[id] /\ FormHolds(form, id)
    BY <1>5, FitsMoves
  <2>2. is_register(id) /\ DOMAIN form.field = FieldNames[id] /\ DOMAIN form.enum = Encoded[id]
    BY <2>1 DEF FormHolds, InputsFit
  <2>3. FormOK(checked) /\ checked.field = typed.field /\ checked.enum = enum
        /\ checked.clean = form.clean
    BY <1>2 DEF FormOK
  <2>4. /\ DOMAIN enum = DOMAIN form.enum
        /\ \A n \in DOMAIN form.enum :
             enum[n] = IF n = name /\ f.encode THEN text ELSE form.enum[n]
    BY <1>2
  <2> HIDE DEF checked, enum
  <2>5. ASSUME form.clean, NEW g \in FieldSet[id]
        PROVE  /\ typed.field[g.name] \in 0..MaxValue(g)-1
               /\ g.encode => enum[g.name] = typed.field[g.name]
    <3>1. /\ g.name \in FieldNames[id] /\ lookup_field_idx(id, g.name) = g
          /\ g.encode => g.name \in Encoded[id]
      BY LookupFinds
    <3>2. /\ form.field[g.name] \in 0..MaxValue(g)-1
          /\ g.encode => form.enum[g.name] = form.field[g.name]
      BY <2>1, <2>5 DEF FormHolds, InputsFit
    <3>3. g.name = name => f = g
      BY <3>1
    <3> HIDE DEF f
    <3>4. CASE g.name = name
      BY <1>2, <1>5, <2>2, <2>4, <3>1, <3>3, <3>4
    <3>5. CASE g.name # name
      BY <1>2, <2>2, <2>4, <3>1, <3>2, <3>5
    <3> QED BY <3>4, <3>5
  <2>6. InputsFit(checked, id)
    BY <1>2, <2>2, <2>3, <2>4, <2>5 DEF InputsFit
  <2>7. OutcomeHolds(Outcome(done, Encodable(checked)), form, id)
    BY <2>2, <2>3, <2>6, WrittenHolds
  <2> QED BY <2>1, <2>7, OutcomeMoves
<1> HIDE DEF done, unfit, marked, checked, valid
<1> QED BY <1>3, <1>4, <1>5

LEMMA EnumChangeHolds ==
  ASSUME NEW p \in Nodes, NEW id \in Nodes, NEW form, FormOK(form), FormHolds(form, p),
         NEW name, NEW value \in 0..MaxValue(lookup_field_idx(p, name))-1
  PROVE  OutcomeHolds(onDecodedFieldEnumChange(form, id, name, value), form, p)
<1> DEFINE picked == [form EXCEPT !.enum[name] = value]
           copied == [picked EXCEPT !.field[name] = value]
           done   == update_reg_value_tester(copied, id)
           unfit  == [picked EXCEPT !.clean = FALSE]
<1>1. is_register(p) /\ DOMAIN form.field = FieldNames[p] /\ DOMAIN form.enum = Encoded[p]
  BY DEF FormHolds, InputsFit
<1>2. /\ FormOK(picked) /\ picked.field = form.field /\ DOMAIN picked.enum = DOMAIN form.enum
      /\ picked.clean = form.clean
      /\ \A n \in DOMAIN form.enum : picked.enum[n] = IF n = name THEN value ELSE form.enum[n]
  BY DEF FormOK
<1> HIDE DEF picked
<1>3. onDecodedFieldEnumChange(form, id, name, value) =
        IF ~Fits(form, id) THEN Outcome(unfit, FALSE) ELSE Outcome(done, Encodable(copied))
  BY DEF onDecodedFieldEnumChange, picked
<1>4. OutcomeHolds(Outcome(unfit, FALSE), form, p)
  <2>1. unfit.field = picked.field /\ unfit.enum = picked.enum /\ ~unfit.clean
    BY <1>2 DEF FormOK
  <2> HIDE DEF unfit
  <2> QED BY <1>1, <1>2, <2>1, UncleanHolds
<1>5. ASSUME Fits(form, id) PROVE OutcomeHolds(Outcome(done, Encodable(copied)), form, p)
  <2>1. FieldNames[p] = FieldNames[id] /\ FormHolds(form, id) /\ is_register(id)
        /\ Encoded[p] = Encoded[id]
    BY <1>5, FitsMoves, EncodedTwins DEF FormHolds
  <2>2. /\ DOMAIN copied.field = DOMAIN form.field /\ copied.enum = picked.enum
        /\ copied.clean = form.clean
        /\ \A n \in DOMAIN form.field :
             copied.field[n] = IF n = name THEN value ELSE form.field[n]
    BY <1>2 DEF FormOK
  <2>3. FormOK(copied)
    <3> DEFINE field == [picked.field EXCEPT ![name] = value]
    <3>1. copied = [picked EXCEPT !.field = field] /\ value \in Texts
      BY DEF Texts
    <3>2. DOMAIN field = DOMAIN form.field /\ field \in [DOMAIN field -> Texts]
      BY <1>2, <3>1 DEF FormOK
    <3> HIDE DEF field
    <3> QED BY <1>2, <3>1, <3>2 DEF FormOK
  <2> HIDE DEF copied
  <2>4. ASSUME form.clean, NEW g \in FieldSet[p]
        PROVE  /\ copied.field[g.name] \in 0..MaxValue(g)-1
               /\ g.encode => copied.enum[g.name] = copied.field[g.name]
    <3>1. /\ g.name \in FieldNames[p] /\ lookup_field_idx(p, g.name) = g
          /\ g.encode => g.name \in Encoded[p]
      BY LookupFinds
    <3>2. /\ form.field[g.name] \in 0..MaxValue(g)-1
          /\ g.encode => form.enum[g.name] = form.field[g.name]
      BY <2>4 DEF FormHolds, InputsFit
    <3>3. CASE g.name = name
      BY <1>1, <1>2, <2>2, <3>1, <3>3
    <3>4. CASE g.name # name
      BY <1>1, <1>2, <2>2, <3>1, <3>2, <3>4
    <3> QED BY <3>3, <3>4
  <2>5. InputsFit(copied, p)
    BY <1>1, <1>2, <2>2, <2>4 DEF InputsFit
  <2>6. InputsFit(copied, id)
    <3> DEFINE hidden == [copied EXCEPT !.bad = @ \cup {REG}]
    <3>1. /\ hidden.field = copied.field /\ hidden.enum = copied.enum
          /\ hidden.clean = copied.clean /\ REG \in hidden.bad
      BY <2>3 DEF FormOK
    <3> HIDE DEF hidden
    <3>2. FormHolds(hidden, p)
      BY <1>1, <2>5, <3>1 DEF FormHolds, InputsFit, FieldsShowRegister
    <3>3. FormHolds(hidden, id)
      BY <2>1, <3>2, HoldsMoves
    <3> QED BY <3>1, <3>3 DEF FormHolds, InputsFit
  <2>7. OutcomeHolds(Outcome(done, Encodable(copied)), form, id)
    BY <2>1, <2>3, <2>6, WrittenHolds
  <2> QED BY <2>1, <2>7, OutcomeMoves
<1> HIDE DEF done, unfit, copied
<1> QED BY <1>3, <1>4, <1>5

LEMMA RegInputHolds ==
  ASSUME NEW p \in Nodes, NEW id \in Nodes, NEW form, FormOK(form), FormHolds(form, p),
         NEW text \in Texts
  PROVE  OutcomeHolds(onEncodedRegInput(form, id, text), form, p)
<1> DEFINE typed  == [form EXCEPT !.reg = text]
           marked == [typed EXCEPT !.bad = @ \cup {REG}]
           unfit  == [typed EXCEPT !.bad = @ \ {REG}, !.clean = FALSE]
           good   == [typed EXCEPT !.bad = @ \ {REG}, !.clean = TRUE]
           done   == update_field_value_testers(good, id)
<1>1. is_register(p) /\ DOMAIN form.field = FieldNames[p] /\ DOMAIN form.enum = Encoded[p]
  BY DEF FormHolds, InputsFit
<1>2. onEncodedRegInput(form, id, text) =
        IF text = Garbage \/ text < 0 THEN Outcome(marked, FALSE)
        ELSE IF ~Fits(form, id) THEN Outcome(unfit, FALSE) ELSE Outcome(done, TRUE)
  BY DEF onEncodedRegInput
<1>3. /\ FormOK(good) /\ good.reg = text /\ good.field = form.field /\ good.enum = form.enum
      /\ marked.field = form.field /\ marked.enum = form.enum /\ marked.clean = form.clean
      /\ REG \in marked.bad
      /\ unfit.field = form.field /\ unfit.enum = form.enum /\ ~unfit.clean
  BY DEF FormOK
<1> HIDE DEF typed, marked, unfit, good
<1>4. OutcomeHolds(Outcome(unfit, FALSE), form, p)
  BY <1>1, <1>3, UncleanHolds
<1>5. OutcomeHolds(Outcome(marked, FALSE), form, p)
  BY <1>3 DEF OutcomeHolds, Outcome, FormHolds, InputsFit, FieldsShowRegister
<1>6. ASSUME Fits(form, id), text # Garbage PROVE OutcomeHolds(Outcome(done, TRUE), form, p)
  <2>1. FieldNames[p] = FieldNames[id] /\ FormHolds(form, id)
    BY <1>6, FitsMoves
  <2>2. is_register(id) /\ DOMAIN form.field = FieldNames[id] /\ DOMAIN form.enum = Encoded[id]
    BY <2>1 DEF FormHolds, InputsFit
  <2>3. good.reg \in Int
    BY <1>3, <1>6 DEF Texts
  <2>4. FormHolds(done, id)
    BY <1>3, <2>2, <2>3, BitsHold DEF update_field_value_testers
  <2>5. FormHolds(done, p)
    BY <2>1, <2>4, HoldsMoves
  <2> HIDE DEF done
  <2> QED BY <2>5 DEF OutcomeHolds, Outcome
<1> HIDE DEF done
<1> QED BY <1>2, <1>4, <1>5, <1>6

LEMMA ResetValueHolds ==
  ASSUME NEW p \in Nodes, NEW id \in Nodes, NEW form, FormOK(form), FormHolds(form, p)
  PROVE  OutcomeHolds(onResetRegValue(form, id), form, p)
<1> DEFINE to == reset_field_inputs(form, id)
<1>1. CASE ~Fits(form, id)
  BY <1>1 DEF onResetRegValue, OutcomeHolds, Outcome
<1>2. CASE Fits(form, id)
  <2>1. FieldNames[p] = FieldNames[id]
    BY <1>2, FitsMoves
  <2>2. FormHolds(to, id)
    BY <1>2, ResetHolds DEF Fits
  <2>3. FormHolds(to, p)
    BY <2>1, <2>2, HoldsMoves
  <2>4. onResetRegValue(form, id) = Outcome(to, TRUE)
    BY <1>2 DEF onResetRegValue
  <2> HIDE DEF to
  <2> QED BY <2>3, <2>4 DEF OutcomeHolds, Outcome
<1> QED BY <1>1, <1>2

LEMMA RadixSwitchHolds ==
  ASSUME NEW p \in Nodes, NEW id \in Nodes, NEW form, FormOK(form), FormHolds(form, p),
         Fits(form, id), NEW name \in DOMAIN form.field, NEW disp
  PROVE  OutcomeHolds(onRadixSwitch(form, id, name, disp), form, p)
<1> DEFINE shown == [form EXCEPT !.selects = (@ \ {name}) \cup (Selects(id, disp) \cap {name})]
           to    == ShowBits(shown, id, {name})
<1>1. /\ FormOK(shown) /\ shown.reg = form.reg /\ shown.field = form.field
      /\ shown.enum = form.enum /\ shown.clean = form.clean /\ shown.bad = form.bad
  BY DEF FormOK
<1>2. onRadixSwitch(form, id, name, disp) = Outcome(to, FALSE)
  BY DEF onRadixSwitch, update_field_value_tester
<1> HIDE DEF shown
<1>3. FieldNames[p] = FieldNames[id] /\ FormHolds(form, id)
  BY FitsMoves
<1>4. FormHolds(shown, id)
  BY <1>1, <1>3 DEF FormHolds, InputsFit, FieldsShowRegister
<1>5. /\ is_register(id) /\ DOMAIN shown.field = FieldNames[id]
      /\ DOMAIN shown.enum = Encoded[id] /\ {name} \in SUBSET FieldNames[id]
  BY <1>3, <1>4 DEF FormHolds, InputsFit
<1>6. /\ FormHolds(to, id) /\ to.reg = shown.reg /\ to.clean = shown.clean
      /\ REG \in to.bad <=> REG \in shown.bad
      /\ FormHolds(shown, id) /\ shown.clean /\ REG \notin shown.bad =>
           \A n \in FieldNames[id] : to.field[n] = shown.field[n]
  BY <1>1, <1>4, <1>5, BitsHold
<1> HIDE DEF to
<1>7. OutcomeHolds(Outcome(to, FALSE), form, id)
  BY <1>1, <1>4, <1>6 DEF OutcomeHolds, Outcome
<1> QED BY <1>2, <1>3, <1>7, OutcomeMoves

\* The form has the value that is kept, or else the one after reset.
HasValue(form, id, saved) ==
  form.clean /\ REG \notin form.bad =>
    \/ saved = form.reg
    \/ saved = NoValue /\ \A f \in FieldSet[id] : form.field[f.name] = f.reset

LEMMA InitHolds ==
  ASSUME NEW p \in Nodes, NEW id \in Nodes, NEW form, FormOK(form), FormHolds(form, p),
         NEW saved, saved = NoValue \/ saved \in Nat, NEW disp
  PROVE  LET to == init_reg_value(form, id, saved, disp)
         IN  FormHolds(to, p) /\ (p = id => HasValue(to, id, saved))
<1> DEFINE filled == [form EXCEPT !.reg = saved, !.bad = @ \ {REG}, !.clean = Fits(form, id)]
           shown  == update_field_value_testers(filled, id)
           reset  == reset_field_inputs(form, id)
           chosen == IF saved = NoValue THEN reset ELSE shown
           marked == [chosen EXCEPT !.selects = Selects(id, disp)]
           to     == init_reg_value(form, id, saved, disp)
<1>1. is_register(p) /\ DOMAIN form.field = FieldNames[p] /\ DOMAIN form.enum = Encoded[p]
  BY DEF FormHolds, InputsFit
<1>2. to = IF Fits(form, id) THEN marked
           ELSE IF saved = NoValue \/ form = NoForm THEN form ELSE filled
  BY DEF init_reg_value
<1>3. /\ filled.reg = saved /\ filled.clean = Fits(form, id) /\ filled.field = form.field
      /\ filled.enum = form.enum /\ (saved \in Nat => FormOK(filled))
  BY DEF FormOK, Texts
<1> HIDE DEF filled, to
<1>4. CASE ~Fits(form, id)
  <2>1. ~Fits(form, id) => p # id
    BY <1>1 DEF Fits
  <2>2. ~filled.clean
    BY <1>3, <1>4
  <2>3. FormHolds(filled, p)
    BY <1>1, <1>3, <2>2 DEF FormHolds, InputsFit, FieldsShowRegister
  <2> QED BY <1>2, <1>4, <2>1, <2>3 DEF to
<1>5. CASE Fits(form, id)
  <2>1. FieldNames[p] = FieldNames[id] /\ FormHolds(form, id)
    BY <1>5, FitsMoves
  <2>2. is_register(id) /\ DOMAIN form.field = FieldNames[id] /\ DOMAIN form.enum = Encoded[id]
    BY <2>1 DEF FormHolds, InputsFit
  <2>3. FormOK(reset) /\ FormHolds(reset, id) /\ \A f \in FieldSet[id] : reset.field[f.name] = f.reset
    BY <2>2, ResetHolds, ResetInputs
  <2>4. ASSUME saved # NoValue PROVE FormOK(shown) /\ FormHolds(shown, id) /\ shown.reg = saved
    <3>1. saved \in Nat /\ FormOK(filled) /\ filled.reg \in Int
      BY <1>3, <2>4
    <3> QED BY <1>3, <2>2, <3>1, BitsHold, BitsShown DEF update_field_value_testers
  <2> HIDE DEF shown, reset
  <2>5. FormOK(chosen) /\ FormHolds(chosen, id) /\ HasValue(chosen, id, saved)
    BY <2>3, <2>4 DEF HasValue
  <2> HIDE DEF chosen
  <2>6. /\ marked.reg = chosen.reg /\ marked.field = chosen.field /\ marked.enum = chosen.enum
        /\ marked.bad = chosen.bad /\ marked.clean = chosen.clean
    BY <2>5 DEF FormOK
  <2> HIDE DEF marked
  <2>7. FormHolds(marked, id) /\ HasValue(marked, id, saved)
    BY <2>5, <2>6 DEF FormHolds, InputsFit, FieldsShowRegister, HasValue
  <2>8. FormHolds(marked, p)
    BY <2>1, <2>7, HoldsMoves
  <2> QED BY <1>2, <1>5, <2>7, <2>8 DEF to
<1> QED BY <1>4, <1>5

LEMMA NoFormHolds ==
  ASSUME NEW id \in Nodes
  PROVE  /\ ~FormHolds(NoForm, id)
         /\ is_register(id) => \A saved, disp : init_reg_value(NoForm, id, saved, disp) = NoForm
<1>1. DOMAIN NoForm.field = {}
  BY DEF NoForm
<1>2. is_register(id) => ~Fits(NoForm, id)
  BY <1>1, Registers DEF Fits
<1>3. ~FormHolds(NoForm, id)
  BY <1>2 DEF FormHolds, InputsFit, Fits
<1>4. ~Fits(NoForm, id) => \A saved, disp : init_reg_value(NoForm, id, saved, disp) = NoForm
  BY DEF init_reg_value
<1> QED BY <1>2, <1>3, <1>4

LEMMA BlankHolds ==
  ASSUME NEW id \in Nodes, is_register(id) PROVE FormHolds(BlankForm(id), id)
<1> DEFINE form == BlankForm(id)
<1>1. /\ DOMAIN form.field = FieldNames[id] /\ DOMAIN form.enum = Encoded[id] /\ form.reg = 0
      /\ \A n \in FieldNames[id] : form.field[n] = 0
      /\ \A n \in Encoded[id] : form.enum[n] = 0
  BY DEF BlankForm
<1> HIDE DEF form
<1>2. ASSUME NEW f \in FieldSet[id]
      PROVE  /\ form.field[f.name] = 0 /\ 0 \in 0..MaxValue(f)-1 /\ Slice(0, f) = 0
             /\ f.encode => form.enum[f.name] = 0
  <2>1. f.name \in FieldNames[id] /\ (f.encode => f.name \in Encoded[id])
    BY LookupFinds
  <2>2. 2^f.lsb \in Nat \ {0} /\ MaxValue(f) \in Nat \ {0}
    BY FieldSizes
  <2>3. \A a, b \in Nat \ {0} : (0 \div a) % b = 0 /\ 0 \in 0..b-1
    OBVIOUS
  <2>4. Slice(0, f) = 0 /\ 0 \in 0..MaxValue(f)-1
    BY <2>2, <2>3, Zenon DEF Slice
  <2> QED BY <1>1, <2>1, <2>4
<1>3. FormHolds(form, id)
  BY <1>1, <1>2 DEF FormHolds, InputsFit, FieldsShowRegister
<1> QED BY <1>3 DEF form

\* The form shows the register of the page.
FormShows(u) == u.form = NoForm \/ (u.page \in Nodes /\ FormHolds(u.form, u.page))

\* The form has the value of the current address.
FormCurrent(u) == u.form = NoForm \/ HasValue(u.form, u.page, get_reg_state(u))

\* What a step that leaves the page keeps of the form.
Carries(u, v) ==
  /\ v.page = u.page /\ v.CurrentID = u.CurrentID
  /\ FormShows(u) => FormShows(v)
  /\ FormShows(u) /\ FormCurrent(u) /\ u.page = u.CurrentID => FormCurrent(v)

LEMMA CarriesThrough ==
  ASSUME NEW u, NEW v, NEW w, Carries(u, v), Carries(v, w) PROVE Carries(u, w)
BY Zenon DEF Carries

SameForm(u, v) == v.page = u.page /\ v.form = u.form /\ v.registry = u.registry

LEMMA CarriesSame ==
  ASSUME NEW u, NEW v, SameForm(u, v), v.CurrentID = u.CurrentID, addr_key(v) = addr_key(u)
  PROVE  Carries(u, v)
<1>1. get_reg_state(v) = get_reg_state(u)
  BY DEF get_reg_state, SameForm
<1> QED BY <1>1 DEF Carries, FormShows, FormCurrent, SameForm

LEMMA CarriesSet ==
  ASSUME NEW u, DOMAIN u = Fields, NEW x
  PROVE  /\ Carries(u, u) /\ Carries(u, [u EXCEPT !.tree = x])
         /\ Carries(u, [u EXCEPT !.modal = x]) /\ Carries(u, [u EXCEPT !.disp = x])
<1>1. Carries(u, u)
  BY CarriesSame DEF SameForm
<1>2. Carries(u, [u EXCEPT !.tree = x])
  <2> DEFINE v == [u EXCEPT !.tree = x]
  <2>1. SameForm(u, v) /\ v.CurrentID = u.CurrentID /\ addr_key(v) = addr_key(u)
    BY DEF Fields, SameForm, addr_key
  <2> HIDE DEF v
  <2> QED BY <2>1, CarriesSame DEF v
<1>3. Carries(u, [u EXCEPT !.modal = x])
  <2> DEFINE v == [u EXCEPT !.modal = x]
  <2>1. SameForm(u, v) /\ v.CurrentID = u.CurrentID /\ addr_key(v) = addr_key(u)
    BY DEF Fields, SameForm, addr_key
  <2> HIDE DEF v
  <2> QED BY <2>1, CarriesSame DEF v
<1>4. Carries(u, [u EXCEPT !.disp = x])
  <2> DEFINE v == [u EXCEPT !.disp = x]
  <2>1. SameForm(u, v) /\ v.CurrentID = u.CurrentID /\ addr_key(v) = addr_key(u)
    BY DEF Fields, SameForm, addr_key
  <2> HIDE DEF v
  <2> QED BY <2>1, CarriesSame DEF v
<1> QED BY <1>1, <1>2, <1>3, <1>4

\* The form can be filled in.
Ready(u) ==
  /\ DOMAIN u = Fields /\ u.CurrentID \in Nodes /\ FormOK(u.form)
  /\ u.registry \in [DOMAIN u.registry -> Nat]

LEMMA FillFormShows ==
  ASSUME NEW u, Ready(u), FormShows(u)
  PROVE  LET v == FillForm(u)
         IN  /\ v.page = u.page /\ v.CurrentID = u.CurrentID /\ FormShows(v)
             /\ u.page = u.CurrentID => FormCurrent(v)
<1> DEFINE id    == u.CurrentID
           saved == get_reg_state(u)
           form  == init_reg_value(u.form, id, saved, u.disp)
           v     == [u EXCEPT !.form = form]
<1>1. id \in Nodes /\ FormOK(u.form) /\ (saved = NoValue \/ saved \in Nat)
  BY DEF Ready, get_reg_state
<1>2. /\ v.page = u.page /\ v.CurrentID = id /\ v.form = form
      /\ addr_key(v) = addr_key(u) /\ v.registry = u.registry
  BY DEF Ready, Fields, addr_key
<1>3. FillForm(u) = IF is_register(id) THEN v ELSE u
  BY DEF FillForm
<1> HIDE DEF v
<1>4. get_reg_state(v) = saved
  BY <1>2 DEF get_reg_state
<1> HIDE DEF saved
<1>5. CASE ~is_register(id)
  <2>1. u.page = id => u.form = NoForm
    BY <1>5 DEF FormShows, FormHolds
  <2>2. FillForm(u) = u
    BY <1>3, <1>5
  <2> QED BY <2>1, <2>2 DEF FormCurrent
<1>6. CASE is_register(id) /\ u.form = NoForm
  <2>1. v.form = NoForm
    BY <1>1, <1>2, <1>6, NoFormHolds
  <2> QED BY <1>2, <1>3, <1>6, <2>1 DEF FormShows, FormCurrent
<1>7. CASE is_register(id) /\ u.form # NoForm
  <2>1. u.page \in Nodes /\ FormHolds(u.form, u.page)
    BY <1>7 DEF FormShows
  <2>2. FormHolds(form, u.page) /\ (u.page = id => HasValue(form, id, saved))
    BY <1>1, <2>1, InitHolds
  <2> HIDE DEF form, id
  <2>3. FormShows(v)
    BY <1>2, <2>1, <2>2 DEF FormShows
  <2>4. u.page = id => FormCurrent(v)
    BY <1>2, <1>4, <2>2 DEF FormCurrent
  <2> QED BY <1>2, <1>3, <1>7, <2>3, <2>4 DEF id
<1> QED BY <1>5, <1>6, <1>7

\* The head and the URL are written next to the form.
LEMMA WrittenSame ==
  ASSUME NEW u, DOMAIN u = Fields
  PROVE  /\ SameForm(u, Headed(u)) /\ SameForm(u, patch_url_path(u))
         /\ DOMAIN Headed(u) = Fields /\ DOMAIN patch_url_path(u) = Fields
         /\ Headed(u).CurrentID = u.CurrentID /\ patch_url_path(u).CurrentID = u.CurrentID
<1>1. /\ SameForm(u, Headed(u)) /\ DOMAIN Headed(u) = Fields
      /\ Headed(u).CurrentID = u.CurrentID
  BY DEF SameForm, Fields, Headed, update_crumbtrail, update_absolute_addr, update_rdlfc_indexes
<1>2. /\ SameForm(u, patch_url_path(u)) /\ DOMAIN patch_url_path(u) = Fields
      /\ patch_url_path(u).CurrentID = u.CurrentID
  BY DEF SameForm, Fields, patch_url_path
<1> QED BY <1>1, <1>2

LEMMA SameReady ==
  ASSUME NEW u, NEW v, SameForm(u, v), DOMAIN v = Fields, v.CurrentID = u.CurrentID
  PROVE  /\ Ready(u) => Ready(v)
         /\ FormShows(u) => FormShows(v)
BY DEF SameForm, Ready, FormShows

LEMMA ExitCarries ==
  ASSUME NEW u, Opened(u), NEW cancel, NEW val
  PROVE  Carries(u, exitIndexEditModal(u, cancel, val)) /\ Carries(u, WindowClick(u, val))
<1> DEFINE m      == u.modal
           closed == [u EXCEPT !.modal = [m EXCEPT !.active = FALSE]]
           idxs   == [u.idxs EXCEPT ![m.id][m.dim] = val]
           set    == [closed EXCEPT !.idxs = idxs]
           h      == Headed(set)
           p      == patch_url_path(h)
           out    == FillForm(p)
<1>1. DOMAIN u = Fields /\ Ready(u)
  BY DEF Opened, UiOK, Ready
<1>2. Carries(u, closed) /\ closed.idxs = u.idxs /\ Carries(u, u)
  BY <1>1, CarriesSet DEF Fields
<1>3. DOMAIN set = Fields /\ set.CurrentID = u.CurrentID /\ SameForm(u, set)
  BY <1>1 DEF Fields, SameForm
<1>4. ASSUME NEW c
      PROVE  exitIndexEditModal(u, c, val) =
               IF ~m.active THEN u
               ELSE IF c \/ val \notin 0..Tree[m.id].dims[m.dim]-1 THEN closed
               ELSE out
  <2>1. closed = [u EXCEPT !.modal.active = FALSE]
    OBVIOUS
  <2>2. set = [closed EXCEPT !.idxs[m.id][m.dim] = val]
    BY <1>2
  <2> HIDE DEF closed, set
  <2> QED BY <2>1, <2>2 DEF exitIndexEditModal
<1> HIDE DEF closed, set, m
<1>5. DOMAIN h = Fields /\ h.CurrentID = u.CurrentID /\ SameForm(u, h)
  BY <1>3, WrittenSame DEF SameForm
<1> HIDE DEF h
<1>6. DOMAIN p = Fields /\ p.CurrentID = u.CurrentID /\ SameForm(u, p)
  BY <1>5, WrittenSame DEF SameForm
<1> HIDE DEF p
<1>7. Ready(p) /\ (FormShows(u) => FormShows(p)) /\ p.page = u.page
  BY <1>1, <1>6, SameReady DEF SameForm
<1>8. ASSUME FormShows(u)
      PROVE  /\ out.page = u.page /\ out.CurrentID = u.CurrentID /\ FormShows(out)
             /\ u.page = u.CurrentID => FormCurrent(out)
  BY <1>6, <1>7, <1>8, FillFormShows
<1>9. out.page = u.page /\ out.CurrentID = u.CurrentID
  <2>1. out = p \/ \E form : out = [p EXCEPT !.form = form]
    BY DEF FillForm
  <2> HIDE DEF out
  <2> QED BY <1>6, <1>7, <2>1 DEF Fields
<1> HIDE DEF out
<1>10. Carries(u, out)
  BY <1>8, <1>9 DEF Carries
<1>11. ASSUME NEW c PROVE Carries(u, exitIndexEditModal(u, c, val))
  BY <1>2, <1>4, <1>10
<1> QED BY <1>11 DEF WindowClick

LEMMA SwitchCarries ==
  ASSUME NEW u, Opened(u), NEW span, NEW val
  PROVE  /\ Carries(u, onClickCrumbtrailIdx(u, span, val))
         /\ Carries(u, switch_to_prev_idx_edit(u, val))
         /\ Carries(u, switch_to_next_idx_edit(u, val))
<1> DEFINE closed == exitIndexEditModal(u, FALSE, val)
<1>0. DOMAIN u = Fields
  BY DEF Opened, UiOK
<1>1. Opened(closed) /\ Carries(u, closed) /\ Carries(u, u)
  BY <1>0, ExitOK, ExitCarries, CarriesSet
<1> HIDE DEF closed
<1>2. ASSUME NEW v, Opened(v), NEW s, NEW t PROVE Carries(v, showIndexEditModal(v, s, t))
  <2> DEFINE m == [active |-> TRUE, id |-> Spans(v)[s].id,
                   dim |-> Spans(v)[s].dim, span |-> s, text |-> t]
  <2>1. DOMAIN v = Fields
    BY <1>2 DEF Opened, UiOK
  <2>2. showIndexEditModal(v, s, t) = v \/ showIndexEditModal(v, s, t) = [v EXCEPT !.modal = m]
    BY DEF showIndexEditModal
  <2> HIDE DEF m
  <2>3. Carries(v, v) /\ Carries(v, [v EXCEPT !.modal = m])
    BY <2>1, CarriesSet
  <2> QED BY <2>2, <2>3
<1>3. ASSUME NEW s, NEW t
      PROVE  Carries(u, showIndexEditModal(u, s, t)) /\ Carries(u, showIndexEditModal(closed, s, t))
  BY <1>1, <1>2, CarriesThrough
<1> QED
  BY <1>1, <1>3 DEF closed, onClickCrumbtrailIdx, switch_to_prev_idx_edit, switch_to_next_idx_edit

LEMMA EditedCarries ==
  ASSUME NEW u, DOMAIN u = Fields, u.form # NoForm, NEW outcome,
         FormShows(u) => OutcomeHolds(outcome, u.form, u.page)
  PROVE  Carries(u, Edited(u, outcome))
<1> DEFINE key == addr_key(u)
           reg == IF outcome.saved THEN save_reg_state(u.registry, key, outcome.form.reg)
                  ELSE u.registry
           v   == Edited(u, outcome)
<1>1. /\ v.page = u.page /\ v.CurrentID = u.CurrentID /\ v.form = outcome.form
      /\ v.registry = reg /\ addr_key(v) = key
  BY DEF Edited, Fields, addr_key
<1>2. IF outcome.saved THEN key \in DOMAIN reg /\ reg[key] = outcome.form.reg
      ELSE reg = u.registry
  BY DEF save_reg_state
<1> HIDE DEF v, key, reg
<1>3. /\ outcome.saved => get_reg_state(v) = outcome.form.reg
      /\ ~outcome.saved => get_reg_state(v) = get_reg_state(u)
  BY <1>1, <1>2 DEF get_reg_state, key
<1>4. FormShows(u) => FormShows(v)
  BY <1>1 DEF FormShows, OutcomeHolds
<1>5. ASSUME FormShows(u), FormCurrent(u) PROVE FormCurrent(v)
  <2> SUFFICES ASSUME outcome.form.clean, REG \notin outcome.form.bad
               PROVE  HasValue(v.form, v.page, get_reg_state(v))
    BY <1>1 DEF FormCurrent, HasValue
  <2>1. CASE outcome.saved
    BY <1>1, <1>3, <2>1 DEF HasValue
  <2>2. CASE ~outcome.saved
    <3>1. /\ u.form.clean /\ REG \notin u.form.bad /\ outcome.form.reg = u.form.reg
          /\ \A n \in FieldNames[u.page] : outcome.form.field[n] = u.form.field[n]
      BY <1>5, <2>2 DEF OutcomeHolds
    <3>2. u.page \in Nodes /\ HasValue(u.form, u.page, get_reg_state(u))
      BY <1>5 DEF FormShows, FormCurrent
    <3>3. \A f \in FieldSet[u.page] : f.name \in FieldNames[u.page]
      BY <3>2, LookupFinds
    <3>4. \A f \in FieldSet[u.page] : outcome.form.field[f.name] = u.form.field[f.name]
      BY <3>1, <3>3
    <3> QED BY <1>1, <1>3, <2>2, <3>1, <3>2, <3>4 DEF HasValue
  <2> QED BY <2>1, <2>2
<1> QED BY <1>1, <1>4, <1>5 DEF Carries, v

LEMMA ToNextCarries ==
  ASSUME NEW u, Opened(u), NEW id \in Nodes PROVE Carries(u, ToNext(u, id))
<1> DEFINE idxs == reset_indexes_to_next(u.idxs, id, u.CurrentID)
           v    == [u EXCEPT !.idxs = idxs]
<1>1. DOMAIN u = Fields /\ IdxsOK(u.idxs) /\ u.CurrentID \in Nodes
  BY DEF Opened, UiOK
<1>2. ToNext(u, id) = v
  BY DEF ToNext
<1>3. get_absolute_addr(idxs, u.CurrentID) = get_absolute_addr(u.idxs, u.CurrentID)
  <2>1. \A n \in Lineage[u.CurrentID] : idxs[n] = u.idxs[n]
    BY <1>1, NextKeepsPath
  <2> HIDE DEF idxs
  <2> QED BY <1>1, <2>1, SameAddress
<1> HIDE DEF idxs
<1>4. SameForm(u, v) /\ v.CurrentID = u.CurrentID /\ v.idxs = idxs
  BY <1>1 DEF Fields, SameForm
<1> HIDE DEF v
<1>5. addr_key(v) = addr_key(u)
  BY <1>3, <1>4 DEF addr_key
<1> QED BY <1>2, <1>4, <1>5, CarriesSame

\* A page that has come brings its form, and the value of the address.
LEMMA ShownForm ==
  ASSUME NEW u, UiOK(u), NEW id \in Nodes
  PROVE  LET v == ShowInSidebar(load_page(u, id), id)
         IN  /\ FormShows(v) /\ FormCurrent(v)
             /\ FormShows(refresh_url(v)) /\ FormCurrent(refresh_url(v))
<1> DEFINE s == [u EXCEPT !.CurrentID = id, !.page = id, !.form = Fresh(id)]
           h == Headed(s)
           l == FillForm(h)
           v == ShowInSidebar(l, id)
           r == refresh_url(v)
<1>1. /\ DOMAIN s = Fields /\ s.CurrentID = id /\ s.page = id /\ s.form = Fresh(id)
      /\ s.registry = u.registry
  BY DEF UiOK, Fields
<1>2. Ready(s) /\ FormShows(s)
  <2>1. FormOK(Fresh(id))
    BY FirstForms
  <2>2. Fresh(id) = NoForm \/ FormHolds(Fresh(id), id)
    BY BlankHolds DEF Fresh
  <2>3. Ready(s)
    BY <1>1, <2>1 DEF Ready, UiOK
  <2> QED BY <1>1, <2>2, <2>3 DEF FormShows
<1>3. load_page(u, id) = l
  BY DEF load_page
<1> HIDE DEF s
<1>4. DOMAIN h = Fields /\ h.CurrentID = id /\ h.page = id /\ Ready(h) /\ FormShows(h)
  BY <1>1, <1>2, WrittenSame, SameReady DEF SameForm
<1> HIDE DEF h
<1>5. DOMAIN l = Fields /\ l.CurrentID = id /\ l.page = id /\ FormShows(l) /\ FormCurrent(l)
  <2>1. DOMAIN l = Fields
    BY <1>4 DEF FillForm, Fields
  <2> QED BY <1>4, <2>1, FillFormShows
<1> HIDE DEF l
<1>6. /\ SameForm(l, v) /\ v.CurrentID = id /\ DOMAIN v = Fields
      /\ addr_key(v) = addr_key(l)
  BY <1>5 DEF ShowInSidebar, SameForm, Fields, addr_key
<1> HIDE DEF v
<1>7. FormShows(v) /\ FormCurrent(v) /\ v.page = id
  BY <1>5, <1>6, CarriesSame DEF Carries, SameForm
<1>8. SameForm(v, r) /\ r.CurrentID = id /\ addr_key(r) = addr_key(v)
  BY <1>6 DEF refresh_url, SameForm, Fields, addr_key
<1> HIDE DEF r
<1>9. FormShows(r) /\ FormCurrent(r)
  BY <1>6, <1>7, <1>8, CarriesSame DEF Carries
<1> QED BY <1>3, <1>7, <1>9 DEF r, v

\* Through the URL or to a result the form stays as it is.
LEMMA TravelShows ==
  ASSUME NEW u, DOMAIN u = Fields, NEW i
  PROVE  SameForm(u, load_page_via_url(u)) /\ SameForm(u, open_search_result(u, i))
<1>1. SameForm(u, open_search_result(u, i))
  BY DEF SameForm, Fields, open_search_result
<1>2. SameForm(u, load_page_via_url(u))
  <2> DEFINE parsed == parse_path(u.history[u.pos])
             at     == [u EXCEPT !.CurrentID = parsed.id,
                                 !.idxs = apply_idx_stack(@, parsed.id, parsed.stack)]
             start  == [u EXCEPT !.CurrentID = 0, !.history[u.pos] = NoPath]
  <2>1. SameForm(u, at) /\ SameForm(u, start) /\ DOMAIN at = Fields
    BY DEF SameForm, Fields
  <2>2. load_page_via_url(u) = IF parsed = NoPosition THEN start ELSE patch_url_path(at)
    BY DEF load_page_via_url, Displayed
  <2> HIDE DEF at, start
  <2> QED BY <2>1, <2>2, WrittenSame DEF SameForm
<1> QED BY <1>1, <1>2

LEMMA SameShows == ASSUME NEW u, NEW v, SameForm(u, v) PROVE FormShows(u) => FormShows(v)
BY DEF SameForm, FormShows

\* The form shows the register and, unless the history variable says otherwise or a page is on
\* its way that sets other indexes, the value of the current address.
FormInv ==
  /\ FormShows(ui)
  /\ ~rough /\ ~Pending({"url"}) /\ ~Pending({"search"}) /\ ui.CurrentID # NoNode =>
       FormCurrent(ui)

LEMMA QuietForms ==
  ASSUME AgreeInv, FormInv, AskNothing, Carries(ui, ui') PROVE FormInv'
<1>1. \A kinds : Pending(kinds)' <=> Pending(kinds)
  BY DEF AskNothing, Pending
<1>2. FormShows(ui)' <=> FormShows(ui')
  BY DEF FormShows
<1>3. FormCurrent(ui)' <=> FormCurrent(ui')
  BY DEF FormCurrent
<1>4. ~rough /\ ~Pending({"url"}) /\ ~Pending({"search"}) /\ ui.CurrentID # NoNode =>
        ui.page = ui.CurrentID
  BY DEF AgreeInv, Agree
<1> QED BY <1>1, <1>2, <1>3, <1>4 DEF FormInv, AskNothing, Carries

LEMMA LinkForms ==
  ASSUME ViewerInv, AgreeInv, FormInv, NEW id \in Nodes, Ask(id, "link"), Carries(ui, ui')
  PROVE  FormInv'
<1>1. \A kinds : Pending(kinds)' <=> Pending(kinds) \/ "link" \in kinds
  BY AskPending DEF ViewerInv
<1>2. /\ Pending({"url"})' <=> Pending({"url"})
      /\ Pending({"search"})' <=> Pending({"search"})
  BY <1>1
<1>3. rough' = (rough \/ Pending({"url"}))
  BY DEF Ask
<1>4. ~rough /\ ~Pending({"url"}) /\ ~Pending({"search"}) /\ ui.CurrentID # NoNode =>
        ui.page = ui.CurrentID
  BY DEF AgreeInv, Agree
<1> QED BY <1>2, <1>3, <1>4 DEF FormInv, Carries

LEMMA ResultForms ==
  ASSUME ViewerInv, FormInv, NEW id \in Nodes, Ask(id, "search"),
         FormShows(ui) => FormShows(ui')
  PROVE  FormInv'
<1>1. \A kinds : Pending(kinds)' <=> Pending(kinds) \/ "search" \in kinds
  BY AskPending DEF ViewerInv
<1>2. Pending({"search"})'
  BY <1>1
<1> QED BY <1>2 DEF FormInv

LEMMA ArrivalForms ==
  ASSUME ViewerInv, NEW i \in DOMAIN loads, PageArrives(i) PROVE FormInv'
<1> DEFINE id    == loads[i].id
           shown == ShowInSidebar(load_page(ui, id), id)
<1>1. loads[i] \in Loads /\ UiOK(ui)
  BY ElementOfSeq, LenProperties DEF ViewerInv
<1>2. id \in Nodes
  BY <1>1 DEF Loads
<1>3. ui' = IF loads[i].by = "url" THEN shown ELSE refresh_url(shown)
  BY DEF PageArrives
<1> HIDE DEF id
<1>4. /\ FormShows(shown) /\ FormCurrent(shown)
      /\ FormShows(refresh_url(shown)) /\ FormCurrent(refresh_url(shown))
  BY <1>1, <1>2, ShownForm
<1> HIDE DEF shown
<1> QED BY <1>3, <1>4 DEF FormInv

LEMMA FailureForms ==
  ASSUME ViewerInv, FormInv, NEW i \in DOMAIN loads, PageFails(i) PROVE FormInv'
<1>1. loads \in Seq(Loads)
  BY DEF ViewerInv
<1>2. /\ loads' = RemoveAt(loads, i) /\ rough' = (rough \/ loads[i].by \in {"url", "search"})
      /\ ui' = ui
  BY DEF PageFails
<1>3. ASSUME ~rough'
      PROVE  /\ ~rough /\ (Pending({"url"}) => Pending({"url"})')
             /\ Pending({"search"}) => Pending({"search"})'
  <2>1. ~rough /\ loads[i].by \notin {"url", "search"}
    BY <1>2, <1>3
  <2> QED BY <1>1, <1>2, <2>1, GonePending
<1> QED BY <1>2, <1>3 DEF FormInv

LEMMA FilesForms ==
  ASSUME ViewerInv, FormInv, NEW f, RalFileArrives(f) \/ RalFileFails(f) PROVE FormInv'
<1>1. CASE UNCHANGED <<ui, loads, rough>>
  BY <1>1 DEF FormInv, Pending
<1>2. CASE RalFileArrives(f) /\ files.arrived \cup {f} = DataFiles
  <2> DEFINE u    == load_page_via_url(ui)
             tree == expand_to_id(NoTree, u.CurrentID)
             v    == [u EXCEPT !.tree = tree]
             l    == Load(u.CurrentID, "url")
  <2>1. ui' = v /\ loads' = <<l>>
    BY <1>2 DEF RalFileArrives
  <2>2. DOMAIN u = Fields /\ SameForm(ui, u)
    BY DisplayedFits, TravelShows DEF ViewerInv, UiOK
  <2> HIDE DEF u, tree
  <2>3. SameForm(u, v)
    BY <2>2 DEF SameForm, Fields
  <2> HIDE DEF v
  <2>4. FormShows(ui')
    BY <2>1, <2>2, <2>3, SameShows DEF FormInv
  <2>5. Pending({"url"})'
    <3>1. l.by = "url"
      BY DEF Load
    <3> HIDE DEF l
    <3>2. DOMAIN loads' = {1} /\ loads'[1] = l
      BY <2>1
    <3> QED BY <3>1, <3>2 DEF Pending
  <2> QED BY <2>4, <2>5 DEF FormInv
<1>3. RalFileFails(f) => UNCHANGED <<ui, loads, rough>>
  BY DEF RalFileFails
<1>4. RalFileArrives(f) /\ files.arrived \cup {f} # DataFiles => UNCHANGED <<ui, loads, rough>>
  BY DEF RalFileArrives
<1> QED BY <1>1, <1>2, <1>3, <1>4

LEMMA HistoryForms == ASSUME ViewerInv, AgreeInv, FormInv, onPopState PROVE FormInv'
<1>1. PICK p \in {ui.pos - 1, ui.pos + 1} \cap DOMAIN ui.history :
        \E moved \in {load_page_via_url([ui EXCEPT !.pos = p])} :
          /\ ui' = moved
          /\ IF moved.CurrentID = ui.CurrentID
             THEN /\ UNCHANGED loads
                  /\ rough' = (rough \/ loads # <<>> \/ moved.crumbs # Crumbs(moved))
             ELSE /\ Len(loads) < MaxLoads
                  /\ loads' = Append(loads, Load(moved.CurrentID, "url"))
                  /\ rough' = (rough \/ loads # <<>>)
  BY DEF onPopState
<1> DEFINE u     == [ui EXCEPT !.pos = p]
           moved == load_page_via_url(u)
           l     == Load(moved.CurrentID, "url")
<1>2. Opened(ui) /\ UiOK(u) /\ SameForm(ui, u) /\ SameTitles(ui, u)
  <2>1. Opened(ui)
    BY OpenedOnce DEF onPopState
  <2>2. UiOK(ui)
    BY DEF ViewerInv
  <2> QED BY <1>1, <2>1, <2>2, SetOK DEF SameForm, SameTitles, UiOK, Fields
<1>3. ui' = moved /\ Opened(moved)
  BY <1>1, <1>2, DisplayedOK
<1>4. SameForm(u, moved) /\ SameTitles(u, moved)
  BY <1>2, TravelShows, DisplayedFits DEF UiOK
<1>5. SameForm(ui, moved) /\ SameTitles(ui, moved)
  BY <1>2, <1>4 DEF SameForm, SameTitles
<1>6. FormShows(moved)
  BY <1>5, SameShows DEF FormInv
<1>7. CASE moved.CurrentID = ui.CurrentID
  <2>1. /\ loads' = loads
        /\ rough' = (rough \/ loads # <<>> \/ moved.crumbs # Crumbs(moved))
    BY <1>1, <1>7
  <2> HIDE DEF moved, u
  <2> SUFFICES ASSUME ~rough' PROVE FormCurrent(moved)
    BY <1>3, <1>6 DEF FormInv
  <2>2. ~rough /\ loads = <<>> /\ moved.crumbs = Crumbs(moved)
    BY <2>1
  <2>3. ~Pending({"url"}) /\ ~Pending({"search"})
    BY <2>2 DEF Pending
  <2>4. ui.CurrentID # NoNode
    BY DEF onPopState, User
  <2>5. Agree(ui) /\ FormCurrent(ui) /\ ui.page = ui.CurrentID
    BY <2>2, <2>3, <2>4 DEF AgreeInv, FormInv, Agree
  <2> DEFINE id == ui.CurrentID
  <2>6. id \in Nodes
    BY <1>2 DEF Opened
  <2>7. get_current_idx_stack(moved.idxs, id) = get_current_idx_stack(ui.idxs, id)
    <3>1. Crumbs(moved) = Crumbs(ui)
      BY <1>5, <2>2, <2>5, Zenon DEF Agree, Titled, SameTitles
    <3> QED BY <1>7, <3>1 DEF Crumbs
  <2>8. get_absolute_addr(moved.idxs, id) = get_absolute_addr(ui.idxs, id)
    BY <2>6, <2>7, SameHeads
  <2>9. addr_key(moved) = addr_key(ui)
    BY <1>7, <2>8 DEF addr_key
  <2>10. Carries(ui, moved)
    BY <1>5, <1>7, <2>9, CarriesSame
  <2> QED BY <2>5, <2>10 DEF Carries, FormInv
<1>8. CASE moved.CurrentID # ui.CurrentID
  <2>1. loads' = Append(loads, l)
    BY <1>1, <1>8
  <2> HIDE DEF moved, u
  <2>2. l.by = "url" /\ l \in Loads
    BY <1>3, LoadTyped DEF Load, Opened
  <2>3. Pending({"url"})'
    <3> HIDE DEF l
    <3>1. /\ Len(loads) \in Nat /\ Append(loads, l)[Len(loads) + 1] = l
          /\ Append(loads, l) \in Seq(Loads) /\ Len(Append(loads, l)) = Len(loads) + 1
      BY <2>2, AppendProperties, LenProperties DEF ViewerInv
    <3>2. Len(loads) + 1 \in DOMAIN loads'
      <4>1. DOMAIN loads' = 1..Len(loads)+1
        BY <2>1, <3>1, LenProperties
      <4> QED BY <3>1, <4>1
    <3> QED BY <2>1, <2>2, <3>1, <3>2 DEF Pending
  <2> QED BY <1>3, <1>6, <2>3 DEF FormInv
<1> QED BY <1>7, <1>8

LEMMA ClickedCarries ==
  ASSUME NEW u, NEW v, Opened(v), Carries(u, v), NEW val PROVE Carries(u, WindowClick(v, val))
<1>1. Carries(v, WindowClick(v, val))
  BY ExitCarries
<1> QED BY <1>1, CarriesThrough

LEMMA LinksForms ==
  ASSUME ViewerInv, AgreeInv, FormInv, onClickNodeLink \/ onClickTreeLink \/ load_parent_page
  PROVE  FormInv'
<1>0. Opened(ui) /\ Carries(ui, ui) /\ DOMAIN ui = Fields /\ ui.tree \in Trees
  <2>1. Opened(ui)
    BY OpenedOnce DEF onClickNodeLink, onClickTreeLink, load_parent_page
  <2> QED BY <2>1, CarriesSet DEF Opened, UiOK
<1>1. CASE onClickNodeLink
  <2>1. PICK id \in Links, val \in Vals :
          IF id = ui.CurrentID THEN ui' = WindowClick(ui, val) /\ AskNothing
          ELSE ui' = WindowClick(ToNext(ui, id), val) /\ Ask(id, "link")
    BY <1>1 DEF onClickNodeLink
  <2>2. id \in Nodes
    BY <1>0, LinksTyped DEF Opened
  <2>3. Carries(ui, WindowClick(ui, val)) /\ Carries(ui, WindowClick(ToNext(ui, id), val))
    <3>1. Opened(ToNext(ui, id)) /\ Carries(ui, ToNext(ui, id))
      BY <1>0, <2>2, ToNextOK, ToNextCarries
    <3> QED BY <1>0, <3>1, ClickedCarries
  <2> QED BY <2>1, <2>2, <2>3, QuietForms, LinkForms
<1>2. CASE onClickTreeLink
  <2> DEFINE open(id) == [ui EXCEPT !.tree = expand_node(@, id)]
  <2>1. PICK id \in Nodes, val \in Vals :
          IF id = ui.CurrentID THEN ui' = WindowClick(ui, val) /\ AskNothing
          ELSE ui' = WindowClick(ToNext(open(id), id), val) /\ Ask(id, "link")
    BY <1>2 DEF onClickTreeLink
  <2> DEFINE u == open(id)
  <2>2. Opened(u) /\ Carries(ui, u)
    <3>1. expand_node(ui.tree, id) \in Trees
      BY <1>0, ExpandSound
    <3> QED BY <1>0, <3>1, TreeOK, CarriesSet
  <2>3. \/ ui' = WindowClick(ui, val) /\ AskNothing
        \/ ui' = WindowClick(ToNext(u, id), val) /\ Ask(id, "link")
    BY <2>1
  <2> HIDE DEF u
  <2>4. Opened(ToNext(u, id)) /\ Carries(ui, ToNext(u, id))
    <3>1. Opened(ToNext(u, id)) /\ Carries(u, ToNext(u, id))
      BY <2>2, ToNextOK, ToNextCarries
    <3> QED BY <2>2, <3>1, CarriesThrough
  <2>5. Carries(ui, WindowClick(ui, val)) /\ Carries(ui, WindowClick(ToNext(u, id), val))
    BY <1>0, <2>4, ClickedCarries
  <2> QED BY <2>3, <2>5, QuietForms, LinkForms
<1>3. CASE load_parent_page
  <2>1. Above(ui.CurrentID) \in Nodes
    BY <1>0, <1>3, LineageOf DEF load_parent_page, Above, Opened
  <2>2. Ask(Above(ui.CurrentID), "link") /\ ui' = ui
    BY <1>3 DEF load_parent_page
  <2> QED BY <1>0, <2>1, <2>2, LinkForms
<1> QED BY <1>1, <1>2, <1>3

LEMMA ResultsForms ==
  ASSUME ViewerInv, FormInv, EnterResult \/ ClickResult PROVE FormInv'
<1>0. Opened(ui) /\ SearchInv /\ DOMAIN ui = Fields
  BY OpenedOnce DEF ViewerInv, EnterResult, ClickResult, Opened, UiOK
<1>1. CASE EnterResult
  <2>1. Entered \in DOMAIN results
    BY <1>0, <1>1, EnteredTyped DEF EnterResult
  <2>2. results[Entered].id \in Nodes /\ Ask(results[Entered].id, "search")
    BY <1>0, <1>1, <2>1, ResultOK DEF EnterResult
  <2>3. ui' = open_search_result(ui, Entered)
    BY <1>1 DEF EnterResult
  <2>4. FormShows(ui) => FormShows(ui')
    BY <1>0, <2>3, TravelShows, SameShows
  <2> QED BY <2>2, <2>4, ResultForms
<1>2. CASE ClickResult
  <2>1. PICK i \in DOMAIN results, val \in Vals :
          /\ ui' = WindowClick(open_search_result(ui, i), val)
          /\ Ask(results[i].id, "search")
    BY <1>2 DEF ClickResult
  <2> DEFINE u == open_search_result(ui, i)
  <2>2. Opened(u) /\ results[i].id \in Nodes
    BY <1>0, ResultOK
  <2>3. FormShows(ui) => FormShows(u)
    BY <1>0, TravelShows, SameShows
  <2> HIDE DEF u
  <2>4. FormShows(u) => FormShows(WindowClick(u, val))
    BY <2>2, ExitCarries DEF Carries
  <2> QED BY <2>1, <2>2, <2>3, <2>4, ResultForms DEF u
<1> QED BY <1>1, <1>2

LEMMA StayForms ==
  ASSUME ViewerInv, AgreeInv, FormInv,
         \/ ClickTreeFold \/ onClickTreeCollapseAll \/ ClickIndex \/ IndexKey \/ ClickAway
         \/ SearchKey \/ onSearchButtonClick \/ TypeQuery \/ SelectResult
  PROVE  FormInv'
<1>0. /\ Opened(ui) /\ Carries(ui, ui) /\ DOMAIN ui = Fields /\ ui.tree \in Trees
      /\ ui.CurrentID \in Nodes
  <2>1. Opened(ui)
    BY OpenedOnce DEF ClickTreeFold, onClickTreeCollapseAll, ClickIndex, IndexKey, ClickAway,
                      SearchKey, onSearchButtonClick, TypeQuery, SelectResult
  <2> QED BY <2>1, CarriesSet DEF Opened, UiOK
<1>1. AskNothing
  BY DEF ClickTreeFold, onClickTreeCollapseAll, ClickIndex, IndexKey, ClickAway,
         SearchKey, onSearchButtonClick, TypeQuery, SelectResult
<1> SUFFICES Carries(ui, ui')
  BY <1>1, QuietForms
<1>2. ASSUME NEW tree \in Trees, NEW val, ui' = WindowClick([ui EXCEPT !.tree = tree], val)
      PROVE  Carries(ui, ui')
  <2> DEFINE u == [ui EXCEPT !.tree = tree]
  <2>1. Opened(u) /\ Carries(ui, u)
    BY <1>0, TreeOK, CarriesSet
  <2> HIDE DEF u
  <2>2. ui' = WindowClick(u, val)
    BY <1>2 DEF u
  <2> QED BY <2>1, <2>2, ClickedCarries
<1>3. CASE ClickTreeFold
  <2>1. PICK id \in Nodes, val \in Vals :
          ui' = WindowClick([ui EXCEPT !.tree = onClickTreeFold(@, id, ui.CurrentID)], val)
    BY <1>3 DEF ClickTreeFold
  <2>2. onClickTreeFold(ui.tree, id, ui.CurrentID) \in Trees
    BY <1>0, FoldSound
  <2> QED BY <1>2, <2>1, <2>2
<1>4. CASE onClickTreeCollapseAll
  <2>1. PICK val \in Vals : ui' = WindowClick([ui EXCEPT !.tree = collapse_all(@)], val)
    BY <1>4 DEF onClickTreeCollapseAll
  <2>2. collapse_all(ui.tree) \in Trees
    BY <1>0, CollapseAllSound
  <2> QED BY <1>2, <2>1, <2>2
<1>5. CASE ClickIndex
  <2>1. PICK span, val : ui' = onClickCrumbtrailIdx(ui, span, val)
    BY <1>5 DEF ClickIndex
  <2> QED BY <1>0, <2>1, SwitchCarries
<1>6. CASE IndexKey
  <2>1. PICK val : \/ ui' = switch_to_prev_idx_edit(ui, val)
                   \/ ui' = switch_to_next_idx_edit(ui, val)
                   \/ \E cancel \in BOOLEAN : ui' = exitIndexEditModal(ui, cancel, val)
    BY <1>6 DEF IndexKey
  <2> QED BY <1>0, <2>1, SwitchCarries, ExitCarries
<1>7. CASE ClickAway \/ onSearchButtonClick
  <2>1. PICK val : ui' = WindowClick(ui, val)
    BY <1>7 DEF ClickAway, onSearchButtonClick
  <2> QED BY <1>0, <2>1, ExitCarries
<1>8. CASE SearchKey \/ TypeQuery \/ SelectResult
  <2>1. ui' = ui
    BY <1>8 DEF SearchKey, TypeQuery, SelectResult
  <2> QED BY <1>0, <2>1
<1> QED BY <1>3, <1>4, <1>5, <1>6, <1>7, <1>8

LEMMA EditForms ==
  ASSUME ViewerInv, AgreeInv, FormInv,
         TypeField \/ PickEnum \/ TypeReg \/ ClickReset \/ ClickRadix
  PROVE  FormInv'
<1> DEFINE form == ui.form
           id   == ui.CurrentID
           p    == ui.page
<1>0. Opened(ui) /\ FormOK(form) /\ id \in Nodes /\ DOMAIN ui = Fields /\ Carries(ui, ui)
  <2>1. Opened(ui)
    BY OpenedOnce DEF TypeField, PickEnum, TypeReg, ClickReset, ClickRadix
  <2> QED BY <2>1, CarriesSet DEF Opened, UiOK
<1>1. AskNothing
  BY DEF TypeField, PickEnum, TypeReg, ClickReset, ClickRadix
<1>2. form # NoForm
  <2>1. DOMAIN NoForm.field = {} /\ NoForm.selects = {}
    BY DEF NoForm
  <2>2. \/ \E name : name \in DOMAIN form.field
        \/ \E name : name \in form.selects
        \/ form # NoForm
    BY DEF TypeField, PickEnum, TypeReg, ClickReset, ClickRadix
  <2> HIDE DEF form
  <2> QED BY <2>1, <2>2
<1>3. p \in Nodes /\ FormHolds(form, p)
  BY <1>2 DEF FormInv, FormShows
<1>4. FieldTexts \subseteq Texts /\ RegTexts \subseteq Texts
  BY ReaderAssumption DEF Texts
<1>5. ASSUME NEW o, OutcomeHolds(o, form, p) PROVE Carries(ui, Edited(ui, o))
  BY <1>0, <1>2, <1>5, EditedCarries
<1> SUFFICES Carries(ui, ui')
  BY <1>1, QuietForms
<1>6. CASE TypeField
  <2>1. PICK name \in DOMAIN form.field, text \in FieldTexts :
          ui' = Edited(ui, onDecodedFieldInput(form, id, name, text))
    BY <1>6 DEF TypeField
  <2> HIDE DEF form, id, p
  <2> QED BY <1>0, <1>3, <1>4, <1>5, <2>1, FieldInputHolds
<1>7. CASE PickEnum
  <2>1. PICK name \in form.selects :
          \E value \in 0..MaxValue(lookup_field_idx(p, name))-1 :
            ui' = Edited(ui, onDecodedFieldEnumChange(form, id, name, value))
    BY <1>7 DEF PickEnum
  <2> HIDE DEF form, id, p
  <2> QED BY <1>0, <1>3, <1>5, <2>1, EnumChangeHolds
<1>8. CASE TypeReg
  <2>1. PICK text \in RegTexts : ui' = Edited(ui, onEncodedRegInput(form, id, text))
    BY <1>8 DEF TypeReg
  <2> HIDE DEF form, id, p
  <2> QED BY <1>0, <1>3, <1>4, <1>5, <2>1, RegInputHolds
<1>9. CASE ClickReset
  <2> DEFINE v == Edited(ui, onResetRegValue(form, id))
  <2>1. PICK val \in Vals : ui' = WindowClick(v, val)
    BY <1>9 DEF ClickReset
  <2>2. Opened(v)
    BY <1>0, ResetValue, EditedOK
  <2> HIDE DEF form, id, p
  <2>3. Carries(ui, v)
    BY <1>0, <1>3, <1>5, ResetValueHolds
  <2> HIDE DEF v
  <2> QED BY <2>1, <2>2, <2>3, ClickedCarries
<1>10. CASE ClickRadix
  <2> DEFINE disp(name) == SwitchRadix(ui.disp, id, name)
             set(name)  == [ui EXCEPT !.disp = disp(name)]
             out(name)  == onRadixSwitch(form, id, name, disp(name))
  <2>1. PICK name \in DOMAIN form.field, val \in Vals :
          ui' = WindowClick(IF ~Fits(form, id) THEN ui ELSE Edited(set(name), out(name)), val)
    BY <1>10 DEF ClickRadix
  <2> DEFINE s == set(name)
             w == Edited(s, out(name))
  <2>2. Opened(s) /\ Carries(ui, s) /\ DOMAIN s = Fields /\ s.form = form /\ s.page = p
    <3>1. Opened(s)
      BY <1>0, SetOK DEF Opened, UiOK, Fields
    <3>2. Carries(ui, s)
      BY <1>0, CarriesSet
    <3>3. DOMAIN s = Fields /\ s.form = form /\ s.page = p
      BY <1>0 DEF Fields
    <3> QED BY <3>1, <3>2, <3>3
  <2>3. Fits(form, id) => OutcomeOK(out(name)) /\ OutcomeHolds(out(name), form, p)
    <3> HIDE DEF form, id, p
    <3> QED BY <1>0, <1>3, RadixSwitch, RadixSwitchHolds
  <2> HIDE DEF set, out, s
  <2>4. Fits(form, id) => Opened(w) /\ Carries(ui, w)
    <3> SUFFICES ASSUME Fits(form, id) PROVE Opened(w) /\ Carries(ui, w)
      OBVIOUS
    <3>1. Opened(w)
      BY <2>2, <2>3, EditedOK
    <3>2. Carries(s, w)
      BY <1>2, <2>2, <2>3, EditedCarries
    <3> QED BY <2>2, <3>1, <3>2, CarriesThrough
  <2> DEFINE v == IF ~Fits(form, id) THEN ui ELSE w
  <2>5. Opened(v) /\ Carries(ui, v)
    BY <1>0, <2>4
  <2>6. ui' = WindowClick(v, val)
    BY <2>1 DEF s
  <2> HIDE DEF v
  <2> QED BY <2>5, <2>6, ClickedCarries
<1> QED BY <1>6, <1>7, <1>8, <1>9, <1>10

LEMMA FormStays == ViewerInv /\ AgreeInv /\ FormInv /\ [Next]_vars => FormInv'
<1> SUFFICES ASSUME ViewerInv, AgreeInv, FormInv, [Next]_vars PROVE FormInv'
  OBVIOUS
<1>1. CASE SearchRuns \/ UNCHANGED vars
  <2>1. UNCHANGED <<ui, loads, rough>>
    BY <1>1 DEF SearchRuns, vars
  <2> QED BY <2>1 DEF FormInv, Pending
<1>2. CASE \/ onClickNodeLink \/ onClickTreeLink \/ load_parent_page \/ onPopState
           \/ EnterResult \/ ClickResult
  BY <1>2, LinksForms, HistoryForms, ResultsForms
<1>3. CASE \/ ClickTreeFold \/ onClickTreeCollapseAll \/ ClickIndex \/ IndexKey \/ ClickAway
           \/ SearchKey \/ onSearchButtonClick \/ TypeQuery \/ SelectResult
           \/ TypeField \/ PickEnum \/ TypeReg \/ ClickReset \/ ClickRadix
  BY <1>3, StayForms, EditForms
<1>4. CASE \/ \E f \in DataFiles : RalFileArrives(f) \/ RalFileFails(f)
           \/ \E i \in DOMAIN loads : PageArrives(i) \/ PageFails(i)
  BY <1>4, FilesForms, ArrivalForms, FailureForms
<1> QED BY <1>1, <1>2, <1>3, <1>4 DEF Next

\* The form shows the register's bits whatever was typed last, and once nothing is on its
\* way the value kept for the address on display, or else the one after reset: for every
\* tree and every layout of fields, whatever is typed, and in whatever order pages come.
THEOREM FormsAgree == Spec => []FormShowsRegister
<1>1. Init => FormInv
  BY DEF Init, FormInv, FormShows
<1>2. FormInv => FormShowsRegister
  <2> SUFFICES ASSUME FormInv, ui.form # NoForm
               PROVE  /\ FieldsShowRegister(ui.form, ui.page)
                      /\ Settled => HasValue(ui.form, ui.page, get_reg_state(ui))
    BY DEF FormShowsRegister, HasValue
  <2>1. FieldsShowRegister(ui.form, ui.page)
    BY DEF FormInv, FormShows, FormHolds
  <2>2. Settled => ~rough /\ ~Pending({"url"}) /\ ~Pending({"search"}) /\ ui.CurrentID # NoNode
    BY DEF Settled, Pending
  <2> QED BY <2>1, <2>2 DEF FormInv, FormCurrent
<1> QED BY <1>1, <1>2, FormStays, ViewerShape, ViewerAgrees, PTL DEF Spec

-----------------------------------------------------------------------------
(* Completeness of the search.                                             *)

\* The keywords are looked for from left to right: the steps of that walk.
HitsOf(text, start, keyword) ==
  {i \in DOMAIN text : start > 0 /\ i >= start /\ Occurs(text, keyword, i)}
Behind(text, start, keyword) ==
  IF HitsOf(text, start, keyword) = {} THEN 0 ELSE Min(HitsOf(text, start, keyword)) + Len(keyword)
Lowered(path) == [i \in DOMAIN path |-> Lower[path[i]]]

PlacesIn(text, keyword) == {i \in DOMAIN text : Occurs(text, keyword, i)}

LEMMA BehindIsPast ==
  ASSUME NEW text, NEW start, NEW keyword
  PROVE  Behind(text, start, keyword) = Past(PlacesIn(text, keyword), start, Len(keyword))
<1>1. HitsOf(text, start, keyword) = From(PlacesIn(text, keyword), start)
  BY DEF HitsOf, From, PlacesIn
<1> QED BY <1>1 DEF Behind, Past

LEMMA BehindTyped ==
  ASSUME NEW text, DOMAIN text \in SUBSET Nat, NEW start, NEW keyword, Len(keyword) \in Nat
  PROVE  Behind(text, start, keyword) \in Nat
<1>1. PlacesIn(text, keyword) \in SUBSET Nat
  BY DEF PlacesIn
<1> QED BY <1>1, BehindIsPast, PastLeast

LEMMA PathSteps ==
  ASSUME NEW T, NEW path \in Seq(T), NEW keywords, NEW K, keywords \in Seq(Seq(K))
  PROVE  \E v \in [0..Len(keywords) -> Nat] :
           /\ v[0] = 1 /\ (test_path(path, keywords) <=> v[Len(keywords)] # 0)
           /\ \A i \in 1..Len(keywords) : v[i] = Behind(Lowered(path), v[i-1], keywords[i])
<1> DEFINE base == 1
           text == Lowered(path)
           n    == Len(keywords)
           D    == DOMAIN keywords
           A    == Nat
           op(a, k) == Behind(text, a, k)
           P(h) == h = [s \in SUBSET D |-> IF s = {} THEN base
                          ELSE LET x == Max(s) IN op(h[s \ {x}], keywords[x])]
           it   == CHOOSE h : P(h)
           F    == [p \in A \X D |-> op(p[1], keywords[p[2]])]
<1>1. test_path(path, keywords) <=> it[D] # 0
  BY DEF test_path, FoldLeft, MapThenFoldSet, Behind, HitsOf, Lowered
<1>2. /\ n \in Nat /\ D = 1..n /\ D \in SUBSET Nat /\ IsFiniteSet(D)
      /\ \A i \in D : Len(keywords[i]) \in Nat
  BY LenProperties, ElementOfSeq, Interval
<1>3. DOMAIN text \in SUBSET Nat
  BY LenProperties DEF Lowered
<1> HIDE DEF text, D, n
<1>4. \A a \in A : \A x \in D : op(a, keywords[x]) \in A
  BY <1>2, <1>3, BehindTyped
<1>5. base \in A
  OBVIOUS
<1> HIDE DEF A, op, base
<1>6. F \in [A \X D -> A]
  BY <1>4
<1> HIDE DEF F
<1>7. PICK k \in [SUBSET D -> A] : FoldOf(D, F, base, k)
  BY <1>2, <1>5, <1>6, FoldRecursion
<1>8. ASSUME NEW s \in SUBSET D, s # {} PROVE Max(s) \in D /\ s \ {Max(s)} \in SUBSET D
  BY <1>2, <1>8, FS_Subset, GreatestMember
<1>9. P(k)
  <2> SUFFICES ASSUME NEW s \in SUBSET D, s # {}
               PROVE  FoldStep(F, base, k, s) = op(k[s \ {Max(s)}], keywords[Max(s)])
    BY <1>7 DEF FoldOf, FoldStep
  <2>1. <<k[s \ {Max(s)}], Max(s)>> \in A \X D
    BY <1>7, <1>8
  <2> QED BY <2>1 DEF FoldStep, F
<1>10. P(it)
  BY <1>9
<1> HIDE DEF it
<1>11. ASSUME NEW s \in SUBSET D, s # {} /\ it[s \ {Max(s)}] \in A
       PROVE  it[s] = F[<<it[s \ {Max(s)}], Max(s)>>]
  <2>1. it[s] = op(it[s \ {Max(s)}], keywords[Max(s)])
    BY <1>10, <1>11
  <2>2. <<it[s \ {Max(s)}], Max(s)>> \in A \X D
    BY <1>8, <1>11
  <2> QED BY <2>1, <2>2 DEF F
<1>12. it[{}] = base
  BY <1>10
<1> HIDE DEF P
<1>13. StepsTo(A, n, base, F, it[D])
  BY <1>2, <1>5, <1>6, <1>11, <1>12, FoldSteps
<1>14. PICK v \in [0..n -> A] :
         v[0] = base /\ v[n] = it[D] /\ \A i \in 1..n : v[i] = F[<<v[i-1], i>>]
  BY <1>13 DEF StepsTo
<1>15. ASSUME NEW i \in 1..n PROVE v[i] = op(v[i-1], keywords[i])
  <2>1. <<v[i-1], i>> \in A \X D
    BY <1>2
  <2> QED BY <1>14, <2>1 DEF F
<1> QED BY <1>1, <1>2, <1>14, <1>15 DEF A, n, text, op, base

\* The test of a path says whether the keywords occur in it one behind the other.
LEMMA TestIsInOrder ==
  ASSUME NEW path \in Seq(DOMAIN Lower), NEW K, NEW keywords \in Seq(Seq(K))
  PROVE  test_path(path, keywords) <=> InOrder(Lowered(path), keywords)
<1> DEFINE text == Lowered(path)
<1>1. text \in Seq(DOMAIN BucketOf)
  <2>1. DOMAIN path = 1..Len(path) /\ Len(path) \in Nat /\ \A i \in DOMAIN path : path[i] \in DOMAIN Lower
    BY LenProperties, ElementOfSeq
  <2>2. \A i \in DOMAIN path : Lower[path[i]] \in DOMAIN BucketOf
    BY <2>1, SearchAssumption
  <2> QED BY <2>1, <2>2 DEF Lowered
<1>2. PICK v \in [0..Len(keywords) -> Nat] :
        /\ v[0] = 1 /\ (test_path(path, keywords) <=> v[Len(keywords)] # 0)
        /\ \A i \in 1..Len(keywords) : v[i] = Behind(text, v[i-1], keywords[i])
  BY PathSteps
<1> HIDE DEF text
<1> DEFINE n == Len(keywords)
           O == [i \in 1..n |-> PlacesIn(text, keywords[i])]
           l == [i \in 1..n |-> Len(keywords[i])]
<1>3. n \in Nat /\ DOMAIN keywords = 1..n /\ \A i \in 1..n : Len(keywords[i]) \in Nat
  BY LenProperties, ElementOfSeq
<1>4. \A i \in 1..n : PlacesIn(text, keywords[i]) \in SUBSET (Nat \ {0})
  <2>1. DOMAIN text = 1..Len(text) /\ Len(text) \in Nat
    BY <1>1, LenProperties
  <2> QED BY <2>1 DEF PlacesIn
<1>5. TakesFirst(n, O, l, v)
  BY <1>2, <1>3, <1>4, BehindIsPast DEF TakesFirst
<1>6. /\ \A i \in 1..n : \A j : j \in O[i] <=> j \in DOMAIN text /\ Occurs(text, keywords[i], j)
      /\ \A i \in 1..n : i > 1 => l[i-1] = Len(keywords[i-1])
  <2>1. \A i \in 1..n : i > 1 => i - 1 \in 1..n
    OBVIOUS
  <2> QED BY <2>1 DEF PlacesIn
<1>7. DOMAIN text \in SUBSET Nat
  BY <1>1, LenProperties
<1> HIDE DEF n, O, l
<1>8. ASSUME InOrder(text, keywords) PROVE v[n] # 0
  <2>1. PICK at \in [1..n -> DOMAIN text] :
          \A i \in 1..n : /\ Occurs(text, keywords[i], at[i])
                          /\ i > 1 => at[i] >= at[i-1] + Len(keywords[i-1])
    BY <1>3, <1>8 DEF InOrder
  <2>2. InTurn(n, O, l, at)
    BY <1>6, <2>1 DEF InTurn
  <2>3. at \in [1..n -> Nat]
    BY <1>7, <2>1
  <2> QED BY <1>3, <1>5, <2>2, <2>3, WalkMisses
<1>9. ASSUME v[n] # 0 PROVE InOrder(text, keywords)
  <2>1. PICK at \in [1..n -> Nat] : InTurn(n, O, l, at)
    BY <1>3, <1>5, <1>9, WalkFinds
  <2>2. \A i \in 1..n : /\ at[i] \in DOMAIN text /\ Occurs(text, keywords[i], at[i])
                        /\ i > 1 => at[i] >= at[i-1] + Len(keywords[i-1])
    BY <1>6, <2>1 DEF InTurn
  <2>3. at \in [DOMAIN keywords -> DOMAIN text]
    BY <1>3, <2>1, <2>2
  <2>4. \A i \in DOMAIN keywords : /\ Occurs(text, keywords[i], at[i])
                                   /\ i > 1 => at[i] >= at[i-1] + Len(keywords[i-1])
    BY <1>3, <2>2
  <2> QED BY <2>3, <2>4, Zenon DEF InOrder
<1> QED BY <1>2, <1>8, <1>9 DEF text, n

LEMMA ListsOne ==
  ASSUME NEW g, NEW id, NEW stack, NEW anchor
  PROVE  Lists(<<Result(g, id, stack, anchor)>>, {<<id, anchor>>})
<1> DEFINE r == Result(g, id, stack, anchor)
<1>1. r.id = id /\ r.anchor = anchor
  BY DEF Result
<1> HIDE DEF r
<1>2. Spots(<<r>>) = <<<<id, anchor>>>>
  BY <1>1 DEF Spots
<1>3. IsInjective(<<<<id, anchor>>>>) /\ ToSet(<<<<id, anchor>>>>) = {<<id, anchor>>}
  BY OnceOne
<1> QED BY <1>2, <1>3 DEF Lists, r

-----------------------------------------------------------------------------
(* The scan of the paths.                                                  *)

LEMMA TestFinds ==
  ASSUME NEW id \in Nodes, NEW K, NEW keywords \in Seq(Seq(K))
  PROVE  /\ test_path(PathTokens[id], keywords) <=> InOrder(Text(id, NoAnchor), keywords)
         /\ \A i \in DOMAIN Tree[id].fields :
              test_path(PathTokens[id] \o TokensOf[Tree[id].fields[i].name], keywords)
              <=> InOrder(Text(id, Tree[id].fields[i].name), keywords)
<1> DEFINE path == PathTokens[id]
           L    == DOMAIN Lower
<1>1. path \in Seq(L)
  BY PathTokensTyped
<1> HIDE DEF path, L
<1>2. Text(id, NoAnchor) = Lowered(path)
  BY DEF Text, Lowered, path
<1>3. ASSUME NEW i \in DOMAIN Tree[id].fields
      PROVE  LET name == Tree[id].fields[i].name
             IN  test_path(path \o TokensOf[name], keywords)
                 <=> InOrder(Text(id, name), keywords)
  <2> DEFINE name == Tree[id].fields[i].name
  <2>1. TokensOf[name] \in Seq(L) /\ name # NoAnchor
    BY NamesAssumption DEF L
  <2> HIDE DEF name
  <2>2. path \o TokensOf[name] \in Seq(L)
    BY <1>1, <2>1, ConcatProperties
  <2>3. Text(id, name) = Lowered(path \o TokensOf[name])
    BY <2>1 DEF Text, Lowered, path
  <2>4. test_path(path \o TokensOf[name], keywords) <=> InOrder(Text(id, name), keywords)
    BY <2>2, <2>3, TestIsInOrder DEF L
  <2> QED BY <2>4 DEF name
<1>4. test_path(path, keywords) <=> InOrder(Text(id, NoAnchor), keywords)
  BY <1>1, <1>2, TestIsInOrder DEF L
<1> QED BY <1>3, <1>4 DEF path

\* The paths of one node: its own, or else those of its fields; and of the nodes before.
NodePaths(id, keywords) ==
  IF InOrder(Text(id, NoAnchor), keywords) THEN {<<id, NoAnchor>>}
  ELSE {<<id, f.name>> : f \in {h \in ToSet(Tree[id].fields) : InOrder(Text(id, h.name), keywords)}}
PathsBefore(id, keywords) == UNION {NodePaths(n, keywords) : n \in 0..id-1}

LEMMA AllPaths ==
  ASSUME NEW query PROVE PathsOf(query) = PathsBefore(number_of_ids, query.keywords)
<1>1. 0..number_of_ids-1 = Nodes
  BY TreeAssumption, FS_CardinalityType DEF number_of_ids
<1> DEFINE keywords == query.keywords
           own == {m \in Nodes : InOrder(Text(m, NoAnchor), keywords)}
           of(n) == {<<n, f.name>> : f \in {h \in ToSet(Tree[n].fields) :
                                              InOrder(Text(n, h.name), keywords)}}
<1>2. PathsOf(query) = {<<n, NoAnchor>> : n \in own} \cup UNION {of(n) : n \in Nodes \ own}
  <2>1. {m \in Nodes : ~InOrder(Text(m, NoAnchor), keywords)} = Nodes \ own
    OBVIOUS
  <2> QED BY <2>1 DEF PathsOf
<1>3. \A n \in Nodes : NodePaths(n, keywords) = IF n \in own THEN {<<n, NoAnchor>>} ELSE of(n)
  BY DEF NodePaths
<1>4. PathsBefore(number_of_ids, keywords) = UNION {NodePaths(n, keywords) : n \in Nodes}
  BY <1>1 DEF PathsBefore
<1>5. own \subseteq Nodes
  OBVIOUS
<1> HIDE DEF own, of, keywords
<1>6. UNION {NodePaths(n, keywords) : n \in Nodes}
        = {<<n, NoAnchor>> : n \in own} \cup UNION {of(n) : n \in Nodes \ own}
  BY <1>3, <1>5
<1> QED BY <1>2, <1>4, <1>6 DEF keywords

LEMMA PathsOfNode ==
  ASSUME NEW id, NEW keywords PROVE \A p \in NodePaths(id, keywords) : p[1] = id
BY DEF NodePaths

LEMMA NodeLists ==
  ASSUME NEW g, NEW id \in Nodes, NEW K, NEW keywords \in Seq(Seq(K))
  PROVE  Lists(PathHits(g, id, keywords), NodePaths(id, keywords))
<1> DEFINE fields == Tree[id].fields
           n      == Len(fields)
           own    == InOrder(Text(id, NoAnchor), keywords)
           hit(i) == InOrder(Text(id, fields[i].name), keywords)
           spot(i) == <<id, fields[i].name>>
           some(i) == {spot(j) : j \in {k \in 1..i : hit(k)}}
           one(i) == <<Result(g, id, NoStack, fields[i].name)>>
           R == FieldResults(g, id)
<1>1. PICK v : FieldWalk(g, id, keywords, v)
  BY FieldSteps, Zenon
<1>2. /\ v \in [0..n -> Seq(R)] /\ v[0] = <<>>
      /\ PathHits(g, id, keywords) = IF test_path(PathTokens[id], keywords)
                                     THEN <<Result(g, id, NoStack, NoAnchor)>> ELSE v[n]
      /\ \A i \in 1..n : v[i] = FieldAdds(g, id, keywords, v[i-1], fields[i].name)
  BY <1>1 DEF FieldWalk
<1>3. /\ n \in Nat /\ DOMAIN fields = 1..n
      /\ \A i, j \in 1..n : fields[i].name = fields[j].name => i = j
      /\ \A i \in 1..n : fields[i] \in ToSet(fields)
  <2>1. fields \in Seq(ToSet(fields))
    BY TreeAssumption
  <2>2. DOMAIN fields = 1..n /\ n \in Nat
    BY <2>1, LenProperties
  <2> QED BY <2>2, NamesAssumption DEF ToSet
<1>4. /\ test_path(PathTokens[id], keywords) <=> own
      /\ \A i \in 1..n :
           test_path(PathTokens[id] \o TokensOf[fields[i].name], keywords) <=> hit(i)
  BY <1>3, TestFinds
<1>5. \A i \in 1..n : one(i) \in Seq(R) /\ Lists(one(i), {spot(i)})
  <2> SUFFICES ASSUME NEW i \in 1..n PROVE one(i) \in Seq(R) /\ Lists(one(i), {spot(i)})
    OBVIOUS
  <2> DEFINE r == Result(g, id, NoStack, fields[i].name)
  <2>1. r \in R
    BY <1>3 DEF FieldResults
  <2>2. Lists(<<r>>, {spot(i)})
    BY ListsOne
  <2> HIDE DEF r, R
  <2>3. <<r>> \in Seq(R)
    BY <2>1
  <2> QED BY <2>2, <2>3 DEF r
<1>6. \A i \in 1..n : v[i] = IF hit(i) THEN v[i-1] \o one(i) ELSE v[i-1]
  <2> SUFFICES ASSUME NEW i \in 1..n PROVE v[i] = IF hit(i) THEN v[i-1] \o one(i) ELSE v[i-1]
    OBVIOUS
  <2> DEFINE r == Result(g, id, NoStack, fields[i].name)
             s == v[i-1]
  <2>1. v[i] = IF hit(i) THEN Append(s, r) ELSE s
    BY <1>2, <1>4 DEF FieldAdds
  <2>2. s \in Seq(R) /\ r \in R
    <3>1. i - 1 \in 0..n
      BY <1>3
    <3> QED BY <1>2, <1>3, <3>1 DEF FieldResults
  <2> HIDE DEF r, s, R, hit
  <2>3. Append(s, r) = s \o <<r>>
    BY <2>2, AppendIsJoin
  <2> QED BY <2>1, <2>3 DEF r, s
<1>7. /\ some(0) = {}
      /\ \A i \in 1..n : /\ some(i) = IF hit(i) THEN some(i-1) \cup {spot(i)} ELSE some(i-1)
                         /\ spot(i) \notin some(i-1)
  <2>1. some(0) = {}
    OBVIOUS
  <2>2. ASSUME NEW i \in 1..n
        PROVE  some(i) = IF hit(i) THEN some(i-1) \cup {spot(i)} ELSE some(i-1)
    <3>1. 1..i = (1..i-1) \cup {i}
      BY <1>3
    <3> HIDE DEF spot, hit
    <3> QED BY <3>1
  <2>3. ASSUME NEW i \in 1..n, NEW j \in 1..i-1 PROVE spot(i) # spot(j)
    BY <1>3
  <2> QED BY <2>1, <2>2, <2>3
<1> DEFINE G == {i \in 0..n : Lists(v[i], some(i))}
<1> HIDE DEF some, spot, one, hit, R
<1>8. 0 \in G
  <2>1. 0 \in 0..n
    BY <1>3
  <2>2. v[0] = <<>> /\ some(0) = {}
    BY <1>2, <1>7
  <2>3. Lists(v[0], some(0))
    BY <2>2, ListsNothing
  <2> QED BY <2>1, <2>3
<1>9. ASSUME NEW i \in 1..n, i - 1 \in G PROVE i \in G
  <2>0. i \in 0..n /\ i - 1 \in 0..n /\ Lists(v[i-1], some(i-1))
    BY <1>3, <1>9
  <2>1. CASE hit(i)
    <3>1. v[i] = v[i-1] \o one(i) /\ some(i) = some(i-1) \cup {spot(i)}
      BY <1>6, <1>7, <2>1
    <3>2. v[i-1] \in Seq(R) /\ one(i) \in Seq(R) /\ Lists(one(i), {spot(i)})
      BY <1>2, <1>5, <2>0
    <3>3. some(i-1) \cap {spot(i)} = {}
      BY <1>7
    <3>4. Lists(v[i-1] \o one(i), some(i-1) \cup {spot(i)})
      BY <2>0, <3>2, <3>3, ListsJoined
    <3> QED BY <2>0, <3>1, <3>4
  <2>2. CASE ~hit(i)
    BY <1>6, <1>7, <2>0, <2>2
  <2> QED BY <2>1, <2>2
<1> HIDE DEF G
<1>10. n \in G
  <2>1. \A i \in 0..n : i \in G
    BY <1>3, <1>8, <1>9, StepInduction, Zenon
  <2> QED BY <1>3, <2>1
<1>11. Lists(v[n], some(n))
  BY <1>10 DEF G
<1>12. some(n) = {<<id, f.name>> : f \in {h \in ToSet(fields) : InOrder(Text(id, h.name), keywords)}}
  <2>1. some(n) = {<<id, fields[k].name>> : k \in {l \in 1..n : InOrder(Text(id, fields[l].name), keywords)}}
    BY DEF some, spot, hit
  <2>2. ToSet(fields) = {fields[k] : k \in 1..n}
    BY <1>3 DEF ToSet
  <2> HIDE DEF n, fields
  <2> QED BY <2>1, <2>2, Zenon
<1>13. CASE own
  BY <1>2, <1>4, <1>13, ListsOne DEF NodePaths
<1>14. CASE ~own
  BY <1>2, <1>4, <1>11, <1>12, <1>14 DEF NodePaths
<1> QED BY <1>13, <1>14

\* A list of places, or of some of them if there is no room for more.
ListsMost(s, S) ==
  /\ IsInjective(Spots(s)) /\ ToSet(Spots(s)) \subseteq S
  /\ Len(s) < MAX_PATH_RESULTS => ToSet(Spots(s)) = S

LEMMA ChunkLists ==
  ASSUME NEW g, NEW first \in Nat, NEW last \in first-1..number_of_ids-1,
         NEW K, NEW keywords \in Seq(Seq(K)),
         NEW T, NEW s \in Seq(T), ListsMost(s, PathsBefore(first, keywords))
  PROVE  ListsMost(s \o Chunk(g, first, last, Len(s), keywords), PathsBefore(last + 1, keywords))
<1> DEFINE n     == Len(s)
           m     == last - first + 1
           R     == ChunkResults(g, first, last, keywords)
           U     == T \cup R
           all(i) == PathsBefore(first + i, keywords)
           own(i) == NodePaths(first + i - 1, keywords)
           hits(i) == PathHits(g, first + i - 1, keywords)
<1>1. PICK v : ChunkWalk(g, first, last, n, keywords, v)
  BY ChunkSteps, Zenon
<1>2. /\ v \in [0..m -> Seq(R)] /\ v[0] = <<>> /\ v[m] = Chunk(g, first, last, n, keywords)
      /\ \A i \in 1..m : v[i] = IF n + Len(v[i-1]) >= MAX_PATH_RESULTS THEN v[i-1]
                                ELSE v[i-1] \o hits(i)
  BY <1>1 DEF ChunkWalk, NodeAdds
<1>3. m \in Nat /\ last + 1 = first + m /\ first = first + 0 /\ n \in Nat /\ s \in Seq(U)
  <2>1. number_of_ids \in Nat
    BY SomeNodes
  <2> QED BY <2>1, LenProperties
<1>4. \A i \in 1..m : first + i - 1 \in Nodes /\ first + i - 1 \in first..last
  <2>1. Cardinality(Nodes) \in Nat /\ Nodes = 0..Cardinality(Nodes)-1
    BY TreeAssumption, FS_CardinalityType
  <2> QED BY <2>1 DEF number_of_ids
<1>5. \A i \in 1..m : hits(i) \in Seq(U) /\ Lists(hits(i), own(i))
  <2> SUFFICES ASSUME NEW i \in 1..m PROVE hits(i) \in Seq(U) /\ Lists(hits(i), own(i))
    OBVIOUS
  <2>1. hits(i) \in Seq(ToSet(hits(i)))
    BY <1>4, PathHitsFound DEF Found
  <2>2. ToSet(hits(i)) \subseteq R
    BY <1>4 DEF ChunkResults
  <2>3. Lists(hits(i), own(i))
    BY <1>4, NodeLists
  <2> HIDE DEF hits, R
  <2> QED BY <2>1, <2>2, <2>3
<1>6. \A i \in 1..m : all(i) = all(i-1) \cup own(i) /\ all(i-1) \cap own(i) = {}
  <2> SUFFICES ASSUME NEW i \in 1..m
               PROVE  all(i) = all(i-1) \cup own(i) /\ all(i-1) \cap own(i) = {}
    OBVIOUS
  <2> DEFINE k == first + i - 1
  <2>1. k \in Nat /\ 0..k = (0..k-1) \cup {k} /\ first + i - 1 = k /\ first + (i - 1) = k
    BY <1>3
  <2>2. \A j \in 0..k-1 : \A p \in NodePaths(j, keywords) : p[1] = j
    BY PathsOfNode
  <2>3. \A p \in NodePaths(k, keywords) : p[1] = k
    BY PathsOfNode
  <2>4. k \notin 0..k-1
    BY <2>1
  <2>5. all(i) = UNION {NodePaths(j, keywords) : j \in 0..k}
    BY DEF PathsBefore
  <2>6. all(i-1) = UNION {NodePaths(j, keywords) : j \in 0..k-1}
    BY <2>1 DEF PathsBefore
  <2>7. own(i) = NodePaths(k, keywords)
    OBVIOUS
  <2> HIDE DEF k, all, own
  <2>8. all(i) = all(i-1) \cup own(i)
    BY <2>1, <2>5, <2>6, <2>7
  <2>9. all(i-1) \cap own(i) = {}
    BY <2>2, <2>3, <2>4, <2>6, <2>7
  <2> QED BY <2>8, <2>9
<1>7. MAX_PATH_RESULTS \in Nat
  BY SearchAssumption
<1>8. all(0) = PathsBefore(first, keywords) /\ all(m) = PathsBefore(last + 1, keywords)
  BY <1>3
<1> DEFINE G == {i \in 0..m : ListsMost(s \o v[i], all(i))}
<1> HIDE DEF all, own, hits, R, U, m, n
<1>9. 0 \in G
  <2>1. s \o <<>> = s
    OBVIOUS
  <2>2. 0 \in 0..m
    BY <1>3
  <2> QED BY <1>2, <1>8, <2>1, <2>2
<1>10. ASSUME NEW i \in 1..m, i - 1 \in G PROVE i \in G
  <2> DEFINE before == s \o v[i-1]
  <2>1. i \in 0..m /\ i - 1 \in 0..m /\ ListsMost(before, all(i-1))
    BY <1>3, <1>10
  <2>2. v[i-1] \in Seq(R) /\ R \subseteq U
    BY <1>2, <2>1 DEF U
  <2>3. v[i-1] \in Seq(U)
    BY <2>2
  <2>4. before \in Seq(U) /\ Len(before) = n + Len(v[i-1])
    BY <1>3, <2>3, ConcatProperties DEF n
  <2>5. Len(before) \in Nat
    BY <2>4, LenProperties
  <2>6. CASE Len(before) >= MAX_PATH_RESULTS
    <3>1. v[i] = v[i-1]
      BY <1>2, <2>4, <2>6
    <3>2. all(i-1) \subseteq all(i)
      BY <1>6
    <3> HIDE DEF before
    <3>3. ListsMost(before, all(i))
      BY <1>7, <2>1, <2>5, <2>6, <3>2 DEF ListsMost
    <3> QED BY <2>1, <3>1, <3>3 DEF before
  <2>7. CASE ~(Len(before) >= MAX_PATH_RESULTS)
    <3>1. v[i] = v[i-1] \o hits(i)
      BY <1>2, <2>4, <2>7
    <3>2. s \o v[i] = before \o hits(i)
      <4>1. s \in Seq(U) /\ hits(i) \in Seq(U)
        BY <1>3, <1>5
      <4>2. (s \o v[i-1]) \o hits(i) = s \o (v[i-1] \o hits(i))
        <5>1. \A a, b, c \in Seq(U) : (a \o b) \o c = a \o (b \o c)
          BY ONLY ConcatAssociative
        <5> QED BY <2>3, <4>1, <5>1, ZenonT(60)
      <4> QED BY <3>1, <4>2, Zenon
    <3> HIDE DEF before
    <3>3. Lists(before, all(i-1))
      BY <1>7, <2>1, <2>5, <2>7 DEF ListsMost, Lists
    <3>4. Lists(before \o hits(i), all(i-1) \cup own(i))
      BY <1>5, <1>6, <2>4, <3>3, ListsJoined
    <3>5. Lists(before \o hits(i), all(i))
      BY <1>6, <3>4
    <3>6. ListsMost(before \o hits(i), all(i))
      BY <3>5 DEF Lists, ListsMost
    <3> QED BY <2>1, <3>2, <3>6
  <2> QED BY <2>6, <2>7
<1> HIDE DEF G
<1>11. m \in G
  <2>1. \A i \in 0..m : i \in G
    BY <1>3, <1>9, <1>10, StepInduction, Zenon
  <2> QED BY <1>3, <2>1
<1>12. ListsMost(s \o v[m], all(m))
  BY <1>11 DEF G
<1> QED BY <1>2, <1>8, <1>12 DEF n

-----------------------------------------------------------------------------
(* The matches in the index.                                               *)

\* The places that every keyword leads to.
Agreed(keywords) == {p \in Places : \A k \in ToSet(keywords) : LeadsTo(k, p)}

\* The ranking lists each of them once.
LEMMA RankedAgreed ==
  ASSUME NEW T, NEW keywords \in Seq(T), keywords # <<>>
  PROVE  LET places == Ranked(Locations(keywords), keywords)
         IN  /\ places \in Seq(Places) /\ IsInjective(places)
             /\ ToSet(places) = Agreed(keywords)
<1> DEFINE found == Locations(keywords)
           R     == LocationsOf(keywords)
           at(p, full)  == {l.keyword : l \in {m \in ToSet(found) : m.place = p /\ m.full \in full}}
           whole(p)     == Cardinality(at(p, {TRUE}))
           begun(p)     == Cardinality(at(p, {FALSE}))
           before(p, q) == whole(p) > whole(q) \/ (whole(p) = whole(q) /\ begun(p) >= begun(q))
           ahead(places, p) == {i \in DOMAIN places : before(places[i], p)}
           skipped(places, l) == l.place \in ToSet(places) \/ at(l.place, BOOLEAN) # ToSet(keywords)
           op(places, l) == IF skipped(places, l) THEN places
                            ELSE InsertAt(places, 1 + Cardinality(ahead(places, l.place)), l.place)
           good(l) == l.place \in Agreed(keywords)
           n    == Len(found)
           D    == DOMAIN found
           A    == Seq(Places)
           P(h) == h = [s \in SUBSET D |-> IF s = {} THEN <<>>
                          ELSE LET x == Max(s) IN op(h[s \ {x}], found[x])]
           it   == CHOOSE h : P(h)
           F    == [p \in A \X D |-> op(p[1], found[p[2]])]
<1>1. Ranked(found, keywords) = it[D]
  BY DEF Ranked, FoldLeft, MapThenFoldSet
<1>2. /\ found \in Seq(R)
      /\ \A k \in ToSet(keywords) : \A p : LeadsTo(k, p) =>
           \E l \in ToSet(found) : l.keyword = k /\ l.place = p
  BY LocationsTyped
<1> HIDE DEF found
<1>3. n \in Nat /\ D = 1..n /\ \A i \in D : found[i] \in R /\ found[i] \in ToSet(found)
  BY <1>2, LenProperties, ElementOfSeq DEF ToSet
<1>4. D \in SUBSET Nat /\ IsFiniteSet(D)
  BY <1>3, Interval
<1>5. \A l \in ToSet(found) : /\ l.keyword \in ToSet(keywords) /\ l.full \in BOOLEAN
                              /\ l.place \in Places /\ LeadsTo(l.keyword, l.place)
                              /\ \E i \in D : found[i] = l
  BY <1>3 DEF ToSet, LocationsOf
<1>6. \A p \in Places : at(p, BOOLEAN) = ToSet(keywords) <=> p \in Agreed(keywords)
  <2> SUFFICES ASSUME NEW p \in Places
               PROVE  at(p, BOOLEAN) = ToSet(keywords) <=> p \in Agreed(keywords)
    OBVIOUS
  <2>1. at(p, BOOLEAN) = {k \in ToSet(keywords) : LeadsTo(k, p)}
    <3>1. ASSUME NEW l \in ToSet(found), l.place = p
          PROVE  l.keyword \in ToSet(keywords) /\ LeadsTo(l.keyword, p)
      BY <1>5, <3>1
    <3>2. ASSUME NEW k \in ToSet(keywords), LeadsTo(k, p) PROVE k \in at(p, BOOLEAN)
      <4>1. PICK l \in ToSet(found) : l.keyword = k /\ l.place = p
        BY <1>2, <3>2
      <4>2. l.full \in BOOLEAN
        BY <1>5
      <4> QED BY <4>1, <4>2
    <3> QED BY <3>1, <3>2
  <2> HIDE DEF at
  <2> QED BY <2>1 DEF Agreed
<1>7. \A a \in A : \A x \in D :
        skipped(a, found[x]) <=> found[x].place \in ToSet(a) \/ ~good(found[x])
  <2> SUFFICES ASSUME NEW a \in A, NEW x \in D
               PROVE skipped(a, found[x]) <=> found[x].place \in ToSet(a) \/ ~good(found[x])
    OBVIOUS
  <2>1. found[x].place \in Places
    BY <1>3, <1>5
  <2> HIDE DEF at, A
  <2> QED BY <1>6, <2>1
<1>8. \A a \in A : \A p : ahead(a, p) \in SUBSET DOMAIN a
  OBVIOUS
<1>9. \A x \in D : found[x].place \in Places
  BY <1>3, <1>5
<1> HIDE DEF ahead, skipped, D, n, R, at
<1>10. \A a \in A : \A x \in D :
         /\ op(a, found[x]) \in A
         /\ IsInjective(a) =>
              /\ IsInjective(op(a, found[x]))
              /\ ToSet(op(a, found[x])) =
                   IF good(found[x]) THEN ToSet(a) \cup {found[x].place} ELSE ToSet(a)
  <2> SUFFICES ASSUME NEW a \in A, NEW x \in D
               PROVE  /\ op(a, found[x]) \in A
                      /\ IsInjective(a) =>
                           /\ IsInjective(op(a, found[x]))
                           /\ ToSet(op(a, found[x])) =
                                IF good(found[x]) THEN ToSet(a) \cup {found[x].place} ELSE ToSet(a)
    OBVIOUS
  <2> DEFINE p == found[x].place
             C == ahead(a, p)
             more == InsertAt(a, 1 + Cardinality(C), p)
  <2>1. C \in SUBSET DOMAIN a /\ p \in Places
    BY <1>8, <1>9
  <2>2. skipped(a, found[x]) <=> p \in ToSet(a) \/ ~good(found[x])
    BY <1>7
  <2>3. op(a, found[x]) = IF skipped(a, found[x]) THEN a ELSE more
    OBVIOUS
  <2> HIDE DEF C, op
  <2>4. more \in A
    BY <2>1, InsertTyped
  <2>5. ASSUME IsInjective(a), p \notin ToSet(a)
        PROVE  IsInjective(more) /\ ToSet(more) = ToSet(a) \cup {p}
    BY <2>1, <2>5, InsertOnce
  <2> HIDE DEF more, A
  <2>6. CASE skipped(a, found[x])
    BY <2>2, <2>3, <2>6
  <2>7. CASE ~skipped(a, found[x])
    BY <2>2, <2>3, <2>4, <2>5, <2>7
  <2> QED BY <2>6, <2>7
<1>11. <<>> \in A
  OBVIOUS
<1> HIDE DEF op, A, good
<1>12. F \in [A \X D -> A]
  BY <1>10
<1> HIDE DEF F
<1>13. PICK k \in [SUBSET D -> A] : FoldOf(D, F, <<>>, k)
  BY <1>4, <1>11, <1>12, FoldRecursion
<1>14. ASSUME NEW s \in SUBSET D, s # {} PROVE Max(s) \in D /\ s \ {Max(s)} \in SUBSET D /\ Max(s) \in s
  BY <1>4, <1>14, FS_Subset, GreatestMember
<1>15. P(k)
  <2> SUFFICES ASSUME NEW s \in SUBSET D, s # {}
               PROVE  FoldStep(F, <<>>, k, s) = op(k[s \ {Max(s)}], found[Max(s)])
    BY <1>13 DEF FoldOf, FoldStep
  <2>1. <<k[s \ {Max(s)}], Max(s)>> \in A \X D
    BY <1>13, <1>14
  <2> QED BY <2>1 DEF FoldStep, F
<1>16. P(it)
  BY <1>15
<1> HIDE DEF it
<1> DEFINE goods(s) == {found[i].place : i \in {j \in s : good(found[j])}}
           H == {s \in SUBSET D : it[s] \in A /\ IsInjective(it[s]) /\ ToSet(it[s]) = goods(s)}
<1>17. {} \in H
  <2>1. it[{}] = <<>>
    BY <1>16
  <2>2. goods({}) = {} /\ {} \in SUBSET D
    OBVIOUS
  <2> HIDE DEF goods
  <2> QED BY <1>11, <2>1, <2>2, OnceNothing
<1>18. ASSUME NEW s \in SUBSET D, s # {}, s \ {Max(s)} \in H PROVE s \in H
  <2> DEFINE x == Max(s)
             r == s \ {Max(s)}
  <2>1. it[s] = op(it[r], found[x])
    BY <1>16, <1>18
  <2>2. it[r] \in A /\ IsInjective(it[r]) /\ ToSet(it[r]) = goods(r)
    BY <1>18
  <2>3. s = r \cup {x} /\ x \in D
    BY <1>14, <1>18
  <2> HIDE DEF x, r
  <2>4. goods(s) = IF good(found[x]) THEN goods(r) \cup {found[x].place} ELSE goods(r)
    BY <2>3
  <2> HIDE DEF goods
  <2>5. /\ op(it[r], found[x]) \in A /\ IsInjective(op(it[r], found[x]))
        /\ ToSet(op(it[r], found[x])) =
             IF good(found[x]) THEN ToSet(it[r]) \cup {found[x].place} ELSE ToSet(it[r])
    BY <1>10, <2>2, <2>3
  <2> QED BY <2>1, <2>2, <2>4, <2>5
<1> HIDE DEF H
<1>19. \A s \in SUBSET D : s \in H
  <2> DEFINE g == [s \in SUBSET D |-> s]
  <2>1. g[{}] \in H
    BY <1>17
  <2>2. ASSUME NEW s \in SUBSET D, s # {} /\ g[s \ {Max(s)}] \in H PROVE g[s] \in H
    BY <1>14, <1>18, <2>2
  <2> HIDE DEF g
  <2>3. \A s \in SUBSET D : g[s] \in H
    BY <1>4, <2>1, <2>2, FoldStays
  <2> QED BY <2>3 DEF g
<1>20. it[D] \in A /\ IsInjective(it[D]) /\ ToSet(it[D]) = goods(D)
  BY <1>19 DEF H
<1>21. goods(D) = Agreed(keywords)
  <2>1. goods(D) \subseteq Agreed(keywords)
    BY DEF good
  <2>2. ASSUME NEW p \in Agreed(keywords) PROVE p \in goods(D)
    <3>1. PICK w \in ToSet(keywords) : TRUE
      <4>1. DOMAIN keywords = 1..Len(keywords) /\ Len(keywords) \in Nat /\ Len(keywords) # 0
        BY LenProperties, EmptySeq
      <4>2. 1 \in DOMAIN keywords
        BY <4>1
      <4> QED BY <4>2 DEF ToSet
    <3>2. PICK l \in ToSet(found) : l.keyword = w /\ l.place = p
      BY <1>2 DEF Agreed
    <3>3. PICK i \in D : found[i] = l
      BY <1>5
    <3> QED BY <3>2, <3>3 DEF good
  <2> QED BY <2>1, <2>2
<1> QED BY <1>1, <1>20, <1>21 DEF A, found

\* What the index answers: places that every keyword leads to, each once, as many as there
\* are or as many as there is room for.
Spot(p) == <<p.id, p.field>>

LEMMA AgreedPlaces ==
  ASSUME NEW query, ToSet(Indexed(query)) # {}
  PROVE  PlacesOf(query) = {Spot(p) : p \in Agreed(Indexed(query))}
<1> DEFINE K == ToSet(Indexed(query))
           at(k) == UNION {{<<l.id, l.field>> : l \in ToSet(w.at)} :
                      w \in {v \in ToSet(Index) : k \in v.begins}}
<1>1. PlacesOf(query) = {x \in UNION {at(k) : k \in K} : \A k \in K : x \in at(k)}
  BY DEF PlacesOf
<1>2. \A l : Spot(Place(l)) = <<l.id, l.field>>
  BY DEF Spot, Place
<1>3. \A w \in ToSet(Index) : \A l \in ToSet(w.at) : Place(l) \in Places
  BY DEF Places, Place
<1>4. \A p \in Places : \E l : p = Place(l)
  BY DEF Places, Place
<1>5. \A p, q \in Places : Spot(p) = Spot(q) => p = q
  BY <1>4 DEF Spot, Place
<1>6. ASSUME NEW k, NEW x PROVE x \in at(k) <=> \E p \in Places : LeadsTo(k, p) /\ x = Spot(p)
  <2>1. x \in at(k) <=> \E w \in ToSet(Index) : k \in w.begins
                           /\ \E l \in ToSet(w.at) : x = <<l.id, l.field>>
    OBVIOUS
  <2> HIDE DEF at
  <2>2. ASSUME x \in at(k) PROVE \E p \in Places : LeadsTo(k, p) /\ x = Spot(p)
    <3>1. PICK w \in ToSet(Index) : k \in w.begins /\ \E l \in ToSet(w.at) : x = <<l.id, l.field>>
      BY <2>1, <2>2
    <3>2. PICK l \in ToSet(w.at) : x = <<l.id, l.field>>
      BY <3>1
    <3>3. LeadsTo(k, Place(l))
      BY <3>1 DEF LeadsTo
    <3> QED BY <1>2, <1>3, <3>2, <3>3
  <2>3. ASSUME NEW p \in Places, LeadsTo(k, p), x = Spot(p) PROVE x \in at(k)
    <3>1. PICK w \in ToSet(Index) : k \in w.begins /\ \E l \in ToSet(w.at) : p = Place(l)
      BY <2>3 DEF LeadsTo
    <3>2. PICK l \in ToSet(w.at) : p = Place(l)
      BY <3>1
    <3>3. x = <<l.id, l.field>>
      BY <1>2, <2>3, <3>2
    <3> QED BY <2>1, <3>1, <3>3
  <2> QED BY <2>2, <2>3
<1> HIDE DEF at, K
<1>7. ASSUME NEW x \in PlacesOf(query) PROVE \E p \in Agreed(Indexed(query)) : x = Spot(p)
  <2>1. PICK j \in K : TRUE
    BY DEF K
  <2>2. \A k \in K : \E p \in Places : LeadsTo(k, p) /\ x = Spot(p)
    BY <1>1, <1>6
  <2>3. PICK p \in Places : LeadsTo(j, p) /\ x = Spot(p)
    BY <2>2
  <2>4. \A k \in K : LeadsTo(k, p)
    BY <1>5, <2>2, <2>3
  <2> QED BY <2>3, <2>4 DEF Agreed, K
<1>8. ASSUME NEW p \in Agreed(Indexed(query)) PROVE Spot(p) \in PlacesOf(query)
  <2>1. p \in Places /\ \A k \in K : LeadsTo(k, p)
    BY DEF Agreed, K
  <2>2. \A k \in K : Spot(p) \in at(k)
    BY <1>6, <2>1
  <2> QED BY <1>1, <2>2 DEF K
<1> QED BY <1>7, <1>8

LEMMA SpotApart == \A p, q \in Places : Spot(p) = Spot(q) => p = q
<1>1. \A p \in Places : p = [id |-> p.id, field |-> p.field]
  BY DEF Places
<1> QED BY <1>1 DEF Spot

LEMMA MatchesAgreed ==
  ASSUME NEW T, NEW query, Indexed(query) \in Seq(T), Indexed(query) # <<>>
  PROVE  LET m == get_matches(Indexed(query))
         IN  /\ m \in Seq(Places) /\ IsInjective(m)
             /\ \A i \in DOMAIN m : Spot(m[i]) \in PlacesOf(query)
             /\ Len(m) = Min({Cardinality(PlacesOf(query)), MAX_CONTENT_RESULTS})
<1> DEFINE keywords == Indexed(query)
           places == Ranked(Locations(keywords), keywords)
           m      == get_matches(keywords)
           n      == Min({Len(places), MAX_CONTENT_RESULTS})
           spots  == [i \in DOMAIN places |-> Spot(places[i])]
           S      == {Spot(p) : p \in Places}
<1>1. places \in Seq(Places) /\ IsInjective(places) /\ ToSet(places) = Agreed(keywords)
  BY RankedAgreed
<1>2. m = SubSeq(places, 1, n)
  BY DEF get_matches
<1>3. PlacesOf(query) = {Spot(p) : p \in Agreed(keywords)}
  <2>1. DOMAIN keywords = 1..Len(keywords) /\ Len(keywords) \in Nat /\ Len(keywords) # 0
    BY LenProperties, EmptySeq
  <2>2. 1 \in DOMAIN keywords
    BY <2>1
  <2>3. ToSet(keywords) # {}
    BY <2>2 DEF ToSet
  <2> QED BY <2>3, AgreedPlaces
<1> HIDE DEF places, keywords, m
<1>4. DOMAIN places = 1..Len(places) /\ Len(places) \in Nat /\ \A i \in DOMAIN places : places[i] \in Places
  BY <1>1, LenProperties, ElementOfSeq
<1>5. n \in 0..Len(places)
  <2> DEFINE U == {Len(places), MAX_CONTENT_RESULTS}
  <2>1. U \in SUBSET Nat /\ U # {} /\ Len(places) \in U
    BY <1>4, SearchAssumption
  <2> HIDE DEF U
  <2>2. PICK k \in U : \A j \in U : k <= j
    BY <2>1, LeastMember
  <2>3. Min(U) \in U /\ Min(U) <= Len(places)
    BY <2>1, <2>2 DEF Min
  <2> QED BY <2>1, <2>3 DEF U
<1>6. spots \in Seq(S) /\ Len(spots) = Len(places) /\ IsInjective(spots)
      /\ ToSet(spots) = PlacesOf(query)
  <2>1. /\ DOMAIN spots = 1..Len(places)
        /\ \A i \in 1..Len(places) : spots[i] = Spot(places[i])
        /\ spots = [i \in 1..Len(places) |-> spots[i]]
    BY <1>4
  <2>2. \A i \in 1..Len(places) : spots[i] \in S
    BY <1>4, <2>1
  <2> HIDE DEF spots, S
  <2>3. spots \in Seq(S)
    <3>1. Len(places) \in Nat
      BY <1>4
    <3> QED BY <2>1, <2>2, <3>1
  <2>4. Len(spots) = Len(places)
    BY <1>4, <2>1, <2>3, LenProperties
  <2>5. IsInjective(spots)
    BY <1>1, <1>4, <2>1, SpotApart DEF IsInjective
  <2>6. ToSet(spots) = PlacesOf(query)
    <3>1. ToSet(places) = {places[i] : i \in 1..Len(places)}
      BY <1>4 DEF ToSet
    <3>2. ToSet(spots) = {Spot(places[i]) : i \in 1..Len(places)}
      BY <2>1 DEF ToSet
    <3> QED BY <1>1, <1>3, <3>1, <3>2
  <2> QED BY <2>3, <2>4, <2>5, <2>6
<1> HIDE DEF spots, S
<1>7. Cardinality(PlacesOf(query)) = Len(places)
  BY <1>6, OnceCounts
<1>8. n = Min({Cardinality(PlacesOf(query)), MAX_CONTENT_RESULTS})
  BY <1>7
<1> HIDE DEF n
<1>9. m \in Seq(Places) /\ Len(m) = n /\ DOMAIN m = 1..n /\ \A i \in 1..n : m[i] = places[i]
  <2>1. n \in Nat /\ n <= Len(places) /\ \A i \in 1..n : i \in 1..Len(places)
    BY <1>4, <1>5
  <2>2. \A i \in 1..n : places[i] \in Places
    BY <1>4, <2>1
  <2>3. /\ m \in Seq(Places) /\ Len(m) = (IF 1 <= n THEN n-1+1 ELSE 0)
        /\ \A i \in 1..n-1+1 : m[i] = places[1+i-1]
    BY <1>2, <2>1, <2>2, SubSeqProperties
  <2>4. Len(m) = n
    BY <2>1, <2>3
  <2>5. DOMAIN m = 1..n
    BY <2>3, <2>4, LenProperties
  <2>6. ASSUME NEW i \in 1..n PROVE m[i] = places[i]
    <3>1. i \in 1..n-1+1 /\ 1+i-1 = i
      BY <2>1
    <3> QED BY <2>3, <3>1
  <2> QED BY <2>3, <2>4, <2>5, <2>6
<1>10. \A i \in 1..n : i \in DOMAIN places
  BY <1>4, <1>5
<1>11. IsInjective(m)
  BY <1>1, <1>9, <1>10 DEF IsInjective
<1>12. \A i \in 1..n : Spot(m[i]) \in PlacesOf(query)
  BY <1>1, <1>3, <1>9, <1>10 DEF ToSet
<1> QED BY <1>8, <1>9, <1>11, <1>12 DEF m, keywords

-----------------------------------------------------------------------------
(* What the latest search has listed so far.                               *)

\* The paths that match: only words are looked for in paths.
Paths(query) == IF query.kind = "words" THEN PathsOf(query) ELSE {}

PreviewsListed(run, s) ==
  \E p, t : /\ Split(s, p, t, run.found) /\ ListsMost(p, Paths(run.query))
            /\ Len(t) = run.at - 1
            /\ \A i \in 1..Len(t) : Spots(t)[i] = Spot(run.matches[i])
AllListed(run, s) ==
  \E p, t : /\ Split(s, p, t, run.found) /\ ListsMost(p, Paths(run.query))
            /\ IsInjective(Spots(t)) /\ ToSet(Spots(t)) \subseteq PlacesOf(run.query)
            /\ Len(t) = Min({Cardinality(PlacesOf(run.query)), MAX_CONTENT_RESULTS})

RunListed(run, s) ==
  /\ run.phase = "path" =>
       /\ run.query.kind = "words" /\ run.found = Len(s)
       /\ ListsMost(s, PathsBefore(run.at, run.query.keywords))
  /\ run.phase \in {"fetch", "match"} =>
       run.found = Len(s) /\ ListsMost(s, Paths(run.query)) /\ Indexed(run.query) # <<>>
  /\ run.phase = "preview" =>
       /\ Indexed(run.query) # <<>> /\ run.matches = get_matches(Indexed(run.query))
       /\ PreviewsListed(run, s)
  /\ run.phase = "done" => AllListed(run, s)
  /\ run.need # {} => run.phase \in {"fetch", "failed"}

\* The latest search has not been told to stop, and has listed all that it should have.
ListInv ==
  /\ controller \notin aborted /\ aborted \subseteq 1..started
  /\ \A g \in 1..MaxSearches : /\ g > started => runs[g] = NoRun
                               /\ g = controller => RunListed(runs[g], results)

LEMMA ListStart == SearchInit => ListInv
BY SearchAssumption DEF SearchInit, ListInv

LEMMA NoRunListed == ASSUME NEW s PROVE RunListed(NoRun, s)
BY DEF NoRun, Run, RunListed

LEMMA MostOfNothing == ListsMost(<<>>, {})
BY ListsNothing DEF Lists, ListsMost

\* A search whose paths are complete goes on with the index, if the query has words for it.
LEMMA ContentListed ==
  ASSUME NEW query, QueryOK(query), NEW T, NEW s \in Seq(T), ListsMost(s, Paths(query))
  PROVE  RunListed(StartContent(query, Len(s)), s)
<1> DEFINE keywords == Indexed(query)
           buckets  == {Bucket(k) : k \in ToSet(keywords)}
           run      == StartContent(query, Len(s))
<1>1. CASE buckets = {}
  <2>1. run = Run("done", query, 0, Len(s))
    BY <1>1 DEF StartContent
  <2>2. /\ run.phase = "done" /\ run.need = {} /\ run.query = query /\ run.found = Len(s)
    BY <2>1 DEF Run
  <2>3. PlacesOf(query) = {}
    <3>1. ToSet(keywords) = {}
      BY <1>1
    <3> QED BY <3>1 DEF PlacesOf
  <2> HIDE DEF run
  <2>4. Cardinality({}) = 0 /\ MAX_CONTENT_RESULTS \in Nat
    BY FS_EmptySet, SearchAssumption
  <2>5. Split(s, s, <<>>, Len(s))
    BY PartsWhole
  <2>6. Spots(<<>>) = <<>> /\ Len(<<>>) = 0
    BY DEF Spots
  <2>7. IsInjective(Spots(<<>>)) /\ ToSet(Spots(<<>>)) \subseteq PlacesOf(query)
    BY <2>6, OnceNothing
  <2>8. Len(<<>>) = Min({Cardinality(PlacesOf(query)), MAX_CONTENT_RESULTS})
    BY <2>3, <2>4, <2>6, NothingLess
  <2>9. AllListed(run, s)
    BY <2>2, <2>5, <2>7, <2>8, Zenon DEF AllListed
  <2> QED BY <2>2, <2>9 DEF RunListed, run
<1>2. CASE buckets # {}
  <2>1. /\ run.phase \in {"fetch", "match"} /\ run.query = query /\ run.found = Len(s)
        /\ run.need # {} => run.phase = "fetch"
    BY <1>2 DEF StartContent, Run
  <2>2. keywords # <<>>
    <3>1. ToSet(keywords) # {}
      BY <1>2
    <3> QED BY <3>1, OnceNothing
  <2> HIDE DEF run, keywords
  <2> QED BY <2>1, <2>2 DEF RunListed, keywords, run
<1> QED BY <1>1, <1>2

\* It leaves the paths at the end, or with no more room.
LEMMA ScannedListed ==
  ASSUME NEW query, QueryOK(query), query.kind = "words", NEW at \in 0..number_of_ids,
         NEW T, NEW s \in Seq(T), ListsMost(s, PathsBefore(at, query.keywords))
  PROVE  RunListed(Scanned(query, at, Len(s)), s)
<1> DEFINE run == Scanned(query, at, Len(s))
<1>1. CASE at = number_of_ids \/ Len(s) >= MAX_PATH_RESULTS
  <2>1. run = StartContent(query, Len(s))
    BY <1>1 DEF Scanned
  <2>2. PathsBefore(at, query.keywords) \subseteq Paths(query)
    <3>1. Paths(query) = PathsBefore(number_of_ids, query.keywords)
      BY AllPaths DEF Paths
    <3>2. 0..at-1 \subseteq 0..number_of_ids-1
      BY SomeNodes
    <3> QED BY <3>1, <3>2 DEF PathsBefore
  <2>3. at = number_of_ids => PathsBefore(at, query.keywords) = Paths(query)
    BY AllPaths DEF Paths
  <2>4. Len(s) \in Nat /\ MAX_PATH_RESULTS \in Nat
    BY LenProperties, SearchAssumption
  <2> HIDE DEF run
  <2>5. ListsMost(s, Paths(query))
    BY <1>1, <2>2, <2>3, <2>4 DEF ListsMost
  <2> QED BY <2>1, <2>5, ContentListed DEF run
<1>2. CASE ~(at = number_of_ids \/ Len(s) >= MAX_PATH_RESULTS)
  <2>1. run = Run("path", query, at, Len(s))
    BY <1>2 DEF Scanned
  <2>2. /\ run.phase = "path" /\ run.query = query /\ run.at = at /\ run.found = Len(s)
        /\ run.need = {}
    BY <2>1 DEF Run
  <2> HIDE DEF run
  <2> QED BY <2>2 DEF RunListed, run
<1> QED BY <1>1, <1>2

\* A search that is started.
LEMMA StartLists ==
  ASSUME SearchInv, ListInv, NEW query, QueryOK(query), start_search(query) PROVE ListInv'
<1> DEFINE g    == started + 1
           last == NextBreak(0) - 1
<1>1. g \in Nat /\ started' = g /\ controller' = g /\ g \in 1..MaxSearches
  BY SearchAssumption DEF start_search, SearchInv
<1>2. aborted' = aborted \cup ({controller} \ {0}) /\ controller \in {0, started} /\ started \in Nat
  BY DEF start_search, SearchInv
<1>3. last \in 0-1..number_of_ids-1 /\ last + 1 \in 0..number_of_ids
  BY BreakAhead, SomeNodes
<1>4. controller' \notin aborted' /\ aborted' \subseteq 1..started'
  <2>1. aborted \subseteq 1..started
    BY DEF ListInv
  <2> QED BY <1>1, <1>2, <2>1
<1>5. /\ \A h \in 1..MaxSearches : h # g => runs'[h] = runs[h]
      /\ RunListed(runs'[g], results')
  <2>0. runs[g] = NoRun /\ DOMAIN runs = 1..MaxSearches
    BY <1>1, <1>2 DEF ListInv, SearchInv
  <2> HIDE DEF g, last
  <2>1. CASE query.kind = "empty" \/ query.kind = "address"
    <3>1. UNCHANGED runs
      BY <2>1 DEF start_search
    <3> QED BY <2>0, <3>1, NoRunListed
  <2>2. CASE query.kind = "short"
    <3>1. results' = <<>> /\ runs' = [runs EXCEPT ![g] = StartContent(query, 0)]
      BY <2>2 DEF start_search, g
    <3>2. ListsMost(<<>>, Paths(query)) /\ <<>> \in Seq({}) /\ Len(<<>>) = 0
      BY <2>2, MostOfNothing DEF Paths
    <3>3. RunListed(StartContent(query, 0), <<>>)
      BY <3>2, ContentListed
    <3> QED BY <1>1, <2>0, <3>1, <3>3
  <2>3. CASE query.kind = "words"
    <3>1. PICK hits \in {Chunk(g, 0, last, 0, query.keywords)} :
               /\ results' = hits
               /\ runs' = [runs EXCEPT ![g] = Scanned(query, last + 1, Len(hits))]
      BY <2>3 DEF start_search, g, last
    <3>2. hits \in Seq(ToSet(hits))
      BY <1>3, <3>1, ChunkFound DEF Found
    <3>3. ListsMost(hits, PathsBefore(last + 1, query.keywords))
      <4>1. query.keywords \in Seq(Seq(Tokens))
        BY DEF QueryOK
      <4>2. <<>> \in Seq({}) /\ Len(<<>>) = 0 /\ ListsMost(<<>>, PathsBefore(0, query.keywords))
        <5>1. PathsBefore(0, query.keywords) = {}
          BY DEF PathsBefore
        <5>2. ListsMost(<<>>, PathsBefore(0, query.keywords))
          BY <5>1, MostOfNothing
        <5>3. <<>> \in Seq({}) /\ Len(<<>>) = 0
          OBVIOUS
        <5> QED BY <5>2, <5>3
      <4>3. ListsMost(<<>> \o Chunk(g, 0, last, 0, query.keywords), PathsBefore(last + 1, query.keywords))
        BY <1>3, <4>1, <4>2, ChunkLists
      <4>4. <<>> \o hits = hits
        BY <3>2, ConcatEmptySeq
      <4> QED BY <3>1, <4>3, <4>4
    <3>4. RunListed(Scanned(query, last + 1, Len(hits)), hits)
      BY <1>3, <2>3, <3>2, <3>3, ScannedListed
    <3> QED BY <1>1, <2>0, <3>1, <3>4
  <2> QED BY <2>1, <2>2, <2>3 DEF QueryOK
<1>6. \A h \in 1..MaxSearches : h > g => h > started /\ h # g
  BY <1>1, <1>2
<1> QED BY <1>1, <1>4, <1>5, <1>6 DEF ListInv

LEMMA OpenLists ==
  ASSUME SearchInv, ListInv, NEW query, QueryOK(query), open_search(query) PROVE ListInv'
<1>1. CASE query = NoQuery
  <2>1. /\ results' = <<>> /\ ~active
        /\ UNCHANGED <<controller, started, aborted, runs>>
    BY <1>1 DEF open_search
  <2>2. \A g \in 1..MaxSearches : g # controller
    BY <2>1 DEF SearchInv
  <2> QED BY <2>1, <2>2 DEF ListInv
<1>2. CASE query # NoQuery
  BY <1>2, StartLists DEF open_search
<1> QED BY <1>1, <1>2

LEMMA CloseLists == ASSUME SearchInv, ListInv, close_search PROVE ListInv'
<1>1. /\ controller' = 0 /\ aborted' = aborted \cup ({controller} \ {0})
      /\ UNCHANGED <<started, runs>>
  BY DEF close_search
<1>2. controller \in {0, started} /\ started \in Nat /\ aborted \subseteq 1..started
  BY DEF SearchInv, ListInv
<1>3. aborted' \subseteq 1..started
  BY <1>1, <1>2
<1>4. 0 \notin aborted' /\ 0 \notin 1..MaxSearches
  BY <1>3
<1> QED BY <1>1, <1>3, <1>4 DEF ListInv

LEMMA SelectLists == ASSUME ListInv, NEW i, Select(i) PROVE ListInv'
BY DEF Select, ListInv

\* A search that wakes up writes only if it is the latest.
LEMMA BecameLists ==
  ASSUME SearchInv, ListInv, NEW g \in 1..MaxSearches, NEW run, NEW added,
         Became(g, run, added), g \in aborted => added = <<>>, runs[g] # NoRun,
         g = controller => RunListed(run, results \o added)
  PROVE  ListInv'
<1>1. /\ runs' = [runs EXCEPT ![g] = run] /\ results' = results \o added
      /\ UNCHANGED <<controller, started, aborted>>
  BY DEF Became
<1>2. DOMAIN runs = 1..MaxSearches /\ (g \in aborted \/ g = controller)
  BY DEF SearchInv
<1>3. g # controller => results' = results
  <2>1. results \o <<>> = results
    BY DEF SearchInv, Found
  <2> QED BY <1>1, <1>2, <2>1
<1>4. ~(g > started)
  BY DEF ListInv
<1>5. ASSUME NEW h \in 1..MaxSearches
      PROVE  /\ h > started => runs'[h] = NoRun
             /\ h = controller => RunListed(runs'[h], results')
  <2>1. CASE h = g
    BY <1>1, <1>2, <1>4, <2>1
  <2>2. CASE h # g
    <3>1. runs'[h] = runs[h]
      BY <1>1, <1>2, <2>2
    <3> QED BY <1>3, <2>2, <3>1 DEF ListInv
  <2> QED BY <2>1, <2>2
<1> QED BY <1>1, <1>5 DEF ListInv

\* One more preview, or the first of them.
LEMMA PreviewMore ==
  ASSUME NEW run, NEW s, s \in Seq(ToSet(s)), PreviewsListed(run, s), run.at \in Nat \ {0},
         NEW r, <<r.id, r.anchor>> = Spot(run.matches[run.at])
  PROVE  \E p, t : /\ Split(s \o <<r>>, p, t, run.found) /\ ListsMost(p, Paths(run.query))
                   /\ Len(t) = run.at
                   /\ \A i \in 1..Len(t) : Spots(t)[i] = Spot(run.matches[i])
<1>1. PICK p, t : /\ Split(s, p, t, run.found) /\ ListsMost(p, Paths(run.query))
                  /\ Len(t) = run.at - 1
                  /\ \A i \in 1..Len(t) : Spots(t)[i] = Spot(run.matches[i])
  BY DEF PreviewsListed
<1> DEFINE u == <<r>>
           more == t \o u
           w == s \o u
           R == ToSet(s) \cup {r}
<1>2. s \in Seq(R) /\ p \in Seq(R) /\ t \in Seq(R) /\ u \in Seq(R) /\ s = p \o t
  BY <1>1 DEF Split
<1>3. Len(u) = 1 /\ ToSet(u) = {r} /\ Spots(u) = <<Spot(run.matches[run.at])>>
  <2>1. DOMAIN u = {1} /\ u[1] = r /\ Len(u) = 1
    OBVIOUS
  <2>2. Spots(u) = [i \in {1} |-> <<r.id, r.anchor>>]
    BY <2>1 DEF Spots
  <2> QED BY <2>1, <2>2 DEF ToSet
<1>3a. R = ToSet(s) \cup {r}
  OBVIOUS
<1> HIDE DEF u, R
<1>4. w \in Seq(ToSet(w)) /\ ToSet(w) = R
  <2>1. w \in Seq(R) /\ ToSet(w) = ToSet(s) \cup ToSet(u)
    BY <1>2, ConcatSet
  <2>2. ToSet(w) = R
    BY <1>3a, <1>3, <2>1
  <2> HIDE DEF w
  <2> QED BY <2>1, <2>2
<1>5. w = p \o more
  <2>1. p \in Seq(R) /\ t \in Seq(R) /\ u \in Seq(R)
    BY <1>2
  <2>2. (p \o t) \o u = p \o (t \o u)
    BY ONLY <2>1, ConcatAssociative
  <2> QED BY <1>2, <2>2
<1>6. more \in Seq(R) /\ Len(more) = Len(t) + 1
  <2>1. t \in Seq(R) /\ u \in Seq(R) /\ Len(u) = 1
    BY <1>2, <1>3
  <2>2. t \o u \in Seq(R) /\ Len(t \o u) = Len(t) + Len(u)
    BY ONLY <2>1, ConcatProperties
  <2> QED BY <2>1, <2>2
<1>7. Len(more) = run.at
  BY <1>1, <1>6
<1>8. Spots(more) = Spots(t) \o Spots(u)
  BY <1>2, SpotsJoined
<1>9. /\ Spots(t) \in Seq(SpotsIn(R)) /\ Len(Spots(t)) = run.at - 1
      /\ Spots(u) \in Seq(SpotsIn(R)) /\ Len(Spots(u)) = 1
  BY <1>1, <1>2, <1>3, SpotsTyped
<1> HIDE DEF more, w
<1>10. ASSUME NEW i \in 1..run.at PROVE Spots(more)[i] = Spot(run.matches[i])
  <2> DEFINE a == Spots(t)
             b == Spots(u)
  <2>0. a \in Seq(SpotsIn(R)) /\ Len(a) = run.at - 1 /\ b \in Seq(SpotsIn(R)) /\ Len(b) = 1
    BY <1>9
  <2> HIDE DEF a, b
  <2>1. (a \o b)[i] = IF i <= run.at - 1 THEN a[i] ELSE b[i - (run.at - 1)]
    <3>1. \A j \in 1..Len(a)+Len(b) : (a \o b)[j] = IF j <= Len(a) THEN a[j] ELSE b[j - Len(a)]
      BY <2>0, ConcatProperties
    <3>2. Len(a) + Len(b) = run.at
      BY <2>0
    <3> QED BY <2>0, <3>1, <3>2
  <2>2. CASE i <= run.at - 1
    <3>1. i \in 1..Len(t)
      BY <1>1, <2>2
    <3> QED BY <1>1, <1>8, <2>1, <2>2, <3>1 DEF a, b
  <2>3. CASE ~(i <= run.at - 1)
    <3>1. i = run.at /\ i - (run.at - 1) = 1
      BY <2>3
    <3>2. Spots(u)[1] = Spot(run.matches[run.at])
      BY <1>3
    <3> QED BY <1>8, <2>1, <2>3, <3>1, <3>2 DEF a, b
  <2> QED BY <2>2, <2>3
<1>11. Split(w, p, more, run.found)
  BY <1>1, <1>2, <1>4, <1>5, <1>6 DEF Split
<1> QED BY <1>1, <1>7, <1>10, <1>11 DEF w, u

\* The last of them: all that matches is listed.
LEMMA PreviewsAll ==
  ASSUME NEW query, QueryOK(query), Indexed(query) # <<>>, NEW s, NEW p, NEW t, NEW found,
         Split(s, p, t, found), ListsMost(p, Paths(query)),
         Len(t) = Len(get_matches(Indexed(query))),
         \A i \in 1..Len(t) : Spots(t)[i] = Spot(get_matches(Indexed(query))[i])
  PROVE  AllListed(Run("done", query, 0, found), s)
<1> DEFINE m   == get_matches(Indexed(query))
           run == Run("done", query, 0, found)
           u   == Spots(t)
<1>1. /\ m \in Seq(Places) /\ IsInjective(m)
      /\ \A i \in DOMAIN m : Spot(m[i]) \in PlacesOf(query)
      /\ Len(m) = Min({Cardinality(PlacesOf(query)), MAX_CONTENT_RESULTS})
  <2>1. Indexed(query) \in Seq(Seq(DOMAIN BucketOf))
    BY IndexedTyped DEF QueryOK, Words
  <2> QED BY <2>1, MatchesAgreed
<1>2. t \in Seq(ToSet(s)) /\ DOMAIN u = DOMAIN t /\ DOMAIN t = 1..Len(m)
  <2>1. t \in Seq(ToSet(s))
    BY DEF Split
  <2> QED BY <2>1, SpotsTyped, LenProperties
<1>3. DOMAIN m = 1..Len(m) /\ \A i \in DOMAIN m : m[i] \in Places
  BY <1>1, LenProperties, ElementOfSeq
<1>4. \A i \in 1..Len(m) : u[i] = Spot(m[i])
  OBVIOUS
<1>5. run.query = query /\ run.found = found
  BY DEF Run
<1> HIDE DEF m, u, run
<1>6. IsInjective(u)
  <2> SUFFICES ASSUME NEW i \in DOMAIN m, NEW j \in DOMAIN m, u[i] = u[j] PROVE i = j
    BY <1>2, <1>3 DEF IsInjective
  <2>1. m[i] = m[j]
    BY <1>3, <1>4, SpotApart
  <2> QED BY <1>1, <2>1 DEF IsInjective
<1>7. ToSet(u) \subseteq PlacesOf(query)
  BY <1>1, <1>2, <1>3, <1>4 DEF ToSet
<1>8. Len(t) = Min({Cardinality(PlacesOf(query)), MAX_CONTENT_RESULTS})
  BY <1>1 DEF m
<1>9. IsInjective(Spots(t)) /\ ToSet(Spots(t)) \subseteq PlacesOf(query)
  BY <1>6, <1>7 DEF u
<1>10. AllListed(run, s)
  BY <1>5, <1>8, <1>9, Zenon DEF AllListed
<1> QED BY <1>10 DEF run

LEMMA WakesLists == ASSUME SearchInv, ListInv, SearchWakes PROVE ListInv'
<1> SUFFICES ASSUME NEW g \in 1..MaxSearches,
                    \/ ScanOn(g) \/ MatchOn(g) \/ PreviewArrives(g) \/ PreviewFails(g)
                    \/ \E b \in runs[g].need : BucketArrives(g, b) \/ BucketFails(g, b)
             PROVE  ListInv'
  BY DEF SearchWakes
<1> DEFINE r == runs[g]
           T == ToSet(results)
<1>0. /\ RunOK(r) /\ QueryOK(r.query) /\ (g = controller => RunListed(r, results))
      /\ results \in Seq(T) /\ results \o <<>> = results
  <2>1. results \in Seq(T)
    BY DEF SearchInv, Found
  <2>2. RunOK(r) /\ QueryOK(r.query) /\ (g = controller => RunListed(r, results))
    BY DEF SearchInv, RunOK, ListInv
  <2> QED BY <2>1, <2>2, ConcatEmptySeq
<1>1. r # NoRun
  BY DEF NoRun, Run, ScanOn, MatchOn, PreviewArrives, PreviewFails
<1>2. g = controller => g \notin aborted
  BY DEF ListInv
<1>3. CASE Stop(g) /\ g \in aborted
  <2>1. Became(g, Run("done", r.query, 0, r.found), <<>>)
    BY <1>3 DEF Stop
  <2> QED BY <1>1, <1>2, <1>3, <2>1, BecameLists
<1>4. CASE ScanOn(g) /\ g \notin aborted
  <2> DEFINE last == NextBreak(r.at + 1) - 1
             hits == Chunk(g, r.at, last, r.found, r.query.keywords)
             run  == Scanned(r.query, last + 1, r.found + Len(hits))
  <2>1. r.phase = "path" /\ r.at \in 0..number_of_ids-1
    BY <1>0, <1>4 DEF ScanOn, RunOK
  <2>2. r.at + 1 \in 0..number_of_ids
    BY <2>1, SomeNodes
  <2>3. last \in r.at-1..number_of_ids-1 /\ last + 1 \in 0..number_of_ids /\ r.at \in Nat
    BY <2>1, <2>2, BreakAhead, SomeNodes
  <2>4. Became(g, run, hits)
    BY <1>4 DEF ScanOn
  <2>5. g = controller
    BY <1>1, <1>4 DEF SearchInv
  <2>6. /\ r.query.kind = "words" /\ r.found = Len(results)
        /\ ListsMost(results, PathsBefore(r.at, r.query.keywords))
    BY <1>0, <2>1, <2>5 DEF RunListed
  <2>7. r.query.keywords \in Seq(Seq(Tokens))
    BY <1>0 DEF QueryOK
  <2> HIDE DEF last, T
  <2>8. hits \in Seq(ToSet(hits))
    BY <2>3, ChunkFound DEF Found
  <2>9. ListsMost(results \o hits, PathsBefore(last + 1, r.query.keywords))
    BY <1>0, <2>3, <2>6, <2>7, ChunkLists
  <2> HIDE DEF hits, run, r
  <2>10. results \o hits \in Seq(T \cup ToSet(hits)) /\ Len(results \o hits) = Len(results) + Len(hits)
    <3>1. results \in Seq(T \cup ToSet(hits)) /\ hits \in Seq(T \cup ToSet(hits))
      BY <1>0, <2>8
    <3> QED BY <3>1, ConcatProperties
  <2>11. RunListed(run, results \o hits)
    <3>1. RunListed(Scanned(r.query, last + 1, Len(results \o hits)), results \o hits)
      BY <1>0, <2>3, <2>6, <2>9, <2>10, ScannedListed
    <3> QED BY <2>6, <2>10, <3>1 DEF run
  <2> QED BY <1>1, <1>4, <2>4, <2>11, BecameLists DEF r
<1>5. CASE MatchOn(g) /\ g \notin aborted
  <2> DEFINE m == get_matches(Indexed(r.query))
             run == IF m = <<>> THEN Run("done", r.query, 0, r.found)
                    ELSE [Run("preview", r.query, 1, r.found) EXCEPT !.matches = m]
  <2>1. Became(g, run, <<>>) /\ r.phase = "match"
    BY <1>5 DEF MatchOn, Stop
  <2>2. g = controller
    BY <1>1, <1>5 DEF SearchInv
  <2>3. r.found = Len(results) /\ ListsMost(results, Paths(r.query)) /\ Indexed(r.query) # <<>>
    BY <1>0, <2>1, <2>2 DEF RunListed
  <2>4. Split(results, results, <<>>, r.found)
    BY <1>0, <2>3, PartsWhole
  <2>5. CASE m = <<>>
    <3>1. Len(<<>>) = Len(m) /\ \A i \in 1..Len(<<>>) : Spots(<<>>)[i] = Spot(m[i])
      BY <2>5
    <3> HIDE DEF r
    <3>2. AllListed(Run("done", r.query, 0, r.found), results)
      BY <1>0, <2>3, <2>4, <3>1, PreviewsAll
    <3>3. /\ run = Run("done", r.query, 0, r.found) /\ run.phase = "done" /\ run.need = {}
      BY <2>5 DEF Run
    <3> HIDE DEF run
    <3>4. RunListed(run, results)
      BY <3>2, <3>3 DEF RunListed
    <3> QED BY <1>0, <1>1, <1>5, <2>1, <3>4, BecameLists DEF r
  <2>6. CASE m # <<>>
    <3>1. /\ run.phase = "preview" /\ run.query = r.query /\ run.at = 1 /\ run.found = r.found
          /\ run.matches = m /\ run.need = {}
      BY <2>6 DEF Run
    <3> HIDE DEF r, run
    <3>2. Len(<<>>) = 1 - 1 /\ \A i \in 1..Len(<<>>) : Spots(<<>>)[i] = Spot(run.matches[i])
      OBVIOUS
    <3>3. PreviewsListed(run, results)
      BY <2>3, <2>4, <3>1, <3>2 DEF PreviewsListed
    <3>4. RunListed(run, results)
      BY <2>3, <3>1, <3>3 DEF RunListed
    <3> QED BY <1>0, <1>1, <1>5, <2>1, <3>4, BecameLists DEF r
  <2> QED BY <2>5, <2>6
<1>6. CASE PreviewArrives(g) /\ g \notin aborted
  <2> DEFINE m   == r.matches[r.at]
             hit == Result(g, m.id, NoStack, m.field)
             run == IF r.at = Len(r.matches) THEN Run("done", r.query, 0, r.found)
                    ELSE [r EXCEPT !.at = @ + 1]
  <2>1. Became(g, run, <<hit>>) /\ r.phase = "preview"
    BY <1>6 DEF PreviewArrives
  <2>2. r.matches \in Seq(Places) /\ r.at \in DOMAIN r.matches
    BY <1>0, <2>1 DEF RunOK
  <2>3. r.at \in 1..Len(r.matches) /\ r.at \in Nat \ {0}
    BY <2>2, LenProperties
  <2>4. g = controller
    BY <1>1, <1>6 DEF SearchInv
  <2>5. /\ Indexed(r.query) # <<>> /\ r.matches = get_matches(Indexed(r.query))
        /\ PreviewsListed(r, results) /\ (r.need # {} => FALSE)
    BY <1>0, <2>1, <2>4 DEF RunListed
  <2>6. <<hit.id, hit.anchor>> = Spot(r.matches[r.at])
    BY DEF Result, Spot
  <2>7. DOMAIN r = {"phase", "query", "at", "found", "need", "matches"}
    BY <1>0 DEF RunOK
  <2> HIDE DEF hit, r
  <2>8. PICK p, t : /\ Split(results \o <<hit>>, p, t, r.found) /\ ListsMost(p, Paths(r.query))
                    /\ Len(t) = r.at
                    /\ \A i \in 1..Len(t) : Spots(t)[i] = Spot(r.matches[i])
    <3>1. results \in Seq(ToSet(results))
      BY <1>0
    <3> QED BY <2>3, <2>5, <2>6, <3>1, PreviewMore
  <2>9. CASE r.at = Len(r.matches)
    <3>1. AllListed(Run("done", r.query, 0, r.found), results \o <<hit>>)
      BY <1>0, <2>5, <2>8, <2>9, PreviewsAll
    <3>2. run = Run("done", r.query, 0, r.found) /\ run.phase = "done" /\ run.need = {}
      BY <2>9 DEF Run
    <3> HIDE DEF run
    <3>3. RunListed(run, results \o <<hit>>)
      BY <3>1, <3>2 DEF RunListed
    <3> QED BY <1>1, <1>6, <2>1, <3>3, BecameLists DEF r
  <2>10. CASE r.at # Len(r.matches)
    <3>1. /\ run.phase = "preview" /\ run.query = r.query /\ run.at = r.at + 1
          /\ run.found = r.found /\ run.matches = r.matches /\ run.need = {}
      BY <2>1, <2>5, <2>7, <2>10
    <3> HIDE DEF run
    <3>2. Len(t) = run.at - 1
      BY <2>3, <2>8, <3>1
    <3>3. PreviewsListed(run, results \o <<hit>>)
      BY <2>8, <3>1, <3>2 DEF PreviewsListed
    <3>4. RunListed(run, results \o <<hit>>)
      BY <2>5, <3>1, <3>3 DEF RunListed
    <3> QED BY <1>1, <1>6, <2>1, <3>4, BecameLists DEF r
  <2> QED BY <2>9, <2>10
<1>7. CASE PreviewFails(g)
  <2> DEFINE run == Run("failed", r.query, 0, r.found)
  <2>1. Became(g, run, <<>>) /\ run.phase = "failed" /\ run.need = {}
    BY <1>7 DEF PreviewFails, Run
  <2> HIDE DEF run
  <2>2. RunListed(run, results)
    BY <2>1 DEF RunListed
  <2> QED BY <1>0, <1>1, <2>1, <2>2, BecameLists
<1>8. ASSUME NEW b \in r.need, BucketArrives(g, b), g \notin aborted \/ ~Stop(g) PROVE ListInv'
  <2> DEFINE less == [r EXCEPT !.need = @ \ {b}]
             next == Run("match", r.query, 0, r.found)
  <2>1. DOMAIN r = {"phase", "query", "at", "found", "need", "matches"}
    BY <1>0 DEF RunOK
  <2>2. g = controller => r.phase \in {"fetch", "failed"}
    BY <1>0 DEF RunListed
  <2>3. CASE Became(g, less, <<>>)
    <3>1. /\ less.phase = r.phase /\ less.query = r.query /\ less.found = r.found
          /\ less.need = r.need \ {b}
      BY <2>1
    <3> HIDE DEF less, r
    <3>2. g = controller => RunListed(less, results)
      BY <1>0, <2>2, <3>1 DEF RunListed
    <3> QED BY <1>0, <1>1, <2>3, <3>2, BecameLists DEF r
  <2>4. CASE Became(g, next, <<>>) /\ r.phase # "failed"
    <3>1. next.phase = "match" /\ next.query = r.query /\ next.found = r.found /\ next.need = {}
      BY DEF Run
    <3> HIDE DEF next, r
    <3>2. g = controller => RunListed(next, results)
      BY <1>0, <2>2, <2>4, <3>1 DEF RunListed
    <3> QED BY <1>0, <1>1, <2>4, <3>2, BecameLists DEF r
  <2> QED BY <1>8, <2>3, <2>4 DEF BucketArrives
<1>9. ASSUME NEW b \in r.need, BucketFails(g, b) PROVE ListInv'
  <2> DEFINE run == [r EXCEPT !.need = @ \ {b}, !.phase = "failed"]
  <2>1. DOMAIN r = {"phase", "query", "at", "found", "need", "matches"}
    BY <1>0 DEF RunOK
  <2>2. Became(g, run, <<>>) /\ run.phase = "failed"
    BY <1>9, <2>1 DEF BucketFails
  <2> HIDE DEF run
  <2>3. RunListed(run, results)
    BY <2>2 DEF RunListed
  <2> QED BY <1>0, <1>1, <2>2, <2>3, BecameLists
<1>10. CASE g \in aborted /\ (ScanOn(g) \/ MatchOn(g) \/ PreviewArrives(g))
  BY <1>3, <1>10 DEF ScanOn, MatchOn, PreviewArrives
<1> QED BY <1>3, <1>4, <1>5, <1>6, <1>7, <1>8, <1>9, <1>10

LEMMA ListKeeps == ASSUME SearchInv, UiOK(ui), ListInv, [Next]_vars PROVE ListInv'
<1>1. CASE UNCHANGED searchVars
  BY <1>1 DEF searchVars, ListInv
<1>2. ASSUME NEW q, QueryOK(q), open_search(q) \/ onSearchInputUpdate(q) PROVE ListInv'
  BY <1>2, OpenLists, StartLists DEF onSearchInputUpdate
<1> QED BY <1>1, <1>2, SearchSteps, CloseLists, SelectLists, WakesLists DEF SearchStep

LEMMA PathsFinite == ASSUME NEW query, QueryOK(query) PROVE IsFiniteSet(Paths(query))
<1> DEFINE keywords == query.keywords
           sets == {NodePaths(n, keywords) : n \in Nodes}
<1>1. keywords \in Seq(Seq(Tokens))
  BY DEF QueryOK
<1> HIDE DEF keywords
<1>2. ASSUME NEW n \in Nodes PROVE IsFiniteSet(NodePaths(n, keywords))
  <2> DEFINE hits == PathHits(0, n, keywords)
  <2>1. hits \in Seq(ToSet(hits))
    BY PathHitsFound DEF Found
  <2>2. Lists(hits, NodePaths(n, keywords))
    BY <1>1, NodeLists
  <2> HIDE DEF hits
  <2> QED BY <2>1, <2>2, ListsCounts
<1>3. IsFiniteSet(sets)
  <2> DEFINE f == [n \in Nodes |-> NodePaths(n, keywords)]
  <2>1. f \in Surjection(Nodes, sets)
    BY DEF Surjection
  <2> QED BY <2>1, TreeAssumption, FS_Surjection
<1>4. IsFiniteSet(UNION sets)
  BY <1>2, <1>3, FS_UNION
<1>5. PathsBefore(number_of_ids, keywords) = UNION sets
  <2>1. 0..number_of_ids-1 = Nodes
    BY TreeAssumption, FS_CardinalityType DEF number_of_ids
  <2> QED BY <2>1 DEF PathsBefore
<1>6. PathsOf(query) = UNION sets
  BY <1>5, AllPaths DEF keywords
<1> QED BY <1>4, <1>6, FS_EmptySet DEF Paths

\* Lists of all that matches are what a complete search shows.
LEMMA ListedComplete ==
  ASSUME NEW run, QueryOK(run.query), NEW s, AllListed(run, s)
  PROVE  LET place == Spots(s)
             paths == SubSeq(place, 1, run.found)
             texts == SubSeq(place, run.found + 1, Len(place))
             all   == Paths(run.query)
             some  == PlacesOf(run.query)
         IN  /\ IsInjective(paths) /\ IsInjective(texts)
             /\ ToSet(paths) \subseteq all /\ ToSet(texts) \subseteq some
             /\ Len(paths) >= Min({Cardinality(all), MAX_PATH_RESULTS})
             /\ Len(texts) = Min({Cardinality(some), MAX_CONTENT_RESULTS})
<1> DEFINE all  == Paths(run.query)
           some == PlacesOf(run.query)
           R    == ToSet(s)
           S    == SpotsIn(R)
<1>1. PICK p, t : /\ Split(s, p, t, run.found) /\ ListsMost(p, all)
                  /\ IsInjective(Spots(t)) /\ ToSet(Spots(t)) \subseteq some
                  /\ Len(t) = Min({Cardinality(some), MAX_CONTENT_RESULTS})
  BY DEF AllListed
<1> DEFINE u == Spots(p)
           v == Spots(t)
<1>2. p \in Seq(R) /\ t \in Seq(R) /\ s = p \o t /\ run.found = Len(p)
  BY <1>1 DEF Split
<1>3. u \in Seq(S) /\ v \in Seq(S) /\ Len(u) = run.found /\ Len(v) = Len(t) /\ Spots(s) = u \o v
  BY <1>2, SpotsTyped, SpotsJoined
<1>4. run.found >= Min({Cardinality(all), MAX_PATH_RESULTS})
  <2>1. Len(p) \in Nat /\ MAX_PATH_RESULTS \in Nat
    BY <1>2, LenProperties, SearchAssumption
  <2>2. CASE Len(p) < MAX_PATH_RESULTS
    <3>1. Lists(p, all)
      BY <1>1, <2>2 DEF Lists, ListsMost
    <3>2. Cardinality(all) = Len(p)
      BY <1>2, <3>1, ListsCounts
    <3>3. Min({Cardinality(all), MAX_PATH_RESULTS}) = Len(p)
      <4>1. \A x \in {Len(p), MAX_PATH_RESULTS} :
              (\A y \in {Len(p), MAX_PATH_RESULTS} : x <= y) <=> x = Len(p)
        BY <2>1, <2>2
      <4> QED BY <3>2, <4>1 DEF Min
    <3> QED BY <1>2, <2>1, <3>3
  <2>3. CASE ~(Len(p) < MAX_PATH_RESULTS)
    <3> DEFINE U == {Cardinality(all), MAX_PATH_RESULTS}
    <3>1. U \in SUBSET Nat /\ U # {} /\ MAX_PATH_RESULTS \in U
      BY <2>1, PathsFinite, FS_CardinalityType
    <3> HIDE DEF U
    <3>2. PICK k \in U : \A j \in U : k <= j
      BY <3>1, LeastMember
    <3>3. Min(U) \in U /\ Min(U) <= MAX_PATH_RESULTS
      BY <3>1, <3>2 DEF Min
    <3>4. Min(U) <= Len(p)
      <4>1. Min(U) \in Nat
        BY <3>1, <3>3
      <4> QED BY <2>1, <2>3, <3>3, <4>1
    <3> QED BY <1>2, <2>1, <3>4 DEF U
  <2> QED BY <2>2, <2>3
<1>5. IsInjective(u) /\ ToSet(u) \subseteq all
  BY <1>1 DEF ListsMost
<1>6. IsInjective(v) /\ ToSet(v) \subseteq some /\ Len(v) = Min({Cardinality(some), MAX_CONTENT_RESULTS})
  BY <1>1, <1>3
<1> HIDE DEF u, v, S, all, some
<1>7. /\ SubSeq(Spots(s), 1, run.found) = u
      /\ SubSeq(Spots(s), run.found + 1, Len(Spots(s))) = v
  BY <1>3, PartsOfConcat
<1> QED BY <1>3, <1>4, <1>5, <1>6, <1>7 DEF all, some

\* Whatever matches is listed when the search is done, whatever happened meanwhile.
THEOREM SearchFindsAll == Spec => []SearchComplete
<1>1. ViewerInv => SearchInv /\ UiOK(ui)
  BY DEF ViewerInv
<1>2. SearchInv /\ ListInv => SearchComplete
  <2> SUFFICES ASSUME SearchInv, ListInv, NEW g \in 1..MaxSearches, runs[g].phase = "done",
                      g = controller
               PROVE  LET place == Spots(results)
                          paths == SubSeq(place, 1, runs[g].found)
                          texts == SubSeq(place, runs[g].found + 1, Len(place))
                          all   == Paths(runs[g].query)
                          some  == PlacesOf(runs[g].query)
                      IN  /\ IsInjective(paths) /\ IsInjective(texts)
                          /\ ToSet(paths) \subseteq all /\ ToSet(texts) \subseteq some
                          /\ Len(paths) >= Min({Cardinality(all), MAX_PATH_RESULTS})
                          /\ Len(texts) = Min({Cardinality(some), MAX_CONTENT_RESULTS})
    BY DEF SearchComplete, Spots, Paths
  <2>1. QueryOK(runs[g].query)
    BY DEF SearchInv, RunOK
  <2>2. AllListed(runs[g], results)
    BY DEF ListInv, RunListed
  <2> QED BY <2>1, <2>2, ListedComplete
<1>3. Init => ListInv
  BY ListStart DEF Init
<1>4. ViewerInv /\ ListInv /\ [Next]_vars => ListInv'
  BY <1>1, ListKeeps
<1>5. Spec => []ListInv
  BY <1>3, <1>4, ViewerShape, PTL DEF Spec
<1> QED BY <1>1, <1>2, <1>5, ViewerShape, PTL
=============================================================================
