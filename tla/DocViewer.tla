------------------------------ MODULE DocViewer ------------------------------
(***************************************************************************)
(* The register documentation in a browser: js/main.js, nav.js and         *)
(* index_edit.js, with the form, the sidebar and the search.  The reader   *)
(* follows links, uses the tree and the history of the browser, edits the  *)
(* indexes of arrays and the values of registers, and searches, while the  *)
(* pages asked for are still on their way, arrive in any order, or fail.   *)
(*                                                                         *)
(* A handler runs to its end, so it is one step; a click then reaches the  *)
(* handler of the window, which closes the editor of an index.  Handlers   *)
(* are functions of the state of the page, ui.  Layout, scrolling, the     *)
(* anchor in the URL and the notes for old browsers are left out.          *)
(***************************************************************************)
EXTENDS RegTester, Sidebar, DocSearch

CONSTANTS
  DataFiles,           \* data/ral-data-*.json
  InitialPaths,        \* the URL the documentation is opened with
  IndexTexts,          \* what is typed for an index; -1 is not a number
  FieldTexts, RegTexts, \* what is typed into the form
  Sessions,            \* bound: the kinds of events of one reader, and how many of them
  MaxLoads             \* bound: pages on their way

\* A path has no negative indexes: one that has is NoPath.
ASSUME ReaderAssumption ==
  /\ \A p \in InitialPaths : p \in Seq(ToSet(p)) /\ \A s \in ToSet(p) : s.idxs \in Seq(Nat)
  /\ FieldTexts \subseteq Int \cup {Garbage} /\ RegTexts \subseteq Int \cup {Garbage}
  /\ \A s \in Sessions : s.max \in Nat

VARIABLES
  ui,                  \* what the page shows and the scripts keep
  loads,               \* pages on their way: the node, and what was done to ask for it
  files,               \* data files that have arrived or failed, and the progress bar
  session, events,
  rough,               \* history: the reader went back, or a page failed, in a way after which
                       \* the parts of the page may disagree
  lost                 \* history: the page the URL asked for failed, and none has come since

vars == <<ui, loads, files, session, events, rough, lost, searchVars>>

NoCrumbs == [id |-> NoNode, stack |-> <<>>]
NoModal  == [active |-> FALSE, id |-> 0, dim |-> 0, span |-> 0, text |-> FALSE]
Load(id, by) == [id |-> id, by |-> by]

Path(u, id) == get_path(u.idxs, id)

-----------------------------------------------------------------------------
(* What main.js writes around a page: the crumb trail, the address, and    *)
(* the indexes in the page's own references to itself and to its parent.   *)

Crumbs(u) == [id |-> u.CurrentID, stack |-> get_current_idx_stack(u.idxs, u.CurrentID)]
Above(id) == Tree[id].parent

update_crumbtrail(u) == [u EXCEPT !.crumbs = Crumbs(u)]
update_absolute_addr(u) == [u EXCEPT !.addr = get_absolute_addr(u.idxs, u.CurrentID)]
update_rdlfc_indexes(u) ==
  [u EXCEPT !.rdlfc = <<u.idxs[u.CurrentID],
                        IF IsRoot(u.CurrentID) THEN <<>> ELSE u.idxs[Above(u.CurrentID)]>>]

Headed(u) == update_rdlfc_indexes(update_absolute_addr(update_crumbtrail(u)))

-----------------------------------------------------------------------------
(* The values entered for the current register.                            *)

addr_key(u) == get_absolute_addr(u.idxs, u.CurrentID)

get_reg_state(u) ==
  IF addr_key(u) \in DOMAIN u.registry THEN u.registry[addr_key(u)] ELSE NoValue

save_reg_state(registry, key, text) ==
  [a \in DOMAIN registry \cup {key} |-> IF a = key THEN text ELSE registry[a]]

\* The outcome of an event in the form.
Edited(u, outcome) ==
  [u EXCEPT !.form = outcome.form,
            !.registry = IF outcome.saved THEN save_reg_state(@, addr_key(u), outcome.form.reg)
                         ELSE @]

FillForm(u) ==
  IF is_register(u.CurrentID)
  THEN [u EXCEPT !.form = init_reg_value(@, u.CurrentID, get_reg_state(u), u.disp)]
  ELSE u

-----------------------------------------------------------------------------
(* nav.js                                                                  *)

Fresh(id) == IF is_register(id) THEN BlankForm(id) ELSE NoForm

\* Mutant: the current node is left to those who ask for the page.
load_page_only(u, id) ==
  FillForm(Headed([u EXCEPT !.page = id, !.form = Fresh(id)]))

\* A page has come: all of it is shown, for the indexes as they are now.
load_page(u, id) ==
  FillForm(Headed([u EXCEPT !.CurrentID = id, !.page = id, !.form = Fresh(id)]))

ShowInSidebar(u, id) ==
  [u EXCEPT !.tree = select_node(expand_to_id(@, id), id), !.title = id]

refresh_url(u) ==
  [u EXCEPT !.history = Append(SubSeq(@, 1, u.pos), Path(u, u.CurrentID)), !.pos = @ + 1]

\* Mutant: the URL keeps the old indexes.
patch_url_path_not(u) == u

patch_url_path(u) == [u EXCEPT !.history[u.pos] = Path(u, u.CurrentID)]

\* The node and the indexes are those of the URL before the page is there.
Displayed(u, parsed) ==
  IF parsed = NoPosition THEN [u EXCEPT !.CurrentID = 0, !.history[u.pos] = NoPath]
  ELSE patch_url_path([u EXCEPT !.CurrentID = parsed.id,
                                !.idxs = apply_idx_stack(@, parsed.id, parsed.stack)])

load_page_via_url(u) == Displayed(u, parse_path(u.history[u.pos]))

-----------------------------------------------------------------------------
(* index_edit.js                                                           *)

\* The spans of indexes in the crumb trail, each with its node and dimension.
SpansOf ==
  [id \in Nodes |->
     FlattenSeq([i \in DOMAIN get_ids_in_path[id] |->
                   LET n == get_ids_in_path[id][i]
                   IN  [d \in DOMAIN Tree[n].dims |-> [id |-> n, dim |-> d]]])]

Spans(u) ==
  IF u.crumbs.id = NoNode THEN <<>> ELSE SpansOf[u.crumbs.id]

\* An index outside its dimension is dropped.  The editor's node need not be on the page.
exitIndexEditModal(u, cancel, val) ==
  LET m      == u.modal
      closed == [u EXCEPT !.modal.active = FALSE]
      set    == [closed EXCEPT !.idxs[m.id][m.dim] = val]
  IN  IF ~m.active THEN u
      ELSE IF cancel \/ val \notin 0..Tree[m.id].dims[m.dim]-1 THEN closed
      ELSE FillForm(patch_url_path(Headed(set)))

\* Whether the number of the span is a text matters to the step to the next one.
showIndexEditModal(u, span, text) ==
  IF span \notin DOMAIN Spans(u) THEN u
  ELSE [u EXCEPT !.modal = [active |-> TRUE, id |-> Spans(u)[span].id,
                            dim |-> Spans(u)[span].dim, span |-> span, text |-> text]]

onClickCrumbtrailIdx(u, span, val) ==
  showIndexEditModal(exitIndexEditModal(u, FALSE, val), span, TRUE)

switch_to_prev_idx_edit(u, val) ==
  IF ~u.modal.active THEN showIndexEditModal(u, 1, FALSE)
  ELSE IF u.modal.span = 1 THEN u
  ELSE showIndexEditModal(exitIndexEditModal(u, FALSE, val), u.modal.span - 1, FALSE)

\* After a click the number is a text, to which 1 is appended: no span has that number.
switch_to_next_idx_edit(u, val) ==
  IF ~u.modal.active THEN showIndexEditModal(u, Len(Spans(u)), FALSE)
  ELSE IF u.modal.span = Len(Spans(u)) THEN u
  ELSE showIndexEditModal(exitIndexEditModal(u, FALSE, val),
                          IF u.modal.text THEN 0 ELSE u.modal.span + 1, FALSE)

\* The handler of the window, which every click reaches.
WindowClick(u, val) == exitIndexEditModal(u, FALSE, val)

-----------------------------------------------------------------------------
(* The start.                                                              *)

Init ==
  /\ \E p \in InitialPaths :
       ui = [CurrentID |-> NoNode, idxs |-> [n \in Nodes |-> Zeros[n]],
             disp |-> [n \in Nodes |-> [f \in FieldNames[n] |-> lookup_field_idx(n, f).disp]],
             registry |-> <<>>, page |-> NoNode, crumbs |-> NoCrumbs, addr |-> 0, rdlfc |-> <<>>,
             title |-> NoNode, form |-> NoForm, tree |-> NoTree, modal |-> NoModal,
             history |-> <<p>>, pos |-> 1]
  /\ loads = <<>>
  /\ files = [arrived |-> {}, failed |-> {}, bar |-> TRUE]
  /\ session \in Sessions
  /\ events = 0 /\ rough = FALSE /\ lost = FALSE
  /\ SearchInit

Awaited(f) == f \in DataFiles \ (files.arrived \cup files.failed)

\* With the last file the documentation opens.  After a failure the bar is gone, and
\* moving it fails too.
RalFileArrives(f) ==
  LET all == files.arrived \cup {f} = DataFiles
  IN  /\ Awaited(f)
      /\ files' = IF files.bar THEN [files EXCEPT !.arrived = @ \cup {f}, !.bar = ~all]
                  ELSE [files EXCEPT !.failed = @ \cup {f}]
      /\ IF all
         THEN \E u \in {load_page_via_url(ui)} :
                /\ ui' = [u EXCEPT !.tree = expand_to_id(NoTree, u.CurrentID)]
                /\ loads' = <<Load(u.CurrentID, "url")>>
         ELSE UNCHANGED <<ui, loads>>
      /\ UNCHANGED <<session, events, rough, lost, searchVars>>

RalFileFails(f) ==
  /\ Awaited(f)
  /\ files' = [files EXCEPT !.failed = @ \cup {f}, !.bar = FALSE]
  /\ UNCHANGED <<ui, loads, session, events, rough, lost, searchVars>>

-----------------------------------------------------------------------------
(* Pages arrive.                                                           *)

Pending(kinds) == \E i \in DOMAIN loads : loads[i].by \in kinds

\* A page asked for through the URL leaves the URL as it is; others add an entry.
PageArrives(i) ==
  LET l == loads[i]
  IN  /\ \E shown \in {ShowInSidebar(load_page(ui, l.id), l.id)} :
           ui' = IF l.by = "url" THEN shown ELSE refresh_url(shown)
      /\ loads' = RemoveAt(loads, i)
      /\ rough' = (rough /\ (l.by = "url" \/ loads' # <<>>))
      /\ lost' = FALSE
      /\ UNCHANGED <<files, session, events, searchVars>>

PageFails(i) ==
  /\ loads' = RemoveAt(loads, i)
  /\ rough' = (rough \/ loads[i].by \in {"url", "search"})
  /\ lost' = (lost \/ loads[i].by = "url")
  /\ UNCHANGED <<ui, files, session, events, searchVars>>

-----------------------------------------------------------------------------
(* Events of the reader.                                                   *)

\* An event while the documentation is open.
User(kind) ==
  /\ ui.CurrentID # NoNode
  /\ kind \in session.kinds /\ events < session.max /\ events' = events + 1
  /\ UNCHANGED <<files, session, lost>>

\* What a click commits, if an index is being edited.
Vals == IF ui.modal.active THEN IndexTexts ELSE {0}

Ask(id, by) ==
  /\ Len(loads) < MaxLoads
  /\ loads' = Append(loads, Load(id, by))
  /\ rough' = (rough \/ Pending({"url"}))

AskNothing == UNCHANGED <<loads, rough>>

ToNext(u, id) == [u EXCEPT !.idxs = reset_indexes_to_next(@, id, u.CurrentID)]

\* The links of the page lead to the children of its node, those of the trail upwards.
Links ==
  (IF ui.page = NoNode THEN {} ELSE ToSet(Tree[ui.page].children))
  \cup (IF ui.crumbs.id = NoNode THEN {} ELSE ToSet(get_ancestors[ui.crumbs.id]))

onClickNodeLink ==
  /\ User("link") /\ ~active
  /\ \E id \in Links, val \in Vals :
       IF id = ui.CurrentID THEN ui' = WindowClick(ui, val) /\ AskNothing
       ELSE ui' = WindowClick(ToNext(ui, id), val) /\ Ask(id, "link")
  /\ UNCHANGED searchVars

onClickTreeLink ==
  /\ User("tree")
  /\ \E id \in Nodes, val \in Vals :
       /\ Exists(ui.tree, id)
       /\ IF id = ui.CurrentID THEN ui' = WindowClick(ui, val) /\ AskNothing
          ELSE /\ ui' = WindowClick(ToNext([ui EXCEPT !.tree = expand_node(@, id)], id), val)
               /\ Ask(id, "link")
  /\ close_search

ClickTreeFold ==
  /\ User("fold")
  /\ \E id \in Nodes, val \in Vals :
       /\ Exists(ui.tree, id) /\ HasChildren(id)
       /\ ui' = WindowClick([ui EXCEPT !.tree = onClickTreeFold(@, id, ui.CurrentID)], val)
  /\ AskNothing /\ UNCHANGED searchVars

onClickTreeCollapseAll ==
  /\ User("fold")
  /\ \E val \in Vals : ui' = WindowClick([ui EXCEPT !.tree = collapse_all(@)], val)
  /\ AskNothing /\ UNCHANGED searchVars

load_parent_page ==
  /\ User("parent")
  /\ ~IsRoot(ui.CurrentID)
  /\ Ask(Above(ui.CurrentID), "link")
  /\ UNCHANGED <<ui, searchVars>>

\* The browser moves in its history; the page is asked for only if the node differs.
onPopState ==
  /\ User("history")
  /\ \E p \in {ui.pos - 1, ui.pos + 1} \cap DOMAIN ui.history :
       \E moved \in {load_page_via_url([ui EXCEPT !.pos = p])} :
         /\ ui' = moved
         /\ IF moved.CurrentID = ui.CurrentID
            THEN /\ UNCHANGED loads
                 /\ rough' = (rough \/ loads # <<>> \/ moved.crumbs # Crumbs(moved))
            ELSE /\ Len(loads) < MaxLoads
                 /\ loads' = Append(loads, Load(moved.CurrentID, "url"))
                 /\ rough' = (rough \/ loads # <<>>)
  /\ UNCHANGED searchVars

\* A click on an index does not reach the window.
ClickIndex ==
  /\ User("index") /\ ~active
  /\ \E span \in DOMAIN Spans(ui), val \in Vals : ui' = onClickCrumbtrailIdx(ui, span, val)
  /\ AskNothing /\ UNCHANGED searchVars

\* Ctrl with a bracket, Enter and Escape.
IndexKey ==
  /\ User("index")
  /\ \E val \in Vals :
       ui' \in {switch_to_prev_idx_edit(ui, val), switch_to_next_idx_edit(ui, val),
                exitIndexEditModal(ui, FALSE, val), exitIndexEditModal(ui, TRUE, val)}
  /\ AskNothing /\ UNCHANGED searchVars

\* A click elsewhere on the page.
ClickAway ==
  /\ User("index") /\ ui.modal.active
  /\ \E val \in Vals : ui' = WindowClick(ui, val)
  /\ AskNothing /\ UNCHANGED searchVars

TypeField ==
  /\ User("edit") /\ ~active
  /\ \E name \in DOMAIN ui.form.field \ ui.form.selects, text \in FieldTexts :
       ui' = Edited(ui, onDecodedFieldInput(ui.form, ui.CurrentID, name, text))
  /\ AskNothing /\ UNCHANGED searchVars

PickEnum ==
  /\ User("edit") /\ ~active
  /\ \E name \in ui.form.selects :
       \E value \in 0..MaxValue(lookup_field_idx(ui.page, name))-1 :
         ui' = Edited(ui, onDecodedFieldEnumChange(ui.form, ui.CurrentID, name, value))
  /\ AskNothing /\ UNCHANGED searchVars

TypeReg ==
  /\ User("edit") /\ ~active /\ ui.form # NoForm
  /\ \E text \in RegTexts : ui' = Edited(ui, onEncodedRegInput(ui.form, ui.CurrentID, text))
  /\ AskNothing /\ UNCHANGED searchVars

ClickReset ==
  /\ User("edit") /\ ~active /\ ui.form # NoForm
  /\ \E val \in Vals :
       ui' = WindowClick(Edited(ui, onResetRegValue(ui.form, ui.CurrentID)), val)
  /\ AskNothing /\ UNCHANGED searchVars

ClickRadix ==
  /\ User("edit") /\ ~active
  /\ \E name \in DOMAIN ui.form.field, val \in Vals :
       LET disp == SwitchRadix(ui.disp, ui.CurrentID, name)
       IN  ui' = WindowClick(
                   IF ~Fits(ui.form, ui.CurrentID) THEN ui
                   ELSE Edited([ui EXCEPT !.disp = disp],
                               onRadixSwitch(ui.form, ui.CurrentID, name, disp)), val)
  /\ AskNothing /\ UNCHANGED searchVars

\* Ctrl with a slash searches for the path of the current node, as it is displayed.
PathWords(id) ==
  [i \in DOMAIN get_ids_in_path[id] |->
     LET name == TokensOf[Tree[get_ids_in_path[id][i]].name]
     IN  [t \in DOMAIN name |-> Lower[name[t]]]]
PathQuery == [kind |-> "words", addr |-> 0, keywords |-> <<PathTokens[ui.CurrentID]>>,
              words |-> PathWords(ui.CurrentID)]

SearchKey ==
  /\ User("search")
  /\ (\E q \in {NoQuery, PathQuery} : open_search(q)) \/ (active /\ close_search)
  /\ AskNothing /\ UNCHANGED ui

onSearchButtonClick ==
  /\ User("search")
  /\ open_search(NoQuery) \/ (active /\ close_search)
  /\ \E val \in Vals : ui' = WindowClick(ui, val)
  /\ AskNothing

TypeQuery ==
  /\ User("search")
  /\ \E q \in Queries \cup {NoQuery} : onSearchInputUpdate(q)
  /\ AskNothing /\ UNCHANGED ui

SelectResult ==
  /\ User("select")
  /\ ArrowUp \/ ArrowDown \/ \E i \in DOMAIN results : onSearchResultMousemove(i)
  /\ AskNothing /\ UNCHANGED ui

\* The indexes are set at once, the page comes later.
open_search_result(u, i) ==
  [u EXCEPT !.idxs = IF results[i].stack = NoStack THEN reset_indexes(@, 0, results[i].id)
                     ELSE apply_idx_stack(@, results[i].id, results[i].stack)]

EnterResult ==
  /\ User("search") /\ active /\ Entered # 0
  /\ ui' = open_search_result(ui, Entered)
  /\ Ask(results[Entered].id, "search")
  /\ close_search

ClickResult ==
  /\ User("search")
  /\ \E i \in DOMAIN results, val \in Vals :
       /\ ui' = WindowClick(open_search_result(ui, i), val)
       /\ Ask(results[i].id, "search")
  /\ close_search

SearchRuns == SearchWakes /\ UNCHANGED <<ui, loads, files, session, events, rough, lost>>

Next ==
  \/ \E f \in DataFiles : RalFileArrives(f) \/ RalFileFails(f)
  \/ \E i \in DOMAIN loads : PageArrives(i) \/ PageFails(i)
  \/ onClickNodeLink \/ onClickTreeLink \/ ClickTreeFold \/ onClickTreeCollapseAll
  \/ load_parent_page \/ onPopState
  \/ ClickIndex \/ IndexKey \/ ClickAway
  \/ TypeField \/ PickEnum \/ TypeReg \/ ClickReset \/ ClickRadix
  \/ SearchKey \/ onSearchButtonClick \/ TypeQuery \/ SelectResult \/ EnterResult \/ ClickResult
  \/ SearchRuns

Spec == Init /\ [][Next]_vars

-----------------------------------------------------------------------------
(* Properties.                                                             *)

\* Nothing is pending, and nothing the reader did can have left parts behind.
Settled == ui.CurrentID # NoNode /\ loads = <<>> /\ ~rough

\* Types; in particular no sequence of paths, editors and results of searches brings an
\* index beyond the dimension of its array.
TypeOK ==
  /\ ui.CurrentID \in Nodes \cup {NoNode} /\ ui.page \in Nodes \cup {NoNode}
  /\ \A n \in Nodes : ui.idxs[n] \in IdxRange[n]
  /\ ui.pos \in DOMAIN ui.history
  /\ ui.registry \in [DOMAIN ui.registry -> Nat]
  /\ \A i \in DOMAIN loads : loads[i].id \in Nodes /\ loads[i].by \in {"link", "url", "search"}
  /\ events \in 0..session.max

\* Whatever indexes the reader reaches, the URL of a page leads back to that page.
PathRoundTrip ==
  [][ui'.idxs # ui.idxs => PathsLeadBack(ui'.idxs)]_vars

\* Searching for an address that is on display leads back to the page.
AddressRoundTrip ==
  [][ui'.idxs # ui.idxs => AddressesLeadBack(ui'.idxs)]_vars

\* However entries are opened, closed and selected, the marks in the tree are sound.
SidebarSound == TreeSound(ui.tree)

\* The scripts work on the node whose page is shown, unless the reader went through the
\* history and the page of that node is on its way or failed to come.
PageIsCurrent ==
  ui.page # ui.CurrentID =>
    lost \/ \E i \in DOMAIN loads : loads[i] = Load(ui.CurrentID, "url")

\* In the end page, title, sidebar, crumb trail, address, indexes and URL are about one position,
\* in whatever order the pages came and whichever links failed.
PartsAgree ==
  Settled =>
    /\ ui.page = ui.CurrentID /\ ui.title = ui.CurrentID /\ ui.tree.selected = ui.CurrentID
    /\ Headed(ui) = ui
    /\ \/ ui.history[ui.pos] = Path(ui, ui.CurrentID)
       \/ ui.history[ui.pos] = NoPath /\ ui.CurrentID = 0

\* The form shows the register's bits, and the value kept for the address on display, or
\* else the one after reset.
FormShowsRegister ==
  ui.form # NoForm =>
    /\ FieldsShowRegister(ui.form, ui.page)
    /\ Settled /\ ui.form.clean /\ REG \notin ui.form.bad =>
         \/ get_reg_state(ui) = ui.form.reg
         \/ /\ get_reg_state(ui) = NoValue
            /\ \A f \in FieldSet[ui.page] : ui.form.field[f.name] = f.reset

\* What is entered is kept under the address on display and changes nothing else, also
\* while the pages of links are on their way.
EditsSavedWhereShown ==
  [][ui'.registry # ui.registry /\ ~rough /\ ~Pending({"url", "search"}) =>
       \A a \in DOMAIN ui'.registry \ {ui.addr} :
         a \in DOMAIN ui.registry /\ ui'.registry[a] = ui.registry[a]]_vars
=============================================================================
