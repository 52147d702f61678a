------------------------------ MODULE DocSearch ------------------------------
(***************************************************************************)
(* The search of the register documentation: js/search.js with             *)
(* path_search.js, content_search.js and address_search.js.  A search runs *)
(* in pieces, between which the reader may type another query or leave:    *)
(* it pauses while it scans the paths, while it fetches the index and the  *)
(* previews, and each time asks its abort signal whether to go on.         *)
(*                                                                         *)
(* A query comes as what the code makes of its text: its kind ("empty",    *)
(* "short" for one character, "address", "words"), the address, and its    *)
(* words, split at spaces for the paths and at all but letters, digits and *)
(* underscores for the contents.  A name and a word are sequences of       *)
(* tokens, its parts between underscores, and compared token by token.     *)
(* The anchor of a result is the field it is about.                        *)
(***************************************************************************)
EXTENDS Ral

CONSTANTS
  TokensOf,            \* the tokens of a name, as displayed
  Lower,               \* a token in lower case
  Short,               \* tokens of less than three characters
  Index,               \* the words of search/bkt-*.json: the keywords that begin a word, the
                       \* one that is the word, and the locations
  BucketOf,            \* the bucket of the keywords that begin with a token, or NoBucket
  SEARCH_CHOMP_SIZE, MAX_PATH_RESULTS, MAX_CONTENT_RESULTS,
  Queries,             \* what the reader types
  MaxSearches          \* bound: searches started

NoAnchor == "none"     \* a result about no field

\* The index is about nodes of the tree; tokens that can be looked for have a bucket or none.
ASSUME SearchAssumption ==
  /\ SEARCH_CHOMP_SIZE \in Nat \ {0} /\ MaxSearches \in Nat
  /\ MAX_PATH_RESULTS \in Nat /\ MAX_CONTENT_RESULTS \in Nat
  /\ Lower \in [DOMAIN Lower -> DOMAIN BucketOf]
  /\ \A n \in Nodes : TokensOf[Tree[n].name] \in Seq(DOMAIN Lower)
  /\ \A q \in Queries : q.addr \in Int /\ q.words \in Seq(Seq(DOMAIN BucketOf))
  /\ Index \in Seq(ToSet(Index))
  /\ \A w \in ToSet(Index) : w.at \in Seq(ToSet(w.at)) /\ \A l \in ToSet(w.at) : l.id \in Nodes

\* The fields of a register have different names, and none the one that means no field.
Tokens == DOMAIN Lower \cup DOMAIN BucketOf
ASSUME NamesAssumption ==
  /\ \A q \in Queries : /\ q.kind \in {"empty", "short", "address", "words"}
                       /\ q.keywords \in Seq(Seq(Tokens))
  /\ \A n \in Nodes : \A i, j \in DOMAIN Tree[n].fields :
       LET name(k) == Tree[n].fields[k].name
       IN  /\ TokensOf[name(i)] \in Seq(DOMAIN Lower) /\ name(i) # NoAnchor
           /\ name(i) = name(j) => i = j

VARIABLES
  active,              \* the search bar is open
  results,             \* with the number of the search that added each one
  selected_result,     \* 0: none
  controller,          \* the search that abortController belongs to, 0: none
  started,             \* searches started so far
  aborted,             \* those whose signal is aborted
  runs,                \* where each of them is
  bucket_files         \* the parts of the index fetched so far

searchVars == <<active, results, selected_result, controller, started, aborted, runs,
                bucket_files>>

NoBucket == -1
NoStack == <<>>        \* a result without indexes
NoQuery == [kind |-> "empty", addr |-> 0, keywords |-> <<>>, words |-> <<>>]
number_of_ids == Cardinality(Nodes)

Run(phase, query, at, found) ==
  [phase |-> phase, query |-> query, at |-> at, found |-> found,
   need |-> {}, matches |-> <<>>]
NoRun == Run("none", NoQuery, 0, 0)

Result(g, id, stack, anchor) == [gen |-> g, id |-> id, stack |-> stack, anchor |-> anchor]

-----------------------------------------------------------------------------
(* path_search.js                                                          *)

PathTokens ==
  [id \in Nodes |-> FlattenSeq([i \in DOMAIN get_ids_in_path[id] |->
                                   TokensOf[Tree[get_ids_in_path[id][i]].name]])]

Occurs(text, keyword, i) ==
  i + Len(keyword) - 1 <= Len(text) /\ SubSeq(text, i, i + Len(keyword) - 1) = keyword

\* The keywords are looked for from left to right, each behind the one before.
test_path(path, keywords) ==
  LET text == [i \in DOMAIN path |-> Lower[path[i]]]
      behind(start, keyword) ==
        LET hits == {i \in DOMAIN text : start > 0 /\ i >= start /\ Occurs(text, keyword, i)}
        IN  IF hits = {} THEN 0 ELSE Min(hits) + Len(keyword)
  IN  FoldLeft(behind, 1, keywords) # 0

\* A node, or else those of its fields, that match.
PathHits(g, id, keywords) ==
  IF test_path(PathTokens[id], keywords) THEN <<Result(g, id, NoStack, NoAnchor)>>
  ELSE FoldLeft(LAMBDA hits, f :
                  IF test_path(PathTokens[id] \o TokensOf[f.name], keywords)
                  THEN Append(hits, Result(g, id, NoStack, f.name)) ELSE hits,
                <<>>, Tree[id].fields)

\* The scan pauses before it tests a node that ends a chunk.
NextBreak(id) ==
  Min({j \in id..number_of_ids :
         j = number_of_ids \/ j % SEARCH_CHOMP_SIZE = SEARCH_CHOMP_SIZE - 1})

\* What the nodes from first to last add, after n results.
Chunk(g, first, last, n, keywords) ==
  FoldLeft(LAMBDA hits, id : IF n + Len(hits) >= MAX_PATH_RESULTS THEN hits
                             ELSE hits \o PathHits(g, id, keywords),
           <<>>, [i \in 1..last - first + 1 |-> first + i - 1])

-----------------------------------------------------------------------------
(* content_search.js                                                       *)

\* Words and, if there are several, their parts, once each and long enough.
get_query_words(words) ==
  LET parts(w) == IF Len(w) = 1 THEN <<w>> ELSE <<w>> \o [i \in DOMAIN w |-> <<w[i]>>]
  IN  FoldLeft(LAMBDA kept, w : IF w \in {<<t>> : t \in Short} \cup ToSet(kept) THEN kept
                                ELSE Append(kept, w),
               <<>>, FlattenSeq([i \in DOMAIN words |-> parts(words[i])]))

Bucket(keyword) == BucketOf[Head(keyword)]
Indexed(query) ==
  FoldLeft(LAMBDA kept, w : IF Bucket(w) = NoBucket THEN kept ELSE Append(kept, w),
           <<>>, get_query_words(query.words))

\* The locations of the words that begin with one of the keywords, in the order found.
Locations(keywords) ==
  FlattenSeq([k \in DOMAIN keywords |->
    FlattenSeq([w \in DOMAIN Index |->
      IF keywords[k] \notin Index[w].begins THEN <<>>
      ELSE [l \in DOMAIN Index[w].at |->
              [keyword |-> keywords[k], full |-> Index[w].word = keywords[k],
               place   |-> [id |-> Index[w].at[l].id, field |-> Index[w].at[l].field]]]])])

\* Mutant: one keyword is enough.
get_matches_any(keywords) ==
  FoldLeft(LAMBDA places, l : IF l.place \in ToSet(places) THEN places
                              ELSE Append(places, l.place), <<>>, Locations(keywords))

\* Places that all keywords lead to; first those of most whole words, then those of most
\* beginnings, then as found.
Ranked(found, keywords) ==
  LET at(p, full)  == {l.keyword : l \in {m \in ToSet(found) : m.place = p /\ m.full \in full}}
      whole(p)     == Cardinality(at(p, {TRUE}))
      begun(p)     == Cardinality(at(p, {FALSE}))
      before(p, q) == whole(p) > whole(q) \/ (whole(p) = whole(q) /\ begun(p) >= begun(q))
      behind(places, p) == 1 + Cardinality({i \in DOMAIN places : before(places[i], p)})
  IN  FoldLeft(LAMBDA places, l :
                 IF l.place \in ToSet(places) \/ at(l.place, BOOLEAN) # ToSet(keywords) THEN places
                 ELSE InsertAt(places, behind(places, l.place), l.place),
               <<>>, found)

get_matches(keywords) ==
  LET places == Ranked(Locations(keywords), keywords)
  IN  SubSeq(places, 1, Min({Len(places), MAX_CONTENT_RESULTS}))

\* The search is over, goes on with the index, or waits for parts of it.
StartContent(query, found) ==
  LET buckets == {Bucket(k) : k \in ToSet(Indexed(query))}
  IN  IF buckets = {} THEN Run("done", query, 0, found)
      ELSE IF buckets \subseteq bucket_files THEN Run("match", query, 0, found)
      ELSE [Run("fetch", query, 0, found) EXCEPT !.need = buckets \ bucket_files]

-----------------------------------------------------------------------------
(* address_search.js                                                       *)

PositionsFound(g, positions) ==
  FoldLeft(LAMBDA found, p : IF p = NoPosition THEN found
                             ELSE Append(found, Result(g, p.id, p.stack, NoAnchor)),
           <<>>, positions)

AddressHits(g, addr) ==
  PositionsFound(g, [i \in DOMAIN Roots |-> lookup_by_address(addr, Roots[i])])

-----------------------------------------------------------------------------
(* search.js                                                               *)

SearchInit ==
  /\ active = FALSE /\ results = <<>> /\ selected_result = 0
  /\ controller = 0 /\ started = 0 /\ aborted = {}
  /\ runs = [g \in 1..MaxSearches |-> NoRun]
  /\ bucket_files = {}

\* A run that has scanned up to the pause before node at, or to the end.
Scanned(query, at, found) ==
  IF at = number_of_ids \/ found >= MAX_PATH_RESULTS THEN StartContent(query, found)
  ELSE Run("path", query, at, found)

\* The old results are gone and the old search is told to stop, also by an empty query.
start_search(query) ==
  LET g    == started + 1
      last == NextBreak(0) - 1
  IN  /\ started < MaxSearches
      /\ started' = g /\ controller' = g
      /\ aborted' = aborted \cup ({controller} \ {0})
      /\ selected_result' = 0
      /\ CASE query.kind = "empty" -> results' = <<>> /\ UNCHANGED runs
           [] query.kind = "address" -> results' = AddressHits(g, query.addr) /\ UNCHANGED runs
           [] query.kind = "short" ->
                results' = <<>> /\ runs' = [runs EXCEPT ![g] = StartContent(query, 0)]
           [] OTHER ->
                \E hits \in {Chunk(g, 0, last, 0, query.keywords)} :
                  /\ results' = hits
                  /\ runs' = [runs EXCEPT ![g] = Scanned(query, last + 1, Len(hits))]
      /\ UNCHANGED bucket_files

open_search(query) ==
  /\ ~active /\ active' = TRUE
  /\ IF query = NoQuery
     THEN /\ results' = <<>> /\ selected_result' = 0
          /\ UNCHANGED <<controller, started, aborted, runs, bucket_files>>
     ELSE start_search(query)

close_search ==
  /\ active' = FALSE
  /\ results' = <<>> /\ selected_result' = 0
  /\ controller' = 0
  /\ aborted' = aborted \cup ({controller} \ {0})
  /\ UNCHANGED <<started, runs, bucket_files>>

onSearchInputUpdate(query) == active /\ start_search(query) /\ UNCHANGED active

Select(i) ==
  /\ selected_result' = i
  /\ UNCHANGED <<active, results, controller, started, aborted, runs, bucket_files>>

ArrowUp   == selected_result > 1 /\ Select(selected_result - 1)
ArrowDown == selected_result < Len(results) /\ Select(selected_result + 1)
onSearchResultMousemove(i) == i \in DOMAIN results /\ i # selected_result /\ Select(i)

\* The result that Enter opens, 0 if none.
Entered ==
  IF selected_result # 0 THEN selected_result
  ELSE IF Len(results) = 1 THEN 1 ELSE 0

-----------------------------------------------------------------------------
(* What a running search does when it wakes up.                            *)

Became(g, run, added) ==
  /\ runs' = [runs EXCEPT ![g] = run]
  /\ results' = results \o added
  /\ UNCHANGED <<active, selected_result, controller, started, aborted>>

Stop(g) == Became(g, Run("done", runs[g].query, 0, runs[g].found), <<>>)

ScanOn(g) ==
  LET r    == runs[g]
      last == NextBreak(r.at + 1) - 1
      hits == Chunk(g, r.at, last, r.found, r.query.keywords)
  IN  /\ r.phase = "path"
      /\ IF g \in aborted THEN Stop(g)
         ELSE Became(g, Scanned(r.query, last + 1, r.found + Len(hits)), hits)
      /\ UNCHANGED bucket_files

\* A part of the index arrives, for a search that may be aborted or have failed.
BucketArrives(g, b) ==
  LET r == runs[g]
  IN  /\ b \in r.need
      /\ bucket_files' = bucket_files \cup {b}
      /\ IF r.phase = "failed" \/ r.need # {b}
         THEN Became(g, [r EXCEPT !.need = @ \ {b}], <<>>)
         ELSE IF g \in aborted THEN Stop(g)
         ELSE Became(g, Run("match", r.query, 0, r.found), <<>>)

BucketFails(g, b) ==
  /\ b \in runs[g].need
  /\ Became(g, [runs[g] EXCEPT !.need = @ \ {b}, !.phase = "failed"], <<>>)
  /\ UNCHANGED bucket_files

MatchOn(g) ==
  LET r       == runs[g]
      matches == get_matches(Indexed(r.query))
  IN  /\ r.phase = "match"
      /\ IF g \in aborted \/ matches = <<>> THEN Stop(g)
         ELSE Became(g, [Run("preview", r.query, 1, r.found) EXCEPT !.matches = matches], <<>>)
      /\ UNCHANGED bucket_files

\* Mutant: the signal is not asked again after a preview has come.
PreviewArrivesAnyway(g) ==
  LET r == runs[g]
      m == r.matches[r.at]
  IN  /\ r.phase = "preview"
      /\ Became(g, IF r.at = Len(r.matches) THEN Run("done", r.query, 0, r.found)
                   ELSE [r EXCEPT !.at = @ + 1],
                <<Result(g, m.id, NoStack, m.field)>>)
      /\ UNCHANGED bucket_files

\* The previews are shown in order; a failure keeps back those behind it.
PreviewArrives(g) ==
  LET r == runs[g]
      m == r.matches[r.at]
  IN  /\ r.phase = "preview"
      /\ IF g \in aborted THEN Stop(g)
         ELSE Became(g, IF r.at = Len(r.matches) THEN Run("done", r.query, 0, r.found)
                        ELSE [r EXCEPT !.at = @ + 1],
                     <<Result(g, m.id, NoStack, m.field)>>)
      /\ UNCHANGED bucket_files

PreviewFails(g) ==
  /\ runs[g].phase = "preview"
  /\ Became(g, Run("failed", runs[g].query, 0, runs[g].found), <<>>)
  /\ UNCHANGED bucket_files

SearchWakes ==
  \E g \in 1..MaxSearches :
    \/ ScanOn(g) \/ MatchOn(g) \/ PreviewArrives(g) \/ PreviewFails(g)
    \/ \E b \in runs[g].need : BucketArrives(g, b) \/ BucketFails(g, b)

-----------------------------------------------------------------------------
(* Properties.                                                             *)

\* However many searches are still running or waiting for answers, every result on
\* display was found by the latest, and what Enter opens is one of them.
ResultsOfLatestQuery ==
  /\ \A i \in DOMAIN results : results[i].gen = started
  /\ selected_result \in 0..Len(results)
  /\ ~active => results = <<>>

\* The keywords occur in the text one behind the other.
InOrder(text, keywords) ==
  \E at \in [DOMAIN keywords -> DOMAIN text] :
    \A i \in DOMAIN keywords :
      /\ Occurs(text, keywords[i], at[i])
      /\ i > 1 => at[i] >= at[i-1] + Len(keywords[i-1])

Text(id, field) ==
  LET path == IF field = NoAnchor THEN PathTokens[id] ELSE PathTokens[id] \o TokensOf[field]
  IN  [i \in DOMAIN path |-> Lower[path[i]]]

PathsOf(query) ==
  {<<n, NoAnchor>> : n \in {m \in Nodes : InOrder(Text(m, NoAnchor), query.keywords)}}
  \cup UNION {{<<n, f.name>> : f \in {h \in ToSet(Tree[n].fields) :
                                        InOrder(Text(n, h.name), query.keywords)}} :
              n \in {m \in Nodes : ~InOrder(Text(m, NoAnchor), query.keywords)}}

\* The places where each keyword begins a word.
PlacesOf(query) ==
  LET at(k) == UNION {{<<l.id, l.field>> : l \in ToSet(w.at)} :
                      w \in {v \in ToSet(Index) : k \in v.begins}}
  IN  {p \in UNION {at(k) : k \in ToSet(Indexed(query))} :
         \A k \in ToSet(Indexed(query)) : p \in at(k)}

\* A search that ran to its end lists every path and every place that match, once each,
\* paths first, however often it paused and whatever other searches fetched meanwhile;
\* it lists fewer only at its limits.
SearchComplete ==
  \A g \in 1..MaxSearches :
    runs[g].phase = "done" /\ g = controller =>
      LET place == [i \in DOMAIN results |-> <<results[i].id, results[i].anchor>>]
          paths == SubSeq(place, 1, runs[g].found)
          texts == SubSeq(place, runs[g].found + 1, Len(place))
          all   == IF runs[g].query.kind = "words" THEN PathsOf(runs[g].query) ELSE {}
          some  == PlacesOf(runs[g].query)
      IN  /\ IsInjective(paths) /\ IsInjective(texts)
          /\ ToSet(paths) \subseteq all /\ ToSet(texts) \subseteq some
          /\ Len(paths) >= Min({Cardinality(all), MAX_PATH_RESULTS})
          /\ Len(texts) = Min({Cardinality(some), MAX_CONTENT_RESULTS})
=============================================================================
