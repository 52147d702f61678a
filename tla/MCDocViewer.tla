---------------------------- MODULE MCDocViewer ----------------------------
(***************************************************************************)
(* DocViewer on the nodes of data/ral-data-0.json, without four of the six *)
(* controller registers, and with four bits where the data have 32.  The   *)
(* four PWM channels are an array of two dimensions with gaps between its  *)
(* elements, and COUNT_COMPARE an array inside it: layouts that the viewer *)
(* handles and this file does not have.  The search index holds the words  *)
(* of bkt-0.json that the queries begin, for the nodes above.  Chunks of   *)
(* three nodes take the place of 100, limits of three results that of 100  *)
(* and 25.  Each session mixes the kinds of events that act on the same    *)
(* state.                                                                  *)
(***************************************************************************)
EXTENDS DocViewer

MCNodes == 0..7
MCRoots == <<0>>

Node(parent, children, name, offset, size, fields) ==
  [parent |-> parent, children |-> children, name |-> name, offset |-> offset,
   size |-> size, dims |-> <<>>, stride |-> 0, fields |-> fields]
Field(name, lsb, msb, disp, encode) ==
  [name |-> name, lsb |-> lsb, msb |-> msb, reset |-> 0, disp |-> disp, encode |-> encode]
Flag(name, bit) == Field(name, bit, bit, "H", FALSE)

MCTree ==
  (0 :> Node(NoNode, <<1, 5>>, "drone_controller_reg", 0, 104, <<>>)) @@
  (1 :> [Node(0, <<2, 3, 4>>, "pwm_ch", 0, 16, <<>>) EXCEPT !.dims = <<2, 2>>, !.stride = 18]) @@
  (2 :> Node(1, <<>>, "CONF", 0, 4, <<Field("MODE", 0, 1, "E", TRUE),
                                      Field("CLK_DIV", 2, 3, "E", TRUE)>>)) @@
  (3 :> Node(1, <<>>, "COUNT_TOP", 4, 4, <<Field("DATA", 0, 3, "H", FALSE)>>)) @@
  (4 :> [Node(1, <<>>, "COUNT_COMPARE", 8, 4, <<Field("DATA", 0, 3, "H", FALSE)>>)
           EXCEPT !.dims = <<2>>, !.stride = 4]) @@
  (5 :> Node(0, <<6, 7>>, "controller", 80, 24, <<>>)) @@
  (6 :> Node(5, <<>>, "CMD", 0, 4, <<Flag("RUN_CALC", 0), Flag("UPDATE_CONTROLLER", 1),
                                     Flag("UPDATE_CONTROLLER_REFERENCE", 2),
                                     Flag("UPDATE_CONTROLLER_STATE", 3)>>)) @@
  (7 :> Node(5, <<>>, "K_MATRIX", 4, 4, <<Field("POINTER", 0, 3, "H", FALSE)>>))

MCTokensOf ==
  [drone_controller_reg |-> <<"drone", "controller", "reg">>, pwm_ch |-> <<"pwm", "ch">>,
   CONF |-> <<"CONF">>, COUNT_TOP |-> <<"COUNT", "TOP">>,
   COUNT_COMPARE |-> <<"COUNT", "COMPARE">>, controller |-> <<"controller">>,
   CMD |-> <<"CMD">>, K_MATRIX |-> <<"K", "MATRIX">>, MODE |-> <<"MODE">>,
   CLK_DIV |-> <<"CLK", "DIV">>, DATA |-> <<"DATA">>, RUN_CALC |-> <<"RUN", "CALC">>,
   UPDATE_CONTROLLER |-> <<"UPDATE", "CONTROLLER">>,
   UPDATE_CONTROLLER_REFERENCE |-> <<"UPDATE", "CONTROLLER", "REFERENCE">>,
   UPDATE_CONTROLLER_STATE |-> <<"UPDATE", "CONTROLLER", "STATE">>, POINTER |-> <<"POINTER">>]

UpperCase ==
  [CONF |-> "conf", COUNT |-> "count", TOP |-> "top", COMPARE |-> "compare", CMD |-> "cmd",
   K |-> "k", MATRIX |-> "matrix", MODE |-> "mode", CLK |-> "clk", DIV |-> "div",
   DATA |-> "data", RUN |-> "run", CALC |-> "calc", UPDATE |-> "update",
   CONTROLLER |-> "controller", REFERENCE |-> "reference",
   POINTER |-> "pointer"]
MCLower == UpperCase @@ ("STATE" :> "state") @@ [drone |-> "drone", controller |-> "controller", reg |-> "reg",
                         pwm |-> "pwm", ch |-> "ch"]

At(id, field) == [id |-> id, field |-> field]
Word(word, begins, at) == [word |-> word, begins |-> begins, at |-> at]
count   == <<"count">>
compare == <<"compare">>
matrix  == <<"matrix">>
count_compare == <<"count", "compare">>

MCIndex ==
  <<Word(count, {count}, <<At(4, NoAnchor)>>),
    Word(count_compare, {count, count_compare}, <<At(4, NoAnchor)>>),
    Word(<<"counter">>, {count},
         <<At(3, NoAnchor), At(4, NoAnchor), At(4, NoAnchor), At(3, NoAnchor)>>),
    Word(compare, {compare}, <<At(4, NoAnchor), At(4, NoAnchor)>>),
    Word(<<"pointer">>, {<<"pointer">>},
         <<At(7, NoAnchor), At(7, NoAnchor), At(7, "POINTER")>>),
    Word(matrix, {matrix}, <<At(7, NoAnchor), At(7, NoAnchor), At(6, "UPDATE_CONTROLLER")>>),
    Word(<<"pwm">>, {<<"pwm">>}, <<At(1, NoAnchor), At(2, "MODE")>>)>>

MCShort == {"k", "ch"}

Typed(kind, words) == [kind |-> kind, addr |-> 0, keywords |-> words, words |-> words]
Address(addr) == [kind |-> "address", addr |-> addr, keywords |-> <<>>, words |-> <<>>]
MCQueries ==
  {Typed("words", <<count>>), Typed("words", <<count, compare>>),
   Typed("words", <<<<"process">>, matrix>>), Typed("short", <<<<"k">>>>),
   Address(30), Address(17), Address(-1)}

\* There is one file.  The hash of "pro" lies behind its limit, those of the others below.
MCBucketOf == ("process" :> NoBucket) @@ [t \in {MCLower[u] : u \in DOMAIN MCLower} |-> 0]

MCDataFiles == {0, 1}
Step(name, idxs) == [name |-> name, idxs |-> idxs]
MCInitialPaths ==
  {NoPath,
   <<Step("drone_controller_reg", <<>>), Step("pwm_ch", <<5>>), Step("COUNT_TOP", <<>>)>>}

MCIndexTexts == {-1, 1, 2}
MCFieldTexts == {Garbage, -1, 2}
MCRegTexts == {Garbage, 21}

Session(kinds, max) == [kinds |-> kinds, max |-> max]
MCSessions ==
  {Session({"link", "tree", "fold", "history"}, 3), Session({"link", "parent", "history"}, 4),
   Session({"link", "history", "index"}, 4), Session({"link", "edit", "index"}, 4),
   Session({"parent", "history", "edit"}, 4), Session({"search", "history"}, 3),
   Session({"search", "select"}, 3)}

=============================================================================
