----------------------------- MODULE MCCollect -----------------------------
(***************************************************************************)
(* Small programs for Collect, in four families:                           *)
(*   Routes     one function, two routes from two seeds to one sink, with  *)
(*              every choice of what the hops do, and of what the channel  *)
(*              and the policy ask for                                     *)
(*   Callers    two entry points that call one helper, which selects a     *)
(*              record by what it was handed                               *)
(*   Receivers  a response written to inside helpers of helpers, with every *)
(*              choice of who calls them with what                         *)
(*   Facts      one call and what the frontend may know or not know of it, *)
(*              against channels that ask about it                         *)
(***************************************************************************)
EXTENDS Collect

CONSTANT Families

MCValue == {"a", "b", "d", "v", "x", "y", "t"}
MCFn    == {"one", "two", "helper"}
MCCall  == 1 .. 4

Plain(s)     == [value |-> s, converter |-> FALSE, columns |-> {}]
Converted(s) == [value |-> s, converter |-> TRUE, columns |-> {}]

HopKind(form) ==
  CASE form = "assign" -> "rename" [] form = "property" -> "property"
    [] form = "call" -> "result" [] OTHER -> "other"

HopOf(e, w, c) ==
  [kind |-> IF c = NoCall THEN HopKind(w.form) ELSE "bind", to |-> e[2], site |-> c,
   fn |-> "one", transform |-> w.symbol # "", unstated |-> FALSE, reads |-> {}]

(* An escape that was written as the sanitizer's rule wants it.            *)
Way(form, symbol, resolution) ==
  [form |-> form, symbol |-> symbol, resolution |-> resolution, literals |-> {1}, input |-> {0},
   resolves |-> FALSE, harmless |-> FALSE, prefixed |-> form = "template",
   program |-> IF form = "enclose" THEN "tool" ELSE ""]
Assigned == Way("assign", "", "resolved")

Policy(relation, composition, unprojected) ==
  [id |-> IF relation THEN "owned" ELSE "flow", missing |-> FALSE, relation |-> relation,
   composition |-> composition, unprojected |-> unprojected]
NoPolicyShape == Policy(FALSE, FALSE, FALSE)

Channel(shapes) ==
  [context |-> IF "selector" \in shapes THEN "record-selector" ELSE IF "argv" \in shapes THEN "argv" ELSE "text",
   clearedBy |-> {[symbol |-> "escape", literals |-> {1}, input |-> {0}]},
   words |-> IF "words" \in shapes THEN {"select"} ELSE {}, prefix |-> "prefix" \in shapes,
   composition |-> "composition" \in shapes, whole |-> "whole" \in shapes,
   unenclosed |-> "unenclosed" \in shapes, enclosure |-> "enclosure" \in shapes,
   external |-> "external" \in shapes, known |-> "known" \in shapes,
   entryParam |-> IF "response" \in shapes THEN 1 ELSE -1,
   symbol |-> "symbol" \in shapes, language |-> "", pattern |-> FALSE,
   receiverFrom |-> IF "from" \in shapes THEN {"m"} ELSE {},
   receiverNotFrom |-> IF "not-from" \in shapes THEN {"m"} ELSE {},
   mutates |-> IF "mutates" \in shapes THEN 1 ELSE -1,
   target |-> IF "target" \in shapes THEN 0 ELSE -1,
   least |-> 1, most |-> IF "target" \in shapes THEN 2 ELSE 0, qualifiers |-> {},
   allArgs |-> "all" \in shapes, keyword |-> [k \in {"key"} |-> 1],
   indexes |-> IF "untrusted" \in shapes THEN {} ELSE {1},
   untrusted |-> "untrusted" \in shapes, unprojectedReceiver |-> "untrusted" \in shapes]

(* Tabulated as Taint wants it: hops in the order given.                   *)
Tabulated(seeds, edges, way, site, rest) ==
  [seeds    |-> seeds,
   hops     |-> [v \in Value |->
                   LET out == SelectSeq(edges, LAMBDA e : e[1] = v)
                   IN  [i \in DOMAIN out |-> HopOf(out[i], way[out[i]], site[out[i]])]],
   params   |-> [f \in Fn |-> IF f = "helper" THEN {"x"} ELSE {}],
   position |-> [v \in Value |-> 0],
   hands    |-> [c \in Call |-> <<>>],
   given    |-> [c \in Call |-> {}],
   behind   |-> [v \in Value |-> NoValue],
   filed    |-> [v \in Value |-> {}],
   into     |-> [v \in Value |-> {}],
   leads     |-> [v \in Value |-> IF v = "v" THEN "b" ELSE NoValue],
   authority |-> {}, writtenIn |-> [v \in Value |-> IF v = "v" THEN {"select"} ELSE {}],
   way       |-> way] @@ rest

Entry(name, unread, identity) ==
  [entry |-> name, anchored |-> TRUE, unread |-> unread, identity |-> identity]

Positional(i, v) == [name |-> "", index |-> i, value |-> v]

Sink(v, fn, resolution, type, beside, receiver, channel, policies) ==
  [call |-> 4, fn |-> fn, receiver |-> receiver, beside |-> beside,
   type |-> type, typeOrigin |-> "", builtins |-> {}, literals |-> {},
   external |-> TRUE, catastrophic |-> FALSE, count |-> 2, written |-> {},
   resolution |-> resolution, args |-> <<Positional(0, "a"), Positional(1, v)>>,
   channel |-> channel, policies |-> policies]

(* Nothing is said of receivers.                                           *)
NoReceivers ==
  [kind |-> [v \in Value \cup {NoValue} |-> "other"],
   index |-> [v \in Value |-> 0], ofEntry |-> [v \in Value |-> FALSE], passed |-> [v \in Value \cup {NoValue} |-> <<>>],
   madeOn |-> [v \in Value |-> NoValue], madeBy |-> [v \in Value |-> ""],
   assigned |-> [v \in Value |-> NoValue], language |-> "ts"]

NoIdentity ==
  [owner |-> [v \in Value |-> "one"], identity |-> {}, identified |-> FALSE,
   origin |-> [v \in Value |-> Entry("one", FALSE, FALSE)],
   injects |-> FALSE, checks |-> [f \in Fn |-> {}], vouched |-> {}]

(* a -> b -> v and a -> d -> v, b first or d first.                        *)
RouteEdges == {<<<<"a", "b">>, <<"a", "d">>, <<"b", "v">>, <<"d", "v">>>>,
               <<<<"a", "d">>, <<"a", "b">>, <<"d", "v">>, <<"b", "v">>>>}

MiddleWays ==
  {Assigned, Way("call", "escape", "resolved"), [Way("call", "escape", "resolved") EXCEPT !.literals = {}],
   [Way("call", "trim", "resolved") EXCEPT !.harmless = TRUE],
   Way("property", "", "unresolved"), Way("template", "", "probable")}

SeedChoices == {<<Plain("a")>>, <<Converted("a")>>, <<Converted("a"), Plain("d")>>}

(* What the channel asks, what the policy asks, whether the receiver's     *)
(* type is known.                                                          *)
Asks == {<<Channel({}), NoPolicyShape, "">>,
         <<Channel({"external", "selector"}), NoPolicyShape, "">>,
         <<Channel({"external", "selector"}), NoPolicyShape, "T">>,
         <<Channel({"composition", "unenclosed"}), NoPolicyShape, "T">>,
         <<Channel({"whole"}), Policy(FALSE, FALSE, TRUE), "T">>,
         <<Channel({"whole", "prefix"}), NoPolicyShape, "T">>,
         <<Channel({"words", "composition"}), NoPolicyShape, "T">>,
         <<Channel({"enclosure", "argv"}), NoPolicyShape, "T">>,
         <<Channel({"enclosure"}), Policy(FALSE, TRUE, FALSE), "T">>}

Routes ==
  {Tabulated(seeds, edges,
     [e \in Range(edges) |->
        CASE e = <<"a", "b">> -> w1 [] e = <<"a", "d">> -> w2
          [] e = <<"b", "v">> -> w3 [] OTHER -> Assigned],
     [e \in Range(edges) |-> NoCall],
     NoIdentity @@ NoReceivers @@
     [sinks |-> <<Sink("v", "one", "resolved", ask[3], {}, NoValue, ask[1], <<ask[2]>>)>>]) :
   seeds \in SeedChoices, edges \in RouteEdges, w1 \in MiddleWays, w2 \in MiddleWays,
   w3 \in {Way("enclose", "", "resolved")},
   ask \in Asks}

(* one: helper(a);  two: helper(b), or one(b);  helper(x) { find(x) }      *)
CallerEdges == {<<<<"a", "x">>, <<"b", "x">>, <<"x", "v">>>>,
                <<<<"a", "x">>, <<"x", "v">>, <<"b", "a">>>>}

Bound == Way("call", "", "resolved")

Guard(leaves) == {[leaves |-> leaves, values |-> {"d"}]}

Callers ==
  {Tabulated(seeds, edges,
     [e \in Range(edges) |-> IF e = <<"x", "v">> THEN Assigned ELSE Bound],
     [e \in Range(edges) |-> IF e = <<"x", "v">> THEN NoCall
                             ELSE IF e = <<"a", "x">> THEN 1 ELSE 2],
     NoReceivers @@
     [owner |-> [v \in Value |-> CASE v \in {"a"} -> "one" [] v \in {"b"} -> "two"
                                   [] OTHER -> "helper"],
      origin |-> [v \in Value |-> IF v = "b" THEN Entry("two", FALSE, given)
                                  ELSE Entry("one", unread, FALSE)],
      identity |-> {"d"}, identified |-> identified, injects |-> given,
      checks |-> [f \in Fn |-> IF f \in guarded THEN Guard(leaves) ELSE {}],
      vouched |-> {},
      sinks |-> <<Sink("v", "helper", "resolved", "T", beside, receiver,
                       Channel({"selector", "external"}),
                       <<Policy(TRUE, FALSE, FALSE), NoPolicyShape>>)>>]) :
   seeds \in {<<Plain("a")>>, <<Plain("b"), Plain("a")>>, <<Converted("a"), Plain("b")>>},
   edges \in CallerEdges, unread \in BOOLEAN, given \in BOOLEAN, identified \in BOOLEAN,
   guarded \in SUBSET {"one", "two"}, leaves \in BOOLEAN,
   beside \in {{}, {"d"}}, receiver \in {NoValue, "d"}}

(* d, v, x and y are parameters of helpers, t a method chained on d.       *)
Sites(p, next) ==
  {<<next>>, <<"a", next>>, <<next, "b">>, <<next, next>>, <<next, p>>, <<"b", NoValue>>}

Receivers ==
  {Tabulated(<<Plain("a")>>, <<>>, <<>>, <<>>,
     NoIdentity @@
     [kind |-> [v \in Value \cup {NoValue} |->
                  CASE v \in {"a", "d", "v", "x", "y"} -> "param"
                    [] v = "t" -> "result" [] OTHER -> "other"],
      index |-> [v \in Value |-> IF v = "a" THEN 1 ELSE 0],
      ofEntry |-> [v \in Value |-> v = "a"],
      passed |-> [v \in Value \cup {NoValue} |->
                    CASE v = "d" -> d [] v = "v" -> s [] v = "x" -> x [] v = "y" -> y
                      [] OTHER -> <<>>],
      madeOn |-> [v \in Value |-> IF v = "t" THEN "d" ELSE NoValue],
      sinks |-> <<Sink("a", "one", "resolved", "T", {}, "t", Channel({"response"}),
                       <<NoPolicyShape>>)>>] @@ NoReceivers) :
   d \in Sites("d", "v"), s \in Sites("v", "x"), x \in Sites("x", "y"),
   y \in {<<"a">>, <<"a", "b">>, <<"a", "y">>}}

Facts ==
  {Tabulated(<<Plain("a"), Plain("t")>>, <<>>, <<>>, <<>>,
     NoIdentity @@
     [kind |-> [v \in Value \cup {NoValue} |-> IF v = "t" THEN "result" ELSE "other"],
      madeBy |-> [v \in Value |-> IF v = "t" THEN made ELSE ""],
      assigned |-> [v \in Value |-> IF v = "x" THEN "t" ELSE NoValue],
      sinks |->
        <<[Sink("a", "one", "resolved", type, {}, receiver, Channel(shapes),
                <<NoPolicyShape>>) EXCEPT
             !.typeOrigin = origin, !.builtins = builtins, !.literals = literals,
             !.args = Append(@, [name |-> "key", index |-> 2, value |-> "a"]),
             !.count = 3 - Cardinality(literals)]>>] @@ NoReceivers) :
   made \in {"m", "n"}, receiver \in {"t", "x"}, type \in {"", "__object", "T"},
   origin \in {"", "builtin", "module"}, builtins \in {{}, {1}}, literals \in {{}, {0}},
   shapes \in {{"external", "mutates"}, {"known"}, {"from", "symbol"}, {"not-from", "all"},
               {"target", "external"}, {"untrusted"}}}

MCProgram == (IF "routes" \in Families THEN Routes ELSE {})
             \cup (IF "callers" \in Families THEN Callers ELSE {})
             \cup (IF "receivers" \in Families THEN Receivers ELSE {})
             \cup (IF "facts" \in Families THEN Facts ELSE {})
=============================================================================
