---------------------------- MODULE MCAdmission ----------------------------
(***************************************************************************)
(* Handlers and selectors that ask before they use a value: every place of *)
(* the two assignments, of the question and of the operation on the block  *)
(* graphs of frontends/typescript/src/lower.ts; every way a branch can be  *)
(* about the answer; every kind of callee; and the order of the headers.   *)
(***************************************************************************)
EXTENDS Admission

CONSTANT Families

MCBlock == 1 .. 6
MCPath  == {"to", "other"}
MCValue == {"body", "to1", "to2", "other1", "own", "x", "u"}

Shape == [
  (* if (1) { 2: return } 4; 3 is the orphan behind the return *)
  guard  |-> [succs |-> << <<2, 4>>, <<>>, <<4>>, <<>> >>, asks |-> 1],
  (* if (1) {2} else {3} 4 *)
  branch |-> [succs |-> << <<2, 3>>, <<4>>, <<4>>, <<>> >>, asks |-> 1],
  (* for (2) { if (3) { 4: return } 5 } 6 *)
  search |-> [succs |-> << <<2>>, <<3, 6>>, <<4, 5>>, <<>>, <<2>>, <<>> >>, asks |-> 3],
  (* if (1) { 2: return }  3: if (3) { 4 }  5 *)
  rewrite |-> [succs |-> << <<2, 3>>, <<>>, <<4, 5>>, <<5>>, <<>> >>, asks |-> 1] ]

-----------------------------------------------------------------------------
(* Callees.  p is what they are handed, q what they compare it to.         *)
Callee == [param |-> "p", own |-> {}, literals |-> {}, given |-> {"p"},
              assumed |-> {}, callbacks |-> {}, bounds |-> {}, saysYes |-> TRUE,
              flows |-> <<>>, leaf |-> [v \in {"p", "ph", "q", "qs"} |-> ""],
              compares |-> << [op |-> "===", left |-> "p", right |-> "q",
                               settles |-> "guard"] >>]
Edge(f, t, k) == [from |-> f, to |-> t, kind |-> k]
Leaf(l) == [v \in {"p", "ph", "q", "qs"} |-> IF v = "ph" THEN l ELSE ""]
OnPart(l) == [own |-> {"q"}, flows |-> <<Edge("p", "ph", "property")>>, leaf |-> Leaf(l),
              compares |-> << [op |-> "===", left |-> "ph", right |-> "q", settles |-> "return"] >>]
Extend(new, old) == [k \in DOMAIN new \cup DOMAIN old |-> IF k \in DOMAIN new THEN new[k] ELSE old[k]]
Made(c) == Extend(c, Callee)

Listed == Made([own |-> {"q"}])
Callees ==
  { Listed, Made(OnPart("host")), Made(OnPart("pathname")),
    Made([own |-> {"q"}, flows |-> <<Edge("qs", "q", "property")>>]),
    Made([literals |-> {"q"}]),
    Made([given |-> {"p", "q"}]),
    Made([given |-> {"p", "q"}, assumed |-> {"q"}]),
    (* for (const q of qs), the list looked up, or sent along *)
    Made([given |-> {"p", "qs"}, assumed |-> {"qs"}, own |-> {"q"}, bounds |-> {"qs"},
          flows |-> <<Edge("qs", "q", "property")>>]),
    Made([given |-> {"p", "qs"}, bounds |-> {"qs"}, flows |-> <<Edge("qs", "q", "property")>>]),
    (* qs.some(q => ...) *)
    Made([given |-> {"p", "qs"}, assumed |-> {"qs"}, own |-> {"q"},
          callbacks |-> {[param |-> "q", receiver |-> "qs", note |-> "element"]},
          flows |-> <<Edge("qs", "q", "call")>>]),
    Made([given |-> {"p", "qs"},
          callbacks |-> {[param |-> "q", receiver |-> "qs", note |-> "element"]},
          flows |-> <<Edge("qs", "q", "call")>>]),
    Made([own |-> {"q"}, compares |-> << [op |-> "===", left |-> "p", right |-> "q", settles |-> "aside"] >>]),
    Made([own |-> {"q"}, compares |-> << [op |-> "!==", left |-> "p", right |-> "q", settles |-> "guard"] >>]) }

(* if (u === BAD) return false; return true                                *)
DenyList == Made([own |-> {"q"}, saysYes |-> FALSE])

Asks(kind, branch, callee) == [kind |-> kind, branch |-> branch, callee |-> callee, excludes |-> FALSE,
                               receiver |-> "", name |-> "", value |-> "", context |-> ""]
Does(kind, context) == Extend([kind |-> kind, context |-> context, receiver |-> "res"],
                              Asks("", "", Listed))

-----------------------------------------------------------------------------
(* first: x = body.to.  second: x = body.other, or x = own data.  ask: the *)
(* check, of x or of body.to read again.  use: the operation on x.         *)
Place(shape, where, order, second, asked, ask, use) ==
  LET S    == Shape[shape]
      Own  == DOMAIN S.succs
      pos  == [s \in {"first", "second", "use"} |-> CHOOSE k \in 1..3 : order[k] = s]
      line(s) == IF s = "ask" THEN 10 * S.asks + 5 ELSE 10 * where[s] + pos[s]
      at_(s)  == IF s = "ask" THEN S.asks ELSE where[s]
      F(f, t, s) == [from |-> f, to |-> t, grows |-> second = "appended" /\ t = "x" /\ s = "second",
                     block |-> at_(s), line |-> line(s)]
      sites == [first  |-> << <<"flow", 1>>, <<"flow", 2>> >>,
                second |-> << <<"flow", 4>>, <<"flow", 5>> >>,
                ask    |-> << <<"flow", 3>>, <<"call", 1>> >>,
                use    |-> << <<"call", 2>> >>]
      part(b, k) == IF where[order[k]] = b THEN sites[order[k]] ELSE <<>>
  IN [entry |-> 1, order |-> [b \in Own |-> b], succs |-> S.succs, loopHeader |-> {},
      values |-> <<"x">>, plain |-> {"x"}, captured |-> {}, raises |-> {},
      flows |-> << F("body", "to1", "first"), F("to1", "x", "first"), F("body", "to2", "ask"),
                   F("body", "other1", "second"),
                   F(IF second = "own" THEN "own" ELSE "other1", "x", "second") >>,
      kinds |-> << "property", "assign", "property", "property", "assign" >>,
      path  |-> [v \in MCValue |-> IF v = "other1" THEN "other" ELSE "to"],
      calls |-> << [reads |-> <<asked>>, block |-> S.asks, line |-> line("ask")],
                   [reads |-> <<"x">>, block |-> where["use"], line |-> line("use")] >>,
      role |-> << ask, use >>,
      seeds |-> {"body"}, selected |-> {}, elements |-> {}, params |-> {}, requests |-> [Path -> Content],
      text |-> [b \in Own |-> part(b, 1) \o part(b, 2) \o part(b, 3)
                                \o (IF b = S.asks THEN sites["ask"] ELSE <<>>)]]

Orders == { <<"first", "second", "use">>, <<"second", "first", "use">>, <<"first", "use", "second">> }
Redirect == Does("sink", "redirect")

(* Where everything stands.                                                *)
Uses(shape) == IF shape = "search" THEN {4, 6} ELSE {2, 4}
Wheres(shape) ==
  {[first |-> a, second |-> b, use |-> c] : a \in {1, 2, 4}, b \in DOMAIN Shape[shape].succs, c \in Uses(shape)}

(* The two assignments are not behind one answer.                          *)
Apart(w) == w.first = 1 \/ w.second # w.first
Asked(w) == IF w.first = 1 THEN {"x", "to2"} ELSE {"to2"}

(* In every place, each assignment apart from the other or both together.  *)
Placed(shapes, wheres(_), seconds, branches) ==
  UNION {UNION {{Place(shape, w, o, second, asked, Asks("local", branch, Listed), Redirect) :
            o \in Orders, second \in seconds, asked \in Asked(w), branch \in branches} :
         w \in wheres(shape)} : shape \in shapes}
Apiece(shape)   == {w \in Wheres(shape) : Apart(w)}
Together(shape) == Wheres(shape) \ Apiece(shape)
Placements ==
  Placed({"guard", "branch"}, Apiece, {"other", "own"}, {"truthy", "falsy"})
    \cup Placed({"guard", "branch"}, Together, {"own"}, {"truthy", "falsy"})
    \cup Placed({"search"}, Wheres, {"own"}, {"truthy"})
    \cup Placed({"search"}, Apiece, {"other"}, {"truthy"})

(* What is asked, and what the branch is about.                            *)
Branches == {"truthy", "falsy", "both", "either", ""}
Simple == [first |-> 1, second |-> 3, use |-> 4]
Questions(callees) ==
  {Place("guard", Simple, <<"first", "second", "use">>, "own", asked, Asks("local", branch, callee), Redirect) :
     asked \in {"x", "to2", "other1"}, branch \in Branches, callee \in callees}
  \cup {Place("branch", w, <<"second", "first", "use">>, "own", "to2", Asks("local", branch, callee), Redirect) :
     w \in {[first |-> 2, second |-> s, use |-> 4] : s \in {1, 2, 3}},
     branch \in Branches, callee \in callees}

Patterns ==
  UNION {{Place(shape, w, o, "other", "x",
                Extend([excludes |-> ex], Asks("pattern", branch, Listed)), Does("sink", "path")) :
            w \in {v \in Wheres(shape) : v.first = 1}, o \in Orders,
            branch \in {"truthy", "falsy"}, ex \in BOOLEAN} : shape \in DOMAIN Shape \ {"rewrite"}}

(* The guard passed, another body is assigned on a branch behind it: both  *)
(* reads keep the merged value.                                            *)
Rewritten ==
  {Place("rewrite", [first |-> 1, second |-> 4, use |-> 5], <<"first", "second", "use">>,
         "other", "x", a[1], a[2]) :
     a \in {<<Extend([excludes |-> TRUE], Asks("pattern", "falsy", Listed)), Does("sink", "path")>>,
            <<Asks("local", "falsy", Listed), Redirect>>}}

(* A function that answers: with the parameter, an element of the list it  *)
(* was searched in, or something of its own.                               *)
Selector(shape, outs, branch, callee) ==
  LET S   == Shape[shape]
      Own == DOMAIN S.succs
      ends == {b \in Own : S.succs[b] = <<>>}
      nth(b) == 1 + Cardinality({e \in ends : e <= b})
      outOf(k) == CHOOSE b \in ends : nth(b) = k
  IN [entry |-> 1, order |-> [b \in Own |-> b], succs |-> S.succs, loopHeader |-> {},
      values |-> <<>>, plain |-> {}, captured |-> {}, raises |-> {},
      flows |-> << [from |-> "body", to |-> "x", grows |-> FALSE, block |-> 1, line |-> 1] >>,
      kinds |-> << "assign" >>, path |-> [v \in MCValue |-> "to"],
      calls |-> << [reads |-> <<"body">>, block |-> S.asks, line |-> 2] >>
                \o [k \in 1 .. Cardinality(ends) |->
                      [reads |-> <<outs[k]>>, block |-> outOf(k + 1), line |-> 3]],
      role |-> << Asks("local", branch, callee) >> \o [k \in 1 .. Cardinality(ends) |-> Does("return", "")],
      seeds |-> {"body", "u"}, selected |-> {}, elements |-> {"u"}, params |-> {"body"},
      requests |-> {r \in [Path -> Content] : r["other"] = "listed"},
      text |-> [b \in Own |-> (IF b = 1 THEN << <<"flow", 1>> >> ELSE <<>>)
                               \o (IF b = S.asks THEN << <<"call", 1>> >> ELSE <<>>)
                               \o (IF b \in ends THEN << <<"call", nth(b)>> >> ELSE <<>>)]]
Selectors(shapes, branches) ==
  {Selector(shape, outs, branch, callee) :
     shape \in shapes, outs \in [1..2 -> {"x", "u", "own"}],
     branch \in branches, callee \in Callees}

(* Two headers and a body; `worse` also lets a later header, on some way   *)
(* or on every way, take back what an earlier one said.                    *)
HeaderKinds == {<<"content-type", "application/json">>, <<"content-type", "text/html">>,
                <<"content-security-policy", "sandbox">>, <<"content-security-policy", "default-src">>,
                <<"content-disposition", "attachment">>}
Writes(h, receiver) == Extend([kind |-> "header", name |-> h[1], value |-> h[2], receiver |-> receiver],
                              Asks("", "", Listed))
Page(shape, w, h1, h2, receiver) ==
  LET S   == Shape[shape]
      Own == DOMAIN S.succs
      C(k, b) == [reads |-> <<"body">>, block |-> b, line |-> 10 * b + k]
  IN [entry |-> 1, order |-> [b \in Own |-> b], succs |-> S.succs, loopHeader |-> {},
      values |-> <<>>, plain |-> {}, captured |-> {}, raises |-> {}, flows |-> <<>>, kinds |-> <<>>,
      path |-> [v \in MCValue |-> "to"],
      calls |-> << C(1, w[1]), C(2, w[2]), C(w[4], w[3]) >>,
      role |-> << Writes(h1, receiver), Writes(h2, "res"), Does("sink", "html") >>,
      seeds |-> {"body"}, selected |-> {}, elements |-> {}, params |-> {"body"},
      requests |-> {[p \in Path |-> "foreign"]},
      text |-> [b \in Own |->
         (IF w[3] = b /\ w[4] = 0 THEN << <<"call", 3>> >> ELSE <<>>)
         \o (IF w[1] = b THEN << <<"call", 1>> >> ELSE <<>>) \o (IF w[2] = b THEN << <<"call", 2>> >> ELSE <<>>)
         \o (IF w[3] = b /\ w[4] = 3 THEN << <<"call", 3>> >> ELSE <<>>)]]
Worse(h1, h2) == h1[1] = h2[1] /\ h2 \in {<<"content-type", "text/html">>, <<"content-security-policy", "default-src">>}
Pages(worse) ==
  UNION {{Page(shape, <<b1, b2, u, l>>, h[1], h[2], r) :
            b1 \in {1, 2, 4}, b2 \in {1, 3, 4}, u \in {4}, l \in {0, 3}, r \in {"res", "reply"},
            h \in {g \in HeaderKinds \X HeaderKinds :
                     /\ Worse(g[1], g[2]) => worse
                     /\ Worse(g[2], g[1]) => worse}} : shape \in {"guard", "branch"}}

-----------------------------------------------------------------------------
(* The families behind "pages" are in no run: each breaks a property.      *)
MCLoweredFn ==
  (IF "placements" \in Families THEN Placements ELSE {})
    \cup (IF "questions" \in Families THEN Questions(Callees) ELSE {})
    \cup (IF "patterns"  \in Families THEN Patterns ELSE {})
    \cup (IF "selectors" \in Families THEN Selectors({"guard", "branch"}, Branches)
                                         \cup Selectors({"search"}, {"truthy", "either", ""}) ELSE {})
    \cup (IF "pages"     \in Families THEN Pages(FALSE) ELSE {})
    \cup (IF "replaced"  \in Families THEN Pages(TRUE) ELSE {})
    \cup (IF "rewritten" \in Families THEN Rewritten ELSE {})
    \cup (IF "together"  \in Families THEN Placed({"guard", "branch"}, Together, {"other"}, {"truthy", "falsy"}) ELSE {})
    \cup (IF "searched"  \in Families THEN Placed({"search"}, Wheres, {"own"}, {"falsy"})
                                         \cup Selectors({"search"}, {"falsy", "both"}) ELSE {})
    \cup (IF "denied"    \in Families THEN Questions({DenyList}) ELSE {})
    \cup (IF "appended"  \in Families THEN Placed({"guard", "branch"}, Apiece, {"appended"}, {"truthy", "falsy"}) ELSE {})
============================================================================
