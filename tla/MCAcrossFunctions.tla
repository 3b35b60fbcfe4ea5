------------------------- MODULE MCAcrossFunctions --------------------------
(***************************************************************************)
(* The statements the rules of AcrossFunctions look for, in every          *)
(* placement on the block graphs of frontends/typescript/src/lower.ts.     *)
(***************************************************************************)
EXTENDS AcrossFunctions

CONSTANT Families   \* which families to check

MCBlock == 1 .. 6
MCValue == {"p", "q", "a", "b", "c"}

Shape == [
  (* if (a) {2} {3} *)
  diamond |-> [succs |-> << <<2, 3>>, <<3>>, <<>> >>, loops |-> {}],
  (* if (a) { return } {4}; 3 is the orphan behind the return *)
  returns |-> [succs |-> << <<2, 4>>, <<>>, <<4>>, <<>> >>, loops |-> {}],
  (* if (a) {2} else {3} {4} *)
  either  |-> [succs |-> << <<2, 3>>, <<4>>, <<4>>, <<>> >>, loops |-> {}],
  (* while (2) {3} {4} *)
  loop    |-> [succs |-> << <<2>>, <<3, 4>>, <<2>>, <<>> >>, loops |-> {2}],
  (* if (a) {2: if (b) return 3} else {5} {6}; 4 is the rest of the first arm *)
  guarded |-> [succs |-> << <<2, 5>>, <<3, 4>>, <<>>, <<6>>, <<6>>, <<>> >>, loops |-> {}] ]

Live(s) == DOMAIN Shape[s].succs \ IF s = "returns" THEN {3} ELSE {}
Branches(s) == {b \in DOMAIN Shape[s].succs : Len(Shape[s].succs[b]) > 1}

(* The calls in the blocks given to them; 0 leaves a call out.             *)
Placed(s, calls, where) ==
  LET kept == SelectSeq([k \in DOMAIN calls |-> k], LAMBDA k : where[k] # 0)
      TextOf(b) == LET own == SelectSeq([n \in DOMAIN kept |-> n], LAMBDA n : where[kept[n]] = b)
                   IN  [n \in DOMAIN own |-> <<"call", own[n]>>]
  IN  [entry |-> 1, order |-> [b \in DOMAIN Shape[s].succs |-> b], succs |-> Shape[s].succs,
       loopHeader |-> Shape[s].loops,
       calls |-> [n \in DOMAIN kept |->
                    [does |-> calls[kept[n]][1], name |-> calls[kept[n]][2],
                     args |-> calls[kept[n]][3], result |-> calls[kept[n]][4],
                     block |-> where[kept[n]]]],
       text |-> [b \in DOMAIN Shape[s].succs |-> TextOf(b)],
       params |-> {"p", "q"}, flows |-> <<>>, reads |-> <<>>, peers |-> <<>>, compares |-> <<>>,
       outer |-> {}, work |-> {}, route |-> "x", rule |-> "peers"]

(* Every placement that puts call k into one of allowed[k].                *)
Placements(allowed, blocks) ==
  LET Upto[n \in 0 .. Len(allowed)] ==
        IF n = 0 THEN {<<>>}
        ELSE {Append(w, b) : w \in Upto[n - 1], b \in allowed[n] \cap ({0} \cup blocks)}
  IN  Upto[Len(allowed)]

Anywhere == 1 .. 6

(* canEdit of one value, canEdit or canSee of another, delete of a third,  *)
(* in functions that make them out of p and q in some way.                 *)
PeersFamily(shapes) ==
  UNION {UNION {
    {[Placed(s, <<<<"reshape", "dumps", <<"a">>, "c">>,
                  <<"decide", "canEdit", way.first, NoValue>>,
                  <<"decide", way.name, way.second, NoValue>>,
                  <<"operate", "delete", way.on, NoValue>>>>, w)
      EXCEPT !.flows = way.flows, !.reads = way.reads, !.peers = peers] :
       w \in Placements(<<{1}, Anywhere, {0, 1, 2, 3, 4}, Anywhere>>, DOMAIN Shape[s].succs)} :
      s \in shapes, peers \in {<<{"canEdit"}, {"canEdit"}>>,
                             <<{"canEdit", "canSee"}, {"canEdit"}, {"canSee"}, {}>>}} :
    way \in {[first |-> <<"p">>, second |-> <<"q">>, name |-> "canEdit", on |-> <<"p">>,
            flows |-> <<>>, reads |-> <<>>],
           [first |-> <<"p">>, second |-> <<"a">>, name |-> "canSee", on |-> <<"c">>,
            flows |-> <<[from |-> "p", to |-> "b", assigns |-> TRUE]>>,
            reads |-> <<[base |-> "b", to |-> "a"]>>],
           [first |-> <<"q", "p">>, second |-> <<"c">>, name |-> "canEdit", on |-> <<"b">>,
            flows |-> <<[from |-> "p", to |-> "a", assigns |-> FALSE],
                        [from |-> "c", to |-> "b", assigns |-> TRUE]>>, reads |-> <<>>]}}

-----------------------------------------------------------------------------
Asks(of, value, eq, b) == [of |-> of, value |-> value, eq |-> eq, block |-> b]
Says(of, value, equal) == [of |-> of, value |-> value, equal |-> equal]

LimiterFamily(shapes) ==
  UNION {
    {[Placed(s, <<<<"count", "hit", <<>>, NoValue>>, <<"count", "hit", <<>>, NoValue>>>>, w)
      EXCEPT !.rule = "limiter", !.compares = compares, !.outer = outer, !.work = work] :
       w \in Placements(<<{0} \cup Anywhere, {0, 2, 4}>>, Live(s)),
       compares \in {[k \in 1 .. Cardinality(Branches(s)) |->
                      Asks(of[k], value, eq, SetToSeq(Branches(s))[k])] :
                     of \in [1 .. Cardinality(Branches(s)) -> {"path", "query"}],
                     value \in Content, eq \in BOOLEAN},
       outer \in {{}, {Says("path", "x", FALSE)}, {Says("query", "x", TRUE)}},
       work \in {{}, {Says("query", "x", TRUE)}, {Says("query", "y", FALSE), Says("body", "x", TRUE)}}} :
    s \in shapes}

MCLoweredFn ==
  (IF "peers"   \in Families THEN PeersFamily({"returns", "either", "loop"})   ELSE {}) \cup
  (IF "limiter" \in Families THEN LimiterFamily({"diamond", "returns", "either", "loop"}) ELSE {}) \cup
  (IF "nested"  \in Families THEN LimiterFamily({"guarded"}) ELSE {})
=============================================================================
