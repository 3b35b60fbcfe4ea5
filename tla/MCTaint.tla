------------------------------ MODULE MCTaint ------------------------------
(***************************************************************************)
(* Small programs for Taint, in three families:                            *)
(*   Callers    a function f with two call sites and an external call,     *)
(*              with every choice of the flows between them                *)
(*   Rows       a value a store read answered with, and what is done to it *)
(*   Literals   an object literal handed to a function that takes it apart *)
(* In every family the seeds come in every order.                          *)
(***************************************************************************)
EXTENDS TaintHops

CONSTANT Families   \* the families a configuration looks at

MCFn   == {"main", "f"}
MCCall == 1 .. 3

Flow(from, to, kind) == [from |-> from, to |-> to, kind |-> kind, column |-> "c"]
Plain(v)     == [value |-> v, converter |-> FALSE, columns |-> {}]
Converted(v) == [value |-> v, converter |-> TRUE, columns |-> {}]
Row(v)       == [value |-> v, converter |-> FALSE, columns |-> {"c"}]

Site(local, args, result) ==
  [local |-> local, fn |-> "f", args |-> args, receiver |-> NoValue,
   result |-> result, transform |-> FALSE, read |-> FALSE, completes |-> <<>>,
   callback |-> NoValue]

Arg(i, v) == [index |-> i, value |-> v]
NoEntries == [v \in Value |-> <<>>]
Orders(seeds) == UNION {SetToSeqs(S) : S \in {T \in SUBSET seeds : Cardinality(T) <= 2}}
Chosen(flows) == {SelectSeq(flows, LAMBDA f : f \in S) : S \in SUBSET ToSet(flows)}

(* ra = f(a);  e = escape(b);  rb = f(d);  function f(x) { return r }      *)
Callers ==
  {[seeds   |-> s,
    flows   |-> fl,
    params  |-> [f \in Fn |-> IF f = "f"
                 THEN <<[index |-> 0, value |-> "x", path |-> <<>>, plain |-> TRUE]>>
                 ELSE <<>>],
    returns |-> [f \in Fn |-> IF f = "f" THEN {"r"} ELSE {}],
    owner   |-> [v \in Value |-> IF v \in {"x", "r"} THEN "f" ELSE "main"],
    calls   |-> <<Site(TRUE, <<Arg(0, "a")>>, "ra"),
                  [Site(FALSE, <<Arg(0, "b")>>, "e") EXCEPT !.transform = TRUE],
                  Site(TRUE, <<Arg(0, "d")>>, "rb")>>,
    entries |-> NoEntries] :
   s  \in Orders({Plain("a"), Converted("a"), Plain("b"), Converted("b"), Plain("r")}),
   fl \in Chosen(<<Flow("x", "r", "assign"), Flow("a", "b", "assign"),
                   Flow("ra", "b", "assign"), Flow("e", "d", "assign"),
                   Flow("ra", "d", "template"), Flow("rb", "a", "assign")>>)}

(* row = store.find(k);  p.then(x => r);  row.c, row, `${row}` to a, b     *)
Rows ==
  {[seeds   |-> s,
    flows   |-> fl,
    params  |-> [f \in Fn |-> IF f = "f"
                 THEN <<[index |-> 0, value |-> "x", path |-> <<>>, plain |-> TRUE]>>
                 ELSE <<>>],
    returns |-> [f \in Fn |-> IF f = "f" THEN {"r"} ELSE {}],
    owner   |-> [v \in Value |-> IF v \in {"x", "r"} THEN "f" ELSE "main"],
    calls   |-> <<[Site(FALSE, <<>>, "e") EXCEPT !.receiver = "b", !.callback = "x"],
                  [Site(FALSE, <<Arg(0, "r")>>, NoValue) EXCEPT
                     !.completes = <<[index |-> 0, result |-> "ra"]>>],
                  Site(FALSE, <<Arg(0, "ra")>>, "rb")>>,
    entries |-> NoEntries] :
   s  \in Orders({Row("a"), Converted("a"), Plain("e"), Row("ra")}),
   fl \in Chosen(<<Flow("a", "b", "property"), Flow("a", "b", "assign"),
                  Flow("x", "r", "assign"), Flow("e", "rb", "template"),
                  Flow("a", "x", "assign"), Flow("rb", "a", "assign")>>)}

(* const b = { k: a, m: e };  ra = f(b), or f(b, ...), function f({ k, n })*)
Literals ==
  {[seeds   |-> s,
    flows   |-> <<Flow("a", "b", "property-of"), Flow("e", "b", "property-of")>> \o fl,
    params  |-> [f \in Fn |-> IF f = "f"
                 THEN <<[index |-> 0, value |-> "x", path |-> path, plain |-> FALSE],
                        [index |-> 0, value |-> "r", path |-> <<"n">>, plain |-> FALSE],
                        [index |-> 1, value |-> "ra", path |-> <<>>, plain |-> TRUE]>>
                 ELSE <<>>],
    returns |-> [f \in Fn |-> IF f = "f" THEN {"x", "r", "ra"} ELSE {}],
    owner   |-> [v \in Value |-> IF v \in {"x", "r", "ra"} THEN "f" ELSE "main"],
    calls   |-> <<Site(TRUE, <<Arg(0, arg)>>, "rb"), Site(TRUE, <<Arg(1, "e")>>, "t")>>,
    entries |-> [v \in Value |->
                   CASE v = "b" -> <<[key |-> "k", value |-> "a"],
                                     [key |-> "m", value |-> "e"]>>
                     [] v = "a" -> inner
                     [] OTHER -> <<>>]] :
   s     \in Orders({Plain("a"), Converted("e"), Plain("t"), Plain("s")}),
   fl    \in Chosen(<<Flow("s", "b", "spread"), Flow("s", "a", "spread"),
                     Flow("rb", "s", "assign"), Flow("b", "d", "assign")>>),
   path  \in {<<>>, <<"k">>, <<"k", "i">>, <<"m", "i">>},
   arg   \in {"b", "d"},
   inner \in {<<>>, <<[key |-> "i", value |-> "t"]>>}}

Tabulated ==
  {Tabulate(p) :
     p \in (IF "callers" \in Families THEN Callers ELSE {})
        \cup (IF "rows" \in Families THEN Rows ELSE {})
        \cup (IF "literals" \in Families THEN Literals ELSE {})}

MCProgram == Tabulated   \* computed once

MCValue == {"a", "b", "d", "e", "x", "r", "ra", "rb", "s", "t"}
=============================================================================
