------------------------------ MODULE MCGuards ------------------------------
(***************************************************************************)
(* One family of small functions per rule of Guards: the statements the    *)
(* rule looks for, placed in every way on the block graphs of              *)
(* frontends/typescript/src/lower.ts (blocks numbered in creation order,   *)
(* `rank` their order in the text).                                        *)
(***************************************************************************)
EXTENDS Guards, TLC

CONSTANTS Families, \* which families to check
          Shapes    \* on which block graphs

MCBlock == 1 .. 6
MCValue == {"x", "p", "y", "h", "g", "t", "q", "own"}

Shape == [
  straight |-> [succs |-> << <<>> >>, rank |-> <<1>>, leaves |-> <<"return">>, loops |-> {}],
  (* if (a) {2} {3} *)
  diamond  |-> [succs |-> << <<2, 3>>, <<3>>, <<>> >>, rank |-> <<1, 2, 3>>,
                leaves |-> <<"", "", "return">>, loops |-> {}],
  (* if (a) { return } {4}; 3 is the orphan behind the return *)
  returns  |-> [succs |-> << <<2, 4>>, <<>>, <<4>>, <<>> >>, rank |-> <<1, 2, 3, 4>>,
                leaves |-> <<"", "return", "", "return">>, loops |-> {}],
  (* while (2) {3} {4} *)
  loop     |-> [succs |-> << <<2>>, <<3, 4>>, <<2>>, <<>> >>, rank |-> <<1, 2, 3, 4>>,
                leaves |-> <<"", "", "", "return">>, loops |-> {2}],
  (* if (a) {2: if (b) return 3} else {5} {6}; 4 is the rest of the first arm *)
  guarded  |-> [succs |-> << <<2, 5>>, <<3, 4>>, <<>>, <<6>>, <<6>>, <<>> >>,
                rank |-> <<1, 2, 3, 4, 5, 6>>,
                leaves |-> <<"", "", "return", "", "", "return">>, loops |-> {}],
  (* try {2} finally {4} {3}: the body of the finally is created last *)
  finally  |-> [succs |-> << <<2>>, <<4>>, <<>>, <<3>> >>, rank |-> <<1, 2, 4, 3>>,
                leaves |-> <<"", "", "return", "">>, loops |-> {}] ]

-----------------------------------------------------------------------------
(* A statement before it is placed.                                        *)
Act(does, recv, args, result, says, exits) ==
  <<"call", [does |-> does, recv |-> recv, args |-> args, result |-> result,
             says |-> says, exits |-> exits]>>
Do(does)               == Act(does, NoValue, <<>>, NoValue, "", {})
With(does, recv, args) == Act(does, recv, args, NoValue, "", {})
Making(does, args, r)  == Act(does, NoValue, args, r, "", {})
Assign(from, to)       == <<"flow", [from |-> from, to |-> to, assigns |-> TRUE]>>
Replace(base, own)     == <<"write", [base |-> base, fromItself |-> own]>>

(* The function with stmts[k] in block where[k]; the ones in one block run *)
(* in their order here.  0 leaves a statement out.                         *)
Placed(shape, stmts, where) ==
  LET S == Shape[shape]
      Of(kind) == SelectSeq([k \in DOMAIN stmts |-> k],
                            LAMBDA i : stmts[i][1] = kind /\ where[i] # 0)
      picked == [kind \in {"call", "flow", "write"} |-> Of(kind)]
      All(kind) == [n \in DOMAIN picked[kind] |->
                      LET k == picked[kind][n]
                      IN  [block |-> where[k], line |-> 10 * S.rank[where[k]] + k] @@ stmts[k][2]]
      index == [k \in {i \in DOMAIN stmts : where[i] # 0} |->
                  <<stmts[k][1], CHOOSE n \in DOMAIN picked[stmts[k][1]] : picked[stmts[k][1]][n] = k>>]
      TextOf(b) == LET own == SelectSeq([j \in DOMAIN stmts |-> j], LAMBDA i : where[i] = b)
                 IN  [n \in DOMAIN own |-> index[own[n]]]
  IN [entry |-> 1, order |-> [b \in DOMAIN S.succs |-> b], succs |-> S.succs,
      loopHeader |-> S.loops, leaves |-> S.leaves,
      calls |-> All("call"), flows |-> All("flow"), writes |-> All("write"),
      base |-> [v \in MCValue |-> IF v = "p" THEN "x" ELSE NoValue],
      locals |-> {"x", "y", "t"}, inbound |-> {"own"},
      anchored |-> TRUE, restrictive |-> TRUE, returnsValue |-> FALSE,
      text |-> [b \in DOMAIN S.succs |-> TextOf(b)]]

(* Every placement that puts statement k into one of allowed[k].           *)
Placements(allowed, blocks) ==
  LET Upto[n \in 0 .. Len(allowed)] ==
        IF n = 0 THEN {<<>>}
        ELSE {Append(w, b) : w \in Upto[n - 1], b \in allowed[n] \cap ({0} \cup blocks)}
  IN  Upto[Len(allowed)]

Everywhere(shapes, stmts, allowed) ==
  UNION {{Placed(s, stmts, w) : w \in Placements(allowed, DOMAIN Shape[s].succs)} : s \in shapes}
Everyplace == 1 .. 6

-----------------------------------------------------------------------------
Ending == {With("delegate", NoValue, <<"x">>), With("delegate", NoValue, <<>>), Do("raise"),
           Act("work", NoValue, <<>>, NoValue, "", {"throw"}),
           Act("work", NoValue, <<>>, NoValue, "", {"throw", "return"})}

RefusedFamily(shapes) ==
  UNION {Everywhere(shapes, <<Do("refuse"), e, Do("work")>>,
                    <<Everyplace, {0} \cup Everyplace, Everyplace>>) : e \in Ending}

(* x = .. ; x = .. beside it; check(x or its part p); another decider;     *)
(* op(x, or y = p before it)                                               *)
OmitsFamily(shapes) ==
  UNION {Everywhere(shapes,
           <<Assign("q", "x"), Assign("q", "x"), With("decide", NoValue, <<way[1]>>),
             Do("decide"), Assign("p", "y"), With("work", NoValue, <<way[2]>>)>>,
           <<{1}, {2, 4, 5, 6}, {1, 2, 4, 5}, {0, 1, 4},
             IF way[2] = "y" THEN {1, 4} ELSE {0}, {2, 3, 4, 6}>>) :
         way \in {<<"x", "x">>, <<"p", "y">>}}

(* t.push(..); warn(..); apply(t)                                          *)
DiscardsFamily(shapes) ==
  Everywhere(shapes,
             <<With("append", "t", <<"q">>), Do("record"), With("work", NoValue, <<"t">>)>>,
             <<Everyplace, Everyplace, Everyplace>>)

(* g = h = open(x, 'w'); g.write(..); y = x; chmod(y, 0600)                *)
LateFamily(shapes) ==
  Everywhere(shapes,
             <<Making("open", <<"x">>, "h"), Assign("h", "g"), Assign("x", "y"),
               With("write", "g", <<"q">>), With("chmod", NoValue, <<"y">>)>>,
             <<Everyplace, {1}, {1}, Everyplace, Everyplace>>)

(* h = new Headers(own); url.host = ..; h.delete(..) twice; fetch(t, h)    *)
ForwardsFamily(shapes) ==
  UNION {Everywhere(shapes,
           <<Making("copy", <<"own">>, "h"), Replace("t", how[1]),
             Act("remove", "h", <<>>, NoValue, "cookie", {}),
             Act("remove", "h", <<>>, NoValue, how[2], {}),
             With("send", NoValue, <<"t", "h">>)>>,
           <<{1}, Everyplace, Everyplace, Everyplace, Everyplace>>) :
         how \in {<<FALSE, "authorization">>, <<FALSE, "cookie">>, <<TRUE, "cookie">>}}

MCLoweredFn ==
  (IF "refused"  \in Families THEN RefusedFamily(Shapes \ {"guarded"})  ELSE {}) \cup
  (IF "omits"    \in Families THEN OmitsFamily(Shapes \cap {"guarded", "returns", "loop"})    ELSE {}) \cup
  (IF "discards" \in Families THEN DiscardsFamily(Shapes) ELSE {}) \cup
  (IF "late"     \in Families THEN LateFamily(Shapes)     ELSE {}) \cup
  (IF "forwards" \in Families THEN ForwardsFamily(Shapes \cap {"diamond", "loop"}) ELSE {})

(* The functions run as the theorems of GuardsProofs suppose.              *)
ASSUME WrittenAssumption == \A f \in MCLoweredFn : RunsAsWritten(f)
=============================================================================
