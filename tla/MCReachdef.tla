----------------------------- MODULE MCReachdef -----------------------------
(***************************************************************************)
(* Functions with a local that is assigned twice and read, and the read    *)
(* handed on to a second local: every placement of the statements on the   *)
(* block graphs of frontends/typescript/src/lower.ts (numbered in creation *)
(* order), in every order, on every choice of lines.                       *)
(***************************************************************************)
EXTENDS Reachdef

CONSTANTS Shapes,   \* names of the block graphs to place statements on
          Spread    \* does an assignment start a line before what it reads?

MCBlock == 1 .. 6
MCValue == {"x", "y", "req", "fx", "gx"}

(* succs, the blocks whose flows a frontend leaves unplaced, and raises    *)
Shape == [
  straight |-> [succs |-> << <<>> >>, unplaced |-> {}, raises |-> {}],
  (* if (a) {2} {3} *)
  diamond  |-> [succs |-> << <<2, 3>>, <<3>>, <<>> >>, unplaced |-> {}, raises |-> {}],
  (* if (a) { return } {4}; 3 is the orphan behind the return *)
  returns  |-> [succs |-> << <<2, 4>>, <<>>, <<4>>, <<>> >>, unplaced |-> {}, raises |-> {}],
  (* while (2) {3} {4} *)
  loop     |-> [succs |-> << <<2>>, <<3, 4>>, <<2>>, <<>> >>, unplaced |-> {2, 3}, raises |-> {}],
  (* try {3} catch {4} {5} *)
  try      |-> [succs |-> << <<2>>, <<3, 4>>, <<5>>, <<5>>, <<>> >>, unplaced |-> {},
                raises |-> {<<3, 4>>}],
  (* try {3} finally {5} {4} *)
  finally  |-> [succs |-> << <<2>>, <<3>>, <<5>>, <<>>, <<4>> >>, unplaced |-> {},
                raises |-> {<<3, 5>>}] ]

(* The statements: x = req, x = f(x), y = g(x), each over the flows and   *)
(* calls it lowers to.  The call in x = f(x) is a line below when the     *)
(* statement is spread.                                                               *)
Statement == {"first", "redefine", "copy"}

Laid(shape, where, order, lines) ==
  LET S       == Shape[shape]
      Own     == DOMAIN S.succs
      lineOf  == [s \in Statement |-> lines[CHOOSE k \in 1..3 : order[k] = s]]
      blockOf == [s \in Statement |-> IF where[s] \in S.unplaced THEN NoBlock ELSE where[s]]
      Edge(f, t, s) == [from |-> f, to |-> t, grows |-> FALSE,
                        block |-> blockOf[s], line |-> lineOf[s]]
      Read(s, below) == [reads |-> <<"x">>, block |-> where[s],
                         line |-> lineOf[s] + (IF below THEN 1 ELSE 0)]
      sites   == [first    |-> << <<"flow", 1>> >>,
                  redefine |-> << <<"call", 1>>, <<"flow", 2>> >>,
                  copy     |-> << <<"call", 2>>, <<"flow", 3>>, <<"flow", 4>> >>]
  IN [entry |-> 1, order |-> [b \in Own |-> b], succs |-> S.succs,
      loopHeader |-> {}, values |-> <<"x", "y">>, plain |-> {"x", "y"},
      captured |-> {},
      flows |-> << Edge("req", "x", "first"), Edge("fx", "x", "redefine"),
                   Edge("x", "y", "copy"), Edge("gx", "y", "copy") >>,
      calls |-> << Read("redefine", Spread), Read("copy", FALSE) >>,
      text |-> [b \in Own |-> LET Part(k) == IF where[order[k]] = b THEN sites[order[k]] ELSE <<>>
                           IN  Part(1) \o Part(2) \o Part(3)],
      raises |-> S.raises]

(* Statements of one block keep the order of their lines; lines are three  *)
(* apart, or shared.                                                       *)
Orders == {o \in [1..3 -> Statement] : \A i, j \in 1..3 : i # j => o[i] # o[j]}
Lines  == {<<1, 4, 7>>, <<1, 1, 4>>, <<1, 4, 4>>, <<1, 1, 1>>}

Functions ==
  UNION {{Laid(shape, w, o, l) :
            w \in {p \in [Statement -> DOMAIN Shape[shape].succs] : p["first"] <= 3},
            o \in Orders, l \in Lines} : shape \in Shapes}
MCLoweredFn == Functions

(* What ReachdefProofs supposes of a function holds of the ones checked.   *)
ASSUME PlacedAssumption ==
  (~ Spread /\ "finally" \notin Shapes) => \A f \in Functions : RunsAsPlaced(f)
============================================================================
