------------------------------- MODULE MCCfg -------------------------------
(***************************************************************************)
(* The functions TLC analyses.  Every way to link N blocks, each ending    *)
(* (no successor), falling through (one) or testing (two different arms);  *)
(* and the graphs frontends/typescript/src/lower.ts builds for the handler *)
(* shapes the queries exist for, numbered in creation order.  The block    *)
(* opened after a return or break is an orphan linked to what follows it.  *)
(***************************************************************************)
EXTENDS Cfg

CONSTANTS N,        \* bound: blocks of the enumerated functions
          Largest   \* blocks of the largest handler shape

MCBlock == 1 .. Largest

Lowered(succs, headers) ==
  [entry |-> 1, order |-> [i \in DOMAIN succs |-> i], succs |-> succs,
   loopHeader |-> headers]

Arms == {<<>>} \cup {<<s>> : s \in 1..N}
          \cup {a \in (1..N) \X (1..N) : a[1] # a[2]}

Enumerated == IF N = 0 THEN {} ELSE {Lowered(s, 1..N) : s \in [1..N -> Arms]}

(* if (kind === "a") {A} else { if (x) return; }  sink(v)                  *)
ElseMayReturn ==
  Lowered(<< <<2, 3>>, <<7>>, <<4, 6>>, <<>>, <<6>>, <<7>>, <<>> >>, {})

(* if (c) { for (;;) poll() }  if (d) { op() }                             *)
EndlessArm ==
  Lowered(<< <<2, 6>>, <<3>>, <<4>>, <<3>>, <<6>>, <<7, 8>>, <<8>>, <<>> >>,
          {3})

(* for (x of list) { if (ok) return x }  refuse()                          *)
SearchLoop ==
  Lowered(<< <<2>>, <<3, 4>>, <<5, 7>>, <<>>, <<>>, <<7>>, <<2>> >>, {2})

(* while (a) { while (b) { if (q) break }  tail }                          *)
InnerBreak ==
  Lowered(<< <<2>>, <<3, 4>>, <<5>>, <<>>, <<6, 7>>, <<8, 10>>, <<2>>,
             <<7>>, <<10>>, <<5>> >>, {2, 5})

(* try { if (bad) return refuse() ; op } catch (e) { next(e) }  rest       *)
TryRefuses ==
  Lowered(<< <<2>>, <<3, 7>>, <<4, 6>>, <<>>, <<6>>, <<8>>, <<8>>, <<>> >>, {})

Functions ==
  Enumerated \cup {ElseMayReturn, EndlessArm, SearchLoop, InnerBreak, TryRefuses}

MCLoweredFn == Functions   \* computed once
============================================================================
