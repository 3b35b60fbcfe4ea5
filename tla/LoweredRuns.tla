----------------------------- MODULE LoweredRuns -----------------------------
(***************************************************************************)
(* The function Lowering lowered, executed: what the text means in its     *)
(* language, beside what its block graph says of it.  Whether a condition  *)
(* holds and whether the body of a try raises is open.                     *)
(*                                                                         *)
(* The graph is asked the questions Cfg answers: what the entry reaches,   *)
(* what every path to a block passes and what every path from it passes.   *)
(***************************************************************************)
EXTENDS Lowering, SequencesExt

VARIABLES
  claims,   \* what the finished graph says: reached, precedes, follows, and
            \* whether it is one whose jumps it links as the text has them
  at,       \* the statement control is at, and how it came there or left it
  pending,  \* statement -> how control entered its finally
  order     \* what ran, each where it ran last

runVars == <<claims, at, pending, order>>
allVars == <<lowerVars, runVars>>

-----------------------------------------------------------------------------
(* What the graph says of everything that runs outside the arms of a       *)
(* switch, which a frontend does not vouch for.                            *)
InSwitch(s) ==
  LET in[i \in 0 .. Len(stmts)] ==
        i # 0 /\ stmts[i].parent # 0
          /\ (stmts[stmts[i].parent].kind = "switch" \/ in[stmts[i].parent])
  IN  in[s]

(* What leaves the arms of statement t other than by their ends.           *)
ArmOf(t) ==
  LET arm[i \in 0 .. Len(stmts)] ==
        IF i = 0 THEN "outside"
        ELSE IF stmts[i].parent = t THEN stmts[i].arm ELSE arm[stmts[i].parent]
  IN  [i \in DOMAIN stmts |-> arm[i]]

JumpsOut(t, caught) ==
  \E i \in DOMAIN stmts :
    /\ ArmOf(t)[i] # "outside"
    /\ stmts[i].kind \in Jumps
    /\ ~ (caught /\ stmts[i].kind = "throw" /\ ArmOf(t)[i] = "try")

(* A finally runs on every way out of its try, but only the ends of the    *)
(* arms are linked to it: a jump goes past it.                             *)
GoesPastFinally ==
  \E t \in DOMAIN stmts : /\ stmts[t].kind = "try" /\ Children(t, "finally") # {}
                         /\ JumpsOut(t, Children(t, "catch") # {})

(* Control comes to the end of a statement, as its text has it; of what    *)
(* holds a jump only a branch with a way past it and a loop that asks      *)
(* first are counted.  A break of a switch is no jump to the walk.         *)
JumpsInside(s) == \E i \in DOMAIN stmts : ArmOf(s)[i] # "outside" /\ stmts[i].kind \in Jumps

ComesToItsEnd ==
  LET last(t, arm) == CHOOSE i \in Children(t, arm) : \A j \in Children(t, arm) : j <= i
      ends[s \in DOMAIN stmts] ==
        CASE stmts[s].kind \in {"call", "break", "while", "for"} -> TRUE
          [] stmts[s].kind \in {"return", "throw", "continue"}   -> FALSE
          [] stmts[s].kind = "if" -> \/ Children(s, "else") = {}
                                     \/ ends[last(s, "then")]
                                     \/ ends[last(s, "else")]
          [] OTHER -> ~ JumpsInside(s) /\ (stmts[s].kind = "cfor" => "cond" \in stmts[s].opt)
  IN  ends

(* The arms of a switch are walked one behind the other: one that control  *)
(* never comes out of cuts off what stands behind the switch.              *)
SwitchCutsOff ==
  \E s \in DOMAIN stmts :
    /\ stmts[s].parent # 0 /\ stmts[stmts[s].parent].kind = "switch"
    /\ ~ ComesToItsEnd[s]

Without(bs, a) == [b \in DOMAIN bs |-> [bs[b] EXCEPT !.succ = @ \ {a}]]
FinalBlocks    == {b \in DOMAIN blocks : blocks[b].succ = {}}

Claims ==
  LET Events   == {e \in DOMAIN where : ~ InSwitch(e[1])}
      used     == {where[e] : e \in Events}
      reached  == Closure(blocks, {1})
      around   == [a \in used |-> IF a = 1 THEN {} ELSE Closure(Without(blocks, a), {1})]
      escapes  == [a \in used |-> [b \in used \ {a} |->
                     Closure(Without(blocks, a), {b}) \cap (FinalBlocks \ {a}) # {}]]
      Earlier(x, y) == where[x] = where[y] /\ x[1] < y[1]
      Pairs    == {p \in Events \X Events : p[1] # p[2]}
  IN  [jumps |-> ~ GoesPastFinally /\ ~ SwitchCutsOff,
       events   |-> Events,
       reached  |-> {e \in Events : where[e] \in reached},
       precedes |-> {p \in Pairs : \/ Earlier(p[1], p[2])
                                   \/ /\ where[p[1]] # where[p[2]]
                                      /\ where[p[2]] \in reached \ around[where[p[1]]]},
       follows  |-> {p \in Pairs : \/ Earlier(p[1], p[2])
                                   \/ /\ where[p[1]] # where[p[2]]
                                      /\ where[p[1]] \in reached
                                      /\ ~ escapes[where[p[2]]][where[p[1]]]}]

-----------------------------------------------------------------------------
(* The text.                                                               *)
Kind(s)     == stmts[s].kind
Has(s, arm) == Children(s, arm) # {}
First(s, arm) == CHOOSE i \in Children(s, arm) : \A j \in Children(s, arm) : i <= j

Begin(s)       == [stmt |-> s, how |-> "begin"]
Enter(s, arm)  == Begin(First(s, arm))
Done(s, how)   == [stmt |-> s, how |-> how]

Parent == stmts[at.stmt].parent
Arm    == stmts[at.stmt].arm
After  == {i \in Children(Parent, Arm) : i > at.stmt}

Running  == walked /\ at.stmt # 0
Here(kinds) == Running /\ at.how = "begin" /\ Kind(at.stmt) \in kinds
LoopKinds == {"while", "for", "cfor", "do"}

Ran(e) == Append(SelectSeq(order, LAMBDA x : x # e), e)

(* Control left the last statement of an arm of a statement of these       *)
(* kinds, or left it in the middle.                                        *)
Comes(kinds, arms) ==
  /\ Running /\ Parent # 0
  /\ at.how \notin {"begin", "test", "step"}
  /\ Kind(Parent) \in kinds /\ Arm \in arms
  /\ at.how = "normal" => After = {}

RunsInit ==
  /\ LowerInit
  /\ claims = [jumps |-> TRUE, events |-> {}, reached |-> {}, precedes |-> {}, follows |-> {}]
  /\ at = Done(0, "call")
  /\ pending = [s \in {} |-> "normal"]
  /\ order = <<>>

Lower ==
  /\ LowerNext
  /\ UNCHANGED runVars

(* The walk returned: the graph is handed on and the function is called.   *)
Start ==
  /\ walked /\ at.how = "call"
  /\ claims' = Claims
  /\ at' = Enter(0, "body")
  /\ UNCHANGED <<lowerVars, pending, order>>

RunCall ==
  /\ Here({"call"})
  /\ order' = Ran(<<at.stmt, "call">>)
  /\ at' = Done(at.stmt, "normal")
  /\ UNCHANGED <<lowerVars, claims, pending>>

RunJump ==
  /\ Here(Jumps)
  /\ at' = Done(at.stmt, Kind(at.stmt))
  /\ UNCHANGED <<lowerVars, claims, pending, order>>

RunIf ==
  /\ Here({"if"})
  /\ order' = Ran(<<at.stmt, "cond">>)
  /\ \/ at' = Enter(at.stmt, "then")
     \/ at' = IF Has(at.stmt, "else") THEN Enter(at.stmt, "else") ELSE Done(at.stmt, "normal")
  /\ UNCHANGED <<lowerVars, claims, pending>>

RunSwitch ==
  /\ Here({"switch"})
  /\ order' = Ran(<<at.stmt, "cond">>)
  /\ \/ at' = Enter(at.stmt, "case")
     \/ at' = IF Has(at.stmt, "default") THEN Enter(at.stmt, "default") ELSE Done(at.stmt, "normal")
  /\ UNCHANGED <<lowerVars, claims, pending>>

(* A do and a for over a collection that is not empty run their body, the  *)
(* others ask first.                                                       *)
RunLoop ==
  /\ Here(LoopKinds)
  /\ at' = IF Kind(at.stmt) = "do" \/ "sure" \in stmts[at.stmt].opt
           THEN Enter(at.stmt, "body") ELSE Done(at.stmt, "test")
  /\ UNCHANGED <<lowerVars, claims, pending, order>>

RunStep ==
  /\ Running /\ at.how = "step"
  /\ order' = IF "step" \in stmts[at.stmt].opt THEN Ran(<<at.stmt, "step">>) ELSE order
  /\ at' = Done(at.stmt, "test")
  /\ UNCHANGED <<lowerVars, claims, pending>>

RunTest ==
  /\ Running /\ at.how = "test"
  /\ LET asked   == Kind(at.stmt) \in {"while", "do"} \/ "cond" \in stmts[at.stmt].opt
         forever == Kind(at.stmt) = "cfor" /\ "cond" \notin stmts[at.stmt].opt
     IN  /\ order' = IF asked THEN Ran(<<at.stmt, "cond">>) ELSE order
         /\ \/ at' = Enter(at.stmt, "body")
            \/ /\ ~ forever
               /\ at' = IF Has(at.stmt, "else") THEN Enter(at.stmt, "else")
                                                ELSE Done(at.stmt, "normal")
  /\ UNCHANGED <<lowerVars, claims, pending>>

(* The body of a try runs, or raises before anything of it did.            *)
RunTry ==
  /\ Here({"try"})
  /\ \/ at' = Enter(at.stmt, "try")
     \/ Has(at.stmt, "catch") /\ at' = Enter(at.stmt, "catch")
  /\ UNCHANGED <<lowerVars, claims, pending, order>>

RunOn ==
  /\ Running /\ at.how = "normal" /\ After # {}
  /\ at' = Begin(CHOOSE i \in After : \A j \in After : i <= j)
  /\ UNCHANGED <<lowerVars, claims, pending, order>>

(* Out of an arm that nothing holds up.                                    *)
RunOut ==
  /\ \/ Comes({"if"}, {"then", "else"})
     \/ Comes(LoopKinds, {"else"})
     \/ Comes({"switch"}, {"default"}) /\ at.how # "break"
     \/ /\ Comes({"switch"}, {"case"}) /\ at.how # "break"
        /\ at.how = "normal" => ~ Has(Parent, "default")
     \/ /\ Comes({"try"}, {"try", "else", "catch"})
        /\ ~ Has(Parent, "finally")
        /\ ~ (Arm = "try" /\ at.how = "throw" /\ Has(Parent, "catch"))
        /\ ~ (Arm = "try" /\ at.how = "normal" /\ Has(Parent, "else"))
  /\ at' = Done(Parent, at.how)
  /\ UNCHANGED <<lowerVars, claims, pending, order>>

RunOutOfCase ==
  /\ Comes({"switch"}, {"case", "default"})
  /\ \/ at.how = "break" /\ at' = Done(Parent, "normal")
     \/ at.how = "normal" /\ Arm = "case" /\ Has(Parent, "default") /\ at' = Enter(Parent, "default")
  /\ UNCHANGED <<lowerVars, claims, pending, order>>

RunRound ==
  /\ Comes(LoopKinds, {"body"})
  /\ at' = CASE at.how \in {"normal", "continue"} ->
                  Done(Parent, IF Kind(Parent) = "cfor" THEN "step" ELSE "test")
             [] at.how = "break" -> Done(Parent, "normal")
             [] OTHER            -> Done(Parent, at.how)
  /\ UNCHANGED <<lowerVars, claims, pending, order>>

RunTryElse ==
  /\ Comes({"try"}, {"try"}) /\ at.how = "normal" /\ Has(Parent, "else")
  /\ at' = Enter(Parent, "else")
  /\ UNCHANGED <<lowerVars, claims, pending, order>>

RunCatch ==
  /\ Comes({"try"}, {"try"}) /\ at.how = "throw" /\ Has(Parent, "catch")
  /\ at' = Enter(Parent, "catch")
  /\ UNCHANGED <<lowerVars, claims, pending, order>>

RunFinally ==
  /\ Comes({"try"}, {"try", "else", "catch"})
  /\ Has(Parent, "finally")
  /\ ~ (Arm = "try" /\ at.how = "throw" /\ Has(Parent, "catch"))
  /\ ~ (Arm = "try" /\ at.how = "normal" /\ Has(Parent, "else"))
  /\ at' = Enter(Parent, "finally")
  /\ pending' = [s \in DOMAIN pending \cup {Parent} |->
                   IF s = Parent THEN at.how ELSE pending[s]]
  /\ UNCHANGED <<lowerVars, claims, order>>

(* A finally that comes to its end goes on with what it held up.           *)
RunOutOfFinally ==
  /\ Comes({"try"}, {"finally"})
  /\ at' = Done(Parent, IF at.how = "normal" THEN pending[Parent] ELSE at.how)
  /\ pending' = [s \in DOMAIN pending \ {Parent} |-> pending[s]]
  /\ UNCHANGED <<lowerVars, claims, order>>

RunExit ==
  /\ Running /\ Parent = 0
  /\ at.how \notin {"begin", "test", "step"}
  /\ at.how = "normal" => After = {}
  /\ at' = Done(0, at.how)
  /\ UNCHANGED <<lowerVars, claims, pending, order>>

RunsNext ==
  \/ Lower \/ Start \/ RunCall \/ RunJump \/ RunIf \/ RunSwitch \/ RunLoop
  \/ RunStep \/ RunTest \/ RunTry \/ RunOn \/ RunOut \/ RunOutOfCase \/ RunRound
  \/ RunTryElse \/ RunCatch \/ RunFinally \/ RunOutOfFinally \/ RunExit

RunsSpec == RunsInit /\ [][RunsNext]_allVars

-----------------------------------------------------------------------------
Exited  == walked /\ at.stmt = 0 /\ at.how # "call"
JustRan == IF order = <<>> THEN {} ELSE {Last(order)} \cap claims.events

(* What runs is placed where the graph says control can come: an analysis  *)
(* leaves a block the entry does not reach out of its judgement            *)
(* (cfg.go:275, and lower.ts:1403 for which way a frontend may err).       *)
WhatRunsIsReached == JustRan \subseteq claims.reached

(* Every path to it passes through a: then a ran before it (cfg.go:263     *)
(* answers for the program, and not for the graph, only if the graph a     *)
(* frontend hands over leaves no way out).                                 *)
DominatorsRanBefore ==
  \A p \in claims.precedes : p[2] \in JustRan => p[1] \in Range(order)

(* Every path from it to an exit passes through b: then b ran after it ran *)
(* last, once the function has returned (cfg.go:129).                      *)
PostDominatorsRanAfter ==
  Exited =>
    \A p \in claims.follows : p[1] \in Range(order) =>
      \E i, j \in DOMAIN order : order[i] = p[1] /\ order[j] = p[2] /\ i < j

(* What the graphs say of a run holds of it: the blocks that ran are       *)
(* reached, those that dominate them ran before, and those that post-      *)
(* dominate them ran after (lower.ts:1346, 2614), in every function no     *)
(* jump of which goes past a finally, and in which control comes to the    *)
(* end of every arm of a switch.  Without either condition TLC finds it    *)
(* violated: `default: return` behind which the switch is left by another  *)
(* case (lower.ts:2542), and a return out of a try (lower.ts:2646).        *)
RunsFollowTheGraph ==
  claims.jumps => WhatRunsIsReached /\ DominatorsRanBefore /\ PostDominatorsRanAfter
=============================================================================
