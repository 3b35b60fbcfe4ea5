------------------------------ MODULE Lowering ------------------------------
(***************************************************************************)
(* How a frontend builds the block graph of one function                   *)
(* (frontends/typescript/src/lower.ts, frontends/python/src/lower.py): the *)
(* walk over the statements, with its current block, its stack of loop     *)
(* targets and the blocks it opens, links and terminates.                  *)
(*                                                                         *)
(* The function is whatever the walk reads: each step reads one statement  *)
(* of the grammar or comes to the end of one that is open, so every text   *)
(* within the bounds is lowered.  A statement is named by its place in the *)
(* order of reading.                                                       *)
(***************************************************************************)
EXTENDS Integers, Sequences, FiniteSets

CONSTANTS Grammars,   \* what may be read: language, kinds of statement, size
          MaxDepth,   \* how deep statements nest
          NoBlock     \* no block

ASSUME GrammarsAssumption ==
  \A g \in Grammars : /\ g.lang \in {"ts", "py"}
                      /\ g.size \in Nat
ASSUME MaxDepthAssumption == MaxDepth \in Nat
ASSUME NoBlockAssumption  == NoBlock \notin Nat

VARIABLES
  grammar,     \* the one this function is written in
  stmts,       \* the statements read: kind, the statement and arm they are in
  where,       \* what runs (a call, a condition, a step) -> its block
  blocks,      \* the blocks: successors and terminator
  current,     \* the block statements are lowered into
  open,        \* the statements being walked, innermost last
  targets,     \* loopTargets
  switchDepth,
  walked       \* has the walk returned?

text  == <<grammar, stmts>>
graph == <<where, blocks>>
lowerVars == <<grammar, stmts, where, blocks, current, open, targets, switchDepth, walked>>

-----------------------------------------------------------------------------
(* The graph being built.                                                  *)
Fresh(n) == Len(blocks) + n

Opened(n) ==
  [b \in 1 .. Len(blocks) + n |->
     IF b \in DOMAIN blocks THEN blocks[b] ELSE [succ |-> {}, term |-> "none"]]

Linked(bs, links) ==
  [b \in DOMAIN bs |->
     [succ |-> bs[b].succ \cup {l[2] : l \in {k \in links : k[1] = b}},
      term |-> bs[b].term]]

Terminated(bs, b, how) == [bs EXCEPT ![b] = [succ |-> bs[b].succ, term |-> how]]

LeavesIt(b) == blocks[b].term \in {"return", "throw"}

(* The blocks a walk over the successors finds.                            *)
Grow(bs, S)    == S \cup UNION {bs[b].succ : b \in S}
Closure(bs, S) ==
  LET next[T \in SUBSET DOMAIN bs] == Grow(bs, T)
      upTo[n \in 0 .. Len(bs)] == IF n = 0 THEN S ELSE next[upTo[n - 1]]
  IN  upTo[Len(bs)]

PathExists(bs, a, b) == b \in Closure(bs, {a})

-----------------------------------------------------------------------------
(* The text being read.                                                    *)
Top == open[Len(open)]

Jumps == {"return", "throw", "break", "continue"}

Children(s, arm) ==
  {i \in DOMAIN stmts : stmts[i].parent = s /\ stmts[i].arm = arm}

(* Nothing is written behind a jump, and no arm is left empty.             *)
Open(kind) ==
  /\ ~ walked
  /\ kind \in grammar.kinds
  /\ Len(stmts) < grammar.size
  /\ \A i \in Children(Top.stmt, Top.arm) : stmts[i].kind \notin Jumps

Read(kind, opt) ==
  /\ Open(kind)
  /\ stmts' = Append(stmts, [kind |-> kind, parent |-> Top.stmt, arm |-> Top.arm, opt |-> opt])
  /\ UNCHANGED grammar

Enters(kind, opt) == Read(kind, opt) /\ Len(open) <= MaxDepth

Id == Len(stmts) + 1

(* What runs is a statement's call or condition, or the step of a loop.    *)
Placed(part, b) == [e \in DOMAIN where \cup {<<Id, part>>} |->
                      IF e = <<Id, part>> THEN b ELSE where[e]]
Later(part, b)  == [e \in DOMAIN where \cup {<<Top.stmt, part>>} |->
                      IF e = <<Top.stmt, part>> THEN b ELSE where[e]]

Frame(kind, arm, head, body, next, other, after) ==
  [stmt |-> Id, kind |-> kind, arm |-> arm, head |-> head, body |-> body,
   next |-> next, other |-> other, after |-> after, ends |-> {}]

Pushed(f)   == Append(open, f)
Popped      == SubSeq(open, 1, Len(open) - 1)
Turned(f)   == [open EXCEPT ![Len(open)] = f]
LoopPopped  == SubSeq(targets, 1, Len(targets) - 1)
ToLoop(c, b) == Append(targets, [continueTo |-> c, breakTo |-> b, switchDepth |-> switchDepth])

Ends(kinds, arms) ==
  /\ ~ walked /\ Len(open) > 1
  /\ Top.kind \in kinds /\ Top.arm \in arms
  /\ Children(Top.stmt, Top.arm) # {}

LowerInit ==
  /\ grammar \in Grammars
  /\ stmts = <<>>
  /\ where = [e \in {} |-> 1]
  /\ blocks = <<[succ |-> {}, term |-> "none"]>>
  /\ current = 1
  /\ open = <<[stmt |-> 0, kind |-> "function", arm |-> "body", head |-> NoBlock,
               body |-> NoBlock, next |-> NoBlock, other |-> NoBlock,
               after |-> NoBlock, ends |-> {}]>>
  /\ targets = <<>>
  /\ switchDepth = 0
  /\ walked = FALSE

-----------------------------------------------------------------------------
(* A statement that stays where it is.                                     *)
Call ==
  /\ Read("call", {})
  /\ where' = Placed("call", current)
  /\ UNCHANGED <<blocks, current, open, targets, switchDepth, walked>>

Return ==
  /\ Read("return", {})
  /\ blocks' = Terminated(Opened(1), current, "return")
  /\ current' = Fresh(1)
  /\ UNCHANGED <<where, open, targets, switchDepth, walked>>

(* A throw, a raise, and a call the type checker says never returns.       *)
Throw ==
  /\ Read("throw", {})
  /\ blocks' = Terminated(Opened(1), current, "throw")
  /\ current' = Fresh(1)
  /\ UNCHANGED <<where, open, targets, switchDepth, walked>>

(* A break that leaves a switch is not lowered at all.                     *)
Break ==
  /\ targets # <<>> \/ switchDepth > 0
  /\ Read("break", {})
  /\ IF targets # <<>> /\ targets[Len(targets)].switchDepth = switchDepth
     THEN /\ blocks' = Linked(Opened(1), {<<current, targets[Len(targets)].breakTo>>})
          /\ current' = Fresh(1)
     ELSE UNCHANGED <<blocks, current>>
  /\ UNCHANGED <<where, open, targets, switchDepth, walked>>

(* Defect: a continue goes where a break goes.                             *)
ContinueBehindTheLoop ==
  /\ targets # <<>>
  /\ Read("continue", {})
  /\ blocks' = Linked(Opened(1), {<<current, targets[Len(targets)].breakTo>>})
  /\ current' = Fresh(1)
  /\ UNCHANGED <<where, open, targets, switchDepth, walked>>

Continue ==
  /\ targets # <<>>
  /\ Read("continue", {})
  /\ blocks' = Linked(Opened(1), {<<current, targets[Len(targets)].continueTo>>})
  /\ current' = Fresh(1)
  /\ UNCHANGED <<where, open, targets, switchDepth, walked>>

-----------------------------------------------------------------------------
If ==
  /\ Enters("if", {})
  /\ where' = Placed("cond", current)
  /\ blocks' = Linked(Terminated(Opened(1), current, "branch"), {<<current, Fresh(1)>>})
  /\ current' = Fresh(1)
  /\ open' = Pushed(Frame("if", "then", current, NoBlock, NoBlock, NoBlock, NoBlock))
  /\ UNCHANGED <<targets, switchDepth, walked>>

Else ==
  /\ Ends({"if"}, {"then"})
  /\ blocks' = Linked(Opened(1), {<<Top.head, Fresh(1)>>})
  /\ current' = Fresh(1)
  /\ open' = Turned([Top EXCEPT !.arm = "else", !.ends = {current}])
  /\ UNCHANGED <<text, where, targets, switchDepth, walked>>

(* Defect: the way past an if that has no else is not linked.              *)
EndIfThroughItsArms ==
  /\ Ends({"if"}, {"then", "else"})
  /\ LET ends == {e \in Top.ends \cup {current} : ~ LeavesIt(e)}
     IN  blocks' = Linked(Opened(1), ends \X {Fresh(1)})
  /\ current' = Fresh(1)
  /\ open' = Popped
  /\ UNCHANGED <<text, where, targets, switchDepth, walked>>

EndIf ==
  /\ Ends({"if"}, {"then", "else"})
  /\ LET ends == {e \in Top.ends \cup {current} : ~ LeavesIt(e)}
                   \cup (IF Top.arm = "then" THEN {Top.head} ELSE {})
     IN  blocks' = Linked(Opened(1), ends \X {Fresh(1)})
  /\ current' = Fresh(1)
  /\ open' = Popped
  /\ UNCHANGED <<text, where, targets, switchDepth, walked>>

-----------------------------------------------------------------------------
(* while, and for-of and for-in, which build the same blocks; in Python    *)
(* the way out of the loop may lead through an else.                       *)
While ==
  \E orelse \in IF grammar.lang = "py" THEN {{}, {"else"}} ELSE {{}} :
    LET header == Fresh(1)   body == Fresh(2)   after == Fresh(3)
        other  == IF orelse = {} THEN after ELSE Fresh(4)
    IN  /\ Enters("while", orelse)
        /\ where' = Placed("cond", header)
        /\ blocks' = Linked(Terminated(Opened(3 + Cardinality(orelse)), header, "branch"),
                            {<<current, header>>, <<header, body>>, <<header, other>>})
        /\ current' = body
        /\ open' = Pushed(Frame("while", "body", header, body, header, other, after))
        /\ targets' = ToLoop(header, after)
        /\ UNCHANGED <<switchDepth, walked>>

(* Defect: every collection is taken to have a first element.              *)
ForOfSomething ==
  \E orelse \in {{}, {"else"}}, sure \in {{}, {"sure"}} :
    LET body  == Fresh(1)   after == Fresh(2)   ask == Fresh(3)
        other == IF orelse = {} THEN after ELSE Fresh(4)
    IN  /\ grammar.lang = "py"
        /\ Enters("for", orelse \cup sure)
        /\ blocks' = Linked(Terminated(Opened(3 + Cardinality(orelse)), ask, "branch"),
                            {<<current, body>>, <<ask, body>>, <<ask, other>>})
        /\ current' = body
        /\ open' = Pushed(Frame("for", "body", body, body, ask, other, after))
        /\ targets' = ToLoop(ask, after)
        /\ UNCHANGED <<where, switchDepth, walked>>

(* Python's for: the first round of a written, non-empty collection is     *)
(* certain, and the question whether to go on is asked behind it.          *)
For ==
  \E orelse \in {{}, {"else"}}, sure \in {{}, {"sure"}} :
    LET body  == Fresh(1)   after == Fresh(2)   ask == Fresh(3)
        other == IF orelse = {} THEN after ELSE Fresh(4)
        head  == IF sure = {} THEN ask ELSE body
    IN  /\ grammar.lang = "py"
        /\ Enters("for", orelse \cup sure)
        /\ blocks' = Linked(Terminated(Opened(3 + Cardinality(orelse)), ask, "branch"),
                            {<<current, head>>, <<ask, body>>, <<ask, other>>})
        /\ current' = body
        /\ open' = Pushed(Frame("for", "body", head, body, ask, other, after))
        /\ targets' = ToLoop(ask, after)
        /\ UNCHANGED <<where, switchDepth, walked>>

(* The body goes back to the question, unless it never gets to its end.    *)
EndLoop ==
  /\ Ends({"while", "for"}, {"body"})
  /\ blocks' = IF PathExists(blocks, Top.body, current)
               THEN Linked(blocks, {<<current, Top.next>>}) ELSE blocks
  /\ targets' = LoopPopped
  /\ IF Top.other # Top.after
     THEN /\ current' = Top.other
          /\ open' = Turned([Top EXCEPT !.arm = "else"])
     ELSE /\ current' = Top.after
          /\ open' = Popped
  /\ UNCHANGED <<text, where, switchDepth, walked>>

EndLoopElse ==
  /\ Ends({"while", "for"}, {"else"})
  /\ blocks' = Linked(blocks, {<<current, Top.after>>})
  /\ current' = Top.after
  /\ open' = Popped
  /\ UNCHANGED <<text, where, targets, switchDepth, walked>>

(* for (;;), with a condition or a step or neither.                        *)
CFor ==
  \E cond \in {{}, {"cond"}}, step \in {{}, {"step"}} :
    LET header == Fresh(1)   body == Fresh(2)   after == Fresh(3)
        next   == IF step = {} THEN header ELSE Fresh(4)
        built  == Opened(3 + Cardinality(step))
    IN  /\ grammar.lang = "ts"
        /\ Enters("cfor", cond \cup step)
        /\ where' = IF cond = {} THEN where ELSE Placed("cond", header)
        /\ blocks' = IF cond = {}
                     THEN Linked(built, {<<current, header>>, <<header, body>>})
                     ELSE Linked(Terminated(built, header, "branch"),
                                 {<<current, header>>, <<header, body>>, <<header, after>>})
        /\ current' = body
        /\ open' = Pushed(Frame("cfor", "body", header, body, next, NoBlock, after))
        /\ targets' = ToLoop(next, after)
        /\ UNCHANGED <<switchDepth, walked>>

EndCFor ==
  /\ Ends({"cfor"}, {"body"})
  /\ LET back == IF PathExists(blocks, Top.body, current)
                 THEN Linked(blocks, {<<current, Top.next>>}) ELSE blocks
     IN  blocks' = IF Top.next # Top.head /\ PathExists(back, Top.body, Top.next)
                   THEN Linked(back, {<<Top.next, Top.head>>}) ELSE back
  /\ where' = IF Top.next # Top.head THEN Later("step", Top.next) ELSE where
  /\ current' = Top.after
  /\ open' = Popped
  /\ targets' = LoopPopped
  /\ UNCHANGED <<text, switchDepth, walked>>

Do ==
  LET header == Fresh(1)   body == Fresh(2)   ask == Fresh(3)   after == Fresh(4)
  IN  /\ grammar.lang = "ts"
      /\ Enters("do", {})
      /\ blocks' = Linked(Opened(4), {<<current, header>>, <<header, body>>})
      /\ current' = body
      /\ open' = Pushed(Frame("do", "body", header, body, ask, NoBlock, after))
      /\ targets' = ToLoop(ask, after)
      /\ UNCHANGED <<where, switchDepth, walked>>

EndDo ==
  /\ Ends({"do"}, {"body"})
  /\ LET back == IF PathExists(blocks, Top.body, current)
                 THEN Linked(blocks, {<<current, Top.next>>}) ELSE blocks
     IN  blocks' = Linked(Terminated(back, Top.next, "branch"),
                          {<<Top.next, Top.head>>, <<Top.next, Top.after>>})
  /\ where' = Later("cond", Top.next)
  /\ current' = Top.after
  /\ open' = Popped
  /\ targets' = LoopPopped
  /\ UNCHANGED <<text, switchDepth, walked>>

-----------------------------------------------------------------------------
(* The arms of a switch are walked as straight-line code.                  *)
Switch ==
  /\ grammar.lang = "ts"
  /\ Enters("switch", {})
  /\ where' = Placed("cond", current)
  /\ open' = Pushed(Frame("switch", "case", NoBlock, NoBlock, NoBlock, NoBlock, NoBlock))
  /\ switchDepth' = switchDepth + 1
  /\ UNCHANGED <<blocks, current, targets, walked>>

NextCase ==
  /\ Ends({"switch"}, {"case"})
  /\ open' = Turned([Top EXCEPT !.arm = "default"])
  /\ UNCHANGED <<text, graph, current, targets, switchDepth, walked>>

EndSwitch ==
  /\ Ends({"switch"}, {"case", "default"})
  /\ open' = Popped
  /\ switchDepth' = switchDepth - 1
  /\ UNCHANGED <<text, graph, current, targets, walked>>

-----------------------------------------------------------------------------
(* Defect: the exception edge hangs on the first block of the body.        *)
TryWithoutARegion ==
  /\ Enters("try", {})
  /\ blocks' = Linked(Opened(1), {<<current, Fresh(1)>>})
  /\ current' = Fresh(1)
  /\ open' = Pushed(Frame("try", "try", Fresh(1), Fresh(1), NoBlock, NoBlock, NoBlock))
  /\ UNCHANGED <<where, targets, switchDepth, walked>>

(* The region is a block of its own with nothing in it.                    *)
Try ==
  /\ Enters("try", {})
  /\ blocks' = Linked(Opened(2), {<<current, Fresh(1)>>, <<Fresh(1), Fresh(2)>>})
  /\ current' = Fresh(2)
  /\ open' = Pushed(Frame("try", "try", Fresh(1), Fresh(2), NoBlock, NoBlock, NoBlock))
  /\ UNCHANGED <<where, targets, switchDepth, walked>>

(* Python's else continues the body and is outside the exception edge.     *)
TryElse ==
  /\ grammar.lang = "py"
  /\ Ends({"try"}, {"try"})
  /\ open' = Turned([Top EXCEPT !.arm = "else"])
  /\ UNCHANGED <<text, graph, current, targets, switchDepth, walked>>

(* A handler is entered from the region, never from inside the body.       *)
Catch ==
  /\ Ends({"try"}, {"try", "else"})
  /\ blocks' = Linked(Opened(1), {<<Top.head, Fresh(1)>>})
  /\ current' = Fresh(1)
  /\ open' = Turned([Top EXCEPT !.arm = "catch", !.ends = {current}])
  /\ UNCHANGED <<text, where, targets, switchDepth, walked>>

Finally ==
  /\ Ends({"try"}, {"try", "else", "catch"})
  /\ blocks' = Linked(Opened(2), (Top.ends \cup {current}) \X {Fresh(2)})
  /\ current' = Fresh(2)
  /\ open' = Turned([Top EXCEPT !.arm = "finally", !.ends = {}, !.after = Fresh(1)])
  /\ UNCHANGED <<text, where, targets, switchDepth, walked>>

EndFinally ==
  /\ Ends({"try"}, {"finally"})
  /\ blocks' = Linked(blocks, {<<current, Top.after>>})
  /\ current' = Top.after
  /\ open' = Popped
  /\ UNCHANGED <<text, where, targets, switchDepth, walked>>

EndTry ==
  /\ Ends({"try"}, {"catch"})
  /\ blocks' = Linked(Opened(1), (Top.ends \cup {current}) \X {Fresh(1)})
  /\ current' = Fresh(1)
  /\ open' = Popped
  /\ UNCHANGED <<text, where, targets, switchDepth, walked>>

(* The walk comes to the end of the function.                              *)
EndFunction ==
  /\ ~ walked /\ Len(open) = 1 /\ stmts # <<>>
  /\ walked' = TRUE
  /\ UNCHANGED <<text, graph, current, open, targets, switchDepth>>

LowerNext ==
  \/ Call \/ Return \/ Throw \/ Break \/ Continue
  \/ If \/ Else \/ EndIf
  \/ While \/ For \/ EndLoop \/ EndLoopElse \/ CFor \/ EndCFor \/ Do \/ EndDo
  \/ Switch \/ NextCase \/ EndSwitch
  \/ Try \/ TryElse \/ Catch \/ Finally \/ EndFinally \/ EndTry
  \/ EndFunction

LowerSpec == LowerInit /\ [][LowerNext]_lowerVars

-----------------------------------------------------------------------------
Kinds == {"function", "call", "return", "throw", "break", "continue", "if",
          "while", "for", "cfor", "do", "switch", "try"}
Arms  == {"body", "then", "else", "case", "default", "try", "catch", "finally"}

StmtType   == [kind : Kinds, parent : Nat, arm : Arms,
               opt : SUBSET {"else", "sure", "cond", "step"}]
MaybeBlock == Nat \cup {NoBlock}
FrameType  == [stmt : Nat, kind : Kinds, arm : Arms, head : MaybeBlock,
               body : MaybeBlock, next : MaybeBlock, other : MaybeBlock,
               after : MaybeBlock, ends : SUBSET Nat]
TargetType == [continueTo : Nat, breakTo : Nat, switchDepth : Int]

LowerTypeOK ==
  /\ grammar \in Grammars
  /\ stmts \in Seq(StmtType)
  /\ blocks \in Seq([succ : SUBSET Nat, term : {"none", "branch", "return", "throw"}])
  /\ current \in DOMAIN blocks
  /\ open \in Seq(FrameType) /\ open # <<>>
  /\ targets \in Seq(TargetType) /\ switchDepth \in Int
  /\ walked \in BOOLEAN

(* The graph is whole while it is being built: every successor, every      *)
(* block something was placed in, every block a loop's jumps or an open    *)
(* statement will link exists, statements lie in statements read before    *)
(* them, and only what was read is placed.                                 *)
Leads(bs)    == \A b \in DOMAIN bs : bs[b].succ \subseteq DOMAIN bs
PlacesExist  == /\ DOMAIN where \subseteq (DOMAIN stmts) \X {"call", "cond", "step"}
                /\ where \in [DOMAIN where -> DOMAIN blocks]
Aims(t, bs)  == {t.continueTo, t.breakTo} \subseteq DOMAIN bs
FrameFits(f, bs) == {f.head, f.body, f.next, f.other, f.after} \cup f.ends
                  \subseteq (DOMAIN bs) \cup {NoBlock}
FramesFit    == \A i \in DOMAIN open : /\ FrameFits(open[i], blocks)
                                      /\ IF i = 1 THEN open[i].stmt = 0
                                                  ELSE open[i].stmt \in DOMAIN stmts
ReadInOrder  == \A i \in DOMAIN stmts : stmts[i].parent \in 0 .. i - 1

GraphIsWhole == /\ Leads(blocks) /\ PlacesExist /\ FramesFit /\ ReadInOrder
                /\ \A i \in DOMAIN targets : Aims(targets[i], blocks)

(* Nothing follows a block that left the function: what a frontend lowers  *)
(* behind a return or a throw, and every join that is linked afterwards,   *)
(* stays out of its successors (lower.ts:2616, lower.py:3101: the          *)
(* exception edge once hung on the first block of the body, and "the catch *)
(* became the one thing that unavoidably followed the refusal").           *)
LeftStaysLeft ==
  \A b \in DOMAIN blocks : LeavesIt(b) => blocks[b].succ = {}
=============================================================================
