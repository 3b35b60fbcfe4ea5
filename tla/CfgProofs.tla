----------------------------- MODULE CfgProofs -----------------------------
(***************************************************************************)
(* The fixpoints of module Cfg compute what the comments of cfg.go promise *)
(* for every set of lowered functions: the marked blocks are the reachable *)
(* ones, and the two families of sets are the post-dominators and the      *)
(* dominators.  The argument is the same both ways.  From above: no sweep  *)
(* removes a true dominator, because a region that cuts b off from the     *)
(* entry cuts off every predecessor of b too.  From below: when a sweep    *)
(* changes nothing, the blocks whose set lacks a form themselves a region  *)
(* that only a cuts, so a is missing only where it does not dominate.      *)
(* Last, the sets only shrink, which is why such a sweep comes.            *)
(*                                                                         *)
(* Then what the other proofs about a function need of its graph, and of   *)
(* an execution that follows it (module Runs).                             *)
(***************************************************************************)
EXTENDS Runs, TLAPS

-----------------------------------------------------------------------------
(* The shape of a lowered function.                                        *)

LEMMA FnShape ==
  ASSUME fn \in LoweredFn
  PROVE  /\ fn.order \in Seq(Block)
         /\ Len(fn.order) \in Nat
         /\ DOMAIN fn.order = 1 .. Len(fn.order)
         /\ \A i \in 1 .. Len(fn.order) : fn.order[i] \in Blocks
         /\ fn.entry \in Blocks
         /\ \A b \in Blocks : fn.succs[b] \in Seq(Blocks)
         /\ \A b \in Blocks : Succ(b) \subseteq Blocks
         /\ \A b \in Blocks : Succ(b) = {} <=> b \in Exits
         /\ Exits \subseteq Blocks
<1>1. /\ fn.order \in Seq(Block)
      /\ fn.entry \in Blocks
      /\ fn.succs \in [Blocks -> Seq(Blocks)]
  BY LoweredFnAssumption DEF Blocks
<1>2. /\ Len(fn.order) \in Nat
      /\ DOMAIN fn.order = 1 .. Len(fn.order)
  BY <1>1
<1>3. \A i \in 1 .. Len(fn.order) : fn.order[i] \in Blocks
  BY <1>2 DEF Blocks
<1>4. \A b \in Blocks : fn.succs[b] \in Seq(Blocks)
  BY <1>1
<1>5. ASSUME NEW b \in Blocks
      PROVE  Succ(b) \subseteq Blocks /\ (Succ(b) = {} <=> fn.succs[b] = <<>>)
  <2>1. fn.succs[b] \in Seq(Blocks)
    BY <1>4
  <2>2. /\ DOMAIN fn.succs[b] = 1 .. Len(fn.succs[b])
        /\ Len(fn.succs[b]) \in Nat
        /\ \A i \in 1 .. Len(fn.succs[b]) : fn.succs[b][i] \in Blocks
    BY <2>1
  <2>3. fn.succs[b] = <<>> <=> Len(fn.succs[b]) = 0
    BY <2>1
  <2>4. Succ(b) = {} <=> 1 .. Len(fn.succs[b]) = {}
    BY <2>2 DEF Succ
  <2>5. 1 .. Len(fn.succs[b]) = {} <=> Len(fn.succs[b]) = 0
    BY <2>2
  <2>. QED
    BY <2>2, <2>3, <2>4, <2>5 DEF Succ
<1>. QED
  BY <1>1, <1>2, <1>3, <1>4, <1>5 DEF Exits

-----------------------------------------------------------------------------
(* Type correctness.                                                       *)

(* TypeOK holds in every reachable state, whatever functions are given.    *)
THEOREM TypeCorrect == Spec => []TypeOK
<1>1. Init => TypeOK
  <2> SUFFICES ASSUME Init PROVE TypeOK
    OBVIOUS
  <2>1. fn \in LoweredFn
    BY DEF Init
  <2>2. Len(fn.order) \in Nat /\ Exits \subseteq Blocks
    BY <2>1, FnShape
  <2>3. at \in 0 .. Len(fn.order) + 1 /\ at <= Len(fn.order)
    BY <2>2 DEF Init
  <2>4. /\ postDoms \in [Blocks -> SUBSET Blocks]
        /\ doms \in [Blocks -> SUBSET Blocks]
        /\ queue \in Seq(Blocks)
        /\ reached \subseteq Blocks
    BY <2>2 DEF Init
  <2>. QED
    BY <2>1, <2>3, <2>4 DEF Init, TypeOK, Phases
<1>2. TypeOK /\ [Next]_vars => TypeOK'
  <2> SUFFICES ASSUME TypeOK, [Next]_vars
               PROVE  TypeOK'
    OBVIOUS
  <2>. fn \in LoweredFn
    BY DEF TypeOK
  <2>s. /\ Len(fn.order) \in Nat
        /\ \A i \in 1 .. Len(fn.order) : fn.order[i] \in Blocks
        /\ fn.entry \in Blocks
        /\ \A b \in Blocks : fn.succs[b] \in Seq(Blocks)
        /\ \A b \in Blocks : Succ(b) \subseteq Blocks
    BY FnShape
  <2>b. fn' = fn => Blocks' = Blocks
    BY DEF Blocks
  <2>1. CASE PostStep
    <3>1. at \in 1 .. Len(fn.order)
      BY <2>1, <2>s DEF PostStep, TypeOK
    <3>2. fn.order[at] \in Blocks
      BY <3>1, <2>s
    <3>3. PostMeet(fn.order[at]) \subseteq Blocks
      BY <3>2, <2>s DEF PostMeet, Common, TypeOK
    <3>4. postDoms' \in [Blocks -> SUBSET Blocks]
      BY <2>1, <3>2, <3>3 DEF PostStep, TypeOK
    <3>5. changed' \in BOOLEAN
      BY <2>1 DEF PostStep, TypeOK
    <3>. QED
      BY <2>1, <3>1, <3>4, <3>5, <2>b, <2>s DEF PostStep, TypeOK
  <2>2. CASE PostSweepEnd
    <3>1. fn' = fn /\ changed' \in BOOLEAN
      BY <2>2 DEF PostSweepEnd
    <3>2. /\ at' \in 0 .. Len(fn.order) + 1
          /\ phase' \in Phases
          /\ phase' = "post" => at' <= Len(fn.order)
          /\ phase' # "doms"
      BY <2>2, <2>s DEF PostSweepEnd, TypeOK, Phases
    <3>. QED
      BY <2>2, <3>1, <3>2, <2>b DEF PostSweepEnd, TypeOK
  <2>3. CASE ComputeDominators
    <3>1. <<fn.entry>> \in Seq(Blocks)
      BY <2>s
    <3>. QED
      BY <2>3, <3>1, <2>b DEF ComputeDominators, TypeOK, Phases
  <2>4. CASE ReachStep
    <3>1. Head(queue) \in Blocks /\ Tail(queue) \in Seq(Blocks)
      BY <2>4 DEF ReachStep, TypeOK
    <3>2. fn.succs[Head(queue)] \in Seq(Blocks)
      BY <3>1, <2>s
    <3>3. CASE Head(queue) \in reached
      BY <2>4, <3>1, <3>3, <2>b DEF ReachStep, TypeOK
    <3>4. CASE Head(queue) \notin reached
      <4>1. Tail(queue) \o fn.succs[Head(queue)] \in Seq(Blocks)
        BY <3>1, <3>2
      <4>2. reached \cup {Head(queue)} \subseteq Blocks
        BY <3>1 DEF TypeOK
      <4>3. /\ queue' = Tail(queue) \o fn.succs[Head(queue)]
            /\ reached' = reached \cup {Head(queue)}
            /\ UNCHANGED <<fn, phase, at, changed, postDoms, doms>>
        BY <2>4, <3>4 DEF ReachStep
      <4>4. queue' \in Seq(Blocks) /\ reached' \subseteq Blocks
        BY <4>1, <4>2, <4>3
      <4>. QED
        BY <4>3, <4>4, <2>b DEF TypeOK
    <3>. QED
      BY <3>3, <3>4
  <2>5. CASE ReachEnd
    <3>1. doms' \in [Blocks -> SUBSET Blocks]
      BY <2>5, <2>s DEF ReachEnd, TypeOK
    <3>2. /\ phase' = "doms" /\ at' = 1
          /\ UNCHANGED <<fn, postDoms, reached, queue>>
      BY <2>5 DEF ReachEnd
    <3>3. at' \in 0 .. Len(fn.order) + 1
      BY <3>2, <2>s
    <3>4. changed' \in BOOLEAN
      BY <2>5 DEF ReachEnd
    <3>. QED
      BY <3>1, <3>2, <3>3, <3>4, <2>b DEF TypeOK, Phases
  <2>6. CASE DomStep
    <3>1. at \in 1 .. Len(fn.order)
      BY <2>6, <2>s DEF DomStep, TypeOK
    <3>2. fn.order[at] \in Blocks
      BY <3>1, <2>s
    <3>3. DomMeet(fn.order[at]) \subseteq Blocks
      BY <3>2 DEF DomMeet, Common, Pred, TypeOK
    <3>4. doms' \in [Blocks -> SUBSET Blocks]
      BY <2>6, <3>2, <3>3 DEF DomStep, TypeOK
    <3>5. changed' \in BOOLEAN
      BY <2>6 DEF DomStep, TypeOK
    <3>. QED
      BY <2>6, <3>1, <3>4, <3>5, <2>b, <2>s DEF DomStep, TypeOK
  <2>7. CASE DomSweepEnd
    <3>1. fn' = fn /\ changed' \in BOOLEAN
      BY <2>7 DEF DomSweepEnd
    <3>2. /\ at' \in 1 .. Len(fn.order) + 1
          /\ phase' \in Phases
          /\ phase' # "post"
      BY <2>7, <2>s DEF DomSweepEnd, TypeOK, Phases
    <3>. QED
      BY <2>7, <3>1, <3>2, <2>b, <2>s DEF DomSweepEnd, TypeOK
  <2>8. CASE UNCHANGED vars
    BY <2>8, <2>b DEF vars, TypeOK
  <2>. QED
    BY <2>1, <2>2, <2>3, <2>4, <2>5, <2>6, <2>7, <2>8 DEF Next
<1>. QED
  BY <1>1, <1>2, PTL DEF Spec

-----------------------------------------------------------------------------
(* Post-dominators.                                                        *)

ExitRegion(T, a) ==
  /\ T \in SUBSET Blocks
  /\ Exits \ {a} \subseteq T
  /\ \A x \in Blocks \ {a} : Succ(x) \cap T # {} => x \in T

LEMMA CutFromExitsRegion ==
  ASSUME NEW a, NEW b
  PROVE  b \in CutFromExits(a) <=>
           b \in Blocks /\ \E T : ExitRegion(T, a) /\ b \notin T
BY DEF CutFromExits, ExitRegion

PostSettled(b) == b \in Exits \/ postDoms[b] = PostMeet(b)

(* The invariant of the backwards fixpoint: exact on the exits, never too  *)
(* small, and stable on what a sweep without a change has passed.          *)
PostInv ==
  /\ \A b \in Exits : postDoms[b] = {b}
  /\ \A a \in Blocks : \A b \in CutFromExits(a) : a \in postDoms[b]
  /\ phase = "post" /\ ~ changed =>
       \A i \in 1 .. Len(fn.order) : i > at => PostSettled(fn.order[i])
  /\ phase # "post" => \A b \in Blocks : PostSettled(b)

LEMMA PostMeetSound ==
  ASSUME TypeOK, PostInv, NEW a \in Blocks, NEW b \in CutFromExits(a),
         b \notin Exits
  PROVE  a \in PostMeet(b)
<1>. fn \in LoweredFn
  BY DEF TypeOK
<1>1. PICK T : ExitRegion(T, a) /\ b \notin T
  BY CutFromExitsRegion
<1>2. b \in Blocks
  BY CutFromExitsRegion
<1>3. CASE a = b
  BY <1>3 DEF PostMeet
<1>4. CASE a # b
  <2>1. \A s \in Succ(b) : s \in Blocks /\ s \notin T
    BY <1>1, <1>2, <1>4, FnShape DEF ExitRegion
  <2>2. \A s \in Succ(b) : s \in CutFromExits(a)
    BY <1>1, <2>1, CutFromExitsRegion
  <2>3. \A s \in Succ(b) : a \in postDoms[s]
    BY <2>2 DEF PostInv
  <2>4. Succ(b) # {}
    BY <1>2, FnShape
  <2>. QED
    BY <2>3, <2>4 DEF PostMeet, Common
<1>. QED
  BY <1>3, <1>4

LEMMA PostSettledExact ==
  ASSUME TypeOK, PostInv, phase # "post",
         NEW a \in Blocks, NEW b \in Blocks, a \in postDoms[b]
  PROVE  b \in CutFromExits(a)
<1>. fn \in LoweredFn
  BY DEF TypeOK
<1>. DEFINE T == {c \in Blocks : a \notin postDoms[c]}
<1>1. Exits \ {a} \subseteq T
  BY FnShape DEF PostInv
<1>2. ASSUME NEW x \in Blocks \ {a}, NEW y \in Succ(x), y \in T
      PROVE  x \in T
  <2>1. x \notin Exits
    BY <1>2, FnShape
  <2>2. postDoms[x] = PostMeet(x)
    BY <2>1 DEF PostInv, PostSettled
  <2>3. a \notin Common({postDoms[s] : s \in Succ(x)})
    BY <1>2 DEF Common
  <2>. QED
    BY <2>2, <2>3 DEF PostMeet
<1>3. ExitRegion(T, a) /\ b \notin T
  BY <1>1, <1>2 DEF ExitRegion
<1>. QED
  BY <1>3, CutFromExitsRegion

LEMMA PostInvStep ==
  ASSUME TypeOK, PostInv, [Next]_vars
  PROVE  PostInv'
<1>. fn \in LoweredFn
  BY DEF TypeOK
<1>s. /\ Len(fn.order) \in Nat
      /\ \A i \in 1 .. Len(fn.order) : fn.order[i] \in Blocks
      /\ Blocks = {fn.order[i] : i \in 1 .. Len(fn.order)}
      /\ Exits \subseteq Blocks
  BY FnShape DEF Blocks
<1>f. /\ fn' = fn
      /\ Blocks' = Blocks
      /\ Exits' = Exits
      /\ \A b : Succ(b)' = Succ(b)
      /\ \A a : CutFromExits(a)' = CutFromExits(a)
  <2>1. fn' = fn
    BY DEF Next, vars, PostStep, PostSweepEnd, ComputeDominators, ReachStep,
           ReachEnd, DomStep, DomSweepEnd
  <2>. QED
    BY <2>1 DEF Blocks, Exits, Succ, CutFromExits
<1>1. CASE PostStep
  <2>. DEFINE b0 == fn.order[at]
  <2>1. /\ at \in 1 .. Len(fn.order) /\ at' = at - 1
        /\ b0 \in Blocks
        /\ phase = "post" /\ phase' = "post"
    BY <1>1, <1>s DEF PostStep, TypeOK
  <2>2. postDoms' = IF b0 \in Exits THEN postDoms
                    ELSE [postDoms EXCEPT ![b0] = PostMeet(b0)]
    BY <1>1 DEF PostStep
  <2>3. changed' = (changed \/ postDoms' # postDoms)
    BY <1>1 DEF PostStep
  <2>4. \A b \in Exits : postDoms'[b] = {b}
    BY <2>2, <1>s DEF PostInv, TypeOK
  <2>5. ASSUME NEW a \in Blocks, NEW b \in CutFromExits(a)
        PROVE  a \in postDoms'[b]
    <3>1. a \in postDoms[b] /\ b \in Blocks
      BY <2>5, CutFromExitsRegion DEF PostInv
    <3>2. CASE b = b0 /\ b0 \notin Exits
      <4>1. a \in PostMeet(b0)
        BY <3>2, PostMeetSound
      <4>. QED
        BY <4>1, <3>2, <2>1, <2>2 DEF TypeOK
    <3>3. CASE ~ (b = b0 /\ b0 \notin Exits)
      BY <3>1, <3>3, <2>2 DEF TypeOK
    <3>. QED
      BY <3>2, <3>3
  <2>6. ASSUME ~ changed', NEW i \in 1 .. Len(fn.order), i > at'
        PROVE  PostSettled(fn.order[i])'
    <3>1. ~ changed /\ postDoms' = postDoms
      BY <2>3, <2>6
    <3>2. PostMeet(fn.order[i])' = PostMeet(fn.order[i])
      BY <3>1, <1>f DEF PostMeet
    <3>3. PostSettled(fn.order[i])
      <4>1. CASE i = at
        BY <4>1, <2>1, <2>2, <3>1 DEF PostSettled, TypeOK
      <4>2. CASE i # at
        <5>1. i > at
          BY <4>2, <2>1, <2>6
        <5>. QED
          BY <5>1, <3>1, <2>1 DEF PostInv
      <4>. QED
        BY <4>1, <4>2
    <3>4. fn.order[i]' = fn.order[i]
      BY <1>f
    <3>. QED
      BY <3>1, <3>2, <3>3, <3>4, <1>f DEF PostSettled
  <2>. QED
    BY <2>1, <2>4, <2>5, <2>6, <1>f DEF PostInv
<1>2. ASSUME UNCHANGED postDoms, ~ PostStep
      PROVE  PostInv'
  <2>1. \A b : PostSettled(b)' <=> PostSettled(b)
    BY <1>2, <1>f DEF PostSettled, PostMeet
  <2>2. CASE PostSweepEnd
    <3>1. phase = "post" /\ at = 0
      BY <2>2 DEF PostSweepEnd
    <3>2. CASE changed
      <4>1. phase' = "post" /\ at' = Len(fn.order)
        BY <2>2, <3>2 DEF PostSweepEnd
      <4>2. \A i \in 1 .. Len(fn.order) : ~ (i > at')
        BY <4>1, <1>s
      <4>. QED
        BY <1>2, <1>f, <4>1, <4>2 DEF PostInv
    <3>3. CASE ~ changed
      <4>1. phase' = "built"
        BY <2>2, <3>3 DEF PostSweepEnd
      <4>2. \A b \in Blocks : PostSettled(b)
        BY <3>1, <3>3, <1>s DEF PostInv
      <4>. QED
        BY <1>2, <1>f, <2>1, <4>1, <4>2 DEF PostInv
    <3>. QED
      BY <3>2, <3>3
  <2>3. CASE ComputeDominators \/ ReachStep \/ ReachEnd \/ DomStep \/ DomSweepEnd
    <3>1. phase # "post" /\ phase' # "post"
      BY <2>3 DEF ComputeDominators, ReachStep, ReachEnd, DomStep, DomSweepEnd
    <3>. QED
      BY <3>1, <1>2, <1>f, <2>1 DEF PostInv
  <2>4. CASE UNCHANGED vars
    BY <2>4, <1>f, <2>1 DEF vars, PostInv
  <2>. QED
    BY <1>2, <2>2, <2>3, <2>4 DEF Next
<1>. QED
  BY <1>1, <1>2 DEF Next, vars, PostSweepEnd, ComputeDominators, ReachStep,
                    ReachEnd, DomStep, DomSweepEnd

LEMMA PostInvInit == Init => PostInv
<1> SUFFICES ASSUME Init PROVE PostInv
  OBVIOUS
<1>1. fn \in LoweredFn /\ Exits \subseteq Blocks /\ Len(fn.order) \in Nat
  BY FnShape DEF Init
<1>2. \A b \in Exits : postDoms[b] = {b}
  BY <1>1 DEF Init
<1>3. ASSUME NEW a \in Blocks, NEW b \in CutFromExits(a)
      PROVE  a \in postDoms[b]
  <2>1. b \in Blocks /\ (b \in Exits => b = a)
    BY CutFromExitsRegion DEF ExitRegion
  <2>. QED
    BY <2>1 DEF Init
<1>4. \A i \in 1 .. Len(fn.order) : ~ (i > at)
  BY <1>1 DEF Init
<1>5. phase = "post"
  BY DEF Init
<1>. QED
  BY <1>2, <1>3, <1>4, <1>5 DEF PostInv

(* PostDominates(a, from) holds exactly when every path from `from` to an  *)
(* exit passes a, once Build has returned, for every function.             *)
THEOREM PostDominatorsCorrect == Spec => []PostDominatorsExact
<1>1. Init => PostInv
  BY PostInvInit
<1>2. TypeOK /\ PostInv /\ [Next]_vars => PostInv'
  BY PostInvStep
<1>3. TypeOK /\ PostInv => PostDominatorsExact
  <2> SUFFICES ASSUME TypeOK, PostInv, phase # "post", NEW a \in Blocks
               PROVE  {b \in Blocks : PostDominates(a, b)} = CutFromExits(a)
    BY DEF PostDominatorsExact
  <2>1. \A b \in Blocks : a \in postDoms[b] => b \in CutFromExits(a)
    BY PostSettledExact
  <2>2. \A b \in CutFromExits(a) : b \in Blocks /\ a \in postDoms[b]
    BY CutFromExitsRegion DEF PostInv
  <2>. QED
    BY <2>1, <2>2 DEF PostDominates
<1>. QED
  BY <1>1, <1>2, <1>3, TypeCorrect, PTL DEF Spec

-----------------------------------------------------------------------------
(* Reachability from the entry.                                            *)

LEMMA FromEntryClosed ==
  ASSUME fn \in LoweredFn
  PROVE  /\ FromEntry \subseteq Blocks
         /\ fn.entry \in FromEntry
         /\ \A b \in FromEntry : Succ(b) \subseteq FromEntry
         /\ \A S \in SUBSET Blocks :
              (fn.entry \in S /\ \A x \in S : Succ(x) \subseteq S)
                => FromEntry \subseteq S
BY FnShape DEF FromEntry

(* A block that is arrived at, other than the entry, is arrived at from    *)
(* some block: without it the rest would already be closed.                *)
LEMMA FromEntryPred ==
  ASSUME fn \in LoweredFn, NEW b \in FromEntry, b # fn.entry
  PROVE  \E p \in FromEntry : b \in Succ(p)
<1>. SUFFICES ASSUME \A p \in FromEntry : b \notin Succ(p)
              PROVE  FALSE
  OBVIOUS
<1>. DEFINE S == FromEntry \ {b}
<1>1. S \in SUBSET Blocks /\ fn.entry \in S
  BY FromEntryClosed
<1>2. \A x \in S : Succ(x) \subseteq S
  BY FromEntryClosed
<1>3. FromEntry \subseteq S
  BY <1>1, <1>2, FromEntryClosed
<1>. QED
  BY <1>3

Queued == {queue[i] : i \in DOMAIN queue}

(* The invariant of the reachability loop: what is marked or waiting is    *)
(* reachable, and only waiting blocks separate the marked ones from the    *)
(* rest.                                                                   *)
ReachInv ==
  /\ phase \in {"post", "built"} => reached = {}
  /\ phase = "reach" =>
       /\ fn.entry \in reached \cup Queued
       /\ reached \cup Queued \subseteq FromEntry
       /\ \A x \in reached : Succ(x) \subseteq reached \cup Queued
  /\ phase \in {"doms", "done"} => reached = FromEntry

LEMMA ReachInvStep ==
  ASSUME TypeOK, ReachInv, [Next]_vars
  PROVE  ReachInv'
<1>. fn \in LoweredFn
  BY DEF TypeOK
<1>f. /\ fn' = fn
      /\ FromEntry' = FromEntry
      /\ \A b : Succ(b)' = Succ(b)
  <2>1. fn' = fn
    BY DEF Next, vars, PostStep, PostSweepEnd, ComputeDominators, ReachStep,
           ReachEnd, DomStep, DomSweepEnd
  <2>. QED
    BY <2>1 DEF Blocks, Succ, FromEntry
<1>1. CASE ReachStep
  <2>. DEFINE b == Head(queue)
              rest == {Tail(queue)[i] : i \in DOMAIN Tail(queue)}
  <2>1. phase = "reach" /\ phase' = "reach" /\ queue # <<>>
    BY <1>1 DEF ReachStep
  <2>2. queue \in Seq(Blocks) /\ b \in Blocks /\ Tail(queue) \in Seq(Blocks)
    BY <2>1 DEF TypeOK
  <2>3. Queued = {b} \cup rest
    <3>1. /\ DOMAIN queue = 1 .. Len(queue) /\ Len(queue) \in Nat \ {0}
          /\ DOMAIN Tail(queue) = 1 .. Len(queue) - 1
          /\ b = queue[1]
          /\ \A i \in 1 .. Len(queue) - 1 : Tail(queue)[i] = queue[i + 1]
      BY <2>1, <2>2
    <3>2. \A j \in 1 .. Len(queue) :
            j = 1 \/ (j - 1 \in 1 .. Len(queue) - 1 /\ queue[j] = Tail(queue)[j - 1])
      BY <3>1
    <3>3. Queued \subseteq {b} \cup rest
      <4>1. SUFFICES ASSUME NEW j \in 1 .. Len(queue)
                     PROVE  queue[j] \in {b} \cup rest
        BY <3>1 DEF Queued
      <4>2. CASE j = 1
        BY <4>2, <3>1
      <4>3. CASE j - 1 \in 1 .. Len(queue) - 1 /\ queue[j] = Tail(queue)[j - 1]
        <5>1. j - 1 \in DOMAIN Tail(queue)
          BY <4>3, <3>1
        <5>. QED
          BY <5>1, <4>3
      <4>. QED
        BY <4>2, <4>3, <3>2
    <3>4. rest \subseteq Queued
      <4>1. \A i \in 1 .. Len(queue) - 1 : i + 1 \in 1 .. Len(queue)
        BY <3>1
      <4>. QED
        BY <3>1, <4>1 DEF Queued
    <3>5. b \in Queued
      BY <3>1 DEF Queued
    <3>. QED
      BY <3>3, <3>4, <3>5
  <2>4. CASE b \in reached
    <3>1. reached' = reached /\ Queued' = rest
      BY <1>1, <2>4 DEF ReachStep, Queued
    <3>2. reached' \cup Queued' = reached \cup Queued
      BY <2>3, <2>4, <3>1
    <3>. QED
      BY <2>1, <3>1, <3>2, <1>f DEF ReachInv
  <2>5. CASE b \notin reached
    <3>1. fn.succs[b] \in Seq(Blocks)
      BY <2>2, FnShape
    <3>2. reached' = reached \cup {b} /\ queue' = Tail(queue) \o fn.succs[b]
      BY <1>1, <2>5 DEF ReachStep
    <3>3. Queued' = rest \cup Succ(b)
      <4>1. ASSUME NEW s \in Seq(Blocks), NEW t \in Seq(Blocks)
            PROVE  {(s \o t)[i] : i \in DOMAIN (s \o t)} =
                     {s[i] : i \in DOMAIN s} \cup {t[i] : i \in DOMAIN t}
        <5>1. /\ Len(s) \in Nat /\ Len(t) \in Nat
              /\ DOMAIN s = 1 .. Len(s) /\ DOMAIN t = 1 .. Len(t)
              /\ DOMAIN (s \o t) = 1 .. Len(s) + Len(t)
              /\ \A i \in 1 .. Len(s) + Len(t) :
                   (s \o t)[i] = IF i <= Len(s) THEN s[i] ELSE t[i - Len(s)]
          OBVIOUS
        <5>2. \A i \in 1 .. Len(s) + Len(t) :
                i \in 1 .. Len(s) \/ i - Len(s) \in 1 .. Len(t)
          BY <5>1
        <5>3. \A i \in 1 .. Len(s) :
                i \in 1 .. Len(s) + Len(t) /\ (s \o t)[i] = s[i]
          BY <5>1
        <5>4. \A i \in 1 .. Len(t) :
                /\ Len(s) + i \in 1 .. Len(s) + Len(t)
                /\ (s \o t)[Len(s) + i] = t[i]
          BY <5>1
        <5>5. {(s \o t)[i] : i \in DOMAIN (s \o t)} \subseteq
                {s[i] : i \in DOMAIN s} \cup {t[i] : i \in DOMAIN t}
          BY <5>1, <5>2
        <5>6. {s[i] : i \in DOMAIN s} \subseteq {(s \o t)[i] : i \in DOMAIN (s \o t)}
          BY <5>1, <5>3
        <5>7. {t[i] : i \in DOMAIN t} \subseteq {(s \o t)[i] : i \in DOMAIN (s \o t)}
          BY <5>1, <5>4
        <5>. QED
          BY <5>5, <5>6, <5>7
      <4>2. {(Tail(queue) \o fn.succs[b])[i] :
                i \in DOMAIN (Tail(queue) \o fn.succs[b])} = rest \cup Succ(b)
        BY <4>1, <2>2, <3>1 DEF Succ
      <4>. QED
        BY <4>2, <3>2 DEF Queued
    <3>4. Succ(b) \subseteq FromEntry
      BY <2>1, <2>3, FromEntryClosed DEF ReachInv
    <3>5. /\ reached' \cup Queued' = reached \cup Queued \cup Succ(b)
      BY <2>3, <3>2, <3>3
    <3>6. \A x \in reached' : Succ(x) \subseteq reached' \cup Queued'
      BY <2>1, <3>2, <3>5 DEF ReachInv
    <3>. QED
      BY <2>1, <3>4, <3>5, <3>6, <1>f DEF ReachInv
  <2>. QED
    BY <2>4, <2>5
<1>2. CASE ReachEnd
  <2>1. /\ phase = "reach" /\ queue = <<>> /\ phase' = "doms"
        /\ reached' = reached
    BY <1>2 DEF ReachEnd
  <2>2. Queued = {}
    BY <2>1 DEF Queued
  <2>3. reached = FromEntry
    BY <2>1, <2>2, FromEntryClosed DEF ReachInv, TypeOK
  <2>. QED
    BY <2>1, <2>3, <1>f DEF ReachInv
<1>3. CASE ComputeDominators
  <2>1. /\ phase = "built" /\ phase' = "reach"
        /\ reached' = {}
        /\ queue' = <<fn.entry>>
    BY <1>3 DEF ComputeDominators, ReachInv
  <2>2. Queued' = {fn.entry}
    BY <2>1 DEF Queued
  <2>. QED
    BY <2>1, <2>2, <1>f, FromEntryClosed DEF ReachInv
<1>4. CASE PostStep \/ PostSweepEnd
  BY <1>4, <1>f DEF PostStep, PostSweepEnd, ReachInv
<1>5. CASE DomStep \/ DomSweepEnd
  BY <1>5, <1>f DEF DomStep, DomSweepEnd, ReachInv
<1>6. CASE UNCHANGED vars
  BY <1>6, <1>f DEF vars, ReachInv, Queued
<1>. QED
  BY <1>1, <1>2, <1>3, <1>4, <1>5, <1>6 DEF Next

LEMMA ReachInvariant == Spec => []ReachInv
<1>1. Init => ReachInv
  BY DEF Init, ReachInv
<1>. QED
  BY <1>1, ReachInvStep, TypeCorrect, PTL DEF Spec

(* When the dominator sweeps start, the marked blocks are exactly those    *)
(* control can arrive at from the entry.                                   *)
THEOREM ReachedCorrect == Spec => []ReachedExact
<1>1. ReachInv => ReachedExact
  BY DEF ReachInv, ReachedExact
<1>. QED
  BY <1>1, ReachInvariant, PTL

-----------------------------------------------------------------------------
(* Dominators.                                                             *)

EntryRegion(T, a) ==
  /\ T \in SUBSET Blocks
  /\ {fn.entry} \ {a} \subseteq T
  /\ \A x \in T : Succ(x) \ {a} \subseteq T

LEMMA CutFromEntryRegion ==
  ASSUME NEW a, NEW b
  PROVE  b \in CutFromEntry(a) <=>
           b \in Blocks /\ \E T : EntryRegion(T, a) /\ b \notin T
BY DEF CutFromEntry, EntryRegion

DomSettled(b) == b \notin reached \/ b = fn.entry \/ doms[b] = DomMeet(b)

DomInv ==
  phase \in {"doms", "done"} =>
    /\ \A b \in Blocks : doms[b] \subseteq reached
    /\ \A b \in Blocks \ reached : doms[b] = {}
    /\ doms[fn.entry] = {fn.entry}
    /\ \A a \in reached : \A b \in CutFromEntry(a) \cap reached : a \in doms[b]
    /\ phase = "doms" /\ ~ changed =>
         \A i \in 1 .. Len(fn.order) : i < at => DomSettled(fn.order[i])
    /\ phase = "done" => \A b \in Blocks : DomSettled(b)

LEMMA DomMeetSound ==
  ASSUME TypeOK, ReachInv, DomInv, phase = "doms",
         NEW a \in reached, NEW b \in CutFromEntry(a) \cap reached, b # fn.entry
  PROVE  a \in DomMeet(b)
<1>. fn \in LoweredFn /\ reached = FromEntry
  BY DEF TypeOK, ReachInv
<1>1. PICK T : EntryRegion(T, a) /\ b \notin T
  BY CutFromEntryRegion
<1>2. CASE a = b
  BY <1>2 DEF DomMeet
<1>3. CASE a # b
  <2>1. \A p \in Pred(b) \cap reached : p \in CutFromEntry(a) \cap reached
    <3>1. \A p \in Pred(b) \cap reached : p \in Blocks /\ p \notin T
      BY <1>1, <1>3 DEF EntryRegion, Pred
    <3>. QED
      BY <3>1, <1>1, CutFromEntryRegion
  <2>2. \A p \in Pred(b) \cap reached : a \in doms[p]
    BY <2>1 DEF DomInv
  <2>3. Pred(b) \cap reached # {}
    BY FromEntryPred, FromEntryClosed DEF Pred
  <2>. QED
    BY <2>2, <2>3 DEF DomMeet, Common
<1>. QED
  BY <1>2, <1>3

LEMMA DomSettledExact ==
  ASSUME TypeOK, ReachInv, DomInv, phase = "done",
         NEW a \in Blocks, NEW b \in Blocks, a \in doms[b]
  PROVE  a \in reached /\ b \in reached /\ b \in CutFromEntry(a)
<1>. fn \in LoweredFn /\ reached = FromEntry
  BY DEF TypeOK, ReachInv
<1>. DEFINE T == {c \in reached : a \notin doms[c]}
<1>1. a \in reached /\ b \in reached
  BY DEF DomInv
<1>2. {fn.entry} \ {a} \subseteq T
  BY FromEntryClosed DEF DomInv
<1>3. ASSUME NEW x \in T, NEW y \in Succ(x), y # a
      PROVE  y \in T
  <2>1. y \in reached /\ y \in Blocks
    BY FromEntryClosed
  <2>2. CASE y = fn.entry
    BY <1>2, <1>3, <2>2
  <2>3. CASE y # fn.entry
    <3>1. doms[y] = DomMeet(y)
      BY <2>1, <2>3 DEF DomInv, DomSettled
    <3>2. x \in Pred(y) \cap reached
      BY FromEntryClosed DEF Pred
    <3>3. a \notin Common({doms[p] : p \in Pred(y) \cap reached})
      BY <3>2 DEF Common
    <3>. QED
      BY <1>3, <2>1, <3>1, <3>3 DEF DomMeet
  <2>. QED
    BY <2>2, <2>3
<1>4. EntryRegion(T, a) /\ b \notin T
  BY <1>2, <1>3, FromEntryClosed DEF EntryRegion
<1>. QED
  BY <1>1, <1>4, CutFromEntryRegion

LEMMA DomInvStep ==
  ASSUME TypeOK, ReachInv, DomInv, [Next]_vars
  PROVE  DomInv'
<1>. fn \in LoweredFn
  BY DEF TypeOK
<1>s. /\ Len(fn.order) \in Nat
      /\ \A i \in 1 .. Len(fn.order) : fn.order[i] \in Blocks
      /\ Blocks = {fn.order[i] : i \in 1 .. Len(fn.order)}
      /\ fn.entry \in Blocks
  BY FnShape DEF Blocks
<1>f. /\ fn' = fn
      /\ Blocks' = Blocks
      /\ \A b : Pred(b)' = Pred(b)
      /\ \A a : CutFromEntry(a)' = CutFromEntry(a)
  <2>1. fn' = fn
    BY DEF Next, vars, PostStep, PostSweepEnd, ComputeDominators, ReachStep,
           ReachEnd, DomStep, DomSweepEnd
  <2>2. Blocks' = Blocks /\ \A b : Succ(b)' = Succ(b)
    BY <2>1 DEF Blocks, Succ
  <2>3. \A a : CutFromEntry(a)' = CutFromEntry(a)
    BY <2>1, <2>2 DEF CutFromEntry
  <2>. QED
    BY <2>1, <2>2, <2>3 DEF Pred
<1>1. CASE DomStep
  <2>. DEFINE b0 == fn.order[at]
              skip == b0 \notin reached \/ b0 = fn.entry
  <2>1. /\ at \in 1 .. Len(fn.order) /\ at' = at + 1
        /\ b0 \in Blocks
        /\ phase = "doms" /\ phase' = "doms"
        /\ reached' = reached
    BY <1>1, <1>s DEF DomStep, TypeOK
  <2>2. doms' = IF skip THEN doms ELSE [doms EXCEPT ![b0] = DomMeet(b0)]
    BY <1>1 DEF DomStep
  <2>3. changed' = (changed \/ doms' # doms)
    BY <1>1 DEF DomStep
  <2>4. DomMeet(b0) \subseteq reached \/ skip
    BY <2>1 DEF DomMeet, Common, DomInv, Pred
  <2>5. \A b \in Blocks : doms'[b] \subseteq reached
    BY <2>1, <2>2, <2>4 DEF DomInv, TypeOK
  <2>6. /\ \A b \in Blocks \ reached : doms'[b] = {}
        /\ doms'[fn.entry] = {fn.entry}
    BY <2>1, <2>2, <1>s DEF DomInv, TypeOK
  <2>7. ASSUME NEW a \in reached, NEW b \in CutFromEntry(a) \cap reached
        PROVE  a \in doms'[b]
    <3>1. a \in doms[b] /\ b \in Blocks
      BY <2>1, CutFromEntryRegion DEF DomInv
    <3>2. CASE b = b0 /\ ~ skip
      <4>1. a \in DomMeet(b0)
        BY <3>2, <2>1, DomMeetSound
      <4>. QED
        BY <4>1, <3>2, <2>1, <2>2 DEF TypeOK
    <3>3. CASE ~ (b = b0 /\ ~ skip)
      BY <3>1, <3>3, <2>2 DEF TypeOK
    <3>. QED
      BY <3>2, <3>3
  <2>8. ASSUME ~ changed', NEW i \in 1 .. Len(fn.order), i < at'
        PROVE  DomSettled(fn.order[i])'
    <3>1. ~ changed /\ doms' = doms
      BY <2>3, <2>8
    <3>2. DomMeet(fn.order[i])' = DomMeet(fn.order[i])
      BY <3>1, <2>1, <1>f DEF DomMeet
    <3>3. DomSettled(fn.order[i])
      <4>1. CASE i = at
        BY <4>1, <2>1, <2>2, <3>1 DEF DomSettled, TypeOK
      <4>2. CASE i # at
        <5>1. i < at
          BY <4>2, <2>1, <2>8
        <5>. QED
          BY <5>1, <3>1, <2>1 DEF DomInv
      <4>. QED
        BY <4>1, <4>2
    <3>4. fn.order[i]' = fn.order[i]
      BY <1>f
    <3>. QED
      BY <3>1, <3>2, <3>3, <3>4, <2>1, <1>f DEF DomSettled
  <2>. QED
    BY <2>1, <2>5, <2>6, <2>7, <2>8, <1>f DEF DomInv
<1>2. CASE DomSweepEnd
  <2>1. /\ phase = "doms" /\ at = Len(fn.order) + 1
        /\ UNCHANGED <<fn, reached, doms>>
    BY <1>2 DEF DomSweepEnd
  <2>2. \A b : DomSettled(b)' <=> DomSettled(b)
    BY <2>1, <1>f DEF DomSettled, DomMeet
  <2>3. CASE changed
    <3>1. phase' = "doms" /\ at' = 1
      BY <1>2, <2>1, <2>3 DEF DomSweepEnd
    <3>2. \A i \in 1 .. Len(fn.order) : ~ (i < at')
      BY <3>1, <1>s
    <3>. QED
      BY <2>1, <3>1, <3>2, <1>f DEF DomInv
  <2>4. CASE ~ changed
    <3>1. phase' = "done"
      BY <1>2, <2>4 DEF DomSweepEnd
    <3>2. \A b \in Blocks : DomSettled(b)
      <4>1. \A i \in 1 .. Len(fn.order) : i < at
        BY <2>1, <1>s
      <4>. QED
        BY <2>1, <2>4, <4>1, <1>s DEF DomInv
    <3>. QED
      BY <2>1, <2>2, <3>1, <3>2, <1>f DEF DomInv
  <2>. QED
    BY <2>3, <2>4
<1>3. CASE ReachEnd
  <2>1. /\ phase' = "doms" /\ at' = 1
        /\ reached' = reached
        /\ doms' = [b \in Blocks |-> CASE b \notin reached -> {}
                                       [] b = fn.entry     -> {b}
                                       [] OTHER            -> reached]
    BY <1>3 DEF ReachEnd
  <2>2. reached = FromEntry /\ fn.entry \in reached
    <3>1. ReachInv'
      BY ReachInvStep
    <3>2. reached' = FromEntry'
      BY <3>1, <2>1 DEF ReachInv
    <3>3. FromEntry' = FromEntry
      BY <1>f DEF FromEntry, Blocks, Succ
    <3>. QED
      BY <2>1, <3>2, <3>3, FromEntryClosed
  <2>3. /\ \A b \in Blocks : doms'[b] \subseteq reached
        /\ \A b \in Blocks \ reached : doms'[b] = {}
        /\ doms'[fn.entry] = {fn.entry}
    BY <2>1, <2>2, <1>s
  <2>4. ASSUME NEW a \in reached, NEW b \in CutFromEntry(a) \cap reached
        PROVE  a \in doms'[b]
    <3>1. b \in Blocks /\ (b = fn.entry => b = a)
      BY CutFromEntryRegion DEF EntryRegion
    <3>. QED
      BY <2>1, <3>1
  <2>5. \A i \in 1 .. Len(fn.order) : ~ (i < at')
    BY <2>1, <1>s
  <2>. QED
    BY <2>1, <2>3, <2>4, <2>5, <1>f DEF DomInv
<1>4. CASE PostStep \/ PostSweepEnd \/ ComputeDominators \/ ReachStep
  <2>1. phase' \notin {"doms", "done"}
    BY <1>4 DEF PostStep, PostSweepEnd, ComputeDominators, ReachStep
  <2>. QED
    BY <2>1 DEF DomInv
<1>5. CASE UNCHANGED vars
  <2>1. \A b : DomSettled(b)' <=> DomSettled(b)
    BY <1>5, <1>f DEF vars, DomSettled, DomMeet
  <2>. QED
    BY <1>5, <2>1, <1>f DEF vars, DomInv
<1>. QED
  BY <1>1, <1>2, <1>3, <1>4, <1>5 DEF Next

LEMMA DomInvariant == Spec => []DomInv
<1>1. Init => DomInv
  BY DEF Init, DomInv
<1>. QED
  BY <1>1, DomInvStep, TypeCorrect, ReachInvariant, PTL DEF Spec

(* Dominates(a, b) holds exactly when control can arrive at both and every *)
(* path from the entry to b passes a, for every function.                  *)
THEOREM DominatorsCorrect == Spec => []DominatorsExact
<1>1. TypeOK /\ ReachInv /\ DomInv => DominatorsExact
  <2> SUFFICES ASSUME TypeOK, ReachInv, DomInv, phase = "done", NEW a \in Blocks
               PROVE  {b \in Blocks : Dominates(a, b)} =
                        IF a \in reached THEN CutFromEntry(a) \cap reached ELSE {}
    BY DEF DominatorsExact
  <2>1. \A b \in Blocks : a \in doms[b] =>
          a \in reached /\ b \in reached /\ b \in CutFromEntry(a)
    BY DomSettledExact
  <2>2. a \in reached =>
          \A b \in CutFromEntry(a) \cap reached : b \in Blocks /\ a \in doms[b]
    BY CutFromEntryRegion DEF DomInv
  <2>. QED
    BY <2>1, <2>2 DEF Dominates
<1>. QED
  BY <1>1, TypeCorrect, ReachInvariant, DomInvariant, PTL

(* At every step of both computations no true (post-)dominator is missing. *)
THEOREM NeverTooSmallCorrect == Spec => []NeverTooSmall
<1>1. Init => PostInv
  BY PostInvInit
<1>2. PostInv /\ DomInv => NeverTooSmall
  BY DEF PostInv, DomInv, NeverTooSmall
<1>. QED
  BY <1>1, <1>2, PostInvStep, DomInvariant, TypeCorrect, PTL DEF Spec

-----------------------------------------------------------------------------
(* Why the sweeps end: a set is never below the meet of its neighbours, so *)
(* assigning the meet only takes members away.                             *)
ShrinkInv ==
  /\ \A b \in Blocks \ Exits : PostMeet(b) \subseteq postDoms[b]
  /\ phase = "doms" =>
       \A b \in reached \ {fn.entry} : DomMeet(b) \subseteq doms[b]

LEMMA PostStepShrinks ==
  ASSUME TypeOK, ShrinkInv, PostStep
  PROVE  /\ \A b \in Blocks : postDoms'[b] \subseteq postDoms[b]
         /\ \A b \in Blocks \ Exits : PostMeet(b)' \subseteq postDoms'[b]
<1>. fn \in LoweredFn
  BY DEF TypeOK
<1>. DEFINE c == fn.order[at]
<1>1. c \in Blocks
  <2>1. at \in 1 .. Len(fn.order)
    BY FnShape DEF TypeOK, PostStep
  <2>. QED
    BY <2>1, FnShape
<1>2. /\ postDoms' = IF c \in Exits THEN postDoms
                     ELSE [postDoms EXCEPT ![c] = PostMeet(c)]
      /\ fn' = fn
  BY DEF PostStep
<1>3. postDoms \in [Blocks -> SUBSET Blocks]
  BY DEF TypeOK
<1>. HIDE DEF c
<1>4. ASSUME NEW b \in Blocks PROVE postDoms'[b] \subseteq postDoms[b]
  BY <1>1, <1>2, <1>3 DEF ShrinkInv
<1>5. ASSUME NEW b \in Blocks \ Exits PROVE PostMeet(b)' \subseteq postDoms'[b]
  <2>1. \A s \in Succ(b) : postDoms'[s] \subseteq postDoms[s]
    BY <1>4, FnShape
  <2>2. Common({postDoms'[s] : s \in Succ(b)}) \subseteq Common({postDoms[s] : s \in Succ(b)})
    BY <2>1 DEF Common
  <2>3. PostMeet(b)' = {b} \cup Common({postDoms'[s] : s \in Succ(b)})
    BY <1>2 DEF PostMeet, Common, Succ
  <2>4. PostMeet(b)' \subseteq PostMeet(b)
    BY <2>2, <2>3 DEF PostMeet
  <2>5. PostMeet(b) \subseteq postDoms'[b]
    BY <1>1, <1>2, <1>3 DEF ShrinkInv
  <2>. QED
    BY <2>4, <2>5
<1>. QED
  BY <1>4, <1>5

LEMMA DomStepShrinks ==
  ASSUME TypeOK, ShrinkInv, DomStep
  PROVE  /\ \A b \in Blocks : doms'[b] \subseteq doms[b]
         /\ \A b \in reached \ {fn.entry} : DomMeet(b)' \subseteq doms'[b]
<1>. fn \in LoweredFn
  BY DEF TypeOK
<1>. DEFINE c == fn.order[at]
<1>1. /\ doms' = IF c \notin reached \/ c = fn.entry THEN doms
                 ELSE [doms EXCEPT ![c] = DomMeet(c)]
      /\ fn' = fn /\ reached' = reached
      /\ phase = "doms"
  BY DEF DomStep
<1>2. doms \in [Blocks -> SUBSET Blocks] /\ reached \subseteq Blocks
  BY DEF TypeOK
<1>. HIDE DEF c
<1>3. ASSUME NEW b \in Blocks PROVE doms'[b] \subseteq doms[b]
  BY <1>1, <1>2 DEF ShrinkInv
<1>4. ASSUME NEW b \in reached \ {fn.entry} PROVE DomMeet(b)' \subseteq doms'[b]
  <2>. DEFINE P == Pred(b) \cap reached
  <2>1. \A p \in P : doms'[p] \subseteq doms[p]
    BY <1>2, <1>3
  <2>2. Common({doms'[p] : p \in P}) \subseteq Common({doms[p] : p \in P})
    <3>. HIDE DEF P
    <3>. QED
      BY <2>1 DEF Common
  <2>3. DomMeet(b)' = {b} \cup Common({doms'[p] : p \in P})
    BY <1>1 DEF DomMeet, Common, Pred, Succ, Blocks
  <2>4. DomMeet(b)' \subseteq DomMeet(b)
    BY <2>2, <2>3 DEF DomMeet
  <2>5. DomMeet(b) \subseteq doms'[b]
    BY <1>1, <1>2 DEF ShrinkInv
  <2>. QED
    BY <2>4, <2>5
<1>. QED
  BY <1>3, <1>4

LEMMA ShrinkInvInit == Init => ShrinkInv
<1> SUFFICES ASSUME Init PROVE ShrinkInv
  OBVIOUS
<1>. fn \in LoweredFn
  BY DEF Init
<1>1. phase = "post" /\ postDoms = [b \in Blocks |-> IF b \in Exits THEN {b} ELSE Blocks]
  BY DEF Init
<1>2. ASSUME NEW b \in Blocks \ Exits PROVE PostMeet(b) \subseteq postDoms[b]
  <2>1. postDoms[b] = Blocks
    BY <1>1
  <2>2. \A s \in Succ(b) : postDoms[s] \subseteq Blocks
    BY <1>1, FnShape
  <2>. QED
    BY <2>1, <2>2 DEF PostMeet, Common
<1>. QED
  BY <1>1, <1>2 DEF ShrinkInv

LEMMA ShrinkInvStep ==
  ASSUME TypeOK, ShrinkInv, [Next]_vars
  PROVE  ShrinkInv'
<1>. fn \in LoweredFn
  BY DEF TypeOK
<1>f. fn' = fn => Blocks' = Blocks /\ Exits' = Exits
  BY DEF Blocks, Exits
<1>0. ASSUME UNCHANGED <<fn, postDoms>>
      PROVE  \A b \in Blocks' \ Exits' : PostMeet(b)' \subseteq postDoms'[b]
  BY <1>0, <1>f DEF ShrinkInv, PostMeet, Common, Succ
<1>1. CASE PostStep
  <2>1. fn' = fn /\ phase' # "doms"
    BY <1>1 DEF PostStep
  <2>. QED
    BY <1>1, <1>f, <2>1, PostStepShrinks DEF ShrinkInv
<1>2. CASE ReachEnd
  <2>1. /\ UNCHANGED <<fn, postDoms, reached>>
        /\ doms' = [b \in Blocks |-> CASE b \notin reached -> {}
                                       [] b = fn.entry     -> {b}
                                       [] OTHER            -> reached]
    BY <1>2 DEF ReachEnd
  <2>2. reached \subseteq Blocks
    BY DEF TypeOK
  <2>3. \A b \in reached \ {fn.entry} : doms'[b] = reached
    BY <2>1, <2>2
  <2>4. \A b \in reached : doms'[b] \subseteq reached
    BY <2>1, <2>2, <2>3
  <2>5. ASSUME NEW b \in reached' \ {fn'.entry} PROVE DomMeet(b)' \subseteq doms'[b]
    <3>1. b \in reached \ {fn.entry} /\ reached' = reached
      BY <2>1
    <3>. QED
      BY <2>3, <2>4, <3>1 DEF DomMeet, Common
  <2>. QED
    BY <1>0, <2>1, <2>5 DEF ShrinkInv
<1>3. CASE DomStep
  <2>1. UNCHANGED <<fn, postDoms, reached>>
    BY <1>3 DEF DomStep
  <2>. QED
    BY <1>0, <1>3, <2>1, DomStepShrinks DEF ShrinkInv
<1>4. CASE DomSweepEnd \/ UNCHANGED vars
  <2>1. /\ UNCHANGED <<fn, postDoms, reached, doms>>
        /\ phase' = "doms" => phase = "doms"
    BY <1>4 DEF DomSweepEnd, vars
  <2>2. ASSUME phase' = "doms", NEW b \in reached' \ {fn'.entry}
        PROVE  DomMeet(b)' \subseteq doms'[b]
    BY <2>1, <2>2 DEF ShrinkInv, DomMeet, Common, Pred, Succ, Blocks
  <2>. QED
    BY <1>0, <2>1, <2>2 DEF ShrinkInv
<1>5. CASE PostSweepEnd \/ ComputeDominators \/ ReachStep
  <2>1. UNCHANGED <<fn, postDoms>> /\ phase' # "doms"
    BY <1>5 DEF PostSweepEnd, ComputeDominators, ReachStep
  <2>. QED
    BY <1>0, <2>1 DEF ShrinkInv
<1>. QED
  BY <1>1, <1>2, <1>3, <1>4, <1>5 DEF Next

(* No iteration of either loop ever adds a block to a set, for every       *)
(* function: after finitely many changes a sweep changes nothing.          *)
THEOREM SetsOnlyShrinkCorrect == Spec => SetsOnlyShrink
<1>1. TypeOK /\ ShrinkInv /\ [Next]_vars => ShrinkInv'
  BY ShrinkInvStep
<1>2. TypeOK /\ ShrinkInv /\ [Next]_vars =>
        [/\ \A b \in Blocks : postDoms'[b] \subseteq postDoms[b]
         /\ phase = "doms" => \A b \in Blocks : doms'[b] \subseteq doms[b]]_vars
  <2> SUFFICES ASSUME TypeOK, ShrinkInv, Next
               PROVE  /\ \A b \in Blocks : postDoms'[b] \subseteq postDoms[b]
                      /\ phase = "doms" => \A b \in Blocks : doms'[b] \subseteq doms[b]
    OBVIOUS
  <2>1. CASE PostStep
    <3>1. phase # "doms"
      BY <2>1 DEF PostStep
    <3>. QED
      BY <2>1, <3>1, PostStepShrinks
  <2>2. CASE DomStep
    <3>1. postDoms' = postDoms
      BY <2>2 DEF DomStep
    <3>. QED
      BY <2>2, <3>1, DomStepShrinks
  <2>3. CASE PostSweepEnd \/ ComputeDominators \/ ReachStep \/ ReachEnd \/ DomSweepEnd
    <3>1. postDoms' = postDoms /\ (phase = "doms" => doms' = doms)
      BY <2>3 DEF PostSweepEnd, ComputeDominators, ReachStep, ReachEnd, DomSweepEnd
    <3>. QED
      BY <3>1
  <2>. QED
    BY <2>1, <2>2, <2>3 DEF Next
<1>. QED
  BY <1>1, <1>2, ShrinkInvInit, TypeCorrect, PTL DEF Spec, SetsOnlyShrink

-----------------------------------------------------------------------------
(* The queries.  What is proved of the sets carries over to the questions  *)
(* the analyses ask with them.                                             *)

Region(h) == {b \in Blocks : Dominates(h, b)}

BackEdges(h) == {p \in Pred(h) \cap reached : Dominates(h, p)}

Walked(h, S) == \A x \in S \ {h} : \A p \in Pred(x) : Dominates(h, p) => p \in S

LEMMA NaturalLoopMember ==
  ASSUME NEW h, NEW b \in Blocks
  PROVE  b \in NaturalLoop(h) <=>
           /\ BackEdges(h) # {}
           /\ \A S \in SUBSET Blocks :
                ({h} \cup BackEdges(h) \subseteq S /\ Walked(h, S)) => b \in S
BY DEF NaturalLoop, BackEdges, Walked

(* The region of a reached header: what it dominates.                      *)
LEMMA RegionOfHeader ==
  ASSUME TypeOK, ReachInv, DominatorsExact, phase = "done", NEW h \in reached
  PROVE  /\ h \in Region(h)
         /\ Region(h) = CutFromEntry(h) \cap reached
         /\ Region(h) \subseteq Blocks
         /\ BackEdges(h) = Pred(h) \cap Region(h)
<1>. fn \in LoweredFn /\ h \in Blocks /\ reached \subseteq Blocks
  BY DEF TypeOK
<1>1. Region(h) = CutFromEntry(h) \cap reached
  BY DEF DominatorsExact, Region
<1>2. EntryRegion(Blocks \ {h}, h)
  BY FnShape DEF EntryRegion
<1>3. h \in CutFromEntry(h)
  BY <1>2, CutFromEntryRegion
<1>4. BackEdges(h) = Pred(h) \cap Region(h)
  BY <1>1 DEF BackEdges, Region, Pred
<1>. QED
  BY <1>1, <1>3, <1>4

(* From a header every other block of its region is reached inside it: a   *)
(* region that cuts the block off, the header and what the header reaches  *)
(* inside would together be closed under successors.                       *)
LEMMA HeaderReachesRegion ==
  ASSUME TypeOK, ReachInv, DominatorsExact, phase = "done", NEW h \in reached,
         NEW b \in Region(h), b # h
  PROVE  ReachesWithin(Region(h), h, b)
<1>. DEFINE R == Region(h)
<1>0. /\ fn \in LoweredFn /\ reached = FromEntry
      /\ R = CutFromEntry(h) \cap reached /\ R \subseteq Blocks
      /\ h \in Blocks
  BY RegionOfHeader DEF TypeOK, ReachInv
<1>. SUFFICES ASSUME NEW S \in SUBSET R,
                     Succ(h) \cap R \subseteq S,
                     \A x \in S : Succ(x) \cap R \subseteq S
              PROVE  b \in S
  BY DEF ReachesWithin
<1>1. PICK T : EntryRegion(T, h) /\ b \notin T
  BY <1>0, CutFromEntryRegion
<1>. DEFINE U == T \cup {h} \cup S
<1>2. /\ T \subseteq Blocks
      /\ fn.entry \in T \cup {h}
      /\ \A x \in T : Succ(x) \subseteq T \cup {h}
  BY <1>0, <1>1, FnShape DEF EntryRegion
<1>3. \A y \in reached \ R : y \in T
  BY <1>0, <1>1, CutFromEntryRegion DEF TypeOK
<1>4. \A x \in reached : Succ(x) \subseteq reached
  BY <1>0, FromEntryClosed
<1>5. \A x \in U : Succ(x) \subseteq U
  <2>1. \A x \in S \cup {h} : x \in reached /\ Succ(x) \cap R \subseteq S
    BY <1>0
  <2>2. \A x \in S \cup {h} : Succ(x) \subseteq S \cup T
    BY <2>1, <1>3, <1>4
  <2>. QED
    BY <2>2, <1>2
<1>6. U \subseteq Blocks /\ fn.entry \in U
  BY <1>0, <1>2
<1>7. b \in U
  BY <1>0, <1>5, <1>6 DEF FromEntry
<1>. QED
  BY <1>7, <1>1

(* A block of the loop lies in the region and reaches the header inside    *)
(* it: the blocks that do, with the header, are closed under the walk.     *)
LEMMA LoopReachesHeader ==
  ASSUME TypeOK, ReachInv, DominatorsExact, phase = "done", NEW h \in reached,
         NEW b \in Blocks, b \in NaturalLoop(h)
  PROVE  /\ b \in Region(h)
         /\ ReachesWithin(Region(h), h, b)
         /\ ReachesWithin(Region(h), b, h)
<1>. DEFINE R  == Region(h)
            S0 == {x \in R : ReachesWithin(R, x, h)}
<1>0. /\ fn \in LoweredFn
      /\ R \subseteq Blocks /\ h \in R
      /\ BackEdges(h) = Pred(h) \cap R
      /\ BackEdges(h) # {}
      /\ \A S \in SUBSET Blocks :
           ({h} \cup BackEdges(h) \subseteq S /\ Walked(h, S)) => b \in S
  BY RegionOfHeader, NaturalLoopMember DEF TypeOK
<1>1. \A p \in BackEdges(h) : p \in R /\ ReachesWithin(R, p, h)
  BY <1>0 DEF ReachesWithin, Pred
<1>2. ASSUME NEW x \in S0, NEW p \in Pred(x), Dominates(h, p)
      PROVE  p \in S0
  <2>1. p \in R /\ x \in Succ(p)
    BY <1>2 DEF Pred, Region
  <2>2. ASSUME NEW S \in SUBSET R, Succ(p) \cap R \subseteq S,
               \A y \in S : Succ(y) \cap R \subseteq S
        PROVE  h \in S
    <3>1. x \in S /\ Succ(x) \cap R \subseteq S
      BY <2>1, <2>2
    <3>. QED
      BY <3>1, <2>2 DEF ReachesWithin
  <2>. QED
    BY <2>1, <2>2 DEF ReachesWithin
<1>3. Walked(h, S0 \cup {h})
  BY <1>2 DEF Walked
<1>4. b \in S0 \cup {h}
  <2>1. {h} \cup BackEdges(h) \subseteq S0 \cup {h} /\ S0 \cup {h} \in SUBSET Blocks
    BY <1>0, <1>1
  <2>. QED
    BY <2>1, <1>0, <1>3
<1>5. CASE b # h
  BY <1>4, <1>5, HeaderReachesRegion
<1>6. CASE b = h
  <2>1. PICK p \in BackEdges(h) : p \in R /\ h \in Succ(p)
    BY <1>0 DEF Pred
  <2>2. ReachesWithin(R, h, h)
    <3>. SUFFICES ASSUME NEW S \in SUBSET R,
                         Succ(h) \cap R \subseteq S,
                         \A x \in S : Succ(x) \cap R \subseteq S
                  PROVE  h \in S
      BY DEF ReachesWithin
    <3>1. CASE p = h
      BY <3>1, <2>1, <1>0
    <3>2. CASE p # h
      <4>1. ReachesWithin(R, h, p)
        BY <3>2, <2>1, HeaderReachesRegion
      <4>2. p \in S
        BY <4>1 DEF ReachesWithin
      <4>. QED
        BY <4>2, <2>1, <1>0
    <3>. QED
      BY <3>1, <3>2
  <2>. QED
    BY <2>2, <1>0, <1>6
<1>. QED
  BY <1>5, <1>6

(* And a block of the region that reaches the header inside it is walked   *)
(* to: what a walk leaves out of the region cannot be left without being   *)
(* entered.                                                                *)
LEMMA CycleIsWalked ==
  ASSUME TypeOK, ReachInv, DominatorsExact, phase = "done", NEW h \in reached,
         NEW b \in Region(h), ReachesWithin(Region(h), b, h)
  PROVE  b \in NaturalLoop(h)
<1>. DEFINE R == Region(h)
<1>0. /\ fn \in LoweredFn
      /\ R \subseteq Blocks /\ h \in R
      /\ BackEdges(h) = Pred(h) \cap R
  BY RegionOfHeader DEF TypeOK
<1>1. ASSUME NEW x \in R, NEW y \in Succ(x) \cap R
      PROVE  x \in Pred(y) /\ Dominates(h, x)
  BY <1>1, <1>0 DEF Pred, Region
<1>2. BackEdges(h) # {}
  <2>. SUFFICES ASSUME BackEdges(h) = {} PROVE FALSE
    OBVIOUS
  <2>1. \A x \in R : Succ(x) \cap R \subseteq R \ {h}
    BY <1>0, <1>1
  <2>2. h \in R \ {h}
    BY <2>1, <1>0 DEF ReachesWithin
  <2>. QED
    BY <2>2
<1>3. ASSUME NEW S \in SUBSET Blocks, {h} \cup BackEdges(h) \subseteq S, Walked(h, S),
             b \notin S
      PROVE  FALSE
  <2>. DEFINE Q == R \ S
  <2>1. ASSUME NEW x \in Q, NEW y \in Succ(x) \cap R
        PROVE  y \notin S
    <3>1. x \in Pred(y) /\ Dominates(h, x) /\ x \in R /\ x \notin S
      BY <2>1, <1>1
    <3>2. y # h
      BY <3>1, <1>3, <1>0
    <3>. QED
      BY <3>1, <3>2, <1>3 DEF Walked
  <2>2. b \in Q
    BY <1>3
  <2>3. h \in Q
    BY <2>1, <2>2 DEF ReachesWithin
  <2>. QED
    BY <2>3, <1>3
<1>. QED
  BY <1>0, <1>2, <1>3, NaturalLoopMember

(* A block repeats under a header exactly when a cycle through the header  *)
(* that stays inside what the header dominates passes it, for every graph. *)
THEOREM RepetitionsCorrect == Spec => []RepetitionsAreCycles
<1>1. TypeOK /\ ReachInv /\ DominatorsExact => RepetitionsAreCycles
  <2> SUFFICES ASSUME TypeOK, ReachInv, DominatorsExact, phase = "done",
                      NEW h \in fn.loopHeader \cap reached
               PROVE  {b \in Blocks : h \in Repetitions(b)} =
                        {b \in Region(h) : /\ ReachesWithin(Region(h), h, b)
                                           /\ ReachesWithin(Region(h), b, h)}
    BY RegionOfHeader DEF RepetitionsAreCycles
  <2>1. Region(h) \subseteq Blocks /\ Region(h) \subseteq reached
    BY RegionOfHeader
  <2>2. \A b \in Blocks : h \in Repetitions(b) <=> b \in reached /\ b \in NaturalLoop(h)
    BY DEF Repetitions
  <2>3. \A b \in Blocks : b \in NaturalLoop(h) =>
          b \in Region(h) /\ ReachesWithin(Region(h), h, b) /\ ReachesWithin(Region(h), b, h)
    BY LoopReachesHeader
  <2>4. \A b \in Region(h) : ReachesWithin(Region(h), b, h) => b \in NaturalLoop(h)
    BY CycleIsWalked
  <2>. QED
    BY <2>1, <2>2, <2>3, <2>4
<1>. QED
  BY <1>1, TypeCorrect, ReachInvariant, DominatorsCorrect, PTL

(* What a block reaches is closed under successors; a region the exits     *)
(* hold and only t enters has no way in from outside it that avoids t.     *)
LEMMA UnreachedDominator ==
  ASSUME fn \in LoweredFn, NEW t \in Blocks, NEW arm \in Blocks,
         arm \in CutFromExits(t), arm # t, ~ Reaches(arm, t)
  PROVE  ~ LeavesFunction(arm)
<1>1. PICK T : ExitRegion(T, t) /\ arm \notin T
  BY CutFromExitsRegion
<1>2. PICK S \in SUBSET Blocks :
        Succ(arm) \subseteq S /\ (\A x \in S : Succ(x) \subseteq S) /\ t \notin S
  BY DEF Reaches
<1>3. /\ Exits \ {t} \subseteq T
      /\ \A x \in Blocks \ {t} : Succ(x) \cap T # {} => x \in T
  BY <1>1 DEF ExitRegion
<1>4. arm \notin Exits
  BY <1>1, <1>3
<1>5. Succ(arm) \subseteq S \ T
  BY <1>1, <1>2, <1>3
<1>6. \A x \in S \ T : Succ(x) \subseteq S \ T
  BY <1>2, <1>3
<1>7. ASSUME NEW e \in Exits, Reaches(arm, e)
      PROVE  FALSE
  <2>1. e \in S \ T
    BY <1>2, <1>5, <1>6, <1>7 DEF Reaches
  <2>. QED
    BY <2>1, <1>2, <1>3
<1>. QED
  BY <1>4, <1>7 DEF LeavesFunction

(* The question about reaching and the question about post-dominance never *)
(* name different arms of one branch, unless the arm never leaves.         *)
THEOREM PolaritiesCorrect == Spec => []PolaritiesAgree
<1>1. TypeOK /\ PostDominatorsExact => PolaritiesAgree
  <2> SUFFICES ASSUME TypeOK, PostDominatorsExact, phase = "done",
                      NEW t \in Blocks, NEW branch \in Blocks,
                      NEW i \in DOMAIN fn.succs[branch], NEW j \in DOMAIN fn.succs[branch],
                      DependsOnSuccessor(t, branch, j),
                      LeavesFunction(fn.succs[branch][j]),
                      SelectedBySuccessor(t, branch, i),
                      i # j
               PROVE  FALSE
    BY DEF PolaritiesAgree
  <2>. DEFINE arm == fn.succs[branch][j]
  <2>1. fn \in LoweredFn
    BY DEF TypeOK
  <2>2. arm \in Blocks
    <3>1. fn.succs[branch] \in Seq(Blocks)
      BY <2>1, FnShape
    <3>. QED
      BY <3>1
  <2>3. arm # t /\ ~ Reaches(arm, t)
    BY DEF SelectedBySuccessor
  <2>4. arm \in CutFromExits(t)
    <3>1. PostDominates(t, arm)
      BY DEF DependsOnSuccessor
    <3>. QED
      BY <3>1, <2>2 DEF PostDominatorsExact
  <2>. QED
    BY <2>1, <2>2, <2>3, <2>4, UnreachedDominator
<1>. QED
  BY <1>1, TypeCorrect, PostDominatorsCorrect, PTL

-----------------------------------------------------------------------------
(* The graph as an analysis finds it (Analysed), for the judgements that   *)
(* are held against executions.                                            *)

LEMMA AnalysedDominance ==
  ASSUME Analysed
  PROVE  /\ fn \in LoweredFn /\ reached = FromEntry
         /\ \A a \in Blocks, b \in Blocks :
              Dominates(a, b) <=> a \in reached /\ b \in reached /\ b \in CutFromEntry(a)
<1>1. fn \in LoweredFn /\ reached = FromEntry
  BY DEF Analysed
<1>2. doms = [b \in Blocks |-> {a \in reached : b \in CutFromEntry(a) \cap reached}]
  <2>1. reached \subseteq Blocks
    BY <1>1, FromEntryClosed
  <2>. QED
    BY <2>1 DEF Analysed
<1>. QED
  BY <1>1, <1>2 DEF Dominates

(* Control that arrives at b without having been at a leaves every region  *)
(* around a: what a does not dominate, it does not dominate afterwards.    *)
LEMMA NotDominatedOn ==
  ASSUME fn \in LoweredFn, NEW a \in Blocks, NEW p \in Blocks, NEW b \in Succ(p),
         p \notin CutFromEntry(a), p # a, b # a
  PROVE  b \notin CutFromEntry(a)
BY CutFromEntryRegion, FnShape DEF EntryRegion

(* The entry is dominated by nothing else.                                 *)
LEMMA EntryNotDominated ==
  ASSUME fn \in LoweredFn, NEW a \in Blocks, a # fn.entry
  PROVE  fn.entry \notin CutFromEntry(a)
BY CutFromEntryRegion, FnShape DEF EntryRegion

(* A block that dominates a reached block leads to it.                     *)
LEMMA DominatorLeadsThere ==
  ASSUME fn \in LoweredFn, reached = FromEntry,
         NEW a \in Blocks, NEW b \in reached, a # b, b \in CutFromEntry(a)
  PROVE  Reaches(a, b)
<1>. SUFFICES ASSUME NEW S \in SUBSET Blocks, Succ(a) \subseteq S,
                     \A x \in S : Succ(x) \subseteq S
              PROVE  b \in S
  BY DEF Reaches
<1>1. PICK T : EntryRegion(T, a) /\ b \notin T
  BY CutFromEntryRegion
<1>. DEFINE U == T \cup {a} \cup S
<1>2. U \subseteq Blocks /\ fn.entry \in U /\ \A x \in U : Succ(x) \subseteq U
  BY <1>1, FnShape DEF EntryRegion
<1>3. b \in U
  BY <1>2, FromEntryClosed
<1>. QED
  BY <1>1, <1>3

LEMMA AnalysedPostDominance ==
  ASSUME Analysed
  PROVE  /\ fn \in LoweredFn
         /\ \A a \in Blocks, b \in Blocks : PostDominates(a, b) <=> b \in CutFromExits(a)
<1>1. postDoms = [b \in Blocks |-> {a \in Blocks : b \in CutFromExits(a)}]
  BY DEF Analysed
<1>. QED
  BY <1>1 DEF Analysed, PostDominates

(* What a post-dominates it post-dominates on every way on from there, and *)
(* no exit is post-dominated by another block.                             *)
LEMMA PostDominatedOn ==
  ASSUME fn \in LoweredFn, NEW a \in Blocks, NEW p \in Blocks, NEW b \in Succ(p),
         p \in CutFromExits(a), p # a, b # a
  PROVE  b \in CutFromExits(a)
BY CutFromExitsRegion, FnShape DEF ExitRegion

LEMMA ExitNotPostDominated ==
  ASSUME fn \in LoweredFn, NEW a \in Blocks, NEW e \in Exits, e # a
  PROVE  e \notin CutFromExits(a)
BY CutFromExitsRegion DEF ExitRegion

(* What a block leads to, what that leads to, it leads to as well.         *)
LEMMA LeadsOn ==
  ASSUME fn \in LoweredFn, NEW a \in Blocks, NEW p \in Blocks, NEW b \in Succ(p),
         a = p \/ Reaches(a, p)
  PROVE  Reaches(a, b)
BY FnShape DEF Reaches

-----------------------------------------------------------------------------
(* Executions (module Runs).  What every one of them has behind it,        *)
(* whatever the function: where control is, everything before has run,     *)
(* every block that dominates the current one has run to its end, and the  *)
(* block of a statement that ran leads to the blocks of those that ran     *)
(* after it.                                                               *)

LEMMA TextOfBlock ==
  ASSUME fn \in LoweredFn, NEW b \in Blocks
  PROVE  /\ fn.text[b] \in Seq(STRING \X Nat)
         /\ Len(fn.text[b]) \in Nat
         /\ DOMAIN fn.text[b] = 1 .. Len(fn.text[b])
         /\ DOMAIN fn.text = Blocks
<1>1. fn.text \in [Blocks -> Seq(STRING \X Nat)]
  BY TextAssumption DEF Blocks
<1>. QED
  BY <1>1

-----------------------------------------------------------------------------
Stands(s, b) == \E p \in DOMAIN fn.text[b] : fn.text[b][p] = s

(* The statement is among the first k of the trace t; and so are the first *)
(* n of block b.                                                           *)
Among(t, k, s)         == \E j \in 1 .. k : t[j] = s
RanThrough(t, k, b, n) == \A q \in 1 .. n : Among(t, k, fn.text[b][q])

(* Every block that dominates b has run to its end.                        *)
DominatorsRan(t, k, b) ==
  \A a \in Blocks \ {b} : b \in CutFromEntry(a) => RanThrough(t, k, a, Len(fn.text[a]))

Followed(t, k) ==
  \E b \in reached : \E p \in DOMAIN fn.text[b] :
    t[k] = fn.text[b][p] /\ RanThrough(t, k, b, p) /\ DominatorsRan(t, k, b)

LeadsTo(a, b) == a = b \/ Reaches(a, b)

RunTypes ==
  /\ here \in reached
  /\ pc \in 1 .. Len(fn.text[here]) + 1
  /\ trace \in Seq(STRING \X Nat)

RunBehind ==
  /\ RanThrough(trace, Len(trace), here, pc - 1)
  /\ DominatorsRan(trace, Len(trace), here)
  /\ \A k \in 1 .. Len(trace) : Followed(trace, k)

RunOrder ==
  /\ \A k \in 1 .. Len(trace) : \A a \in Blocks : Stands(trace[k], a) => LeadsTo(a, here)
  /\ \A k \in 1 .. Len(trace) : \A j \in 1 .. k : \A a, b \in Blocks :
       j < k /\ Stands(trace[j], a) /\ Stands(trace[k], b) => LeadsTo(a, b)

RunInv == RunTypes /\ RunBehind /\ RunOrder

LEMMA RunInvInit ==
  ASSUME fn \in LoweredFn, reached = FromEntry, RunInit
  PROVE  RunInv
<1>1. fn.entry \in reached /\ reached \subseteq Blocks /\ fn.entry \in Blocks
  BY FromEntryClosed, FnShape
<1>2. Len(fn.text[fn.entry]) \in Nat
  BY <1>1, TextOfBlock
<1>3. here = fn.entry /\ pc = 1 /\ trace = <<>> /\ Len(trace) = 0
  BY DEF RunInit
<1>4. RunTypes
  BY <1>1, <1>2, <1>3 DEF RunTypes
<1>5. RunBehind
  BY <1>1, <1>3, EntryNotDominated DEF RunBehind, RanThrough, DominatorsRan
<1>6. RunOrder
  BY <1>3 DEF RunOrder
<1>. QED
  BY <1>4, <1>5, <1>6 DEF RunInv

(* What ran stays among what ran.                                          *)
LEMMA RanThroughGrows ==
  ASSUME NEW t, NEW u, NEW k \in Nat, NEW l \in Nat, k <= l,
         \A j \in 1 .. k : u[j] = t[j]
  PROVE  /\ \A s : Among(t, k, s) => Among(u, l, s)
         /\ \A b, n : RanThrough(t, k, b, n) => RanThrough(u, l, b, n)
         /\ \A b : DominatorsRan(t, k, b) => DominatorsRan(u, l, b)
<1>1. ASSUME NEW s, Among(t, k, s) PROVE Among(u, l, s)
  BY <1>1 DEF Among
<1>2. \A b, n : RanThrough(t, k, b, n) => RanThrough(u, l, b, n)
  BY <1>1 DEF RanThrough
<1>3. \A b : DominatorsRan(t, k, b) => DominatorsRan(u, l, b)
  BY <1>2 DEF DominatorsRan
<1>. QED
  BY <1>1, <1>2, <1>3

(* The invariant reads the function and the reached blocks, which no step  *)
(* changes.                                                                *)
LEMMA RunFrame ==
  ASSUME fn' = fn, reached' = reached
  PROVE  /\ Blocks' = Blocks
         /\ RunBehind' <=> /\ RanThrough(trace', Len(trace'), here', pc' - 1)
                           /\ DominatorsRan(trace', Len(trace'), here')
                           /\ \A k \in 1 .. Len(trace') : Followed(trace', k)
         /\ RunOrder' <=>
              /\ \A k \in 1 .. Len(trace') : \A a \in Blocks :
                   Stands(trace'[k], a) => LeadsTo(a, here')
              /\ \A k \in 1 .. Len(trace') : \A j \in 1 .. k : \A a, b \in Blocks :
                   j < k /\ Stands(trace'[j], a) /\ Stands(trace'[k], b) => LeadsTo(a, b)
BY DEF RunBehind, RunOrder, RanThrough, DominatorsRan, Followed, Among, Stands, LeadsTo,
       Reaches, CutFromEntry, Blocks, Succ

(* A statement of the current block runs.                                  *)
LEMMA RunInvStatement ==
  ASSUME RunInv, fn \in LoweredFn, reached = FromEntry, StandsOnce(fn),
         RunStatement, vars' = vars
  PROVE  RunInv'
<1>. DEFINE s == fn.text[here][pc]
            n == Len(trace)
<1>1. /\ fn' = fn /\ reached' = reached /\ here' = here /\ pc' = pc + 1
      /\ trace' = Append(trace, fn.text[here][pc])
  BY DEF RunStatement, vars, Text
<1>2. reached \subseteq Blocks /\ here \in Blocks /\ here \in reached
  BY FromEntryClosed DEF RunInv, RunTypes
<1>3. /\ Len(fn.text[here]) \in Nat /\ pc \in 1 .. Len(fn.text[here])
      /\ DOMAIN fn.text[here] = 1 .. Len(fn.text[here])
      /\ s \in STRING \X Nat
  <2>1. Len(fn.text[here]) \in Nat /\ fn.text[here] \in Seq(STRING \X Nat)
    BY <1>2, TextOfBlock
  <2>2. pc \in 1 .. Len(fn.text[here])
    BY <2>1 DEF RunInv, RunTypes, RunStatement, AtEnd, Text
  <2>. QED
    BY <2>1, <2>2
<1>4. /\ trace \in Seq(STRING \X Nat) /\ n \in Nat
      /\ trace' \in Seq(STRING \X Nat)
      /\ Len(trace') = n + 1 /\ trace'[n + 1] = s
      /\ \A j \in 1 .. n : trace'[j] = trace[j]
  BY <1>1, <1>3 DEF RunInv, RunTypes
<1>. HIDE DEF n, s
<1>5. ASSUME NEW k \in 0 .. n, NEW l \in 0 .. n + 1, k <= l
      PROVE  /\ \A b, m : RanThrough(trace, k, b, m) => RanThrough(trace', l, b, m)
             /\ \A b : DominatorsRan(trace, k, b) => DominatorsRan(trace', l, b)
  <2>1. k \in Nat /\ l \in Nat /\ \A j \in 1 .. k : trace'[j] = trace[j]
    BY <1>4
  <2>. HIDE <1>1
  <2>. QED
    BY <2>1, <1>5, RanThroughGrows
<1>6. /\ \A b, m : RanThrough(trace, n, b, m) => RanThrough(trace', n + 1, b, m)
      /\ \A b : DominatorsRan(trace, n, b) => DominatorsRan(trace', n + 1, b)
  BY <1>4, <1>5
<1>7. RunTypes'
  BY <1>1, <1>2, <1>3, <1>4 DEF RunTypes
<1>8. RanThrough(trace', n + 1, here, pc)
  <2>1. RanThrough(trace', n + 1, here, pc - 1)
    BY <1>6 DEF RunInv, RunBehind, n
  <2>2. Among(trace', n + 1, fn.text[here][pc])
    BY <1>4 DEF Among, s
  <2>. QED
    BY <2>1, <2>2, <1>3 DEF RanThrough
<1>9. DominatorsRan(trace', n + 1, here)
  BY <1>6 DEF RunInv, RunBehind, n
<1>10. ASSUME NEW k \in 1 .. n + 1 PROVE Followed(trace', k)
  <2>1. CASE k = n + 1
    BY <2>1, <1>2, <1>3, <1>4, <1>8, <1>9 DEF Followed, s
  <2>2. CASE k # n + 1
    <3>1. k \in 1 .. n /\ Followed(trace, k) /\ trace'[k] = trace[k]
      BY <2>2, <1>4 DEF RunInv, RunBehind, n
    <3>. QED
      BY <3>1, <1>5 DEF Followed
  <2>. QED
    BY <2>1, <2>2
<1>11. RunBehind'
  <2>1. pc' - 1 = pc
    BY <1>1, <1>3
  <2>. QED
    BY <2>1, <1>1, <1>4, <1>8, <1>9, <1>10, RunFrame
<1>12. \A a \in Blocks : Stands(s, a) => a = here
  <2>1. DOMAIN fn.text = Blocks
    BY <1>2, TextOfBlock
  <2>. QED
    BY <2>1, <1>2, <1>3 DEF Stands, StandsOnce, s
<1>13. ASSUME NEW k \in 1 .. n + 1, NEW a \in Blocks, Stands(trace'[k], a)
       PROVE  LeadsTo(a, here)
  <2>1. CASE k = n + 1
    BY <2>1, <1>4, <1>12, <1>13 DEF LeadsTo
  <2>2. CASE k # n + 1
    <3>1. k \in 1 .. n /\ trace'[k] = trace[k]
      BY <2>2, <1>4
    <3>. QED
      BY <3>1, <1>13 DEF RunInv, RunOrder, n
  <2>. QED
    BY <2>1, <2>2
<1>14. ASSUME NEW k \in 1 .. n + 1, NEW j \in 1 .. k, NEW a \in Blocks, NEW b \in Blocks,
              j < k, Stands(trace'[j], a), Stands(trace'[k], b)
       PROVE  LeadsTo(a, b)
  <2>1. CASE k = n + 1
    <3>1. b = here
      BY <2>1, <1>4, <1>12, <1>14
    <3>. QED
      BY <3>1, <1>13, <1>14, <1>4
  <2>2. CASE k # n + 1
    <3>1. k \in 1 .. n /\ j \in 1 .. n /\ trace'[k] = trace[k] /\ trace'[j] = trace[j]
      BY <2>2, <1>4, <1>14
    <3>. QED
      BY <3>1, <1>14 DEF RunInv, RunOrder, n
  <2>. QED
    BY <2>1, <2>2
<1>15. RunOrder'
  BY <1>13, <1>14, <1>1, <1>4, RunFrame
<1>. QED
  BY <1>7, <1>11, <1>15 DEF RunInv

(* Control moves on to a successor.                                        *)
LEMMA RunInvBranch ==
  ASSUME RunInv, fn \in LoweredFn, reached = FromEntry, RunBranch, vars' = vars
  PROVE  RunInv'
<1>. DEFINE n == Len(trace)
<1>1. /\ fn' = fn /\ reached' = reached /\ trace' = trace /\ pc' = 1 /\ here' \in Succ(here)
  BY DEF RunBranch, vars
<1>2. /\ reached \subseteq Blocks /\ here \in Blocks /\ here \in reached
      /\ here' \in reached /\ here' \in Blocks
      /\ trace \in Seq(STRING \X Nat) /\ n \in Nat
  BY <1>1, FromEntryClosed DEF RunInv, RunTypes
<1>3. Len(fn.text[here]) \in Nat /\ pc = Len(fn.text[here]) + 1 /\ Len(fn.text[here']) \in Nat
  <2>1. Len(fn.text[here]) \in Nat /\ Len(fn.text[here']) \in Nat
    BY <1>2, TextOfBlock
  <2>. QED
    BY <2>1 DEF RunInv, RunTypes, RunBranch, AtEnd, Text
<1>4. RunTypes'
  BY <1>1, <1>2, <1>3 DEF RunTypes
<1>5. RanThrough(trace, n, here, Len(fn.text[here]))
  BY <1>3 DEF RunInv, RunBehind
<1>6. ASSUME NEW a \in Blocks \ {here'}, here' \in CutFromEntry(a)
      PROVE  RanThrough(trace, n, a, Len(fn.text[a]))
  <2>1. CASE a = here
    BY <2>1, <1>5
  <2>2. CASE a # here
    <3>1. here \in CutFromEntry(a)
      BY <2>2, <1>6, <1>1, <1>2, NotDominatedOn
    <3>. QED
      BY <3>1, <2>2, <1>6 DEF RunInv, RunBehind, DominatorsRan
  <2>. QED
    BY <2>1, <2>2
<1>7. RunBehind'
  <2>1. RanThrough(trace, n, here', 0) /\ DominatorsRan(trace, n, here')
    BY <1>6 DEF RanThrough, DominatorsRan
  <2>2. \A k \in 1 .. n : Followed(trace, k)
    BY DEF RunInv, RunBehind
  <2>. QED
    BY <2>1, <2>2, <1>1, RunFrame
<1>8. ASSUME NEW k \in 1 .. n, NEW a \in Blocks, Stands(trace[k], a)
      PROVE  LeadsTo(a, here')
  <2>1. LeadsTo(a, here)
    BY <1>8 DEF RunInv, RunOrder
  <2>. QED
    BY <2>1, <1>1, <1>2, LeadsOn DEF LeadsTo
<1>9. RunOrder'
  BY <1>1, <1>8, RunFrame DEF RunInv, RunOrder
<1>. QED
  BY <1>4, <1>7, <1>9 DEF RunInv

LEMMA RunInvStutter ==
  ASSUME RunInv, run' = run, vars' = vars
  PROVE  RunInv'
BY RunFrame DEF RunInv, RunTypes, RunBehind, RunOrder, run, vars
============================================================================
