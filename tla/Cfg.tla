-------------------------------- MODULE Cfg --------------------------------
(***************************************************************************)
(* The control-flow questions of core/internal/cfg: the two iterative      *)
(* dataflow computations over the block graph of one lowered function      *)
(* (post-dominators when the graph is built, dominators on first use) and  *)
(* the queries the analyses ask of the result.                             *)
(*                                                                         *)
(* The function is chosen in Init and never changes.  One step of the      *)
(* specification recomputes one block, as one iteration of the Go loops.   *)
(***************************************************************************)
EXTENDS Integers, Sequences, FiniteSets

CONSTANTS Block,       \* the block identifiers a frontend may mint
          LoweredFn    \* the lowered functions to analyse

(* What a frontend hands over: the blocks in creation order, an entry      *)
(* among them, the successors of each in arm order (the true arm first),   *)
(* linking only blocks of the same function, and the marked loop headers.  *)
ASSUME LoweredFnAssumption ==
  \A f \in LoweredFn :
    /\ f.order \in Seq(Block)
    /\ f.entry \in {f.order[i] : i \in DOMAIN f.order}
    /\ f.succs \in [{f.order[i] : i \in DOMAIN f.order} ->
                      Seq({f.order[i] : i \in DOMAIN f.order})]
    /\ f.loopHeader \subseteq {f.order[i] : i \in DOMAIN f.order}

VARIABLES
  fn,        \* the function under analysis
  phase,     \* "post": post-dominators, "built": Build returned,
             \* "reach" and "doms": the two loops of computeDominators, "done"
  at,        \* index into fn.order of the block the sweep looks at next
  changed,   \* did this sweep change a set?
  postDoms,  \* block -> the blocks every path from it to an exit passes
  reached,   \* reachedFromEntry
  queue,     \* the worklist of the reachability loop
  doms       \* block -> the blocks every path from the entry to it passes

vars == <<fn, phase, at, changed, postDoms, reached, queue, doms>>

Blocks  == {fn.order[i] : i \in DOMAIN fn.order}
Succ(b) == {fn.succs[b][i] : i \in DOMAIN fn.succs[b]}
Pred(b) == {p \in Blocks : b \in Succ(p)}
Exits   == {b \in Blocks : fn.succs[b] = <<>>}

(* The blocks in every one of the sets; none when there is no set.         *)
Common(Sets) == {x \in UNION Sets : \A S \in Sets : x \in S}

Phases == {"post", "built", "reach", "doms", "done"}

TypeOK ==
  /\ fn \in LoweredFn
  /\ phase \in Phases
  /\ at \in 0 .. Len(fn.order) + 1
  /\ phase = "post" => at <= Len(fn.order)
  /\ phase = "doms" => at >= 1
  /\ changed \in BOOLEAN
  /\ postDoms \in [Blocks -> SUBSET Blocks]
  /\ reached \subseteq Blocks
  /\ queue \in Seq(Blocks)
  /\ doms \in [Blocks -> SUBSET Blocks]

-----------------------------------------------------------------------------
(* Defect the checks must find: the sweeps start from the least sets.      *)
InitLeast ==
  /\ fn \in LoweredFn
  /\ phase = "post"
  /\ at = Len(fn.order)
  /\ changed = FALSE
  /\ postDoms = [b \in Blocks |-> {b}]
  /\ reached = {}
  /\ queue = <<>>
  /\ doms = [b \in Blocks |-> {}]

(* Build: every block starts with all blocks, an exit with itself.  A      *)
(* block that has no entry in the Go map is one that has the empty set.    *)
Init ==
  /\ fn \in LoweredFn
  /\ phase = "post"
  /\ at = Len(fn.order)
  /\ changed = FALSE
  /\ postDoms = [b \in Blocks |-> IF b \in Exits THEN {b} ELSE Blocks]
  /\ reached = {}
  /\ queue = <<>>
  /\ doms = [b \in Blocks |-> {}]

(* Defects: some successor's set instead of every one's, and the block     *)
(* left out of its own set.                                                *)
PostMeetAny(b)         == {b} \cup UNION {postDoms[s] : s \in Succ(b)}
PostMeetWithoutSelf(b) == Common({postDoms[s] : s \in Succ(b)})

PostMeet(b) == {b} \cup Common({postDoms[s] : s \in Succ(b)})

(* One iteration of the backwards sweep; an exit keeps its set.            *)
PostStep ==
  /\ phase = "post" /\ at > 0
  /\ LET b == fn.order[at]
     IN  /\ postDoms' = IF b \in Exits THEN postDoms
                        ELSE [postDoms EXCEPT ![b] = PostMeet(b)]
         /\ changed' = (changed \/ postDoms' # postDoms)
  /\ at' = at - 1
  /\ UNCHANGED <<fn, phase, reached, queue, doms>>

(* Defects: the next sweep starts behind the last block, or the flag is    *)
(* never reset.                                                            *)
PostSweepEndBehind ==
  /\ phase = "post" /\ at = 0
  /\ IF changed THEN /\ at' = Len(fn.order) + 1
                     /\ phase' = phase
                ELSE /\ at' = at
                     /\ phase' = "built"
  /\ changed' = FALSE
  /\ UNCHANGED <<fn, postDoms, reached, queue, doms>>

PostSweepEndSticky ==
  /\ phase = "post" /\ at = 0
  /\ IF changed THEN /\ at' = Len(fn.order)
                     /\ phase' = phase
                ELSE /\ at' = at
                     /\ phase' = "built"
  /\ UNCHANGED <<fn, changed, postDoms, reached, queue, doms>>

(* The end of a sweep: another one if this one changed anything.           *)
PostSweepEnd ==
  /\ phase = "post" /\ at = 0
  /\ IF changed THEN /\ at' = Len(fn.order)
                     /\ phase' = phase
                ELSE /\ at' = at
                     /\ phase' = "built"
  /\ changed' = FALSE
  /\ UNCHANGED <<fn, postDoms, reached, queue, doms>>

(* The first call of Dominates or Reachable.                               *)
ComputeDominators ==
  /\ phase = "built"
  /\ phase' = "reach"
  /\ queue' = <<fn.entry>>
  /\ UNCHANGED <<fn, at, changed, postDoms, reached, doms>>

(* Defect: only the first arm of a branch is followed.                     *)
ReachStepFirstArm ==
  /\ phase = "reach" /\ queue # <<>>
  /\ LET b == Head(queue)
     IN  IF b \in reached
         THEN /\ queue' = Tail(queue)
              /\ UNCHANGED reached
         ELSE /\ queue' = Tail(queue) \o (IF fn.succs[b] = <<>> THEN <<>>
                                          ELSE <<Head(fn.succs[b])>>)
              /\ reached' = reached \cup {b}
  /\ UNCHANGED <<fn, phase, at, changed, postDoms, doms>>

ReachStep ==
  /\ phase = "reach" /\ queue # <<>>
  /\ LET b == Head(queue)
     IN  IF b \in reached
         THEN /\ queue' = Tail(queue)
              /\ UNCHANGED reached
         ELSE /\ queue' = Tail(queue) \o fn.succs[b]
              /\ reached' = reached \cup {b}
  /\ UNCHANGED <<fn, phase, at, changed, postDoms, doms>>

ReachEnd ==
  /\ phase = "reach" /\ queue = <<>>
  /\ doms' = [b \in Blocks |-> CASE b \notin reached -> {}
                                 [] b = fn.entry     -> {b}
                                 [] OTHER            -> reached]
  /\ phase' = "doms"
  /\ at' = 1
  /\ changed' = FALSE
  /\ UNCHANGED <<fn, postDoms, reached, queue>>

(* Defect: an orphan predecessor counts like any other.                    *)
DomMeetOrphans(b) == {b} \cup Common({doms[p] : p \in Pred(b)})

(* Only predecessors the entry reaches count: an orphan block after a      *)
(* return is linked to what follows and must not weaken it.                *)
DomMeet(b) == {b} \cup Common({doms[p] : p \in Pred(b) \cap reached})

DomStep ==
  /\ phase = "doms" /\ at <= Len(fn.order)
  /\ LET b == fn.order[at]
     IN  /\ doms' = IF b \notin reached \/ b = fn.entry THEN doms
                    ELSE [doms EXCEPT ![b] = DomMeet(b)]
         /\ changed' = (changed \/ doms' # doms)
  /\ at' = at + 1
  /\ UNCHANGED <<fn, phase, postDoms, reached, queue>>

DomSweepEnd ==
  /\ phase = "doms" /\ at = Len(fn.order) + 1
  /\ IF changed THEN /\ at' = 1
                     /\ phase' = phase
                ELSE /\ at' = at
                     /\ phase' = "done"
  /\ changed' = FALSE
  /\ UNCHANGED <<fn, postDoms, reached, queue, doms>>

Next == PostStep \/ PostSweepEnd \/ ComputeDominators \/ ReachStep
          \/ ReachEnd \/ DomStep \/ DomSweepEnd

Spec     == Init /\ [][Next]_vars
FairSpec == Spec /\ WF_vars(Next)

-----------------------------------------------------------------------------
(* The queries.                                                            *)
PostDominates(a, from) == a \in postDoms[from]
Dominates(a, b)        == a \in doms[b]

(* The breadth-first search of Reaches visits the least set that holds the *)
(* successors of `from` and is closed under successors.                    *)
Reaches(from, to) ==
  \A S \in SUBSET Blocks :
    (Succ(from) \subseteq S /\ \A x \in S : Succ(x) \subseteq S) => to \in S

BranchesTwoWays(b) == Len(fn.succs[b]) >= 2

ControlDependsOn(b, branch) ==
  /\ BranchesTwoWays(branch)
  /\ \E s \in Succ(branch) : PostDominates(b, s)
  /\ \E s \in Succ(branch) : ~ PostDominates(b, s)

(* Defect: the other arms are not asked.                                   *)
SelectedByReaching(target, branch, selected) ==
  /\ BranchesTwoWays(branch)
  /\ selected \in DOMAIN fn.succs[branch]
  /\ LET arm == fn.succs[branch][selected]
     IN  arm = target \/ Reaches(arm, target)

SelectedBySuccessor(target, branch, selected) ==
  /\ BranchesTwoWays(branch)
  /\ selected \in DOMAIN fn.succs[branch]
  /\ \A i \in DOMAIN fn.succs[branch] :
       LET arm == fn.succs[branch][i]
       IN  (arm = target \/ Reaches(arm, target)) <=> i = selected

IsGuard(b) == BranchesTwoWays(b) /\ Cardinality(postDoms[b]) = 1

DependsOnSuccessor(b, branch, selected) ==
  /\ selected \in DOMAIN fn.succs[branch]
  /\ \A i \in DOMAIN fn.succs[branch] :
       PostDominates(b, fn.succs[branch][i]) <=> i = selected

(* admission.reachedThrough: what the taint analysis reads as "the program *)
(* answered yes before it got here".                                       *)
ReachedThrough(target, branch, selected) ==
  \/ SelectedBySuccessor(target, branch, selected)
  \/ /\ BranchesTwoWays(branch)
     /\ DependsOnSuccessor(target, branch, selected)

(* Defect: every predecessor of a header counts as a back edge.            *)
NaturalLoopAnyEdge(h) ==
  LET backEdges == Pred(h) \cap reached
      Walked(S) == \A x \in S \ {h} :
                     \A p \in Pred(x) : p \in reached => p \in S
  IN  IF backEdges = {} THEN {}
      ELSE {x \in Blocks : \A S \in SUBSET Blocks :
              ({h} \cup backEdges \subseteq S /\ Walked(S)) => x \in S}

(* The walk backwards from the back edges of a header stays in the region  *)
(* the header dominates and does not continue past the header itself.      *)
NaturalLoop(h) ==
  LET backEdges == {p \in Pred(h) \cap reached : Dominates(h, p)}
      Walked(S) == \A x \in S \ {h} :
                     \A p \in Pred(x) : Dominates(h, p) => p \in S
  IN  IF backEdges = {} THEN {}
      ELSE {x \in Blocks : \A S \in SUBSET Blocks :
              ({h} \cup backEdges \subseteq S /\ Walked(S)) => x \in S}

Repetitions(b) ==
  {h \in fn.loopHeader \cap reached : b \in reached /\ b \in NaturalLoop(h)}
-----------------------------------------------------------------------------
(* What the queries promise, stated without the algorithm and without      *)
(* paths.  A block a cuts b off from the entry when some region holds the  *)
(* entry (unless that is a), is left only through a, and does not hold b.  *)

CutFromEntry(a) ==
  UNION {Blocks \ S : S \in {T \in SUBSET Blocks :
           /\ {fn.entry} \ {a} \subseteq T
           /\ \A x \in T : Succ(x) \ {a} \subseteq T}}

(* The same towards the exits: the region holds every exit but a, and is   *)
(* entered only through a.                                                 *)
CutFromExits(a) ==
  UNION {Blocks \ S : S \in {T \in SUBSET Blocks :
           /\ Exits \ {a} \subseteq T
           /\ \A x \in Blocks \ {a} : Succ(x) \cap T # {} => x \in T}}

(* The least region that holds the entry and is closed under successors.   *)
FromEntry ==
  {b \in Blocks : \A S \in SUBSET Blocks :
     (fn.entry \in S /\ \A x \in S : Succ(x) \subseteq S) => b \in S}

(* Where an analysis finds the graph: Build and the first Dominates have   *)
(* returned what the checks of this module show they return.               *)
Analysed ==
  /\ fn \in LoweredFn
  /\ phase = "done" /\ at = Len(fn.order) + 1 /\ changed = FALSE /\ queue = <<>>
  /\ reached = FromEntry
  /\ LET cut == [a \in Blocks |-> CutFromEntry(a)]
     IN  doms = [b \in Blocks |-> {a \in reached : b \in cut[a] \cap reached}]
  /\ LET cut == [a \in Blocks |-> CutFromExits(a)]
     IN  postDoms = [b \in Blocks |-> {a \in Blocks : b \in cut[a]}]

(* Reachable marks exactly the blocks control can arrive at, so the orphan *)
(* a frontend opens after every return makes no claim (cfg.go:275).        *)
ReachedExact == phase \in {"doms", "done"} => reached = FromEntry

(* PostDominates is what its comment says: every path from the block to an *)
(* exit passes through a (cfg.go:129).                                     *)
PostDominatorsExact ==
  phase # "post" =>
    \A a \in Blocks : {b \in Blocks : PostDominates(a, b)} = CutFromExits(a)

(* Dominates is what its comment says: every path from the entry to b      *)
(* passes through a, and an unreachable block takes no part (cfg.go:263).  *)
DominatorsExact ==
  phase = "done" =>
    \A a \in Blocks :
      {b \in Blocks : Dominates(a, b)} =
        IF a \in reached THEN CutFromEntry(a) \cap reached ELSE {}

(* However far the sweeps have come, no true (post-)dominator is missing:  *)
(* the sets approach the answer from above only.                           *)
NeverTooSmall ==
  /\ \A a \in Blocks : \A b \in CutFromExits(a) : a \in postDoms[b]
  /\ phase \in {"doms", "done"} =>
       \A a \in reached : \A b \in CutFromEntry(a) \cap reached : a \in doms[b]

(* A sweep only removes members (what makes the loops end).                *)
SetsOnlyShrink ==
  [][/\ \A b \in Blocks : postDoms'[b] \subseteq postDoms[b]
     /\ phase = "doms" => \A b \in Blocks : doms'[b] \subseteq doms[b]]_vars

(* Both fixpoints are reached: Build and the first Dominates return.       *)
Finishes == <>(phase = "done")

(* Reaches, confined to the blocks of R.                                   *)
ReachesWithin(R, from, to) ==
  \A S \in SUBSET R :
    (Succ(from) \cap R \subseteq S /\ \A x \in S : Succ(x) \cap R \subseteq S)
      => to \in S

(* A repetition is a real cycle: b lies on one with the header that never  *)
(* leaves the region the header dominates, and every block on such a cycle *)
(* is counted (cfg.go:321, "sharing a strongly connected component with a  *)
(* loop header is not enough").                                            *)
RepetitionsAreCycles ==
  phase = "done" =>
    \A h \in fn.loopHeader \cap reached :
      LET R == CutFromEntry(h) \cap reached
      IN  {b \in Blocks : h \in Repetitions(b)} =
            {b \in R : ReachesWithin(R, h, b) /\ ReachesWithin(R, b, h)}

(* The two polarity questions never name different arms of one branch,     *)
(* as long as the other arm can leave the function.                        *)
LeavesFunction(b) == b \in Exits \/ \E e \in Exits : Reaches(b, e)

PolaritiesAgree ==
  phase = "done" =>
    \A t, branch \in Blocks : \A i, j \in DOMAIN fn.succs[branch] :
      /\ DependsOnSuccessor(t, branch, j)
      /\ LeavesFunction(fn.succs[branch][j])
      /\ SelectedBySuccessor(t, branch, i)
      => i = j

-----------------------------------------------------------------------------
(* What comments of the code say and the code does not do.                 *)

(* The target can be reached from the entry without the selected arm.      *)
ReachedOtherwise(target, branch, selected) ==
  \A S \in SUBSET Blocks :
    (/\ fn.entry \in S
     /\ \A x \in S : \A i \in DOMAIN fn.succs[x] :
          <<x, i>> # <<branch, selected>> => fn.succs[x][i] \in S)
    => target \in S

(* admission.go:714: "A position that satisfies either was arrived at by   *)
(* the program answering yes": no path from the entry to the target may    *)
(* avoid the selected arm of the branch.                                   *)
ReachedThroughMeansYes ==
  phase = "done" =>
    \A t, branch \in reached : \A i \in DOMAIN fn.succs[branch] :
      ReachedThrough(t, branch, i) => ~ ReachedOtherwise(t, branch, i)

(* cfg.go:138: "the branch has one successor that leads unavoidably to     *)
(* block and another that does not": the first must at least lead there.   *)
ControlDependsLeadsThere ==
  phase = "done" =>
    \A b, branch \in reached :
      ControlDependsOn(b, branch) =>
        \E s \in Succ(branch) :
          PostDominates(b, s) /\ (s = b \/ Reaches(s, b))
============================================================================
