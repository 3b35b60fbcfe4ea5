------------------------------ MODULE Reachdef ------------------------------
(***************************************************************************)
(* core/internal/reachdef: which definitions of a reassigned local each    *)
(* use still reads.  Split decides it from the block graph alone; the      *)
(* specification decides it the same way, value by value, and then runs    *)
(* the function, remembering which definition ran last, so that a kill can *)
(* be held against what executions do.                                     *)
(*                                                                         *)
(* It starts where Cfg ends: the dominators are those Cfg computes.        *)
(***************************************************************************)
EXTENDS Cfg

CONSTANTS Value,     \* the names of a function
          NoBlock    \* the block of an edge no frontend vouched for

(* What a frontend lowers of one function besides its blocks.  `flows` and *)
(* `calls` are what the core is handed; `text` is the order in which the   *)
(* statements of a block run, and `raises` where control goes when one of  *)
(* them throws: both are the program's and neither is in the IR.           *)
ASSUME BodyAssumption ==
  \A f \in LoweredFn :
    LET Own == {f.order[i] : i \in DOMAIN f.order}
    IN  /\ NoBlock \notin Own
        /\ f.values \in Seq(Value)
        /\ f.plain \subseteq Value      \* local, no base, no path, no parameter
        /\ f.captured \subseteq Value   \* also defined in another function
        /\ f.flows \in Seq([from : Value, to : Value, grows : BOOLEAN,
                            block : Own \cup {NoBlock}, line : Nat])
        /\ f.calls \in Seq([reads : Seq(Value), block : Own, line : Nat])
        /\ f.text \in [Own -> Seq({"flow", "call"} \X Nat)]
        /\ \A b \in Own : \A k \in DOMAIN f.text[b] :
             LET s == f.text[b][k]
             IN  IF s[1] = "flow" THEN s[2] \in DOMAIN f.flows
                                  ELSE s[2] \in DOMAIN f.calls
        /\ f.raises \subseteq Own \X Own

VARIABLES
  at_value,      \* index of the value `run` looks at next
  reads,         \* use -> the definitions that flow into what it reads
  at_block,      \* the execution: its block,
  at_statement,  \* the statement in it,
  last           \* and value -> the definition that ran last, 0 before any did

execution == <<at_block, at_statement, last>>
all       == <<vars, at_value, reads, execution>>

-----------------------------------------------------------------------------
Flow(i) == fn.flows[i]
Call(i) == fn.calls[i]

DefsOf(v) == {i \in DOMAIN fn.flows : Flow(i).to = v}

(* A use is an edge out of a value, or a position of a call.               *)
FlowUse == {<<"flow", i, 0>> : i \in DOMAIN fn.flows}
CallUse == UNION {{<<"call", i, k>> : k \in DOMAIN Call(i).reads} :
                    i \in DOMAIN fn.calls}
Use     == FlowUse \cup CallUse

Site(u)   == IF u[1] = "flow" THEN Flow(u[2]) ELSE Call(u[2])
ReadBy(u) == IF u[1] = "flow" THEN Flow(u[2]).from ELSE Call(u[2]).reads[u[3]]

(* usesOf collects the reads with a position; one in an orphan block is    *)
(* passed over by splitValue.                                              *)
UsesOf(v) == {u \in Use : ReadBy(u) = v /\ Site(u).block \in reached}

(* definitionsOf: every precondition for reasoning about a value.          *)
Splittable(v) ==
  /\ v \in fn.plain \ fn.captured
  /\ Cardinality(DefsOf(v)) >= 2
  /\ \A i \in DefsOf(v) : ~ Flow(i).grows /\ Flow(i).block \in reached

(* Defect: a definition counts as run on its own line already.             *)
DominatesUseOnItsLine(j, u) ==
  IF Flow(j).block = Site(u).block
  THEN /\ ~ Reaches(Flow(j).block, Flow(j).block)
       /\ Flow(j).line <= Site(u).line
  ELSE Dominates(Flow(j).block, Site(u).block)

DominatesUse(j, u) ==
  IF Flow(j).block = Site(u).block
  THEN /\ ~ Reaches(Flow(j).block, Flow(j).block)
       /\ Flow(j).line < Site(u).line
  ELSE Dominates(Flow(j).block, Site(u).block)

CanReach(j, i) ==
  IF Flow(j).block = Flow(i).block
  THEN \/ Reaches(Flow(j).block, Flow(j).block)
       \/ Flow(j).line <= Flow(i).line
  ELSE Reaches(Flow(j).block, Flow(i).block)

Killed(i, u) ==
  \E j \in DefsOf(Flow(i).to) \ {i} : DominatesUse(j, u) /\ ~ CanReach(j, i)

(* Defect: the definitions of whatever else was killed on the way.         *)
ReachingAnything(u) == {i \in DOMAIN fn.flows : ~ Killed(i, u)}

Reaching(u) == {i \in DefsOf(ReadBy(u)) : ~ Killed(i, u)}

(* A use of which a strict, non-empty part of the definitions is left      *)
(* reads a version of its own, fed by exactly those; uses left the same    *)
(* ones share a version.                                                   *)
Rewired(u) ==
  IF Reaching(u) \in {{}, DefsOf(ReadBy(u))} THEN DefsOf(ReadBy(u))
                                             ELSE Reaching(u)

-----------------------------------------------------------------------------
RdInit ==
  /\ Analysed
  /\ at_value = 1
  /\ reads = [u \in Use |-> DefsOf(ReadBy(u))]
  /\ at_block = fn.entry /\ at_statement = 1
  /\ last = [v \in Value |-> 0]

(* One iteration of run: splitValue, or the value is left alone.           *)
SplitValue ==
  /\ at_value <= Len(fn.values)
  /\ LET v == fn.values[at_value]
     IN  reads' = [u \in Use |-> IF Splittable(v) /\ u \in UsesOf(v)
                                 THEN Rewired(u) ELSE reads[u]]
  /\ at_value' = at_value + 1
  /\ UNCHANGED <<vars, execution>>

Finished == at_value > Len(fn.values)

(* The program, once it is split: a statement runs, ...                    *)
Execute ==
  /\ Finished /\ at_statement <= Len(fn.text[at_block])
  /\ LET s == fn.text[at_block][at_statement]
     IN  last' = IF s[1] = "flow" THEN [last EXCEPT ![Flow(s[2]).to] = s[2]]
                                  ELSE last
  /\ at_statement' = at_statement + 1
  /\ UNCHANGED <<vars, at_value, reads, at_block>>

(* ... control moves on at the end of a block, ...                         *)
Leave ==
  /\ Finished /\ at_statement > Len(fn.text[at_block])
  /\ \E b \in Succ(at_block) : at_block' = b
  /\ at_statement' = 1
  /\ UNCHANGED <<vars, at_value, reads, last>>

(* ... or leaves it anywhere because something threw.                      *)
Raise ==
  /\ Finished
  /\ \E b \in Blocks : <<at_block, b>> \in fn.raises /\ at_block' = b
  /\ at_statement' = 1
  /\ UNCHANGED <<vars, at_value, reads, last>>

RdNext == SplitValue \/ Execute \/ Leave \/ Raise
RdSpec == RdInit /\ [][RdNext]_all

-----------------------------------------------------------------------------
RdTypeOK ==
  /\ at_value \in 1 .. Len(fn.values) + 1
  /\ reads \in [Use -> SUBSET (DOMAIN fn.flows)]
  /\ \A u \in Use : reads[u] \subseteq DefsOf(ReadBy(u))
  /\ at_block \in Blocks
  /\ at_statement \in 1 .. Len(fn.text[at_block]) + 1
  /\ last \in [Value -> {0} \cup DOMAIN fn.flows]

(* The uses that are read by the statement about to run.                   *)
Current ==
  IF Finished /\ at_statement <= Len(fn.text[at_block])
  THEN LET s == fn.text[at_block][at_statement]
       IN  {u \in Use : u[1] = s[1] /\ u[2] = s[2]}
  ELSE {}

(* The bias of the package (reachdef.go:28): a definition is dropped for a *)
(* use only when it cannot be what the use reads.  Whenever an execution   *)
(* arrives at a use, the definition that ran last still flows into the     *)
(* version the use was rewired to.                                         *)
OnlyDeadDefinitionsDropped ==
  \A u \in Current : last[ReadBy(u)] # 0 => last[ReadBy(u)] \in reads[u]

-----------------------------------------------------------------------------
(* What the two shortcuts of the package take for granted of a function.   *)
BlocksOf(f)  == {f.order[i] : i \in DOMAIN f.order}
ArmsOf(f, b) == {f.succs[b][i] : i \in DOMAIN f.succs[b]}
SiteOf(f, s) == IF s[1] = "flow" THEN f.flows[s[2]] ELSE f.calls[s[2]]

(* Source order stands for execution order inside a block                  *)
(* (reachdef.go:278), and an edge with a block runs in that block.         *)
RunsInSourceOrder(f) ==
  /\ \A b \in BlocksOf(f) : \A k \in DOMAIN f.text[b] :
       /\ SiteOf(f, f.text[b][k]).block \in {b, NoBlock}
       /\ \A l \in DOMAIN f.text[b] :
            k < l => SiteOf(f, f.text[b][k]).line <= SiteOf(f, f.text[b][l]).line
  /\ \A i \in DOMAIN f.flows :
       f.flows[i].block # NoBlock =>
         \E k \in DOMAIN f.text[f.flows[i].block] : f.text[f.flows[i].block][k] = <<"flow", i>>

Entered(f) ==
  {b \in BlocksOf(f) : \A S \in SUBSET BlocksOf(f) :
     (f.entry \in S /\ \A x \in S : ArmsOf(f, x) \subseteq S) => b \in S}

AlwaysPasses(f, a, b) ==
  \E T \in SUBSET BlocksOf(f) :
    /\ {f.entry} \ {a} \subseteq T
    /\ \A x \in T : ArmsOf(f, x) \ {a} \subseteq T
    /\ b \notin T

(* A block that dominates another one has run to its end when control      *)
(* arrives there (reachdef.go:291), also by an exception: what dominates a *)
(* handler dominates, and is not, the block the exception left.            *)
HandlersFollowTheirRegion(f) ==
  \A p, b \in BlocksOf(f) : <<p, b>> \in f.raises =>
    /\ p \in Entered(f) => b \in Entered(f)
    /\ \A a \in BlocksOf(f) \ {b} :
         AlwaysPasses(f, a, b) => AlwaysPasses(f, a, p) /\ (a = p => f.text[a] = <<>>)

RunsAsPlaced(f) == RunsInSourceOrder(f) /\ HandlersFollowTheirRegion(f)
============================================================================
