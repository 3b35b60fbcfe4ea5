-------------------------------- MODULE Runs --------------------------------
(***************************************************************************)
(* The executions of a function whose block graph is analysed: what the    *)
(* judgements of the core are held against.  An execution follows the      *)
(* block graph, runs the statements placed on each block in their order    *)
(* and remembers them.                                                     *)
(*                                                                         *)
(* It starts where Cfg ends: the dominators are those Cfg computes.        *)
(***************************************************************************)
EXTENDS Cfg

CONSTANT MaxTrace   \* how many statements an execution runs at most

ASSUME MaxTraceAssumption == MaxTrace \in Nat

(* The statements of a block, in the order they run: each is a kind and an *)
(* index into the list of that kind.  The order is the program's and is    *)
(* not in the IR.                                                          *)
ASSUME TextAssumption ==
  \A f \in LoweredFn :
    f.text \in [{f.order[i] : i \in DOMAIN f.order} -> Seq(STRING \X Nat)]

VARIABLES
  here, pc,  \* the block control is in and the statement in it
  trace      \* the statements that ran

run == <<here, pc, trace>>

RunInit == here = fn.entry /\ pc = 1 /\ trace = <<>>

Text    == fn.text[here]
AtEnd   == pc > Len(Text)
Running == Len(trace) < MaxTrace

(* A statement runs, ...                                                   *)
RunStatement ==
  /\ Running /\ ~ AtEnd
  /\ trace' = Append(trace, Text[pc])
  /\ pc' = pc + 1
  /\ UNCHANGED here

(* ... and at the end of a block control moves on.                         *)
RunBranch ==
  /\ Running /\ AtEnd
  /\ \E b \in Succ(here) : here' = b
  /\ pc' = 1
  /\ UNCHANGED trace

(* A statement stands in one block: what the judgements suppose when they  *)
(* ask about the block of a call instead of about the call.                *)
StandsOnce(f) ==
  \A b, c \in DOMAIN f.text :
    (\E p \in DOMAIN f.text[b], q \in DOMAIN f.text[c] : f.text[b][p] = f.text[c][q]) => b = c

Ran(s)         == \E k \in DOMAIN trace : trace[k] = s
Now(s)         == trace # <<>> /\ trace[Len(trace)] = s
Before(k, set) == \E j \in 1 .. k - 1 : trace[j] \in set
=============================================================================
