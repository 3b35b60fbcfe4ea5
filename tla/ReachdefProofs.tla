--------------------------- MODULE ReachdefProofs ---------------------------
(***************************************************************************)
(* A definition reachdef drops for a use is never the one that ran last    *)
(* when an execution arrives there: for every function that runs as it is  *)
(* placed (RunsAsPlaced in Reachdef), every execution of it and every      *)
(* exception in it.                                                        *)
(*                                                                         *)
(* The argument needs no history.  NotRunYet(j) describes where control    *)
(* can be before the definition j ran: not behind j in its block, and in   *)
(* no block that j's block dominates.  No step leads out of it but running *)
(* j.  The invariant: while i is the definition that ran last, whatever    *)
(* cannot be followed by i has not run yet.  A kill is a j that dominates  *)
(* the use and cannot be followed by i, so at the use it has run.          *)
(***************************************************************************)
EXTENDS Admission, CfgProofs, WellFoundedInduction

-----------------------------------------------------------------------------
(* The function, as Reachdef is handed it.                                 *)

LEMMA BodyShape ==
  ASSUME fn \in LoweredFn
  PROVE  /\ NoBlock \notin Blocks
         /\ fn.values \in Seq(Value)
         /\ fn.flows \in Seq([from : Value, to : Value, grows : BOOLEAN,
                              block : Blocks \cup {NoBlock}, line : Nat])
         /\ fn.calls \in Seq([reads : Seq(Value), block : Blocks, line : Nat])
         /\ fn.text \in [Blocks -> Seq({"flow", "call"} \X Nat)]
         /\ \A b \in Blocks : \A k \in DOMAIN fn.text[b] :
              LET s == fn.text[b][k]
              IN  IF s[1] = "flow" THEN s[2] \in DOMAIN fn.flows
                                   ELSE s[2] \in DOMAIN fn.calls
         /\ fn.raises \subseteq Blocks \X Blocks
BY BodyAssumption DEF Blocks

LEMMA FlowShape ==
  ASSUME fn \in LoweredFn, NEW i \in DOMAIN fn.flows
  PROVE  /\ i \in Nat /\ i # 0
         /\ Flow(i).from \in Value /\ Flow(i).to \in Value
         /\ Flow(i).block \in Blocks \cup {NoBlock} /\ Flow(i).line \in Nat
<1>. DEFINE Edge == [from : Value, to : Value, grows : BOOLEAN,
                     block : Blocks \cup {NoBlock}, line : Nat]
<1>1. fn.flows \in Seq(Edge)
  BY BodyShape
<1>. HIDE DEF Edge
<1>2. fn.flows[i] \in Edge /\ i \in Nat /\ i # 0
  BY <1>1
<1>. QED
  BY <1>2 DEF Flow, Edge

LEMMA CallShape ==
  ASSUME fn \in LoweredFn, NEW i \in DOMAIN fn.calls
  PROVE  /\ Call(i).block \in Blocks /\ Call(i).line \in Nat
         /\ Call(i).reads \in Seq(Value)
<1>. DEFINE Read == [reads : Seq(Value), block : Blocks, line : Nat]
<1>1. fn.calls \in Seq(Read)
  BY BodyShape
<1>. HIDE DEF Read
<1>2. fn.calls[i] \in Read
  BY <1>1
<1>. QED
  BY <1>2 DEF Call, Read

LEMMA TextShape ==
  ASSUME fn \in LoweredFn, NEW b \in Blocks
  PROVE  /\ fn.text[b] \in Seq({"flow", "call"} \X Nat)
         /\ Len(fn.text[b]) \in Nat
         /\ DOMAIN fn.text[b] = 1 .. Len(fn.text[b])
         /\ \A k \in 1 .. Len(fn.text[b]) :
              /\ fn.text[b][k] \in {"flow", "call"} \X Nat
              /\ fn.text[b][k][1] = "flow" => fn.text[b][k][2] \in DOMAIN fn.flows
              /\ fn.text[b][k][1] # "flow" => fn.text[b][k][2] \in DOMAIN fn.calls
<1>1. fn.text[b] \in Seq({"flow", "call"} \X Nat)
  BY BodyShape
<1>2. DOMAIN fn.text[b] = 1 .. Len(fn.text[b]) /\ Len(fn.text[b]) \in Nat
  BY <1>1
<1>3. \A k \in 1 .. Len(fn.text[b]) : fn.text[b][k] \in {"flow", "call"} \X Nat
  BY <1>1
<1>. QED
  BY <1>1, <1>2, <1>3, BodyShape

(* A use reads a value, at a place of the function.                        *)
LEMMA UseShape ==
  ASSUME fn \in LoweredFn, NEW u \in Use
  PROVE  ReadBy(u) \in Value
<1>1. CASE u \in FlowUse
  BY <1>1, FlowShape DEF FlowUse, ReadBy
<1>2. CASE u \in CallUse
  <2>1. PICK i \in DOMAIN fn.calls : \E k \in DOMAIN Call(i).reads : u = <<"call", i, k>>
    BY <1>2 DEF CallUse
  <2>2. PICK k \in DOMAIN Call(i).reads : u = <<"call", i, k>>
    BY <2>1
  <2>3. Call(i).reads \in Seq(Value)
    BY CallShape
  <2>. QED
    BY <2>2, <2>3 DEF ReadBy
<1>. QED
  BY <1>1, <1>2 DEF Use

-----------------------------------------------------------------------------
(* Types.                                                                  *)

RdTypeInv ==
  /\ Analysed
  /\ RdTypeOK
  /\ \A v \in Value : last[v] # 0 => last[v] \in DefsOf(v)

LEMMA RdTypeInit == RdInit => RdTypeInv
<1>. SUFFICES ASSUME RdInit PROVE RdTypeInv
  OBVIOUS
<1>1. Analysed /\ fn \in LoweredFn
  BY DEF RdInit, Analysed
<1>2. /\ fn.entry \in Blocks
      /\ fn.values \in Seq(Value)
      /\ Len(fn.text[fn.entry]) \in Nat
  BY <1>1, FnShape, BodyShape, TextShape
<1>3. \A u \in Use : DefsOf(ReadBy(u)) \subseteq DOMAIN fn.flows
  BY DEF DefsOf
<1>4. RdTypeOK
  BY <1>2, <1>3 DEF RdInit, RdTypeOK
<1>. QED
  BY <1>1, <1>4 DEF RdTypeInv, RdInit

LEMMA RdTypeStep == RdTypeInv /\ [RdNext]_all => RdTypeInv'
<1>. SUFFICES ASSUME RdTypeInv, [RdNext]_all PROVE RdTypeInv'
  OBVIOUS
<1>0. fn \in LoweredFn /\ Analysed /\ RdTypeOK
  BY DEF RdTypeInv, Analysed
<1>1. vars' = vars
  BY DEF RdNext, SplitValue, Execute, Leave, Raise, all
<1>2. /\ fn' = fn /\ reached' = reached /\ doms' = doms /\ Blocks' = Blocks
      /\ Use' = Use /\ \A u \in Use : ReadBy(u)' = ReadBy(u)
      /\ \A v : DefsOf(v)' = DefsOf(v)
  BY <1>1 DEF vars, Blocks, Use, FlowUse, CallUse, ReadBy, DefsOf, Flow, Call
<1>3. Analysed'
  BY <1>0, <1>1 DEF Analysed, vars, Blocks, FromEntry, CutFromEntry, CutFromExits, Exits, Succ
<1>4. CASE SplitValue
  <2>1. /\ at_value \in 1 .. Len(fn.values) /\ at_value' = at_value + 1
        /\ at_block' = at_block /\ at_statement' = at_statement /\ last' = last
        /\ reads' = [u \in Use |->
              IF Splittable(fn.values[at_value]) /\ u \in UsesOf(fn.values[at_value])
              THEN Rewired(u) ELSE reads[u]]
    <3>1. fn.values \in Seq(Value)
      BY <1>0, BodyShape
    <3>. QED
      BY <1>4, <1>0, <3>1 DEF SplitValue, RdTypeOK, execution
  <2>2. \A u \in Use : Rewired(u) \subseteq DefsOf(ReadBy(u))
    BY DEF Rewired, Reaching
  <2>3. \A u \in Use : reads'[u] \subseteq DefsOf(ReadBy(u)) /\ reads'[u] \subseteq DOMAIN fn.flows
    BY <2>1, <2>2, <1>0 DEF RdTypeOK, DefsOf
  <2>4. at_value' \in 1 .. Len(fn.values) + 1
    <3>1. fn.values \in Seq(Value)
      BY <1>0, BodyShape
    <3>. QED
      BY <2>1, <3>1
  <2>5. reads' \in [Use -> SUBSET (DOMAIN fn.flows)]
    BY <2>1, <2>3
  <2>6. RdTypeOK'
    BY <1>0, <1>2, <2>1, <2>3, <2>4, <2>5 DEF RdTypeOK
  <2>. QED
    BY <1>2, <1>3, <2>1, <2>6 DEF RdTypeInv
<1>5. CASE Execute
  <2>. DEFINE s == fn.text[at_block][at_statement]
  <2>1. /\ at_block \in Blocks /\ at_statement \in 1 .. Len(fn.text[at_block])
        /\ at_block' = at_block /\ at_statement' = at_statement + 1
        /\ at_value' = at_value /\ reads' = reads
        /\ last' = IF s[1] = "flow" THEN [last EXCEPT ![Flow(s[2]).to] = s[2]] ELSE last
    <3>1. Len(fn.text[at_block]) \in Nat
      BY <1>0, TextShape DEF RdTypeOK
    <3>. QED
      BY <1>5, <1>0, <3>1 DEF Execute, RdTypeOK
  <2>2. Len(fn.text[at_block]) \in Nat /\ (s[1] = "flow" => s[2] \in DOMAIN fn.flows)
    BY <2>1, <1>0, TextShape
  <2>3. s[1] = "flow" => Flow(s[2]).to \in Value /\ s[2] \in DefsOf(Flow(s[2]).to)
    BY <2>2, <1>0, FlowShape DEF DefsOf
  <2>4. last' \in [Value -> {0} \cup DOMAIN fn.flows]
    BY <2>1, <2>2, <2>3, <1>0 DEF RdTypeOK
  <2>5. \A v \in Value : last'[v] # 0 => last'[v] \in DefsOf(v)
    BY <2>1, <2>2, <2>3, <1>0 DEF RdTypeOK, RdTypeInv
  <2>6. at_statement' \in 1 .. Len(fn.text[at_block]) + 1
    BY <2>1, <2>2
  <2>7. RdTypeOK'
    BY <1>0, <1>2, <2>1, <2>4, <2>6 DEF RdTypeOK
  <2>. QED
    BY <1>2, <1>3, <2>5, <2>7 DEF RdTypeInv
<1>6. CASE Leave \/ Raise
  <2>1. /\ at_block' \in Blocks /\ at_statement' = 1 /\ at_value' = at_value
        /\ reads' = reads /\ last' = last
    <3>1. \A b \in Blocks : Succ(b) \subseteq Blocks
      BY <1>0, FnShape
    <3>2. at_block \in Blocks
      BY <1>0 DEF RdTypeOK
    <3>. QED
      BY <1>6, <3>1, <3>2 DEF Leave, Raise
  <2>2. Len(fn.text[at_block']) \in Nat
    BY <2>1, <1>0, TextShape
  <2>3. at_statement' \in 1 .. Len(fn.text[at_block']) + 1
    BY <2>1, <2>2
  <2>4. RdTypeOK'
    BY <1>0, <1>2, <2>1, <2>3 DEF RdTypeOK
  <2>. QED
    BY <1>2, <1>3, <2>1, <2>4 DEF RdTypeInv
<1>7. CASE UNCHANGED all
  <2>1. UNCHANGED <<at_value, reads, at_block, at_statement, last>>
    BY <1>7 DEF all, execution
  <2>2. RdTypeOK'
    BY <1>0, <1>2, <2>1 DEF RdTypeOK
  <2>. QED
    BY <1>2, <1>3, <2>1, <2>2 DEF RdTypeInv
<1>. QED
  BY <1>4, <1>5, <1>6, <1>7 DEF RdNext

(* Reachdef's tables and the execution keep their types, for every         *)
(* function: a use only ever reads definitions of what it reads.           *)
THEOREM RdTypeCorrect == RdSpec => []RdTypeOK
<1>1. RdTypeInv => RdTypeOK
  BY DEF RdTypeInv
<1>. QED
  BY <1>1, RdTypeInit, RdTypeStep, PTL DEF RdSpec

-----------------------------------------------------------------------------
(* The suppositions about the function, in the terms of its graph.         *)

LEMMA PlacedShape ==
  ASSUME fn \in LoweredFn, RunsAsPlaced(fn)
  PROVE  /\ \A b \in Blocks : \A k \in DOMAIN fn.text[b] :
              /\ SiteOf(fn, fn.text[b][k]).block \in {b, NoBlock}
              /\ \A l \in DOMAIN fn.text[b] :
                   k < l => SiteOf(fn, fn.text[b][k]).line <= SiteOf(fn, fn.text[b][l]).line
         /\ \A i \in DOMAIN fn.flows : Flow(i).block # NoBlock =>
              \E k \in DOMAIN fn.text[Flow(i).block] : fn.text[Flow(i).block][k] = <<"flow", i>>
BY DEF RunsAsPlaced, RunsInSourceOrder, BlocksOf, Blocks, Flow

LEMMA PlacedHandlers ==
  ASSUME fn \in LoweredFn, RunsAsPlaced(fn), NEW p \in Blocks, NEW b \in Blocks,
         <<p, b>> \in fn.raises
  PROVE  /\ p \in FromEntry => b \in FromEntry
         /\ \A a \in Blocks \ {b} :
              b \in CutFromEntry(a) => p \in CutFromEntry(a) /\ (a = p => fn.text[a] = <<>>)
<1>1. BlocksOf(fn) = Blocks /\ \A x : ArmsOf(fn, x) = Succ(x)
  BY DEF BlocksOf, Blocks, ArmsOf, Succ
<1>2. Entered(fn) = FromEntry
  BY <1>1 DEF Entered, FromEntry
<1>3. \A a \in Blocks, c \in Blocks : AlwaysPasses(fn, a, c) <=> c \in CutFromEntry(a)
  BY <1>1 DEF AlwaysPasses, CutFromEntry
<1>. QED
  BY <1>1, <1>2, <1>3 DEF RunsAsPlaced, HandlersFollowTheirRegion

-----------------------------------------------------------------------------
(* Where control can be before the definition j ran.                       *)
NotRunYet(j) ==
  LET b == Flow(j).block
  IN  IF at_block = b THEN \A k \in DOMAIN fn.text[b] : fn.text[b][k] = <<"flow", j>> => at_statement <= k
                  ELSE at_block \notin CutFromEntry(b)

(* A pair of definitions of one value that the package may split, of which *)
(* the second cannot follow the first.                                     *)
KillPair(v, j, i) ==
  /\ Splittable(v) /\ j \in DefsOf(v) /\ i \in DefsOf(v) /\ i # j
  /\ ~ CanReach(j, i)

LastInv ==
  /\ at_block \in reached
  /\ \A v \in Value : \A i, j \in DOMAIN fn.flows :
       KillPair(v, j, i) /\ last[v] = i => NotRunYet(j)

ReadsInv ==
  \A u \in Use :
    \/ reads[u] = DefsOf(ReadBy(u))
    \/ /\ Splittable(ReadBy(u)) /\ u \in UsesOf(ReadBy(u))
       /\ reads[u] = Rewired(u)

LEMMA KillPairShape ==
  ASSUME fn \in LoweredFn, reached = FromEntry, NEW v, NEW i, NEW j, KillPair(v, j, i)
  PROVE  /\ i \in DOMAIN fn.flows /\ j \in DOMAIN fn.flows
         /\ Flow(i).to = v /\ Flow(j).to = v
         /\ Flow(i).block \in reached /\ Flow(j).block \in reached
         /\ Flow(i).block \in Blocks /\ Flow(j).block \in Blocks
         /\ Flow(i).block # NoBlock /\ Flow(j).block # NoBlock
<1>1. reached \subseteq Blocks /\ NoBlock \notin Blocks
  BY FromEntryClosed, BodyShape
<1>. QED
  BY <1>1 DEF KillPair, Splittable, DefsOf

(* The step that runs i leaves control where j has not run.                *)
LEMMA RunOfOther ==
  ASSUME fn \in LoweredFn, reached = FromEntry, RunsAsPlaced(fn), RdTypeOK,
         at_block \in reached, NEW v, NEW i, NEW j, KillPair(v, j, i),
         at_statement <= Len(fn.text[at_block]), fn.text[at_block][at_statement] = <<"flow", i>>
  PROVE  IF at_block = Flow(j).block
         THEN \A k \in DOMAIN fn.text[at_block] : fn.text[at_block][k] = <<"flow", j>> => at_statement + 1 <= k
         ELSE at_block \notin CutFromEntry(Flow(j).block)
<1>1. /\ i \in DOMAIN fn.flows /\ j \in DOMAIN fn.flows
      /\ Flow(i).block \in Blocks /\ Flow(j).block \in Blocks
      /\ Flow(i).block # NoBlock
  BY KillPairShape
<1>2. /\ at_block \in Blocks /\ Len(fn.text[at_block]) \in Nat
      /\ DOMAIN fn.text[at_block] = 1 .. Len(fn.text[at_block])
      /\ at_statement \in DOMAIN fn.text[at_block]
  BY TextShape DEF RdTypeOK
<1>3. Flow(i).block = at_block
  BY <1>1, <1>2, PlacedShape DEF SiteOf, Flow
<1>4. CASE at_block = Flow(j).block
  <2>1. Flow(j).line > Flow(i).line
    BY <1>3, <1>4, <1>1, FlowShape DEF KillPair, CanReach
  <2>2. ASSUME NEW k \in DOMAIN fn.text[at_block], fn.text[at_block][k] = <<"flow", j>>
        PROVE  at_statement + 1 <= k
    <3>1. k # at_statement
      BY <2>2 DEF KillPair
    <3>2. ~ (k < at_statement)
      <4>1. SiteOf(fn, fn.text[at_block][k]).line = Flow(j).line
        BY <2>2 DEF SiteOf, Flow
      <4>2. SiteOf(fn, fn.text[at_block][at_statement]).line = Flow(i).line
        BY DEF SiteOf, Flow
      <4>3. k < at_statement => Flow(j).line <= Flow(i).line
        BY <4>1, <4>2, <1>2, PlacedShape
      <4>. QED
        BY <4>3, <2>1, <1>1, FlowShape
    <3>. QED
      BY <3>1, <3>2, <1>2
  <2>. QED
    BY <2>2, <1>4
<1>5. CASE at_block # Flow(j).block
  <2>1. ~ Reaches(Flow(j).block, at_block)
    BY <1>3, <1>5 DEF KillPair, CanReach
  <2>. QED
    BY <2>1, <1>1, <1>5, DominatorLeadsThere
<1>. QED
  BY <1>4, <1>5

LEMMA LastStep ==
  ASSUME RdTypeInv, RunsAsPlaced(fn), LastInv, [RdNext]_all
  PROVE  LastInv'
<1>0. /\ fn \in LoweredFn /\ Analysed /\ RdTypeOK /\ reached = FromEntry
      /\ at_block \in reached /\ at_block \in Blocks
      /\ \A v \in Value : last[v] # 0 => last[v] \in DefsOf(v)
  BY AnalysedDominance DEF RdTypeInv, LastInv, RdTypeOK
<1>1. vars' = vars
  BY DEF RdNext, SplitValue, Execute, Leave, Raise, all
<1>2. /\ fn' = fn /\ reached' = reached /\ \A i : Flow(i)' = Flow(i)
      /\ \A a : CutFromEntry(a)' = CutFromEntry(a)
      /\ \A v, i, j : KillPair(v, j, i)' <=> KillPair(v, j, i)
  BY <1>1 DEF vars, Flow, CutFromEntry, KillPair, Splittable, DefsOf, CanReach, Reaches,
              Blocks, Succ
<1>3. ASSUME at_block' \in reached,
             \A v \in Value : \A i, j \in DOMAIN fn.flows :
               KillPair(v, j, i) /\ last'[v] = i =>
                 LET b == Flow(j).block
                 IN  IF at_block' = b
                     THEN \A k \in DOMAIN fn.text[b] : fn.text[b][k] = <<"flow", j>> => at_statement' <= k
                     ELSE at_block' \notin CutFromEntry(b)
      PROVE  LastInv'
  BY <1>2, <1>3 DEF LastInv, NotRunYet
<1>4. CASE Execute
  <2>. DEFINE s == fn.text[at_block][at_statement]
  <2>1. /\ at_statement \in DOMAIN fn.text[at_block] /\ at_statement <= Len(fn.text[at_block])
        /\ s \in {"flow", "call"} \X Nat
        /\ s[1] = "flow" => s[2] \in DOMAIN fn.flows /\ Flow(s[2]).to \in Value
    <3>1. DOMAIN fn.text[at_block] = 1 .. Len(fn.text[at_block]) /\ Len(fn.text[at_block]) \in Nat
      BY <1>0, TextShape
    <3>2. at_statement \in 1 .. Len(fn.text[at_block])
      BY <3>1, <1>0, <1>4 DEF Execute, RdTypeOK
    <3>. QED
      BY <3>1, <3>2, <1>0, TextShape, FlowShape
  <2>2. /\ at_block' = at_block /\ at_statement' = at_statement + 1
        /\ last' = IF s[1] = "flow" THEN [last EXCEPT ![Flow(s[2]).to] = s[2]] ELSE last
    BY <1>4 DEF Execute
  <2>3. ASSUME NEW v \in Value, NEW i \in DOMAIN fn.flows, NEW j \in DOMAIN fn.flows,
               KillPair(v, j, i), last'[v] = i
        PROVE  LET b == Flow(j).block
               IN  IF at_block = b
                   THEN \A k \in DOMAIN fn.text[b] : fn.text[b][k] = <<"flow", j>> => at_statement + 1 <= k
                   ELSE at_block \notin CutFromEntry(b)
    <3>0. /\ Flow(i).to = v /\ Flow(j).to = v /\ i # j
      BY <2>3, <1>0, KillPairShape DEF KillPair
    <3>1. CASE s = <<"flow", i>>
      BY <3>1, <2>1, <2>3, <1>0, RunOfOther
    <3>2. CASE s # <<"flow", i>>
      <4>1. last[v] = i /\ s # <<"flow", j>>
        <5>1. CASE s[1] = "flow" /\ Flow(s[2]).to = v
          <6>1. last'[v] = s[2]
            BY <5>1, <2>1, <2>2, <1>0 DEF RdTypeOK
          <6>2. s = <<s[1], s[2]>>
            BY <2>1
          <6>3. s = <<"flow", i>>
            BY <6>1, <6>2, <5>1, <2>3
          <6>. QED
            BY <6>3, <3>2
        <5>2. CASE ~ (s[1] = "flow" /\ Flow(s[2]).to = v)
          <6>1. last'[v] = last[v]
            BY <5>2, <2>1, <2>2, <1>0 DEF RdTypeOK
          <6>2. s # <<"flow", j>>
            BY <5>2, <3>0
          <6>. QED
            BY <6>1, <6>2, <2>3
        <5>. QED
          BY <5>1, <5>2
      <4>2. NotRunYet(j)
        BY <4>1, <2>3 DEF LastInv
      <4>3. CASE at_block = Flow(j).block
        <5>1. \A k \in DOMAIN fn.text[at_block] : fn.text[at_block][k] = <<"flow", j>> => at_statement <= k /\ at_statement # k
          BY <4>1, <4>2, <4>3 DEF NotRunYet
        <5>2. DOMAIN fn.text[at_block] \subseteq Nat /\ at_statement \in Nat
          BY <2>1, <1>0, TextShape
        <5>3. \A k \in DOMAIN fn.text[at_block] : fn.text[at_block][k] = <<"flow", j>> => at_statement + 1 <= k
          BY <5>1, <5>2
        <5>. QED
          BY <5>3, <4>3
      <4>4. CASE at_block # Flow(j).block
        BY <4>2, <4>4 DEF NotRunYet
      <4>. QED
        BY <4>3, <4>4
    <3>. QED
      BY <3>1, <3>2
  <2>. QED
    BY <2>2, <2>3, <1>0, <1>3
<1>5. CASE Leave \/ Raise
  <2>1. last' = last /\ at_statement' = 1 /\ at_block' \in reached
    <3>1. CASE Leave
      BY <3>1, <1>0, FromEntryClosed DEF Leave
    <3>2. CASE Raise
      BY <3>2, <1>0, PlacedHandlers DEF Raise
    <3>. QED
      BY <1>5, <3>1, <3>2 DEF Leave, Raise
  <2>2. ASSUME NEW v \in Value, NEW i \in DOMAIN fn.flows, NEW j \in DOMAIN fn.flows,
               KillPair(v, j, i), last'[v] = i
        PROVE  LET b == Flow(j).block
               IN  IF at_block' = b
                   THEN \A k \in DOMAIN fn.text[b] : fn.text[b][k] = <<"flow", j>> => at_statement' <= k
                   ELSE at_block' \notin CutFromEntry(b)
    <3>. DEFINE B == Flow(j).block
    <3>0. NotRunYet(j) /\ B \in Blocks /\ B # NoBlock
      BY <2>1, <2>2, <1>0, KillPairShape DEF LastInv
    <3>1. PICK k \in DOMAIN fn.text[B] : fn.text[B][k] = <<"flow", j>>
      BY <3>0, <1>0, PlacedShape
    <3>2. DOMAIN fn.text[B] = 1 .. Len(fn.text[B]) /\ Len(fn.text[B]) \in Nat
      BY <3>0, <1>0, TextShape
    <3>3. CASE at_block' = B
      BY <3>3, <3>2, <2>1
    <3>4. CASE at_block' # B /\ Leave
      <4>1. at_block # B
        <5>1. at_statement > Len(fn.text[at_block])
          BY <3>4 DEF Leave
        <5>2. at_block = B => at_statement <= k
          BY <3>0, <3>1 DEF NotRunYet
        <5>3. at_statement \in Nat
          BY <1>0, TextShape DEF RdTypeOK
        <5>. QED
          BY <5>1, <5>2, <5>3, <3>1, <3>2
      <4>2. at_block \notin CutFromEntry(B)
        BY <4>1, <3>0 DEF NotRunYet
      <4>3. at_block' \notin CutFromEntry(B)
        BY <4>1, <4>2, <3>0, <3>4, <1>0, NotDominatedOn DEF Leave
      <4>. QED
        BY <4>3, <3>4
    <3>5. CASE at_block' # B /\ Raise
      <4>1. at_block' \in Blocks /\ <<at_block, at_block'>> \in fn.raises
        BY <3>5 DEF Raise
      <4>2. at_block' \in CutFromEntry(B) =>
              at_block \in CutFromEntry(B) /\ (B = at_block => fn.text[B] = <<>>)
        BY <4>1, <3>0, <3>5, <1>0, PlacedHandlers
      <4>3. at_block' \notin CutFromEntry(B)
        BY <4>2, <3>0, <3>1, <3>2 DEF NotRunYet
      <4>. QED
        BY <4>3, <3>5
    <3>. QED
      BY <3>3, <3>4, <3>5, <1>5
  <2>. QED
    BY <2>1, <2>2, <1>3
<1>6. CASE UNCHANGED <<at_block, at_statement, last>>
  BY <1>6, <1>0, <1>3 DEF LastInv, NotRunYet
<1>. QED
  BY <1>4, <1>5, <1>6 DEF RdNext, SplitValue, execution, all

LEMMA ReadsStep ==
  ASSUME RdTypeInv, ReadsInv, [RdNext]_all
  PROVE  ReadsInv'
<1>1. vars' = vars
  BY DEF RdNext, SplitValue, Execute, Leave, Raise, all
<1>2. /\ Use' = Use
      /\ \A u \in Use : ReadBy(u)' = ReadBy(u) /\ Rewired(u)' = Rewired(u)
      /\ \A v : DefsOf(v)' = DefsOf(v) /\ UsesOf(v)' = UsesOf(v)
      /\ \A v : Splittable(v)' <=> Splittable(v)
  BY <1>1 DEF vars, Use, FlowUse, CallUse, ReadBy, DefsOf, UsesOf, Splittable, Rewired,
              Reaching, Killed, DominatesUse, CanReach, Dominates, Reaches, Blocks, Succ,
              Flow, Call, Site
<1>3. ASSUME NEW u \in Use
      PROVE  \/ reads'[u] = DefsOf(ReadBy(u))
             \/ /\ Splittable(ReadBy(u)) /\ u \in UsesOf(ReadBy(u))
                /\ reads'[u] = Rewired(u)
  <2>1. CASE reads'[u] = reads[u]
    BY <2>1 DEF ReadsInv
  <2>2. CASE reads'[u] # reads[u]
    <3>1. SplitValue
      BY <2>2 DEF RdNext, Execute, Leave, Raise, all
    <3>2. /\ Splittable(fn.values[at_value]) /\ u \in UsesOf(fn.values[at_value])
          /\ reads'[u] = Rewired(u)
      BY <3>1, <2>2 DEF SplitValue
    <3>3. fn.values[at_value] = ReadBy(u)
      BY <3>2 DEF UsesOf
    <3>. QED
      BY <3>2, <3>3
  <2>. QED
    BY <2>1, <2>2
<1>. QED
  BY <1>2, <1>3 DEF ReadsInv

(* At the use itself: what was killed did not run last.                    *)
LEMMA KilledIsNotLast ==
  ASSUME RdTypeInv, RunsAsPlaced(fn), LastInv,
         NEW u \in Current, NEW i \in DefsOf(ReadBy(u)), last[ReadBy(u)] = i,
         Splittable(ReadBy(u)), u \in UsesOf(ReadBy(u))
  PROVE  ~ Killed(i, u)
<1>. SUFFICES ASSUME NEW j \in DefsOf(ReadBy(u)) \ {i},
                     DominatesUse(j, u), ~ CanReach(j, i)
              PROVE  FALSE
  BY DEF Killed, DefsOf
<1>. DEFINE v == ReadBy(u)
            s == fn.text[at_block][at_statement]
<1>0. /\ fn \in LoweredFn /\ Analysed /\ RdTypeOK /\ reached = FromEntry
      /\ at_block \in Blocks /\ at_block \in reached /\ NoBlock \notin Blocks
      /\ reached \subseteq Blocks
  BY AnalysedDominance, BodyShape, FromEntryClosed DEF RdTypeInv, LastInv, RdTypeOK
<1>1. /\ u \in Use /\ u[1] = s[1] /\ u[2] = s[2] /\ v \in Value
      /\ at_statement <= Len(fn.text[at_block])
  <2>1. u \in Use /\ u[1] = s[1] /\ u[2] = s[2] /\ at_statement <= Len(fn.text[at_block])
    BY DEF Current
  <2>. QED
    BY <2>1, <1>0, UseShape
<1>2. /\ DOMAIN fn.text[at_block] = 1 .. Len(fn.text[at_block]) /\ at_statement \in DOMAIN fn.text[at_block]
      /\ Len(fn.text[at_block]) \in Nat
      /\ s \in {"flow", "call"} \X Nat
  <2>1. DOMAIN fn.text[at_block] = 1 .. Len(fn.text[at_block]) /\ Len(fn.text[at_block]) \in Nat
    BY <1>0, TextShape
  <2>2. at_statement \in DOMAIN fn.text[at_block]
    BY <2>1, <1>0, <1>1 DEF RdTypeOK
  <2>. QED
    BY <2>1, <2>2, <1>0, TextShape
<1>3. KillPair(v, j, i) /\ NotRunYet(j)
  <2>1. KillPair(v, j, i)
    BY DEF KillPair
  <2>. QED
    BY <2>1, <1>0, <1>1, KillPairShape DEF LastInv
<1>4. /\ i \in DOMAIN fn.flows /\ j \in DOMAIN fn.flows
      /\ Flow(j).block \in Blocks /\ Flow(j).block # NoBlock
  BY <1>3, <1>0, KillPairShape
<1>5. Site(u) = SiteOf(fn, s)
  BY <1>1 DEF Site, SiteOf, Flow, Call
<1>6. Site(u).block = at_block
  <2>1. Site(u).block \in {at_block, NoBlock}
    BY <1>0, <1>2, <1>5, PlacedShape
  <2>2. Site(u).block \in reached
    BY DEF UsesOf
  <2>. QED
    BY <2>1, <2>2, <1>0
<1>7. CASE Flow(j).block # at_block
  <2>1. Dominates(Flow(j).block, at_block)
    BY <1>6, <1>7 DEF DominatesUse
  <2>2. at_block \in CutFromEntry(Flow(j).block)
    BY <2>1, <1>0, <1>4, AnalysedDominance
  <2>. QED
    BY <2>2, <1>3, <1>7 DEF NotRunYet
<1>8. CASE Flow(j).block = at_block
  <2>1. Flow(j).line < Site(u).line
    BY <1>6, <1>8 DEF DominatesUse
  <2>2. PICK k \in DOMAIN fn.text[at_block] : fn.text[at_block][k] = <<"flow", j>>
    BY <1>0, <1>4, <1>8, PlacedShape
  <2>3. SiteOf(fn, fn.text[at_block][k]).line = Flow(j).line
    BY <2>2 DEF SiteOf, Flow
  <2>4. at_statement <= k
    BY <2>2, <1>3, <1>8 DEF NotRunYet
  <2>5. Flow(j).line \in Nat /\ Site(u).line \in Nat
    <3>1. CASE s[1] = "flow"
      BY <3>1, <1>0, <1>1, <1>2, <1>4, TextShape, FlowShape DEF Site
    <3>2. CASE s[1] # "flow"
      BY <3>2, <1>0, <1>1, <1>2, <1>4, TextShape, CallShape, FlowShape DEF Site
    <3>. QED
      BY <3>1, <3>2
  <2>6. CASE at_statement = k
    BY <2>6, <2>1, <2>3, <2>5, <1>5
  <2>7. CASE at_statement < k
    <3>1. Site(u).line <= Flow(j).line
      BY <2>7, <2>2, <2>3, <1>0, <1>2, <1>5, PlacedShape
    <3>. QED
      BY <3>1, <2>1, <2>5
  <2>. QED
    BY <2>4, <2>6, <2>7, <2>2, <1>2
<1>. QED
  BY <1>7, <1>8

RdInv == RdTypeInv /\ RunsAsPlaced(fn) /\ LastInv /\ ReadsInv

LEMMA RdInvInit == RdInit /\ RunsAsPlaced(fn) => RdInv
<1>. SUFFICES ASSUME RdInit, RunsAsPlaced(fn) PROVE RdInv
  OBVIOUS
<1>1. RdTypeInv /\ fn \in LoweredFn /\ reached = FromEntry
  BY RdTypeInit, AnalysedDominance DEF RdTypeInv
<1>2. LastInv
  <2>1. at_block \in reached
    BY <1>1, FromEntryClosed DEF RdInit
  <2>2. \A v \in Value : \A i \in DOMAIN fn.flows : last[v] # i
    BY <1>1, FlowShape DEF RdInit
  <2>. QED
    BY <2>1, <2>2 DEF LastInv
<1>3. ReadsInv
  BY DEF RdInit, ReadsInv
<1>. QED
  BY <1>1, <1>2, <1>3 DEF RdInv

(* What is dropped for a use is dead at it.                                *)
LEMMA RdInvDrops == RdInv => OnlyDeadDefinitionsDropped
<1>. SUFFICES ASSUME RdInv, NEW u \in Current, last[ReadBy(u)] # 0
              PROVE  last[ReadBy(u)] \in reads[u]
  BY DEF OnlyDeadDefinitionsDropped
<1>1. u \in Use /\ fn \in LoweredFn /\ ReadBy(u) \in Value
  <2>1. u \in Use /\ fn \in LoweredFn
    BY DEF Current, RdInv, RdTypeInv, Analysed
  <2>. QED
    BY <2>1, UseShape
<1>2. last[ReadBy(u)] \in DefsOf(ReadBy(u))
  BY <1>1 DEF RdInv, RdTypeInv
<1>3. CASE reads[u] = DefsOf(ReadBy(u))
  BY <1>2, <1>3
<1>4. CASE /\ Splittable(ReadBy(u)) /\ u \in UsesOf(ReadBy(u))
           /\ reads[u] = Rewired(u)
  <2>1. ~ Killed(last[ReadBy(u)], u)
    BY <1>2, <1>4, KilledIsNotLast DEF RdInv
  <2>. QED
    BY <2>1, <1>2, <1>4 DEF Rewired, Reaching
<1>. QED
  BY <1>1, <1>3, <1>4 DEF RdInv, ReadsInv

(* No definition that ran last is ever missing from what a use reads, for  *)
(* every function whose statements run in source order and whose handlers  *)
(* follow their region (reachdef.go:28).                                   *)
THEOREM DroppedIsDead ==
  RdSpec /\ RunsAsPlaced(fn) => []OnlyDeadDefinitionsDropped
<1>1. RdInv /\ [RdNext]_all => RdInv'
  <2>. SUFFICES ASSUME RdInv, [RdNext]_all PROVE RdInv'
    OBVIOUS
  <2>1. fn' = fn
    BY DEF RdNext, SplitValue, Execute, Leave, Raise, all, vars
  <2>2. RdTypeInv'
    BY RdTypeStep DEF RdInv
  <2>3. LastInv' /\ ReadsInv'
    BY LastStep, ReadsStep DEF RdInv
  <2>4. RunsAsPlaced(fn)'
    BY <2>1 DEF RdInv
  <2>. QED
    BY <2>2, <2>3, <2>4 DEF RdInv
<1>. QED
  BY <1>1, RdInvInit, RdInvDrops, PTL DEF RdSpec

-----------------------------------------------------------------------------
(* The response.  Where control is says what a call it must have passed    *)
(* has left behind.                                                        *)

MustHaveRun(c) ==
  LET b == Call(c).block
  IN  IF at_block = b
      THEN \E k \in DOMAIN fn.text[b] : fn.text[b][k] = <<"call", c>> /\ k < at_statement
      ELSE at_block \in CutFromEntry(b)

SetsAHeader(c) == c \in DOMAIN fn.calls /\ Role(c).kind = "header" /\ Role(c).receiver = "res"

(* What the response says in the field of a header keeps a body quiet.     *)
SaysQuiet(said, name) ==
  IF name = "content-type" THEN said["type"] # "text/html" ELSE Forbids(name, said[Header(name)])

ControlInv ==
  /\ Analysed
  /\ at_block \in reached
  /\ at_statement \in 1 .. Len(fn.text[at_block]) + 1

ResponseInv ==
  /\ DOMAIN response = {"type", "policy", "disposition"}
  /\ \A c : SetsAHeader(c) /\ Quiets(Role(c)) /\ MustHaveRun(c) => SaysQuiet(response, Role(c).name)

LEMMA ResponseInit ==
  ASSUME AdInit
  PROVE  ControlInv /\ ResponseInv
<1>1. /\ Analysed /\ fn \in LoweredFn /\ at_block = fn.entry /\ at_statement = 1
      /\ response = NoHeaders
  BY DEF AdInit, RdInit, Analysed
<1>2. /\ fn.entry \in reached /\ fn.entry \in Blocks /\ Len(fn.text[fn.entry]) \in Nat
      /\ reached = FromEntry
  BY <1>1, FnShape, FromEntryClosed, TextShape, AnalysedDominance
<1>3. ASSUME NEW c, SetsAHeader(c) PROVE ~ MustHaveRun(c)
  <2>1. Call(c).block \in Blocks
    BY <1>1, <1>3, CallShape DEF SetsAHeader
  <2>2. CASE Call(c).block = fn.entry
    BY <1>1, <1>2, <2>2, TextShape DEF MustHaveRun
  <2>3. CASE Call(c).block # fn.entry
    BY <1>1, <1>2, <2>1, <2>3, EntryNotDominated DEF MustHaveRun
  <2> QED BY <2>2, <2>3
<1>4. ControlInv
  BY <1>1, <1>2 DEF ControlInv
<1>5. DOMAIN response = {"type", "policy", "disposition"}
  BY <1>1 DEF NoHeaders
<1> QED BY <1>3, <1>4, <1>5 DEF ResponseInv

(* A call that must have run after the statement at hand must have run     *)
(* before it or is that statement.                                         *)
LEMMA MustHaveRunStatement ==
  ASSUME ControlInv, UNCHANGED <<vars, at_block>>, at_statement' = at_statement + 1,
         at_statement <= Len(fn.text[at_block]), NEW c, MustHaveRun(c)'
  PROVE  MustHaveRun(c) \/ fn.text[at_block][at_statement] = <<"call", c>>
<1>1. /\ fn' = fn /\ at_block' = at_block /\ Call(c)' = Call(c)
      /\ CutFromEntry(Call(c).block)' = CutFromEntry(Call(c).block)
  BY DEF vars, Call, CutFromEntry, Blocks, Succ
<1>2. /\ at_block \in Blocks /\ Len(fn.text[at_block]) \in Nat /\ at_statement \in Nat
      /\ DOMAIN fn.text[at_block] = 1 .. Len(fn.text[at_block])
  <2>1. fn \in LoweredFn /\ at_block \in Blocks
    BY FromEntryClosed, AnalysedDominance DEF ControlInv, Analysed
  <2> QED BY <2>1, TextShape DEF ControlInv
<1>3. CASE at_block = Call(c).block
  <2>1. PICK k \in DOMAIN fn.text[at_block] :
          fn.text[at_block][k] = <<"call", c>> /\ k < at_statement + 1
    BY <1>1, <1>3 DEF MustHaveRun
  <2>2. k < at_statement \/ k = at_statement
    BY <1>2, <2>1
  <2> QED BY <1>3, <2>1, <2>2 DEF MustHaveRun
<1>4. CASE at_block # Call(c).block
  BY <1>1, <1>4 DEF MustHaveRun
<1> QED BY <1>3, <1>4

(* Moving on to a successor, control has behind it what it had behind it.  *)
LEMMA MustHaveRunBranch ==
  ASSUME ControlInv, CallsStand(fn), UNCHANGED vars, at_statement' = 1,
         at_statement > Len(fn.text[at_block]), at_block' \in Succ(at_block),
         NEW c \in DOMAIN fn.calls, MustHaveRun(c)'
  PROVE  MustHaveRun(c)
<1> DEFINE b == Call(c).block
<1>0. fn \in LoweredFn /\ at_block \in Blocks /\ at_block' \in Blocks /\ reached = FromEntry
  <2>1. fn \in LoweredFn /\ at_block \in Blocks /\ reached = FromEntry
    BY FromEntryClosed, AnalysedDominance DEF ControlInv, Analysed
  <2> QED BY <2>1, FnShape
<1>1. /\ fn' = fn /\ Call(c)' = Call(c) /\ b \in Blocks
      /\ CutFromEntry(b)' = CutFromEntry(b)
  BY <1>0, CallShape DEF vars, Call, CutFromEntry, Blocks, Succ
<1>2. at_block' # b /\ at_block' \in CutFromEntry(b)
  <2>1. \A k \in DOMAIN fn.text[at_block'] : ~ (k < 1)
    BY <1>0, TextShape
  <2> QED BY <1>1, <2>1 DEF MustHaveRun
<1>3. CASE at_block = b
  <2>1. PICK k \in DOMAIN fn.text[b] : fn.text[b][k] = <<"call", c>>
    BY DEF CallsStand, Call
  <2>2. k < at_statement
    BY <1>0, <1>3, <2>1, TextShape DEF ControlInv
  <2> QED BY <1>3, <2>1, <2>2 DEF MustHaveRun
<1>4. CASE at_block # b
  <2>1. at_block \in CutFromEntry(b)
    BY <1>0, <1>1, <1>2, <1>4, NotDominatedOn
  <2> QED BY <1>4, <2>1 DEF MustHaveRun
<1> QED BY <1>3, <1>4

LEMMA AdFrame ==
  ASSUME [AdNext]_adVars
  PROVE  UNCHANGED vars
BY DEF AdNext, Split, SplitValue, RunFlow, RunCheck, RunHeader, RunSink, Branch, adVars, all

LEMMA ControlStep ==
  ASSUME ControlInv, [AdNext]_adVars
  PROVE  ControlInv'
<1>1. UNCHANGED vars
  BY AdFrame
<1>2. /\ fn' = fn /\ reached' = reached /\ Analysed'
  BY <1>1 DEF ControlInv, Analysed, vars, Blocks, FromEntry, CutFromEntry, CutFromExits, Exits, Succ
<1>3. fn \in LoweredFn /\ at_block \in Blocks /\ reached = FromEntry /\ Len(fn.text[at_block]) \in Nat
  <2>1. fn \in LoweredFn /\ at_block \in Blocks /\ reached = FromEntry
    BY FromEntryClosed, AnalysedDominance DEF ControlInv, Analysed
  <2> QED BY <2>1, TextShape
<1>4. CASE UNCHANGED <<at_block, at_statement>>
  BY <1>2, <1>4 DEF ControlInv
<1>5. CASE at_block' = at_block /\ at_statement' = at_statement + 1
           /\ at_statement <= Len(fn.text[at_block])
  BY <1>2, <1>3, <1>5 DEF ControlInv
<1>6. CASE at_block' \in Succ(at_block) /\ at_statement' = 1
  <2>1. at_block' \in reached /\ at_block' \in Blocks
    BY <1>3, <1>6, FromEntryClosed DEF ControlInv
  <2>2. Len(fn.text[at_block']) \in Nat
    BY <1>3, <2>1, TextShape
  <2> QED BY <1>2, <1>6, <2>1, <2>2 DEF ControlInv
<1>7. CASE Split \/ UNCHANGED adVars
  BY <1>4, <1>7 DEF Split, SplitValue, adVars, all, execution
<1>8. CASE RunFlow \/ RunCheck \/ RunHeader \/ RunSink
  BY <1>5, <1>8 DEF RunFlow, RunCheck, RunHeader, RunSink
<1>9. CASE Branch
  BY <1>6, <1>9 DEF Branch, Succ
<1> QED BY <1>7, <1>8, <1>9 DEF AdNext

(* The header that runs says what it is there to say, and takes nothing    *)
(* back.                                                                   *)
LEMMA HeaderSays ==
  ASSUME fn \in LoweredFn, NothingTakenBack(fn), DOMAIN response = {"type", "policy", "disposition"},
         NEW d, SetsAHeader(d), NEW said,
         said = [response EXCEPT ![Header(Role(d).name)] = Role(d).value],
         NEW c, SetsAHeader(c), Quiets(Role(c)), c = d \/ SaysQuiet(response, Role(c).name)
  PROVE  SaysQuiet(said, Role(c).name)
<1>1. Role(c).name \in HeaderNames /\ Role(d).name \in HeaderNames
  BY RoleAssumption DEF SetsAHeader, Role
<1>2. CASE Role(c).name = Role(d).name
  <2>1. Quiets(Role(d))
    BY <1>2 DEF SetsAHeader, NothingTakenBack, Role
  <2>2. said[Header(Role(d).name)] = Role(d).value
    BY <1>1 DEF HeaderNames, Header
  <2> QED BY <1>1, <1>2, <2>1, <2>2 DEF Quiets, SaysQuiet, HeaderNames, Header
<1>3. CASE Role(c).name # Role(d).name
  <2>1. Header(Role(c).name) # Header(Role(d).name)
    BY <1>1, <1>3 DEF HeaderNames, Header
  <2>2. Header(Role(c).name) \in DOMAIN response
    BY <1>1 DEF HeaderNames, Header
  <2>3. said[Header(Role(c).name)] = response[Header(Role(c).name)]
    BY <2>1, <2>2
  <2> QED BY <1>1, <1>3, <2>3 DEF SaysQuiet, HeaderNames, Header
<1> QED BY <1>2, <1>3

LEMMA ResponseStep ==
  ASSUME ControlInv, ResponseInv, HeadersHold(fn), [AdNext]_adVars
  PROVE  ResponseInv'
<1>1. UNCHANGED vars /\ fn' = fn /\ (\A c : Role(c)' = Role(c) /\ (SetsAHeader(c)' <=> SetsAHeader(c)))
  BY AdFrame DEF vars, Role, SetsAHeader
<1>2. fn \in LoweredFn /\ CallsStand(fn) /\ NothingTakenBack(fn)
  BY DEF ControlInv, Analysed, HeadersHold
<1>3. DOMAIN response = {"type", "policy", "disposition"}
  BY DEF ResponseInv
<1>4. CASE UNCHANGED response /\ \A c : SetsAHeader(c) /\ MustHaveRun(c)' => MustHaveRun(c)
  BY <1>1, <1>3, <1>4 DEF ResponseInv, SaysQuiet
<1>5. CASE Split \/ UNCHANGED adVars
  <2>1. UNCHANGED <<response, at_block, at_statement>>
    BY <1>5 DEF Split, SplitValue, adVars, all, execution
  <2>2. \A c : MustHaveRun(c)' <=> MustHaveRun(c)
    BY <1>1, <2>1 DEF MustHaveRun, Call, CutFromEntry, Blocks, Succ
  <2> QED BY <1>4, <2>1, <2>2
<1>6. CASE RunFlow \/ RunCheck \/ RunSink
  <2>1. /\ UNCHANGED <<response, at_block>> /\ at_statement' = at_statement + 1
        /\ at_statement <= Len(fn.text[at_block])
    BY <1>6 DEF RunFlow, RunCheck, RunSink
  <2>2. ASSUME NEW c, SetsAHeader(c), fn.text[at_block][at_statement] = <<"call", c>> PROVE FALSE
    BY <1>6, <2>2 DEF RunFlow, RunCheck, RunSink, SetsAHeader
  <2> QED BY <1>1, <1>4, <2>1, <2>2, MustHaveRunStatement
<1>7. CASE RunHeader
  <2> DEFINE d == fn.text[at_block][at_statement][2]
  <2>1. /\ UNCHANGED at_block /\ at_statement' = at_statement + 1
        /\ at_statement <= Len(fn.text[at_block])
        /\ fn.text[at_block][at_statement][1] = "call" /\ Role(d).kind = "header"
        /\ response' = IF Role(d).receiver = "res"
                       THEN [response EXCEPT ![Header(Role(d).name)] = Role(d).value]
                       ELSE response
    BY <1>7 DEF RunHeader
  <2>2. d \in DOMAIN fn.calls
    <3>1. at_block \in Blocks
      BY <1>2, FromEntryClosed, AnalysedDominance DEF ControlInv
    <3>2. at_statement \in 1 .. Len(fn.text[at_block])
      BY <2>1, <3>1, <1>2, TextShape DEF ControlInv
    <3> QED BY <1>2, <2>1, <3>1, <3>2, TextShape
  <2> HIDE DEF d
  <2>3. DOMAIN response' = {"type", "policy", "disposition"}
    BY <1>3, <2>1
  <2>4. ASSUME NEW c, SetsAHeader(c), Quiets(Role(c)), MustHaveRun(c)'
        PROVE  SaysQuiet(response', Role(c).name)
    <3>1. MustHaveRun(c) \/ fn.text[at_block][at_statement] = <<"call", c>>
      BY <1>1, <2>1, <2>4, MustHaveRunStatement
    <3>2. c = d \/ SaysQuiet(response, Role(c).name)
      BY <2>4, <3>1 DEF ResponseInv, d
    <3>3. CASE Role(d).receiver = "res"
      <4>1. SetsAHeader(d)
        BY <2>1, <2>2, <3>3 DEF SetsAHeader
      <4>2. response' = [response EXCEPT ![Header(Role(d).name)] = Role(d).value]
        BY <2>1, <3>3
      <4> QED BY <1>2, <1>3, <2>4, <3>2, <4>1, <4>2, HeaderSays
    <3>4. CASE Role(d).receiver # "res"
      BY <2>1, <2>4, <3>2, <3>4 DEF SetsAHeader
    <3> QED BY <3>3, <3>4
  <2> QED BY <1>1, <2>3, <2>4 DEF ResponseInv, SaysQuiet
<1>8. CASE Branch
  <2>1. /\ UNCHANGED response /\ at_statement' = 1 /\ at_statement > Len(fn.text[at_block])
        /\ at_block' \in Succ(at_block)
    BY <1>8 DEF Branch, Succ
  <2> QED BY <1>1, <1>2, <1>4, <2>1, MustHaveRunBranch DEF SetsAHeader
<1> QED BY <1>5, <1>6, <1>7, <1>8 DEF AdNext

(* At the body: a header that dominates it must have run.                  *)
LEMMA DominatingHeaderRan ==
  ASSUME ControlInv, HeadersHold(fn), NEW sink \in AboutTo("sink"),
         NEW c \in Headers(sink)
  PROVE  MustHaveRun(c)
<1>0. /\ fn \in LoweredFn /\ at_block \in Blocks
      /\ at_statement \in DOMAIN fn.text[at_block] /\ DOMAIN fn.text[at_block] = 1 .. Len(fn.text[at_block])
      /\ Len(fn.text[at_block]) \in Nat
      /\ sink \in DOMAIN fn.calls /\ fn.text[at_block][at_statement] = <<"call", sink>>
      /\ Role(sink).kind = "sink"
  <2>1. /\ fn \in LoweredFn /\ at_block \in Blocks /\ at_statement <= Len(fn.text[at_block])
        /\ sink \in DOMAIN fn.calls /\ fn.text[at_block][at_statement] = <<"call", sink>>
        /\ Role(sink).kind = "sink"
    BY FromEntryClosed, AnalysedDominance DEF ControlInv, Analysed, AboutTo
  <2> QED BY <2>1, TextShape DEF ControlInv
<1>1. /\ c \in DOMAIN fn.calls /\ Role(c).kind = "header" /\ CallDominates(c, sink)
      /\ Call(c).block \in Blocks /\ Call(c).line \in Nat /\ Call(sink).line \in Nat
  BY <1>0, CallShape DEF Headers
<1>2. Call(sink).block = at_block
  <2>1. SiteOf(fn, <<"call", sink>>).block \in {at_block, NoBlock}
    BY <1>0 DEF HeadersHold, RunsInSourceOrder, BlocksOf, Blocks
  <2> QED BY <1>0, <2>1, CallShape, BodyShape DEF SiteOf, Call
<1>3. CASE Call(c).block # at_block
  <2>1. at_block \in CutFromEntry(Call(c).block)
    BY <1>0, <1>1, <1>2, AnalysedDominance DEF CallDominates, ControlInv
  <2> QED BY <1>3, <2>1 DEF MustHaveRun
<1>4. CASE Call(c).block = at_block
  <2>1. PICK k \in DOMAIN fn.text[at_block] : fn.text[at_block][k] = <<"call", c>>
    BY <1>1, <1>4 DEF HeadersHold, CallsStand, Call
  <2>2. Call(c).line < Call(sink).line
    BY <1>1, <1>2, <1>4 DEF CallDominates
  <2>3. at_statement < k => Call(sink).line <= Call(c).line
    BY <1>0, <2>1 DEF HeadersHold, RunsInSourceOrder, BlocksOf, Blocks, SiteOf, Call
  <2>4. k < at_statement
    BY <1>0, <1>1, <2>1, <2>2, <2>3
  <2> QED BY <1>4, <2>1, <2>4 DEF MustHaveRun
<1> QED BY <1>3, <1>4

LEMMA LeastNatural ==
  ASSUME NEW T \in SUBSET Nat, T # {}
  PROVE  \E n \in T : \A m \in T : n <= m
<1>1. PICK x \in T : \A y \in T : ~(<<y, x>> \in OpToRel(<, Nat))
  BY NatLessThanWellFounded, WFMin
<1>2. ASSUME NEW y \in T PROVE x <= y
  <2>1. ~(y < x)
    BY <1>1 DEF OpToRel
  <2> QED BY <2>1
<1> QED BY <1>2

(* Among finitely many positions, one is the last.                         *)
LEMMA LastPosition ==
  ASSUME NEW n \in Nat, NEW T \in SUBSET (1 .. n), T # {}
  PROVE  \E m \in T : \A k \in T : k <= m
<1> DEFINE U == {m \in Nat : \A k \in T : k <= m}
<1>1. n \in U /\ U \in SUBSET Nat
  OBVIOUS
<1>2. U # {}
  BY <1>1
<1>3. \E m \in U : \A y \in U : m <= y
  <2> HIDE DEF U
  <2> QED BY <1>1, <1>2, LeastNatural
<1>4. PICK m \in U : \A y \in U : m <= y
  BY <1>3
<1>5. PICK t \in T : TRUE
  OBVIOUS
<1>6. m # 0 /\ m - 1 \in Nat /\ m \in Nat
  BY <1>4, <1>5
<1>7. m - 1 \notin U
  BY <1>4, <1>6
<1>8. PICK k \in T : ~ (k <= m - 1)
  BY <1>6, <1>7
<1>9. k = m
  BY <1>4, <1>6, <1>8
<1> QED BY <1>4, <1>8, <1>9

(* A body the analysis keeps silent about is none that a browser would run:*)
(* for every graph, every order of the headers and every execution of a    *)
(* function whose calls stand in source order and whose headers do not     *)
(* unsay each other (taint.go:3533).                                       *)
THEOREM SilencedCorrect ==
  AdSpec /\ HeadersHold(fn) => []SilencedBodyIsNotMarkup
<1> DEFINE Inv == ControlInv /\ ResponseInv /\ HeadersHold(fn)
<1>1. AdInit /\ HeadersHold(fn) => Inv
  BY ResponseInit
<1>2. Inv /\ [AdNext]_adVars => Inv'
  <2> SUFFICES ASSUME Inv, [AdNext]_adVars PROVE Inv'
    OBVIOUS
  <2>1. HeadersHold(fn)'
    BY AdFrame DEF vars
  <2> QED BY <2>1, ControlStep, ResponseStep
<1>3. Inv => SilencedBodyIsNotMarkup
  <2> SUFFICES ASSUME Inv, NEW sink \in AboutTo("sink"), Role(sink).receiver = "res",
                      ~ BodyIsMarkup(sink)
               PROVE  \/ response.type # "text/html"
                      \/ response.policy = "sandbox" \/ response.disposition = "attachment"
    BY DEF SilencedBodyIsNotMarkup
  <2>0. \A c \in Headers(sink) : SetsAHeader(c) /\ Role(c).name \in HeaderNames
    BY RoleAssumption DEF Headers, SetsAHeader, Role, ControlInv, Analysed
  <2>1. \A c \in Headers(sink) : Quiets(Role(c)) => SaysQuiet(response, Role(c).name)
    BY <2>0, DominatingHeaderRan DEF ResponseInv
  <2>2. CASE Blocked(sink)
    <3>1. PICK c \in Headers(sink) : Forbids(Role(c).name, Role(c).value)
      BY <2>2 DEF Blocked
    <3>2. Role(c).name # "content-type" /\ Quiets(Role(c))
      BY <3>1 DEF Quiets, Forbids
    <3>3. Forbids(Role(c).name, response[Header(Role(c).name)])
      BY <2>1, <3>2 DEF SaysQuiet
    <3> QED BY <3>3 DEF Forbids, Header
  <2>3. CASE ContentType(sink) \notin {"", "text/html"}
    <3> DEFINE types == {c \in Headers(sink) : Role(c).name = "content-type"}
    <3>1. types # {} /\ ContentType(sink) = Role(CHOOSE c \in types : \A d \in types : d <= c).value
      BY <2>3 DEF ContentType
    <3>2. fn.calls \in Seq([reads : Seq(Value), block : Blocks, line : Nat])
      BY BodyShape DEF ControlInv, Analysed
    <3>3. DOMAIN fn.calls = 1 .. Len(fn.calls) /\ Len(fn.calls) \in Nat
      BY <3>2
    <3>4. types \subseteq 1 .. Len(fn.calls)
      BY <3>3 DEF Headers
    <3> HIDE DEF types
    <3>5. \E c \in types : \A d \in types : d <= c
      BY <3>1, <3>3, <3>4, LastPosition
    <3>6. PICK c \in types : ContentType(sink) = Role(c).value
      BY <3>1, <3>5, Zenon
    <3>7. c \in Headers(sink) /\ Role(c).name = "content-type"
      BY <3>6 DEF types
    <3>8. Quiets(Role(c))
      BY <2>3, <3>6, <3>7 DEF Quiets
    <3>9. SaysQuiet(response, Role(c).name)
      BY <2>1, <3>7, <3>8
    <3> QED BY <3>7, <3>9 DEF SaysQuiet
  <2> QED BY <2>2, <2>3 DEF BodyIsMarkup
<1> QED BY <1>1, <1>2, <1>3, PTL DEF AdSpec
=============================================================================
