---------------------------- MODULE GuardsProofs ----------------------------
(***************************************************************************)
(* What the reports of guard say about executions, for every function that *)
(* runs as it is written (RunsAsWritten in Guards) and every execution:    *)
(*                                                                         *)
(*   RefusedCorrect     the work a report names after a refusal is done;   *)
(*   ForwardedCorrect   the authority was written over, and a credential   *)
(*                      was left in the collection that is sent;           *)
(*   LeftUndoneCorrect  what the other three rules are for is not passed   *)
(*                      over in silence, by UnaskedCorrect,                *)
(*                      AbandonedCorrect and LateCorrect.                  *)
(*                                                                         *)
(* All but the first say what lies behind an execution (CfgProofs).  The  *)
(* first says what lies before it: since the refusal the work is done or   *)
(* still ahead, in a block that post-dominates the current one.            *)
(***************************************************************************)
EXTENDS Guards, CfgProofs, WellFoundedInduction

-----------------------------------------------------------------------------
(* The function, as Guards is handed it.                                   *)

LEMMA CallShape ==
  ASSUME fn \in LoweredFn, NEW i \in Calls
  PROVE  /\ Call(i).block \in Blocks /\ Call(i).line \in Nat
         /\ i \in Nat /\ i # 0
         /\ ArgsOf(i) \subseteq Value
<1>. DEFINE Made == [does : Role, block : Blocks, line : Nat,
                     recv : Value \cup {NoValue}, args : Seq(Value),
                     result : Value \cup {NoValue},
                     says : STRING, exits : SUBSET {"return", "throw"}]
<1>1. fn.calls \in Seq(Made)
  BY FunctionAssumption DEF Blocks
<1>. HIDE DEF Made
<1>2. fn.calls[i] \in Made /\ i \in Nat /\ i # 0
  BY <1>1 DEF Calls
<1>3. Call(i).args \in Seq(Value)
  BY <1>2 DEF Call, Made
<1>4. ArgsOf(i) \subseteq Value
  BY <1>3 DEF ArgsOf
<1>. QED
  BY <1>2, <1>4 DEF Call, Made

LEMMA FlowShape ==
  ASSUME fn \in LoweredFn, NEW i \in DOMAIN fn.flows
  PROVE  fn.flows[i].block \in Blocks
<1>. DEFINE Edge == [from : Value, to : Value, assigns : BOOLEAN,
                     block : Blocks, line : Nat]
<1>1. fn.flows \in Seq(Edge)
  BY FunctionAssumption DEF Blocks
<1>. HIDE DEF Edge
<1>2. fn.flows[i] \in Edge
  BY <1>1
<1>. QED
  BY <1>2 DEF Edge

LEMMA WriteShape ==
  ASSUME fn \in LoweredFn, NEW i \in DOMAIN fn.writes
  PROVE  fn.writes[i].block \in Blocks /\ fn.writes[i].line \in Nat
<1>. DEFINE Over == [base : Value, fromItself : BOOLEAN, block : Blocks, line : Nat]
<1>1. fn.writes \in Seq(Over)
  BY FunctionAssumption DEF Blocks
<1>. HIDE DEF Over
<1>2. fn.writes[i] \in Over
  BY <1>1
<1>. QED
  BY <1>2 DEF Over

-----------------------------------------------------------------------------
(* What the suppositions say of a statement.                               *)

LEMMA OneBlockEach ==
  ASSUME fn \in LoweredFn, StandsWhereListed(fn)
  PROVE  StandsOnce(fn)
BY DEF StandsWhereListed, StandsOnce

LEMMA WhereItStands ==
  ASSUME fn \in LoweredFn, StandsWhereListed(fn), NEW b \in Blocks, NEW p \in DOMAIN fn.text[b]
  PROVE  /\ \A i : fn.text[b][p] = <<"call", i>> => i \in Calls /\ Call(i).block = b
         /\ \A i : fn.text[b][p] = <<"flow", i>> =>
              i \in DOMAIN fn.flows /\ fn.flows[i].block = b
         /\ fn.text[b][p][1] = "flow" =>
              /\ fn.text[b][p][2] \in DOMAIN fn.flows
              /\ fn.flows[fn.text[b][p][2]].block = b
<1>1. fn.text[b][p] \in Statements(fn) /\ SiteOf(fn, fn.text[b][p]).block = b
  BY TextOfBlock DEF StandsWhereListed
<1>. QED
  BY <1>1 DEF Statements, SiteOf, Calls, Call

LEMMA CallStands ==
  ASSUME fn \in LoweredFn, StandsWhereListed(fn), NEW i \in Calls
  PROVE  \E n \in DOMAIN fn.text[Call(i).block] : fn.text[Call(i).block][n] = <<"call", i>>
<1>1. <<"call", i>> \in Statements(fn) /\ SiteOf(fn, <<"call", i>>) = Call(i)
  BY DEF Statements, SiteOf, Calls, Call
<1>. QED
  BY <1>1 DEF StandsWhereListed

LEMMA WriteStands ==
  ASSUME fn \in LoweredFn, StandsWhereListed(fn), NEW k \in DOMAIN fn.writes
  PROVE  \E n \in DOMAIN fn.text[fn.writes[k].block] :
           fn.text[fn.writes[k].block][n] = <<"write", k>>
<1>1. <<"write", k>> \in Statements(fn) /\ SiteOf(fn, <<"write", k>>) = fn.writes[k]
  BY DEF Statements, SiteOf
<1>. QED
  BY <1>1 DEF StandsWhereListed

(* Locations are ordered as the naturals are: there is a first among any.  *)
LEMMA EarliestLine ==
  ASSUME NEW Lines \in SUBSET Nat, Lines # {}
  PROVE  \E x \in Lines : \A y \in Lines : x <= y
<1>1. PICK x \in Lines : \A y \in Lines : ~(<<y, x>> \in OpToRel(<, Nat))
  BY NatLessThanWellFounded, WFMin
<1>2. ASSUME NEW y \in Lines PROVE x <= y
  <2>1. ~(y < x)
    BY <1>1 DEF OpToRel
  <2>. QED
    BY <2>1
<1>. QED
  BY <1>2

LEMMA FirstIsOne ==
  ASSUME fn \in LoweredFn, NEW S \in SUBSET Calls, S # {}
  PROVE  First(S) \in S
<1>. DEFINE Lines == {Call(i).line : i \in S}
<1>1. Lines \in SUBSET Nat /\ Lines # {}
  BY CallShape
<1>2. PICK x \in Lines : \A y \in Lines : x <= y
  <2>. HIDE DEF Lines
  <2>. QED
    BY <1>1, EarliestLine
<1>3. \E i \in S : \A j \in S : Call(i).line <= Call(j).line
  BY <1>2
<1>. QED
  BY <1>3 DEF First

-----------------------------------------------------------------------------
(* Every state: the graph is analysed, the reports are those of the rules, *)
(* and nothing runs before they have been made.                            *)
GdInv ==
  /\ Analysed
  /\ StandsWhereListed(fn)
  /\ RunInv
  /\ judged => said = Refused \cup OmittedOnBranch \cup DiscardedRestriction
                        \cup LateFileMode \cup ForwardedCredentials
  /\ ~ judged => said = {} /\ trace = <<>>

LEMMA GdInvInit == GdInit /\ StandsWhereListed(fn) => GdInv
<1>. SUFFICES ASSUME GdInit, StandsWhereListed(fn) PROVE GdInv
  OBVIOUS
<1>1. fn \in LoweredFn /\ reached = FromEntry
  BY AnalysedDominance DEF GdInit
<1>2. RunInv
  BY <1>1, RunInvInit DEF GdInit
<1>. QED
  BY <1>2 DEF GdInv, GdInit, RunInit

(* The reports depend on the function and its graph only.                  *)
LEMMA ReportsStay ==
  ASSUME vars' = vars
  PROVE  /\ Refused' = Refused /\ OmittedOnBranch' = OmittedOnBranch
         /\ DiscardedRestriction' = DiscardedRestriction
         /\ LateFileMode' = LateFileMode
         /\ ForwardedCredentials' = ForwardedCredentials
<1>1. /\ fn' = fn /\ reached' = reached /\ postDoms' = postDoms /\ doms' = doms
  BY DEF vars
<1>2. /\ Calls' = Calls /\ Blocks' = Blocks /\ Exits' = Exits
      /\ \A i : Call(i)' = Call(i)
      /\ \A b : Succ(b)' = Succ(b)
  BY <1>1 DEF Calls, Call, Blocks, Exits, Succ
<1>3. /\ \A S : Doing(S)' = Doing(S)
      /\ \A i : ArgsOf(i)' = ArgsOf(i)
      /\ \A S : First(S)' = First(S)
  BY <1>2 DEF Doing, ArgsOf, First
<1>4. /\ \A a, b : Reaches(a, b)' <=> Reaches(a, b)
      /\ \A a, b : Dominates(a, b)' <=> Dominates(a, b)
      /\ \A a, b : PostDominates(a, b)' <=> PostDominates(a, b)
      /\ \A b : IsGuard(b)' <=> IsGuard(b)
  BY <1>1, <1>2 DEF Reaches, Dominates, PostDominates, IsGuard, BranchesTwoWays
<1>5. /\ \A v : Assigned(v)' = Assigned(v)
      /\ \A v : Root(v)' = Root(v)
  BY <1>1, <1>2 DEF Assigned, Root
<1>6. \A v : Carries(v)' = Carries(v)
  BY <1>1 DEF Carries, Root
<1>7. \A i, j : Ordered(i, j)' <=> Ordered(i, j)
  BY <1>1, <1>2, <1>4 DEF Ordered
<1>8. Refused' = Refused
  <2>1. \A b : WorkAfter(b)' = WorkAfter(b)
    BY <1>2, <1>4 DEF WorkAfter
  <2>2. Terminal' = Terminal
    BY <1>2 DEF Terminal, EndsRequest, NeverReturns, IsDelegation
  <2>. QED
    BY <2>1, <2>2, <1>2, <1>3 DEF Refused
<1>9. OmittedOnBranch' = OmittedOnBranch
  <2>1. Decides' = Decides /\ Operates' = Operates
    BY <1>3 DEF Decides, Operates
  <2>2. \A c, x : Siblings(c, x)' = Siblings(c, x)
    BY <1>1, <1>2, <1>4 DEF Siblings, AssigningBlocks
  <2>3. \A c, o : CoveredBy(c, o)' <=> CoveredBy(c, o)
    BY <2>1, <1>2, <1>4 DEF CoveredBy
  <2>4. \A i, S : UsesAny(i, S)' <=> UsesAny(i, S)
    BY <1>2, <1>3 DEF UsesAny
  <2>5. \A c, x : Unasked(c, x)' = Unasked(c, x)
    <3>1. ASSUME NEW c, NEW x PROVE Unasked(c, x)' = Unasked(c, x)
      <4>1. \A o : UsesAny(o, Carries(x))' <=> UsesAny(o, Carries(x))
        BY <2>4, <1>6, <1>2, <1>3 DEF UsesAny
      <4>. QED
        BY <4>1, <2>1, <2>2, <2>3, <1>1, <1>2, <1>4 DEF Unasked
    <3>. QED
      BY <3>1
  <2>. QED
    BY <2>1, <2>5, <1>1, <1>2, <1>3, <1>4, <1>5 DEF OmittedOnBranch
<1>10. DiscardedRestriction' = DiscardedRestriction
  <2>1. ComplainingExits' = ComplainingExits
    BY <1>1, <1>2, <1>3 DEF ComplainingExits, Complaints
  <2>2. \A c : Applications(c)' = Applications(c)
    BY <1>1, <1>2, <1>3 DEF Applications
  <2>3. \A a, b, u : Abandons(a, b, u)' <=> Abandons(a, b, u)
    BY <1>2, <1>4 DEF Abandons
  <2>4. \A a, b : Leaving(a, b)' <=> Leaving(a, b)
    BY <2>2, <2>3, <1>1, <1>2, <1>3 DEF Leaving
  <2>. QED
    BY <2>1, <2>4, <1>1, <1>3 DEF DiscardedRestriction
<1>11. LateFileMode' = LateFileMode
  <2>1. \A o : WritesThrough(o)' = WritesThrough(o)
    BY <1>2, <1>3, <1>5, <1>7 DEF WritesThrough
  <2>2. \A o : FirstWrite(o)' = FirstWrite(o)
    BY <2>1 DEF FirstWrite
  <2>3. \A o, c : RestrictsPath(o, c)' <=> RestrictsPath(o, c)
    BY <1>2, <1>5 DEF RestrictsPath
  <2>. QED
    BY <2>1, <2>2, <2>3, <1>1, <1>2, <1>3, <1>7 DEF LateFileMode
<1>12. ForwardedCredentials' = ForwardedCredentials
  <2>1. \A h : InboundCopy(h)' <=> InboundCopy(h)
    BY <1>1, <1>2, <1>3, <1>5 DEF InboundCopy
  <2>2. \A k, o : WriteOrdered(k, o)' <=> WriteOrdered(k, o)
    BY <1>1, <1>2, <1>4 DEF WriteOrdered
  <2>3. \A o : ChangedAuthority(o)' <=> ChangedAuthority(o)
    BY <2>2, <1>1, <1>2, <1>5 DEF ChangedAuthority
  <2>4. \A o : Removed(o)' = Removed(o)
    BY <1>2, <1>3, <1>5, <1>7 DEF Removed
  <2>. QED
    BY <2>1, <2>3, <2>4, <1>2, <1>3 DEF ForwardedCredentials
<1>. QED
  BY <1>8, <1>9, <1>10, <1>11, <1>12

LEMMA GdInvStep == GdInv /\ [GdNext]_all => GdInv'
<1>. SUFFICES ASSUME GdInv, [GdNext]_all PROVE GdInv'
  OBVIOUS
<1>1. vars' = vars
  BY DEF GdNext, Judge, Execute, Leave, all
<1>2. /\ Analysed /\ fn \in LoweredFn /\ reached = FromEntry
      /\ StandsWhereListed(fn) /\ StandsOnce(fn)
  BY AnalysedDominance, OneBlockEach DEF GdInv
<1>3. Analysed' /\ StandsWhereListed(fn)'
  BY <1>1, <1>2 DEF Analysed, vars, Blocks, FromEntry, CutFromEntry, CutFromExits, Exits, Succ
<1>4. RunInv'
  <2>1. CASE Execute
    BY <2>1, <1>1, <1>2, RunInvStatement DEF Execute, GdInv
  <2>2. CASE Leave
    BY <2>2, <1>1, <1>2, RunInvBranch DEF Leave, GdInv
  <2>3. CASE Judge \/ UNCHANGED all
    BY <2>3, <1>1, RunInvStutter DEF Judge, GdInv, all
  <2>. QED
    BY <2>1, <2>2, <2>3 DEF GdNext
<1>5. /\ judged' => said' = (Refused \cup OmittedOnBranch \cup DiscardedRestriction
                              \cup LateFileMode \cup ForwardedCredentials)'
      /\ ~ judged' => said' = {} /\ trace' = <<>>
  <2>1. CASE Judge
    BY <2>1, <1>1, ReportsStay DEF Judge
  <2>2. CASE Execute \/ Leave
    BY <2>2, <1>1, ReportsStay DEF Execute, Leave, GdInv
  <2>3. CASE UNCHANGED all
    BY <2>3, <1>1, ReportsStay DEF all, run, GdInv
  <2>. QED
    BY <2>1, <2>2, <2>3 DEF GdNext
<1>. QED
  BY <1>3, <1>4, <1>5 DEF GdInv

LEMMA GdInvariant == GdSpec /\ StandsWhereListed(fn) => []GdInv
BY GdInvInit, GdInvStep, PTL DEF GdSpec

-----------------------------------------------------------------------------
(* A refusal that does not stop the work.                                  *)

(* What a report names: a call that refuses, and the work every way on     *)
(* from its block comes past.                                              *)
LEMMA ReportOfRefusal ==
  ASSUME GdInv, NEW s \in said, s[1] = "refused"
  PROVE  /\ judged /\ s[2] \in Calls /\ s[3] \in Calls
         /\ Call(s[3]).block # Call(s[2]).block
         /\ Call(s[2]).block \in CutFromExits(Call(s[3]).block)
<1>1. fn \in LoweredFn
  BY AnalysedPostDominance DEF GdInv
<1>2. judged /\ s \in Refused
  BY DEF GdInv, OmittedOnBranch, DiscardedRestriction, LateFileMode, ForwardedCredentials
<1>3. PICK r \in Doing({"refuse"}) : /\ WorkAfter(Call(r).block) # {}
                                     /\ s = <<"refused", r, First(WorkAfter(Call(r).block))>>
  BY <1>2 DEF Refused
<1>4. s[2] = r /\ s[3] = First(WorkAfter(Call(r).block)) /\ r \in Calls
  BY <1>3 DEF Doing
<1>5. s[3] \in WorkAfter(Call(r).block)
  BY <1>1, <1>3, <1>4, FirstIsOne DEF WorkAfter
<1>6. /\ s[3] \in Calls /\ Call(s[3]).block # Call(r).block
      /\ PostDominates(Call(s[3]).block, Call(r).block)
  BY <1>5 DEF WorkAfter
<1>. QED
  BY <1>1, <1>2, <1>4, <1>6, CallShape, AnalysedPostDominance DEF GdInv

(* Since statement k the call i has run, or it is still ahead: control is  *)
(* in a block i's block post-dominates and, in i's own, not past i.        *)
DoneOrAhead(k, i) ==
  \/ \E j \in k + 1 .. Len(trace) : trace[j] = <<"call", i>>
  \/ /\ here = Call(i).block \/ here \in CutFromExits(Call(i).block)
     /\ here = Call(i).block =>
          \E p \in DOMAIN fn.text[here] : fn.text[here][p] = <<"call", i>> /\ pc <= p

RefusalInv ==
  \A s \in said : s[1] = "refused" =>
    \A k \in 1 .. Len(trace) : trace[k] = <<"call", s[2]>> => DoneOrAhead(k, s[3])

LEMMA RefusalInvStep ==
  GdInv /\ RefusalInv /\ [GdNext]_all => RefusalInv'
<1>. SUFFICES ASSUME GdInv, RefusalInv, [GdNext]_all,
                     NEW s \in said', s[1] = "refused",
                     NEW k \in 1 .. Len(trace'), trace'[k] = <<"call", s[2]>>
              PROVE  DoneOrAhead(k, s[3])'
  BY DEF RefusalInv
<1>. DEFINE i == s[3]
            b == Call(s[3]).block
<1>1. vars' = vars /\ fn' = fn /\ Calls' = Calls /\ Blocks' = Blocks
      /\ Call(i)' = Call(i) /\ \A x : CutFromExits(x)' = CutFromExits(x)
  BY DEF GdNext, Judge, Execute, Leave, all, vars, Calls, Call, Blocks, CutFromExits, Exits, Succ
<1>2. /\ Analysed /\ fn \in LoweredFn /\ reached = FromEntry
      /\ StandsWhereListed(fn) /\ RunInv
  BY AnalysedDominance DEF GdInv
<1>3. trace \in Seq(STRING \X Nat) /\ Len(trace) \in Nat /\ here \in Blocks
  BY <1>2, FromEntryClosed DEF RunInv, RunTypes
<1>4. /\ Len(fn.text[here]) \in Nat /\ pc \in 1 .. Len(fn.text[here]) + 1
      /\ DOMAIN fn.text[here] = 1 .. Len(fn.text[here])
  BY <1>2, <1>3, TextOfBlock DEF RunInv, RunTypes
<1>5. CASE Judge
  <2>1. trace = <<>> /\ trace' = trace
    BY <1>5 DEF Judge, run, GdInv
  <2>. QED
    BY <2>1
<1>6. CASE UNCHANGED all
  <2>1. /\ said' = said /\ trace' = trace /\ here' = here /\ pc' = pc
    BY <1>6 DEF all, run
  <2>2. DoneOrAhead(k, i)
    BY <2>1 DEF RefusalInv
  <2>. QED
    BY <2>1, <2>2, <1>1 DEF DoneOrAhead
<1>7. CASE Execute
  <2>. DEFINE st == fn.text[here][pc]
  <2>1. /\ said' = said /\ here' = here /\ pc' = pc + 1 /\ pc \in 1 .. Len(fn.text[here])
        /\ trace' = Append(trace, st)
    BY <1>7, <1>4 DEF Execute, RunStatement, AtEnd, Text
  <2>2. st \in STRING \X Nat
    BY <2>1, <1>2, <1>3, TextOfBlock
  <2>3. /\ Len(trace') = Len(trace) + 1 /\ trace'[Len(trace) + 1] = st
        /\ \A j \in 1 .. Len(trace) : trace'[j] = trace[j]
    BY <2>1, <2>2, <1>3
  <2>4. /\ s[2] \in Calls /\ i \in Calls
        /\ b # Call(s[2]).block /\ Call(s[2]).block \in CutFromExits(b)
    BY <2>1, ReportOfRefusal
  <2>5. CASE k = Len(trace) + 1
    <3>1. st = <<"call", s[2]>>
      BY <2>5, <2>3
    <3>2. pc \in DOMAIN fn.text[here] /\ fn.text[here][pc] = <<"call", s[2]>>
      BY <3>1, <2>1, <1>4
    <3>3. here = Call(s[2]).block
      BY <3>2, <1>2, <1>3, WhereItStands
    <3>. QED
      BY <3>3, <2>1, <2>4, <1>1 DEF DoneOrAhead
  <2>6. CASE k # Len(trace) + 1
    <3>1. k \in 1 .. Len(trace) /\ trace[k] = <<"call", s[2]>>
      BY <2>6, <2>3, <1>3
    <3>2. DoneOrAhead(k, i)
      BY <3>1, <2>1 DEF RefusalInv
    <3>3. CASE \E j \in k + 1 .. Len(trace) : trace[j] = <<"call", i>>
      <4>1. PICK j \in k + 1 .. Len(trace) : trace[j] = <<"call", i>>
        BY <3>3
      <4>2. j \in 1 .. Len(trace) /\ j \in k + 1 .. Len(trace')
        BY <4>1, <2>3, <3>1, <1>3
      <4>3. trace'[j] = <<"call", i>>
        BY <4>1, <4>2, <2>3
      <4>. QED
        BY <4>2, <4>3, <1>1 DEF DoneOrAhead
    <3>4. CASE st = <<"call", i>>
      <4>1. Len(trace) + 1 \in k + 1 .. Len(trace')
        BY <2>3, <3>1, <1>3
      <4>. QED
        BY <4>1, <3>4, <2>3 DEF DoneOrAhead
    <3>5. CASE st # <<"call", i>> /\ ~ \E j \in k + 1 .. Len(trace) : trace[j] = <<"call", i>>
      <4>1. /\ here = b \/ here \in CutFromExits(b)
            /\ here = b => \E p \in DOMAIN fn.text[here] : fn.text[here][p] = <<"call", i>> /\ pc <= p
        BY <3>2, <3>5 DEF DoneOrAhead
      <4>2. here = b => \E p \in DOMAIN fn.text[here] :
                          fn.text[here][p] = <<"call", i>> /\ pc + 1 <= p
        BY <4>1, <3>5, <1>4
      <4>. QED
        BY <4>1, <4>2, <2>1, <1>1 DEF DoneOrAhead
    <3>. QED
      BY <3>3, <3>4, <3>5
  <2>. QED
    BY <2>5, <2>6
<1>8. CASE Leave
  <2>1. /\ said' = said /\ trace' = trace /\ here' \in Succ(here) /\ pc' = 1
        /\ pc = Len(fn.text[here]) + 1
    <3>1. /\ said' = said /\ trace' = trace /\ here' \in Succ(here) /\ pc' = 1
          /\ pc > Len(fn.text[here])
      BY <1>8 DEF Leave, RunBranch, AtEnd, Text
    <3>. QED
      BY <3>1, <1>4
  <2>2. i \in Calls /\ b \in Blocks
    BY <2>1, <1>2, ReportOfRefusal, CallShape
  <2>3. DoneOrAhead(k, i)
    BY <2>1 DEF RefusalInv
  <2>4. CASE \E j \in k + 1 .. Len(trace) : trace[j] = <<"call", i>>
    BY <2>4, <2>1 DEF DoneOrAhead
  <2>5. CASE ~ \E j \in k + 1 .. Len(trace) : trace[j] = <<"call", i>>
    <3>1. here # b /\ here \in CutFromExits(b)
      BY <2>3, <2>5, <2>1, <1>4 DEF DoneOrAhead
    <3>2. here' # b => here' \in CutFromExits(b)
      BY <3>1, <2>1, <2>2, <1>2, <1>3, PostDominatedOn
    <3>3. here' = b => \E p \in DOMAIN fn.text[here'] : fn.text[here'][p] = <<"call", i>> /\ pc' <= p
      <4>1. PICK p \in DOMAIN fn.text[b] : fn.text[b][p] = <<"call", i>>
        BY <2>2, <1>2, CallStands
      <4>2. 1 <= p
        BY <4>1, <1>2, <2>2, TextOfBlock
      <4>. QED
        BY <4>1, <4>2, <2>1
    <3>. QED
      BY <3>2, <3>3, <1>1 DEF DoneOrAhead
  <2>. QED
    BY <2>4, <2>5
<1>. QED
  BY <1>5, <1>6, <1>7, <1>8 DEF GdNext

(* The work a report names after a refusal is work a run that refused has  *)
(* done by the time it returns (guard.go:19), on every graph and in every  *)
(* execution.                                                              *)
THEOREM RefusedCorrect == GdSpec /\ StandsWhereListed(fn) => []RefusedWorkRuns
<1>1. GdInit => RefusalInv
  BY DEF GdInit, RefusalInv
<1>2. GdInv /\ RefusalInv => RefusedWorkRuns
  <2>. SUFFICES ASSUME GdInv, RefusalInv, Returned, NEW s \in said, s[1] = "refused",
                       NEW k \in DOMAIN trace, trace[k] = <<"call", s[2]>>
                PROVE  \E j \in k + 1 .. Len(trace) : trace[j] = <<"call", s[3]>>
    BY DEF RefusedWorkRuns
  <2>1. /\ fn \in LoweredFn /\ trace \in Seq(STRING \X Nat) /\ here \in Blocks
        /\ pc \in 1 .. Len(fn.text[here]) + 1
    BY AnalysedDominance, FromEntryClosed DEF GdInv, RunInv, RunTypes
  <2>2. /\ Len(fn.text[here]) \in Nat /\ DOMAIN fn.text[here] = 1 .. Len(fn.text[here])
        /\ k \in 1 .. Len(trace)
    BY <2>1, TextOfBlock
  <2>3. DoneOrAhead(k, s[3])
    BY <2>2 DEF RefusalInv
  <2>4. Call(s[3]).block \in Blocks
    BY <2>1, ReportOfRefusal, CallShape
  <2>5. here \in Exits /\ pc > Len(fn.text[here])
    BY DEF Returned, AtEnd, Text
  <2>6. here # Call(s[3]).block => here \notin CutFromExits(Call(s[3]).block)
    BY <2>1, <2>4, <2>5, ExitNotPostDominated
  <2>7. here # Call(s[3]).block \/
        ~ \E p \in DOMAIN fn.text[here] : fn.text[here][p] = <<"call", s[3]>> /\ pc <= p
    BY <2>1, <2>2, <2>5
  <2>. QED
    BY <2>3, <2>6, <2>7 DEF DoneOrAhead
<1>. QED
  BY <1>1, <1>2, RefusalInvStep, GdInvariant, PTL DEF GdSpec

-----------------------------------------------------------------------------
(* What lies behind a call that has just run, and behind any that ran.     *)

LEMMA BehindTheCall ==
  ASSUME GdInv, NEW k \in DOMAIN trace, NEW i, trace[k] = <<"call", i>>
  PROVE  /\ i \in Calls /\ Call(i).block \in reached
         /\ \E p \in DOMAIN fn.text[Call(i).block] :
              /\ fn.text[Call(i).block][p] = <<"call", i>>
              /\ RanThrough(trace, k, Call(i).block, p)
         /\ DominatorsRan(trace, k, Call(i).block)
<1>1. /\ fn \in LoweredFn /\ reached \subseteq Blocks /\ StandsWhereListed(fn)
      /\ trace \in Seq(STRING \X Nat)
  BY AnalysedDominance, FromEntryClosed DEF GdInv, RunInv, RunTypes
<1>2. k \in 1 .. Len(trace)
  BY <1>1
<1>. PICK b \in reached : \E p \in DOMAIN fn.text[b] :
        trace[k] = fn.text[b][p] /\ RanThrough(trace, k, b, p) /\ DominatorsRan(trace, k, b)
  BY <1>2 DEF GdInv, RunInv, RunBehind, Followed
<1>3. PICK p \in DOMAIN fn.text[b] :
        trace[k] = fn.text[b][p] /\ RanThrough(trace, k, b, p) /\ DominatorsRan(trace, k, b)
  OBVIOUS
<1>4. i \in Calls /\ Call(i).block = b
  <2>1. b \in Blocks /\ fn.text[b][p] = <<"call", i>>
    BY <1>1, <1>3
  <2>. QED
    BY <2>1, <1>1, WhereItStands
<1>. QED
  BY <1>3, <1>4

(* A call in a block that dominates the block of one that ran has run.     *)
LEMMA DominatingCallRan ==
  ASSUME GdInv, NEW k \in DOMAIN trace, NEW b \in Blocks, DominatorsRan(trace, k, b),
         NEW d \in Calls, Call(d).block # b, Dominates(Call(d).block, b)
  PROVE  Ran(<<"call", d>>)
<1>1. fn \in LoweredFn /\ StandsWhereListed(fn) /\ trace \in Seq(STRING \X Nat)
  BY AnalysedDominance DEF GdInv, RunInv, RunTypes
<1>2. Call(d).block \in Blocks /\ b \in CutFromEntry(Call(d).block)
  BY <1>1, CallShape, AnalysedDominance DEF GdInv
<1>3. RanThrough(trace, k, Call(d).block, Len(fn.text[Call(d).block]))
  BY <1>2 DEF DominatorsRan
<1>4. PICK n \in DOMAIN fn.text[Call(d).block] : fn.text[Call(d).block][n] = <<"call", d>>
  BY <1>1, CallStands
<1>5. n \in 1 .. Len(fn.text[Call(d).block])
  BY <1>1, <1>2, TextOfBlock
<1>6. PICK j \in 1 .. k : trace[j] = <<"call", d>>
  BY <1>3, <1>4, <1>5 DEF RanThrough, Among
<1>. QED
  BY <1>1, <1>6 DEF Ran

(* The statements of a block ran in the order of their locations.          *)
LEMMA LocationsTell ==
  ASSUME fn \in LoweredFn, RunsInLocationOrder(fn), NEW b \in Blocks,
         NEW m \in DOMAIN fn.text[b], NEW n \in DOMAIN fn.text[b], m < n,
         NEW s, NEW t, fn.text[b][m] = s, fn.text[b][n] = t, s[1] # "flow", t[1] # "flow"
  PROVE  SiteOf(fn, s).line < SiteOf(fn, t).line
<1>1. b \in DOMAIN fn.text
  BY TextOfBlock
<1>. QED
  BY <1>1 DEF RunsInLocationOrder

-----------------------------------------------------------------------------
(* The request's credentials sent to an authority that was written over.   *)

LEMMA ReportOfForward ==
  ASSUME GdInv, NEW out, <<"forwarded", out>> \in said
  PROVE  out \in Doing({"send"}) /\ ChangedAuthority(out) /\ Removed(out) # Credentials
<1>1. <<"forwarded", out>> \in ForwardedCredentials
  BY DEF GdInv, Refused, OmittedOnBranch, DiscardedRestriction, LateFileMode
<1>. QED
  BY <1>1 DEF ForwardedCredentials

(* The authority was written over before.                                  *)
LEMMA AuthorityReplaced ==
  ASSUME GdInv, RunsInLocationOrder(fn), NEW out \in Calls, ChangedAuthority(out),
         Now(<<"call", out>>)
  PROVE  \E k \in DOMAIN fn.writes : ~ fn.writes[k].fromItself /\ Ran(<<"write", k>>)
<1>. DEFINE n == Len(trace)
            b == Call(out).block
<1>1. fn \in LoweredFn /\ StandsWhereListed(fn) /\ trace \in Seq(STRING \X Nat)
  BY AnalysedDominance DEF GdInv, RunInv, RunTypes
<1>2. n \in DOMAIN trace /\ trace[n] = <<"call", out>> /\ DOMAIN trace = 1 .. n
  BY <1>1 DEF Now
<1>3. PICK p \in DOMAIN fn.text[b] :
        fn.text[b][p] = <<"call", out>> /\ RanThrough(trace, n, b, p)
  BY <1>2, BehindTheCall
<1>4. DominatorsRan(trace, n, b) /\ b \in Blocks
  BY <1>1, <1>2, BehindTheCall, CallShape
<1>5. PICK k \in DOMAIN fn.writes : WriteOrdered(k, out) /\ ~ fn.writes[k].fromItself
  BY DEF ChangedAuthority
<1>. DEFINE c == fn.writes[k].block
<1>6. c \in Blocks /\ Dominates(c, b) /\ (c = b => fn.writes[k].line < Call(out).line)
  BY <1>1, <1>5, WriteShape DEF WriteOrdered
<1>7. PICK q \in DOMAIN fn.text[c] : fn.text[c][q] = <<"write", k>>
  BY <1>1, WriteStands
<1>8. \E j \in 1 .. n : trace[j] = <<"write", k>>
  <2>1. CASE c = b
    <3>1. /\ p \in 1 .. Len(fn.text[b]) /\ q \in 1 .. Len(fn.text[b])
          /\ Len(fn.text[b]) \in Nat
      BY <2>1, <1>1, <1>3, <1>4, <1>7, TextOfBlock
    <3>2. ~ p < q
      <4>1. /\ SiteOf(fn, <<"call", out>>).line = Call(out).line
            /\ SiteOf(fn, <<"write", k>>).line = fn.writes[k].line
        BY DEF SiteOf, Call
      <4>2. ASSUME p < q PROVE Call(out).line < fn.writes[k].line
        <5>1. /\ q \in DOMAIN fn.text[b] /\ fn.text[b][q] = <<"write", k>>
              /\ <<"write", k>>[1] # "flow" /\ <<"call", out>>[1] # "flow"
          BY <2>1, <1>7
        <5>2. SiteOf(fn, <<"call", out>>).line < SiteOf(fn, <<"write", k>>).line
          BY <5>1, <4>2, <1>1, <1>3, <1>4, LocationsTell
        <5>. QED
          BY <5>2, <4>1
      <4>. QED
        BY <4>2, <2>1, <1>1, <1>6, CallShape, WriteShape
    <3>3. q \in 1 .. p
      BY <3>1, <3>2
    <3>. QED
      BY <3>3, <2>1, <1>3, <1>7 DEF RanThrough, Among
  <2>2. CASE c # b
    <3>1. b \in CutFromEntry(c)
      BY <1>4, <1>6, AnalysedDominance DEF GdInv
    <3>2. RanThrough(trace, n, c, Len(fn.text[c]))
      BY <3>1, <2>2, <1>4, <1>6 DEF DominatorsRan
    <3>3. q \in 1 .. Len(fn.text[c])
      BY <1>1, <1>6, <1>7, TextOfBlock
    <3>. QED
      BY <3>2, <3>3, <1>7 DEF RanThrough, Among
  <2>. QED
    BY <2>1, <2>2
<1>. QED
  BY <1>2, <1>5, <1>8 DEF Ran

(* A removal that is not ordered before the first sending has not run.     *)
LEMMA RemovalNotRun ==
  ASSUME GdInv, RunsInLocationOrder(fn), NEW out \in Calls, NEW i \in Calls,
         Now(<<"call", out>>), ~ Before(Len(trace), {<<"call", out>>}),
         i # out, ~ Ordered(i, out)
  PROVE  ~ Ran(<<"call", i>>)
<1>. SUFFICES ASSUME NEW k \in DOMAIN trace, trace[k] = <<"call", i>>
              PROVE  FALSE
  BY DEF Ran
<1>. DEFINE n == Len(trace)
            b == Call(out).block
            c == Call(i).block
<1>1. fn \in LoweredFn /\ StandsWhereListed(fn) /\ trace \in Seq(STRING \X Nat)
  BY AnalysedDominance DEF GdInv, RunInv, RunTypes
<1>2. /\ n \in DOMAIN trace /\ trace[n] = <<"call", out>> /\ DOMAIN trace = 1 .. n
      /\ n \in Nat /\ k \in 1 .. n /\ k < n
  <2>1. n \in DOMAIN trace /\ trace[n] = <<"call", out>> /\ DOMAIN trace = 1 .. n /\ n \in Nat
    BY <1>1 DEF Now
  <2>2. k # n
    BY <2>1
  <2>. QED
    BY <2>1, <2>2
<1>3. /\ b \in reached /\ c \in reached /\ b \in Blocks /\ c \in Blocks
  BY <1>1, <1>2, BehindTheCall, CallShape
<1>4. PICK p \in DOMAIN fn.text[b] : fn.text[b][p] = <<"call", out>>
  BY <1>2, BehindTheCall
<1>5. PICK q \in DOMAIN fn.text[c] :
        fn.text[c][q] = <<"call", i>> /\ RanThrough(trace, k, c, q)
  BY BehindTheCall
<1>6. CASE b = c
  <2>1. ~ (Call(i).line < Call(out).line)
    BY <1>3, <1>6 DEF Ordered
  <2>2. /\ p \in 1 .. Len(fn.text[b]) /\ q \in 1 .. Len(fn.text[b])
        /\ Len(fn.text[b]) \in Nat
    BY <1>1, <1>3, <1>4, <1>5, <1>6, TextOfBlock
  <2>3. p # q
    BY <1>4, <1>5, <1>6
  <2>4. ~ q < p
    <3>1. /\ SiteOf(fn, <<"call", out>>).line = Call(out).line
          /\ SiteOf(fn, <<"call", i>>).line = Call(i).line
      BY DEF SiteOf, Call
    <3>2. ASSUME q < p PROVE Call(i).line < Call(out).line
      <4>1. /\ q \in DOMAIN fn.text[b] /\ fn.text[b][q] = <<"call", i>>
            /\ <<"call", i>>[1] # "flow" /\ <<"call", out>>[1] # "flow"
        BY <1>5, <1>6
      <4>2. SiteOf(fn, <<"call", i>>).line < SiteOf(fn, <<"call", out>>).line
        BY <4>1, <3>2, <1>1, <1>3, <1>4, LocationsTell
      <4>. QED
        BY <4>2, <3>1
    <3>. QED
      BY <3>2, <2>1
  <2>5. p \in 1 .. q
    BY <2>2, <2>3, <2>4
  <2>6. PICK j \in 1 .. k : trace[j] = <<"call", out>>
    BY <2>5, <1>4, <1>5, <1>6 DEF RanThrough, Among
  <2>7. j \in 1 .. n - 1
    BY <1>2
  <2>. QED
    BY <2>6, <2>7 DEF Before
<1>7. CASE b # c
  <2>1. Stands(trace[k], c) /\ Stands(trace[n], b)
    BY <1>2, <1>4, <1>5 DEF Stands
  <2>2. LeadsTo(c, b)
    BY <2>1, <1>2, <1>3 DEF GdInv, RunInv, RunOrder
  <2>. QED
    BY <2>2, <1>3, <1>7 DEF LeadsTo, Ordered
<1>. QED
  BY <1>6, <1>7

(* What is reported is sent to an authority the run has written over, with *)
(* a credential it has not removed (forwarded_credentials.go:188), in      *)
(* every execution of every function that runs as written.                 *)
THEOREM ForwardedCorrect == GdSpec /\ RunsAsWritten(fn) => []ForwardCarriesCredentials
<1>1. GdInv /\ RunsInLocationOrder(fn) => ForwardCarriesCredentials
  <2>. SUFFICES ASSUME GdInv, RunsInLocationOrder(fn), NEW out \in Doing({"send"}),
                       Now(<<"call", out>>), <<"forwarded", out>> \in said,
                       ~ Before(Len(trace), {<<"call", out>>})
                PROVE  /\ \E k \in DOMAIN fn.writes :
                            ~ fn.writes[k].fromItself /\ Ran(<<"write", k>>)
                       /\ \E name \in Credentials : \A i \in Doing({"remove"}) :
                            Call(i).says = name /\ Call(i).recv \in Assigned(Call(out).args[2])
                              => ~ Ran(<<"call", i>>)
    BY DEF ForwardCarriesCredentials
  <2>1. ChangedAuthority(out) /\ Removed(out) # Credentials
    BY ReportOfForward
  <2>2. out \in Calls /\ Call(out).does = "send"
    BY DEF Doing
  <2>3. PICK name \in Credentials : name \notin Removed(out)
    BY <2>1 DEF Removed
  <2>4. ASSUME NEW i \in Doing({"remove"}), Call(i).says = name,
               Call(i).recv \in Assigned(Call(out).args[2])
        PROVE  ~ Ran(<<"call", i>>)
    <3>1. ~ Ordered(i, out)
      BY <2>3, <2>4 DEF Removed
    <3>2. i \in Calls /\ i # out
      BY <2>2 DEF Doing
    <3>. QED
      BY <3>1, <3>2, <2>2, RemovalNotRun
  <2>. QED
    BY <2>1, <2>2, <2>4, AuthorityReplaced
<1>2. RunsInLocationOrder(fn) /\ [GdNext]_all => RunsInLocationOrder(fn)'
  BY DEF GdNext, Judge, Execute, Leave, all, vars
<1>3. RunsAsWritten(fn) => StandsWhereListed(fn) /\ RunsInLocationOrder(fn)
  BY DEF RunsAsWritten
<1>. QED
  BY <1>1, <1>2, <1>3, GdInvariant, PTL DEF GdSpec

-----------------------------------------------------------------------------
(* A control asked on one branch only.                                     *)

(* An assignment that ran beside the check is one of its siblings, and     *)
(* leads to where control is.                                              *)
LEMMA RanBeside ==
  ASSUME GdInv, NEW check \in Calls, NEW x, NEW op, Now(<<"call", op>>),
         Call(check).block \in reached, ~ Ran(<<"call", check>>),
         NEW k \in DOMAIN trace, trace[k][1] = "flow",
         fn.flows[trace[k][2]].assigns, fn.flows[trace[k][2]].to = x,
         fn.flows[trace[k][2]].block # Call(check).block,
         Call(check).block \notin CutFromEntry(fn.flows[trace[k][2]].block)
  PROVE  \E b \in Siblings(check, x) : b = Call(op).block \/ Reaches(b, Call(op).block)
<1>. DEFINE n == Len(trace)
            g == fn.flows[trace[k][2]]
<1>1. /\ fn \in LoweredFn /\ reached \subseteq Blocks /\ StandsWhereListed(fn)
      /\ trace \in Seq(STRING \X Nat)
  BY AnalysedDominance, FromEntryClosed DEF GdInv, RunInv, RunTypes
<1>2. /\ n \in DOMAIN trace /\ trace[n] = <<"call", op>> /\ DOMAIN trace = 1 .. n
      /\ n \in Nat /\ k \in 1 .. n /\ k < n
  <2>1. n \in DOMAIN trace /\ trace[n] = <<"call", op>> /\ DOMAIN trace = 1 .. n /\ n \in Nat
    BY <1>1 DEF Now
  <2>2. k # n
    BY <2>1
  <2>. QED
    BY <2>1, <2>2
<1>. PICK b \in reached : \E p \in DOMAIN fn.text[b] :
        trace[k] = fn.text[b][p] /\ RanThrough(trace, k, b, p) /\ DominatorsRan(trace, k, b)
  BY <1>2 DEF GdInv, RunInv, RunBehind, Followed
<1>3. PICK p \in DOMAIN fn.text[b] : trace[k] = fn.text[b][p] /\ DominatorsRan(trace, k, b)
  OBVIOUS
<1>4. b \in Blocks /\ trace[k][2] \in DOMAIN fn.flows /\ g.block = b
  <2>1. b \in Blocks /\ fn.text[b][p][1] = "flow"
    BY <1>1, <1>3
  <2>2. fn.text[b][p][2] \in DOMAIN fn.flows /\ fn.flows[fn.text[b][p][2]].block = b
    BY <2>1, <1>1, WhereItStands
  <2>. QED
    BY <2>1, <2>2, <1>3
<1>5. b \in AssigningBlocks(x)
  BY <1>4 DEF AssigningBlocks
<1>6. ~ Dominates(Call(check).block, b)
  BY <1>3, <1>4, DominatingCallRan
<1>7. ~ Dominates(b, Call(check).block)
  BY <1>1, <1>4, CallShape, AnalysedDominance DEF GdInv
<1>8. b \in Siblings(check, x)
  BY <1>4, <1>5, <1>6, <1>7 DEF Siblings
<1>9. Call(op).block \in Blocks /\ Stands(trace[n], Call(op).block)
  BY <1>1, <1>2, BehindTheCall, CallShape DEF Stands
<1>10. LeadsTo(b, Call(op).block)
  BY <1>2, <1>3, <1>4, <1>9 DEF GdInv, RunInv, RunOrder, Stands
<1>. QED
  BY <1>8, <1>10 DEF LeadsTo

(* "Reached two ways" (omitted.go:333): a run that assigned the variable   *)
(* beside the branch its guard asks about it on, and operates on it with   *)
(* nothing asked, is reported, on every graph.                             *)
THEOREM UnaskedCorrect == GdSpec /\ StandsWhereListed(fn) => []UnaskedWayIsReported
<1>1. GdInv => UnaskedWayIsReported
  <2>. SUFFICES ASSUME GdInv, NEW op \in Operates, judged, fn.anchored,
                       Now(<<"call", op>>),
                       NEW check \in Decides, NEW v \in ArgsOf(check),
                       Root(v) # NoValue, IsGuard(Call(check).block),
                       Call(check).block \in reached,
                       Call(op).block # Call(check).block,
                       UsesAny(op, Carries(Root(v))),
                       \A d \in Decides : ~ Ran(<<"call", d>>) /\ Call(d).block # Call(op).block,
                       Reaches(Call(check).block, Call(op).block),
                       NEW k \in DOMAIN trace, trace[k][1] = "flow",
                       fn.flows[trace[k][2]].assigns, fn.flows[trace[k][2]].to = Root(v),
                       fn.flows[trace[k][2]].block # Call(check).block,
                       Call(check).block \notin CutFromEntry(fn.flows[trace[k][2]].block)
                PROVE  \E s \in said : s[1] = "unasked" /\ s[2] = Root(v)
    BY DEF UnaskedWayIsReported
  <2>. DEFINE x == Root(v)
              b == Call(op).block
  <2>1. /\ fn \in LoweredFn /\ trace \in Seq(STRING \X Nat)
        /\ Len(trace) \in DOMAIN trace /\ trace[Len(trace)] = <<"call", op>>
    <3>1. fn \in LoweredFn /\ trace \in Seq(STRING \X Nat)
      BY AnalysedDominance DEF GdInv, RunInv, RunTypes
    <3>. QED
      BY <3>1 DEF Now
  <2>2. /\ op \in Calls /\ b \in reached /\ b \in Blocks
        /\ DominatorsRan(trace, Len(trace), b)
    BY <2>1, BehindTheCall, CallShape
  <2>3. check \in Calls /\ v \in Value
    BY <2>1, CallShape DEF Decides, Doing
  <2>4. ~ Dominates(Call(check).block, b)
    BY <2>1, <2>2, <2>3, DominatingCallRan
  <2>5. ~ CoveredBy(check, op)
    <3>. SUFFICES ASSUME NEW d \in Decides, Dominates(Call(d).block, b) PROVE FALSE
      BY DEF CoveredBy
    <3>1. d \in Calls
      BY DEF Decides, Doing
    <3>. QED
      BY <3>1, <2>1, <2>2, DominatingCallRan
  <2>6. \E a \in Siblings(check, x) : a = b \/ Reaches(a, b)
    BY <2>3, RanBeside
  <2>7. op \in Unasked(check, x)
    BY <2>2, <2>4, <2>5, <2>6 DEF Unasked
  <2>8. <<"unasked", Root(v), First(Unasked(check, Root(v)))>> \in OmittedOnBranch
    <3>. DEFINE q == <<check, v>>
    <3>1. /\ q \in Decides \X Value /\ q[1] = check /\ q[2] = v
          /\ Unasked(check, Root(v)) # {}
      BY <2>3, <2>7
    <3>. HIDE DEF q
    <3>. QED
      BY <3>1 DEF OmittedOnBranch
  <2>. QED
    BY <2>8 DEF GdInv
<1>. QED
  BY <1>1, GdInvariant, PTL

-----------------------------------------------------------------------------
(* A restriction built and then left behind.                               *)

(* A run that added to a collection and returned from a branch that        *)
(* complains, before handing the collection to anything, is reported       *)
(* (discarded.go:22), on every graph.                                      *)
THEOREM AbandonedCorrect ==
  GdSpec /\ StandsWhereListed(fn) => []AbandonedRestrictionIsReported
<1>1. GdInv => AbandonedRestrictionIsReported
  <2>. SUFFICES ASSUME GdInv, Returned, fn.anchored, fn.restrictive, ~ fn.returnsValue,
                       NEW add \in Doing({"append"}),
                       Ran(<<"call", add>>), Call(add).recv \in fn.locals,
                       here \in ComplainingExits \ {Call(add).block},
                       Applications(Call(add).recv) # {},
                       \A apply \in Applications(Call(add).recv) :
                         /\ Reaches(Call(add).block, Call(apply).block)
                         /\ here # Call(apply).block
                PROVE  \E s \in said : s[1] = "abandoned" /\ s[2] = here
    BY DEF AbandonedRestrictionIsReported
  <2>1. /\ fn \in LoweredFn /\ trace \in Seq(STRING \X Nat)
    BY AnalysedDominance DEF GdInv, RunInv, RunTypes
  <2>2. PICK k \in DOMAIN trace : trace[k] = <<"call", add>>
    BY DEF Ran
  <2>3. /\ add \in Calls /\ Call(add).block \in reached /\ Call(add).block \in Blocks
        /\ Stands(trace[k], Call(add).block) /\ k \in 1 .. Len(trace)
    <3>1. /\ add \in Calls /\ Call(add).block \in reached
          /\ \E p \in DOMAIN fn.text[Call(add).block] :
               fn.text[Call(add).block][p] = <<"call", add>>
      BY <2>2, BehindTheCall
    <3>2. Call(add).block \in Blocks /\ k \in 1 .. Len(trace)
      BY <3>1, <2>1, <2>2, CallShape
    <3>. QED
      BY <3>1, <3>2, <2>2 DEF Stands
  <2>4. Reaches(Call(add).block, here)
    BY <2>3 DEF GdInv, RunInv, RunOrder, LeadsTo
  <2>5. First(Applications(Call(add).recv)) \in Applications(Call(add).recv)
    BY <2>1, FirstIsOne DEF Applications
  <2>6. Leaving(add, here)
    BY <2>3, <2>4, <2>5 DEF Leaving, Abandons
  <2>7. <<"abandoned", here>> \in DiscardedRestriction
    BY <2>6 DEF DiscardedRestriction
  <2>. QED
    BY <2>7 DEF GdInv, Returned
<1>. QED
  BY <1>1, GdInvariant, PTL
-----------------------------------------------------------------------------
(* A file restricted only after it was written.                            *)

(* A call that ran before another one is ordered before it, unless they    *)
(* share a block and are listed the other way around.                      *)
LEMMA RanInOrder ==
  ASSUME GdInv, NEW j \in DOMAIN trace, NEW k \in DOMAIN trace, j < k,
         NEW a, NEW b, trace[j] = <<"call", a>>, trace[k] = <<"call", b>>,
         Call(a).block = Call(b).block => Call(a).line < Call(b).line
  PROVE  Ordered(a, b)
<1>1. fn \in LoweredFn /\ trace \in Seq(STRING \X Nat)
  BY AnalysedDominance DEF GdInv, RunInv, RunTypes
<1>2. /\ a \in Calls /\ Call(a).block \in reached /\ Call(a).block \in Blocks
      /\ Stands(trace[j], Call(a).block)
  BY <1>1, BehindTheCall, CallShape DEF Stands
<1>3. /\ b \in Calls /\ Call(b).block \in reached /\ Call(b).block \in Blocks
      /\ Stands(trace[k], Call(b).block)
  BY <1>1, BehindTheCall, CallShape DEF Stands
<1>4. k \in 1 .. Len(trace) /\ j \in 1 .. k
  BY <1>1
<1>5. LeadsTo(Call(a).block, Call(b).block)
  BY <1>2, <1>3, <1>4 DEF GdInv, RunInv, RunOrder
<1>. QED
  BY <1>2, <1>3, <1>5 DEF Ordered, LeadsTo

(* The first write of a handle that is written once.                       *)
LEMMA OnlyWriteIsFirst ==
  ASSUME fn \in LoweredFn, NEW o, NEW w, w \in WritesThrough(o),
         \A v \in WritesThrough(o) : v = w
  PROVE  FirstWrite(o) = w
<1>1. w \in Nat
  BY CallShape DEF WritesThrough, Doing
<1>2. \E x \in WritesThrough(o) : \A v \in WritesThrough(o) : x <= v
  BY <1>1
<1>. QED
  BY <1>2 DEF FirstWrite

(* "Restricted only later" (guard.go:141): a run that creates a file,      *)
(* writes to it and restricts its path afterwards is reported, on every    *)
(* graph, when the file has one write.                                     *)
THEOREM LateCorrect ==
  GdSpec /\ StandsWhereListed(fn) /\ WritesEachFileOnce => []LateRestrictionIsReported
<1>1. GdInv /\ WritesEachFileOnce => LateRestrictionIsReported
  <2>. SUFFICES ASSUME GdInv, WritesEachFileOnce, NEW c \in Doing({"chmod"}), judged,
                       fn.anchored, Now(<<"call", c>>),
                       NEW o \in Doing({"open"}), NEW w \in Doing({"write"}),
                       Call(w).recv \in Assigned(Call(o).result),
                       Call(c).args[1] \in Assigned(Call(o).args[1]),
                       NEW k \in DOMAIN trace, trace[k] = <<"call", w>>,
                       Before(k, {<<"call", o>>})
                PROVE  <<"late", o>> \in said
    BY DEF LateRestrictionIsReported
  <2>1. fn \in LoweredFn /\ trace \in Seq(STRING \X Nat)
    BY AnalysedDominance DEF GdInv, RunInv, RunTypes
  <2>2. /\ RestrictsPath(o, c) /\ Call(o).args # <<>>
        /\ \A v \in Doing({"write"}) : Call(v).recv \in Assigned(Call(o).result) => v = w
        /\ Call(o).block = Call(w).block => Call(o).line < Call(w).line
        /\ Call(w).block = Call(c).block => Call(w).line < Call(c).line
    BY DEF WritesEachFileOnce, RestrictsPath
  <2>3. Ordered(o, w)
    <3>1. PICK j \in 1 .. k - 1 : trace[j] = <<"call", o>>
      BY DEF Before
    <3>2. j \in DOMAIN trace /\ j < k
      BY <2>1, <3>1
    <3>. QED
      BY <2>2, <3>1, <3>2, RanInOrder
  <2>4. Ordered(w, c)
    <3>1. /\ Len(trace) \in DOMAIN trace /\ trace[Len(trace)] = <<"call", c>>
          /\ k <= Len(trace)
      BY <2>1 DEF Now
    <3>2. k # Len(trace)
      <4>1. Call(w).does = "write" /\ Call(c).does = "chmod"
        BY DEF Doing
      <4>. QED
        BY <3>1, <4>1
    <3>. QED
      BY <2>1, <2>2, <3>1, <3>2, RanInOrder
  <2>5. w \in WritesThrough(o) /\ \A v \in WritesThrough(o) : v = w
    BY <2>2, <2>3 DEF WritesThrough
  <2>6. FirstWrite(o) = w
    BY <2>1, <2>5, OnlyWriteIsFirst
  <2>7. Call(o).result # NoValue
    BY DEF Assigned
  <2>8. <<"late", o>> \in LateFileMode
    BY <2>2, <2>4, <2>5, <2>6, <2>7 DEF LateFileMode
  <2>. QED
    BY <2>8 DEF GdInv
<1>2. WritesEachFileOnce /\ [GdNext]_all => WritesEachFileOnce'
  <2>. SUFFICES ASSUME WritesEachFileOnce, [GdNext]_all PROVE WritesEachFileOnce'
    OBVIOUS
  <2>1. fn' = fn
    BY DEF GdNext, Judge, Execute, Leave, all, vars
  <2>2. /\ \A i : Call(i)' = Call(i)
        /\ \A S : Doing(S)' = Doing(S)
        /\ \A v : Assigned(v)' = Assigned(v)
    BY <2>1 DEF Call, Doing, Calls, Assigned
  <2>3. \A i, c : RestrictsPath(i, c)' <=> RestrictsPath(i, c)
    BY <2>2 DEF RestrictsPath
  <2>4. WritesEachFileOnce' <=>
          \A o \in Doing({"open"}), w \in Doing({"write"}), c \in Doing({"chmod"}) :
            Call(w).recv \in Assigned(Call(o).result) /\ RestrictsPath(o, c) =>
              /\ Call(o).args # <<>>
              /\ \A v \in Doing({"write"}) : Call(v).recv \in Assigned(Call(o).result) => v = w
              /\ Call(o).block = Call(w).block => Call(o).line < Call(w).line
              /\ Call(w).block = Call(c).block => Call(w).line < Call(c).line
    BY <2>2, <2>3 DEF WritesEachFileOnce
  <2>. QED
    BY <2>4 DEF WritesEachFileOnce
<1>. QED
  BY <1>1, <1>2, GdInvariant, PTL DEF GdSpec

(* What a function leaves undone on one of its ways is reported: the       *)
(* question, the restriction it built, the mode it set too late            *)
(* (omitted.go:312, discarded.go:22, guard.go:141).                        *)
THEOREM LeftUndoneCorrect ==
  GdSpec /\ StandsWhereListed(fn) /\ WritesEachFileOnce => []LeftUndoneIsReported
<1>1. UnaskedWayIsReported /\ AbandonedRestrictionIsReported /\ LateRestrictionIsReported
        => LeftUndoneIsReported
  BY DEF LeftUndoneIsReported
<1>. QED
  BY <1>1, UnaskedCorrect, AbandonedCorrect, LateCorrect, PTL
=============================================================================
