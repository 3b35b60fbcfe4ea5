----------------------------- MODULE ScanProofs -----------------------------
(***************************************************************************)
(* What is proved of Scan for every tree, every command line and any       *)
(* number of findings and edits.                                           *)
(***************************************************************************)
EXTENDS Scan, WellFoundedInduction, TLAPS

LEMMA InMembers == \A S : \A s \in Seq(S) : \A i \in 1..Len(s) : s[i] \in Members(s)
  BY DEF Members

(* What a loop over a sequence takes is a member, and what it leaves are   *)
(* the other ones.                                                         *)
LEMMA HeadTail ==
  ASSUME NEW S, NEW s \in Seq(S), s # <<>>
  PROVE  /\ Head(s) \in S
         /\ Tail(s) \in Seq(S)
         /\ Members(s) = {Head(s)} \cup Members(Tail(s))
<1>1. Head(s) = s[1] /\ Len(s) \in Nat \ {0} /\ Head(s) \in S /\ Tail(s) \in Seq(S)
  OBVIOUS
<1>2. Len(Tail(s)) = Len(s) - 1 /\ \A i \in 1..Len(s) - 1 : Tail(s)[i] = s[i + 1]
  OBVIOUS
<1>3. ASSUME NEW x \in Members(s) PROVE x \in {Head(s)} \cup Members(Tail(s))
  <2>1. PICK i \in 1..Len(s) : x = s[i]
    BY <1>3 DEF Members
  <2>2. CASE i = 1
    BY <1>1, <2>1, <2>2
  <2>3. CASE i # 1
    <3>1. i - 1 \in 1..Len(Tail(s)) /\ Tail(s)[i - 1] = s[(i - 1) + 1]
      BY <1>1, <1>2, <2>1, <2>3
    <3>2. x = Tail(s)[i - 1]
      BY <1>1, <2>1, <3>1
    <3> QED BY <1>1, <3>1, <3>2, InMembers
  <2> QED BY <2>2, <2>3
<1>4. ASSUME NEW x \in Members(Tail(s)) PROVE x \in Members(s)
  <2>1. PICK i \in 1..Len(Tail(s)) : x = Tail(s)[i]
    BY <1>1, <1>4 DEF Members
  <2>2. i + 1 \in 1..Len(s) /\ x = s[i + 1]
    BY <1>1, <1>2, <2>1
  <2> QED BY <2>2 DEF Members
<1>5. Head(s) \in Members(s)
  BY <1>1 DEF Members
<1> QED BY <1>1, <1>3, <1>4, <1>5

LEMMA AppendMembers ==
  ASSUME NEW S, NEW s \in Seq(S), NEW e \in S
  PROVE  /\ Append(s, e) \in Seq(S)
         /\ Members(Append(s, e)) = Members(s) \cup {e}
<1>1. /\ Append(s, e) \in Seq(S)
      /\ Len(Append(s, e)) = Len(s) + 1
      /\ Append(s, e)[Len(s) + 1] = e
      /\ \A i \in 1..Len(s) : Append(s, e)[i] = s[i]
      /\ Len(s) \in Nat
  OBVIOUS
<1>2. ASSUME NEW x \in Members(Append(s, e)) PROVE x \in Members(s) \cup {e}
  <2>1. PICK i \in 1..Len(s) + 1 : x = Append(s, e)[i]
    BY <1>1, <1>2 DEF Members
  <2> QED BY <1>1, <2>1 DEF Members
<1>3. ASSUME NEW x \in Members(s) PROVE x \in Members(Append(s, e))
  <2>1. PICK i \in 1..Len(s) : x = s[i]
    BY <1>3 DEF Members
  <2> QED BY <1>1, <2>1 DEF Members
<1>4. e \in Members(Append(s, e))
  BY <1>1 DEF Members
<1> QED BY <1>1, <1>2, <1>3, <1>4

LEMMA MembersOfAny == \A S : \A s \in Seq(S) : Members(s) \subseteq S
  BY DEF Members

(* Putting one element into a place of a sequence keeps the others.        *)
LEMMA ReplaceMembers ==
  ASSUME NEW S, NEW s \in Seq(S), NEW i \in DOMAIN s, NEW e \in S
  PROVE  /\ [s EXCEPT ![i] = e] \in Seq(S)
         /\ e \in Members([s EXCEPT ![i] = e])
         /\ \A x \in Members(s) : x # s[i] => x \in Members([s EXCEPT ![i] = e])
<1> DEFINE t == [s EXCEPT ![i] = e]
<1>1. /\ t \in Seq(S) /\ DOMAIN t = DOMAIN s
      /\ t[i] = e /\ \A j \in DOMAIN s : j # i => t[j] = s[j]
  OBVIOUS
<1> HIDE DEF t
<1>2. e \in Members(t)
  BY <1>1 DEF Members
<1>3. \A x \in Members(s) : x # s[i] => x \in Members(t)
  BY <1>1 DEF Members
<1> QED BY <1>1, <1>2, <1>3 DEF t
-----------------------------------------------------------------------------
(* Both loop bodies put a finding f in, or replace k by a winner of the    *)
(* two; these are the winners.                                             *)
FlowWinner(k, f) ==
  IF f.conf > k.conf THEN [f EXCEPT !.sites = @ \cup {SiteOf(k)} \cup k.sites]
                     ELSE [k EXCEPT !.sites = @ \cup {SiteOf(f)} \cup f.sites]

LineWinner(k, f) ==
  IF f.conf > k.conf
  THEN [f EXCEPT !.sites = {[at |-> SinkLoc(k), via |-> k.via]} \cup k.sites]
  ELSE [k EXCEPT !.sites = @ \cup f.sites]

LEMMA SiteType == \A f \in Finding :
  SiteOf(f) \in Site /\ [at |-> SinkLoc(f), via |-> f.via] \in Site
  BY DEF SiteOf, SinkLoc, Site, Finding

LEMMA WinnerType ==
  ASSUME NEW k \in Finding, NEW f \in Finding
  PROVE  FlowWinner(k, f) \in Finding /\ LineWinner(k, f) \in Finding
<1>1. SiteOf(f) \in Site /\ SiteOf(k) \in Site /\ [at |-> SinkLoc(k), via |-> k.via] \in Site
  BY SiteType
<1>2. f.sites \in SUBSET Site /\ k.sites \in SUBSET Site
  BY DEF Finding
<1>3. \A g \in Finding, T \in SUBSET Site : [g EXCEPT !.sites = T] \in Finding
  BY DEF Finding
<1> QED BY <1>1, <1>2, <1>3 DEF FlowWinner, LineWinner

(* What one step of a collapse leaves: f is in, or some kept finding of    *)
(* the same key has given its place to the winner.                         *)
LEMMA CollapseFlowLeaves ==
  ASSUME kept \in Seq(Finding), NEW f \in Finding
  PROVE  /\ CollapseFlow(f) \in Seq(Finding)
         /\ \/ CollapseFlow(f) = Append(kept, f)
            \/ \E i \in DOMAIN kept :
                 /\ FlowKey(kept[i]) = FlowKey(f)
                 /\ CollapseFlow(f) = [kept EXCEPT ![i] = FlowWinner(kept[i], f)]
<1> DEFINE slots == SlotsOf(FlowKey, f)
<1>1. CASE slots = {}
  BY <1>1, AppendMembers DEF CollapseFlow
<1>2. CASE slots # {}
  <2> DEFINE i == CHOOSE i \in slots : TRUE
  <2>1. i \in slots
    BY <1>2
  <2>2. i \in DOMAIN kept /\ FlowKey(kept[i]) = FlowKey(f)
    BY <2>1 DEF SlotsOf
  <2>3. CollapseFlow(f) = [kept EXCEPT ![i] = FlowWinner(kept[i], f)]
    BY <1>2 DEF CollapseFlow, FlowWinner
  <2> HIDE DEF i, slots
  <2>4. FlowWinner(kept[i], f) \in Finding
    BY <2>2, WinnerType
  <2>5. CollapseFlow(f) \in Seq(Finding)
    BY <2>2, <2>3, <2>4, ReplaceMembers
  <2> QED BY <2>2, <2>3, <2>5, Zenon
<1> QED BY <1>1, <1>2

LEMMA CollapseIdenticalLeaves ==
  ASSUME kept \in Seq(Finding), NEW f \in Finding
  PROVE  /\ CollapseIdentical(f) \in Seq(Finding)
         /\ \/ CollapseIdentical(f) = Append(kept, f)
            \/ \E i \in DOMAIN kept :
                 /\ LineKey(kept[i]) = LineKey(f)
                 /\ CollapseIdentical(f) = [kept EXCEPT ![i] = LineWinner(kept[i], f)]
<1> DEFINE slots == SlotsOf(LineKey, f)
<1>1. CASE slots = {}
  BY <1>1, AppendMembers DEF CollapseIdentical
<1>2. CASE slots # {}
  <2> DEFINE i == CHOOSE i \in slots : TRUE
  <2>1. i \in slots
    BY <1>2
  <2>2. i \in DOMAIN kept /\ LineKey(kept[i]) = LineKey(f)
    BY <2>1 DEF SlotsOf
  <2>3. CollapseIdentical(f) = [kept EXCEPT ![i] = LineWinner(kept[i], f)]
    BY <1>2 DEF CollapseIdentical, LineWinner
  <2> HIDE DEF i, slots
  <2>4. LineWinner(kept[i], f) \in Finding
    BY <2>2, WinnerType
  <2>5. CollapseIdentical(f) \in Seq(Finding)
    BY <2>2, <2>3, <2>4, ReplaceMembers
  <2> QED BY <2>2, <2>3, <2>5, Zenon
<1> QED BY <1>1, <1>2
-----------------------------------------------------------------------------
LEMMA FingerprintType == \A f \in Finding : Fingerprint(f) \in Identity
<1> SUFFICES ASSUME NEW f \in Finding PROVE Fingerprint(f) \in Identity
  OBVIOUS
<1>1. f.rule \in Rule /\ f.entry \in Entry /\ f.file \in File /\ f.fn \in Fn
      /\ f.symbol \in Symbol /\ f.source \in Source /\ f.detail \in Detail
  BY DEF Finding
<1>2. Apart(f) \in SUBSET (Fn \X Detail)
  BY <1>1 DEF Apart
<1> QED BY <1>1, <1>2 DEF Fingerprint, Identity

LEMMA TreeType ==
  ASSUME TypeOK
  PROVE  /\ tree \in TreeState
         /\ tree.flows \in Seq(Finding) /\ tree.others \in Seq(Finding)
<1>1. tree \in TreeState
  BY TreeAssumption DEF TypeOK
<1>2. /\ tree.flows \in Seq({f \in Finding : f.flow})
      /\ tree.others \in Seq({f \in Finding : ~f.flow})
  BY <1>1 DEF TreeState
<1>3. \A S, T : S \subseteq T => \A s \in Seq(S) : s \in Seq(T)
  OBVIOUS
<1> QED BY <1>1, <1>2, <1>3

LEMMA UnanchoredType == \A f \in Finding :
  /\ Unanchored(f) \in Finding
  /\ StandsFor(Unanchored(f), f)
<1> SUFFICES ASSUME NEW f \in Finding
             PROVE  Unanchored(f) \in Finding /\ StandsFor(Unanchored(f), f)
  OBVIOUS
<1>1. (f.anchored /\ f.file \notin tree.unreached) \in BOOLEAN
  OBVIOUS
<1>2. \A b \in BOOLEAN : [f EXCEPT !.anchored = b] \in Finding
  BY DEF Finding
<1>3. Unanchored(f) \in Finding
  BY <1>1, <1>2 DEF Unanchored
<1>4. /\ Unanchored(f).rule = f.rule /\ Unanchored(f).source = f.source
      /\ Unanchored(f).file = f.file /\ Unanchored(f).conf = f.conf
  BY DEF Unanchored, Finding
<1>5. f.conf >= f.conf
  BY DEF Finding
<1> QED BY <1>3, <1>4, <1>5 DEF StandsFor

LEMMA CompletedType ==
  ASSUME TypeOK
  PROVE  /\ Completed \in Seq(Finding)
         /\ \A f \in Members(kept) \cup Members(tree.others) :
              \E k \in Members(Completed) : k = Unanchored(f)
         /\ \A k \in Members(Completed) :
              \E f \in Members(kept) \cup Members(tree.others) : k = Unanchored(f)
<1> DEFINE all == kept \o tree.others
<1>1. kept \in Seq(Finding) /\ tree.others \in Seq(Finding)
  BY TreeType DEF TypeOK
<1>2. /\ all \in Seq(Finding) /\ Len(all) = Len(kept) + Len(tree.others)
      /\ \A i \in 1..Len(kept) : all[i] = kept[i]
      /\ \A i \in 1..Len(tree.others) : all[Len(kept) + i] = tree.others[i]
      /\ Len(kept) \in Nat /\ Len(tree.others) \in Nat
  BY <1>1
<1>3. Completed = [i \in DOMAIN all |-> Unanchored(all[i])]
  BY DEF Completed
<1> HIDE DEF all
<1>4. DOMAIN all = 1..Len(all) /\ \A i \in 1..Len(all) : all[i] \in Finding
  BY <1>2
<1>5. Completed \in [1..Len(all) -> Finding] /\ Len(all) \in Nat
  BY <1>2, <1>3, <1>4, UnanchoredType
<1>6. Completed \in Seq(Finding) /\ DOMAIN Completed = 1..Len(all)
  BY <1>5
<1>7. ASSUME NEW f \in Members(kept) \cup Members(tree.others)
      PROVE  \E i \in 1..Len(all) : all[i] = f
  <2>1. CASE f \in Members(kept)
    <3>1. PICK i \in 1..Len(kept) : f = kept[i]
      BY <1>1, <2>1 DEF Members
    <3>2. i \in 1..Len(all) /\ all[i] = f
      BY <1>2, <3>1
    <3> QED BY <3>2
  <2>2. CASE f \in Members(tree.others)
    <3>1. PICK i \in 1..Len(tree.others) : f = tree.others[i]
      BY <1>1, <2>2 DEF Members
    <3>2. Len(kept) + i \in 1..Len(all) /\ all[Len(kept) + i] = f
      BY <1>2, <3>1
    <3> QED BY <3>2
  <2> QED BY <1>7, <2>1, <2>2
<1>8. ASSUME NEW f \in Members(kept) \cup Members(tree.others)
      PROVE  \E k \in Members(Completed) : k = Unanchored(f)
  <2>1. PICK i \in 1..Len(all) : all[i] = f
    BY <1>7
  <2>2. Completed[i] = Unanchored(f) /\ Completed[i] \in Members(Completed)
    BY <1>3, <1>4, <1>6, <2>1, InMembers DEF Members
  <2> QED BY <2>2
<1>9. ASSUME NEW k \in Members(Completed)
      PROVE  \E f \in Members(kept) \cup Members(tree.others) : k = Unanchored(f)
  <2>1. PICK i \in 1..Len(all) : k = Completed[i]
    BY <1>6 DEF Members
  <2>2. k = Unanchored(all[i])
    BY <1>3, <1>4, <2>1
  <2>3. CASE i \in 1..Len(kept)
    <3>1. all[i] = kept[i] /\ kept[i] \in Members(kept)
      BY <1>1, <1>2, <2>3 DEF Members
    <3> QED BY <2>2, <3>1
  <2>4. CASE i \notin 1..Len(kept)
    <3>1. i - Len(kept) \in 1..Len(tree.others)
      BY <1>2, <2>4
    <3>2. all[i] = tree.others[i - Len(kept)]
      BY <1>2, <3>1
    <3>3. tree.others[i - Len(kept)] \in Members(tree.others)
      BY <1>1, <3>1 DEF Members
    <3> QED BY <2>2, <3>2, <3>3
  <2> QED BY <2>3, <2>4
<1> QED BY <1>6, <1>8, <1>9

LEMMA TypeInit == Init => TypeOK
<1> SUFFICES ASSUME Init PROVE TypeOK
  OBVIOUS
<1>1. Job # {} => job \in Job
  BY DEF Init
<1> QED BY <1>1, EditsAssumption, JobsAssumption DEF Init, TypeOK, Identity

LEMMA TypeStep == TypeOK /\ [Next]_vars => TypeOK'
<1> SUFFICES ASSUME TypeOK, [Next]_vars PROVE TypeOK'
  OBVIOUS
<1> USE DEF TypeOK
<1>1. CASE Edit
  BY <1>1, EditsAssumption DEF Edit, Forget
<1>2. CASE Start
  BY <1>2 DEF Start, Forget
<1>3. CASE Load
  BY <1>3, TreeType DEF Load
<1>4. CASE LoadRefuses
  BY <1>4 DEF LoadRefuses, Ends, Forget
<1>5. CASE CollapseFlowStep
  <2>1. Head(todo) \in Finding /\ Tail(todo) \in Seq(Finding)
    BY <1>5, HeadTail DEF CollapseFlowStep
  <2>2. CollapseFlow(Head(todo)) \in Seq(Finding)
    BY <2>1, CollapseFlowLeaves
  <2> QED BY <1>5, <2>1, <2>2 DEF CollapseFlowStep
<1>6. CASE DeclareBegin
  BY <1>6 DEF DeclareBegin
<1>7. CASE DeclareStep
  <2>1. Head(todo) \in Finding /\ Tail(todo) \in Seq(Finding)
    BY <1>7, HeadTail DEF DeclareStep
  <2>2. Append(kept, Head(todo)) \in Seq(Finding)
    BY <2>1, AppendMembers
  <2> QED BY <1>7, <2>1, <2>2 DEF DeclareStep
<1>8. CASE Complete
  BY <1>8, CompletedType DEF Complete
<1>9. CASE CollapseIdenticalStep
  <2>1. Head(todo) \in Finding /\ Tail(todo) \in Seq(Finding)
    BY <1>9, HeadTail DEF CollapseIdenticalStep
  <2>2. CollapseIdentical(Head(todo)) \in Seq(Finding)
    BY <2>1, CollapseIdenticalLeaves
  <2> QED BY <1>9, <2>1, <2>2 DEF CollapseIdenticalStep
<1>10. CASE Judge
  BY <1>10 DEF Judge, Ends, GateStatus
<1>11. CASE CreateBaseline
  BY <1>11 DEF CreateBaseline
<1>12. CASE WriteBaseline
  <2>1. {Fingerprint(f) : f \in Members(kept)} \subseteq Identity
    BY MembersOfAny, FingerprintType
  <2> QED BY <1>12, <2>1 DEF WriteBaseline, Ends
<1>13. CASE RecordFails
  BY <1>13 DEF RecordFails, Ends, Forget
<1>14. CASE Killed
  BY <1>14 DEF Killed, Ends, Forget
<1>15. CASE UNCHANGED vars
  BY <1>15 DEF vars
<1> QED BY <1>1, <1>2, <1>3, <1>4, <1>5, <1>6, <1>7, <1>8, <1>9, <1>10,
           <1>11, <1>12, <1>13, <1>14, <1>15 DEF Next, RunStep

(* The types of the variables, for any number of findings.                 *)
THEOREM TypeCorrect == Spec => []TypeOK
  BY TypeInit, TypeStep, PTL DEF Spec
-----------------------------------------------------------------------------
(* While flows are consolidated, each is still to come or is answered for  *)
(* by a finding at its own line, or by one that lists its site.  A finding *)
(* that is only at the same line, as AnswersFor allows, would not do: it   *)
(* may lose its place to one at another line, and siteOf then remembers    *)
(* the line it prefers.                                                    *)
Accounts(k, f) ==
  /\ k.rule = f.rule /\ k.entry = f.entry /\ k.source = f.source
  /\ k.file = f.file /\ k.conf >= f.conf
  /\ \/ SinkLoc(k) = SinkLoc(f) /\ SiteOf(k) = SiteOf(f)
     \/ SiteOf(f) \in k.sites

FlowsInv ==
  pc = "flows" => \A f \in FlowsOf(tree) :
                    \/ f \in Members(todo)
                    \/ \E k \in Members(kept) : Accounts(k, f)

LEMMA WinnerAccounts ==
  ASSUME NEW k \in Finding, NEW f \in Finding, FlowKey(k) = FlowKey(f)
  PROVE  /\ Accounts(FlowWinner(k, f), f)
         /\ \A g \in Finding : Accounts(k, g) => Accounts(FlowWinner(k, f), g)
<1> DEFINE w == FlowWinner(k, f)
<1>1. k.rule = f.rule /\ k.entry = f.entry /\ k.source = f.source /\ k.file = f.file
  BY DEF FlowKey
<1>2. k.conf \in 0..2 /\ f.conf \in 0..2 /\ \A g \in Finding : g.conf \in 0..2
  BY DEF Finding
<1>3. CASE f.conf > k.conf
  <2>1. w = [f EXCEPT !.sites = @ \cup {SiteOf(k)} \cup k.sites]
    BY <1>3 DEF FlowWinner
  <2>2. /\ w.rule = f.rule /\ w.entry = f.entry /\ w.source = f.source
        /\ w.file = f.file /\ w.conf = f.conf /\ w.line = f.line
        /\ w.inner = f.inner /\ w.via = f.via
        /\ w.sites = f.sites \cup {SiteOf(k)} \cup k.sites
    BY <2>1 DEF Finding
  <2> HIDE DEF w
  <2>3. SinkLoc(w) = SinkLoc(f) /\ SiteOf(w) = SiteOf(f)
    BY <2>2 DEF SinkLoc, SiteOf
  <2>4. Accounts(w, f)
    BY <1>2, <2>2, <2>3 DEF Accounts
  <2>5. ASSUME NEW g \in Finding, Accounts(k, g) PROVE Accounts(w, g)
    <3>1. SiteOf(g) \in w.sites
      BY <2>2, <2>5 DEF Accounts
    <3> QED BY <1>1, <1>2, <1>3, <2>2, <2>5, <3>1 DEF Accounts
  <2> QED BY <2>4, <2>5 DEF w
<1>4. CASE ~(f.conf > k.conf)
  <2>1. w = [k EXCEPT !.sites = @ \cup {SiteOf(f)} \cup f.sites]
    BY <1>4 DEF FlowWinner
  <2>2. /\ w.rule = k.rule /\ w.entry = k.entry /\ w.source = k.source
        /\ w.file = k.file /\ w.conf = k.conf /\ w.line = k.line
        /\ w.inner = k.inner /\ w.via = k.via
        /\ w.sites = k.sites \cup {SiteOf(f)} \cup f.sites
    BY <2>1 DEF Finding
  <2> HIDE DEF w
  <2>3. SinkLoc(w) = SinkLoc(k) /\ SiteOf(w) = SiteOf(k)
    BY <2>2 DEF SinkLoc, SiteOf
  <2>4. Accounts(w, f)
    BY <1>1, <1>2, <1>4, <2>2 DEF Accounts
  <2>5. \A g \in Finding : Accounts(k, g) => Accounts(w, g)
    BY <2>2, <2>3 DEF Accounts
  <2> QED BY <2>4, <2>5 DEF w
<1> QED BY <1>3, <1>4

LEMMA FlowsStep == TypeOK /\ FlowsInv /\ [Next]_vars => FlowsInv'
<1> SUFFICES ASSUME TypeOK, FlowsInv, [Next]_vars, pc' = "flows"
             PROVE  \A f \in FlowsOf(tree)' :
                      \/ f \in Members(todo)'
                      \/ \E k \in Members(kept)' : Accounts(k, f)
  BY DEF FlowsInv
<1>1. CASE Load
  <2>1. tree' = tree /\ todo' = IF "dataflow" \in tree.lacks THEN <<>> ELSE tree.flows
    BY <1>1 DEF Load
  <2>2. FlowsOf(tree)' = FlowsOf(tree)
    BY <2>1 DEF FlowsOf
  <2>3. FlowsOf(tree) \subseteq Members(todo')
    BY <2>1 DEF FlowsOf, Members
  <2> QED BY <2>2, <2>3 DEF Members
<1>2. CASE CollapseFlowStep
  <2>1. /\ pc = "flows" /\ todo # <<>> /\ tree' = tree
        /\ kept' = CollapseFlow(Head(todo)) /\ todo' = Tail(todo)
    BY <1>2 DEF CollapseFlowStep
  <2> DEFINE h == Head(todo)
  <2>2. h \in Finding /\ Members(todo) = {h} \cup Members(todo')
    BY <2>1, HeadTail DEF TypeOK
  <2>3. kept \in Seq(Finding) /\ Members(kept) \subseteq Finding
    BY MembersOfAny DEF TypeOK
  <2>4. FlowsOf(tree)' = FlowsOf(tree) /\ FlowsOf(tree) \subseteq Finding
    <3>1. FlowsOf(tree) \subseteq Finding
      BY TreeType, MembersOfAny DEF FlowsOf
    <3> QED BY <2>1, <3>1 DEF FlowsOf
  <2>5. kept' = Append(kept, h) \/ \E i \in DOMAIN kept :
            FlowKey(kept[i]) = FlowKey(h) /\ kept' = [kept EXCEPT ![i] = FlowWinner(kept[i], h)]
    BY <2>1, <2>2, <2>3, CollapseFlowLeaves
  <2> HIDE DEF h
  <2>6. /\ \E k \in Members(kept') : Accounts(k, h)
        /\ \A k \in Members(kept), g \in Finding : Accounts(k, g) =>
             \E l \in Members(kept') : Accounts(l, g)
    <3>1. CASE kept' = Append(kept, h)
      <4>1. Members(kept') = Members(kept) \cup {h}
        BY <2>2, <2>3, <3>1, AppendMembers
      <4>2. Accounts(h, h)
        BY <2>2 DEF Accounts, Finding
      <4> QED BY <4>1, <4>2
    <3>2. CASE \E i \in DOMAIN kept : FlowKey(kept[i]) = FlowKey(h)
                  /\ kept' = [kept EXCEPT ![i] = FlowWinner(kept[i], h)]
      <4>1. PICK i \in DOMAIN kept : FlowKey(kept[i]) = FlowKey(h)
                  /\ kept' = [kept EXCEPT ![i] = FlowWinner(kept[i], h)]
        BY <3>2
      <4>2. kept[i] \in Finding
        BY <2>3
      <4>3. FlowWinner(kept[i], h) \in Finding
        BY <2>2, <4>2, WinnerType
      <4>4. /\ FlowWinner(kept[i], h) \in Members(kept')
            /\ \A x \in Members(kept) : x # kept[i] => x \in Members(kept')
        BY <2>3, <4>1, <4>3, ReplaceMembers
      <4>5. /\ Accounts(FlowWinner(kept[i], h), h)
            /\ \A g \in Finding : Accounts(kept[i], g) => Accounts(FlowWinner(kept[i], h), g)
        BY <2>2, <4>1, <4>2, WinnerAccounts
      <4> QED BY <4>4, <4>5
    <3> QED BY <2>5, <3>1, <3>2
  <2>7. ASSUME NEW f \in FlowsOf(tree)
        PROVE  f \in Members(todo') \/ \E k \in Members(kept') : Accounts(k, f)
    <3>1. f \in Members(todo) \/ \E k \in Members(kept) : Accounts(k, f)
      BY <2>1, <2>7 DEF FlowsInv
    <3> QED BY <2>2, <2>4, <2>6, <2>7, <3>1
  <2> QED BY <2>4, <2>7 DEF Members
<1>3. CASE UNCHANGED vars
  BY <1>3 DEF vars, FlowsInv, FlowsOf, Members
<1>4. CASE Edit \/ Start \/ LoadRefuses \/ DeclareBegin \/ DeclareStep \/ Complete
             \/ CollapseIdenticalStep \/ Judge \/ CreateBaseline
             \/ WriteBaseline \/ RecordFails \/ Killed
  <2>1. pc' # "flows"
    BY <1>4 DEF Edit, Start, LoadRefuses, DeclareBegin, DeclareStep, Complete,
                CollapseIdenticalStep, Judge, CreateBaseline, WriteBaseline,
                RecordFails, Killed, Ends
  <2> QED BY <2>1
<1> QED BY <1>1, <1>2, <1>3, <1>4 DEF Next, RunStep

(* However many flows there are and in whatever order they are found, the  *)
(* first consolidation loses no site of any of them.                       *)
THEOREM FlowSitesCorrect == Spec => []FlowSitesKept
<1>1. Init => FlowsInv
  BY DEF Init, FlowsInv
<1>2. TypeOK /\ FlowsInv => FlowSitesKept
  <2> SUFFICES ASSUME TypeOK, FlowsInv, pc = "flows", todo = <<>>,
                      NEW f \in FlowsOf(tree)
               PROVE  \E k \in Members(kept) : AnswersFor(k, f)
    BY DEF FlowSitesKept
  <2>1. f \notin Members(todo)
    BY DEF Members
  <2>2. PICK k \in Members(kept) : Accounts(k, f)
    BY <2>1 DEF FlowsInv
  <2>3. AnswersFor(k, f)
    BY <2>2 DEF Accounts, AnswersFor
  <2> QED BY <2>3
<1> QED BY <1>1, <1>2, TypeInit, TypeStep, FlowsStep, PTL DEF Spec
-----------------------------------------------------------------------------
(* After the first consolidation: what is left of it and what is already   *)
(* through the next loop stand, together, for every undeclared finding.    *)
Standing == Members(todo) \cup Members(kept)

StandingInv ==
  /\ pc = "declare" =>
       \A f \in FlowsOf(tree) : <<f.rule, f.entry>> \notin tree.declared =>
         \E k \in Standing : StandsFor(k, f) /\ k.entry = f.entry
  /\ pc \in {"lines", "write"} =>
       \A f \in Reported(tree) : \E k \in Standing : StandsFor(k, f)
  /\ pc = "write" => todo = <<>>

LEMMA StandsForTransitive ==
  ASSUME NEW f \in Finding, NEW g \in Finding, NEW h \in Finding,
         StandsFor(f, g), StandsFor(g, h)
  PROVE  StandsFor(f, h)
<1>1. f.conf \in 0..2 /\ g.conf \in 0..2 /\ h.conf \in 0..2
  BY DEF Finding
<1>2. f.conf >= h.conf
  BY <1>1 DEF StandsFor
<1> QED BY <1>2 DEF StandsFor

LEMMA ReportedType == TypeOK => Reported(tree) \subseteq Finding
<1> SUFFICES ASSUME TypeOK PROVE Reported(tree) \subseteq Finding
  OBVIOUS
<1>1. Members(tree.flows) \subseteq Finding /\ Members(tree.others) \subseteq Finding
  BY TreeType, MembersOfAny
<1> QED BY <1>1 DEF Reported, FlowsOf

LEMMA LineWinnerStands ==
  ASSUME NEW k \in Finding, NEW f \in Finding, LineKey(k) = LineKey(f)
  PROVE  StandsFor(LineWinner(k, f), k) /\ StandsFor(LineWinner(k, f), f)
<1> DEFINE w == LineWinner(k, f)
<1>1. k.rule = f.rule /\ k.source = f.source /\ k.file = f.file
  BY DEF LineKey, SinkLoc
<1>2. k.conf \in 0..2 /\ f.conf \in 0..2
  BY DEF Finding
<1>3. CASE f.conf > k.conf
  <2>1. w = [f EXCEPT !.sites = {[at |-> SinkLoc(k), via |-> k.via]} \cup k.sites]
    BY <1>3 DEF LineWinner
  <2>2. w.rule = f.rule /\ w.source = f.source /\ w.file = f.file /\ w.conf = f.conf
    BY <2>1 DEF Finding
  <2> HIDE DEF w
  <2>3. StandsFor(w, k) /\ StandsFor(w, f)
    BY <1>1, <1>2, <1>3, <2>2 DEF StandsFor
  <2> QED BY <2>3 DEF w
<1>4. CASE ~(f.conf > k.conf)
  <2>1. w = [k EXCEPT !.sites = @ \cup f.sites]
    BY <1>4 DEF LineWinner
  <2>2. w.rule = k.rule /\ w.source = k.source /\ w.file = k.file /\ w.conf = k.conf
    BY <2>1 DEF Finding
  <2> HIDE DEF w
  <2>3. StandsFor(w, k) /\ StandsFor(w, f)
    BY <1>1, <1>2, <1>4, <2>2 DEF StandsFor
  <2> QED BY <2>3 DEF w
<1> QED BY <1>3, <1>4

LEMMA StandingDeclare ==
  ASSUME TypeOK, FlowsInv, StandingInv, DeclareBegin \/ DeclareStep
  PROVE  StandingInv'
<1>1. pc' = "declare" /\ tree' = tree
  BY DEF DeclareBegin, DeclareStep
<1>2. SUFFICES ASSUME NEW f \in FlowsOf(tree), <<f.rule, f.entry>> \notin tree.declared
               PROVE  \E k \in Standing' : StandsFor(k, f) /\ k.entry = f.entry
  BY <1>1 DEF StandingInv, FlowsOf, StandsFor
<1>3. CASE DeclareBegin
  <2>1. pc = "flows" /\ todo = <<>> /\ todo' = kept
    BY <1>3 DEF DeclareBegin
  <2>2. PICK k \in Members(kept) : Accounts(k, f)
    BY <1>2, <2>1 DEF FlowsInv, Members
  <2>3. k \in Standing'
    BY <2>1, <2>2 DEF Standing, Members
  <2> QED BY <2>2, <2>3 DEF Accounts, StandsFor
<1>4. CASE DeclareStep
  <2>1. /\ pc = "declare" /\ todo # <<>> /\ todo' = Tail(todo)
        /\ kept' = IF Exempt(Head(todo)) THEN kept ELSE Append(kept, Head(todo))
    BY <1>4 DEF DeclareStep
  <2>2. PICK k \in Standing : StandsFor(k, f) /\ k.entry = f.entry
    BY <1>2, <2>1 DEF StandingInv
  <2>3. ~Exempt(k)
    BY <1>2, <2>2 DEF Exempt, StandsFor
  <2>4. Head(todo) \in Finding /\ Members(todo) = {Head(todo)} \cup Members(todo')
    BY <2>1, HeadTail DEF TypeOK
  <2>5. Members(Append(kept, Head(todo))) = Members(kept) \cup {Head(todo)}
    BY <2>4, AppendMembers DEF TypeOK
  <2>6. Members(kept)' = Members(kept') /\ Members(todo)' = Members(todo')
    BY DEF Members
  <2>7. CASE k = Head(todo)
    BY <2>1, <2>2, <2>3, <2>5, <2>6, <2>7 DEF Standing
  <2>8. CASE k \in Members(todo')
    BY <2>2, <2>6, <2>8 DEF Standing
  <2>9. CASE k \in Members(kept)
    BY <2>1, <2>2, <2>5, <2>6, <2>9 DEF Standing
  <2> QED BY <2>2, <2>4, <2>7, <2>8, <2>9 DEF Standing
<1> QED BY <1>3, <1>4

LEMMA StandingComplete ==
  ASSUME TypeOK, StandingInv, Complete
  PROVE  StandingInv'
<1>1. /\ pc = "declare" /\ todo = <<>> /\ pc' = "lines" /\ tree' = tree
      /\ todo' = Completed
  BY DEF Complete
<1>2. Members(todo)' = Members(Completed) /\ Reported(tree)' = Reported(tree)
  BY <1>1 DEF Members, Reported, FlowsOf
<1>3. ASSUME NEW f \in Reported(tree) PROVE \E k \in Standing' : StandsFor(k, f)
  <2>1. f \in Finding
    BY ReportedType
  <2>2. \E g \in Members(kept) \cup Members(tree.others) : StandsFor(g, f)
    <3>1. CASE f \in Members(tree.others)
      BY <2>1, <3>1 DEF StandsFor, Finding
    <3>2. CASE f \in FlowsOf(tree) /\ <<f.rule, f.entry>> \notin tree.declared
      <4>1. PICK k \in Standing : StandsFor(k, f)
        BY <1>1, <3>2 DEF StandingInv
      <4>2. Members(todo) = {}
        BY <1>1 DEF Members
      <4> QED BY <4>1, <4>2 DEF Standing
    <3> QED BY <1>3, <3>1, <3>2 DEF Reported
  <2>3. PICK g \in Members(kept) \cup Members(tree.others) : StandsFor(g, f)
    BY <2>2
  <2>4. g \in Finding
    BY <2>3, TreeType, MembersOfAny DEF TypeOK
  <2>5. Unanchored(g) \in Members(Completed)
    BY <2>3, CompletedType
  <2>6. StandsFor(Unanchored(g), f)
    BY <2>1, <2>3, <2>4, UnanchoredType, StandsForTransitive
  <2> QED BY <1>2, <2>5, <2>6 DEF Standing
<1> QED BY <1>1, <1>2, <1>3 DEF StandingInv, StandsFor

LEMMA StandingIdentical ==
  ASSUME TypeOK, StandingInv, CollapseIdenticalStep
  PROVE  StandingInv'
<1> DEFINE h == Head(todo)
<1>1. /\ pc = "lines" /\ pc' = "lines" /\ todo # <<>> /\ tree' = tree
      /\ kept' = CollapseIdentical(h) /\ todo' = Tail(todo)
  BY DEF CollapseIdenticalStep
<1>2. h \in Finding /\ Members(todo) = {h} \cup Members(todo')
  BY <1>1, HeadTail DEF TypeOK
<1>3. /\ kept \in Seq(Finding) /\ Members(kept) \subseteq Finding
      /\ Members(todo) \subseteq Finding
  BY MembersOfAny DEF TypeOK
<1>4. kept' = Append(kept, h) \/ \E i \in DOMAIN kept :
          LineKey(kept[i]) = LineKey(h) /\ kept' = [kept EXCEPT ![i] = LineWinner(kept[i], h)]
  BY <1>1, <1>2, <1>3, CollapseIdenticalLeaves
<1>5. Members(kept)' = Members(kept') /\ Members(todo)' = Members(todo')
      /\ Reported(tree)' = Reported(tree)
  BY <1>1 DEF Members, Reported, FlowsOf
<1> HIDE DEF h
<1>6. \A k \in Members(kept) \cup {h} : \E l \in Members(kept') :
        l \in Finding /\ StandsFor(l, k)
  <2>1. \A k \in Finding : StandsFor(k, k)
    BY DEF StandsFor, Finding
  <2>2. CASE kept' = Append(kept, h)
    <3>1. Members(kept') = Members(kept) \cup {h}
      BY <1>2, <1>3, <2>2, AppendMembers
    <3> QED BY <1>2, <1>3, <2>1, <3>1
  <2>3. CASE \E i \in DOMAIN kept : LineKey(kept[i]) = LineKey(h)
                /\ kept' = [kept EXCEPT ![i] = LineWinner(kept[i], h)]
    <3>1. PICK i \in DOMAIN kept : LineKey(kept[i]) = LineKey(h)
                /\ kept' = [kept EXCEPT ![i] = LineWinner(kept[i], h)]
      BY <2>3
    <3>2. kept[i] \in Finding
      BY <1>3
    <3>3. LineWinner(kept[i], h) \in Finding
      BY <1>2, <3>2, WinnerType
    <3>4. /\ LineWinner(kept[i], h) \in Members(kept')
          /\ \A x \in Members(kept) : x # kept[i] => x \in Members(kept')
      BY <1>3, <3>1, <3>3, ReplaceMembers
    <3>5. StandsFor(LineWinner(kept[i], h), kept[i]) /\ StandsFor(LineWinner(kept[i], h), h)
      BY <1>2, <3>1, <3>2, LineWinnerStands
    <3> QED BY <1>3, <2>1, <3>3, <3>4, <3>5
  <2> QED BY <1>4, <2>2, <2>3
<1>7. ASSUME NEW f \in Reported(tree) PROVE \E k \in Standing' : StandsFor(k, f)
  <2>1. f \in Finding
    BY ReportedType
  <2>2. PICK k \in Standing : StandsFor(k, f)
    BY <1>1 DEF StandingInv
  <2>3. k \in Finding
    BY <1>3, <2>2 DEF Standing
  <2>4. CASE k \in Members(todo')
    BY <1>5, <2>2, <2>4 DEF Standing
  <2>5. CASE k \in Members(kept) \cup {h}
    <3>1. PICK l \in Members(kept') : l \in Finding /\ StandsFor(l, k)
      BY <1>6, <2>5
    <3>2. StandsFor(l, f)
      BY <2>1, <2>2, <2>3, <3>1, StandsForTransitive
    <3> QED BY <1>5, <3>1, <3>2 DEF Standing
  <2> QED BY <1>2, <2>2, <2>4, <2>5 DEF Standing
<1> QED BY <1>1, <1>5, <1>7 DEF StandingInv, StandsFor

LEMMA StandingStep ==
  TypeOK /\ FlowsInv /\ StandingInv /\ [Next]_vars => StandingInv'
<1> SUFFICES ASSUME TypeOK, FlowsInv, StandingInv, [Next]_vars PROVE StandingInv'
  OBVIOUS
<1>1. CASE DeclareBegin \/ DeclareStep
  BY <1>1, StandingDeclare
<1>2. CASE Complete
  BY <1>2, StandingComplete
<1>3. CASE CollapseIdenticalStep
  BY <1>3, StandingIdentical
<1>4. CASE CreateBaseline \/ UNCHANGED vars
  BY <1>4 DEF CreateBaseline, vars, StandingInv, Standing, Members, Reported, FlowsOf,
              StandsFor
<1>5. CASE Edit \/ Start \/ Load \/ LoadRefuses \/ CollapseFlowStep \/ Judge
             \/ WriteBaseline \/ RecordFails \/ Killed
  <2>1. pc' \notin {"declare", "lines", "write"}
    BY <1>5 DEF Edit, Start, Load, LoadRefuses, CollapseFlowStep, Judge,
                WriteBaseline, RecordFails, Killed, Ends
  <2> QED BY <2>1 DEF StandingInv
<1> QED BY <1>1, <1>2, <1>3, <1>4, <1>5 DEF Next, RunStep

(* Both consolidations and the declarations between them leave a finding   *)
(* as confident for every rule, value and file that had one.               *)
THEOREM ConfidenceCorrect == Spec => []ConfidenceKept
<1>1. Init => FlowsInv /\ StandingInv
  BY DEF Init, FlowsInv, StandingInv
<1>2. StandingInv => ConfidenceKept
  <2> SUFFICES ASSUME StandingInv, pc = "lines", todo = <<>>, NEW f \in Reported(tree)
               PROVE  \E k \in Members(kept) : StandsFor(k, f)
    BY DEF ConfidenceKept, Consolidated
  <2>1. PICK k \in Standing : StandsFor(k, f)
    BY DEF StandingInv
  <2>2. Members(todo) = {}
    BY DEF Members
  <2> QED BY <2>1, <2>2 DEF Standing
<1> QED BY <1>1, <1>2, TypeInit, TypeStep, FlowsStep, StandingStep, PTL DEF Spec
-----------------------------------------------------------------------------
(* From Load to the verdict the baseline in memory is the file on disk,    *)
(* and only a run that records comes to write it.                          *)
BaselineInv ==
  /\ VerdictIsEarned
  /\ pc = "write" => job.write /\ disk.state = "torn"
  /\ pc \in {"flows", "declare", "lines"} =>
       /\ job.baseline => disk.state = "whole" /\ base = disk.prints
       /\ ~ job.baseline => base = {}

LEMMA BaselineStep == BaselineInv /\ [Next]_vars => BaselineInv'
<1> SUFFICES ASSUME BaselineInv, [Next]_vars PROVE BaselineInv'
  OBVIOUS
<1> USE DEF BaselineInv, VerdictIsEarned, Verdict
<1>1. CASE Edit \/ Start
  BY <1>1 DEF Edit, Start
<1>2. CASE Load
  BY <1>2 DEF Load
<1>3. CASE LoadRefuses \/ RecordFails \/ Killed
  BY <1>3 DEF LoadRefuses, RecordFails, Killed, Ends
<1>4. CASE CollapseFlowStep \/ DeclareBegin \/ DeclareStep \/ Complete \/ CollapseIdenticalStep
  BY <1>4 DEF CollapseFlowStep, DeclareBegin, DeclareStep, Complete, CollapseIdenticalStep
<1>5. CASE Judge
  <2>1. tree.lacks # {} => exit' = "notApplicable"
    BY <1>5 DEF Judge, Ends
  <2> QED BY <1>5, <2>1 DEF Judge, Ends
<1>6. CASE CreateBaseline \/ WriteBaseline
  BY <1>6 DEF CreateBaseline, WriteBaseline, Ends
<1>7. CASE UNCHANGED vars
  BY <1>7 DEF vars
<1> QED BY <1>1, <1>2, <1>3, <1>4, <1>5, <1>6, <1>7 DEF Next, RunStep

(* No history of edits, recordings and kills leads to a verdict on a       *)
(* baseline no run finished writing, or on an analysis that did not run.   *)
THEOREM VerdictCorrect == Spec => []VerdictIsEarned
<1>1. Init => BaselineInv
  BY DEF Init, BaselineInv, VerdictIsEarned, Verdict
<1>2. BaselineInv => VerdictIsEarned
  BY DEF BaselineInv
<1> QED BY <1>1, <1>2, BaselineStep, PTL DEF Spec
-----------------------------------------------------------------------------
(* Recorded code is quiet.  What a run makes of a tree is a deterministic  *)
(* function of it, which the state does not keep for the run that recorded *)
(* the baseline.  The invariant says instead that the steps it took exist: *)
(* a sequence of configurations that begins with the findings of the tree  *)
(* and ends with what was kept.  Two such sequences, over trees that are   *)
(* the same up to lines, are the same up to lines at every position.       *)
Config == [ph : {"flows", "declare", "lines"}, todo : Seq(Finding), kept : Seq(Finding)]

At(ph, t, k) == [ph |-> ph, todo |-> t, kept |-> k]

FlowSlots(k, f) == {i \in DOMAIN k : FlowKey(k[i]) = FlowKey(f)}
LineSlots(k, f) == {i \in DOMAIN k : LineKey(k[i]) = LineKey(f)}

PutFlow(k, f) ==
  IF FlowSlots(k, f) = {} THEN Append(k, f)
  ELSE LET i == CHOOSE i \in FlowSlots(k, f) : TRUE
       IN  [k EXCEPT ![i] = FlowWinner(k[i], f)]

PutLine(k, f) ==
  IF LineSlots(k, f) = {} THEN Append(k, f)
  ELSE LET i == CHOOSE i \in LineSlots(k, f) : TRUE
       IN  [k EXCEPT ![i] = LineWinner(k[i], f)]

UnanchoredIn(t, f) == [f EXCEPT !.anchored = @ /\ f.file \notin t.unreached]
CompletedIn(t, k)  == [i \in DOMAIN (k \o t.others) |-> UnanchoredIn(t, (k \o t.others)[i])]

Begin(t) == At("flows", IF "dataflow" \in t.lacks THEN <<>> ELSE t.flows, <<>>)

Takes(t, c, d) ==
  \/ /\ c.ph = "flows" /\ c.todo # <<>>
     /\ d = At("flows", Tail(c.todo), PutFlow(c.kept, Head(c.todo)))
  \/ c.ph = "flows" /\ c.todo = <<>> /\ d = At("declare", c.kept, <<>>)
  \/ /\ c.ph = "declare" /\ c.todo # <<>>
     /\ d = At("declare", Tail(c.todo),
               IF <<Head(c.todo).rule, Head(c.todo).entry>> \in t.declared
               THEN c.kept ELSE Append(c.kept, Head(c.todo)))
  \/ c.ph = "declare" /\ c.todo = <<>> /\ d = At("lines", CompletedIn(t, c.kept), <<>>)
  \/ /\ c.ph = "lines" /\ c.todo # <<>>
     /\ d = At("lines", Tail(c.todo), PutLine(c.kept, Head(c.todo)))

IsTrace(t, n, T) ==
  /\ T \in [0 .. n -> Config] /\ T[0] = Begin(t)
  /\ \A i \in 0 .. n - 1 : Takes(t, T[i], T[i + 1])

Comes(t, c) == \E n \in Nat : \E T \in [0 .. n -> Config] : IsTrace(t, n, T) /\ T[n] = c

LEMMA ComesOn ==
  ASSUME NEW t, NEW c, NEW d \in Config, Comes(t, c), Takes(t, c, d)
  PROVE  Comes(t, d)
<1>. PICK n \in Nat : \E T \in [0 .. n -> Config] : IsTrace(t, n, T) /\ T[n] = c
  BY DEF Comes
<1>1. PICK T \in [0 .. n -> Config] : IsTrace(t, n, T) /\ T[n] = c
  OBVIOUS
<1>. DEFINE U == [i \in 0 .. n + 1 |-> IF i = n + 1 THEN d ELSE T[i]]
<1>2. /\ U \in [0 .. n + 1 -> Config] /\ U[n + 1] = d
      /\ \A i \in 0 .. n : U[i] = T[i]
  OBVIOUS
<1>. HIDE DEF U
<1>3. U[0] = Begin(t)
  BY <1>1, <1>2 DEF IsTrace
<1>4. ASSUME NEW i \in 0 .. (n + 1) - 1 PROVE Takes(t, U[i], U[i + 1])
  <2>1. CASE i = n
    BY <2>1, <1>1, <1>2
  <2>2. CASE i # n
    <3>1. i \in 0 .. n - 1 /\ i \in 0 .. n /\ i + 1 \in 0 .. n
      BY <2>2
    <3>. QED
      BY <3>1, <1>1, <1>2 DEF IsTrace
  <2>. QED
    BY <2>1, <2>2
<1>5. IsTrace(t, n + 1, U)
  BY <1>2, <1>3, <1>4 DEF IsTrace
<1>. QED
  BY <1>2, <1>5 DEF Comes

LEMMA ComesToBegin ==
  ASSUME NEW t, Begin(t) \in Config
  PROVE  Comes(t, Begin(t))
<1>. DEFINE T == [i \in 0 .. 0 |-> Begin(t)]
<1>1. T \in [0 .. 0 -> Config] /\ T[0] = Begin(t) /\ \A i \in 0 .. 0 - 1 : FALSE
  OBVIOUS
<1>2. IsTrace(t, 0, T)
  BY <1>1 DEF IsTrace
<1>. QED
  BY <1>1, <1>2 DEF Comes

(* The actions take those steps.                                           *)
LEMMA ActionsPut ==
  ASSUME NEW f
  PROVE  /\ CollapseFlow(f) = PutFlow(kept, f)
         /\ CollapseIdentical(f) = PutLine(kept, f)
         /\ Unanchored(f) = UnanchoredIn(tree, f)
         /\ Completed = CompletedIn(tree, kept)
<1>1. SlotsOf(FlowKey, f) = FlowSlots(kept, f) /\ SlotsOf(LineKey, f) = LineSlots(kept, f)
  BY DEF SlotsOf, FlowSlots, LineSlots
<1>2. CollapseFlow(f) = PutFlow(kept, f)
  BY <1>1 DEF CollapseFlow, PutFlow, FlowWinner
<1>3. CollapseIdentical(f) = PutLine(kept, f)
  BY <1>1 DEF CollapseIdentical, PutLine, LineWinner
<1>4. \A g : Unanchored(g) = UnanchoredIn(tree, g)
  BY DEF Unanchored, UnanchoredIn
<1>5. Completed = CompletedIn(tree, kept)
  BY <1>4 DEF Completed, CompletedIn
<1>. QED
  BY <1>2, <1>3, <1>4, <1>5

LEMMA ConfigType ==
  ASSUME NEW ph \in {"flows", "declare", "lines"}, NEW t \in Seq(Finding), NEW k \in Seq(Finding)
  PROVE  /\ At(ph, t, k) \in Config
         /\ At(ph, t, k).ph = ph /\ At(ph, t, k).todo = t /\ At(ph, t, k).kept = k
BY DEF At, Config

(* Where a run is, how it got there; what a baseline holds, how that was   *)
(* come to; and a run that fails does so for a finding or an expectation.  *)
HistoryInv ==
  /\ pc \in {"flows", "declare", "lines"} => Comes(tree, At(pc, todo, kept))
  /\ pc = "load" => kept = <<>>
  /\ pc = "write" \/ exit = "gating" => Comes(tree, At("lines", <<>>, kept))
  /\ exit = "gating" => pc = "done" /\ ~ job.write /\ (job.failOn = "gating" => Gating)
  /\ \A t \in recorded : \E k \in Seq(Finding) :
       Comes(t, At("lines", <<>>, k)) /\ disk.prints = {Fingerprint(f) : f \in Members(k)}

(* The steps between Load and the verdict.                                 *)
LEMMA HistoryOfRun ==
  ASSUME TypeOK, HistoryInv,
         CollapseFlowStep \/ DeclareBegin \/ DeclareStep \/ Complete \/ CollapseIdenticalStep
  PROVE  /\ pc' \in {"flows", "declare", "lines"}
         /\ tree' = tree /\ recorded' = recorded /\ disk' = disk /\ exit' = exit
         /\ Comes(tree, At(pc', todo', kept'))
<1>0. /\ tree' = tree /\ recorded' = recorded /\ disk' = disk /\ exit' = exit
      /\ pc' \in {"flows", "declare", "lines"} /\ pc \in {"flows", "declare", "lines"}
      /\ Comes(tree, At(pc, todo, kept))
  BY DEF CollapseFlowStep, DeclareBegin, DeclareStep, Complete, CollapseIdenticalStep, HistoryInv
<1>1. todo \in Seq(Finding) /\ kept \in Seq(Finding)
  BY DEF TypeOK
<1>2. /\ At(pc, todo, kept).ph = pc /\ At(pc, todo, kept).todo = todo
      /\ At(pc, todo, kept).kept = kept
  BY <1>0, <1>1, ConfigType
<1>3. TypeOK'
  BY TypeStep DEF Next, RunStep
<1>4. At(pc', todo', kept') \in Config
  BY <1>0, <1>3, ConfigType DEF TypeOK
<1>5. Takes(tree, At(pc, todo, kept), At(pc', todo', kept'))
  <2>1. CASE CollapseFlowStep
    BY <2>1, <1>2, ActionsPut DEF CollapseFlowStep, Takes
  <2>2. CASE DeclareBegin
    BY <2>2, <1>2 DEF DeclareBegin, Takes
  <2>3. CASE DeclareStep
    BY <2>3, <1>2 DEF DeclareStep, Takes, Exempt
  <2>4. CASE Complete
    BY <2>4, <1>2, ActionsPut DEF Complete, Takes
  <2>5. CASE CollapseIdenticalStep
    BY <2>5, <1>2, ActionsPut DEF CollapseIdenticalStep, Takes
  <2>. QED
    BY <2>1, <2>2, <2>3, <2>4, <2>5
<1>. QED
  BY <1>0, <1>4, <1>5, ComesOn

LEMMA HistoryStep == TypeOK /\ HistoryInv /\ [Next]_vars => HistoryInv'
<1>. SUFFICES ASSUME TypeOK, HistoryInv, [Next]_vars PROVE HistoryInv'
  OBVIOUS
<1>1. CASE Edit \/ Start
  BY <1>1 DEF Edit, Start, Forget, HistoryInv
<1>2. CASE Load
  <2>1. /\ tree' = tree /\ recorded' = recorded /\ disk' = disk /\ exit' = exit
        /\ pc' = "flows" /\ kept' = kept /\ pc = "load"
        /\ todo' = IF "dataflow" \in tree.lacks THEN <<>> ELSE tree.flows
    BY <1>2 DEF Load
  <2>2. kept = <<>> /\ exit # "gating"
    BY <2>1 DEF HistoryInv
  <2>3. At(pc', todo', kept') = Begin(tree)
    BY <2>1, <2>2 DEF Begin
  <2>4. TypeOK'
    BY <1>2, TypeStep DEF Next, RunStep
  <2>5. At(pc', todo', kept') \in Config
    BY <2>1, <2>4, ConfigType DEF TypeOK
  <2>6. Comes(tree, At(pc', todo', kept'))
    BY <2>3, <2>5, ComesToBegin
  <2>. QED
    BY <2>1, <2>2, <2>6 DEF HistoryInv
<1>3. CASE LoadRefuses \/ RecordFails \/ Killed
  BY <1>3 DEF LoadRefuses, RecordFails, Killed, Ends, HistoryInv
<1>4. CASE CollapseFlowStep \/ DeclareBegin \/ DeclareStep \/ Complete \/ CollapseIdenticalStep
  <2>1. pc # "done"
    BY <1>4 DEF CollapseFlowStep, DeclareBegin, DeclareStep, Complete, CollapseIdenticalStep
  <2>. QED
    BY <1>4, <2>1, HistoryOfRun DEF HistoryInv
<1>5. CASE Judge
  <2>1. exit' = "gating" => (job.failOn = "gating" => Gating)
    BY <1>5 DEF Judge, Ends, GateStatus
  <2>2. Gating' <=> Gating
    BY <1>5 DEF Judge, Ends, Gating, ExpectationGates, IsNew, InScope, Members
  <2>. QED
    BY <1>5, <2>1, <2>2 DEF Judge, Ends, HistoryInv
<1>6. CASE CreateBaseline
  BY <1>6 DEF CreateBaseline, HistoryInv
<1>7. CASE WriteBaseline
  <2>1. kept \in Seq(Finding) /\ Comes(tree, At("lines", <<>>, kept))
    BY <1>7 DEF WriteBaseline, HistoryInv, TypeOK
  <2>. QED
    BY <1>7, <2>1 DEF WriteBaseline, Ends, HistoryInv
<1>8. CASE UNCHANGED vars
  <2>1. Gating' <=> Gating
    BY <1>8 DEF vars, Gating, ExpectationGates, IsNew, InScope, Members
  <2>. QED
    BY <1>8, <2>1 DEF vars, HistoryInv
<1>. QED
  BY <1>1, <1>2, <1>3, <1>4, <1>5, <1>6, <1>7, <1>8 DEF Next, RunStep

LEMMA HistoryInit == Init => HistoryInv
BY DEF Init, HistoryInv

(* Two findings, two sequences of findings, two configurations that differ *)
(* in where the lines are: m says where each has moved to.                 *)
OneToOne(m) == m \in [Line -> Line] /\ \A a, b \in Line : m[a] = m[b] => a = b

MovedTo(m, f, g) ==
  /\ g.flow = f.flow /\ g.rule = f.rule /\ g.entry = f.entry /\ g.file = f.file
  /\ g.fn = f.fn /\ g.symbol = f.symbol /\ g.source = f.source /\ g.detail = f.detail
  /\ g.path = f.path /\ g.conf = f.conf /\ g.line = m[f.line]

MovedSeq(m, s, t) ==
  /\ s \in Seq(Finding) /\ t \in Seq(Finding) /\ Len(t) = Len(s)
  /\ \A i \in 1 .. Len(s) : MovedTo(m, s[i], t[i])

Alike(m, c, d) == d.ph = c.ph /\ MovedSeq(m, c.todo, d.todo) /\ MovedSeq(m, c.kept, d.kept)

LEMMA KeysMoved ==
  ASSUME NEW m, OneToOne(m),
         NEW f \in Finding, NEW g \in Finding, MovedTo(m, f, g),
         NEW f2 \in Finding, NEW g2 \in Finding, MovedTo(m, f2, g2)
  PROVE  /\ FlowKey(f) = FlowKey(f2) <=> FlowKey(g) = FlowKey(g2)
         /\ LineKey(f) = LineKey(f2) <=> LineKey(g) = LineKey(g2)
         /\ Fingerprint(f) = Fingerprint(g)
<1>1. f.line \in Line /\ f2.line \in Line
  BY DEF Finding
<1>2. f.line = f2.line <=> g.line = g2.line
  BY <1>1 DEF OneToOne, MovedTo
<1>3. FlowKey(f) = FlowKey(g) /\ FlowKey(f2) = FlowKey(g2)
  BY DEF MovedTo, FlowKey
<1>4. LineKey(f) = LineKey(f2) <=> LineKey(g) = LineKey(g2)
  BY <1>2 DEF MovedTo, LineKey, SinkLoc
<1>5. Fingerprint(f) = Fingerprint(g)
  BY DEF MovedTo, Fingerprint, Apart
<1>. QED
  BY <1>3, <1>4, <1>5

LEMMA MovedAppend ==
  ASSUME NEW m, NEW s, NEW t, MovedSeq(m, s, t),
         NEW f \in Finding, NEW g \in Finding, MovedTo(m, f, g)
  PROVE  MovedSeq(m, Append(s, f), Append(t, g))
BY DEF MovedSeq

LEMMA MovedTail ==
  ASSUME NEW m, NEW s, NEW t, MovedSeq(m, s, t)
  PROVE  /\ s = <<>> <=> t = <<>>
         /\ s # <<>> => /\ MovedSeq(m, Tail(s), Tail(t))
                        /\ MovedTo(m, Head(s), Head(t))
                        /\ Head(s) \in Finding /\ Head(t) \in Finding
BY DEF MovedSeq

LEMMA MovedReplace ==
  ASSUME NEW m, NEW s, NEW t, MovedSeq(m, s, t), NEW i \in 1 .. Len(s),
         NEW f \in Finding, NEW g \in Finding, MovedTo(m, f, g)
  PROVE  MovedSeq(m, [s EXCEPT ![i] = f], [t EXCEPT ![i] = g])
BY DEF MovedSeq

LEMMA MovedConcat ==
  ASSUME NEW m, NEW s, NEW t, MovedSeq(m, s, t), NEW v, NEW w, MovedSeq(m, v, w)
  PROVE  MovedSeq(m, s \o v, t \o w)
<1>1. /\ s \o v \in Seq(Finding) /\ t \o w \in Seq(Finding)
      /\ Len(s \o v) = Len(s) + Len(v) /\ Len(t \o w) = Len(s) + Len(v)
  BY DEF MovedSeq
<1>2. ASSUME NEW i \in 1 .. Len(s \o v) PROVE MovedTo(m, (s \o v)[i], (t \o w)[i])
  <2>1. CASE i <= Len(s)
    <3>1. (s \o v)[i] = s[i] /\ (t \o w)[i] = t[i] /\ i \in 1 .. Len(s)
      BY <2>1, <1>1 DEF MovedSeq
    <3>. QED
      BY <3>1 DEF MovedSeq
  <2>2. CASE i > Len(s)
    <3>1. /\ (s \o v)[i] = v[i - Len(s)] /\ (t \o w)[i] = w[i - Len(s)]
          /\ i - Len(s) \in 1 .. Len(v)
      BY <2>2, <1>1 DEF MovedSeq
    <3>. QED
      BY <3>1 DEF MovedSeq
  <2>. QED
    BY <2>1, <2>2, <1>1 DEF MovedSeq
<1>. QED
  BY <1>1, <1>2 DEF MovedSeq

LEMMA MovedWinners ==
  ASSUME NEW m, NEW k \in Finding, NEW l \in Finding, MovedTo(m, k, l),
         NEW f \in Finding, NEW g \in Finding, MovedTo(m, f, g)
  PROVE  /\ MovedTo(m, FlowWinner(k, f), FlowWinner(l, g))
         /\ MovedTo(m, LineWinner(k, f), LineWinner(l, g))
BY DEF MovedTo, FlowWinner, LineWinner, Finding

(* Both collapses choose the same place, as the same places share a key.   *)
LEMMA MovedPut ==
  ASSUME NEW m, OneToOne(m), NEW k, NEW l, MovedSeq(m, k, l),
         NEW f \in Finding, NEW g \in Finding, MovedTo(m, f, g)
  PROVE  /\ MovedSeq(m, PutFlow(k, f), PutFlow(l, g))
         /\ MovedSeq(m, PutLine(k, f), PutLine(l, g))
<1>1. /\ DOMAIN k = DOMAIN l /\ DOMAIN k = 1 .. Len(k)
      /\ \A i \in DOMAIN k : k[i] \in Finding /\ l[i] \in Finding /\ MovedTo(m, k[i], l[i])
  BY DEF MovedSeq
<1>2. FlowSlots(k, f) = FlowSlots(l, g) /\ LineSlots(k, f) = LineSlots(l, g)
  BY <1>1, KeysMoved DEF FlowSlots, LineSlots
<1>3. FlowSlots(k, f) \subseteq DOMAIN k /\ LineSlots(k, f) \subseteq DOMAIN k
  BY DEF FlowSlots, LineSlots
<1>4. MovedSeq(m, PutFlow(k, f), PutFlow(l, g))
  <2>. DEFINE i == CHOOSE i \in FlowSlots(k, f) : TRUE
  <2>1. CASE FlowSlots(k, f) = {}
    BY <2>1, <1>2, MovedAppend DEF PutFlow
  <2>2. CASE FlowSlots(k, f) # {}
    <3>1. i \in DOMAIN k
      BY <2>2, <1>3
    <3>2. /\ PutFlow(k, f) = [k EXCEPT ![i] = FlowWinner(k[i], f)]
          /\ PutFlow(l, g) = [l EXCEPT ![i] = FlowWinner(l[i], g)]
      BY <2>2, <1>2 DEF PutFlow
    <3>. HIDE DEF i
    <3>3. /\ i \in 1 .. Len(k)
          /\ k[i] \in Finding /\ l[i] \in Finding /\ MovedTo(m, k[i], l[i])
      BY <1>1, <3>1
    <3>4. /\ FlowWinner(k[i], f) \in Finding /\ FlowWinner(l[i], g) \in Finding
          /\ MovedTo(m, FlowWinner(k[i], f), FlowWinner(l[i], g))
      BY <3>3, MovedWinners, WinnerType
    <3>5. \A p, q \in Finding :
            MovedTo(m, p, q) => MovedSeq(m, [k EXCEPT ![i] = p], [l EXCEPT ![i] = q])
      BY <3>3, MovedReplace
    <3>6. MovedSeq(m, [k EXCEPT ![i] = FlowWinner(k[i], f)],
                      [l EXCEPT ![i] = FlowWinner(l[i], g)])
      BY <3>4, <3>5
    <3>. QED
      BY <3>2, <3>6
  <2>. QED
    BY <2>1, <2>2
<1>5. MovedSeq(m, PutLine(k, f), PutLine(l, g))
  <2>. DEFINE i == CHOOSE i \in LineSlots(k, f) : TRUE
  <2>1. CASE LineSlots(k, f) = {}
    BY <2>1, <1>2, MovedAppend DEF PutLine
  <2>2. CASE LineSlots(k, f) # {}
    <3>1. i \in DOMAIN k
      BY <2>2, <1>3
    <3>2. /\ PutLine(k, f) = [k EXCEPT ![i] = LineWinner(k[i], f)]
          /\ PutLine(l, g) = [l EXCEPT ![i] = LineWinner(l[i], g)]
      BY <2>2, <1>2 DEF PutLine
    <3>. HIDE DEF i
    <3>3. /\ i \in 1 .. Len(k)
          /\ k[i] \in Finding /\ l[i] \in Finding /\ MovedTo(m, k[i], l[i])
      BY <1>1, <3>1
    <3>4. /\ LineWinner(k[i], f) \in Finding /\ LineWinner(l[i], g) \in Finding
          /\ MovedTo(m, LineWinner(k[i], f), LineWinner(l[i], g))
      BY <3>3, MovedWinners, WinnerType
    <3>5. \A p, q \in Finding :
            MovedTo(m, p, q) => MovedSeq(m, [k EXCEPT ![i] = p], [l EXCEPT ![i] = q])
      BY <3>3, MovedReplace
    <3>6. MovedSeq(m, [k EXCEPT ![i] = LineWinner(k[i], f)],
                      [l EXCEPT ![i] = LineWinner(l[i], g)])
      BY <3>4, <3>5
    <3>. QED
      BY <3>2, <3>6
  <2>. QED
    BY <2>1, <2>2
<1>. QED
  BY <1>4, <1>5

(* Two trees that are the same but for where m says the lines are.         *)
TreesAlike(m, t, u) ==
  /\ MovedSeq(m, t.flows, u.flows) /\ MovedSeq(m, t.others, u.others)
  /\ u.declared = t.declared /\ u.unreached = t.unreached /\ u.lacks = t.lacks

LEMMA MovedCompleted ==
  ASSUME NEW m, NEW t, NEW u, TreesAlike(m, t, u), NEW k, NEW l, MovedSeq(m, k, l)
  PROVE  MovedSeq(m, CompletedIn(t, k), CompletedIn(u, l))
<1>. DEFINE a == k \o t.others
            b == l \o u.others
<1>1. /\ a \in Seq(Finding) /\ b \in Seq(Finding) /\ Len(a) = Len(b)
      /\ \A i \in 1 .. Len(a) : MovedTo(m, a[i], b[i])
  <2>1. MovedSeq(m, a, b)
    BY MovedConcat DEF TreesAlike
  <2>. QED
    BY <2>1 DEF MovedSeq
<1>2. /\ CompletedIn(t, k) = [i \in DOMAIN a |-> UnanchoredIn(t, a[i])]
      /\ CompletedIn(u, l) = [i \in DOMAIN b |-> UnanchoredIn(u, b[i])]
  BY DEF CompletedIn
<1>. HIDE DEF a, b
<1>3. \A f \in Finding : UnanchoredIn(t, f) \in Finding /\ UnanchoredIn(u, f) \in Finding
  BY DEF UnanchoredIn, Finding
<1>4. ASSUME NEW f \in Finding, NEW g \in Finding, MovedTo(m, f, g)
      PROVE  MovedTo(m, UnanchoredIn(t, f), UnanchoredIn(u, g))
  BY <1>4 DEF MovedTo, UnanchoredIn, Finding
<1>5. DOMAIN a = 1 .. Len(a) /\ DOMAIN b = 1 .. Len(a)
  BY <1>1
<1>6. \A i \in 1 .. Len(a) : a[i] \in Finding /\ b[i] \in Finding
  BY <1>1
<1>7. /\ CompletedIn(t, k) \in Seq(Finding) /\ Len(CompletedIn(t, k)) = Len(a)
      /\ CompletedIn(u, l) \in Seq(Finding) /\ Len(CompletedIn(u, l)) = Len(a)
  BY <1>1, <1>2, <1>3, <1>5, <1>6
<1>8. \A i \in 1 .. Len(a) : MovedTo(m, CompletedIn(t, k)[i], CompletedIn(u, l)[i])
  BY <1>1, <1>2, <1>4, <1>5, <1>6
<1>. QED
  BY <1>7, <1>8 DEF MovedSeq

LEMMA TakesAlike ==
  ASSUME NEW m, OneToOne(m), NEW t, NEW u, TreesAlike(m, t, u),
         NEW c, NEW d, Alike(m, c, d), NEW c2, NEW d2, Takes(t, c, c2), Takes(u, d, d2)
  PROVE  Alike(m, c2, d2)
<1>1. /\ d.ph = c.ph /\ MovedSeq(m, c.todo, d.todo) /\ MovedSeq(m, c.kept, d.kept)
      /\ c.todo = <<>> <=> d.todo = <<>>
  BY MovedTail DEF Alike
<1>2. MovedSeq(m, <<>>, <<>>)
  BY DEF MovedSeq
<1>3. CASE c.ph = "flows" /\ c.todo # <<>>
  <2>1. /\ c2 = At("flows", Tail(c.todo), PutFlow(c.kept, Head(c.todo)))
        /\ d2 = At("flows", Tail(d.todo), PutFlow(d.kept, Head(d.todo)))
    BY <1>1, <1>3 DEF Takes
  <2>2. /\ MovedSeq(m, Tail(c.todo), Tail(d.todo))
        /\ MovedSeq(m, PutFlow(c.kept, Head(c.todo)), PutFlow(d.kept, Head(d.todo)))
    BY <1>1, <1>3, MovedTail, MovedPut
  <2>. QED
    BY <2>1, <2>2 DEF Alike, At
<1>4. CASE c.ph = "flows" /\ c.todo = <<>>
  BY <1>1, <1>2, <1>4 DEF Takes, Alike, At
<1>5. CASE c.ph = "declare" /\ c.todo # <<>>
  <2>1. /\ c2 = At("declare", Tail(c.todo),
                   IF <<Head(c.todo).rule, Head(c.todo).entry>> \in t.declared
                   THEN c.kept ELSE Append(c.kept, Head(c.todo)))
        /\ d2 = At("declare", Tail(d.todo),
                   IF <<Head(d.todo).rule, Head(d.todo).entry>> \in u.declared
                   THEN d.kept ELSE Append(d.kept, Head(d.todo)))
    BY <1>1, <1>5 DEF Takes
  <2>2. /\ MovedSeq(m, Tail(c.todo), Tail(d.todo))
        /\ MovedTo(m, Head(c.todo), Head(d.todo))
        /\ Head(c.todo) \in Finding /\ Head(d.todo) \in Finding
    BY <1>1, <1>5, MovedTail
  <2>3. MovedSeq(m, Append(c.kept, Head(c.todo)), Append(d.kept, Head(d.todo)))
    BY <1>1, <2>2, MovedAppend
  <2>4. <<Head(c.todo).rule, Head(c.todo).entry>> \in t.declared
          <=> <<Head(d.todo).rule, Head(d.todo).entry>> \in u.declared
    BY <2>2 DEF MovedTo, TreesAlike
  <2>. QED
    BY <1>1, <2>1, <2>2, <2>3, <2>4 DEF Alike, At
<1>6. CASE c.ph = "declare" /\ c.todo = <<>>
  <2>1. /\ c2 = At("lines", CompletedIn(t, c.kept), <<>>)
        /\ d2 = At("lines", CompletedIn(u, d.kept), <<>>)
    BY <1>1, <1>6 DEF Takes
  <2>. QED
    BY <1>1, <1>2, <2>1, MovedCompleted DEF Alike, At
<1>7. CASE c.ph = "lines" /\ c.todo # <<>>
  <2>1. /\ c2 = At("lines", Tail(c.todo), PutLine(c.kept, Head(c.todo)))
        /\ d2 = At("lines", Tail(d.todo), PutLine(d.kept, Head(d.todo)))
    BY <1>1, <1>7 DEF Takes
  <2>2. /\ MovedSeq(m, Tail(c.todo), Tail(d.todo))
        /\ MovedSeq(m, PutLine(c.kept, Head(c.todo)), PutLine(d.kept, Head(d.todo)))
    BY <1>1, <1>7, MovedTail, MovedPut
  <2>. QED
    BY <2>1, <2>2 DEF Alike, At
<1>8. (c.ph = "flows" \/ c.ph = "declare" \/ (c.ph = "lines" /\ c.todo # <<>>))
  BY DEF Takes
<1>. QED
  BY <1>3, <1>4, <1>5, <1>6, <1>7, <1>8

LEMMA LeastNatural ==
  ASSUME NEW S \in SUBSET Nat, S # {}
  PROVE  \E x \in S : \A y \in S : x <= y
<1>1. PICK x \in S : \A y \in S : ~(<<y, x>> \in OpToRel(<, Nat))
  BY NatLessThanWellFounded, WFMin
<1>2. ASSUME NEW y \in S PROVE x <= y
  <2>1. ~(y < x)
    BY <1>1 DEF OpToRel
  <2>. QED
    BY <2>1
<1>. QED
  BY <1>2

(* The least position where two runs over alike trees differ would follow  *)
(* a step both took from configurations that are alike.                    *)
LEMMA TracesAlike ==
  ASSUME NEW m, OneToOne(m), NEW t, NEW u, TreesAlike(m, t, u),
         NEW a \in Nat, NEW T, IsTrace(t, a, T), NEW b \in Nat, NEW U, IsTrace(u, b, U)
  PROVE  \A i \in Nat : i <= a /\ i <= b => Alike(m, T[i], U[i])
<1>. DEFINE S == {i \in Nat : i <= a /\ i <= b /\ ~ Alike(m, T[i], U[i])}
<1>. SUFFICES ASSUME S # {} PROVE FALSE
  OBVIOUS
<1>1. PICK i \in S : \A j \in S : i <= j
  <2>1. S \in SUBSET Nat
    OBVIOUS
  <2>. HIDE DEF S
  <2>. QED
    BY <2>1, LeastNatural
<1>2. CASE i = 0
  <2>1. T[0] = Begin(t) /\ U[0] = Begin(u)
    BY DEF IsTrace
  <2>2. MovedSeq(m, <<>>, <<>>)
    BY DEF MovedSeq
  <2>3. Alike(m, Begin(t), Begin(u))
    BY <2>2 DEF Begin, Alike, At, TreesAlike
  <2>. QED
    BY <1>2, <2>1, <2>3
<1>3. CASE i # 0
  <2>. DEFINE h == i - 1
  <2>1. h \in Nat /\ h + 1 = i /\ h \in 0 .. a - 1 /\ h \in 0 .. b - 1 /\ h \notin S
    BY <1>1, <1>3
  <2>2. Alike(m, T[h], U[h])
    BY <2>1
  <2>3. Takes(t, T[h], T[h + 1]) /\ Takes(u, U[h], U[h + 1])
    BY <2>1 DEF IsTrace
  <2>. HIDE DEF h
  <2>4. Alike(m, T[h + 1], U[h + 1])
    BY <2>2, <2>3, TakesAlike
  <2>. QED
    BY <2>1, <2>4
<1>. QED
  BY <1>2, <1>3

(* So what the two runs end with has the same fingerprints.                *)
LEMMA SamePrints ==
  ASSUME NEW m, OneToOne(m), NEW t, NEW u, TreesAlike(m, t, u),
         NEW k \in Seq(Finding), Comes(t, At("lines", <<>>, k)),
         NEW l \in Seq(Finding), Comes(u, At("lines", <<>>, l))
  PROVE  PrintsOf(Members(k)) = PrintsOf(Members(l))
<1>1. PICK a \in Nat : \E T \in [0 .. a -> Config] :
             IsTrace(t, a, T) /\ T[a] = At("lines", <<>>, k)
  BY DEF Comes
<1>2. PICK T : IsTrace(t, a, T) /\ T[a] = At("lines", <<>>, k)
  BY <1>1
<1>3. PICK b \in Nat : \E U \in [0 .. b -> Config] :
             IsTrace(u, b, U) /\ U[b] = At("lines", <<>>, l)
  BY DEF Comes
<1>4. PICK U : IsTrace(u, b, U) /\ U[b] = At("lines", <<>>, l)
  BY <1>3
<1>5. \A i \in Nat : i <= a /\ i <= b => Alike(m, T[i], U[i])
  BY <1>2, <1>4, TracesAlike
<1>6. ~ (a < b)
  <2>. SUFFICES ASSUME a < b PROVE FALSE
    OBVIOUS
  <2>0. a \in 0 .. b - 1 /\ a <= a /\ a <= b
    OBVIOUS
  <2>1. Alike(m, T[a], U[a]) /\ Takes(u, U[a], U[a + 1])
    BY <2>0, <1>4, <1>5 DEF IsTrace
  <2>2. T[a].ph = "lines" /\ T[a].todo = <<>>
    BY <1>2 DEF At
  <2>3. U[a].ph = "lines" /\ MovedSeq(m, <<>>, U[a].todo)
    BY <2>1, <2>2 DEF Alike
  <2>4. U[a].todo = <<>>
    BY <2>3 DEF MovedSeq
  <2>. QED
    BY <2>1, <2>3, <2>4 DEF Takes
<1>7. ~ (b < a)
  <2>. SUFFICES ASSUME b < a PROVE FALSE
    OBVIOUS
  <2>0. b \in 0 .. a - 1 /\ b <= a /\ b <= b
    OBVIOUS
  <2>1. Alike(m, T[b], U[b]) /\ Takes(t, T[b], T[b + 1])
    BY <2>0, <1>2, <1>5 DEF IsTrace
  <2>2. U[b].ph = "lines" /\ U[b].todo = <<>>
    BY <1>4 DEF At
  <2>3. T[b].ph = "lines" /\ MovedSeq(m, T[b].todo, <<>>)
    BY <2>1, <2>2 DEF Alike
  <2>4. T[b].todo = <<>>
    BY <2>3 DEF MovedSeq
  <2>. QED
    BY <2>1, <2>3, <2>4 DEF Takes
<1>8. MovedSeq(m, k, l)
  <2>1. a = b /\ Alike(m, T[a], U[a])
    BY <1>5, <1>6, <1>7
  <2>. QED
    BY <1>2, <1>4, <2>1 DEF Alike, At
<1>9. /\ DOMAIN k = DOMAIN l
      /\ \A i \in DOMAIN k : Fingerprint(k[i]) = Fingerprint(l[i])
  BY <1>8, KeysMoved DEF MovedSeq
<1>. QED
  BY <1>9 DEF Members, PrintsOf

LEMMA SameTreesAlike ==
  ASSUME NEW t \in Tree, NEW u \in Tree, SameUpToLines(t, u)
  PROVE  \E m : OneToOne(m) /\ TreesAlike(m, t, u)
<1>1. PICK m \in [Line -> Line] :
        /\ \A a, b \in Line : m[a] = m[b] => a = b
        /\ u = [t EXCEPT !.flows  = [i \in DOMAIN @ |-> MovedBy(m, @[i])],
                         !.others = [i \in DOMAIN @ |-> MovedBy(m, @[i])]]
  BY DEF SameUpToLines
<1>2. t \in TreeState /\ u \in TreeState
  BY TreeAssumption
<1>3. /\ u.flows = [i \in DOMAIN t.flows |-> MovedBy(m, t.flows[i])]
      /\ u.others = [i \in DOMAIN t.others |-> MovedBy(m, t.others[i])]
      /\ u.declared = t.declared /\ u.unreached = t.unreached /\ u.lacks = t.lacks
  BY <1>1, <1>2 DEF TreeState
<1>4. /\ t.flows \in Seq(Finding) /\ u.flows \in Seq(Finding)
      /\ t.others \in Seq(Finding) /\ u.others \in Seq(Finding)
  <2>1. \A S, T : S \subseteq T => \A s \in Seq(S) : s \in Seq(T)
    OBVIOUS
  <2>2. /\ t.flows \in Seq({f \in Finding : f.flow}) /\ t.others \in Seq({f \in Finding : ~f.flow})
        /\ u.flows \in Seq({f \in Finding : f.flow}) /\ u.others \in Seq({f \in Finding : ~f.flow})
    BY <1>2 DEF TreeState
  <2>. QED
    BY <2>1, <2>2
<1>5. \A f \in Finding : MovedTo(m, f, MovedBy(m, f))
  BY DEF MovedTo, MovedBy, Finding
<1>6. ASSUME NEW s \in Seq(Finding), NEW v \in Seq(Finding),
             v = [i \in DOMAIN s |-> MovedBy(m, s[i])]
      PROVE  MovedSeq(m, s, v)
  BY <1>5, <1>6 DEF MovedSeq
<1>7. TreesAlike(m, t, u)
  BY <1>3, <1>4, <1>6 DEF TreesAlike
<1>. QED
  BY <1>1, <1>7 DEF OneToOne

(* Lines that move, and whatever happens between two runs, change no       *)
(* finding's identity: a run over the code its baseline was recorded from  *)
(* (baseline.go Fingerprint, New; consolidate.go) fails on expectations    *)
(* alone.                                                                  *)
THEOREM RecordedCorrect == Spec => []RecordedCodeIsQuiet
<1>. DEFINE Inv == TypeOK /\ BaselineInv /\ HistoryInv
<1>1. Init => Inv
  BY TypeInit, HistoryInit DEF Init, BaselineInv, VerdictIsEarned, Verdict
<1>2. Inv /\ [Next]_vars => Inv'
  BY TypeStep, BaselineStep, HistoryStep
<1>3. Inv => RecordedCodeIsQuiet
  <2>. SUFFICES ASSUME Inv, exit = "gating", job.failOn = "gating", job.baseline,
                       ~ ExpectationGates,
                       NEW t \in recorded, SameUpToLines(t, tree)
                PROVE  FALSE
    BY DEF RecordedCodeIsQuiet
  <2>1. /\ ~ job.write /\ Gating /\ Comes(tree, At("lines", <<>>, kept))
        /\ tree \in Tree /\ t \in Tree /\ kept \in Seq(Finding)
    BY DEF HistoryInv, TypeOK
  <2>2. base = disk.prints
    BY <2>1 DEF BaselineInv, VerdictIsEarned, Verdict
  <2>3. PICK k \in Seq(Finding) :
          Comes(t, At("lines", <<>>, k)) /\ disk.prints = {Fingerprint(f) : f \in Members(k)}
    BY DEF HistoryInv
  <2>4. PICK m : OneToOne(m) /\ TreesAlike(m, t, tree)
    BY <2>1, SameTreesAlike
  <2>5. PrintsOf(Members(k)) = PrintsOf(Members(kept))
    BY <2>1, <2>3, <2>4, SamePrints
  <2>6. \A f \in Members(kept) : ~ IsNew(f)
    BY <2>2, <2>3, <2>5 DEF IsNew, PrintsOf
  <2>. QED
    BY <2>1, <2>6 DEF Gating
<1>. QED
  BY <1>1, <1>2, <1>3, PTL DEF Spec
-----------------------------------------------------------------------------
(* Scan implements Pipeline.  Beside the findings that stand for what was  *)
(* reported, nothing stands that was not: every finding of a run is one of *)
(* the analyses', but for its sites and for what anchors it.               *)
Same(k, f) ==
  /\ k.rule = f.rule /\ k.source = f.source /\ k.file = f.file
  /\ k.conf = f.conf /\ k.use = f.use /\ Fingerprint(k) = Fingerprint(f)

FromFlows(k) ==
  \E f \in FlowsOf(tree) : Same(k, f) /\ k.entry = f.entry /\ k.anchored = f.anchored

FromUndeclared(k) ==
  \E f \in FlowsOf(tree) : /\ Same(k, f) /\ k.entry = f.entry /\ k.anchored = f.anchored
                           /\ <<f.rule, f.entry>> \notin tree.declared

FromReported(k) ==
  \E f \in Reported(tree) :
    Same(k, f) /\ (k.anchored <=> f.anchored /\ f.file \notin tree.unreached)

OriginInv ==
  /\ pc = "load" => kept = <<>>
  /\ pc \in {"flows", "declare"} => \A k \in Members(todo) : FromFlows(k)
  /\ pc = "flows" => \A k \in Members(kept) : FromFlows(k)
  /\ pc = "declare" => \A k \in Members(kept) : FromUndeclared(k)
  /\ pc \in {"lines", "write"} => \A k \in Members(todo) \cup Members(kept) : FromReported(k)

LEMMA OriginFrame ==
  ASSUME tree' = tree
  PROVE  \A k : /\ FromFlows(k)' <=> FromFlows(k)
                /\ FromUndeclared(k)' <=> FromUndeclared(k)
                /\ FromReported(k)' <=> FromReported(k)
BY DEF FromFlows, FromUndeclared, FromReported, FlowsOf, Reported, Members

LEMMA PutMembers ==
  ASSUME NEW S, NEW s \in Seq(S), NEW i \in DOMAIN s, NEW e
  PROVE  Members([s EXCEPT ![i] = e]) \subseteq Members(s) \cup {e}
<1>1. ASSUME NEW j \in DOMAIN [s EXCEPT ![i] = e]
      PROVE  [s EXCEPT ![i] = e][j] \in Members(s) \cup {e}
  <2>1. j \in DOMAIN s /\ [s EXCEPT ![i] = e][j] = IF j = i THEN e ELSE s[j]
    OBVIOUS
  <2>. QED
    BY <2>1 DEF Members
<1>. QED
  BY <1>1 DEF Members

(* A winner comes from where the finding it is made of comes from.         *)
LEMMA WinnerOrigin ==
  ASSUME TypeOK, NEW k \in Finding, NEW f \in Finding
  PROVE  /\ FromFlows(k) /\ FromFlows(f) => FromFlows(FlowWinner(k, f))
         /\ FromReported(k) /\ FromReported(f) => FromReported(LineWinner(k, f))
<1>1. ASSUME NEW g \in Finding, NEW T
      PROVE  LET h == [g EXCEPT !.sites = T]
             IN  /\ h.entry = g.entry /\ h.anchored = g.anchored
                 /\ \A e : Same(g, e) => Same(h, e)
  BY DEF Finding, Same, Fingerprint, Apart
<1>2. ASSUME NEW g \in Finding, NEW T
      PROVE  /\ FromFlows(g) => FromFlows([g EXCEPT !.sites = T])
             /\ FromReported(g) => FromReported([g EXCEPT !.sites = T])
  <2>. DEFINE h == [g EXCEPT !.sites = T]
  <2>1. h.entry = g.entry /\ h.anchored = g.anchored /\ \A e : Same(g, e) => Same(h, e)
    BY <1>1
  <2>. HIDE DEF h
  <2>2. FromFlows(g) => FromFlows(h)
    BY <2>1 DEF FromFlows
  <2>3. FromReported(g) => FromReported(h)
    BY <2>1 DEF FromReported
  <2>. QED
    BY <2>2, <2>3 DEF h
<1>3. (\E T : FlowWinner(k, f) = [f EXCEPT !.sites = T])
        \/ \E T : FlowWinner(k, f) = [k EXCEPT !.sites = T]
  BY DEF FlowWinner
<1>4. (\E T : LineWinner(k, f) = [f EXCEPT !.sites = T])
        \/ \E T : LineWinner(k, f) = [k EXCEPT !.sites = T]
  BY DEF LineWinner
<1>5. ASSUME FromFlows(k), FromFlows(f) PROVE FromFlows(FlowWinner(k, f))
  <2>1. \A T : FromFlows([k EXCEPT !.sites = T]) /\ FromFlows([f EXCEPT !.sites = T])
    BY <1>2, <1>5
  <2>2. CASE \E T : FlowWinner(k, f) = [f EXCEPT !.sites = T]
    BY <2>1, <2>2
  <2>3. CASE \E T : FlowWinner(k, f) = [k EXCEPT !.sites = T]
    BY <2>1, <2>3
  <2>. QED
    BY <1>3, <2>2, <2>3
<1>6. ASSUME FromReported(k), FromReported(f) PROVE FromReported(LineWinner(k, f))
  <2>1. \A T : FromReported([k EXCEPT !.sites = T]) /\ FromReported([f EXCEPT !.sites = T])
    BY <1>2, <1>6
  <2>2. CASE \E T : LineWinner(k, f) = [f EXCEPT !.sites = T]
    BY <2>1, <2>2
  <2>3. CASE \E T : LineWinner(k, f) = [k EXCEPT !.sites = T]
    BY <2>1, <2>3
  <2>. QED
    BY <1>4, <2>2, <2>3
<1>. QED
  BY <1>5, <1>6

LEMMA OriginCollapse ==
  ASSUME TypeOK, OriginInv, CollapseFlowStep \/ CollapseIdenticalStep
  PROVE  OriginInv'
<1>. DEFINE h == Head(todo)
<1>1. /\ todo # <<>> /\ todo' = Tail(todo) /\ tree' = tree /\ pc' = pc
      /\ kept \in Seq(Finding) /\ Members(kept) \subseteq Finding
  BY MembersOfAny DEF CollapseFlowStep, CollapseIdenticalStep, TypeOK
<1>2. h \in Finding /\ Members(todo) = {h} \cup Members(todo')
  BY <1>1, HeadTail DEF TypeOK
<1>3. Members(kept)' = Members(kept') /\ Members(todo)' = Members(todo')
  BY DEF Members
<1>4. CASE CollapseFlowStep
  <2>1. pc = "flows" /\ kept' = CollapseFlow(h)
    BY <1>4 DEF CollapseFlowStep
  <2>. HIDE DEF h
  <2>2. FromFlows(h) /\ \A k \in Members(kept) : FromFlows(k)
    BY <1>2, <2>1 DEF OriginInv
  <2>3. \A k \in Members(kept') : FromFlows(k)
    <3>1. CASE kept' = Append(kept, h)
      BY <1>1, <1>2, <2>2, <3>1, AppendMembers
    <3>2. CASE \E i \in DOMAIN kept : kept' = [kept EXCEPT ![i] = FlowWinner(kept[i], h)]
      <4>1. PICK i \in DOMAIN kept : kept' = [kept EXCEPT ![i] = FlowWinner(kept[i], h)]
        BY <3>2
      <4>2. kept[i] \in Members(kept)
        BY DEF Members
      <4>3. FromFlows(FlowWinner(kept[i], h))
        BY <1>1, <1>2, <2>2, <4>2, WinnerOrigin
      <4>. DEFINE w == FlowWinner(kept[i], h)
      <4>4. kept' = [kept EXCEPT ![i] = w] /\ FromFlows(w)
        BY <4>1, <4>3
      <4>. HIDE DEF w
      <4>5. Members(kept') \subseteq Members(kept) \cup {w}
        BY <1>1, <4>4, PutMembers
      <4>. QED
        BY <2>2, <4>4, <4>5
    <3>. QED
      BY <1>1, <1>2, <2>1, <3>1, <3>2, CollapseFlowLeaves
  <2>. QED
    BY <1>1, <1>2, <1>3, <2>1, <2>3, OriginFrame DEF OriginInv
<1>5. CASE CollapseIdenticalStep
  <2>1. pc = "lines" /\ kept' = CollapseIdentical(h)
    BY <1>5 DEF CollapseIdenticalStep
  <2>. HIDE DEF h
  <2>2. FromReported(h) /\ \A k \in Members(kept) : FromReported(k)
    BY <1>2, <2>1 DEF OriginInv
  <2>3. \A k \in Members(kept') : FromReported(k)
    <3>1. CASE kept' = Append(kept, h)
      BY <1>1, <1>2, <2>2, <3>1, AppendMembers
    <3>2. CASE \E i \in DOMAIN kept : kept' = [kept EXCEPT ![i] = LineWinner(kept[i], h)]
      <4>1. PICK i \in DOMAIN kept : kept' = [kept EXCEPT ![i] = LineWinner(kept[i], h)]
        BY <3>2
      <4>2. kept[i] \in Members(kept)
        BY DEF Members
      <4>3. FromReported(LineWinner(kept[i], h))
        BY <1>1, <1>2, <2>2, <4>2, WinnerOrigin
      <4>. DEFINE w == LineWinner(kept[i], h)
      <4>4. kept' = [kept EXCEPT ![i] = w] /\ FromReported(w)
        BY <4>1, <4>3
      <4>. HIDE DEF w
      <4>5. Members(kept') \subseteq Members(kept) \cup {w}
        BY <1>1, <4>4, PutMembers
      <4>. QED
        BY <2>2, <4>4, <4>5
    <3>. QED
      BY <1>1, <1>2, <2>1, <3>1, <3>2, CollapseIdenticalLeaves
  <2>. QED
    BY <1>1, <1>2, <1>3, <2>1, <2>3, OriginFrame DEF OriginInv
<1>. QED
  BY <1>4, <1>5

LEMMA OriginDeclare ==
  ASSUME TypeOK, OriginInv, DeclareBegin \/ DeclareStep
  PROVE  OriginInv'
<1>1. pc' = "declare" /\ tree' = tree
  BY DEF DeclareBegin, DeclareStep
<1>2. Members(kept)' = Members(kept') /\ Members(todo)' = Members(todo')
  BY DEF Members
<1>3. CASE DeclareBegin
  <2>1. pc = "flows" /\ todo' = kept /\ kept' = <<>>
    BY <1>3 DEF DeclareBegin
  <2>2. Members(kept') = {} /\ Members(todo') = Members(kept)
    BY <2>1 DEF Members
  <2>. QED
    BY <1>1, <1>2, <2>1, <2>2, OriginFrame DEF OriginInv
<1>4. CASE DeclareStep
  <2>. DEFINE h == Head(todo)
  <2>1. /\ pc = "declare" /\ todo # <<>> /\ todo' = Tail(todo)
        /\ kept' = IF Exempt(h) THEN kept ELSE Append(kept, h)
        /\ kept \in Seq(Finding)
    BY <1>4 DEF DeclareStep, TypeOK
  <2>2. h \in Finding /\ Members(todo) = {h} \cup Members(todo')
    BY <2>1, HeadTail DEF TypeOK
  <2>3. FromFlows(h) /\ \A k \in Members(kept) : FromUndeclared(k)
    BY <2>1, <2>2 DEF OriginInv
  <2>. HIDE DEF h
  <2>4. ~ Exempt(h) => FromUndeclared(h)
    BY <2>3 DEF Exempt, FromFlows, FromUndeclared, Same
  <2>5. Members(Append(kept, h)) = Members(kept) \cup {h}
    BY <2>1, <2>2, AppendMembers
  <2>6. \A k \in Members(kept') : FromUndeclared(k)
    BY <2>1, <2>3, <2>4, <2>5
  <2>. QED
    BY <1>1, <1>2, <2>1, <2>2, <2>6, OriginFrame DEF OriginInv
<1>. QED
  BY <1>3, <1>4

LEMMA OriginComplete ==
  ASSUME TypeOK, OriginInv, Complete
  PROVE  OriginInv'
<1>1. /\ pc = "declare" /\ pc' = "lines" /\ tree' = tree
      /\ todo' = Completed /\ kept' = <<>>
  BY DEF Complete
<1>2. /\ Members(todo)' = Members(Completed) /\ Members(kept)' = {}
  BY <1>1 DEF Members
<1>3. ASSUME NEW k \in Members(Completed) PROVE FromReported(k)
  <2>1. PICK g \in Members(kept) \cup Members(tree.others) : k = Unanchored(g)
    BY CompletedType
  <2>2. g \in Finding
    BY <2>1, TreeType, MembersOfAny DEF TypeOK
  <2>3. \E f \in Reported(tree) : Same(g, f) /\ g.anchored = f.anchored
    <3>1. CASE g \in Members(tree.others)
      BY <3>1 DEF Reported, Same
    <3>2. CASE g \in Members(kept)
      BY <1>1, <3>2 DEF OriginInv, FromUndeclared, Reported
    <3>. QED
      BY <2>1, <3>1, <3>2
  <2>4. PICK f \in Reported(tree) : Same(g, f) /\ g.anchored = f.anchored
    BY <2>3
  <2>5. /\ k.anchored = (g.anchored /\ g.file \notin tree.unreached)
        /\ \A e : Same(g, e) => Same(k, e)
    BY <2>1, <2>2 DEF Unanchored, Finding, Same, Fingerprint, Apart
  <2>6. k.anchored <=> f.anchored /\ f.file \notin tree.unreached
    BY <2>4, <2>5 DEF Same
  <2>. QED
    BY <2>4, <2>5, <2>6 DEF FromReported
<1>. QED
  BY <1>1, <1>2, <1>3, OriginFrame DEF OriginInv

LEMMA OriginStep == TypeOK /\ OriginInv /\ [Next]_vars => OriginInv'
<1>. SUFFICES ASSUME TypeOK, OriginInv, [Next]_vars PROVE OriginInv'
  OBVIOUS
<1>1. CASE CollapseFlowStep \/ CollapseIdenticalStep
  BY <1>1, OriginCollapse
<1>2. CASE DeclareBegin \/ DeclareStep
  BY <1>2, OriginDeclare
<1>3. CASE Complete
  BY <1>3, OriginComplete
<1>4. CASE Load
  <2>1. /\ pc' = "flows" /\ tree' = tree /\ kept = <<>> /\ kept' = <<>>
        /\ todo' = IF "dataflow" \in tree.lacks THEN <<>> ELSE tree.flows
    BY <1>4 DEF Load, OriginInv
  <2>2. Members(kept)' = {} /\ Members(todo)' = FlowsOf(tree)
    BY <2>1 DEF Members, FlowsOf
  <2>3. \A k \in FlowsOf(tree) : FromFlows(k)
    BY DEF FromFlows, Same
  <2>. QED
    BY <2>1, <2>2, <2>3, OriginFrame DEF OriginInv
<1>5. CASE CreateBaseline \/ UNCHANGED vars
  <2>1. /\ tree' = tree /\ todo' = todo /\ kept' = kept
        /\ pc' = pc \/ (pc = "lines" /\ pc' = "write")
    BY <1>5 DEF CreateBaseline, vars
  <2>2. Members(kept)' = Members(kept) /\ Members(todo)' = Members(todo)
    BY <2>1 DEF Members
  <2>. QED
    BY <2>1, <2>2, OriginFrame DEF OriginInv
<1>6. CASE Edit \/ Start \/ LoadRefuses \/ Judge \/ WriteBaseline \/ RecordFails \/ Killed
  <2>1. pc' = "done" \/ (pc' = "load" /\ kept' = <<>>)
    BY <1>6 DEF Edit, Start, LoadRefuses, Judge, WriteBaseline, RecordFails, Killed, Ends, Forget
  <2>. QED
    BY <2>1 DEF OriginInv
<1>. QED
  BY <1>1, <1>2, <1>3, <1>4, <1>5, <1>6 DEF Next, RunStep

LEMMA Prints ==
  ASSUME NEW F
  PROVE  /\ \A f \in F : Fingerprint(f) \in PrintsOf(F)
         /\ \A p \in PrintsOf(F) : \E f \in F : p = Fingerprint(f)
BY DEF PrintsOf

(* What is recorded: names of reported findings, one for each of them.     *)
LEMMA RecordedNames ==
  ASSUME TypeOK, StandingInv, OriginInv, pc \in {"lines", "write"}, todo = <<>>
  PROVE  /\ PrintsOf(Members(kept)) \subseteq PrintsOf(Reported(tree))
         /\ \A f \in Reported(tree) :
              \E g \in Reported(tree) : /\ SameWeakness(f, g) /\ g.conf >= f.conf
                                        /\ Fingerprint(g) \in PrintsOf(Members(kept))
<1>1. Members(todo) = {}
  BY DEF Members
<1>2. \A k \in Members(kept) : FromReported(k)
  BY DEF OriginInv
<1>3. ASSUME NEW p \in PrintsOf(Members(kept)) PROVE p \in PrintsOf(Reported(tree))
  <2>1. PICK k \in Members(kept) : p = Fingerprint(k)
    BY Prints
  <2>2. PICK f \in Reported(tree) : Same(k, f)
    BY <1>2 DEF FromReported
  <2>. QED
    BY <2>1, <2>2, Prints DEF Same
<1>4. ASSUME NEW f \in Reported(tree)
      PROVE  \E g \in Reported(tree) : /\ SameWeakness(f, g) /\ g.conf >= f.conf
                                       /\ Fingerprint(g) \in PrintsOf(Members(kept))
  <2>1. PICK k \in Members(kept) : StandsFor(k, f)
    BY <1>1 DEF StandingInv, Standing
  <2>2. PICK g \in Reported(tree) : Same(k, g)
    BY <1>2 DEF FromReported
  <2>3. Fingerprint(g) \in PrintsOf(Members(kept))
    BY <2>2, Prints DEF Same
  <2>. QED
    BY <2>1, <2>2, <2>3 DEF StandsFor, Same, SameWeakness
<1>. QED
  BY <1>3, <1>4

(* A run that fails for findings has one to name: reported with certainty, *)
(* and recorded by nobody.                                                 *)
LEMMA GatingIsGrave ==
  ASSUME TypeOK, OriginInv, pc = "lines", todo = <<>>, Gating, ~ ExpectationGates
  PROVE  \E f \in Reported(tree) :
           f.conf = 2 /\ Threatens(tree, f) /\ Fingerprint(f) \notin base
<1>1. PICK k \in Members(kept) : ~ k.use /\ k.anchored /\ k.conf = 2 /\ IsNew(k)
  BY DEF Gating
<1>2. PICK f \in Reported(tree) :
        Same(k, f) /\ (k.anchored <=> f.anchored /\ f.file \notin tree.unreached)
  BY DEF OriginInv, FromReported
<1>. QED
  BY <1>1, <1>2 DEF Same, IsNew, Threatens

(* A run that passes has an answer for every finding made with certainty:  *)
(* one of its weakness that is recorded, or that fails no run.             *)
LEMMA PassHasAnswers ==
  ASSUME TypeOK, StandingInv, OriginInv, pc = "lines", todo = <<>>, ~ Gating, ~ job.scoped,
         NEW f \in Reported(tree), f.conf = 2
  PROVE  \E g \in Reported(tree) :
           /\ g.conf = 2 /\ SameWeakness(f, g)
           /\ Fingerprint(g) \in base \/ ~ Threatens(tree, g)
<1>1. Members(todo) = {}
  BY DEF Members
<1>2. PICK k \in Members(kept) : StandsFor(k, f)
  BY <1>1 DEF StandingInv, Standing
<1>3. k \in Finding
  BY MembersOfAny DEF TypeOK
<1>4. k.conf = 2
  <2>1. k.conf \in 0..2 /\ k.conf >= 2
    BY <1>2, <1>3 DEF Finding, StandsFor
  <2>. QED
    BY <2>1
<1>5. k.use \/ ~ k.anchored \/ ~ IsNew(k)
  BY <1>4 DEF Gating, InScope
<1>6. PICK g \in Reported(tree) :
        Same(k, g) /\ (k.anchored <=> g.anchored /\ g.file \notin tree.unreached)
  BY DEF OriginInv, FromReported
<1>7. g.conf = 2 /\ SameWeakness(f, g)
  BY <1>2, <1>4, <1>6 DEF Same, StandsFor, SameWeakness
<1>8. Fingerprint(g) \in base \/ ~ Threatens(tree, g)
  BY <1>5, <1>6 DEF Same, IsNew, Threatens
<1>. QED
  BY <1>7, <1>8

LEMMA SomethingKept ==
  ASSUME TypeOK, StandingInv, OriginInv, pc = "lines", todo = <<>>
  PROVE  kept # <<>> <=> PrintsOf(Reported(tree)) # {}
<1>1. Members(todo) = {} /\ kept \in Seq(Finding)
  BY DEF Members, TypeOK
<1>2. kept # <<>> <=> Members(kept) # {}
  <2>1. CASE kept = <<>>
    BY <2>1 DEF Members
  <2>2. CASE kept # <<>>
    <3>1. 1 \in DOMAIN kept
      BY <1>1, <2>2
    <3>. QED
      BY <2>2, <3>1 DEF Members
  <2>. QED
    BY <2>1, <2>2
<1>3. Members(kept) # {} => Reported(tree) # {}
  BY DEF OriginInv, FromReported
<1>4. Reported(tree) # {} => Members(kept) # {}
  BY <1>1 DEF StandingInv, Standing
<1>5. Reported(tree) # {} <=> PrintsOf(Reported(tree)) # {}
  BY Prints
<1>. QED
  BY <1>2, <1>3, <1>4, <1>5

LEMMA ReportRead ==
  ASSUME tree \in Tree
  PROVE  LET r == [t \in Tree |-> ReportOf(t)][tree]
         IN  /\ r.names = PrintsOf(Reported(tree))
             /\ r.grave = PrintsOf({f \in Reported(tree) : f.conf = 2 /\ Threatens(tree, f)})
             /\ r.excused = PrintsOf({f \in Reported(tree) : ~ Threatens(tree, f)})
             /\ r.complete <=> tree.lacks = {}
             /\ r.deviates <=> "surface" \notin tree.lacks /\ tree.expectation # "met"
             /\ r.violated <=> "surface" \notin tree.lacks /\ tree.expectation = "violated"
<1>. DEFINE r == [t \in Tree |-> ReportOf(t)][tree]
<1>1. r = ReportOf(tree)
  OBVIOUS
<1>. HIDE DEF r
<1>2. /\ r.names = PrintsOf(Reported(tree))
      /\ r.grave = PrintsOf({f \in Reported(tree) : f.conf = 2 /\ Threatens(tree, f)})
      /\ r.excused = PrintsOf({f \in Reported(tree) : ~ Threatens(tree, f)})
  BY <1>1 DEF ReportOf
<1>3. /\ r.complete <=> tree.lacks = {}
      /\ r.deviates <=> "surface" \notin tree.lacks /\ tree.expectation # "met"
      /\ r.violated <=> "surface" \notin tree.lacks /\ tree.expectation = "violated"
  BY <1>1 DEF ReportOf
<1>. QED
  BY <1>2, <1>3 DEF r

LEMMA PlacesRead ==
  ASSUME tree \in Tree, NEW G \in [t \in Tree |-> ReportOf(t)][tree].places
  PROVE  \E f \in Reported(tree) : G = PrintsOf({g \in Reported(tree) : SameWeakness(f, g)})
<1>1. [t \in Tree |-> ReportOf(t)][tree] = ReportOf(tree)
  OBVIOUS
<1>2. G \in ReportOf(tree).places
  BY <1>1
<1>. QED
  BY <1>2 DEF ReportOf

LEMMA SureRead ==
  ASSUME tree \in Tree, NEW G \in [t \in Tree |-> ReportOf(t)][tree].sure
  PROVE  \E f \in Reported(tree) :
           /\ f.conf = 2
           /\ G = PrintsOf({g \in Reported(tree) : g.conf = 2 /\ SameWeakness(f, g)})
<1>1. [t \in Tree |-> ReportOf(t)][tree] = ReportOf(tree)
  OBVIOUS
<1>2. G \in ReportOf(tree).sure
  BY <1>1
<1>. QED
  BY <1>2 DEF ReportOf

LEMMA FailIsPromised ==
  ASSUME TypeOK, StandingInv, OriginInv, BaselineInv, pc = "lines", todo = <<>>,
         GateStatus = "gating"
  PROVE  Promised!MayFail
<1>. DEFINE r == [t \in Tree |-> ReportOf(t)][tree]
<1>1. tree \in Tree
  BY DEF TypeOK
<1>2. (job.failOn = "any" /\ AnyFindings) \/ (job.failOn = "gating" /\ Gating)
  BY DEF GateStatus
<1>3. CASE job.failOn = "any" /\ AnyFindings
  <2>1. r.names # {} \/ r.deviates
    BY <1>1, <1>3, ReportRead, SomethingKept DEF AnyFindings
  <2>. QED
    BY <1>3, <2>1 DEF Promised!MayFail
<1>4. CASE job.failOn = "gating" /\ Gating
  <2>1. CASE ExpectationGates
    <3>1. r.violated
      BY <1>1, <2>1, ReportRead DEF ExpectationGates
    <3>. QED
      BY <1>4, <3>1 DEF Promised!MayFail
  <2>2. CASE ~ ExpectationGates
    <3>1. PICK f \in Reported(tree) :
            f.conf = 2 /\ Threatens(tree, f) /\ Fingerprint(f) \notin base
      BY <1>4, <2>2, GatingIsGrave
    <3>2. Fingerprint(f) \in r.grave
      <4>1. r.grave = PrintsOf({g \in Reported(tree) : g.conf = 2 /\ Threatens(tree, g)})
        BY <1>1, ReportRead
      <4>2. f \in {g \in Reported(tree) : g.conf = 2 /\ Threatens(tree, g)}
        BY <3>1
      <4>. QED
        BY <4>1, <4>2, Prints
    <3>3. Promised!Known = base
      BY DEF BaselineInv, Promised!Known
    <3>4. r.grave \ Promised!Known # {}
      BY <3>1, <3>2, <3>3
    <3>. QED
      BY <1>4, <3>4 DEF Promised!MayFail
  <2>. QED
    BY <2>1, <2>2
<1>. QED
  BY <1>2, <1>3, <1>4

LEMMA PassIsPromised ==
  ASSUME TypeOK, StandingInv, OriginInv, BaselineInv, pc = "lines", todo = <<>>,
         GateStatus # "gating"
  PROVE  Promised!MayPass
<1>. DEFINE r == [t \in Tree |-> ReportOf(t)][tree]
<1>1. tree \in Tree
  BY DEF TypeOK
<1>2. ~ (job.failOn = "any" /\ AnyFindings) /\ ~ (job.failOn = "gating" /\ Gating)
  BY DEF GateStatus
<1>3. job.failOn = "any" => r.names = {} /\ ~ r.deviates
  BY <1>1, <1>2, ReportRead, SomethingKept DEF AnyFindings
<1>4. job.failOn = "gating" => ~ r.violated
  BY <1>1, <1>2, ReportRead DEF Gating, ExpectationGates
<1>5. ASSUME job.failOn = "gating", ~ job.scoped, NEW G \in r.sure
      PROVE  Promised!Meets(G, Promised!Known \cup r.excused)
  <2>1. PICK f \in Reported(tree) :
          /\ f.conf = 2
          /\ G = PrintsOf({g \in Reported(tree) : g.conf = 2 /\ SameWeakness(f, g)})
    BY <1>1, <1>5, SureRead
  <2>2. PICK g \in Reported(tree) :
          /\ g.conf = 2 /\ SameWeakness(f, g)
          /\ Fingerprint(g) \in base \/ ~ Threatens(tree, g)
    BY <1>2, <1>5, <2>1, PassHasAnswers
  <2>3. Fingerprint(g) \in G
    <3>1. g \in {h \in Reported(tree) : h.conf = 2 /\ SameWeakness(f, h)}
      BY <2>2
    <3>. QED
      BY <2>1, <3>1, Prints
  <2>4. Promised!Known = base
    BY DEF BaselineInv, Promised!Known
  <2>5. ~ Threatens(tree, g) => Fingerprint(g) \in r.excused
    <3>1. r.excused = PrintsOf({h \in Reported(tree) : ~ Threatens(tree, h)})
      BY <1>1, ReportRead
    <3>2. ~ Threatens(tree, g) => g \in {h \in Reported(tree) : ~ Threatens(tree, h)}
      OBVIOUS
    <3>. QED
      BY <3>1, <3>2, Prints
  <2>. HIDE DEF r
  <2>. QED
    BY <2>2, <2>3, <2>4, <2>5 DEF Promised!Meets
<1>. QED
  BY <1>3, <1>4, <1>5 DEF Promised!MayPass

(* Each action is a step of Pipeline or none.                              *)
PromisedInv == TypeOK /\ FlowsInv /\ StandingInv /\ OriginInv /\ BaselineInv

LEMMA JudgeConcludes ==
  ASSUME PromisedInv, Judge
  PROVE  Promised!Conclude
<1>. USE DEF PromisedInv
<1>1. /\ pc = "lines" /\ todo = <<>> /\ ~ job.write /\ pc' = "done"
      /\ exit' = IF tree.lacks # {} THEN "notApplicable" ELSE GateStatus
      /\ tree' = tree /\ job' = job /\ disk' = disk /\ tree \in Tree
  BY DEF Judge, Ends, TypeOK
<1>2. job.baseline => disk.state = "whole"
  BY <1>1 DEF BaselineInv
<1>. DEFINE r == [t \in Tree |-> ReportOf(t)][tree]
<1>3. \/ ~ r.complete /\ exit' = "notApplicable"
      \/ r.complete /\ Promised!MayFail /\ exit' = "gating"
      \/ r.complete /\ Promised!MayPass /\ exit' = "clean"
  <2>1. r.complete <=> tree.lacks = {}
    BY <1>1, ReportRead
  <2>2. CASE tree.lacks # {}
    BY <1>1, <2>1, <2>2
  <2>3. CASE tree.lacks = {} /\ GateStatus = "gating"
    BY <1>1, <2>1, <2>3, FailIsPromised
  <2>4. CASE tree.lacks = {} /\ GateStatus # "gating"
    <3>1. GateStatus = "clean"
      BY <2>4 DEF GateStatus
    <3>. QED
      BY <1>1, <2>1, <2>4, <3>1, PassIsPromised
  <2>. QED
    BY <2>2, <2>3, <2>4
<1>. QED
  BY <1>1, <1>2, <1>3 DEF Promised!Conclude

LEMMA WriteSaves ==
  ASSUME PromisedInv, WriteBaseline
  PROVE  Promised!Save
<1>. USE DEF PromisedInv
<1>. DEFINE r == [t \in Tree |-> ReportOf(t)][tree]
            names == PrintsOf(Members(kept))
<1>1. /\ pc = "write" /\ pc' = "done" /\ exit' \in {"clean", "killed"} /\ todo = <<>>
      /\ tree' = tree /\ job' = job /\ tree \in Tree
      /\ job.write /\ disk.state = "torn"
  BY DEF WriteBaseline, Ends, TypeOK, BaselineInv, StandingInv
<1>2. disk' = [state |-> "whole", prints |-> names]
  BY DEF WriteBaseline, PrintsOf
<1>3. names \in SUBSET r.names
  BY <1>1, RecordedNames, ReportRead
<1>4. ASSUME NEW G \in r.places PROVE Promised!Meets(G, names)
  <2>1. PICK f \in Reported(tree) : G = PrintsOf({g \in Reported(tree) : SameWeakness(f, g)})
    BY <1>1, <1>4, PlacesRead
  <2>2. PICK g \in Reported(tree) : SameWeakness(f, g) /\ Fingerprint(g) \in names
    BY <1>1, RecordedNames
  <2>3. Fingerprint(g) \in G
    <3>1. g \in {h \in Reported(tree) : SameWeakness(f, h)}
      BY <2>2
    <3>. QED
      BY <2>1, <3>1, Prints
  <2>. HIDE DEF names
  <2>. QED
    BY <2>2, <2>3 DEF Promised!Meets
<1>. HIDE DEF names
<1>5. [state |-> disk'.state, names |-> disk'.prints] = [state |-> "whole", names |-> names]
  BY <1>2
<1>. QED
  BY <1>1, <1>3, <1>4, <1>5 DEF Promised!Save

LEMMA PromisedStep == PromisedInv /\ [Next]_vars => [Promised!Next]_(Promised!vars)
<1>. SUFFICES ASSUME PromisedInv, [Next]_vars PROVE [Promised!Next]_(Promised!vars)
  OBVIOUS
<1>1. CASE Edit
  BY <1>1 DEF Edit, Promised!Change, Promised!Next, Forget
<1>2. CASE Start
  BY <1>2 DEF Start, Promised!Begin, Promised!Next, Forget
<1>3. CASE Load \/ CollapseFlowStep \/ DeclareBegin \/ DeclareStep \/ Complete
             \/ CollapseIdenticalStep
  BY <1>3 DEF Load, CollapseFlowStep, DeclareBegin, DeclareStep, Complete,
              CollapseIdenticalStep, Promised!vars
<1>4. CASE LoadRefuses \/ RecordFails \/ Killed
  BY <1>4 DEF LoadRefuses, RecordFails, Killed, Ends, Promised!Stop, Promised!Next
<1>5. CASE Judge
  BY <1>5, JudgeConcludes DEF Promised!Next
<1>6. CASE CreateBaseline
  BY <1>6 DEF CreateBaseline, Promised!Truncate, Promised!Next
<1>7. CASE WriteBaseline
  BY <1>7, WriteSaves DEF Promised!Next
<1>8. CASE UNCHANGED vars
  BY <1>8 DEF vars, Promised!vars
<1>. QED
  BY <1>1, <1>2, <1>3, <1>4, <1>5, <1>6, <1>7, <1>8 DEF Next, RunStep

(* Runs made of loops over findings, killed anywhere and writing their     *)
(* file in two steps, come to Pipeline: one judgement of the code as it    *)
(* stands (scan.go Run, Gating; baseline.go Load, Write; main.go run).     *)
THEOREM PipelineImplemented == Spec => KeepsThePromise
<1>1. Init => PromisedInv
  BY TypeInit DEF Init, PromisedInv, FlowsInv, StandingInv, OriginInv, BaselineInv,
                  VerdictIsEarned, Verdict
<1>2. PromisedInv /\ [Next]_vars => PromisedInv'
  BY TypeStep, FlowsStep, StandingStep, OriginStep, BaselineStep DEF PromisedInv
<1>3. Init => Promised!Init
  BY JobsAssumption DEF Init, Promised!Init
<1>. QED
  BY <1>1, <1>2, <1>3, PromisedStep, PTL DEF Spec, KeepsThePromise, Promised!Spec
=============================================================================
