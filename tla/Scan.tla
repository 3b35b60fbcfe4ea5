-------------------------------- MODULE Scan --------------------------------
(***************************************************************************)
(* One working tree and the `sast` runs a team makes over it: load the     *)
(* baseline, analyse, consolidate twice (collapseFlowFindings and          *)
(* collapseIdenticalFindings), and then either record a new baseline or    *)
(* judge the findings and turn them into the exit status of the pipeline.  *)
(*                                                                         *)
(* A run is sequential; between runs the tree is edited, and a run may be  *)
(* killed at any step, also between creating the baseline file (which      *)
(* truncates it) and writing its only record.                              *)
(***************************************************************************)
EXTENDS Integers, Sequences

CONSTANTS
  Rule,        \* analysis and CWE
  Entry,       \* entry point labels
  File,
  Line,
  Fn,          \* functions
  Symbol,      \* sink symbols, res.status(404).json
  Operation,   \* what sinkOperation keeps of a symbol, json
  Source,      \* a source's label, or what a call is judged about
  Detail,      \* of a flow its channel, data class and source file, of
               \* another finding its Discriminator
  ValuePath,   \* the kinds and symbols of the hops before the sink
  Tree,        \* the states the working tree can be in
  Job,         \* the command lines the pipeline uses
  MaxEdits     \* bound: how often the tree is edited

Site == [at: File \X Line, via: SUBSET File]

(* A taint.Finding.  "flow": it comes from the dataflow analysis; "inner"  *)
(* is the line siteOf prefers to the sink's, "via" the files of the hops,  *)
(* "use" is DependsOnUse # "", "reportable" the judgement of its Context.  *)
Finding ==
  [flow: BOOLEAN, rule: Rule, entry: Entry, file: File, line: Line, fn: Fn,
   symbol: Symbol, source: Source, detail: Detail, path: ValuePath, inner: Line,
   via: SUBSET File, conf: 0..2, anchored: BOOLEAN, use: BOOLEAN,
   reportable: BOOLEAN, sites: SUBSET Site]

(* The code under analysis as the analyses see it, with the policy beside  *)
(* it: what they find, the judgements the policy declares inapplicable,    *)
(* the files nothing names, the capabilities the frontend lacks, and what  *)
(* the expectations come to.                                               *)
TreeState ==
  [flows: Seq({f \in Finding : f.flow}), others: Seq({f \in Finding : ~f.flow}),
   declared: SUBSET (Rule \X Entry), unreached: SUBSET File,
   lacks: SUBSET {"dataflow", "surface"},
   expectation: {"met", "deviates", "violated"}]

Invocation ==
  [write: BOOLEAN, baseline: BOOLEAN, scoped: BOOLEAN, changed: SUBSET File,
   failOn: {"gating", "any", "never"}]

ASSUME SymbolAssumption == Operation \in [Symbol -> STRING]
ASSUME TreeAssumption   == Tree \subseteq TreeState
ASSUME JobAssumption    == Job \subseteq Invocation
ASSUME JobsAssumption   == Job # {}
ASSUME EditsAssumption  == MaxEdits \in Nat

VARIABLES
  tree,      \* the code now
  disk,      \* the baseline file: its state, and the prints a whole one holds
  edits,     \* how often the tree was edited
  recorded,  \* the tree a whole baseline file was recorded from
  job,       \* the run in progress, or the last one
  pc,        \* where it is; "done" between runs
  base,      \* the fingerprints Load returned
  todo,      \* findings the current consolidation has not seen
  kept,      \* findings it keeps, in order
  exit       \* how the last run over this tree ended

vars == <<tree, edits, disk, recorded, job, pc, base, todo, kept, exit>>

-----------------------------------------------------------------------------
(* What only the analyses that follow no flow put into a fingerprint: the  *)
(* dataflow analysis leaves SinkFunction and Discriminator empty, and      *)
(* channel, class and the source's file are no part of it.                 *)
Apart(f) == IF f.flow THEN {} ELSE {<<f.fn, f.detail>>}

(* Defect the checks must find: the line is part of a finding's identity.  *)
FingerprintOfLine(f) ==
  <<f.rule, f.entry, f.file, Apart(f), f.symbol, f.source, f.line>>

(* Fingerprint: nothing that moves with an edit elsewhere in the file.     *)
Fingerprint(f) == <<f.rule, f.entry, f.file, Apart(f), f.symbol, f.source>>

Members(s) == {s[i] : i \in DOMAIN s}

Identity == Rule \X Entry \X File \X (SUBSET (Fn \X Detail)) \X Symbol \X Source

Touches(f, files) ==
  \/ f.file \in files
  \/ f.via \cap files # {}
  \/ \E s \in f.sites : s.at[1] \in files \/ s.via \cap files # {}

SinkLoc(f) == <<f.file, f.line>>
SiteOf(f)  == [at |-> <<f.file, f.inner>>, via |-> f.via]

(* Defect: flows of different entry points are one weakness.               *)
FlowKeyAnyEntry(f) ==
  <<f.rule, f.file, f.fn, Operation[f.symbol], f.source, f.detail, f.path>>

FlowKey(f) ==
  <<f.rule, f.entry, f.file, f.fn, Operation[f.symbol], f.source, f.detail, f.path>>

(* Neither entry point nor channel, class or file of the source.           *)
LineKey(f) == <<f.rule, SinkLoc(f), f.source>>

SlotsOf(Key(_), f) == {i \in DOMAIN kept : Key(kept[i]) = Key(f)}

(* Defect: the finding that loses its place is forgotten.                  *)
CollapseFlowForgets(f) ==
  LET slots == SlotsOf(FlowKey, f)
  IN  IF slots = {} THEN Append(kept, f)
      ELSE LET i == CHOOSE i \in slots : TRUE
               k == kept[i]
           IN  [kept EXCEPT ![i] =
                  IF f.conf > k.conf
                  THEN [f EXCEPT !.sites = @ \cup k.sites]
                  ELSE [k EXCEPT !.sites = @ \cup {SiteOf(f)} \cup f.sites]]

(* The two loop bodies.  Both keep the more confident of two findings in   *)
(* the place of the earlier one; the first one remembers the other as a    *)
(* site, the second one only when it is the earlier that loses.            *)
CollapseFlow(f) ==
  LET slots == SlotsOf(FlowKey, f)
  IN  IF slots = {} THEN Append(kept, f)
      ELSE LET i == CHOOSE i \in slots : TRUE
               k == kept[i]
           IN  [kept EXCEPT ![i] =
                  IF f.conf > k.conf
                  THEN [f EXCEPT !.sites = @ \cup {SiteOf(k)} \cup k.sites]
                  ELSE [k EXCEPT !.sites = @ \cup {SiteOf(f)} \cup f.sites]]

CollapseIdentical(f) ==
  LET slots == SlotsOf(LineKey, f)
  IN  IF slots = {} THEN Append(kept, f)
      ELSE LET i == CHOOSE i \in slots : TRUE
               k == kept[i]
           IN  [kept EXCEPT ![i] =
                  IF f.conf > k.conf
                  THEN [f EXCEPT !.sites =
                          {[at |-> SinkLoc(k), via |-> k.via]} \cup k.sites]
                  ELSE [k EXCEPT !.sites = @ \cup f.sites]]

(* Defect: a judgement about one entry point is taken for the whole rule.  *)
ExemptRule(f) == \E d \in tree.declared : d[1] = f.rule

Exempt(f) == <<f.rule, f.entry>> \in tree.declared

Unanchored(f) == [f EXCEPT !.anchored = @ /\ f.file \notin tree.unreached]

(* The findings of the analyses that follow no flow are appended, and      *)
(* unanchorUnreachedModules goes over all of them.                         *)
Completed ==
  LET all == kept \o tree.others
  IN  [i \in DOMAIN all |-> Unanchored(all[i])]

(* A finding's merits, and the two questions about the run.                *)
IsNew(f)      == Fingerprint(f) \notin base
InScope(f)    == job.scoped => Touches(f, job.changed)
Actionable(f) == f.reportable /\ f.anchored /\ ~f.use /\ f.conf = 2
Gates(f)      == Actionable(f) /\ IsNew(f) /\ InScope(f)

ExpectationGates == "surface" \notin tree.lacks /\ tree.expectation = "violated"

Gating ==
  \/ \E f \in Members(kept) :
       ~f.use /\ f.anchored /\ f.conf = 2 /\ IsNew(f) /\ InScope(f)
  \/ ExpectationGates

AnyFindings ==
  kept # <<>> \/ ("surface" \notin tree.lacks /\ tree.expectation # "met")

GateStatus ==
  IF \/ job.failOn = "any" /\ AnyFindings
     \/ job.failOn = "gating" /\ Gating
  THEN "gating" ELSE "clean"
-----------------------------------------------------------------------------
Ends(status) == pc' = "done" /\ exit' = status

(* The memory of a run goes with it.                                       *)
Forget == base' = {} /\ todo' = <<>> /\ kept' = <<>>

Init ==
  /\ tree \in Tree
  /\ disk = [state |-> "absent", prints |-> {}]
  /\ edits = 0
  /\ recorded = {}
  /\ job = CHOOSE j \in Job : TRUE
  /\ pc = "done"
  /\ base = {}
  /\ todo = <<>>
  /\ kept = <<>>
  /\ exit = "none"

(* The team edits the code, or its policy.                                 *)
Edit ==
  /\ pc = "done"
  /\ edits < MaxEdits /\ edits' = edits + 1
  /\ \E t \in Tree \ {tree} : tree' = t
  /\ Forget
  /\ exit' = "none"
  /\ UNCHANGED <<disk, recorded, job, pc>>

Start ==
  /\ pc = "done"
  /\ \E j \in Job : job' = j
  /\ pc' = "load"
  /\ Forget
  /\ exit' = "none"
  /\ UNCHANGED <<tree, edits, disk, recorded>>

(* Defect: a baseline that does not decode reads as an empty one.          *)
LoadLenient ==
  /\ pc = "load"
  /\ base' = IF job.baseline THEN disk.prints ELSE {}
  /\ todo' = IF "dataflow" \in tree.lacks THEN <<>> ELSE tree.flows
  /\ pc' = "flows"
  /\ UNCHANGED <<tree, edits, disk, recorded, job, kept, exit>>

(* baseline.Load, and then the dataflow analysis, which reports nothing    *)
(* when the frontend lacks a capability it needs.                          *)
Load ==
  /\ pc = "load"
  /\ job.baseline => disk.state = "whole"
  /\ base' = IF job.baseline THEN disk.prints ELSE {}
  /\ todo' = IF "dataflow" \in tree.lacks THEN <<>> ELSE tree.flows
  /\ pc' = "flows"
  /\ UNCHANGED <<tree, edits, disk, recorded, job, kept, exit>>

(* No such baseline file, or one that does not decode.                     *)
LoadRefuses ==
  /\ pc = "load"
  /\ job.baseline /\ disk.state # "whole"
  /\ Ends("error")
  /\ Forget
  /\ UNCHANGED <<tree, edits, disk, recorded, job>>

CollapseFlowStep ==
  /\ pc = "flows" /\ todo # <<>>
  /\ kept' = CollapseFlow(Head(todo))
  /\ todo' = Tail(todo)
  /\ UNCHANGED <<tree, edits, disk, recorded, job, pc, base, exit>>

DeclareBegin ==
  /\ pc = "flows" /\ todo = <<>>
  /\ todo' = kept
  /\ kept' = <<>>
  /\ pc' = "declare"
  /\ UNCHANGED <<tree, edits, disk, recorded, job, base, exit>>

(* applyDeclarations: what the policy declares inapplicable is taken out.  *)
DeclareStep ==
  /\ pc = "declare" /\ todo # <<>>
  /\ kept' = IF Exempt(Head(todo)) THEN kept ELSE Append(kept, Head(todo))
  /\ todo' = Tail(todo)
  /\ UNCHANGED <<tree, edits, disk, recorded, job, pc, base, exit>>

Complete ==
  /\ pc = "declare" /\ todo = <<>>
  /\ todo' = Completed
  /\ kept' = <<>>
  /\ pc' = "lines"
  /\ UNCHANGED <<tree, edits, disk, recorded, job, base, exit>>

CollapseIdenticalStep ==
  /\ pc = "lines" /\ todo # <<>>
  /\ kept' = CollapseIdentical(Head(todo))
  /\ todo' = Tail(todo)
  /\ UNCHANGED <<tree, edits, disk, recorded, job, pc, base, exit>>

(* Judging: a capability that is missing is told apart from a clean scan.  *)
Judge ==
  /\ pc = "lines" /\ todo = <<>>
  /\ ~job.write
  /\ Ends(IF tree.lacks # {} THEN "notApplicable" ELSE GateStatus)
  /\ UNCHANGED <<tree, edits, disk, recorded, job, base, todo, kept>>

(* Recording: os.Create, then one Encode of every finding the run kept,    *)
(* whatever Gates says of it.  The run can still be killed after that.     *)
CreateBaseline ==
  /\ pc = "lines" /\ todo = <<>>
  /\ job.write
  /\ disk' = [state |-> "torn", prints |-> {}]
  /\ recorded' = {}
  /\ pc' = "write"
  /\ UNCHANGED <<tree, edits, job, base, todo, kept, exit>>

WriteBaseline ==
  /\ pc = "write"
  /\ disk' = [state |-> "whole",
              prints |-> {Fingerprint(f) : f \in Members(kept)}]
  /\ recorded' = {tree}
  /\ \E status \in {"clean", "killed"} : Ends(status)
  /\ UNCHANGED <<tree, edits, job, base, todo, kept>>

(* The file cannot be created, or its record cannot be written whole.      *)
RecordFails ==
  /\ job.write
  /\ \/ pc = "lines" /\ todo = <<>>
     \/ pc = "write"
  /\ Ends("error")
  /\ Forget
  /\ UNCHANGED <<tree, edits, disk, recorded, job>>

Killed ==
  /\ pc # "done"
  /\ Ends("killed")
  /\ Forget
  /\ UNCHANGED <<tree, edits, disk, recorded, job>>

RunStep == Load \/ LoadRefuses \/ CollapseFlowStep \/ DeclareBegin
             \/ DeclareStep \/ Complete \/ CollapseIdenticalStep \/ Judge
             \/ CreateBaseline \/ WriteBaseline \/ RecordFails

Next == Edit \/ Start \/ RunStep \/ Killed

Spec == Init /\ [][Next]_vars
-----------------------------------------------------------------------------
TypeOK ==
  /\ tree \in Tree
  /\ edits \in 0..MaxEdits
  /\ disk \in [state: {"absent", "torn", "whole"}, prints: SUBSET Identity]
  /\ recorded \subseteq Tree
  /\ job \in Job
  /\ pc \in {"done", "load", "flows", "declare", "lines", "write"}
  /\ base \subseteq Identity
  /\ todo \in Seq(Finding)
  /\ kept \in Seq(Finding)
  /\ exit \in {"none", "clean", "gating", "error", "notApplicable", "killed"}

-----------------------------------------------------------------------------
(* What the analyses report of a tree, without the declared judgements.    *)
FlowsOf(t)  == IF "dataflow" \in t.lacks THEN {} ELSE Members(t.flows)
Reported(t) == Members(t.others) \cup
                 {f \in FlowsOf(t) : <<f.rule, f.entry>> \notin t.declared}

Consolidated == pc = "lines" /\ todo = <<>>
Verdict      == exit \in {"clean", "gating"} /\ ~job.write

(* A finding that answers for another: the same judgement, no less         *)
(* confident, and the other's line is its own or one of its sites.         *)
AnswersFor(k, f) ==
  /\ k.rule = f.rule
  /\ k.conf >= f.conf
  /\ \/ SinkLoc(k) = SinkLoc(f)
     \/ \E s \in k.sites : s.at \in {SinkLoc(f), SiteOf(f).at}

(* Consolidating flows removes findings and no evidence: every flow of the *)
(* analysis has a kept finding that answers for it, whatever the order     *)
(* they came in and whichever replaced which.                              *)
FlowSitesKept ==
  pc = "flows" /\ todo = <<>>
    => \A f \in FlowsOf(tree) : \E k \in Members(kept) : AnswersFor(k, f)

StandsFor(k, f) == /\ k.rule = f.rule /\ k.source = f.source
                   /\ k.file = f.file /\ k.conf >= f.conf

(* No consolidation takes the last finding of a rule (analysis and CWE)    *)
(* about a label away from a file, or leaves a less confident one, though  *)
(* the second merges what the first kept apart (entry points, channels,    *)
(* classes, files of the source), and a declaration about one entry point  *)
(* does not take along what another one reaches.                           *)
ConfidenceKept ==
  Consolidated =>
    \A f \in Reported(tree) : \E k \in Members(kept) : StandsFor(k, f)

(* Two trees that differ in line numbers only, no two lines becoming one.  *)
MovedBy(m, f) == [f EXCEPT !.line = m[@], !.inner = m[@]]

SameUpToLines(s, t) ==
  \E m \in [Line -> Line] :
    /\ \A a, b \in Line : m[a] = m[b] => a = b
    /\ t = [s EXCEPT !.flows  = [i \in DOMAIN @ |-> MovedBy(m, @[i])],
                     !.others = [i \in DOMAIN @ |-> MovedBy(m, @[i])]]

(* A run over the code its baseline was recorded from fails on nothing but *)
(* an expectation, also after lines moved, and whatever happened between.  *)
RecordedCodeIsQuiet ==
  exit = "gating" /\ job.failOn = "gating" /\ job.baseline
    => ExpectationGates \/ \A t \in recorded : ~SameUpToLines(t, tree)

(* A verdict is earned: every analysis could run, and the baseline judged  *)
(* against is one a run finished writing, never what a kill left behind.   *)
VerdictIsEarned ==
  Verdict => /\ tree.lacks = {}
             /\ job.baseline => disk.state = "whole" /\ base = disk.prints
-----------------------------------------------------------------------------
(* Pipeline, which knows nothing of consolidations and of what a kill can  *)
(* fall between, over the same code, command lines and file.               *)
SameWeakness(f, g) == f.rule = g.rule /\ f.source = g.source /\ f.file = g.file

Threatens(t, f) == ~ f.use /\ f.anchored /\ f.file \notin t.unreached

PrintsOf(F) == {Fingerprint(f) : f \in F}

ReportOf(t) ==
  [names    |-> PrintsOf(Reported(t)),
   places   |-> {PrintsOf({g \in Reported(t) : SameWeakness(f, g)}) : f \in Reported(t)},
   grave    |-> PrintsOf({f \in Reported(t) : f.conf = 2 /\ Threatens(t, f)}),
   sure     |-> {PrintsOf({g \in Reported(t) : g.conf = 2 /\ SameWeakness(f, g)}) :
                   f \in {g \in Reported(t) : g.conf = 2}},
   excused  |-> PrintsOf({f \in Reported(t) : ~ Threatens(t, f)}),
   complete |-> t.lacks = {},
   deviates |-> "surface" \notin t.lacks /\ t.expectation # "met",
   violated |-> "surface" \notin t.lacks /\ t.expectation = "violated"]

Promised ==
  INSTANCE Pipeline WITH
    Code <- Tree, Command <- Job, Name <- Identity,
    Report <- [t \in Tree |-> ReportOf(t)],
    code <- tree, command <- job, outcome <- exit, running <- pc # "done",
    record <- [state |-> disk.state, names |-> disk.prints]

(* Every history of runs, edits, kills and recordings is one of Pipeline:  *)
(* the loops over findings (scan.go 230-416) and the two steps of a        *)
(* recording (baseline.go 40-60) come to one judgement of the code as it   *)
(* stands, in which no finding made with certainty goes unanswered.        *)
KeepsThePromise == Promised!Spec

-----------------------------------------------------------------------------
(* Sentences of the repository that the code does not keep, each checked   *)
(* by a run of its own.                                                    *)

(* Gates is "the single definition" of a finding that fails the run.       *)
GatesIsTheGate ==
  exit = "gating" /\ job.failOn = "gating"
    => ExpectationGates \/ \E k \in Members(kept) : Gates(k)

(* "A finding the baseline does not know is new, and gates, even when its  *)
(* neighbours are recorded": here one on an entry point no record is of.   *)
NewEntryGates ==
  exit = "clean" /\ Verdict /\ job.failOn = "gating" /\ job.baseline /\ ~job.scoped
    => \A f \in Reported(tree) :
         Actionable(Unanchored(f)) => \E p \in base : p[1] = f.rule /\ p[2] = f.entry

(* "RelatedSites retains each branch and its evidence path": at the end,   *)
(* too, every undeclared finding has one that answers for it.              *)
EverySiteIsKept ==
  Consolidated => \A f \in Reported(tree) : \E k \in Members(kept) : AnswersFor(k, f)

(* "Two equal parameter names in unrelated request paths are not evidence  *)
(* of one value": what the first consolidation kept apart for its channel, *)
(* class or file has a finding of its own at the end, too.                 *)
ValuesStayApart ==
  Consolidated => \A f \in Reported(tree) :
    \E k \in Members(kept) : StandsFor(k, f) /\ k.detail = f.detail

(* "The whole evidence path counts, not just the sink": an actionable      *)
(* finding whose path the change touched fails the run.                    *)
ChangedPathGates ==
  exit = "clean" /\ Verdict /\ job.failOn = "gating" /\ ~job.baseline
    => \A f \in Reported(tree) : Actionable(Unanchored(f)) => ~InScope(f)

(* Recording every finding keeps "the rest" from becoming "new on the      *)
(* first run that raises their confidence".                                *)
RaisedStaysRecorded ==
  exit = "gating" /\ job.failOn = "gating" /\ job.baseline /\ ~ExpectationGates
    => \A t \in recorded :
         ~ /\ Len(tree.flows) = Len(t.flows)
           /\ \A i \in DOMAIN t.flows :
                \E c \in t.flows[i].conf .. 2 :
                  tree.flows[i] = [t.flows[i] EXCEPT !.conf = c]
           /\ [tree EXCEPT !.flows = t.flows] = t

(* A fingerprint is built from "the file and function holding the          *)
(* operation": a function with nothing recorded is new.                    *)
NewFunctionGates ==
  exit = "clean" /\ Verdict /\ job.failOn = "gating" /\ job.baseline /\ ~job.scoped
    => \A f \in Reported(tree), t \in recorded :
         Actionable(Unanchored(f)) => \E g \in Reported(t) : g.fn = f.fn

(* "An empty baseline asserts that the codebase was clean when it was      *)
(* written."                                                               *)
EmptyMeansClean ==
  disk.state = "whole" /\ disk.prints = {}
    => \A t \in recorded : Reported([t EXCEPT !.lacks = {}]) = {}
=============================================================================
