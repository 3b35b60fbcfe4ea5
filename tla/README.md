# Models and proofs of sast-engine

sast-engine is a static analyser. A frontend (TypeScript or Python) lowers a
program to an intermediate representation; the Go core enumerates its entry
points, follows classified values through it, judges what reaches dangerous
operations and what is missing in front of them, consolidates the findings and
turns them into the exit status of a pipeline. There is one process, one
goroutine and no shared state. What is hard in it is

- ORDER: worklists that displace what they kept, tables settled in place by sweeps
  over edges in listed order, facts read before they are complete;
- what a judgement about the TEXT of a program says about its EXECUTIONS: almost
  every rule turns "runs before", "on every way", "only when" into a question about a
  block graph;
- what happens ACROSS RUNS: a baseline recorded by one run and judged against by
  another, over code that was edited, with runs that are killed.

The models follow that: the loops of the core are state machines, and most
analyses are held against executions. The specification computes what the code
computes, then the analysed function runs, statement by statement, and the
properties relate the two.

## Inventory

| component (source below `core/internal` unless it says otherwise) | state | operations | what makes it correct |
|---|---|---|---|
| **cfg** | post-dominators, dominators, reached blocks of one function | `Build`, first `Dominates`; then pure queries | the sets are exactly what paths say; the sweeps end; the queries mean what they are used for |
| **taint**, seeding (`seedSources`) | per class: seeds, the columns of known rows | one source rule after another | what is seeded is something the named entry point really hands over |
| **taint**, propagation | per class: classified values, one witness edge each, rows and columns, worklist | `propagate`, `throughCall`, returns, `markTainted` | ends; nothing carries the class unnoticed; every witness is a path to a source; the kept path is the least excused |
| **taint**, judgement (`taint.go` collect, `admission.go`) | findings, skipped policies | `collect`, `buildFinding`, admission, headers | an untouched route is reported; what is credited was answered for by the program |
| **reachdef** | versions of reassigned locals | `Split` | a use keeps the definition that ran last |
| **scope** | what every value carries of the request's identifiers | `propagate`, `judge`, `judgeAuthority` | the fixpoint is exact; a record nothing ties to the check is reported |
| **guard** | none | one rule per question, about a function, its peers or its mounts | a report is about something a run does; what a run does is not passed over |
| **store** | none | `Analyze`, the ascent through callers | what is filed under a caller's key was looked up, or is reported |
| **flow** | edges from handlers to views | `JoinViews` | every real path from a handler into a page is one sink |
| **surface**, **policy**, **expectation** | entry points, controls, declarations, deviations | `Build`, `Load`, `Analyze` | no route silently without judgement; the verdict on completeness is earned |
| **model** | rule tables; cost and language of regular expressions | pure | the verdict on a pattern holds of the words it accepts |
| **scan** | the findings of a run | `Run`, both consolidations, `Gating` | consolidating loses no judgement; one definition of the gate |
| **baseline**, **sast** (`core/cmd/sast`) | the baseline file | `Load`, `Write`, `run` | recorded code is quiet, new code is not; a torn file is refused |
| **frontends** (`frontends/`) | current block, loop targets, pending edges | the walk over statements | what the block graph says of a function holds of its executions |
| **callshape, decision, literal** | none | `Analyze` | one match of a rule per call, comparison or literal |
| **report, ledger, assertion, bench, review loop** | none (the loop: a work directory) | rendering, accounting | - |

`sast` loads an IR and a baseline and calls `scan.Run`; that calls `flow`,
`surface`, `taint` (which calls `reachdef` and asks `cfg`), the stateless analyses
(some given the classified values), `expectation`, and consolidates; `sast`
records or judges. There are no callbacks and no messages; the only state that
outlives a process is the baseline file. `PROJECT.json` lists the hazards of
this code at their lines.

## Modules

```
Cfg ── Runs ── Guards, AcrossFunctions, Scope      (graph; its executions; judgements)
    └─ Reachdef ── Admission                        (splitting; belief in checks)
Taint ── TaintHops                                  (propagation; tables of programs)
      └─ Collect ─ Channels                         (judgement)
TaintEvidence ⊑ Taint          Pipeline ⊑ Scan      (abstract specifications)
Lowering ── LoweredRuns                             (frontends; what the text means)
Surface ── Expectation, Flow, Credential            (what analyses are given)
Seeds ── SeedIntakes                                (where a class begins)
Store, Regex, Omissions, Declared                   (judgements without paths)
```

| module | models | state and steps |
|---|---|---|
| `Cfg` | `cfg.go` whole, `reachedThrough` | one iteration of a Go loop a step: `PostStep`, `PostSweepEnd`, `ReachStep`, `DomStep`, `DomSweepEnd`; the searches of the queries are least closed sets |
| `Runs` | executions of a function on its graph (not code of the engine) | `here`, `pc`, `trace`: `RunStatement`, `RunBranch`. It starts where `Cfg` ends (`Analysed`) |
| `Seeds`, `SeedIntakes` | `seedSources`, all eleven kinds of source rule, the entry point above a function, the store a callee names; programs for it | `Sow` a rule, `Mark` a value it claims, one a step |
| `Taint` | `propagate`, `markTainted` | one decision a step: `Sow` a seed, `Take` a value off the worklist, `Follow`/`Stop` a hop, `Leave`/`Return` a function |
| `TaintHops` | `build`, `throughCall`, `throughDestructuredArg`, `throughReceiver` | a lowered program as the table of hops `Taint` reads |
| `TaintEvidence` | abstract: evidence is a forest that only improves | refined by `Taint` |
| `Channels`, `Collect` | which calls are a channel; what `collect` and `buildFinding` make of a finished propagation | `Propagate`, `StartCollecting`, then one judgement of a value at a channel a step |
| `Reachdef` | `Split`: kills, rewiring, versions | one value a step; then the function runs (exceptions included), remembering which definition ran last |
| `Admission` | `admission.go`, the response headers, pattern guards | the function runs on requests, its checks answer by what they compare |
| `Guards` | the rules about one function: refusals, omitted controls, discarded restrictions, late file modes, forwarded credentials | `Judge`, then the function runs |
| `AcrossFunctions` | peers of one module (`omitted.go`), limiters mounted before a handler (`limiter.go`) | the rules, then one function runs for some request |
| `Scope` | both relations of `scope` | `Carry`, `CarryAgain` (one edge of `propagate`), `Judge` (one operation), then the handler runs, calling its callbacks or not (`SkipCallback`) |
| `Lowering`, `LoweredRuns` | the statement walks of `lower.ts` and `lower.py` | each step reads one statement of a grammar or ends an open one; then the text is executed beside its graph |
| `Surface`, `Expectation` | entry points, controls, the work behind them, completeness; declared and inferred requirements | the application is edited by its team between runs; every judgement is a function of it |
| `Flow` | `JoinViews`: contexts built, updated, written, handed on, renamed by loops and mappings | `FlStep`: a render is taken, a view opened, a sink written, a step each; `ScanAgain` runs it over the joined program |
| `Credential` | recognition of the secret a handler looks a record up by | one step: a function of the handler |
| `Store` | what is filed under which key, the excuses, the ascent | the rule, then requests run |
| `Regex` | `redos.go`, `regexparse.go` | one token a step, scanner and parser at once; a matcher over bounded words is the reference |
| `Omissions` | siblings, unapplied permissions, forgery checks, the key a limiter counts by and the settings around it, listeners that refuse and are called again, answers built and let fall | one step: a function of the program and of which of the seven questions is asked |
| `Declared` | `scope/declared.go`: what a class declares it checks and selects, what its methods operate on | one statement of a method a step, then the class; then a request that passes the check is served |
| `Scan` | `scan.Run` behind the analyses, `baseline`, `sast`'s `run` | one finding a step of each consolidation, the file written in two steps, `Edit` between runs, `Killed` anywhere |
| `Pipeline` | abstract: one judgement of the code as it stands | refined by `Scan` |

`MC*` modules hold the families of programs TLC enumerates, `*Proofs` the theorems.
Values, calls, blocks and functions are numbers or model values; names, locations
and wording appear only where a property tells them apart.

## Runs

| run | shows | why the bounds are enough |
|---|---|---|
| `cfg_all` | the iterations end, at exactly the dominators, and the queries mean what paths mean | every graph of 3 blocks with at most 2 arms (1000) holds every way to nest a diamond or a loop with an orphan; five lowered handlers of up to 10 blocks add nesting |
| `taint_all` | propagation ends, misses no hop, keeps the least excused chain and a forest of evidence | programs over 10 values, 2 functions, 3 call sites, every subset of the flows, two seeds in either order; `HopLimit` 8 (64 in the code) is longer than their longest witness |
| `collect_all` | an untouched route to a channel is reported, an unowned access is answered for, knowing less drops nothing | two routes, two callers, helpers of helpers, every fact a frontend may leave out |
| `reachdef_all` | the definition that ran last feeds the use | two definitions and a use in every placement, order and line on five shapes, with exceptions |
| `admission_all` | what is credited was matched by the program's data; a silenced body is not markup | two assignments, a question and an operation in every placement; every polarity of a branch |
| `guards_all` | `RefusedWorkRuns`, `LeftUndoneIsReported`, `ForwardCarriesCredentials` | what each rule looks for in every placement on the lowered shapes; `MaxTrace` 7 covers one round of a loop |
| `across_functions` | a run that leaves its peers' question unasked, or work uncounted, is reported | three peers; a counter and a handler under every pair of conditions |
| `scope_all` | the fixpoint is exact; an operation on a record nothing ties to its check is reported | every placement of check, lookup or comparison and operation on two shapes; lists of up to five edges in every order; callbacks called or not |
| `lowering_all` | control never follows a jump; what the graph says is reached, passed before and passed after holds | every function of up to four statements in nine grammars |
| `inputs` | no route goes quiet and doubt is not outgrown; writes arrive as sinks and the join ends; the secret's lookup is known; sources are earned | five routes, two routers, pages that extend and include, helpers two deep; for seeds two functions under two entry points, and a writer and a reader of two tables |
| `analyses` | filed keys were looked up and excuses hold; verdicts hold of the words; accusations are true; a record elsewhere that a declared check lets a request reach is reported | a handler and a helper, call graphs of two routes; all patterns over small token sets with words up to 4; two handlers of one module, their steps in every order; every subset and order of up to three settings, of a listener's steps, of the uses of an answer; two views that inherit one method of up to five statements |
| `scan` | recorded code is quiet, verdicts are earned, consolidating loses nothing, and all of it is `Pipeline` | trees of up to two findings, of one or several channels, and one edit: a baseline is compared with one tree at a time, so every pair occurs |

A run whose system stops when it is done does not check deadlock; `scan` does.
Every property has a mutant, an operator marked "Defect" in its module, under
which TLC finds it violated.

**Fairness.** `FairSpec` of `Cfg` and `Taint` and `InSpec` of `MCInputs` are weakly
fair in their own steps: each is a loop on one thread that nothing blocks, so an
iteration that can be taken is taken. They carry `Finishes`, `Terminates` and
`JoinEnds`. No other liveness is claimed: a program under analysis need not go on,
and a run may be killed at every step.

### What the properties say

- `ReachedExact`, `PostDominatorsExact`, `DominatorsExact`: the sets are those of
  regions (`a` cuts `b` off when some region holding the entry is left only through `a`
  and does not hold `b`). `RepetitionsAreCycles`: a block repeats exactly when it lies on
  a cycle inside what its header dominates. `PolaritiesAgree`: two ways to ask which
  arm selects a position never name different arms.
- `WitnessesReachASeed`, `KeepsEvidence`: nothing explains itself, and evidence only
  improves. `NothingLeftToCarry`, `KeptChainIsBest`: at the end no hop is left that the
  value alone decides, and none offers a less excused chain.
- `OnlyDeadDefinitionsDropped`, `CreditedValueWasMatched`, `SilencedBodyIsNotMarkup`,
  `RefusedWorkRuns`, `LeftUndoneIsReported`, `ForwardCarriesCredentials`,
  `OmittedElsewhereIsReported`, `UnownedRecordIsReported`: statements about executions,
  named for what they say.
- `ExcusesHold`: what is filed under a caller's key was looked up first, or is reported,
  and each reason to keep silent holds of the run. `DeclaredSelectionIsJudged`: a request
  whose fields pass the declared check reaches no record elsewhere unreported, by the
  framework's selection or in a method, and what is reported some request reaches.
- `KeysAreExact`: a value carries a key exactly when a path of edges leads there, and
  carries it directly exactly when one that encloses it nowhere does.
- `NothingGoesQuiet`, `DoubtIsNotOutgrown`: a route that lacks what its peers or a
  declaration demand is reported, exempted or named as unjudged, and the reasons
  given for an incomplete surface are true; scanning more does not clear a doubt.
- `SourcesAreEarned`: what is seeded under an entry point is read by something that
  entry point serves; a capture no converter limits is seeded as such; a row counts
  as another's only when someone else writes it, in the columns named.
- `TheSecretsLookupIsKnown`: the lookup cited for a secret was handed that secret, the
  handler's own keyed lookup is found however the secret was wrapped or renamed, and a
  handler sent a secret reads input.
- `AccusationsAreTrue`: what a rule says is missing is missing. A handler with no
  caller's word in its bucket's key is not accused, nor a listener that stops being
  called, nor an answer that some use consumes. Each of the seven parts names what it
  supposes of a program. A write path is accused only if a read path asks about a value
  the caller chose and the write path operates on that value, or on one beside it in the
  same part of the request (`WorksOnAll` rules the second out).
- `WritesArriveAsSinks`, `JoinEnds`: a value handed to a page is a sink wherever the page
  writes it, once, if mappings are built before they are written into
  (`BuiltThenWritten`) and loops around an include stand alone (`LoopsStandAlone`); the
  join of views that extend and include each other in circles ends, unless a loop around
  an include runs over a part of its own variable (`NamesAreApart`).
- `RunsFollowTheGraph`: what the block graph of a text says is reached, passed before and
  passed after holds of its executions, if no jump goes past a finally and control comes
  to the end of every arm of a switch.
- `CreditedValueWasMatched`, above, is about values that are not assigned or appended to
  where the answer was YES, branches that are not taken again in a loop after a NO, and
  callees that say YES to what they match.
- `ConfidenceKept`: the second consolidation merges findings of one line whatever their
  entry point, channel, class or source file, so what stands for a finding is one of its
  rule (analysis and CWE) about the same label in the same file.
- `RecordedCodeIsQuiet`, `VerdictIsEarned`, `FlowSitesKept`,
  `KeepsThePromise`: see `Scan`; the last is the refinement of `Pipeline`.

## What is proved

For every value of the constants, from the named assumptions on them, which only
state shapes (a function links its own blocks, `LoweredFnAssumption`; a handler's
calls are numbered from their hosts, `HandlerAssumption`; a class declares keys and its
methods are sequences of statements, `ApplicationAssumption`; calls carry arguments and
routes captures, `IntakesAssumption`; values and calls of a handler's functions,
`HandlersAssumption`; trees and command lines, `TreeAssumption`, `JobAssumption`). TLC
evaluates each of them on the runs.

**Cfg** (`CfgProofs`). `TypeCorrect`, `NeverTooSmallCorrect`, `ReachedCorrect`,
`PostDominatorsCorrect`, `DominatorsCorrect`, `SetsOnlyShrinkCorrect`. That the sets are
above the answer is inductive, as a region cut off from the exits by `a` is cut
off for each successor. That they are at most the answer needs what a sweep
without change establishes: while `changed` is false every block the sweep passed
satisfies its equation, so at the end the complement of a set is itself a region.
Sets only shrink because each is never below the meet of its neighbours
(`ShrinkInv`). `RepetitionsCorrect` and `PolaritiesCorrect` then reason about regions
only: a natural loop is exactly the part of a header's region that leads back.

**Taint** (`TaintProofs`). `TypeCorrect`, `WitnessesGrounded`, `EvidenceKept`,
`NothingIsLeft`, `BestChainIsKept`. `WitnessesReachASeed` is not inductive: displacing an
edge could close a cycle. `ChainsGrow` says a kept chain never says more than the
one it continues; a displacing edge is strictly better than the old chain of its
target, so its source cannot lie behind the target. The last two rest on
`CarriedInv`: each hop of a classified value has been offered, or the value waits in
the queue, or it is at hand with the hop still to come.

**Collect** (`TaintProofs`). `UntouchedCorrect`, `UnownedAnswered`, `KnowingLessCorrect`.
A seed without a converter has the least chain once sown (`SeedsSown`), `CarriedInv`
hands the least chain on along every untouched route, and on the kept path of a value
with the least chain every value has it, so no hop of it names a sanitizer (`KeptHops`,
`LeastPath`). That `tracePath` prints that path whole is `TracePath`: the walk back
repeats no value and there are only so many. `CollectInv` says that collect starts when
nothing moves any more and that each judgement due is pending or on record. Where there
is one route, a seed in the middle of the printed path would be a second one
(`OneRouteOneOrigin`), so the entry that is named is the entry the path starts at.

**Reachdef** (`ReachdefProofs`). `RdTypeCorrect`, and `DroppedIsDead`: the definition
that ran last is never dropped. `NotRunYet(j)` describes where control can be
before `j` ran; no step leads out of it but running `j`; while `i` ran last, whatever `i`
cannot follow has not run. Under `RunsAsPlaced(fn)`: statements run in the order of
their lines, and a handler of a try follows its region.

**Admission** (`ReachdefProofs`). `SilencedCorrect`: a body reported silent is none a
browser runs. A header whose call dominates the send has run (`MustHaveRun`), and what it
says stands until another call says the same header (`ResponseInv`). Under
`HeadersHold(fn)`: calls stand in source order, one after the other, and no header takes
back what an earlier one said. The second is
needed: in the functions that replace a header (family `replaced` of `MCAdmission`, not in
the run) TLC finds the property violated.

**Runs** (`CfgProofs`, lemmas): of any execution, everything in front of control in
its block ran, every dominating block ran to its end, and the blocks of what ran
lead to each other in order (`RunInv`).

**Guards** (`GuardsProofs`). `RefusedCorrect` (the work named after a refusal is
done by the time a run that refused returns: `DoneOrAhead`, done, or still in a block that
post-dominates the current one), `ForwardedCorrect` (what is reported is sent to an
authority that was written over with a credential still in it), and `LeftUndoneCorrect`
(nothing the other three rules are for is passed over), by `UnaskedCorrect`,
`AbandonedCorrect` and `LateCorrect`. Under `StandsWhereListed(fn)`: a statement stands in
the block it is listed in and nowhere else; `ForwardedCorrect` also that a block
runs in location order (`RunsAsWritten`), `LateCorrect` that no handle is written
twice (`WritesEachFileOnce`, as the rule looks at the first write it finds alone):
what ran in order dominates in order (`RanInOrder`), and the rule's first write is
the one that ran (`OnlyWriteIsFirst`).

**Across functions** (`AcrossProofs`). `OmittedCorrect`, two arguments. In whatever order
the edges are listed, the table `observe` builds traces a value only to a parameter it came
out of (`OriginsAreSound`, an invariant of each of the three loops of a round), so a
decision that gates the operation asked about what is operated on, and one that
dominates it has run. And of a request that a counter is under, `CounterInv` says that the
counter ran, or control is where nothing leaves past its block, or past the branch that
alone decides it: the arm taken is the arm the predicate was read on (`AnswerIsTheArm`).
Under `AsSupposed`, which TLC finds true of every function of `across_functions`: calls stand
where they are listed; a decision on the block of an operation stands before it, operations
of one name share a block, and two rounds reach what is operated on (peers); a counter is
behind no branch, or behind one comparison with the request that every run makes
(limiters). For counters behind two comparisons (family `nested` of `MCAcrossFunctions`)
the last fails; nothing is claimed of them.

**Scope** (`ScopeProofs`). `KeysCorrect`: nothing is in the table that no path leads to,
and while a sweep has changed nothing, the edges it passed change nothing; a table a
whole sweep leaves alone is closed. That holds although the transfer is not monotone.
`UnownedCorrect`: silence about an operation is justified by something that ran
before it. `BehindInv` says what lies behind an execution that may skip callbacks,
`JudgedInv` that every operation judged so far was reported or its suspects were.
Under `RunsAsListed(fn)`: calls of one frame run in the order they are listed, a
callback right behind the call it was handed to, a block compares before it operates.
`DeclaredCorrect`: `MadeInv` says that what a value is made of is exactly the sources
that lead to it by the statements that ran, `ReadsAreExact` that at a statement this is
already all of them, so what `judgeHandler` closes over the whole body is what the method
has in hand, and `DeclaredInv` that what is filed is exactly what the statements and
classes judged so far give rise to, a name once a method. Under `ServedAsWritten(app)`: a value is written once, or filled by enclosures, before it is
read; every source is written; a field that bears the name of an authorized key is the
one of the route. TLC finds it true of every application of the run; family `names` of
`MCAnalyses` breaks its last part, and the property with it.

**Scan** (`ScanProofs`). `TypeCorrect`, `FlowSitesCorrect`, `ConfidenceCorrect`,
`VerdictCorrect`, `RecordedCorrect` and `PipelineImplemented`. The invariants speak of
the findings already seen: each is stood for by a kept one or still to come, and the
answer survives both ways a place is taken. The second consolidation knows less of a
finding than the first (`LineKey`), so what `ConfidenceCorrect` keeps of it is what both
know. `RecordedCodeIsQuiet` compares two runs:
`HistoryInv` ties every intermediate table of a run to a history that depends only on
the findings without their lines, so that runs over trees that differ in lines go
through the same steps. The refinement maps the loops to stutters, and the step that
ends a run to one judgement.

**Lowering** (`InputProofs`). `LoweringTypes`: the graph is whole at every step
(`GraphIsWhole`): successors, the blocks open statements set aside (`FramesFit`) and the
targets of jumps (`Aims`) are blocks that were made, and statements are placed in one
(`PlacesExist`). `NothingFollowsLeaving`: the walk links again, later, from blocks it set
aside; `LowerInv` says that none of those was left, that none is current, and that no two
open statements hold the same one.

**Expectation** (`InputProofs`). `QuietCorrect`, under `LabelsTellApart`: suppression and
declarations go by label, and family `twins` of `MCInputs`, two routes of one label,
breaks the property. What the engine calls unreached is what no request runs, because the
search behind an entry is the least closed set (`ReachedIsRun`); populations count as
many as the router has routes, as no two routes have the same facts; and the last
binding of a name is the route's because bindings of the application come first
(`ApplicationFirst`). `DoubtCorrect` has no hypothesis: the share of input left
unreached falls only if more of the code that reads input is run, and an application
that serves nothing remote leaves all of it unreached.

**Seeds** (`InputProofs`). `SourcesCorrect`. `EntryOfServes`: `EntryOf` finds an entry point that
makes a function run wherever there is one. Each step up the calls reaches one
function more or none can be reached, so as many steps as there are functions
are enough (`ReachedIsClosed`, by counting). `ClaimsAreSound`: each rule claims only what its own
definition allows; `SaidIsClaimed` and `OthersRowIsClaimed` are the converse, for captures
and for rows. The property is not inductive, as its completeness halves only speak of
the end. `SdInv` says that what is marked was claimed, that a row's columns are those of one
claim on it, the last one if that names any, and that nothing is lost: every claim of a rule already sown is pending or
told, and no later mark takes it back.

**Credential** (`InputProofs`). `CredentialCorrect`. `SpreadHas`: what the walk reaches is
closed under enclosing and assigning, each carrier once and met from one reached
before it; there are only so many values, so the walk ends (`OnceIsShort`). A
lookup it cites was handed the secret because every carrier is found to hold it when the
program runs, under the key it was reached by (`SpreadIsFound`), and what is handed on
arrives (`HandedToArrives`). A handler's own lookup is not missed because whatever comes
to hold the secret there was reached (`OnwardIsKept`). The first rests on `FillsAsStated`: a
written argument fills the parameter `ir.go:604` says it does. The second is about
handlers `KeptInHand`: values belong to one function, nothing calls the handler, and a
secret put into an object is not read back out of it, which the engine does not follow. TLC evaluates both for every handler of the run
(`SupposedAssumption`).

The hypotheses on `fn` are about the program analysed, not about the engine. They
are not idle: a frontend breaks `RunsAsPlaced` for statements written over several
lines and for `finally` (below), and `RunsAsWritten` for a call that is an argument of
another (it runs first and stands behind). TLC finds `WritesEachFileOnce` true of
every function of `guards_all`.

### Only model-checked, and why

- Liveness (`Finishes`, `Terminates`, `JoinEnds`) needs fairness and ENABLED.
- The induction theorems of the library take an operator as a parameter, which the
  provers cannot instantiate. Walks that iterate one step (`tracePath`, `receiverMadeBy`,
  the routes of `ReachedUntouched`) are unfolded instead by showing that the iterates
  exist (`IterationUpTo`, `Iteration`). Not done for the walks of `Admission`
  (`CreditedValueWasMatched`), closures of edges and folds
  over a program (`WritesArriveAsSinks`, `ExcusesHold`,
  `AccusationsAreTrue`), a text executed beside its graph (`RunsFollowTheGraph`), and `TaintHops`, whose tables are
  folded over programs.
- Definitions by RECURSIVE operators (`VerdictsHoldOfTheWords`: a matcher).

## What the code does not keep

Met while modelling. Each is an operator of its module that no run checks, a family of
its MC module left out of the runs, or a hypothesis a property names: it can be reproduced
by adding the operator or the family to a configuration, or by taking the hypothesis out
of the property (then in the family named with it, which is in the run).

| what the repository says | what the code does | reproduce |
|---|---|---|
| `admission.go:715`, a position was reached by the program answering yes | accepts one the no-arm reaches too | `Cfg!ReachedThroughMeansYes` |
| `cfg.go:138`, a branch controls what only one arm reaches | an endless arm is post-dominated by everything | `Cfg!ControlDependsLeadsThere` |
| `taint.go:2064`, nothing stops carrying taint | a second caller classified after the callee's return was processed keeps an unclassified answer | `Taint!NothingStopsCarrying` |
| `taint.go:2277`, an object of unstated shape is handed over whole | it is asked once whether its shape is stated | `Taint!OpenShapeIsHandedOver` |
| `taint.go:812`, can only over-report | the kept route decides, and a clearing transform may be on it | `Collect!OnlyOverReports` |
| `taint.go:2973`, a guard excuses no other caller | the one witness kept decides whose guard is looked at | `Collect!GuardExcusesItsOwnCallers` |
| `admission.go:37`, nothing else defines the value | the walk back commits to one definition | `Admission!NothingElseDefinesTheValue` |
| `taint.go:3696`, `admission.go:37`, only the answer YES lets the value through | a value assigned anew on a branch behind the guard keeps the credit: check and sink both read the merge | `MCAdmission`, family `rewritten` |
| the same | of two assignments in the arm of the YES, the walk back asks about one | `MCAdmission`, family `together` |
| the same | a value appended to behind the guard is the value asked about | `MCAdmission`, family `appended` |
| `admission.go:31`, reaches the sink only where the answer was YES | in a loop that asks again after a NO, the work of the NO arm depends on that arm | `MCAdmission`, family `searched` |
| `admission.go:447`, the function's answer is decided on the comparison | not which answer: `if (u === BAD) return false` counts as an allow-list | `MCAdmission`, family `denied` |
| `taint.go:3533`, facts about this response | a header that a later write takes back is still believed | `MCAdmission`, family `replaced` |
| `reachdef.go:276`, has definitely run by then | in one block it compares lines | `MCReachdef`, `Spread = TRUE` |
| `scan.go:104`, `RelatedSites` keeps each branch | the second consolidation drops those of the first | `Scan!EverySiteIsKept` |
| `scan.go:220`, two equal names in unrelated paths are not one value | the second consolidation merges by CWE, place, label and analysis (`scan.go:340`): findings of two channels, classes or files of the source become one | `Scan!ValuesStayApart` |
| `scan.go:57`, the single definition of the gate | `Gating` leaves out `Reportable` | `Scan!GatesIsTheGate` |
| `taint.go:3995`, file and function are in the fingerprint | a flow has no function | `Scan!NewFunctionGates` |
| `main.go:157`, recorded findings stay recorded | raising one branch's confidence makes the weakness new | `Scan!RaisedStaysRecorded`, also `NewEntryGates`, `ChangedPathGates`, `EmptyMeansClean` |
| `discarded.go:113`, leaves before the point that attaches it | two reachability questions, not an order | `Guards!AbandonedBeforeAttached` |
| `forwarded_credentials.go:146`, silence means the credential was removed | removed on one way counts as removed | `Guards!SilentForwardIsStripped` |
| `omitted.go:330`, a question covers what it dominates | one in the operation's own block counts, also behind it | `Guards!CoveredBy` |
| `model.go:8991`, mount and predicates say which requests a limiter governs | of comparisons around a counter only the one it depends on directly is kept (`limiter.go:479`) | `MCAcrossFunctions`, family `nested` |
| `scope.go:405`, the order of the edges is no matter | a smaller container handed on early stays | `Scope!EdgeOrderIsNoMatter` |
| `scope.go:507`, a comparison must happen before the operation | one in the operation's own block counts, also behind it | a handler outside `Scope!RunsAsListed` |
| `policy.go:26`, suppressed where it is declared | another route at the same address is as well | `MCInputs`, family `twins` |
| `credential.go:167`, the position of an argument | its place in the list of those written | `MCInputs`, family `behind` |
| `declared.go:249`, a key the check was about | a key of the body that only bears its name counts too | `MCAnalyses`, family `names` |
| `regexparse.go:632`, adjacent repetitions compete | reported also when no word splits twice | `Regex!ReportedAdjacentIsAmbiguous`, in patterns of family `adjacent` |
| `taint.go:1148`, a stored row another request wrote | trust, and whether the reader is the writer, come from the first writer listed | `Seeds!RowsAreAnothers` asks for some writer |
| `model.go:10730`, `Check.objects.get` names `Check` | the method is stripped first, no store is named, and a write `X.objects.create` names `objects` | `Seeds`, `StoreName` |
| `guard.go:351`, "the same call" is returned elsewhere | callees without a symbol are all one constructor | `Omissions!ConstructorsAreNamed`, `unnamed` |
| `model.go:9984`, the next chunk is appended to the very buffer | also reported of a listener that returns before it keeps anything (`guard.go:335`) | `Omissions!RunsToItsEnd`, `returning` |
| `model.go:9882`, the application trusts every proxy hop | a later setting that takes the trust back is not seen (`limiter.go:74`) | `Omissions!TrustedOnce`, `reset` |
| `limiter.go:294`, an import is no local of the same name | a name nothing flows into is every declaration of it in the program (`limiter.go:280`) | `Omissions!DeclaredOnce`, `twins` |
| `sibling.go:13`, the same value, out of the same request | a writer that holds two fields, saves one and asks about neither is accused by a reader that asks about the other: both share `req.params` (`sibling.go:107`) | `Omissions!WorksOnAll`, `siblings` |
| `sibling.go:33`, a question about the values it was handed together | of two questions about one value, what the first was given is kept (`sibling.go:237`) | `Omissions!AskedOnce`, `twoquestions` |
| `sibling.go:30`, every request path the function gets its hands on | follows property reads alone: a field of `const p = req.params` has none (`sibling.go:290`) | `Omissions!ReadInPlace`, `alias` |
| `csrf.go:20`, no false state-change claim | of several candidates of a call one that writes is enough (`csrf.go:95`) | `Omissions!OneCandidate`, `candidates` |
| `context.go:35`, later definitions win | writes are applied behind everything else (`context.go:80`-99): an `update` after a write is overruled by what it replaced | `Flow!BuiltThenWritten`, `overwritten` |
| `flow.go:339`, a name three includes deep still names what was passed | loops around an include are handed on as they stand (`templates.py:360`-366): in nested ones the inner keeps the outer's name, which no context has | `Flow!LoopsStandAlone`, `innerloop` |
| `flow.go:319`, a view is opened once under one rebinding | a page that includes itself for the parts of what it was given opens under an ever longer path (`flow.go:318`, 341; `templates.py:360`-366, 437-439), and the join does not end | `Flow!NamesAreApart`, `tree` |
| `lower.ts:2614`, a finally runs on every way | jumps out of its try go past it (`lower.ts:2646`) | `LoweredRuns!GoesPastFinally`, `finally` |
| `lower.ts:2540`, arms run as straight-line code, their flows unplaced | so do their jumps: behind `default: return` nothing is reached, although a case that breaks runs on (`lower.ts:2542`-2549, 2733-2734) | `LoweredRuns!SwitchCutsOff`, `switch` |

## Not modelled, and why

- **Lowering**: no statement behind a jump, no empty arm, one handler per try; a body
  raises at its start or at an explicit throw; labelled jumps; flows.
- **Regex**: slashes inside a pattern (`redos.go:30`); `$` is taken conservatively, look-arounds as always true; `[^]x]` and `{,5}`.
- **Store**: shapes of secrets, constructors, `unrotated.go`'s wording; blockless sites.
- **Credential**: property reads of carriers, cyclic wrappings, closures.
- **Expectation**: samples, sorting, file errors; labels are distinct in the runs.
- **Flow**: aliased writes, nested renames; mappings three hops deep as in the code.
- **Omissions**, **Guards**: several applications of one collection, several writes of
  one handle (outside the hypothesis of `LateCorrect`; the rule reads the first). The
  shapes `MCGuards`, `MCScope` and `MCAcrossFunctions` leave to one family or another
  bound the size of a run; the theorems cover all under the hypotheses they name.
- **Seeds**: the spelling of names, given by the constants `Inside` and `Folded`.
- **Scope**: a callback is a straight piece of the body, three deep; `undeclared.go`,
  operations whose class declares no permission. **Declared**: methods have no branches.
- **Scan**: the findings of the analyses are chosen trees; `MaxFindings` 2, `MaxEdits` 1;
  family `handlers` of `MCScan` (1.5 million states, no error) is left out for its size.
- `callshape`, `decision`, `literal` are one match of a rule per item: their findings are
  `Scan`'s chosen ones. Rules, wording, report layout, ledgers and harnesses hold no
  state. The rest of a frontend translates the trees of a compiler library.

## Plan

1. `CreditedValueWasMatched`, for functions whose checks are not asked again in a loop.
2. What a lowered graph says of executions (`RunsFollowTheGraph`), as far as it goes
   without induction over the text.
3. The review loop's work directory; `ledger`'s matching of recorded judgements.
