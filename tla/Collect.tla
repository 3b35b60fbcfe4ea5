------------------------------ MODULE Collect ------------------------------
(***************************************************************************)
(* What core/internal/taint makes of a finished propagation: collect()     *)
(* looks at every value that reached a channel and decides, policy by      *)
(* policy, whether it is a finding, a judgement that could not be made, or *)
(* nothing.  Every decision reads the ONE witness propagation kept, so the *)
(* judgement is composed here with the propagation itself (module Taint).  *)
(*                                                                         *)
(* A program of this module carries, besides what Taint reads:             *)
(*   way        <<from, to>> -> how a hop reads: its form, the sanitizer   *)
(*              its symbol names ("" for none), how well it resolved, which*)
(*              arguments are written down and which brought the class in, *)
(*              whether it resolves a reference, and of a list of command  *)
(*              arguments what it says of their danger                     *)
(*   leads      value -> what is put together first in it                  *)
(*   authority  the values that begin with the name of a machine           *)
(*   writtenIn  value -> the words of the literals it is built from        *)
(*   owner      value -> its function                                      *)
(*   origin     seed -> entry point and what is known of it                *)
(*   identity   the values that carry the caller's identity                *)
(*   identified a source of identity was seen anywhere in the program      *)
(*   injects    some entry point is handed the caller's identity           *)
(*   checks     function -> the comparisons in it                          *)
(*   vouched    values another judgement clears: text that is not markup,  *)
(*              an anchored pattern, the program's own data                *)
(*   sinks      the calls whose symbol or method a channel names, in       *)
(*              program order, with what module Channels reads of them     *)
(***************************************************************************)
EXTENDS Taint, FiniteSets, SequencesExt

CONSTANTS
  PathLimit,           \* how far functionsOnPath walks back; 256 in the code
  RootHops, RootDepth, MadeByHops   \* the bounds of the walks of Channels

ASSUME CollectAssumption ==
  /\ IsFiniteSet(Value)
  /\ {PathLimit, MadeByHops} \subseteq Nat \ {0} /\ {RootHops, RootDepth} \subseteq Nat

(* A hop whose symbol names a sanitizer is a transform (taint.go 3896),    *)
(* and one that brings an answer back has no symbol (2071, 2084).          *)
ASSUME WayAssumption ==
  \A p \in Program : \A v \in Value : \A i \in DOMAIN p.hops[v] :
    LET h == p.hops[v][i]
        answered == {p.hands[h.site][k].value : k \in DOMAIN p.hands[h.site]}
    IN  IF h.kind = "return" THEN \A u \in {v} \cup answered : p.way[<<u, h.to>>].symbol = ""
        ELSE p.way[<<v, h.to>>].symbol # "" => h.transform

(* What is known of the receivers and of the calls.                        *)
ASSUME ReceiverAssumption ==
  \A p \in Program :
    /\ {"kind", "assigned", "language"} \subseteq DOMAIN p
    /\ p.assigned \in [Value -> Value \cup {NoValue}]
    /\ \A i \in DOMAIN p.sinks :
         /\ p.sinks[i].receiver \in Value \cup {NoValue}
         /\ {"receiver", "type", "typeOrigin", "builtins", "literals", "external",
             "catastrophic", "count", "written"} \subseteq DOMAIN p.sinks[i]

Reading == INSTANCE Channels

VARIABLES
  pending,     \* the judgements collect has yet to make
  collecting,  \* collect has started: propagation is over
  found,       \* the findings
  unanswered,  \* findings about an identity the entry point was never given
  unjudged,    \* <<policy, entry>> it said it could not judge
  skipped      \* the policies it said it could not evaluate

verdicts == <<pending, collecting, found, unanswered, unjudged, skipped>>
allVars  == <<vars, verdicts>>

-----------------------------------------------------------------------------
(* pred[w].from exists: w is not where its chain starts.                   *)
Continues(w) == pred[w].from # NoValue

(* tracePath: the values of the printed path, the last one first.          *)
Trace(v) ==
  LET back  == BackFrom(v)
      steps == {n \in 0 .. Cardinality(Value) : back[n] # NoValue}
  IN  [i \in 1 .. Cardinality(steps) |-> back[i - 1]]

OnPath(v) == Range(Trace(v))

(* The origin of the printed path, and what originOf answers: the first    *)
(* seed on the way back.                                                   *)
TraceOrigin(v) == Last(Trace(v))

IsSeed(w) == \E i \in DOMAIN prog.seeds : prog.seeds[i].value = w

OriginOf(v) ==
  LET trace == Trace(v)
      seeds == {i \in DOMAIN trace : IsSeed(trace[i])}
  IN  IF seeds = {} THEN NoValue
      ELSE trace[CHOOSE i \in seeds : \A j \in seeds : i <= j]

(* The hop that brought the class to w, as tracePath copies it.            *)
SourceWay ==
  [form |-> "source", symbol |-> "", resolution |-> "resolved", literals |-> {}, input |-> {},
   resolves |-> FALSE, harmless |-> FALSE, prefixed |-> FALSE, program |-> ""]
WayInto(w) ==
  IF ~Continues(w) THEN SourceWay ELSE prog.way[<<pred[w].from, w>>]

Forms(v) == {WayInto(w).form : w \in OnPath(v)}

Projected(v)        == "property" \in Forms(v)
Enclosed(v)         == "enclose" \in Forms(v)
ComposedIntoText(v) == Forms(v) \cap {"template", "binary"} # {}

(* Scanned back from the sink and stopped where an argument was passed.    *)
ComposedIntoSinkArgument(v) ==
  LET trace == Trace(v)
      built == {i \in DOMAIN trace : WayInto(trace[i]).form \in {"template", "binary"}}
  IN  \E i \in built : \A j \in 1 .. i : WayInto(trace[j]).form # "call"

(* The path's last hop is the call of the sink itself.                     *)
ConfidenceOf(v, sink) ==
  LET reads == {WayInto(w).resolution : w \in OnPath(v)} \cup {sink.resolution}
  IN  IF "unresolved" \in reads THEN "low"
      ELSE IF "probable" \in reads THEN "medium" ELSE "high"

-----------------------------------------------------------------------------
(* functionsOnPath: every function the kept path passed through.           *)
FunctionsOnPath(v, sink) ==
  LET trace == Trace(v)
  IN  {sink.fn} \cup {prog.owner[trace[i]] :
                        i \in {n \in DOMAIN trace : n <= PathLimit}}

(* operationCarries: the operation was handed data of the other class.     *)
OperationCarries(sink) ==
  \/ sink.receiver \in prog.identity
  \/ \E i \in DOMAIN sink.args : sink.args[i].value \in prog.identity

(* A comparison of identity in a block one arm of which leaves.            *)
Gated(f) ==
  \E c \in prog.checks[f] : c.leaves /\ c.values \cap prog.identity # {}

(* Defect: any function of the program may hold the guard.                 *)
EffectivelyRelatedAnywhere(v, sink) ==
  \/ sink.beside \cap prog.identity # {}
  \/ \E f \in Fn : Gated(f)

(* effectivelyRelated: another call of the operation's own function is     *)
(* handed identity, or a function on the path guards on it.                *)
EffectivelyRelated(v, sink) ==
  \/ sink.beside \cap prog.identity # {}
  \/ \E f \in FunctionsOnPath(v, sink) : Gated(f)

-----------------------------------------------------------------------------
(* A route converter answers for every text and for no record.             *)
ConverterClears(v, ch) == viaConverter[v] /\ ch.context # "record-selector"

(* Defect: having passed a transform is taken for having been cleared.     *)
SanitizedByAny(v, ch) == \E w \in OnPath(v) : WayInto(w).symbol # ""

(* Of the sanitizers for this class that clear the channel's context one   *)
(* is named, with the argument it wants written down and brought into the  *)
(* one it wants, if it wants any.                                          *)
Clears(way, ch) ==
  /\ way.symbol # ""
  /\ \E s \in ch.clearedBy :
       way.symbol = s.symbol /\ s.literals \subseteq way.literals /\ s.input \subseteq way.input

Sanitized(v, ch) == \E w \in OnPath(v) : Clears(WayInto(w), ch)

(* The exceptions of a channel that asks for a whole value: nothing of the *)
(* program's stands in front, a call on the path takes it for a reference, *)
(* or it begins with the name of a machine all the same.                   *)
WholeAllTheSame(v, ch) ==
  \/ ch.prefix /\ prog.leads[v] \in tainted
  \/ \E w \in OnPath(v) : WayInto(w).resolves
  \/ v \in prog.authority

(* argvProtected: a hop that takes leading dashes off or puts the value    *)
(* behind a separator; a member of the list that the nearest composition   *)
(* begins with a prefix of the program's; a program without options.       *)
WaysOf(v) == [i \in DOMAIN Trace(v) |-> WayInto(Trace(v)[i])]

ArgvProtected(path) ==
  LET listed   == {i \in DOMAIN path : path[i].form \in {"enclose", "append", "extend"}}
      composed == {i \in DOMAIN path : path[i].form \in {"template", "binary"}}
      named    == {i \in listed : path[i].program # ""}
  IN  \/ \E i \in DOMAIN path : path[i].harmless
      \/ \E i \in listed, k \in composed :
           /\ path[i].form # "extend" /\ i < k /\ path[k].prefixed
           /\ \A j \in composed : i < j => k <= j
      \/ \E i \in named : path[i].program = "no options" /\ \A j \in named : i <= j

(* The shapes a channel or a policy asks the path for.                     *)
Shaped(v, ch, p) ==
  /\ (p.composition \/ ch.composition) => ComposedIntoSinkArgument(v)
  /\ ch.words # {} => prog.writtenIn[v] \cap ch.words # {}
  /\ ch.whole => ~ComposedIntoText(v) \/ WholeAllTheSame(v, ch)
  /\ ch.unenclosed => ~Enclosed(v)
  /\ ch.enclosure => Forms(v) \cap {"enclose", "append", "extend"} # {}
  /\ ch.context = "argv" => ~ArgvProtected(WaysOf(v))
  /\ p.unprojected => ~Projected(v)

(* buildFinding's second result.                                           *)
Reported(v, ch, p) ==
  /\ ~ConverterClears(v, ch)
  /\ v \notin prog.vouched
  /\ ~Sanitized(v, ch)
  /\ Shaped(v, ch, p)

(* Defect: the demotion is computed and the path's confidence returned.    *)
ConfidenceUndemoted(v, sink, ch) == ConfidenceOf(v, sink)

Confidence(v, sink, ch) ==
  IF ch.external /\ sink.type \in {"", "__object"} /\ ConfidenceOf(v, sink) = "high"
  THEN "medium"
  ELSE ConfidenceOf(v, sink)

(* EntryHasNoInjectedIdentity                                              *)
NeverGivenIdentity(o, p) ==
  o.anchored /\ ~o.identity /\ prog.injects /\ p.relation

-----------------------------------------------------------------------------
(* A channel identified by what it is called on: data the caller sent, and *)
(* that data itself.                                                       *)
ReceiverReached(sink) ==
  /\ sink.channel.untrusted => sink.receiver \in tainted
  /\ sink.channel.unprojectedReceiver => ~Projected(sink.receiver)

IsChannel(sink) ==
  Reading!ChannelAdmits(prog, sink, sink.channel) /\ ReceiverReached(sink)

(* What arrives at the sink, read off the call by the channel.             *)
Arriving(sink) == Reading!ChannelArgs(sink, sink.channel)

(* The loop of collect: the calls, what arrives at each as its channel     *)
(* reads it, the policies.  A judgement is a place in each of the three.   *)
Due ==
  LET arriving(i) == {k \in DOMAIN Arriving(prog.sinks[i]) : Arriving(prog.sinks[i])[k] \in tainted}
  IN  UNION {{<<i, k, n>> : k \in arriving(i), n \in DOMAIN prog.sinks[i].policies} :
               i \in {x \in DOMAIN prog.sinks : IsChannel(prog.sinks[x])}}

Precedes(d, e) == \E k \in 1 .. 3 : d[k] < e[k] /\ \A j \in 1 .. k - 1 : d[j] = e[j]

JudgementAt(d) ==
  LET sink == prog.sinks[d[1]]
  IN  [sink |-> sink, value |-> Arriving(sink)[d[2]], policy |-> sink.policies[d[3]]]

(* Which way the loop body goes for one judgement.                         *)
EntryUnread(j) ==
  LET o == OriginOf(j.value)
  IN  o # NoValue /\ prog.origin[o].unread

Outcome(j) ==
  CASE j.policy.missing -> "skipped"
    [] j.policy.relation /\ EntryUnread(j) -> "unjudged"
    [] j.policy.relation /\ ~prog.identified -> "skipped"
    [] j.policy.relation /\ OperationCarries(j.sink) -> "silent"
    [] j.policy.relation /\ EffectivelyRelated(j.value, j.sink) -> "silent"
    [] ~Reported(j.value, j.sink.channel, j.policy) -> "silent"
    [] NeverGivenIdentity(prog.origin[TraceOrigin(j.value)], j.policy) -> "unanswered"
    [] OTHER -> "found"

Finding(j) ==
  [call |-> j.sink.call, value |-> j.value, policy |-> j.policy.id,
   entry |-> prog.origin[TraceOrigin(j.value)].entry,
   confidence |-> Confidence(j.value, j.sink, j.sink.channel)]

-----------------------------------------------------------------------------
CollectInit ==
  /\ Init
  /\ pending = {} /\ collecting = FALSE
  /\ found = {} /\ unanswered = {} /\ unjudged = {} /\ skipped = {}

Propagate == Next /\ UNCHANGED verdicts

StartCollecting ==
  /\ Quiescent /\ ~collecting
  /\ collecting' = TRUE
  /\ pending' = Due
  /\ UNCHANGED <<vars, found, unanswered, unjudged, skipped>>

Judge ==
  \E d \in pending :
    LET j == JudgementAt(d)
        is(outcome) == Outcome(j) = outcome
    IN  /\ \A e \in pending \ {d} : Precedes(d, e)
        /\ pending' = pending \ {d}
        /\ found' = IF is("found") THEN found \cup {Finding(j)} ELSE found
        /\ unanswered' = IF is("unanswered") THEN unanswered \cup {Finding(j)} ELSE unanswered
        /\ unjudged' = IF is("unjudged")
                       THEN unjudged \cup {<<j.policy.id, prog.origin[OriginOf(j.value)].entry>>}
                       ELSE unjudged
        /\ skipped' = IF is("skipped") THEN skipped \cup {j.policy.id} ELSE skipped
        /\ UNCHANGED <<vars, collecting>>

CollectNext == Propagate \/ StartCollecting \/ Judge
CollectSpec == CollectInit /\ [][CollectNext]_allVars

Collected == collecting /\ pending = {}

CollectTypeOK ==
  /\ collecting \in BOOLEAN
  /\ pending # {} => collecting
  /\ \A f \in found \cup unanswered : f.value \in tainted

-----------------------------------------------------------------------------
(* A route is a chain of hops from a seed, whether or not propagation kept *)
(* it: the values some route reaches without a transform, a converter or   *)
(* a hop that depends on what else is classified.                          *)
ReachedFrom(start, open(_, _)) ==
  LET after[n \in 0 .. Cardinality(Value)] ==
        IF n = 0 THEN start
        ELSE LET before == after[n - 1]
             IN  before \cup
                 UNION {{prog.hops[v][i].to :
                           i \in {k \in DOMAIN prog.hops[v] :
                                   /\ Unconditional(v, prog.hops[v][k])
                                   /\ open(v, prog.hops[v][k])}} : v \in before}
  IN  after[Cardinality(Value)]

PlainSeeds == {prog.seeds[i].value : i \in {k \in DOMAIN prog.seeds : ~prog.seeds[k].converter}}

ReachedUntouched == ReachedFrom(PlainSeeds, LAMBDA v, h : ~h.transform)

AnyShape(ch, p) ==
  ~(p.composition \/ ch.composition \/ ch.words # {} \/ ch.whole \/ ch.unenclosed \/ ch.enclosure
    \/ ch.context = "argv" \/ p.unprojected)

ReportedAt(sink, v, p) ==
  \E f \in found \cup unanswered :
    f.call = sink.call /\ f.value = v /\ f.policy = p.id

(* The pairs of a value handed to a channel and a policy about it.         *)
Judgements ==
  UNION {{[sink |-> prog.sinks[i], value |-> v, policy |-> p] :
            v \in Range(Arriving(prog.sinks[i])), p \in Range(prog.sinks[i].policies)} :
         i \in {k \in DOMAIN prog.sinks : IsChannel(prog.sinks[k])}}

(* A sanitized branch that arrives first does not silence an unsanitized   *)
(* one (taint.go:3827): what some route carries to a sink untouched is     *)
(* reported there, whichever routes, transforms and converters the kept    *)
(* witness was chosen among, and in whatever order they arrived.           *)
UntouchedRouteIsReported ==
  Collected =>
    \A j \in Judgements :
      LET sink == j.sink
          v == j.value
          p == j.policy
      IN  /\ v \in ReachedUntouched \ prog.vouched
          /\ ~p.missing /\ ~p.relation /\ AnyShape(sink.channel, p)
          => ReportedAt(sink, v, p)

(* What stops a build has earned it: no finding is confident whose printed *)
(* path holds a hop nobody resolved, or whose channel had to know what its *)
(* receiver is and was not told (taint.go:3440, 3462).                     *)
HighIsEarned ==
  \A f \in found \cup unanswered :
    f.confidence = "high" =>
      /\ \A w \in OnPath(f.value) : WayInto(w).resolution = "resolved"
      /\ \A i \in DOMAIN prog.sinks :
           prog.sinks[i].call = f.call =>
             /\ prog.sinks[i].resolution = "resolved"
             /\ prog.sinks[i].channel.external => prog.sinks[i].type \notin {"", "__object"}

(* What can bring the class to v: hops of classified values, and a seed.   *)
RoutesInto(v) == {u \in tainted : \E i \in DOMAIN prog.hops[u] : prog.hops[u][i].to = v}

SingleRoute(v) ==
  \A w \in OnPath(v) :
    Cardinality(RoutesInto(w)) + (IF IsSeed(w) THEN 1 ELSE 0) <= 1

UnrelatedAlong(v, sink) ==
  /\ ~OperationCarries(sink) /\ sink.beside \cap prog.identity = {}
  /\ \A f \in FunctionsOnPath(v, sink) : ~Gated(f)

(* A record selected by caller data with no ownership check on its way is  *)
(* answered for - a finding, or a statement that it could not be judged -  *)
(* and is not excused by a check that sits on another entry's way          *)
(* (taint.go:2972).                                                        *)
UnownedAccessIsAnswered ==
  Collected =>
    \A j \in Judgements :
      LET sink == j.sink
          v == j.value
          p == j.policy
      IN  /\ v \in ReachedUntouched \ prog.vouched
          /\ p.relation /\ AnyShape(sink.channel, p)
          /\ SingleRoute(v) /\ UnrelatedAlong(v, sink)
          => \/ ReportedAt(sink, v, p)
             \/ p.id \in skipped
             \/ <<p.id, prog.origin[TraceOrigin(v)].entry>> \in unjudged

(* Unknown is not an answer (taint.go:2680, 2694): a call taken for a      *)
(* channel stays one when the frontend knows less about it - who made the  *)
(* receiver, its type and where that came from, which arguments are        *)
(* builtins or literals - unless the channel demands to know.              *)
Unknowing(sink) ==
  [sink EXCEPT !.type = "", !.typeOrigin = "", !.builtins = {}, !.literals = {}]

NothingKnown == [prog EXCEPT !.kind = [v \in Value \cup {NoValue} |-> "other"]]

KnowingLessDropsNothing ==
  Collected => \A i \in DOMAIN prog.sinks :
    LET sink == prog.sinks[i]
        ch == sink.channel
    IN  /\ Reading!ChannelAdmits(prog, sink, ch)
        /\ ~ch.known /\ ch.receiverFrom = {} /\ ch.entryParam = Reading!None
        => Reading!ChannelAdmits(NothingKnown, Unknowing(sink), ch)

(* The call chains by which parameter positions of entry points arrive at  *)
(* a value: one hop back is a receiver or what one call site passes.       *)
MayBe(v) ==
  LET back(w) ==
        CASE prog.kind[w] = "param" -> Range(prog.passed[w])
          [] prog.kind[w] = "result" -> {prog.madeOn[w]}
          [] OTHER -> {NoValue}
      within[n \in 0 .. Cardinality(Value)] ==
        IF n = 0 THEN {v}
        ELSE LET nearer == within[n - 1] IN nearer \cup UNION {back(w) : w \in nearer}
  IN  within[Cardinality(Value)]

Roots(v) ==
  {prog.index[w] : w \in {u \in MayBe(v) \ {NoValue} :
     prog.kind[u] = "param" /\ prog.ofEntry[u]}}

(* A response is written to only where some caller hands over a response:  *)
(* a receiver taken for parameter i of an entry point is that parameter    *)
(* along some chain of calls, through however many helpers and recursions. *)
ReceiverRootIsGrounded ==
  Collected => \A i \in DOMAIN prog.sinks :
    LET root == Reading!RootParamOf(prog, prog.sinks[i].receiver)
    IN  root # Reading!None => root \in Roots(prog.sinks[i].receiver)

(***************************************************************************)
(* What the comments of taint.go say and the code does not do.             *)
(***************************************************************************)

(* "Until then it can only over-report, never under-report" (taint.go:812):*)
(* what some route carries to a sink without passing a transform that      *)
(* clears the sink's context is reported.                                  *)
ReachedUncleared(ch) ==
  ReachedFrom(PlainSeeds,
    LAMBDA v, h : ~h.transform \/ ~Clears(prog.way[<<v, h.to>>], ch))

OnlyOverReports ==
  Collected =>
    \A j \in Judgements :
      LET sink == j.sink
          v == j.value
          p == j.policy
      IN  /\ v \in ReachedUncleared(sink.channel) \ prog.vouched
          /\ ~p.missing /\ ~p.relation /\ AnyShape(sink.channel, p)
          => ReportedAt(sink, v, p)

(* "Using the real path keeps a guard in one caller from excusing an       *)
(* unguarded call from somewhere else" (taint.go:2974).                    *)
UnguardedRoute(v, sink) ==
  LET open == {w \in tainted : ~Gated(prog.owner[w])}
      from[n \in 0 .. Cardinality(Value)] ==
        IF n = 0 THEN PlainSeeds \cap open
        ELSE LET before == from[n - 1]
             IN  before \cup {w \in open : RoutesInto(w) \cap before # {}}
  IN  ~Gated(sink.fn) /\ v \in from[Cardinality(Value)]

GuardExcusesItsOwnCallers ==
  Collected =>
    \A j \in Judgements :
      LET sink == j.sink
          v == j.value
          p == j.policy
      IN  /\ UnguardedRoute(v, sink) /\ v \notin prog.vouched
          /\ prog.identified /\ ~p.missing /\ p.relation
          /\ AnyShape(sink.channel, p)
          /\ ~OperationCarries(sink) /\ sink.beside \cap prog.identity = {}
          /\ \A s \in Value : ~prog.origin[s].unread
          => ReportedAt(sink, v, p)

(* "Per entry point, not program-wide: the rest of the application is      *)
(* still judged normally" (taint.go:2782): what could not be judged is     *)
(* stated for the entry the evidence starts at.                            *)
UnreadInputsStayWithTheirEntry ==
  Collected =>
    \A j \in Judgements :
      j.value \in tainted
      /\ <<j.policy.id, prog.origin[OriginOf(j.value)].entry>> \in unjudged
      => prog.origin[TraceOrigin(j.value)].unread

(* "Agreement is required, so a helper called once from a route and once   *)
(* from a command-line entry says nothing rather than guessing"            *)
(* (taint.go:3067): a receiver with a root has no other.                   *)
EndsAtNothing(v) ==
  \E w \in MayBe(v) :
    w = NoValue \/ prog.kind[w] = "other" \/ (prog.kind[w] = "param"
      /\ ~prog.ofEntry[w] /\ prog.passed[w] = <<>>)

HelperSaysNothingOrAgrees ==
  Collected => \A i \in DOMAIN prog.sinks :
    LET v == prog.sinks[i].receiver
        root == Reading!RootParamOf(prog, v)
    IN  v # NoValue /\ root # Reading!None
          => Roots(v) = {root} /\ ~EndsAtNothing(v)
=============================================================================
