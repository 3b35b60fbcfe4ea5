----------------------------- MODULE Omissions ------------------------------
(***************************************************************************)
(* What a function does not do: a check its sibling makes                  *)
(* (guard/sibling.go), a permission it selects and never applies           *)
(* (guard/unchecked.go), a state change no method check precedes           *)
(* (guard/csrf.go), a limiter whose key the caller writes, by its own code *)
(* or by the settings around it (guard/limiter.go), a listener that        *)
(* refuses and is called again, and an answer that is built and let fall   *)
(* (guard/guard.go, repeatingCallback and discardedConstruction).          *)
(*                                                                         *)
(* A name is the sequence of its words.  A function is the sequence of     *)
(* what it does, in source order; `kind` says which of the seven questions *)
(* a program is about.                                                     *)
(***************************************************************************)
EXTENDS Integers, Sequences, FiniteSets, SequencesExt, TLC

CONSTANTS
  Sources,      \* families of programs
  Vocabulary,   \* the words of the rules
  HeaderNames   \* the forwarding headers, the one named first before the others

VARIABLES
  source,       \* the program
  accused       \* what is reported about it

omVars == <<source, accused>>

HasPrefix(name, words) == name # <<>> /\ Head(name) \in words
Says(name, words) == \E w \in Range(name) : w \in words
(* A name asks something unless it fetches it.                             *)
IsCheck(name) == ~HasPrefix(name, Vocabulary.retrieves) /\ Says(name, Vocabulary.checks)

-----------------------------------------------------------------------------
(* Siblings.  Value 0 of a function is the request; a property is read off *)
(* a value, any other step lets one value into another or hands some to a  *)
(* call.                                                                   *)

RECURSIVE Resolve(_, _, _)
Resolve(f, v, depth) ==
  LET made == SelectSeq(f.steps, LAMBDA s : s.op = "read" /\ s.to = v)
      up   == Resolve(f, made[1].from, depth + 1)
  IN IF v = 0 THEN <<"req">>
     ELSE IF depth > 8 \/ made = <<>> THEN <<>>
     ELSE IF up = <<>> THEN <<>> ELSE Append(up, made[1].field)

(* Four rounds over the assignments, whatever they carry on.               *)
RequestPaths(f) ==
  LET vals  == {0} \cup {s.to : s \in {t \in Range(f.steps) : t.op # "call"}}
      begin == [v \in vals |-> {p \in {Resolve(f, v, 0)} : p # <<>>}]
      Round(carries, s) == IF s.op = "call" THEN carries ELSE [carries EXCEPT ![s.to] = @ \cup carries[s.from]]
  IN FoldLeft(Round, begin, f.steps \o f.steps \o f.steps \o f.steps)

Guarded(f) == \E k \in DOMAIN f.middleware : IsCheck(f.middleware[k])

(* What a function does with each path: the first call that asks about it, *)
(* with everything that call was given, and whether some call uses it.     *)
ProfileOf(f) ==
  LET carries   == RequestPaths(f)
      given(s)  == UNION {carries[v] : v \in Range(s.args)}
      calls     == SelectSeq(f.steps, LAMBDA s : s.op = "call" /\ given(s) # {})
      asking    == SelectSeq(calls, LAMBDA s : IsCheck(s.name))
      using     == SelectSeq(calls, LAMBDA s : ~IsCheck(s.name) /\ ~HasPrefix(s.name, Vocabulary.records))
      checked   == UNION {given(asking[k]) : k \in DOMAIN asking}
  IN [reads   |-> UNION Range(carries),
      checked |-> checked,
      inputs  |-> [p \in checked |-> given(SelectSeq(asking, LAMBDA s : p \in given(s))[1])],
      used    |-> UNION {given(using[k]) : k \in DOMAIN using}]

CallerChose(path) == Len(path) > 1 /\ path[2] \notin Vocabulary.establishes

Reader(f)  == HasPrefix(f.name, Vocabulary.reads) /\ ~HasPrefix(f.name, Vocabulary.mutates)
Mutator(f) == HasPrefix(f.name, Vocabulary.mutates) /\ ~HasPrefix(f.name, Vocabulary.reads)

(* Defect: the other values the check was given need not be at hand.       *)
DifferOnOneValue(weak, strong) ==
  {p \in strong.checked : CallerChose(p) /\ p \notin weak.checked /\ p \in weak.reads /\ p \in weak.used}

Differ(weak, strong) ==
  {p \in strong.checked : /\ CallerChose(p)
                          /\ p \notin weak.checked /\ p \in weak.reads /\ p \in weak.used
                          /\ strong.inputs[p] \subseteq weak.reads}

SiblingDifferential(src) ==
  LET fns == {i \in DOMAIN src.fns : ~src.fns[i].test}
      profile == [i \in fns |-> ProfileOf(src.fns[i])]
  IN {w \in fns : /\ Mutator(src.fns[w]) /\ ~Guarded(src.fns[w])
                  /\ \E s \in fns : /\ Reader(src.fns[s]) /\ src.fns[s].file = src.fns[w].file
                                    /\ Differ(profile[w], profile[s]) # {}}

-----------------------------------------------------------------------------
(* Permissions.  A lookup's result is bound to a name; a local of that     *)
(* name may be several values.                                             *)

CallSteps(f)    == {s \in Range(f.steps) : s.op = "call"}
Lookups(f)  == {s \in Range(f.steps) : s.op = "lookup"}
EdgesOf(f)  == {<<s.from, s.to>> : s \in {t \in Range(f.steps) : t.op \in {"bind", "copy"}}}
LocalsOf(f, name) == {s.to : s \in {t \in Range(f.steps) : t.op \in {"bind", "copy"} /\ t.name = name}}

(* A comparison against nothing asks whether the lookup found one.         *)
ExistenceTest(s) == s.op = "compare" /\ s.with \in {"truthy", "nothing"}

ConsultedValues(f) ==
  UNION {Range(s.args) : s \in CallSteps(f)}
  \cup {s.from : s \in {t \in Range(f.steps) : t.op \in {"return", "write"}}}
  \cup {s.from : s \in {t \in Range(f.steps) : t.op = "compare" /\ ~ExistenceTest(t)}}

(* Defect: a copy of the permission is somebody else's.                    *)
AnyConsultedHere(f, from, consulted) == \E e \in EdgesOf(f) : e[1] = from /\ e[2] \in consulted

AnyConsulted(f, from, consulted) ==
  LET Step(seen, hop) == seen \cup {e[2] : e \in {x \in EdgesOf(f) : x[1] \in seen}}
  IN FoldLeft(Step, {from}, [hop \in 1..8 |-> hop]) \cap (consulted \ {from}) # {}

ConsultedUnder(f, name, result, consulted) ==
  \/ \E v \in LocalsOf(f, name) : v \in consulted \/ AnyConsulted(f, v, consulted)
  \/ result \in consulted \/ AnyConsulted(f, result, consulted)

BoundName(f, result) ==
  LET bound == SelectSeq(f.steps, LAMBDA s : s.op = "bind" /\ s.from = result)
  IN IF bound = <<>> THEN <<>> ELSE bound[1].name

UncheckedControl(src) ==
  LET f == src.fn
      consulted == ConsultedValues(f)
  IN IF f.test \/ ~src.anchored \/ ~Says(f.name, Vocabulary.enforces) \/ ~Says(f.name, Vocabulary.controls) THEN {}
     ELSE {name \in {BoundName(f, s.to) : s \in {l \in Lookups(f) :
                        /\ l.reachable /\ Says(l.name, Vocabulary.controls)
                        /\ ~ConsultedUnder(f, BoundName(f, l.to), l.to, consulted)}} :
             Says(name, Vocabulary.controls)}

-----------------------------------------------------------------------------
(* State changes.  A call sits in the entry block, in an arm or nowhere    *)
(* the graph knows of, writes a store itself, or enters functions.         *)

RelevantWrite(c) == c.writes \in {"orm", "session"}

(* Defect: a write in an arm of the helper counts like one in its entry.   *)
StateWriteAnywhere(src, entryOnly) == {f \in DOMAIN src.fns : \E c \in Range(src.fns[f]) : RelevantWrite(c)}

(* Functions that write, anywhere or in their entry block.                 *)
StateWriteReachability(src, entryOnly) ==
  {f \in DOMAIN src.fns : \E c \in Range(src.fns[f]) : RelevantWrite(c) /\ (entryOnly => c.block = "entry")}

StateChangingCalls(src, f, writes, entryOnly) ==
  {c \in Range(src.fns[f]) : /\ c.block # "" /\ (entryOnly => c.block = "entry")
                             /\ RelevantWrite(c) \/ c.enters \cap writes # {}}

CsrfStateChanges(src) ==
  {e \in DOMAIN src.entries :
     LET ep == src.entries[e]
     IN /\ ep.route /\ ep.framework \in Vocabulary.frameworks
        /\ ep.exempt \/ (~ep.restricted /\ ep.method \in Vocabulary.safe)
        /\ StateChangingCalls(src, ep.fn, StateWriteReachability(src, ~ep.exempt), ~ep.exempt) # {}}

-----------------------------------------------------------------------------
(* Limiter keys.  A value is a literal, a property, or a name; one that    *)
(* nothing flows into is taken for the module-level value of its name.     *)

Declared(src, name) == {v \in DOMAIN src.val : src.val[v].top /\ src.val[v].name = name}
Incoming(src, v)    == {e[1] : e \in {x \in src.edges : x[2] = v}}

(* Defect: a name is looked up among the modules whatever flows into it.   *)
BehindWhateverFlows(src, v) ==
  Incoming(src, v) \cup (IF src.val[v].literal = "" THEN Declared(src, src.val[v].name) ELSE {})

Behind(src, v) ==
  Incoming(src, v) \cup
  (IF Incoming(src, v) = {} /\ src.val[v].literal = "" THEN Declared(src, src.val[v].name) ELSE {})

LiteralsBehind(src, v) ==
  LET Step(seen, depth) == seen \cup UNION {Behind(src, w) : w \in seen}
  IN {src.val[w].literal : w \in FoldLeft(Step, {v}, [depth \in 1..7 |-> depth])}

IsForwarding(written) == written \in Range(HeaderNames)

(* The functions a key function enters, and whether one of them names a    *)
(* forwarding header.                                                      *)
Entered(src, f) ==
  LET Step(seen, hop) == seen \cup UNION {UNION {c.enters : c \in Range(src.fns[g].calls)} : g \in seen}
  IN FoldLeft(Step, {f}, [hop \in 1..Cardinality(DOMAIN src.fns) |-> hop])

ReadsForwardedHeader(src, f) ==
  \/ \E v \in src.fns[f].vals : src.val[v].path # <<>> /\ IsForwarding(Last(src.val[v].path))
  \/ \E c \in Range(src.fns[f].calls) : \E v \in Range(c.args) : \E l \in LiteralsBehind(src, v) : IsForwarding(l)

KeyFromHeader(src) ==
  {f \in DOMAIN src.fns :
     /\ src.fns[f].name \in Vocabulary.keys
     /\ ~src.fns[f].test
     /\ \E g \in DOMAIN src.fns : /\ src.fns[g].file = src.fns[f].file /\ ~src.fns[g].test
                                  /\ \E c \in Range(src.fns[g].calls) : c.limiter
     /\ \E g \in Entered(src, f) : ReadsForwardedHeader(src, g)}

-----------------------------------------------------------------------------
(* Limiters left to their default key.  A call has what it calls, its      *)
(* options, each a key and a value, and its arguments.                     *)

HasOption(c, key, values) == \E o \in c.options : o[1] = key /\ o[2] \in values

LimitsByDefault(c) ==
  /\ c.called \in Vocabulary.limits
  /\ ~\E o \in c.options : o[1] = Vocabulary.override
  /\ HasOption(c, Vocabulary.validation, Vocabulary.off)

TrustsTheChain(c) ==
  c.called = "set" /\ c.args[1] = Vocabulary.trust /\ c.args[2] \in Vocabulary.trusted

(* Every setting that trusts the chain, with the first such limiter.       *)
BucketKey(src) ==
  LET sites    == UNION {{f} \X DOMAIN src.fns[f].calls : f \in {g \in DOMAIN src.fns : ~src.fns[g].test}}
      call(s)  == src.fns[s[1]].calls[s[2]]
      made     == {s \in sites : LimitsByDefault(call(s))}
  IN {<<c, t>> \in made \X {s \in sites : TrustsTheChain(call(s))} :
        \A s \in made : c[1] < s[1] \/ (c[1] = s[1] /\ c[2] <= s[2])}

-----------------------------------------------------------------------------
(* Listeners.  A call is known by its callee's symbol, by what it was      *)
(* written as and by its method; it hands over a function and stands on a  *)
(* value some function owns (0: neither).                                  *)

Named(name, method, words) == name \in words \/ method \in words

Stops(c) == Named(c.symbol, c.method, Vocabulary.detaches) \/ Named(c.name, c.method, Vocabulary.detaches)

NamesEvent(c)  == c.event \in Vocabulary.repeats
CallbackOf(c)  == c.hands
RepeatFinding(attach, refusal) == [source |-> attach, sink |-> refusal]

(* Removed or stopped in the function or in a callback it hands over.      *)
Detaches(src, f) ==
  \E c \in Range(src.fns[f]) :
    Stops(c) \/ (CallbackOf(c) \notin {0, f} /\ \E i \in Range(src.fns[CallbackOf(c)]) : Stops(i))

AccumulatesOutward(src, cb) ==
  \E c \in Range(src.fns[cb]) :
    Named(c.symbol, c.method, Vocabulary.accumulates) /\ c.owner \notin {0, cb}

(* Each refusal of such a listener, with the call that registered it.      *)
RepeatingCallback(src) ==
  UNION {LET attach == src.fns[site[1]][site[2]]
             cb     == CallbackOf(attach)
         IN IF /\ Named(attach.symbol, attach.method, Vocabulary.attaches)
               /\ NamesEvent(attach) /\ cb # 0 /\ ~src.test
               /\ AccumulatesOutward(src, cb)
               /\ ~Detaches(src, site[1]) /\ ~Detaches(src, cb)
            THEN {RepeatFinding(site, r) : r \in {k \in DOMAIN src.fns[cb] :
                     Named(src.fns[cb][k].name, src.fns[cb][k].method, Vocabulary.refuses)}}
            ELSE {} :
         site \in UNION {{f} \X DOMAIN src.fns[f] : f \in DOMAIN src.fns}}

-----------------------------------------------------------------------------
(* Answers built and let fall.  What a function hands back, compares,      *)
(* stores, passes on, calls or reads is used.                              *)

ConsumedValues(f) ==
  f.returns \cup {f.calls[k].on : k \in DOMAIN f.calls}
            \cup UNION {f.calls[k].args : k \in DOMAIN f.calls}
            \cup UNION f.flows \cup UNION f.compares \cup UNION f.writes \cup f.bases

(* A call on a parameter sends an answer, any other builds one.            *)
Built(f) == {k \in DOMAIN f.calls : /\ f.calls[k].result # 0 /\ f.calls[k].on \notin f.params
                                     /\ Named(f.calls[k].symbol, f.calls[k].method, Vocabulary.constructs)}

DiscardFinding(dropped, kept) == [source |-> kept, sink |-> dropped]

(* Each built answer nothing uses, with the first one of its constructor   *)
(* that something uses.                                                    *)
DiscardedConstruction(src) ==
  LET used  == ConsumedValues(src.fn)
      call  == src.fn.calls
      kept  == {k \in Built(src.fn) : call[k].result \in used}
      beside(k) == {j \in kept : call[j].symbol = call[k].symbol}
  IN {DiscardFinding(k, Min(beside(k))) : k \in {n \in Built(src.fn) \ kept : beside(n) # {}}}

-----------------------------------------------------------------------------
OmInit ==
  /\ \E family \in Sources : source \in family
  /\ accused = <<"not judged">>

Judge(kind, Accuse(_)) ==
  /\ accused = <<"not judged">> /\ source.kind = kind
  /\ accused' = <<"judged", Accuse(source)>>
  /\ UNCHANGED source

OmNext == \/ Judge("siblings", SiblingDifferential)
          \/ Judge("permission", UncheckedControl)
          \/ Judge("route", CsrfStateChanges)
          \/ Judge("key", KeyFromHeader)
          \/ Judge("default key", BucketKey)
          \/ Judge("listener", RepeatingCallback)
          \/ Judge("answer", DiscardedConstruction)

OmSpec == OmInit /\ [][OmNext]_omVars

Judged(kind) == Len(accused) = 2 /\ source.kind = kind

-----------------------------------------------------------------------------
(* Reference: what a value of a handler really is, where it sits in the    *)
(* request and which parts of the request it is made of.                   *)

Contents(f) ==
  FoldLeft(LAMBDA env, s :
      CASE s.op = "call" -> env
        [] s.op = "copy" -> (s.to :> env[s.from]) @@ env
        [] s.op = "wrap" ->
             (s.to :> [at |-> <<>>, has |-> env[s.from].has \cup (IF s.to \in DOMAIN env THEN env[s.to].has ELSE {})]) @@ env
        [] s.op = "read" ->
             (s.to :> LET at == Append(env[s.from].at, s.field) IN [at |-> at, has |-> {at}]) @@ env,
    0 :> [at |-> <<"req">>, has |-> {<<"req">>}], f.steps)

HandedTo(f, s) == UNION {Contents(f)[v].has : v \in Range(s.args)}
Inside(p, q)   == Len(p) <= Len(q) /\ SubSeq(q, 1, Len(p)) = p
Has(ps, p)     == \E q \in ps : Inside(p, q)
Held(f)        == UNION {Contents(f)[v].has : v \in DOMAIN Contents(f)}

(* A call of the one function asks about a value, with others; the second  *)
(* function holds them all, operates on that value, or on what shares some *)
(* part of the request with it, and asks nothing of that part.             *)
SkipsTheCheck(weak, strong, Extent(_)) ==
  \E c \in {s \in Range(strong.steps) : s.op = "call" /\ IsCheck(s.name)} :
    /\ \A q \in HandedTo(strong, c) : Has(Held(weak), q)
    /\ \E p \in {q \in HandedTo(strong, c) : CallerChose(q)} : \E part \in Extent(p) :
         /\ \E u \in {s \in Range(weak.steps) : s.op = "call" /\ ~IsCheck(s.name)} :
              ~HasPrefix(u.name, Vocabulary.records) /\ Has(HandedTo(weak, u), part)
         /\ \A u \in {s \in Range(weak.steps) : s.op = "call" /\ IsCheck(s.name)} : ~Has(HandedTo(weak, u), part)

ItsValue(p) == {p}
ItsParts(p) == {SubSeq(p, 1, n) : n \in 2 .. Len(p)}

PathsSkipping(src, Extent(_)) ==
  {w \in DOMAIN src.fns :
     LET weak == src.fns[w]
     IN /\ Mutator(weak) /\ ~weak.test /\ \A k \in DOMAIN weak.middleware : ~IsCheck(weak.middleware[k])
        /\ \E strong \in Range(src.fns) :
             Reader(strong) /\ ~strong.test /\ strong.file = weak.file /\ SkipsTheCheck(weak, strong, Extent)}

(* A field is read off the request or a part of it where that stands, not  *)
(* off a local it was put into first: the way to a value is looked for     *)
(* along property reads alone (sibling.go 290).                            *)
ReadInPlace(src) ==
  \A f \in Range(src.fns) : \A s \in Range(f.steps) :
    s.op = "read" => s.from = 0 \/ \E t \in Range(f.steps) : t.op = "read" /\ t.to = s.from

(* A function asks one question about a value: what the first call that    *)
(* asks was given besides is all that is kept (sibling.go 237).            *)
AskedOnce(src) ==
  \A f \in Range(src.fns) : \A i, j \in DOMAIN f.steps :
    (/\ i < j /\ f.steps[i].op = "call" /\ f.steps[j].op = "call"
     /\ IsCheck(f.steps[i].name) /\ IsCheck(f.steps[j].name)) =>
       HandedTo(f, f.steps[i]) \cap HandedTo(f, f.steps[j]) = {}

(* A function that takes several values out of one part of the request     *)
(* operates on each, or asks about one: an operation on one of them counts *)
(* as one on the part, and the part as asked about (sibling.go 107).       *)
WorksOnAll(src) ==
  \A f \in Range(src.fns) : \A i, j \in DOMAIN f.steps :
    (/\ i # j /\ f.steps[i].op = "read" /\ f.steps[j].op = "read"
     /\ f.steps[i].from = f.steps[j].from /\ f.steps[i].from # 0) =>
       LET here == {Contents(f)[f.steps[k].to].at : k \in {i, j}}
           given(asking) == UNION {HandedTo(f, s) : s \in {c \in Range(f.steps) :
              c.op = "call" /\ IsCheck(c.name) = asking /\ (asking \/ ~HasPrefix(c.name, Vocabulary.records))}}
       IN here \subseteq given(FALSE) \/ here \cap given(TRUE) # {}

(* A write path is accused only when a read path of its module asks about  *)
(* a value the caller chose, and the write path holds everything that      *)
(* question needs, operates on the value or on what stands beside it in    *)
(* one part of the request, and asks nothing there.  It is accused when it *)
(* operates on the value itself; and only then, if functions work on all   *)
(* they take (sibling.go 92, 165).                                         *)
AccusedPathsSkipACheck ==
  (Judged("siblings") /\ ReadInPlace(source)) =>
    /\ accused[2] \subseteq PathsSkipping(source, ItsParts)
    /\ AskedOnce(source)  => PathsSkipping(source, ItsValue) \subseteq accused[2]
    /\ WorksOnAll(source) => accused[2] \subseteq PathsSkipping(source, ItsValue)

(* Reference: the runs of a function with two arms, and the permissions    *)
(* that are handed on in one of them; they gather under the empty name.    *)
RunsOf(f) == {SelectSeq(f.source, LAMBDA s : s.arm \in {0, arm}) : arm \in {1, 2}}
HandedOn(run) ==
  FoldLeft(LAMBDA env, s :
      CASE s.op = "lookup" -> (s.var :> {<<s.var, s.arm>>}) @@ env
        [] s.op = "copy" -> (s.to :> (IF s.var \in DOMAIN env THEN env[s.var] ELSE {})) @@ env
        [] s.op = "use" -> (<<>> :> (env[<<>>] \cup (IF s.var \in DOMAIN env THEN env[s.var] ELSE {}))) @@ env
        [] OTHER -> env,
    <<>> :> {}, run)[<<>>]

(* A permission is reported as never applied exactly when no run of the    *)
(* function hands on, returns or compares what was looked up under that    *)
(* name, however it was copied and on whichever branch (unchecked.go 190). *)
UnappliedMeansUnused ==
  Judged("permission") =>
    accused[2] # {} <=> /\ source.anchored /\ ~source.fn.test /\ Head(source.fn.name) \in Vocabulary.enforces
                        /\ \A run \in RunsOf(source.fn) : HandedOn(run) = {}

(* Reference: whether every run of a function, or some run, writes.        *)
RECURSIVE EveryRunWrites(_, _), SomeRunWrites(_, _)
EveryRunWrites(src, f) ==
  \E c \in Range(src.fns[f]) : c.block = "entry" /\ (RelevantWrite(c) \/ (c.enters # {} /\ \A g \in c.enters : EveryRunWrites(src, g)))
SomeRunWrites(src, f) ==
  \E c \in Range(src.fns[f]) : RelevantWrite(c) \/ \E g \in c.enters : SomeRunWrites(src, g)

(* One function answers a call: of several candidates one that writes is   *)
(* enough (csrf.go 95).                                                    *)
OneCandidate(src) == \A f \in DOMAIN src.fns : \A c \in Range(src.fns[f]) : Cardinality(c.enters) <= 1

(* Where calls are resolved to one function, a route is accused of         *)
(* changing state only when it does: a route with the check taken off on   *)
(* some run, a route that answers a safe method on every run (csrf.go 43). *)
AccusedRoutesChangeState ==
  (Judged("route") /\ OneCandidate(source)) =>
    \A e \in accused[2] :
      IF source.entries[e].exempt THEN SomeRunWrites(source, source.entries[e].fn)
      ELSE EveryRunWrites(source, source.entries[e].fn)

(* Reference: what a name of a module means: its own binding, or the one   *)
(* of the module it is imported from.                                      *)
RECURSIVE Meaning(_, _, _)
Meaning(src, v, fuel) ==
  LET into == Incoming(src, v)
      from == {w \in Declared(src, src.val[v].name) : src.val[w].file = src.val[v].from}
  IN IF fuel = 0 THEN {}
     ELSE {src.val[v].literal} \cup UNION {Meaning(src, w, fuel - 1) : w \in into \cup (IF into = {} THEN from ELSE {})}

(* No two modules declare one name: a name nothing flows into is taken for *)
(* every declaration of it (limiter.go 280, 297).                          *)
DeclaredOnce(src) ==
  \A v, w \in DOMAIN src.val : (src.val[v].top /\ src.val[w].top /\ src.val[v].name = src.val[w].name) => v = w

(* Where modules declare names of their own, a limiter's key is said to    *)
(* come from a forwarding header exactly when a function the key function  *)
(* enters reads one, by the name written there or the constant it stands   *)
(* for (limiter.go 113).                                                   *)
AccusedKeysReadTheHeader ==
  (Judged("key") /\ DeclaredOnce(source)) =>
    \A f \in DOMAIN source.fns :
      f \in accused[2] <=>
        /\ source.fns[f].name \in Vocabulary.keys /\ source.fns[f].file = source.limited /\ ~source.fns[f].test
        /\ \E g \in Entered(source, f) :
             \/ \E v \in source.fns[g].vals : source.val[v].path # <<>> /\ Last(source.val[v].path) \in Range(HeaderNames)
             \/ \E c \in Range(source.fns[g].calls) : \E v \in Range(c.args) :
                  Meaning(source, v, 6) \cap Range(HeaderNames) # {}

(* Reference: the bucket a request falls in, when its caller sent that     *)
(* header: the last setting decides whom the application believes, and a   *)
(* limiter that validates turns a setting that believes everyone down.     *)
Believed(src) ==
  LET calls == FlattenSeq([f \in DOMAIN src.fns |-> IF src.fns[f].test THEN <<>> ELSE src.fns[f].calls])
      sets  == SelectSeq(calls, LAMBDA c : c.called = "set" /\ c.args[1] = Vocabulary.trust)
  IN sets # <<>> /\ Last(sets).args[2] \in Vocabulary.trusted
BucketOf(src, limiter, header) ==
  CASE \E o \in limiter.options : o[1] = Vocabulary.override -> "its own"
    [] Believed(src) /\ HasOption(limiter, Vocabulary.validation, Vocabulary.off) -> header
    [] OTHER -> "the connection"

(* The trust is set once: a later setting is not compared (limiter.go 74). *)
TrustedOnce(src) ==
  Cardinality({<<f, k>> \in UNION {{f} \X DOMAIN src.fns[f].calls : f \in DOMAIN src.fns} :
                 src.fns[f].calls[k].called = "set" /\ src.fns[f].calls[k].args[1] = Vocabulary.trust}) <= 1

(* Where the trust is set once, the settings are accused exactly when some *)
(* limiter of the program puts two requests of one caller that differ in   *)
(* the header alone in two buckets (limiter.go 53).                        *)
AccusedSettingsSplitTheBucket ==
  (Judged("default key") /\ TrustedOnce(source)) =>
    (accused[2] # {} <=> \E f \in DOMAIN source.fns : \E c \in Range(source.fns[f].calls) :
       ~source.fns[f].test /\ c.called \in Vocabulary.limits
         /\ BucketOf(source, c, "one header") # BucketOf(source, c, "another"))

(* Reference: the source delivers its event three times and whatever else  *)
(* it has once.  A step of a listener runs always or once the limit is     *)
(* passed, at the second delivery; "stop" ends the deliveries.             *)
Fires(src, step, delivery) == step.when = "always" \/ delivery > 1
Deliver(src, l, run) ==
  FoldLeft(LAMBDA r, n :
      LET step == src.source[l].body[n]
      IN IF r.left \/ ~Fires(src, step, r.delivery) THEN r
         ELSE CASE step.do = "keep"   -> [r EXCEPT !.grew = @ \cup r.before]
                [] step.do = "refuse" -> [r EXCEPT !.refused = @ \cup {n}]
                [] step.do = "stop"   -> [r EXCEPT !.on = FALSE]
                [] step.do = "leave"  -> [r EXCEPT !.left = TRUE]
                [] OTHER -> r,
    [run EXCEPT !.delivery = @ + 1, !.left = FALSE, !.before = run.refused], [n \in DOMAIN src.source[l].body |-> n])

(* The refusals of a listener it kept something more at a delivery after.  *)
GrowsAfter(src, l) ==
  FoldLeft(LAMBDA run, n : IF run.on THEN Deliver(src, l, run) ELSE run,
    [on |-> TRUE, delivery |-> 0, left |-> FALSE, before |-> {}, refused |-> {}, grew |-> {}],
    IF src.source[l].again THEN <<1, 2, 3>> ELSE <<1>>).grew

(* A listener is left at its end only: a return is not looked at (guard.go *)
(* 335).                                                                   *)
RunsToItsEnd(src) == \A l \in DOMAIN src.source : \A n \in DOMAIN src.source[l].body : src.source[l].body[n].do # "leave"

(* Of listeners without a return a refusal is accused of stopping nothing  *)
(* exactly when, on some run, its listener is called again after it and    *)
(* keeps more of what it was given, and no listener beside it stops the    *)
(* source (guard.go 290).                                                  *)
AccusedListenersGoOnGrowing ==
  (Judged("listener") /\ RunsToItsEnd(source)) =>
    accused[2] = {RepeatFinding(<<1, p[1]>>, p[2]) : p \in
      {q \in UNION {{l} \X GrowsAfter(source, l) : l \in DOMAIN source.source} :
         ~source.test /\ \A l \in DOMAIN source.source : \A n \in DOMAIN source.source[l].body :
                          source.source[l].body[n].do # "stop"}}

(* Reference: statements that build an answer, and what becomes of each.   *)
(* Constructors have symbols; without one they all are the same call.      *)
ConstructorsAreNamed(src) == \A k \in Built(src.fn) : src.fn.calls[k].symbol # ""

(* Of constructors that are named an answer is accused of being let fall   *)
(* exactly when its statement does nothing with it and another of the      *)
(* function, that calls the same constructor, does something with what it  *)
(* built (guard.go 347).                                                   *)
AccusedAnswersAreDropped ==
  (Judged("answer") /\ ConstructorsAreNamed(source)) =>
    LET stmts == source.source
        Builds(k) == stmts[k].on # "parameter" /\ stmts[k].name \in Vocabulary.constructs
    IN {found.sink : found \in accused[2]} =
         {k \in DOMAIN stmts : /\ Builds(k) /\ stmts[k].fate = "dropped"
                                /\ \E j \in DOMAIN stmts : /\ Builds(j) /\ stmts[j].fate # "dropped"
                                                            /\ stmts[j].name = stmts[k].name}

(* What a function is accused of having left out it left out, as far as    *)
(* the seven parts say; each names what it supposes of a program.          *)
AccusationsAreTrue ==
  /\ AccusedPathsSkipACheck /\ UnappliedMeansUnused /\ AccusedRoutesChangeState
  /\ AccusedKeysReadTheHeader /\ AccusedSettingsSplitTheBucket
  /\ AccusedListenersGoOnGrowing /\ AccusedAnswersAreDropped
=============================================================================
