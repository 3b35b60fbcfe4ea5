-------------------------------- MODULE Seeds --------------------------------
(***************************************************************************)
(* Where one classification begins: seedSources of taint/taint.go, which   *)
(* takes the rules of a class in the order the model declares them and     *)
(* marks what each of them says is a source, naming the entry point a      *)
(* request came through and the trust of whoever sent it.                  *)
(*                                                                         *)
(* Functions, values and entry points are numbered, 0 is none of them; an  *)
(* access path and a callee are sequences of the words written.  What is   *)
(* read of a program:                                                      *)
(*   fns      name, class, params, vals and calls, in order                *)
(*   val      value -> its kind, name, base, path and what it was assigned *)
(*            from                                                         *)
(*   entries  what the frontend enumerated: kind, framework, method, path, *)
(*            the captures written in the path and those recorded apart    *)
(*            from it, the word that tells a registration without a path   *)
(*            from others, and trust                                       *)
(*   rules    the rules of the class; stores the model's stores            *)
(*   prior    class -> the values it was propagated to before              *)
(***************************************************************************)
EXTENDS Integers, Sequences, FiniteSets, SequencesExt

CONSTANTS
  Intakes,      \* families of programs
  Inside,       \* word -> the words it contains
  Folded        \* word -> the one spelling all its spellings are folded into

(* What a program is made of: functions, values and entry points are       *)
(* numbered by their places, a value is of one function, what a function   *)
(* is given and what its calls answer with are values of its own, and one  *)
(* call answers with a value.                                              *)
ParamShape(p)  == [val : {0} \cup DOMAIN p.val, index : Int, name : STRING]
AskShape(p)    == [symbol : Seq(STRING), method : STRING, type : STRING, args : Seq([val : Nat, index : Int]),
                   result : {0} \cup DOMAIN p.val, to : {0} \cup DOMAIN p.fns, passes : SUBSET DOMAIN p.fns,
                   numbers : SUBSET [index : Int, is : Int], words : SUBSET STRING,
                   options : SUBSET [path : Seq(STRING), literal : BOOLEAN]]
DefShape(p)    == [name : STRING, class : STRING, params : Seq(ParamShape(p)), vals : Seq(DOMAIN p.val),
                   calls : Seq(AskShape(p))]
ValueShape     == [kind : STRING, base : Nat, path : Seq(STRING), name : STRING, from : Nat]
CaptureShape   == [converter : STRING, name : STRING]
EnteredShape(p) == [fn : {0} \cup DOMAIN p.fns, kind : STRING, framework : STRING, method : STRING,
                    path : Seq(STRING), written : Seq([mark : STRING, words : Seq(STRING)]),
                    recorded : Seq(CaptureShape), word : STRING, trust : STRING]

IntakeShaped(p) ==
  /\ p.fns \in Seq(DefShape(p)) /\ p.val \in Seq(ValueShape) /\ p.entries \in Seq(EnteredShape(p))
  /\ p.rules \in Seq(Range(p.rules))
  /\ \A f, g \in DOMAIN p.fns : f # g => Range(p.fns[f].vals) \cap Range(p.fns[g].vals) = {}
  /\ \A f \in DOMAIN p.fns :
       /\ \A q \in Range(p.fns[f].params) : q.val \in {0} \cup Range(p.fns[f].vals)
       /\ \A c \in Range(p.fns[f].calls) : c.result \in {0} \cup Range(p.fns[f].vals)
  /\ \A f, g \in DOMAIN p.fns : \A i \in DOMAIN p.fns[f].calls, j \in DOMAIN p.fns[g].calls :
       p.fns[f].calls[i].result = p.fns[g].calls[j].result /\ p.fns[f].calls[i].result # 0 => f = g /\ i = j

ASSUME IntakesAssumption == \A family \in Intakes : \A p \in family : IntakeShaped(p)

VARIABLES
  intake,       \* the program, with the rules of the class
  due,          \* the rules seedSources has yet to apply
  claims,       \* what the last rule applied has yet to mark
  seeds,        \* value -> the claim it was last seeded with
  kept,         \* value -> the route converter its kept edge came through
  records       \* recordFields: value -> the columns of the row it is

sdVars == <<intake, due, claims, seeds, kept, records>>

-----------------------------------------------------------------------------
(* Paths.  matchesPath counts segments.                                    *)
Begins(path, q) == Len(q) <= Len(path) /\ SubSeq(path, 1, Len(q)) = q

MatchesPath(path, prefixes) == \E q \in prefixes : Begins(path, q)

(* leafMatches: the last segment says what a field is; a veto wins, and a  *)
(* rule that names no leaf takes every path.                               *)
LeafMatches(path, r) ==
  \/ r.holds = {} /\ r.equals = {}
  \/ /\ Inside[Last(path)] \cap r.except = {}
     /\ Inside[Last(path)] \cap r.holds # {} \/ Folded[Last(path)] \in r.equals

-----------------------------------------------------------------------------
(* Entry points.  EntryByFunc keeps the last registration of a function.   *)
Registered(p, f) == {e \in DOMAIN p.entries : p.entries[e].fn = f}

EntryAt(p, f) ==
  IF Registered(p, f) = {} THEN 0 ELSE Max(Registered(p, f))

TrustOf(p, e) ==
  IF e = 0 THEN "" ELSE IF p.entries[e].trust = "" THEN "remote" ELSE p.entries[e].trust

(* describeEntry: two registrations that read the same are one.            *)
Described(p, e) ==
  LET ep == p.entries[e]
  IN  <<ep.method, ep.path, IF ep.method = "" /\ ep.path = <<>> THEN <<ep.kind, ep.word>> ELSE <<>>, ep.framework>>

CalledBy(p, f) == {g \in DOMAIN p.fns : \E c \in Range(p.fns[g].calls) : c.to = f}

(* Defect: a function handed to a call is not followed to who handed it.   *)
HandedByNobody(p, f) == {}

HandedBy(p, f) == {g \in DOMAIN p.fns : \E c \in Range(p.fns[g].calls) : f \in c.passes}

(* One call further up: of those that call f, and else of those that hand  *)
(* it on, the first that serves an entry point.                            *)
Higher(p, served) ==
  [f \in DOMAIN p.fns |->
    LET Serving(S) == {g \in S : served[g] # 0}
        above == IF Serving(CalledBy(p, f)) # {} THEN Serving(CalledBy(p, f)) ELSE Serving(HandedBy(p, f))
    IN  IF served[f] # 0 \/ above = {} THEN served[f] ELSE served[Min(above)]]

(* EntryOf: the entry point a function serves, up the call graph: the      *)
(* nearest, as a breadth-first walk meets them.                            *)
EntryOf(p, f) ==
  LET served[n \in 0 .. Len(p.fns)] ==
        IF n = 0 THEN [g \in DOMAIN p.fns |-> EntryAt(p, g)] ELSE Higher(p, served[n - 1])
  IN  served[Len(p.fns)][f]

(* enclosingEntry: what is reached from nowhere is named by itself.        *)
EnclosingEntry(p, f) ==
  IF EntryOf(p, f) = 0 THEN <<p.fns[f].name>> ELSE Described(p, EntryOf(p, f))

Takes(p, r, e) ==
  /\ p.entries[e].fn # 0
  /\ r.entryKind = p.entries[e].kind
  /\ r.framework = "" \/ p.entries[e].framework = "" \/ r.framework = p.entries[e].framework

(* The first parameter at a position, if there is one.                     *)
ParamAt(p, f, index) ==
  LET at == {i \in DOMAIN p.fns[f].params : p.fns[f].params[i].index = index}
  IN  {p.fns[f].params[i].val : i \in {j \in at : \A k \in at : j <= k}}

-----------------------------------------------------------------------------
(* What a rule claims of a value: the entry point it is reported under,    *)
(* the one whose address goes with it, and who could send it.              *)
Claim(v, entry, address, trust) ==
  [val |-> v, entry |-> entry, address |-> address, trust |-> trust, converter |-> "", columns |-> {}]

Unclaimed == Claim(0, 0, 0, "")

ClaimOf(p, v, e)      == Claim(v, e, e, TrustOf(p, e))
ClaimWithin(p, v, f)  == Claim(v, EntryOf(p, f), EntryAt(p, f), TrustOf(p, EntryOf(p, f)))
ClaimBelow(p, v, f)   == ClaimOf(p, v, EntryOf(p, f))

(* What a rule claims stands at places, and is marked in their order: a    *)
(* function and the place of a value or a call in it, or an entry point    *)
(* and the place in the function it is answered by.                        *)
ValuePlaces(p) == UNION {{f} \X DOMAIN p.fns[f].vals : f \in DOMAIN p.fns}
CallPlaces(p)  == UNION {{f} \X DOMAIN p.fns[f].calls : f \in DOMAIN p.fns}
ValueAt(p, x)  == p.fns[x[1]].vals[x[2]]
CallAt(p, x)   == p.fns[x[1]].calls[x[2]]
AnswerPlaces(p) == {x \in CallPlaces(p) : CallAt(p, x).result # 0}

Taken(p, r) == {e \in DOMAIN p.entries : Takes(p, r, e)}
EntryPlaces(p, r) == UNION {{e} \X DOMAIN p.fns[p.entries[e].fn].vals : e \in Taken(p, r)}
Answering(p, x) == <<p.entries[x[1]].fn, x[2]>>

FirstOf(places) == CHOOSE x \in places : \A y \in places : x[1] < y[1] \/ (x[1] = y[1] /\ x[2] <= y[2])

ReadOff(p, r, v, bases) ==
  /\ p.val[v].kind = "property" /\ p.val[v].base \in bases
  /\ MatchesPath(p.val[v].path, r.paths)

-----------------------------------------------------------------------------
(* seedByFunctionParamProperty: a hook only the framework calls, by its    *)
(* exact name.  Nobody's trust is recorded.                                *)
SeedByFunctionParamProperty(p, r) ==
  LET hooks == {f \in DOMAIN p.fns : p.fns[f].name = r.function}
      Hook(v, f) == Claim(v, EntryOf(p, f), 0, "")
  IN  IF r.paths = {}
      THEN [x \in {f \in hooks : ParamAt(p, f, r.index) # {}} \X {1} |->
              Hook(CHOOSE v \in ParamAt(p, x[1], r.index) : TRUE, x[1])]
      ELSE [x \in {y \in ValuePlaces(p) : /\ y[1] \in hooks
                                          /\ ReadOff(p, r, ValueAt(p, y), ParamAt(p, y[1], r.index))} |->
              Hook(ValueAt(p, x), x[1])]

SeedByValueKind(p, r) ==
  [x \in {y \in ValuePlaces(p) : p.val[ValueAt(p, y)].kind = r.kind} |-> ClaimWithin(p, ValueAt(p, x), x[1])]

(* globalPathOf: back over bases and plain assignments, each value once;   *)
(* what a base already carries is not written twice.                       *)
GlobalPathOf(p, start, symbol) ==
  LET back[n \in Nat, v \in Nat, path \in Seq(STRING)] ==
        IF p.val[v].kind = "global" THEN [path |-> path, rooted |-> p.val[v].name = symbol]
        ELSE LET next == IF p.val[v].base # 0 THEN p.val[v].base ELSE p.val[v].from
             IN  IF n = 0 \/ next = 0 THEN [path |-> path, rooted |-> FALSE]
                 ELSE back[n - 1, next, IF Begins(path, p.val[next].path) THEN path
                                        ELSE p.val[next].path \o path]
  IN  back[Len(p.val), start, p.val[start].path]

SeedByGlobalProperty(p, r) ==
  LET Sent(v) == LET at == GlobalPathOf(p, v, r.symbol)
                 IN  /\ p.val[v].kind = "property" /\ at.rooted
                     /\ MatchesPath(at.path, r.paths) /\ (r.exact => at.path \in r.paths)
                     /\ LeafMatches(at.path, r)
  IN  [x \in {y \in ValuePlaces(p) : Sent(ValueAt(p, y))} |-> ClaimWithin(p, ValueAt(p, x), x[1])]

(* The callee is the one a rule names, as written or by its last word.     *)
CalleeIs(c, r) ==
  IF r.leaf THEN c.symbol # <<>> /\ <<Last(c.symbol)>> = r.symbol ELSE c.symbol = r.symbol

(* seedByCallResult: by the callee, by a number written below a threshold, *)
(* by a word written as one of a few.                                      *)
SeedByCallResult(p, r) ==
  LET Answers(c) ==
        /\ CalleeIs(c, r)
        /\ r.below # {} => \E b \in r.below, n \in c.numbers : n.index = b.index /\ n.is < b.than
        /\ r.words # {} => c.words \cap r.words # {}
  IN  [x \in {y \in AnswerPlaces(p) : Answers(CallAt(p, y))} |-> ClaimWithin(p, CallAt(p, x).result, x[1])]

SeedByCallMethodResult(p, r) ==
  [x \in {y \in AnswerPlaces(p) : CallAt(p, y).method = r.method} |-> ClaimBelow(p, CallAt(p, x).result, x[1])]

SeedByProperty(p, r) ==
  [x \in {y \in ValuePlaces(p) : /\ p.val[ValueAt(p, y)].kind = "property"
                                 /\ LeafMatches(p.val[ValueAt(p, y)].path, r)} |->
     ClaimBelow(p, ValueAt(p, x), x[1])]

(* seedByEntryParamProperty, and seedByEntryCallProperty for what a helper *)
(* answered that the handler gave its own request to.                      *)
ReadAtEntries(p, r, BasesOf(_)) ==
  [x \in {y \in EntryPlaces(p, r) :
            LET v == ValueAt(p, Answering(p, y))
            IN  ReadOff(p, r, v, BasesOf(p.entries[y[1]].fn)) /\ LeafMatches(p.val[v].path, r)} |->
     ClaimOf(p, ValueAt(p, Answering(p, x)), x[1])]

SeedByEntryParamProperty(p, r) == ReadAtEntries(p, r, LAMBDA f : ParamAt(p, f, r.index))

SeedByEntryCallProperty(p, r) ==
  ReadAtEntries(p, r, LAMBDA f :
    {c.result : c \in {d \in Range(p.fns[f].calls) :
                         d.result # 0 /\ \E a \in Range(d.args) : a.val \in ParamAt(p, f, r.index)}})

-----------------------------------------------------------------------------
(* routePathParams: what the frontend recorded apart from the path, or     *)
(* else the path, where each of three marks has its own order of words.    *)
RoutePathParams(ep) ==
  LET Read(w) == CASE w.mark = ":" -> [converter |-> "", name |-> w.words[1]]
                   [] w.mark = "<" -> [converter |-> w.words[1], name |-> w.words[2]]
                   [] w.mark = "{" -> [converter |-> w.words[2], name |-> w.words[1]]
  IN  IF ep.recorded # <<>> THEN ep.recorded ELSE [i \in DOMAIN ep.written |-> Read(ep.written[i])]

(* Where a route names a capture; the last of a name is the one kept.      *)
Captures(ep, name) == {i \in DOMAIN RoutePathParams(ep) : name # "" /\ RoutePathParams(ep)[i].name = name}
Converter(ep, name) == RoutePathParams(ep)[Max(Captures(ep, name))].converter

(* seedByRoutePathParam: a parameter the route names is what it captured.  *)
SeedByRoutePathParam(p, r) ==
  LET ParamOf(x) == p.fns[p.entries[x[1]].fn].params[x[2]]
  IN  [x \in {y \in UNION {{e} \X DOMAIN p.fns[p.entries[e].fn].params : e \in Taken(p, r)} :
                ParamOf(y).val # 0 /\ Captures(p.entries[y[1]], ParamOf(y).name) # {}} |->
         [ClaimOf(p, ParamOf(x).val, x[1]) EXCEPT !.converter = Converter(p.entries[x[1]], ParamOf(x).name)]]

(* seedByViewInstanceProperty: the framework puts the request on the       *)
(* instance, so every method of a class some route reaches holds it.       *)
SeedByViewInstanceProperty(p, r) ==
  LET Routed(f) == {e \in Taken(p, r) : p.fns[f].class # "" /\ p.fns[p.entries[e].fn].class = p.fns[f].class}
      At(f) == IF EntryAt(p, f) \in Taken(p, r) THEN EntryAt(p, f) ELSE Min(Routed(f))
  IN  [x \in {y \in ValuePlaces(p) : /\ Routed(y[1]) # {}
                                     /\ ReadOff(p, r, ValueAt(p, y), ParamAt(p, y[1], 0))
                                     /\ LeafMatches(p.val[ValueAt(p, y)].path, r)} |->
         ClaimOf(p, ValueAt(p, x), At(x[1]))]

-----------------------------------------------------------------------------
(* Stores.  The receiver of a call as written, without the method.         *)
Receiver(c) == IF c.symbol # <<>> /\ Last(c.symbol) = c.method THEN Front(c.symbol) ELSE c.symbol

Within(words, marks) == {i \in 2 .. Len(words) - 1 : words[i] \in marks}

Reaches(s, c) ==
  \/ c.symbol \in s.symbols
  \/ /\ c.method \in s.methods
     /\ \/ s.alone
        \/ c.type \in s.types
        \/ Within(c.symbol, s.marks) # {}
        \/ /\ Receiver(c) \notin {<<>>, c.symbol}
           /\ Inside[Last(Receiver(c))] \cap s.holds # {}

(* storeAccessAt: the first store of the direction that matches.           *)
AccessAt(p, direction, c) ==
  LET at == {i \in DOMAIN p.stores : p.stores[i].direction = direction /\ Reaches(p.stores[i], c)}
  IN  {p.stores[i] : i \in {j \in at : \A k \in at : j <= k}}

(* StoreName: the last word of the receiver, or the word in front of the   *)
(* store's mark; none where the callee does not carry one.                 *)
StoreName(s, c) ==
  LET rest == Receiver(c)
      at   == Within(rest, {s.namedBefore})
  IN  CASE s.namedBefore = "" \/ rest = <<>> -> ""
        [] s.namedBefore = "." -> Folded[Last(rest)]
        [] OTHER -> IF at = {} THEN "" ELSE Folded[rest[(CHOOSE i \in at : \A j \in at : j <= i) - 1]]

CriteriaOptions == {"where", "select", "include", "filter"}
WrapperOptions  == {"data", "values", "set", "fields"}

(* WrittenFields: the columns whose value is not written in the call; a    *)
(* filter is none, and neither is a group that holds columns.              *)
WrittenFields(c) ==
  LET groups == {Head(o.path) : o \in {x \in c.options : Len(x.path) > 1}}
  IN  {Folded[Last(o.path)] : o \in {x \in c.options :
         /\ ~x.literal /\ Head(x.path) \notin CriteriaOptions
         /\ Len(x.path) = 1 => Head(x.path) \notin groups \cup WrapperOptions}}

CallCarries(p, class, c, index) ==
  \E a \in Range(c.args) : a.val \in p.prior[class] /\ (index < 0 \/ a.index = index)

(* The name of the store of the rule's medium a call goes through, if the  *)
(* call goes through one and carries a name.                               *)
NamesAt(p, r, direction, x) ==
  {StoreName(s, CallAt(p, x)) : s \in {t \in AccessAt(p, direction, CallAt(p, x)) : t.medium = r.medium}} \ {""}

Counts(p, r, x) ==
  /\ NamesAt(p, r, "write", x) # {}
  /\ WrittenFields(CallAt(p, x)) # {}
  /\ \E s \in AccessAt(p, "write", CallAt(p, x)) : CallCarries(p, r.writtenClass, CallAt(p, x), s.valueArg)
  /\ EntryOf(p, x[1]) # 0

(* seedByStoreRead: a row is the caller's who wrote it, where a request    *)
(* other than the first writer's reads it, under every column one of them  *)
(* writes.  Nothing is written where the class written was never seen.     *)
WritesTo(p, r, x) == {w \in CallPlaces(p) : Counts(p, r, w) /\ NamesAt(p, r, "write", w) = NamesAt(p, r, "read", x)}

SeedByStoreRead(p, r) ==
  LET Writer(x) == EntryOf(p, FirstOf(WritesTo(p, r, x))[1])
  IN  [x \in {y \in AnswerPlaces(p) : /\ NamesAt(p, r, "read", y) # {} /\ WritesTo(p, r, y) # {}
                                      /\ EnclosingEntry(p, y[1]) # Described(p, Writer(y))} |->
         [Claim(CallAt(p, x).result, EntryOf(p, x[1]), EntryAt(p, x[1]), TrustOf(p, Writer(x)))
            EXCEPT !.columns = UNION {WrittenFields(CallAt(p, w)) : w \in WritesTo(p, r, x)}]]

-----------------------------------------------------------------------------
(* seedSources.  A rule of a match the model does not know is taken for    *)
(* one of an entry point's parameter.                                      *)
Claims(p, r) ==
  CASE r.match = "value-kind"              -> SeedByValueKind(p, r)
    [] r.match = "global-property"         -> SeedByGlobalProperty(p, r)
    [] r.match = "call-result"             -> SeedByCallResult(p, r)
    [] r.match = "call-method-result"      -> SeedByCallMethodResult(p, r)
    [] r.match = "property"                -> SeedByProperty(p, r)
    [] r.match = "entry-call-property"     -> SeedByEntryCallProperty(p, r)
    [] r.match = "store-read"              -> SeedByStoreRead(p, r)
    [] r.match = "function-param-property" -> SeedByFunctionParamProperty(p, r)
    [] r.match = "route-path-param"        -> SeedByRoutePathParam(p, r)
    [] r.match = "view-instance-property"  -> SeedByViewInstanceProperty(p, r)
    [] OTHER                               -> SeedByEntryParamProperty(p, r)

Unmarked == "-"
NoClaims == [x \in {} |-> Unclaimed]

SdInit ==
  /\ \E family \in Intakes : intake \in family
  /\ due = intake.rules
  /\ claims = NoClaims
  /\ seeds = [v \in DOMAIN intake.val |-> Unclaimed]
  /\ kept = [v \in DOMAIN intake.val |-> Unmarked]
  /\ records = [v \in DOMAIN intake.val |-> {}]

Sow ==
  /\ DOMAIN claims = {} /\ due # <<>>
  /\ claims' = Claims(intake, Head(due))
  /\ due' = Tail(due)
  /\ UNCHANGED <<intake, seeds, kept, records>>

(* A later claim is the seed.  markTainted keeps the first edge, and takes *)
(* one without a converter for one with.                                   *)
Mark ==
  /\ DOMAIN claims # {}
  /\ LET c == claims[FirstOf(DOMAIN claims)]
     IN  /\ seeds' = [seeds EXCEPT ![c.val] = c]
         /\ kept' = [kept EXCEPT ![c.val] =
                       IF @ = Unmarked \/ (c.converter = "" /\ @ # "") THEN c.converter ELSE @]
         /\ records' = [records EXCEPT ![c.val] = IF c.columns = {} THEN @ ELSE c.columns]
  /\ claims' = [x \in DOMAIN claims \ {FirstOf(DOMAIN claims)} |-> claims[x]]
  /\ UNCHANGED <<intake, due>>

SdNext == Sow \/ Mark
SdSpec == SdInit /\ [][SdNext]_sdVars

-----------------------------------------------------------------------------
(* Reference: what an entry point makes run, itself and all that is called *)
(* or handed on from there.                                                *)
Hands(p, f, g) == \E c \in Range(p.fns[f].calls) : c.to = g \/ g \in c.passes
Serves(p, e) ==
  LET fns == DOMAIN p.fns
  IN  {f \in fns : \A S \in SUBSET fns :
         (/\ p.entries[e].fn \in S \cup {0}
          /\ \A g \in S, h \in fns : Hands(p, g, h) => h \in S) => f \in S}

StandsIn(p, v) == CHOOSE f \in DOMAIN p.fns : v \in Range(p.fns[f].vals)
Settled        == due = <<>> /\ DOMAIN claims = {}

(* A source is reported under an entry point that makes its function run,  *)
(* or whose class its function is a method of, under none only where no    *)
(* entry point does, and under one of its own where it has one that the    *)
(* rule takes (taint.go 3132, 3171, 1860).                                 *)
Anchored(p, c) ==
  LET f == StandsIn(p, c.val)
      e == c.entry
  IN  IF e = 0 THEN \A d \in DOMAIN p.entries : f \notin Serves(p, d)
      ELSE /\ f \in Serves(p, e) \/ p.fns[f].class \in {p.fns[p.entries[e].fn].class} \ {""}
           /\ Registered(p, f) # {} =>
                \/ p.entries[e].fn = f
                \/ \E r \in Range(p.rules) : \E d \in Registered(p, f) :
                     r.match = "view-instance-property" /\ Takes(p, r, e) /\ ~Takes(p, r, d)

AnchorsServe == \A v \in DOMAIN seeds : seeds[v] # Unclaimed => Anchored(intake, seeds[v])

(* A capture some route leaves open is not taken for a converted one,      *)
(* whichever of its routes was enumerated first, and a converter is never  *)
(* one no route wrote (taint.go 1784, 3849).                               *)
RouteSays(p, v) ==
  {Converter(p.entries[x[1]], x[2].name) :
     x \in {y \in UNION {{e} \X Range(p.fns[p.entries[e].fn].params) :
                           e \in UNION {Taken(p, r) : r \in {q \in Range(p.rules) : q.match = "route-path-param"}}} :
              y[2].val = v /\ Captures(p.entries[y[1]], y[2].name) # {}}}

OpenCapturesStayOpen ==
  \A v \in DOMAIN kept :
    /\ Settled /\ "" \in RouteSays(intake, v) => kept[v] = ""
    /\ kept[v] \in RouteSays(intake, v) \cup {"", Unmarked}

(* A row read back is a caller's because a request that reads the same as  *)
(* no request of the reader's wrote it, and is as far to be trusted as one *)
(* of them; every column it has was written by one; and a row that only    *)
(* other requests write is seeded (taint.go 1183).                         *)
StoreRules(p) == {r \in Range(p.rules) : r.match = "store-read"}
Writers(p, x) == {e \in DOMAIN p.entries : x[1] \in Serves(p, e)}

(* Where a value of the class a rule says is written goes into the store   *)
(* that a read takes its row from.                                         *)
WritesBehind(p, r, q) ==
  {w \in CallPlaces(p) :
     /\ NamesAt(p, r, "write", w) = NamesAt(p, r, "read", q) /\ NamesAt(p, r, "read", q) # {}
     /\ \E s \in AccessAt(p, "write", CallAt(p, w)) : CallCarries(p, r.writtenClass, CallAt(p, w), s.valueArg)
     /\ WrittenFields(CallAt(p, w)) # {} /\ Writers(p, w) # {}}

Foreign(p, e, q) == Described(p, e) # EnclosingEntry(p, q[1])

(* The row that a rule says a read takes, of these columns and, where it   *)
(* is still the last thing claimed of the value, of this trust.            *)
Earned(p, r, q, columns, trusts) ==
  /\ \E w \in WritesBehind(p, r, q) : \E e \in Writers(p, w) :
       Foreign(p, e, q) /\ \A trust \in trusts : TrustOf(p, e) = trust
  /\ \A column \in columns : \E w \in WritesBehind(p, r, q) : \E o \in CallAt(p, w).options :
       ~o.literal /\ Folded[Last(o.path)] = column /\ Head(o.path) # "where"

RowsAreAnothers ==
  \A q \in AnswerPlaces(intake) :
    LET v == CallAt(intake, q).result
    IN  /\ records[v] # {} =>
             \E r \in StoreRules(intake) :
               Earned(intake, r, q, records[v], IF seeds[v].columns # {} THEN {seeds[v].trust} ELSE {})
        /\ \A r \in StoreRules(intake) :
             /\ Settled /\ WritesBehind(intake, r, q) # {}
             /\ \A w \in WritesBehind(intake, r, q) : \A e \in Writers(intake, w) : Foreign(intake, e, q)
             => records[v] # {}

(* Together: what a class begins with is what a request really sends.      *)
SourcesAreEarned == AnchorsServe /\ OpenCapturesStayOpen /\ RowsAreAnothers
=============================================================================
