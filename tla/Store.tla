------------------------------- MODULE Store --------------------------------
(***************************************************************************)
(* core/internal/store: what a program writes somewhere.  `Analyze` walks  *)
(* every function's calls and writes under each rule and reports what no   *)
(* excuse covers; the excuses are arguments from elsewhere - a rotation    *)
(* near by, a sanitizer on every way, a look-up every way has passed - and *)
(* they are what is checked here.  Afterwards requests run, so that the    *)
(* look-up the rule was silent for can be looked for in a run.             *)
(*                                                                         *)
(* Dominance is that of cfg, which Cfg shows to be what it is here: every  *)
(* way to the second block passes the first.                               *)
(***************************************************************************)
EXTENDS Integers, Sequences, SequencesExt, FiniteSets

CONSTANTS Value,      \* the values of a program
          Programs,   \* the programs that are analysed
          MaxRun      \* how many statements a request runs at most

ASSUME MaxRunAssumption == MaxRun \in Nat

(* The functions, the statements in program order, and what is known of    *)
(* the values.  0 stands for no value, no function, no block.              *)
ASSUME ProgramsAssumption ==
  \A p \in Programs :
    LET V0 == Value \cup {0}
        F0 == 0 .. Len(p.fns)
    IN  /\ \A f \in DOMAIN p.fns :
             /\ p.fns[f].params \in Seq(Value)
             /\ p.fns[f].flows \in Seq([from : Value, to : Value, composes : BOOLEAN])
             /\ \A b \in DOMAIN p.fns[f].succs : p.fns[f].succs[b] \subseteq DOMAIN p.fns[f].succs
        /\ \A i \in DOMAIN p.stmts :
             /\ p.stmts[i].fn \in F0 \ {0}
             /\ p.stmts[i].block \in {0} \cup DOMAIN p.fns[p.stmts[i].fn].succs
             /\ p.stmts[i].at \in DOMAIN p.fns[p.stmts[i].fn].succs
        /\ \A v \in Value : p.val[v].base \in V0 /\ p.val[v].owner \in F0
        /\ p.classified \cup p.seeds \cup p.projected \subseteq Value

VARIABLES
  program,
  reported,   \* the statements reported
  stack,      \* the activations of the running request, the latest last
  steps       \* how many statements this request ran

stVars == <<program, reported, stack, steps>>

-----------------------------------------------------------------------------
Fn(f)    == program.fns[f]
Stmt(i)  == program.stmts[i]
Val(v)   == program.val[v]
Rule     == program.rule
Fns      == DOMAIN program.fns
Calls    == {i \in DOMAIN program.stmts : Stmt(i).does = "call"}
Writes   == {i \in DOMAIN program.stmts : Stmt(i).does = "write"}
CallsIn(f)  == {i \in Calls : Stmt(i).fn = f}
SitesOf(f)  == {i \in Calls : Stmt(i).callee = f}
ArgsOf(i)   == Range(Stmt(i).args)
ResultOf(v) == {i \in Calls : Stmt(i).result = v}
IntoFlows(v) == UNION {{k \in Range(Fn(f).flows) : k.to = v} : f \in Fns}

-----------------------------------------------------------------------------
(* rotation: is a function anywhere near a call of one of these names?     *)
Out(f)     == UNION {Stmt(i).passes \cup ({Stmt(i).callee} \ {0}) : i \in CallsIn(f)}
Callers(f) == {c \in Fns : f \in Out(c)}

(* What a function hands over and calls, in the order it does.             *)
OutInOrder(f) ==
  FlattenSeq([n \in 1 .. Cardinality(CallsIn(f)) |->
                LET call == Stmt(SetToSortSeq(CallsIn(f), <)[n])
                IN  SetToSortSeq(call.passes, <) \o (IF call.callee = 0 THEN <<>> ELSE <<call.callee>>)])

(* downWhere: depth first, and a function met at the limit is not followed *)
(* when it is met again nearer.                                            *)
RECURSIVE Down(_, _, _)
Down(seen, f, depth) ==
  IF depth < 0 \/ f \in seen THEN seen
  ELSE FoldLeft(LAMBDA s, n : Down(s, n, depth - 1), seen \cup {f}, OutInOrder(f))

DownDepth == 3
UpDepth   == 2

Names(f) == {Stmt(i).name : i \in CallsIn(f)}

DownWhere(f, matches) == Down({}, f, DownDepth) \cap matches # {}

(* Defect: an ascent does not stop at a request's handler.                 *)
AscentPast(f) ==
  LET Up[n \in 0 .. UpDepth] == IF n = 0 THEN {f} ELSE UNION {Callers(c) : c \in Up[n - 1]}
  IN  UNION {Up[n] : n \in 0 .. UpDepth}

Ascent(f) ==
  LET Up[n \in 0 .. UpDepth] ==
        IF n = 0 THEN {f} ELSE UNION {Callers(c) : c \in {u \in Up[n - 1] : ~ Fn(u).entry}}
  IN  UNION {Up[n] : n \in 0 .. UpDepth}

ReachesWhere(f, matches) == \E a \in Ascent(f) : DownWhere(a, matches)

(* requestValue: the bases of a value, five at most.                       *)
RequestValue(v) ==
  LET Up[n \in 0 .. 4] == IF n = 0 THEN v ELSE IF Up[n - 1] = 0 THEN 0 ELSE Val(Up[n - 1]).base
  IN  \E n \in 0 .. 4 : Up[n] # 0 /\ Val(Up[n]).name \in {"req", "request"}

IdentityChangeCall(i) ==
  /\ Stmt(i).name \in Rule.identityCalls
  /\ IF Stmt(i).on # 0 THEN RequestValue(Stmt(i).on)
     ELSE Len(Stmt(i).args) > 0 /\ RequestValue(Stmt(i).args[1])

IntrinsicIdentityRotation(i) ==
  RequestValue(Stmt(i).on) /\ Stmt(i).name \in Rule.rotatingMethods

Rotates(f) == \/ Names(f) \cap Rule.absentCall # {}
              \/ \E i \in CallsIn(f) : IntrinsicIdentityRotation(i)

RotationNear(f) == ReachesWhere(f, {g \in Fns : Rotates(g)})

(* reachedFromEntry: the function or a direct caller handles a request.    *)
ReachedFromEntry(f) ==
  Fn(f).entry \/ \E i \in SitesOf(f) : Fn(Stmt(i).fn).entry

-----------------------------------------------------------------------------
(* Ways back from a written value through classified values.               *)
PathDepth == 16

ClassifiedInto(v) == {k \in IntoFlows(v) : k.from \in program.classified}

RECURSIVE ComposedOnPath(_, _)
ComposedOnPath(v, seen) ==
  /\ Cardinality(seen) < PathDepth /\ v \notin seen
  /\ \E k \in ClassifiedInto(v) : k.composes \/ ComposedOnPath(k.from, seen \cup {v})

Composed(v) == ComposedOnPath(v, {})

(* Defect: what the sanitizer does to one input is taken for all.          *)
SanitizerCoversSome(i) ==
  \/ Rule.sanitizedArg = 0
  \/ \E n \in DOMAIN Stmt(i).args : Stmt(i).args[n] \in program.classified /\ n = Rule.sanitizedArg

SanitizerCovers(i) ==
  \/ Rule.sanitizedArg = 0
  \/ LET given == {n \in DOMAIN Stmt(i).args : Stmt(i).args[n] \in program.classified}
     IN  given = {Rule.sanitizedArg}

Sanitized(v) == \E i \in ResultOf(v) : Stmt(i).name \in Rule.sanitizers /\ SanitizerCovers(i)

RECURSIVE UnsanitizedPath(_, _)
UnsanitizedPath(v, seen) ==
  \/ Cardinality(seen) >= PathDepth \/ v \in seen
  \/ v \in program.seeds
  \/ /\ ~ Sanitized(v)
     /\ \/ ClassifiedInto(v) = {}
        \/ \E k \in ClassifiedInto(v) : UnsanitizedPath(k.from, seen \cup {v})

-----------------------------------------------------------------------------
(* Retention: the key a write files under.                                 *)
Root(v) ==
  LET Up[n \in 0 .. Cardinality(Value)] ==
        IF n = 0 THEN v ELSE IF Val(Up[n - 1]).base = 0 THEN Up[n - 1] ELSE Val(Up[n - 1]).base
  IN  Up[Cardinality(Value)]

OutlivesRequest(i) ==
  LET root == Root(Stmt(i).base)
      owner == Val(root).owner
  IN  \/ Stmt(i).process
      \/ Val(root).kind = "global"
      \/ owner # 0 /\ owner # Stmt(i).fn /\ Fn(owner).top

(* containerName: the names down to the value, anonymous subscripts left   *)
(* out.                                                                    *)
RECURSIVE ContainerName(_)
ContainerName(v) ==
  IF v = 0 THEN <<>>
  ELSE ContainerName(Val(v).base) \o (IF Val(v).name = "" THEN <<>> ELSE <<Val(v).name>>)

ExtentWords == {"length", "size", "count", "len"}

(* Through one call: what it was handed first.                             *)
ThroughCall(v) ==
  LET at == {i \in ResultOf(v) : Len(Stmt(i).args) > 0}
  IN  ContainerName(IF at = {} THEN v ELSE Stmt(CHOOSE i \in at : TRUE).args[1])

ExtentOf(v) ==
  CASE Val(v).kind = "property" /\ Val(v).name \in ExtentWords -> ThroughCall(Val(v).base)
    [] \E i \in ResultOf(v) : Stmt(i).name \in ExtentWords /\ Len(Stmt(i).args) > 0 ->
         ThroughCall(Stmt(CHOOSE i \in ResultOf(v) : TRUE).args[1])
    [] OTHER -> <<>>

Bounded == {ExtentOf(v) : v \in UNION Range(program.compares)} \ {<<>>}

(* relatedValues: two passes over the edges as they are listed, each       *)
(* seeing what the edges before it added.                                  *)
RelatedPasses == 2
RelatedValues(f, key) ==
  LET Pass(values) ==
        FoldLeft(LAMBDA known, k : IF {k.from, k.to} \cap known # {} THEN known \cup {k.from, k.to} ELSE known,
                 values, Fn(f).flows)
      On[n \in 0 .. RelatedPasses] == IF n = 0 THEN {key} ELSE Pass(On[n - 1])
  IN  On[RelatedPasses]

Handed(i, values) == (ArgsOf(i) \cup {Stmt(i).on}) \cap values # {}
PureOfKey(i) == Stmt(i).builtin \/ Stmt(i).name \in Rule.keyPure

ReachAvoiding(f, a) ==
  LET On[n \in 0 .. Len(Fn(f).succs)] ==
        IF n = 0 THEN {1} \ {a}
        ELSE LET was == On[n - 1] IN was \cup (UNION {Fn(f).succs[b] : b \in was} \ {a})
  IN  On[Len(Fn(f).succs)]
Dominates(f, a, b) == b \notin ReachAvoiding(f, a)

(* Defect: a look-up anywhere in the function counts.                      *)
DecidedAnywhere(f, i, values) ==
  \E c \in CallsIn(f) \ {i} :
    /\ Stmt(c).block \notin {0, Stmt(i).block}
    /\ Handed(c, values) /\ ~ PureOfKey(c)

(* A look-up in a block every way to the statement passes.                 *)
Decided(f, i, values) ==
  \E c \in CallsIn(f) \ {i} :
    /\ Stmt(c).block \notin {0, Stmt(i).block}
    /\ Handed(c, values) /\ ~ PureOfKey(c)
    /\ Dominates(f, Stmt(c).block, Stmt(i).block)

(* ungatedCallSite: the parameter the key came in by, and the sites that   *)
(* hand over something the caller of the program chose.                    *)
KeyParam(f, values) == SelectInSeq(Fn(f).params, LAMBDA v : v \in values)

Passed(i, idx) == IF idx \in DOMAIN Stmt(i).args THEN Stmt(i).args[idx] ELSE 0

Considered(f, idx) ==
  {i \in SitesOf(f) : Stmt(i).block # 0 /\ Passed(i, idx) \in program.classified}

GatedSite(i, idx) ==
  Decided(Stmt(i).fn, i, RelatedValues(Stmt(i).fn, Passed(i, idx)))

AfterLookup(w) ==
  LET f == Stmt(w).fn
      related == RelatedValues(f, Stmt(w).key)
      idx == KeyParam(f, related)
  IN  \/ Stmt(w).block = 0
      \/ Decided(f, w, related)
      \/ /\ idx # 0 /\ Considered(f, idx) # {}
         /\ \A i \in Considered(f, idx) : GatedSite(i, idx)

Retained(w) ==
  /\ Stmt(w).key \in program.classified
  /\ ~ Fn(Stmt(w).fn).test
  /\ ~ (Rule.unprojected /\ Stmt(w).key \in program.projected)
  /\ ContainerName(Stmt(w).base) # <<>>
  /\ OutlivesRequest(w)
  /\ ContainerName(Stmt(w).base) \notin Bounded
  /\ ~ AfterLookup(w)

-----------------------------------------------------------------------------
(* elementParams: what a callback or a loop binds to a member of a         *)
(* collection.                                                             *)
Iterating == {"foreach", "map", "filter", "find", "flatmap", "some", "every"}
ElementParams ==
  {Head(Fn(g).params) : g \in {h \in UNION {Stmt(i).passes : i \in {c \in Calls : Stmt(c).name \in Iterating}} :
                                 Fn(h).params # <<>>}}
    \cup {v \in Value : Val(v).kind = "bound"}

(* literalFallback, literalDefaultArgument: the value written down for     *)
(* when nothing is configured - never the first argument, which is the     *)
(* name that is looked up.                                                 *)
LiteralFallback(v) ==
  Val(v).kind = "fallback" /\ \E k \in IntoFlows(v) : Val(k.from).kind = "secret"

LiteralDefaultArgument(v) ==
  \E i \in ResultOf(v) : \E n \in 2 .. Len(Stmt(i).args) : Val(Stmt(i).args[n]).kind = "secret"

WrittenDown(v) == Val(v).kind = "secret" \/ LiteralFallback(v) \/ LiteralDefaultArgument(v)

(* The destination a rule names; none means any.                           *)
IntoMatches(w) == Rule.into = {} \/ Val(Stmt(w).base).name \in Rule.into

Narrowed(w) ==
  /\ Stmt(w).from # 0
  /\ Rule.entryOnly => ReachedFromEntry(Stmt(w).fn)
  /\ IntoMatches(w)
  /\ ~ (Rule.notElement /\ Stmt(w).base \in ElementParams)

JudgedWrite(w) ==
  CASE Rule.subject = "key"     -> Retained(w)
    [] Rule.subject = "absent"  -> ~ RotationNear(Stmt(w).fn)
    [] Rule.subject = "literal" -> WrittenDown(Stmt(w).from)
    [] Rule.subject = "class"   ->
         LET v == Stmt(w).from
         IN  /\ v \in program.classified
             /\ ~ (Rule.composition = "required" /\ ~ Composed(v))
             /\ ~ (Rule.composition = "refused" /\ Composed(v))
             /\ Rule.sanitizers # {} => UnsanitizedPath(v, {})
             /\ ~ (Rule.unprojected /\ v \in program.projected)
    [] OTHER -> FALSE

ReportedCall(i) ==
  /\ Rule.subject = "absent" /\ IdentityChangeCall(i)
  /\ ~ IntrinsicIdentityRotation(i)
  /\ ~ RotationNear(Stmt(i).fn)

(* unrotatedOnUpdate: the half for a new record mints a credential, and    *)
(* the half for an old one rewrites whom it admits without it.             *)
Unrotated(i) ==
  /\ Rule.subject = "insert" /\ Stmt(i).stored
  /\ (Stmt(i).inserts \ Stmt(i).updates) \cap Rule.secretFields # {}
  /\ Stmt(i).updates \cap Rule.subjectFields # {}

-----------------------------------------------------------------------------
StInit ==
  /\ program \in Programs
  /\ reported = {} /\ stack = <<>> /\ steps = -1

Analyze ==
  /\ steps = -1
  /\ reported' = {i \in Calls : ReportedCall(i) \/ Unrotated(i)} \cup {w \in Writes : Narrowed(w) /\ JudgedWrite(w)}
  /\ steps' = 0
  /\ UNCHANGED <<program, stack>>

(* A request runs: the handler, the statements of a block in order, the    *)
(* functions they call or hand on.                                         *)
Frame(f) == [fn |-> f, block |-> 1, next |-> 1, ran |-> {}]
Now == stack[Len(stack)]

TextOf(f, b) == SetToSortSeq({i \in DOMAIN program.stmts : Stmt(i).fn = f /\ Stmt(i).at = b}, <)
Text == TextOf(Now.fn, Now.block)

Request ==
  /\ steps = 0 /\ stack = <<>>
  /\ \E f \in Fns : Fn(f).entry /\ stack' = <<Frame(f)>>
  /\ UNCHANGED <<program, reported, steps>>

Run ==
  /\ stack # <<>> /\ steps < MaxRun /\ Now.next <= Len(Text)
  /\ LET i == Text[Now.next]
         on == [stack EXCEPT ![Len(stack)].next = @ + 1, ![Len(stack)].ran = @ \cup {i}]
         called == IF Stmt(i).does = "call" THEN Stmt(i).passes \cup ({Stmt(i).callee} \ {0}) ELSE {}
     IN  IF called = {} THEN stack' = on
         ELSE \E f \in called : stack' = Append(on, Frame(f))
  /\ steps' = steps + 1
  /\ UNCHANGED <<program, reported>>

Branch ==
  /\ stack # <<>> /\ steps < MaxRun /\ Now.next > Len(Text)
  /\ IF Fn(Now.fn).succs[Now.block] = {} THEN stack' = Front(stack)
     ELSE \E b \in Fn(Now.fn).succs[Now.block] :
            stack' = [stack EXCEPT ![Len(stack)].block = b, ![Len(stack)].next = 1]
  /\ steps' = steps + 1
  /\ UNCHANGED <<program, reported>>

StNext == Analyze \/ Request \/ Run \/ Branch

StSpec == StInit /\ [][StNext]_stVars

-----------------------------------------------------------------------------
(* Values connected by any chain of assignments: what the same identifier  *)
(* may be called in a function.                                            *)
Connected(f, v) ==
  LET On[n \in 0 .. Cardinality(Value)] ==
        IF n = 0 THEN {v}
        ELSE LET was == On[n - 1]
             IN  was \cup UNION {{k.from, k.to} : k \in {e \in Range(Fn(f).flows) : {e.from, e.to} \cap was # {}}}
  IN  On[Cardinality(Value)]

LookedUp(frame, v, site) ==
  \E c \in (frame.ran \cap Calls) \ {site} : Handed(c, Connected(frame.fn, v)) /\ ~ PureOfKey(c)

(* The call the latest activation is the callee of.                        *)
Site == LET below == stack[Len(stack) - 1]
        IN  TextOf(below.fn, below.block)[below.next - 1]

(* A container is left unreported as looked up first (store.go:1046-1066,  *)
(* 1080-1147) only where every request that files a key has put it to      *)
(* something that could refuse it - in the function or in the one that     *)
(* handed it over.  Call sites whose place is not stated are not vouched   *)
(* for.                                                                    *)
FiledKeyWasLookedUp ==
  /\ steps >= 0 /\ Rule.subject = "key" /\ stack # <<>> /\ Now.next <= Len(Text)
  /\ LET w == Text[Now.next]
     IN  /\ w \in Writes \ reported /\ Narrowed(w)
         /\ Stmt(w).block # 0 /\ Stmt(w).key \in program.classified \ program.projected
         /\ OutlivesRequest(w) /\ ContainerName(Stmt(w).base) \notin Bounded
         /\ ~ Fn(Now.fn).test
  => LET w   == Text[Now.next]
         idx == KeyParam(Now.fn, RelatedValues(Now.fn, Stmt(w).key))
     IN  \/ LookedUp(Now, Stmt(w).key, 0)
         \/ /\ Len(stack) > 1
            /\ \/ Site \notin Considered(Now.fn, idx)
               \/ LookedUp(stack[Len(stack) - 1], Passed(Site, idx), Site)

(* Reached by calls and callbacks, however far.                            *)
ReachedFrom(f) ==
  LET On[n \in 0 .. Len(program.fns)] ==
        IF n = 0 THEN {f} ELSE LET was == On[n - 1] IN was \cup UNION {Out(g) : g \in was}
  IN  On[Len(program.fns)]

(* A change of identity is excused by a rotation only when one request can *)
(* do both: never by another route of the module (store.go:573-580).       *)
RotationOfTheSameRequest ==
  steps >= 0 /\ Rule.subject = "absent" =>
    \A w \in {x \in Writes \ reported : Narrowed(x)} :
      LET f == Stmt(w).fn
          asked == {e \in Fns : Fn(e).entry /\ f \in ReachedFrom(e)}
      IN  asked # {} => \E e \in asked : \E g \in ReachedFrom(e) : Rotates(g)

(* A sanitizing call cleans what it is handed in the argument it is about. *)
Cleans(v, input) ==
  \E i \in ResultOf(v) :
    /\ Stmt(i).name \in Rule.sanitizers
    /\ Rule.sanitizedArg = 0 \/ \A n \in DOMAIN Stmt(i).args : Stmt(i).args[n] = input => n = Rule.sanitizedArg

(* The classified values a seed reaches uncleaned.                         *)
Exposed ==
  LET On[n \in 0 .. Cardinality(Value)] ==
        IF n = 0 THEN program.seeds
        ELSE LET was == On[n - 1]
             IN  was \cup {v \in program.classified : \E k \in IntoFlows(v) : k.from \in was /\ ~ Cleans(v, k.from)}
  IN  On[Cardinality(Value)]

(* "Every classified predecessor must be neutralized; one unencoded path   *)
(* keeps the finding" (store.go:305-307).                                  *)
OneOpenWayKeepsTheFinding ==
  steps >= 0 /\ Rule.subject = "class" /\ Rule.sanitizers # {} /\ Rule.composition = "any" =>
    \A w \in {x \in Writes : Narrowed(x)} :
      Stmt(w).from \in (Exposed \cap program.classified) \ program.projected => w \in reported

(* What excuses a write holds of every request (store.go 305, 573, 1046).  *)
ExcusesHold == FiledKeyWasLookedUp /\ RotationOfTheSameRequest /\ OneOpenWayKeepsTheFinding
=============================================================================
