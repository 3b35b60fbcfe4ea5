---------------------------- MODULE Expectation -----------------------------
(***************************************************************************)
(* What an entry point ought to carry and does not                         *)
(* (expectation/expectation.go, policy/policy.go), and what is said of a   *)
(* requirement after a run (assertion/assertion.go).                       *)
(*                                                                         *)
(* The state is the application: its code, the entry points enumerated in  *)
(* it and the declarations beside it.  The steps are what a team does to   *)
(* it between two runs; every judgement is a function of the state, as one *)
(* run computes it.                                                        *)
(***************************************************************************)
EXTENDS Surface

CONSTANTS
  Applications,   \* families of applications, each with what may yet be done to it
  MaxEntries      \* bound: entry points of an application

(* What a program is made of.  A function is numbered by its place; what a *)
(* call resolves to, or hands over, is one of them.  What a middleware     *)
(* mounts has a name; on one entry point, what is mounted for the whole    *)
(* application stands in front of what is mounted for a route.             *)
CallShape    == [kind : STRING, to : Nat, method : STRING, symbol : STRING, written : STRING, passes : SUBSET Nat]
FnShape      == [name : STRING, module : STRING, calls : Seq(CallShape),
                 reads : BOOLEAN, secret : BOOLEAN, pageParam : BOOLEAN]
BindingShape == [ref : STRING \ {""}, scope : {"app", "route"}]
EntryShape(c) == [fn : {0} \cup DOMAIN c.fns, module : STRING, kind : STRING, mount : STRING, method : STRING,
                  path : Seq(STRING), trust : STRING, chain : Seq(BindingShape)]
RuleShape    == [method : STRING, prefix : Seq(STRING), group : Seq(STRING), public : BOOLEAN,
                 requires : SUBSET STRING, reason : BOOLEAN]
PolicyShape  == [rules : SUBSET RuleShape, controls : Seq([name : STRING, kind : STRING, reason : BOOLEAN]),
                 drafts : SUBSET RuleShape]

CodeShaped(c) ==
  /\ c.fns \in Seq(FnShape)
  /\ \A f \in DOMAIN c.fns : LocalCallees(c.fns[f]) \cup HandedOver(c.fns[f]) \subseteq DOMAIN c.fns
  /\ c.middleware \subseteq BindingShape

ApplicationFirst(chain) ==
  \A i, j \in DOMAIN chain : i < j /\ chain[j].scope = "app" => chain[i].scope = "app"

EntriesShaped(c, es) == \A e \in es : e \in EntryShape(c) /\ ApplicationFirst(e.chain)

ASSUME ApplicationAssumption ==
  \A family \in Applications : \A a \in family :
    /\ CodeShaped(a.code) /\ IsFiniteSet(a.entries)
    /\ EntriesShaped(a.code, a.entries \cup a.code.routes)
    /\ a.policy \in PolicyShape

VARIABLES
  code,           \* the program
  entries,        \* its entry points, as enumerated
  policy,         \* what the team has declared
  coverage        \* what the last run said of each requirement

exVars == <<code, entries, policy, coverage>>

MinPeers == 3

-----------------------------------------------------------------------------
(* Declarations.                                                           *)

Matches(rule, e, group) ==
  /\ rule.method \in {"", e.method}
  /\ IsPrefix(rule.prefix, e.path)
  /\ rule.group \in {<<>>, group}

RulesFor(p, f) == {r \in p.rules : Matches(r, f.entry, f.group)}

(* A document that a run accepts: every rule selects by something and says *)
(* why.                                                                    *)
Loads(p) ==
  /\ \A r \in p.rules : (r.method # "" \/ r.prefix # <<>> \/ r.group # <<>>) /\ r.reason
  /\ \A d \in Range(p.controls) : d.name # "" /\ d.kind # "" /\ d.reason

HasControlKind(f, kind) == \E i \in DOMAIN f.controls : f.controls[i].kind = kind

LooksLikeAuthentication(path) == Range(path) \cap {"login", "token", "session"} # {}

WeaknessAt(kind, path) ==
  CASE kind = "authentication" -> "CWE-306"
    [] kind = "authorization"  -> "CWE-862"
    [] kind = "rate-limit"     -> IF LooksLikeAuthentication(path) THEN "CWE-307" ELSE "CWE-770"
    [] kind = "csrf"           -> "CWE-352"
    [] OTHER                   -> "CWE-284"

(* A safe method needs no token; every other control applies to a read.    *)
Applies(kind, f) == kind = "csrf" => f.entry.method \notin {"GET", "HEAD", "OPTIONS"}

(* The requirements a team stated that an entry point falls short of.      *)
Declared(s, p) ==
  UNION {UNION {{[origin |-> "declared", at |-> f, lacks |-> kind, kind |-> kind, gates |-> TRUE,
                  cwe |-> WeaknessAt(kind, f.entry.path)] :
                   kind \in {k \in r.requires : ~HasControlKind(f, k)}} : r \in RulesFor(p, f)} : f \in s}

UnmatchedRules(s, p) == {r \in p.rules : \A f \in s : ~Matches(r, f.entry, f.group)}

(* The labels a declaration says are public by design.                     *)
Exempt(s, p) == {f.label : f \in {x \in s : \E r \in RulesFor(p, x) : r.public}}

-----------------------------------------------------------------------------
(* The convention of a population: a control that most of it carries and   *)
(* that is not bound to the whole application.                             *)

Carries(f, ref) == ref \in Refs(f.controls) /\ ControlRef(f.controls, ref).scope # "app"

(* Defect: an exact three fifths is not enough.                            *)
ExpectedAboveRatio(s, g, ref) ==
  LET n == Cardinality(Peers(s, g))
      k == Cardinality({f \in Peers(s, g) : Carries(f, ref)})
  IN  k < n /\ k * 5 > n * 3

Expected(s, g, ref) ==
  LET n == Cardinality(Peers(s, g))
      k == Cardinality({f \in Peers(s, g) : Carries(f, ref)})
  IN  k < n /\ k * 5 >= n * 3

SignalKind(s, g, ref) ==
  ControlRef((CHOOSE f \in Peers(s, g) : Carries(f, ref)).controls, ref).kind

Deviations(s) ==
  UNION {UNION {{[at |-> f, lacks |-> ref, kind |-> SignalKind(s, g, ref)] :
                   f \in {x \in Peers(s, g) : /\ ref \notin Refs(x.controls)
                                              /\ Applies(SignalKind(s, g, ref), x)}} :
           ref \in {x \in UNION {Refs(f.controls) : f \in Peers(s, g)} : Expected(s, g, x)}} :
    g \in {x \in Groups(s) : Cardinality(Peers(s, x)) >= MinPeers}}

Suppressed(s, p) == {d \in Deviations(s) : d.at.label \in Exempt(s, p)}
Withheld(s, p) ==
  {d \in Deviations(s) \ Suppressed(s, p) : d.kind = "authentication" /\ d.at.credential}
Inferred(s, p) ==
  {[origin |-> "inferred", at |-> d.at, lacks |-> d.lacks, kind |-> d.kind, gates |-> FALSE,
    cwe |-> WeaknessAt(d.kind, d.at.entry.path)] :
     d \in Deviations(s) \ (Suppressed(s, p) \cup Withheld(s, p))}

Findings(s, p) == Declared(s, p) \cup Inferred(s, p)
Gating(s, p)   == \E f \in Findings(s, p) : f.gates

-----------------------------------------------------------------------------
(* What is said of a requirement.  A finding settles it; otherwise silence *)
(* has to have been worth something.                                       *)

NotEvaluated(req, c, s, es) ==
  \/ s = {}
  \/ Suspect(c, s, es)
  \/ \E by \in req.by : IF by = "expectations" THEN ~c.expectationRan ELSE ~c.taintRan \/ by \in c.skipped

Violated(req, c, s, p) ==
  req.cwes \cap (c.taintCWEs \cup {f.cwe : f \in Findings(s, p)}) # {}

RequirementState(req, c, p, s, es) ==
  CASE req.status = "undecidable"    -> "out of reach"
    [] req.status = "unchecked"      -> "not built"
    [] Violated(req, c, s, p)        -> "violated"
    [] NotEvaluated(req, c, s, es)   -> "not evaluated"
    [] OTHER                         -> "satisfied"

Catalog ==
  {[id |-> "1.2.5", status |-> "partial", cwes |-> {"CWE-78"}, by |-> {"untrusted-to-interpreter"}],
   [id |-> "8.2.2", status |-> "partial", cwes |-> {"CWE-639"}, by |-> {"unowned-record-access"}],
   [id |-> "8.3.1", status |-> "partial", cwes |-> {"CWE-284"}, by |-> {"expectations"}],
   [id |-> "8.1.1", status |-> "undecidable", cwes |-> {"CWE-285"}, by |-> {}]}

(* The coverage map of one run.                                            *)
Evaluate(c, p, es) ==
  LET s == Entries(c, p, es)
  IN  {[id |-> req.id, state |-> RequirementState(req, c, p, s, es)] : req \in Catalog}

-----------------------------------------------------------------------------
(* What a team does between two runs, and the run after it.                *)

ExInit ==
  \E family \in Applications :
    \E app \in family :
      /\ code = app.code /\ entries = app.entries /\ policy = app.policy
      /\ coverage = Evaluate(code, policy, entries)

NextRun == coverage' = Evaluate(code, policy', entries')

(* An entry point is registered, or its registration is taken away.        *)
Register ==
  /\ Cardinality(entries) < MaxEntries
  /\ \E e \in code.routes :
       /\ \A x \in entries : Label(code, x) # Label(code, e)
       /\ entries' = entries \cup {e}
  /\ UNCHANGED <<code, policy>>
  /\ NextRun

Unregister ==
  /\ \E e \in entries \cap code.routes : entries' = entries \ {e}
  /\ UNCHANGED <<code, policy>>
  /\ NextRun

Rechained(e, chain) == entries' = (entries \ {e}) \cup {[e EXCEPT !.chain = chain]}

(* One of the program's middlewares is mounted in front of an entry point, *)
(* or unmounted.  One for the whole application comes first in the chain.  *)
Mount ==
  /\ \E e \in entries, b \in code.middleware :
       /\ b \notin Range(e.chain)
       /\ Rechained(e, IF b.scope = "app" THEN <<b>> \o e.chain ELSE Append(e.chain, b))
  /\ UNCHANGED <<code, policy>>
  /\ NextRun

Unmount ==
  /\ \E e \in entries : \E k \in DOMAIN e.chain : Rechained(e, RemoveAt(e.chain, k))
  /\ UNCHANGED <<code, policy>>
  /\ NextRun

Declare ==
  /\ \E r \in policy.drafts \ policy.rules :
       /\ policy' = [policy EXCEPT !.rules = @ \cup {r}]
       /\ Loads(policy')
  /\ UNCHANGED <<code, entries>>
  /\ NextRun

ExNext == Register \/ Unregister \/ Mount \/ Unmount \/ Declare

ExSpec == ExInit /\ [][ExNext]_exVars

-----------------------------------------------------------------------------
Judged == Entries(code, policy, entries)

(* Reference: the routes of one router, those of them that mount a binding *)
(* of their own, and whether a declaration selects a route.                *)
Fellows(e) ==
  {x \in entries : x.kind = e.kind /\ x.mount = e.mount /\ ModuleOf(code, x) = ModuleOf(code, e)}
Mounts(e, ref) == \E b \in Range(e.chain) : b.ref = ref /\ b.scope = "route"
HasBinding(e, ref) == \E b \in Range(e.chain) : b.ref = ref
Selects(r, e) ==
  /\ r.method = "" \/ r.method = e.method
  /\ \A k \in DOMAIN r.prefix : k <= Len(e.path) /\ e.path[k] = r.prefix[k]
  /\ r.group = <<>> \/ r.group = <<e.kind, ModuleOf(code, e), e.mount>>

(* Of three or more routes of one router of which at least three in five   *)
(* mount a binding and one does not, that one is reported, unless a        *)
(* declaration that selects it says that it is public, or it resolved a    *)
(* record from a secret and the binding authenticates; and then that is    *)
(* what is said (expectation.go 200, 209, 219).                            *)
TheOddOneIsReported ==
  \A e \in entries, ref \in {b.ref : b \in code.middleware} :
    LET n == Cardinality(Fellows(e))
        k == Cardinality({x \in Fellows(e) : Mounts(x, ref)})
        kind == Classify(code, policy, ref)
        About(set) == \E d \in set : d.at.entry = e /\ d.lacks = <<"bound", ref>>
    IN  (/\ InApplicationSurface(code, ModuleOf(code, e))
         /\ n >= 3 /\ k * 5 >= n * 3
         /\ ~HasBinding(e, ref)
         /\ ~(kind = "csrf" /\ e.method \in {"GET", "HEAD", "OPTIONS"})) =>
        IF \E r \in policy.rules : r.public /\ Selects(r, e)
        THEN About(Suppressed(Judged, policy))
        ELSE IF kind = "authentication" /\ e.fn # 0 /\ code.fns[e.fn].secret
        THEN About(Withheld(Judged, policy))
        ELSE About(Inferred(Judged, policy))

(* Reference: what a request can make run.                                 *)
Runs(f, g) == \E k \in Range(code.fns[f].calls) : (k.kind = "local" /\ k.to = g) \/ g \in k.passes
Served == {e \in entries : /\ e.fn # 0 /\ e.trust \in {"", "remote"}
                           /\ InApplicationSurface(code, ModuleOf(code, e))}
RunByARequest ==
  {f \in DOMAIN code.fns : \A S \in SUBSET DOMAIN code.fns :
     ((\A e \in Served : e.fn \in S) /\ \A g \in S, h \in DOMAIN code.fns : Runs(g, h) => h \in S) => f \in S}

(* A call in g that is written with the name of f and is no other's.       *)
CallsByName(g, f) ==
  \E k \in Range(code.fns[g].calls) :
    code.fns[f].name \in {k.method, k.written} \ {""} /\ (k.kind = "local" => k.to \in {0, f})

(* The causes given for what is unreached are true of it (surface.go 195): *)
(* each function no request runs has one, "every caller is itself          *)
(* unreached" only where that is so, "nothing calls them by name" only     *)
(* where no call is written with the name.                                 *)
CausesAreTrue ==
  LET said == Unreached(code, Judged)
      run  == RunByARequest
      unreached == {f \in DOMAIN code.fns \ run :
                      code.fns[f].reads /\ InApplicationSurface(code, code.fns[f].module)}
  IN  /\ UNION {said.missing, said.below, said.never} = unreached
      /\ said.missing \cap said.below = {} /\ (said.missing \cup said.below) \cap said.never = {}
      /\ \A f \in said.below, g \in DOMAIN code.fns : Runs(g, f) => g \notin run
      /\ \A f \in said.never, g \in DOMAIN code.fns : ~CallsByName(g, f)
      /\ said.fromReached = {f \in said.missing : \E g \in run : CallsByName(g, f)}

(* What the properties suppose: a declaration about one entry point is     *)
(* carried out at its label, so that no two share one.                     *)
LabelsTellApart == \A x, y \in entries : Label(code, x) = Label(code, y) => x = y

(* Together: nothing goes quiet, neither a route nor the code no route     *)
(* runs.                                                                   *)
NothingGoesQuiet == TheOddOneIsReported /\ CausesAreTrue

(* A doubt is not outgrown (surface.go 250): a requirement that was not    *)
(* evaluated is not satisfied by a larger surface unless a request came to *)
(* run more of the code that reads input, or a served file was enumerated; *)
(* an application that reads no input needs only an entry point.           *)
DoubtIsNotOutgrown ==
  [][(\E v \in coverage, w \in coverage' : v.id = w.id /\ v.state = "not evaluated" /\ w.state = "satisfied") =>
       \/ InputFunctions(code) = {}
       \/ RunByARequest' \cap InputFunctions(code) # RunByARequest \cap InputFunctions(code)
       \/ UnenumeratedRoutes(code, entries)' # UnenumeratedRoutes(code, entries)]_exVars

(* A declaration selects entry points by property (policy.go 26) and its   *)
(* effect is reported with it: what is suppressed is an entry point that a *)
(* declaration of public by design selects.                                *)
SuppressedWhereDeclared ==
  \A d \in Suppressed(Judged, policy) :
    \E r \in policy.rules : r.public /\ Selects(r, d.at.entry)
=============================================================================
