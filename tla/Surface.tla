------------------------------ MODULE Surface -------------------------------
(***************************************************************************)
(* The enumerated attack surface (surface/surface.go, fileroutes.go and    *)
(* the parts of ir.go they stand on): the entry points of a program, the   *)
(* controls on each, the population it is compared with, and what the      *)
(* enumeration does not account for.                                       *)
(*                                                                         *)
(* A program `c` is its functions, what is known of its modules, and the   *)
(* kinds the model gives to names.  An entry point `e` is as registered:   *)
(* its function (0 when the handler did not resolve), the module that      *)
(* registers it, and the bindings mounted in front of it.  A path is a     *)
(* sequence of pieces.  Whether a function reads what the caller sent, and *)
(* whether it resolves a record from a secret, are module Credential's     *)
(* answers and are part of the program here.                               *)
(***************************************************************************)
EXTENDS Integers, Sequences, FiniteSets, SequencesExt, FiniteSetsExt

InApplicationSurface(c, m) ==
  ~c.modules[m].test /\ c.modules[m].provenance \notin {"vendored", "example", "tooling"}

(* The module an entry point stands in.                                    *)
ModuleOf(c, e) == IF e.fn # 0 THEN c.fns[e.fn].module ELSE e.module

TrustLevel(e) == IF e.trust = "" THEN "remote" ELSE e.trust

Label(c, e) == IF e.method # "" /\ e.path # <<>> THEN <<e.method>> \o e.path ELSE <<c.fns[e.fn].name>>

(* Defect: two routers of one module are one population.                   *)
GroupOfModule(c, e) == <<e.kind, ModuleOf(c, e), "">>

(* The population an entry point is compared with.                         *)
GroupOf(c, e) == <<e.kind, ModuleOf(c, e), e.mount>>

-----------------------------------------------------------------------------
(* Controls.                                                               *)

ModelKind(c, name) == IF name \in DOMAIN c.kindOf THEN c.kindOf[name] ELSE ""

(* What a team declares about its own bindings outranks the model.         *)
Classify(c, p, name) ==
  LET declared == SelectSeq(p.controls, LAMBDA d : d.name = name)
  IN  IF declared # <<>> THEN Head(declared).kind ELSE ModelKind(c, name)

ControlName(call) ==
  IF call.method # "" THEN call.method ELSE IF call.symbol # "" THEN call.symbol ELSE call.written

(* The bindings in front of the entry point that have a name, and the      *)
(* calls in its handler that are controls, at their places behind them.    *)
ControlsOf(c, p, e) ==
  LET calls   == IF e.fn = 0 THEN <<>> ELSE c.fns[e.fn].calls
      mounted == {i \in DOMAIN e.chain : e.chain[i].ref # ""}
      called  == {j \in DOMAIN calls : Classify(c, p, ControlName(calls[j])) # ""}
  IN  [i \in mounted \cup {Len(e.chain) + j : j \in called} |->
         IF i \in mounted
         THEN [ref   |-> <<"bound", e.chain[i].ref>>,
               kind  |-> Classify(c, p, e.chain[i].ref), scope |-> e.chain[i].scope]
         ELSE LET name == ControlName(calls[i - Len(e.chain)])
              IN  [ref |-> <<"call", name>>, kind |-> Classify(c, p, name), scope |-> "handler-body"]]

Refs(controls) == {controls[i].ref : i \in DOMAIN controls}

PlacesOf(controls, ref) == {i \in DOMAIN controls : controls[i].ref = ref}

(* Defect: of two bindings of one control the first is kept.               *)
ControlRefFirst(controls, ref) ==
  controls[CHOOSE i \in PlacesOf(controls, ref) : \A j \in PlacesOf(controls, ref) : i <= j]

(* A later binding of the same control replaces an earlier one.            *)
ControlRef(controls, ref) ==
  controls[CHOOSE i \in PlacesOf(controls, ref) : \A j \in PlacesOf(controls, ref) : j <= i]

(* Somewhere between arriving and being answered the caller was asked who  *)
(* they are: on the entry point, or one hop below its handler.             *)
Authenticates(c, p, e) ==
  \/ \E i \in DOMAIN ControlsOf(c, p, e) : ControlsOf(c, p, e)[i].kind = "authentication"
  \/ /\ e.fn # 0
     /\ \E k \in Range(c.fns[e.fn].calls) :
          /\ k.to \notin {0, e.fn}
          /\ \E below \in Range(c.fns[k.to].calls) : Classify(c, p, ControlName(below)) = "authentication"

Facts(c, p, e) ==
  [entry |-> e, group |-> GroupOf(c, e), label |-> Label(c, e), controls |-> ControlsOf(c, p, e),
   authenticates |-> Authenticates(c, p, e), credential |-> e.fn # 0 /\ c.fns[e.fn].secret]

(* What the application serves, and what is registered beside it; a test   *)
(* registers neither.                                                      *)
Entries(c, p, es) == {Facts(c, p, e) : e \in {x \in es : InApplicationSurface(c, ModuleOf(c, x))}}

NonApplicationEntries(c, p, es) ==
  {Facts(c, p, e) : e \in {x \in es : ~InApplicationSurface(c, ModuleOf(c, x))
                                      /\ c.modules[ModuleOf(c, x)].provenance # ""}}

(* How many entry points carry a control, and whether that tells them      *)
(* apart.                                                                  *)
ReachOf(s, ref) == Cardinality({f \in s : ref \in Refs(f.controls)})
Discriminates(s, ref) == ReachOf(s, ref) < Cardinality(s)

Groups(s) == {f.group : f \in s}
Peers(s, g) == {f \in s : f.group = g}

Classes(s) == {[kind  |-> f.entry.kind, trust |-> TrustLevel(f.entry),
                count |-> Cardinality({x \in s : x.entry.kind = f.entry.kind})] : f \in s}
RemoteEntries(s) == Cardinality({f \in s : TrustLevel(f.entry) = "remote"})

-----------------------------------------------------------------------------
(* Completeness: what of the code that reads a caller's input the          *)
(* enumeration reaches.                                                    *)

LocalCallees(f) == {k.to : k \in {x \in Range(f.calls) : x.kind = "local" /\ x.to # 0}}
HandedOver(f)   == UNION {k.passes : k \in Range(f.calls)}

ReachableFrom(c, roots) ==
  {f \in DOMAIN c.fns : \A S \in SUBSET DOMAIN c.fns :
     (roots \subseteq S /\ \A g \in S : LocalCallees(c.fns[g]) \cup HandedOver(c.fns[g]) \subseteq S) =>
       f \in S}

(* Defect: a clock that starts a function counts as a request for it.      *)
RootsOfEveryTrust(s) == {f.entry.fn : f \in s} \ {0}

Roots(s) == {f.entry.fn : f \in {x \in s : TrustLevel(x.entry) = "remote"}} \ {0}

Reachable(c, s) == ReachableFrom(c, Roots(s))

InputFunctions(c) == {f \in DOMAIN c.fns : c.fns[f].reads /\ InApplicationSurface(c, c.fns[f].module)}
NonProductionInputFunctions(c) == {f \in DOMAIN c.fns : c.fns[f].reads} \ InputFunctions(c)
UnreachedInputFunctions(c, s) == InputFunctions(c) \ Reachable(c, s)

(* Names written where a call did not resolve.                             *)
UnresolvedNames(f) ==
  UNION {{k.method, k.written} \ {""} : k \in {x \in Range(f.calls) : x.kind # "local" \/ x.to = 0}}
Named(c)          == UNION {UnresolvedNames(f) : f \in Range(c.fns)}
NamedFromReached(c, s) == UNION {UnresolvedNames(c.fns[f]) : f \in Reachable(c, s)}

CallersOf(c, f) == {g \in DOMAIN c.fns : f \in LocalCallees(c.fns[g])}

CauseOf(c, f) ==
  IF CallersOf(c, f) # {} THEN "below unreached"
  ELSE IF c.fns[f].name \in Named(c) THEN "missing call edge"
  ELSE "never called"

(* Why the functions counted as unreached are, and which of those a call   *)
(* is missing for are named in code that is reached.                       *)
Unreached(c, s) ==
  LET unreached == UnreachedInputFunctions(c, s)
      Of(cause) == {f \in unreached : CauseOf(c, f) = cause}
  IN  [missing |-> Of("missing call edge"), below |-> Of("below unreached"), never |-> Of("never called"),
       fromReached |-> {f \in Of("missing call edge") : c.fns[f].name \in NamedFromReached(c, s)}]

(* A file a framework serves at an address of its own, that gives a        *)
(* function the caller's request, and that no entry point names.           *)
Enumerated(c, es) ==
  {e.module : e \in es} \cup {c.fns[f].module : f \in {e.fn : e \in es} \ {0}}

ServesRequest(c, m) ==
  \E f \in Range(c.fns) : f.module = m /\ (f.name = "getServerSideProps" \/ f.pageParam)

UnenumeratedRoutes(c, es) ==
  {m \in DOMAIN c.modules \ Enumerated(c, es) :
     c.modules[m].page /\ InApplicationSurface(c, m) /\ ServesRequest(c, m)}

(* Defect: the count is set against the number of entry points, so that    *)
(* more of them excuse more.                                               *)
UnreachedShareSuspectByEntries(c, s) ==
  /\ InputFunctions(c) # {}
  /\ RemoteEntries(s) = 0 \/ Cardinality(UnreachedInputFunctions(c, s)) > RemoteEntries(s)

UnreachedShareSuspect(c, s) ==
  /\ InputFunctions(c) # {}
  /\ \/ RemoteEntries(s) = 0
     \/ 2 * Cardinality(UnreachedInputFunctions(c, s)) > Cardinality(InputFunctions(c))

Suspect(c, s, es) == UnenumeratedRoutes(c, es) # {} \/ UnreachedShareSuspect(c, s)
=============================================================================
