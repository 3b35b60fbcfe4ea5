----------------------------- MODULE Credential -----------------------------
(***************************************************************************)
(* What the caller sent, and whether a secret among it selected a record   *)
(* (surface/credential.go, with readsCallerInput of surface.go and the     *)
(* argument binding of ir.go).                                             *)
(*                                                                         *)
(* A handler and the functions it calls are a record of values, object     *)
(* literals, assignments and calls.  Names of fields are members of small  *)
(* sets, an access path is a sequence of them.  Function 1 is the handler. *)
(***************************************************************************)
EXTENDS Integers, Sequences, FiniteSets, SequencesExt, FiniteSetsExt

CONSTANTS
  Handlers,      \* families of handlers, each with what it calls
  SecretNames    \* the field names that say they hold a secret

ParamForms == [val : Nat, index : Int, name : STRING, destructured : BOOLEAN, path : Seq(STRING)]
ArgForms   == [val : Nat, index : Nat, name : STRING, paramIndex : Int]
CallForms_ == [read : BOOLEAN, callee : Nat, args : Seq(ArgForms)]

HandlerShaped(p) ==
  /\ p.val \in Seq([kind : STRING, base : Nat, path : Seq(STRING), name : STRING,
                    entries : Seq([key : STRING, val : Nat])])
  /\ p.fns \in Seq([params : Seq(ParamForms), vals : Seq(DOMAIN p.val), bound : BOOLEAN,
                    assigns : Seq([from : DOMAIN p.val, to : DOMAIN p.val]), calls : Seq(CallForms_)])
  /\ p.fns # <<>>
  /\ \A f \in Range(p.fns) : \A par \in Range(f.params) : par.val \in DOMAIN p.val
  /\ \A f \in Range(p.fns) : \A c \in Range(f.calls) : c.callee \in {0} \cup DOMAIN p.fns

ASSUME HandlersAssumption == \A family \in Handlers : \A p \in family : HandlerShaped(p)

VARIABLES
  handler,       \* the program of one handler
  resolved       \* what was concluded about it

crVars == <<handler, resolved>>

-----------------------------------------------------------------------------
(* What has no name, and what is filed under none.                         *)
Nameless == ""

(* What stands at these places of a sequence, in order.                    *)
StandingAt(seq, places) ==
  FlattenSeq([i \in DOMAIN seq |-> IF i \in places THEN <<seq[i]>> ELSE <<>>])

(* The model's rules about what a caller supplies.  A rule that names a    *)
(* trust below remote is evidence about neither question.                  *)

SourceRules(p) == {r \in Range(p.rules) : r.untrusted /\ r.trust \in {"", "remote"}}

SourceKinds(p)   == {r.kind : r \in {s \in SourceRules(p) : s.match = "kind"}}
SourceGlobals(p) == {r.symbol : r \in {s \in SourceRules(p) : s.match = "global"}}
PathsAt(p, i)    == UNION {r.paths : r \in {s \in SourceRules(p) : s.match = "position" /\ s.index = i}}

(* A binding pattern declares one parameter per bound name, every one at   *)
(* the position of the argument it takes apart; any other parameter is     *)
(* taken to sit at its place in the list.                                  *)
PositionOf(f, i) == IF f.params[i].destructured THEN f.params[i].index ELSE i - 1

ParamOf(f, v) == {i \in DOMAIN f.params : f.params[i].val = v}

(* The path from the argument.                                             *)
RootedPath(param, path) == IF param.destructured THEN param.path \o path ELSE path

AtPosition(p, f, v) ==
  \E i \in ParamOf(f, p.val[v].base) :
    Head(RootedPath(f.params[i], p.val[v].path)) \in PathsAt(p, PositionOf(f, i))

IsSourceGlobal(p, v) == v # 0 /\ p.val[v].kind = "global" /\ p.val[v].name \in SourceGlobals(p)

(* Defect: the path of a binding is read as if it began at the argument.   *)
ReadsCallerInputUnrooted(p, f) ==
  \E v \in Range(f.vals) :
    \/ p.val[v].kind \in SourceKinds(p)
    \/ IsSourceGlobal(p, p.val[v].base)
    \/ /\ p.val[v].kind = "property"
       /\ \E i \in ParamOf(f, p.val[v].base) : Head(p.val[v].path) \in PathsAt(p, PositionOf(f, i))

ReadsCallerInput(p, f) ==
  \E v \in Range(f.vals) :
    \/ p.val[v].kind \in SourceKinds(p)
    \/ IsSourceGlobal(p, p.val[v].base)
    \/ p.val[v].kind = "property" /\ AtPosition(p, f, v)

-----------------------------------------------------------------------------
(* The secrets the caller presented: a value the caller supplied whose     *)
(* last name says what it holds.                                           *)

NamePath(val) == IF val.path # <<>> THEN val.path ELSE <<val.name>>

IsSecret(p, f, v) ==
  LET val == p.val[v] IN
  IF val.kind \in SourceKinds(p) THEN Last(NamePath(val)) \in SecretNames
  ELSE /\ val.kind = "property"
       /\ Last(val.path) \in SecretNames
       /\ val.base # 0
       /\ \/ p.val[val.base].kind \in SourceKinds(p)
          \/ IsSourceGlobal(p, val.base)
          \/ AtPosition(p, f, v)

SecretsPresentedTo(p, f) == StandingAt(f.vals, {i \in DOMAIN f.vals : IsSecret(p, f, f.vals[i])})

-----------------------------------------------------------------------------
(* Where a value is carried: into the object literals that hold it and to  *)
(* the names it is given.  Each carrier is reached once, and keeps the key *)
(* it was first reached under; no key means that it is the value itself.   *)

Holder(o, e) == [carrier |-> o, key |-> e.key]
HoldersIn(p, o, v) ==
  LET entries == p.val[o].entries
  IN  FlattenSeq([k \in DOMAIN entries |-> IF entries[k].val = v THEN <<Holder(o, entries[k])>> ELSE <<>>])
Enclosing(p, f, v) == FlattenSeq([i \in DOMAIN f.vals |-> HoldersIn(p, f.vals[i], v)])

(* Defect: a secret given a local name is lost.                            *)
AssignedToNothing(f, v) == <<>>

AssignedTo(f, v) == StandingAt(f.assigns, {k \in DOMAIN f.assigns : f.assigns[k].from = v})

(* What has been reached, in the order it was: the part before `at` has    *)
(* been walked from.  Every value enters once.                             *)
Carried(reached, v) == \E i \in DOMAIN reached : reached[i].carrier = v
KeyOf(reached, v)   == reached[CHOOSE i \in DOMAIN reached : reached[i].carrier = v].key

AliasesOf(f, cur) ==
  LET flows == AssignedTo(f, cur.carrier)
  IN  [k \in DOMAIN flows |-> [carrier |-> flows[k].to, key |-> cur.key]]

Added(reached, met) ==
  LET after[k \in 0 .. Len(met)] ==
        IF k = 0 THEN reached
        ELSE LET before == after[k - 1]
             IN  IF Carried(before, met[k].carrier) THEN before ELSE Append(before, met[k])
  IN  after[Len(met)]

Visit(p, f, reached, at) ==
  IF at > Len(reached) THEN reached
  ELSE Added(reached, Enclosing(p, f, reached[at].carrier) \o AliasesOf(f, reached[at]))

(* No more is reached than the program has values.                         *)
Spread(p, f, seed) ==
  LET walked[n \in 0 .. Len(p.val)] ==
        IF n = 0 THEN <<[carrier |-> seed, key |-> Nameless]>> ELSE Visit(p, f, walked[n - 1], n)
  IN  walked[Len(p.val)]

-----------------------------------------------------------------------------
(* Which parameters an argument fills.  The frontend says so where the     *)
(* place it was written at is not the place it fills.                      *)

(* Defect: the written place is the place filled, whatever is implied.     *)
BindIndexAsWritten(a) == a.index

BindIndex(a) == IF a.paramIndex >= 0 THEN a.paramIndex ELSE a.index

BoundParam(a, f) ==
  LET fits == {i \in DOMAIN f.params :
                 /\ ~f.params[i].destructured
                 /\ IF a.name # Nameless THEN f.params[i].name = a.name ELSE f.params[i].index = BindIndex(a)}
  IN  IF fits = {} THEN <<>> ELSE <<f.params[CHOOSE i \in fits : \A j \in fits : i <= j]>>

BoundParams(a, f) ==
  StandingAt(f.params, {i \in DOMAIN f.params :
    IF a.name # Nameless THEN ~f.params[i].destructured /\ f.params[i].name = a.name
                   ELSE f.params[i].index = BindIndex(a)})

(* A secret handed over as itself fills a parameter; one filed under a key *)
(* reaches only a binding that reads exactly that key.                     *)
HandedTo(a, f, carried) ==
  LET bound == BoundParams(a, f)
  IN  IF ~Carried(carried, a.val) THEN <<>>
      ELSE IF KeyOf(carried, a.val) = Nameless THEN BoundParam(a, f)
      ELSE StandingAt(bound, {i \in DOMAIN bound :
                                bound[i].destructured /\ bound[i].path = <<KeyOf(carried, a.val)>>})

BoundBelow(call, f, carried) == FlattenSeq([k \in DOMAIN call.args |-> HandedTo(call.args[k], f, carried)])

(* The first store read that was handed something the secret is in.        *)
SelectsRecord(f, carried) ==
  LET reads == {i \in DOMAIN f.calls : f.calls[i].read /\ \E k \in DOMAIN f.calls[i].args :
                                                           Carried(carried, f.calls[i].args[k].val)}
  IN  IF reads = {} THEN 0 ELSE Min(reads)

Lookup(secret, fn, call) == [secret |-> secret, fn |-> fn, call |-> call]
NoCredential == Lookup(0, 0, 0)

(* The lookup of a function that got the secret as this value.             *)
LookupWith(p, secret, g, val) == Lookup(secret, g, SelectsRecord(p.fns[g], Spread(p, p.fns[g], val)))

LookupsBelow(p, secret, call) ==
  LET bound == BoundBelow(call, p.fns[call.callee], Spread(p, p.fns[1], secret))
  IN  IF call.callee \in {0, 1} THEN <<>>
      ELSE [b \in DOMAIN bound |-> LookupWith(p, secret, call.callee, bound[b].val)]

(* The handler's own lookup first, then one hop below it.                  *)
Lookups(p) ==
  LET f     == p.fns[1]
      seeds == SecretsPresentedTo(p, f)
      Below(secret) == FlattenSeq([i \in DOMAIN f.calls |-> LookupsBelow(p, secret, f.calls[i])])
  IN  [k \in DOMAIN seeds |-> LookupWith(p, seeds[k], 1, seeds[k])]
      \o FlattenSeq([k \in DOMAIN seeds |-> Below(seeds[k])])

CredentialOf(p) ==
  LET looked == Lookups(p)
      found  == {k \in DOMAIN looked : looked[k].call # 0}
  IN  IF found = {} THEN NoCredential ELSE looked[Min(found)]

-----------------------------------------------------------------------------
Unread == [done |-> FALSE]

CrInit == (\E family \in Handlers : handler \in family) /\ resolved = Unread

(* One analysis of the handler.                                            *)
Resolve ==
  /\ resolved = Unread
  /\ resolved' = [done       |-> TRUE,
                  reads      |-> ReadsCallerInput(handler, handler.fns[1]),
                  credential |-> CredentialOf(handler)]
  /\ UNCHANGED handler

CrNext == Resolve

CrSpec == CrInit /\ [][CrNext]_crVars

-----------------------------------------------------------------------------
(* Reference: where in each value a value of the caller's is found when    *)
(* the program runs, as the paths to it.  An object holds what was filed   *)
(* under each key, a property read takes what is under its name, a written *)
(* argument fills the parameter to the right of the implied ones, and a    *)
(* binding takes what is under its path.                                   *)

Beneath(q, path) == SubSeq(q, Len(path) + 1, Len(q))

(* The place an argument really fills: a bound receiver comes first.       *)
SlotFilled(p, call, a) == a.index + (IF p.fns[call.callee].bound THEN 1 ELSE 0)

Receives(p, call, a, par) ==
  IF a.name # Nameless THEN ~par.destructured /\ par.name = a.name ELSE par.index = SlotFilled(p, call, a)

(* What follows from a value being found at a path in another: what holds  *)
(* that one, what is read from it, what is given it, and what is called    *)
(* with it.                                                                *)
FiledWith(p, at, q) ==
  UNION {{<<o, <<e.key>> \o q>> : e \in {x \in Range(p.val[o].entries) : x.val = at}} : o \in DOMAIN p.val}

ReadFrom(p, at, q) ==
  {<<v, Beneath(q, p.val[v].path)>> : v \in {u \in DOMAIN p.val :
     p.val[u].kind = "property" /\ p.val[u].base = at /\ IsPrefix(p.val[u].path, q)}}

GivenTo(p, at, q) == UNION {{<<e.to, q>> : e \in {x \in Range(f.assigns) : x.from = at}} : f \in Range(p.fns)}

Filling(p, call, a, q) ==
  {<<par.val, IF par.destructured THEN Beneath(q, par.path) ELSE q>> :
     par \in {x \in Range(p.fns[call.callee].params) :
                Receives(p, call, a, x) /\ (x.destructured => IsPrefix(x.path, q))}}

CalledWith(p, at, q) ==
  UNION {UNION {UNION {Filling(p, c, a, q) : a \in {x \in Range(c.args) : x.val = at}} :
                c \in {x \in Range(f.calls) : x.callee # 0}} : f \in Range(p.fns)}

Onward(p, at, q) == ((FiledWith(p, at, q) \cup ReadFrom(p, at, q)) \cup GivenTo(p, at, q)) \cup CalledWith(p, at, q)

Further(p, held) == held \cup UNION {Onward(p, h[1], h[2]) : h \in held}

FoundIn(p, s) ==
  LET held[n \in 0 .. 2 * Len(p.val)] == IF n = 0 THEN {<<s, <<>>>>} ELSE Further(p, held[n - 1])
  IN  held[2 * Len(p.val)]

Holds(p, s, v) == \E h \in FoundIn(p, s) : h[1] = v

(* When an expectation is withheld because the caller presented a secret,  *)
(* the lookup the report cites really was handed that secret: credential.go*)
(* 332 tells of one that cited a row selected by the e-mail as selected by *)
(* the password.                                                           *)
TheLookupIsKeyedByTheSecret ==
  resolved # Unread =>
    LET c == resolved.credential IN
    c # NoCredential =>
      \E k \in DOMAIN handler.fns[c.fn].calls[c.call].args :
        Holds(handler, c.secret, handler.fns[c.fn].calls[c.call].args[k].val)

(* A handler that keys its own lookup with a secret it was sent is not     *)
(* taken for one without a credential, however the secret was wrapped or   *)
(* renamed on the way.                                                     *)
OwnLookupIsSeen ==
  resolved # Unread =>
    \A v \in Range(handler.fns[1].vals) :
      \A c \in {x \in Range(handler.fns[1].calls) : x.read} :
        \A k \in DOMAIN c.args :
          (IsSecret(handler, handler.fns[1], v) /\ Holds(handler, v, c.args[k].val)) =>
            resolved.credential # NoCredential

(* The two questions asked of the caller's input do not drift apart        *)
(* (credential.go 48): a handler that was sent a secret reads input.       *)
ASecretIsInput ==
  resolved # Unread => (SecretsPresentedTo(handler, handler.fns[1]) # <<>> => resolved.reads)

(* The three together: a handler's keyed lookup is known, and is known as  *)
(* what it is (credential.go 332).                                         *)
TheSecretsLookupIsKnown == TheLookupIsKeyedByTheSecret /\ OwnLookupIsSeen /\ ASecretIsInput

-----------------------------------------------------------------------------
(* What the properties suppose of a handler.  A function reads values of   *)
(* its own and no other writes them; what was put into an object or given  *)
(* a name is not taken out of it by a property, and nothing calls the      *)
(* handler; ...                                                            *)
KeptInHand(p) ==
  LET f   == p.fns[1]
      own == Range(f.vals)
  IN  /\ \A v \in own : \A e \in Range(p.val[v].entries) : e.val \in own \cup {0}
      /\ \A v \in {u \in own : p.val[u].kind = "property"} :
            /\ p.val[v].path # <<>> /\ p.val[v].base \in own
            /\ p.val[p.val[v].base].entries = <<>>
            /\ \A e \in Range(f.assigns) : e.to # p.val[v].base
      /\ \A e \in Range(f.assigns) : e.from \in own
      /\ \A c \in Range(f.calls) : \A a \in Range(c.args) : a.val \in own \cup {0}
      /\ \A g \in Range(p.fns) : \A c \in Range(g.calls) : c.callee # 1
      /\ \A g \in DOMAIN p.fns \ {1} :
            /\ \A e \in Range(p.fns[g].assigns) : e.to \notin own
            /\ \A par \in Range(p.fns[g].params) : par.val \notin own

(* ... and the frontend says which parameter a written argument fills      *)
(* (ir.go 604).                                                            *)
FillsAsStated(p) ==
  \A g \in Range(p.fns) : \A c \in {x \in Range(g.calls) : x.callee # 0} :
    \A a \in {x \in Range(c.args) : x.name = Nameless} : BindIndex(a) = SlotFilled(p, c, a)

(* A parameter's position is its place in this list for an ordinary        *)
(* parameter (surface.go 612): the place is the argument it fills.         *)
PlaceIsPosition ==
  \A i \in DOMAIN handler.fns[1].params : PositionOf(handler.fns[1], i) = handler.fns[1].params[i].index
=============================================================================
