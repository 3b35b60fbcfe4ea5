------------------------------ MODULE Declared ------------------------------
(***************************************************************************)
(* core/internal/scope/declared.go: views whose check and whose selection  *)
(* are attributes of a class.  The framework runs the declared check, then *)
(* either selects a record itself or dispatches into a method of the view; *)
(* `judgeDeclared` compares the request keys the check was about with      *)
(* those the record is resolved from, one call of a method a step, then    *)
(* the class.  Then a request that passes the check is served.             *)
(*                                                                         *)
(* A method is the sequence of its statements in the order they run.  What *)
(* a value is made of is the set of the method's own sources: fields of    *)
(* the request, and whatever stands for something already authorized.      *)
(***************************************************************************)
EXTENDS Integers, Sequences

CONSTANTS Applications,
          Local            \* the values of a method, as positive numbers

ASSUME LocalAssumption == Local \subseteq Nat \ {0}

FlowForms == [op : {"assign", "enclose", "property"}, from : Local, to : Local]
CallForms == [op : {"call"}, on : Local \cup {0}, args : SUBSET Local, result : Local \cup {0},
               method : STRING, mutates : BOOLEAN]
DeclaredKeys == [key : STRING, loc : Nat]

ASSUME ApplicationAssumption ==
  \A a \in Applications :
    /\ a.views \in Seq([framework : BOOLEAN, authorizes : SUBSET STRING,
                        selects : Seq(DeclaredKeys), constrains : Seq(DeclaredKeys),
                        resolves : Seq([by : STRING, key : STRING]),
                        relation : BOOLEAN, methods : Seq(DOMAIN a.bodies)])
    /\ a.bodies \in Seq([kind : [Local -> {"param", "property", "local"}],
                         base : [Local -> Local \cup {0}], self : Local \cup {0},
                         leaf : [Local -> STRING], head : [Local -> STRING],
                         container : [Local -> STRING], keyed : SUBSET Local,
                         identity : SUBSET Local, steps : Seq(FlowForms \cup CallForms)])

VARIABLES
  app,        \* the application
  view_,      \* the view judgeDeclared looks at next,
  method_,    \* the method of it judgeBody looks at next,
  step_,      \* and the statement of that judgeHandler looks at next
  saidKeys,   \* the keys reported of this method so far
  filed,      \* what is reported, each with the view it was reported of
  request,    \* what is served: a view, a method of it (0: the framework's own
              \* selection), and whose record each field of the request names
  atLine,     \* the statement that runs next
  madeOf      \* what every value of the method is made of

judging == <<view_, method_, step_, saidKeys, filed>>
serving == <<request, atLine, madeOf>>
deVars  == <<app, judging, serving>>

-----------------------------------------------------------------------------
(* judgeHandler: the sources of a method.                                  *)
Entries(seq) == {seq[i] : i \in DOMAIN seq}
CallSites(b)    == {i \in DOMAIN b.steps : b.steps[i].op = "call"}
OperandsOf(s)  == s.args \cup ({s.on} \ {0})

(* requestKeys: fields of the request whose names say identifier.          *)
RequestParams(b) == {v \in Local : b.kind[v] = "param"}
RequestParsed(b) ==
  {b.steps[i].result : i \in {c \in CallSites(b) : b.steps[c].args \cap RequestParams(b) # {}}} \ {0}

BaseHops == 16
OfTheRequest(b, v) ==
  LET roots == RequestParams(b) \cup RequestParsed(b) \cup {0}
      Up[n \in 0 .. BaseHops] ==
        IF n = 0 THEN v ELSE LET w == Up[n - 1] IN IF w \in roots THEN w ELSE b.base[w]
  IN  Up[BaseHops] \in roots \ {0}

RequestFields(b) ==
  {v \in b.keyed : b.kind[v] = "property" /\ b.base[v] # 0 /\ OfTheRequest(b, b.base[v])}

(* resolverNamed: the key the first accessor of that name stands for.      *)
StandsForOneOf(view, name, keys) ==
  \E i \in DOMAIN view.resolves :
    /\ view.resolves[i].by = name /\ view.resolves[i].key \in keys
    /\ \A j \in 1 .. i - 1 : view.resolves[j].by # name

(* What is related to the check without saying so: an accessor of the view *)
(* that resolves to an authorized key, read or called, and the caller's    *)
(* identity.                                                               *)
RelatedSources(view, b) ==
  {v \in Local : /\ b.kind[v] = "property" /\ b.base[v] = b.self /\ b.self # 0
                 /\ StandsForOneOf(view, b.head[v], view.authorizes)}
  \cup b.identity
  \cup ({b.steps[i].result : i \in
           {c \in CallSites(b) : /\ b.steps[c].on = b.self /\ b.self # 0
                              /\ StandsForOneOf(view, b.steps[c].method, view.authorizes)}} \ {0})

SourcesOf(view, b) == RequestFields(b) \cup RelatedSources(view, b)

(* propagate (scope.go): along every edge but a property read, and through *)
(* every call.                                                             *)
HandsOn(b) ==
  UNION {IF b.steps[i].op = "call" THEN OperandsOf(b.steps[i]) \X ({b.steps[i].result} \ {0})
         ELSE IF b.steps[i].op = "property" THEN {}
         ELSE {<<b.steps[i].from, b.steps[i].to>>} : i \in DOMAIN b.steps}

LeadsFrom(b, k) ==
  LET hands == HandsOn(b)
  IN  {v \in Local : \A S \in SUBSET Local :
         (k \in S /\ \A h \in hands : h[1] \in S => h[2] \in S) => v \in S}

(* Defect: what an operation was handed is what stands in its brackets.    *)
OperandKeysInBrackets(view, b, i) ==
  {k \in SourcesOf(view, b) : b.steps[i].args \cap LeadsFrom(b, k) # {}}

(* operandKeys: the receiver included.                                     *)
OperandKeys(view, b, i) ==
  {k \in SourcesOf(view, b) : OperandsOf(b.steps[i]) \cap LeadsFrom(b, k) # {}}

ScopedBy(view, b, i) ==
  \E k \in OperandKeys(view, b, i) :
    k \in RelatedSources(view, b) \/ b.leaf[k] \in view.authorizes

(* The keys an operation can be reported for: of those it carries, what no *)
(* check was about and was not reported of this method.                    *)
UnaskedKeys(view, b, i, said) ==
  IF b.steps[i].op = "call" /\ b.steps[i].mutates /\ ~ ScopedBy(view, b, i) /\ RequestFields(b) # {}
  THEN {k \in OperandKeys(view, b, i) : b.leaf[k] \notin view.authorizes \cup said}
  ELSE {}

-----------------------------------------------------------------------------
(* The framework's own selection.                                          *)

(* relatedByQuery: the query override narrows by a key the check was about.*)
RelatedByQuery(view) == \E c \in Entries(view.constrains) : c.key \in view.authorizes

(* unrelatedKey: the declared lookup, or of a collection what it is        *)
(* narrowed by.                                                            *)
Selection(view) == IF view.selects # <<>> THEN SubSeq(view.selects, 1, 1) ELSE view.constrains

UnrelatedKeys(view) ==
  LET keys == Selection(view)
  IN  {keys[i] : i \in {n \in DOMAIN keys : /\ keys[n].key \notin view.authorizes
                                            /\ \A m \in 1 .. n - 1 : keys[m].key \in view.authorizes}}

(* Defect: that the class narrows its query at all is taken for the        *)
(* relation.                                                               *)
ClassFindingOfUnnarrowed(view) ==
  IF view.relation \/ view.constrains # <<>> THEN {} ELSE UnrelatedKeys(view)

ClassFinding(view) ==
  IF view.relation \/ RelatedByQuery(view) THEN {} ELSE UnrelatedKeys(view)

-----------------------------------------------------------------------------
(* judgeDeclared.  One finding per place, whichever view it is found of.   *)
ViewAt(v)      == app.views[v]
IsJudged(v)   == ViewAt(v).framework /\ ViewAt(v).authorizes # {}
BodyOf(v, m)  == app.bodies[ViewAt(v).methods[m]]

(* bodyFinding, declaredFinding: what was asked about is the view's, the   *)
(* place is where the key is and where the operation is.                   *)
BodyFinding(v, m, k, i) == [view |-> v, place |-> <<"body", ViewAt(v).methods[m], k, i>>]
DeclaredFinding(v, key) == [view |-> v, place |-> <<"class", key.loc, key.key>>]

AddFindings(found) == filed \cup {f \in found : \A r \in filed : r.place # f.place}

DeInit ==
  /\ app \in Applications
  /\ view_ = 1 /\ method_ = 1 /\ step_ = 1 /\ saidKeys = {} /\ filed = {}
  /\ request = [view |-> 0, method |-> 0, record |-> <<>>]
  /\ atLine = 1 /\ madeOf = [v \in Local |-> {}]

(* One operation of a method: the first of its unasked keys is reported.   *)
JudgeStatement ==
  /\ view_ \in DOMAIN app.views /\ IsJudged(view_)
  /\ method_ \in DOMAIN ViewAt(view_).methods
  /\ LET b    == BodyOf(view_, method_)
         keys == UnaskedKeys(ViewAt(view_), b, step_, saidKeys)
         k    == CHOOSE x \in keys : \A y \in keys : x <= y
     IN  /\ step_ \in DOMAIN b.steps
         /\ IF keys = {} THEN UNCHANGED <<saidKeys, filed>>
            ELSE /\ saidKeys' = saidKeys \cup {b.leaf[k]}
                 /\ filed' = AddFindings({BodyFinding(view_, method_, k, step_)})
  /\ step_' = step_ + 1
  /\ UNCHANGED <<app, view_, method_, serving>>

NextMethod ==
  /\ view_ \in DOMAIN app.views /\ IsJudged(view_)
  /\ method_ \in DOMAIN ViewAt(view_).methods
  /\ step_ \notin DOMAIN BodyOf(view_, method_).steps
  /\ method_' = method_ + 1 /\ step_' = 1 /\ saidKeys' = {}
  /\ UNCHANGED <<app, view_, filed, serving>>

JudgeClass ==
  /\ view_ \in DOMAIN app.views
  /\ IsJudged(view_) => method_ \notin DOMAIN ViewAt(view_).methods
  /\ filed' = IF ~ IsJudged(view_) THEN filed
                  ELSE AddFindings({DeclaredFinding(view_, k) : k \in ClassFinding(ViewAt(view_))})
  /\ view_' = view_ + 1 /\ method_' = 1 /\ step_' = 1
  /\ UNCHANGED <<app, saidKeys, serving>>

-----------------------------------------------------------------------------
(* A request: for every field the record of some scope, "mine" the one the *)
(* check asks about.  The check reads its keys out of the route.           *)
Route(key) == <<"kwargs", key>>

FieldsOf(v) ==
  {Route(k.key) : k \in Entries(ViewAt(v).selects) \cup Entries(ViewAt(v).constrains)}
  \cup {Route(k) : k \in ViewAt(v).authorizes}
  \cup UNION {{<<BodyOf(v, m).container[k], BodyOf(v, m).leaf[k]>> : k \in RequestFields(BodyOf(v, m))} :
                m \in DOMAIN ViewAt(v).methods}

PassesTheCheck(v, record) == \A k \in ViewAt(v).authorizes : record[Route(k)] = "mine"

Dispatch ==
  /\ view_ \notin DOMAIN app.views /\ request.view = 0
  /\ \E v \in DOMAIN app.views : \E m \in {0} \cup DOMAIN ViewAt(v).methods :
       \E record \in [FieldsOf(v) -> {"mine", "other"}] :
         /\ PassesTheCheck(v, record)
         /\ request' = [view |-> v, method |-> m, record |-> record]
         /\ madeOf' = [x \in Local |->
              IF m # 0 /\ x \in RequestParams(BodyOf(v, m)) THEN {x} \cap SourcesOf(ViewAt(v), BodyOf(v, m)) ELSE {}]
  /\ UNCHANGED <<app, judging, atLine>>

Served == ViewAt(request.view)
Body   == BodyOf(request.view, request.method)
InBody == request.view # 0 /\ request.method # 0
Made(values) == UNION {madeOf[v] : v \in values}

(* A source stands for itself, what is enclosed adds to the value it is    *)
(* put into, and a field that is read is made of nothing but itself.       *)
Target(s) == IF s.op = "call" THEN s.result ELSE s.to
ReadBy(s) == IF s.op = "call" THEN OperandsOf(s) ELSE {s.from}
Keeps(s)  == IF s.op = "property" THEN {} ELSE IF s.op = "enclose" THEN {s.from, s.to} ELSE ReadBy(s)

RunStep ==
  /\ InBody /\ atLine \in DOMAIN Body.steps
  /\ LET s == Body.steps[atLine]
     IN  madeOf' = [v \in Local |->
            IF v = Target(s) THEN Made(Keeps(s)) \cup ({v} \cap SourcesOf(Served, Body)) ELSE madeOf[v]]
  /\ atLine' = atLine + 1
  /\ UNCHANGED <<app, judging, request>>

DeNext == JudgeStatement \/ NextMethod \/ JudgeClass \/ Dispatch \/ RunStep
DeSpec == DeInit /\ [][DeNext]_deVars

-----------------------------------------------------------------------------
(* Whose record a source names; the check holds some to be the caller's.   *)
Field(k)    == <<Body.container[k], Body.leaf[k]>>
NamesAt(k)  == IF k \in RelatedSources(Served, Body) THEN "mine" ELSE request.record[Field(k)]
HeldByTheCheck(k) ==
  k \in RelatedSources(Served, Body) \/ \E a \in Served.authorizes : Field(k) = Route(a)

(* A run writes records that only sources naming another record select.    *)
WritesAt(i)   == InBody /\ atLine = i /\ i \in CallSites(Body) /\ Body.steps[i].mutates
HandedAt(i)  == Made(OperandsOf(Body.steps[i]))
WritesElsewhere(i) == WritesAt(i) /\ HandedAt(i) # {} /\ \A k \in HandedAt(i) : NamesAt(k) = "other"

(* The framework serves a record the request named elsewhere: everything   *)
(* it is resolved from and narrowed by names another one.                  *)
ServesElsewhere(view, record) ==
  /\ Selection(view) # <<>> /\ ~ view.relation
  /\ \A k \in Entries(Selection(view)) \cup Entries(view.constrains) : record[Route(k.key)] = "other"

ReportedAt(place) == \E f \in filed : f.place = place

(* "The caller is authorized for one record and served another" is what is *)
(* reported (declared.go:22): a record of another scope that a request     *)
(* which passed the declared check reaches, through the framework's own    *)
(* selection or through a method, is reported at the class or at the       *)
(* write, or its key was reported of that method.                          *)
RecordsElsewhereAreReported ==
  (request.view # 0 /\ IsJudged(request.view)) =>
    /\ (request.method = 0 /\ ServesElsewhere(Served, request.record)) =>
         \E k \in Entries(Selection(Served)) : ReportedAt(<<"class", k.loc, k.key>>)
    /\ WritesElsewhere(atLine) =>
         \E h \in HandedAt(atLine) : \E k \in Local : \E j \in DOMAIN Body.steps :
           /\ ReportedAt(<<"body", Served.methods[request.method], k, j>>)
           /\ j = atLine \/ Body.leaf[h] = Body.leaf[k]

(* And what is reported a request can do (declared.go:136): of the view it *)
(* is reported of, the write is handed the key and nothing the check holds *)
(* to the caller's own record, and some request that passes the check is   *)
(* served another one.                                                     *)
ReportedRecordsAreElsewhere ==
  \A f \in filed :
    /\ (/\ f.place[1] = "body" /\ WritesAt(f.place[4])
        /\ request.view = f.view /\ Served.methods[request.method] = f.place[2]) =>
         /\ f.place[3] \in HandedAt(atLine)
         /\ \A k \in HandedAt(atLine) : ~ HeldByTheCheck(k)
    /\ f.place[1] = "class" =>
         \E record \in [FieldsOf(f.view) -> {"mine", "other"}] :
           PassesTheCheck(f.view, record) /\ ServesElsewhere(ViewAt(f.view), record)

DeclaredSelectionIsJudged == RecordsElsewhereAreReported /\ ReportedRecordsAreElsewhere

-----------------------------------------------------------------------------
(* What the two properties suppose of an application.  A value is written  *)
(* by one statement, or enclosures fill it, before any statement that      *)
(* reads it, and a parameter by none; ...                                  *)
WrittenOnceAndFirst(b) ==
  \A i \in DOMAIN b.steps :
    LET to == Target(b.steps[i])
    IN  to # 0 =>
          /\ b.kind[to] # "param"
          /\ (b.kind[to] = "property") <=> (b.steps[i].op = "property")
          /\ \A j \in DOMAIN b.steps :
               /\ Target(b.steps[j]) = to => (i = j \/ b.steps[i].op = "enclose")
               /\ to \in ReadBy(b.steps[j]) => i < j

(* ... every source is a parameter or written by a statement; ...          *)
SourcesAreWritten(view, b) ==
  \A k \in SourcesOf(view, b) : b.kind[k] = "param" \/ \E i \in DOMAIN b.steps : Target(b.steps[i]) = k

(* ... and a field that bears the name of a key the check reads is that    *)
(* key, read out of the route.                                             *)
NamesAreRouteNames(view, b) ==
  \A k \in RequestFields(b) : b.leaf[k] \in view.authorizes => b.container[k] = "kwargs"

ServedAsWritten(a) ==
  \A v \in DOMAIN a.views : \A m \in DOMAIN a.views[v].methods :
    LET b == a.bodies[a.views[v].methods[m]]
    IN  WrittenOnceAndFirst(b) /\ SourcesAreWritten(a.views[v], b) /\ NamesAreRouteNames(a.views[v], b)
=============================================================================
