------------------------------- MODULE Taint -------------------------------
(***************************************************************************)
(* The propagation of one classification in core/internal/taint: seeds are *)
(* marked, then a worklist carries the class along the hops of the program *)
(* until nothing changes, keeping ONE witness edge per value.              *)
(*                                                                         *)
(* The program is chosen in Init.  Its hops are tabulated per value in the *)
(* order propagate() meets them (module TaintHops builds the table from    *)
(* the intermediate representation); everything propagate() decides while  *)
(* it runs is decided here, one markTainted per step.                      *)
(***************************************************************************)
EXTENDS Integers, Sequences

CONSTANTS
  Value, NoValue,  \* value identifiers, and the empty one
  Fn,              \* functions
  Call, NoCall,    \* call sites, and the empty one
  Column,          \* columns of stored records
  Program,         \* the tabulated programs to analyse
  HopLimit         \* how far taintEnteredViaParam walks back; 64 in the code

Kinds == {"rename", "property", "other",   \* flows, by what they do to a row
          "bind",                          \* an argument binds a parameter
          "resolve",                       \* a continuation completes a promise
          "result",                        \* through an external call
          "callback", "through",           \* from the receiver of a method
          "leave", "return"}               \* a returned value goes to a caller

Hop ==
  {h \in [kind : Kinds, to : Value, site : Call \cup {NoCall}, fn : Fn,
           transform : BOOLEAN,     \* the edge's symbol has a sanitizer rule
           unstated : BOOLEAN,      \* taken only while the argument's shape is open
           reads : SUBSET Column] : \* the column a property flow reads
     h.kind = "return" => h.site \in Call}

Seed == [value : Value, converter : BOOLEAN, columns : SUBSET Column]

ASSUME ProgramAssumption ==
  /\ NoValue \notin Value /\ NoCall \notin Call
  /\ HopLimit \in Nat \ {0}
  /\ \A p \in Program :
       /\ p.seeds \in Seq(Seed)
       /\ p.hops \in [Value -> Seq(Hop)]
       /\ p.params \in [Fn -> SUBSET Value]
       /\ p.position \in [Value -> Nat]
       /\ p.hands \in [Call -> Seq([index : Nat, value : Value])]
       /\ p.given \in [Call -> SUBSET Value]
       /\ p.behind \in [Value -> Value \cup {NoValue}]
       /\ p.filed \in [Value -> SUBSET Value]
       /\ p.into \in [Value -> SUBSET Value]

VARIABLES
  prog,          \* the program under analysis
  unsown,        \* the seeds seedSources has yet to mark
  tainted,       \* the values that carry the class
  pred,          \* value -> the edge of its witness chain
  viaTransform,  \* value -> its kept chain passes a transform
  viaConverter,  \* value -> its kept chain starts at a route converter
  rec,           \* recordFields: value -> the columns of the row it is
  queue,         \* the worklist
  cur,           \* the value taken off it last
  todo,          \* the hops of cur still to be looked at
  frame          \* what taintEnteredViaParam answered for cur

vars == <<prog, unsown, tainted, pred, viaTransform, viaConverter, rec,
          queue, cur, todo, frame>>
marks == <<tainted, pred, viaTransform, viaConverter, queue>>

Edge  == [from : Value \cup {NoValue}, site : Call \cup {NoCall},
          kind : Kinds \cup {"source"}]
Frame == [fromParam : BOOLEAN, site : Call \cup {NoCall}, index : Nat]

NoEdge  == [from |-> NoValue, site |-> NoCall, kind |-> "source"]
NoFrame == [fromParam |-> FALSE, site |-> NoCall, index |-> 0]

TypeOK ==
  /\ prog \in Program
  /\ unsown \in Seq(Seed)
  /\ tainted \subseteq Value
  /\ pred \in [Value -> Edge]
  /\ viaTransform \in [Value -> BOOLEAN]
  /\ viaConverter \in [Value -> BOOLEAN]
  /\ rec \in [Value -> SUBSET Column]
  /\ queue \in Seq(Value)
  /\ cur \in Value \cup {NoValue}
  /\ todo \in Seq(Hop)
  /\ todo # <<>> => cur \in Value
  /\ frame \in Frame

-----------------------------------------------------------------------------
ChainScore(converter, via) == (IF converter THEN 2 ELSE 0) + (IF via THEN 1 ELSE 0)

(* e.chain[v]                                                              *)
Chain(v) == ChainScore(viaConverter[v], viaTransform[v])

Via(from)  == from # NoValue /\ viaTransform[from]
Conv(from) == from # NoValue /\ viaConverter[from]

(* Defects the checks must find: an equal chain displaces the kept one,    *)
(* and nothing ever displaces it.                                          *)
MarkTaintedLatest(to, edge, transform, converter) ==
  LET via  == Via(edge.from) \/ transform
      conv == converter \/ Conv(edge.from)
  IN  IF to \in tainted /\ ChainScore(conv, via) > Chain(to)
      THEN UNCHANGED marks
      ELSE /\ tainted' = tainted \cup {to}
           /\ pred' = [pred EXCEPT ![to] = edge]
           /\ viaTransform' = [viaTransform EXCEPT ![to] = via]
           /\ viaConverter' = [viaConverter EXCEPT ![to] = conv]
           /\ queue' = Append(queue, to)

MarkTaintedOnce(to, edge, transform, converter) ==
  IF to \in tainted
  THEN UNCHANGED marks
  ELSE /\ tainted' = tainted \cup {to}
       /\ pred' = [pred EXCEPT ![to] = edge]
       /\ viaTransform' = [viaTransform EXCEPT ![to] = Via(edge.from) \/ transform]
       /\ viaConverter' = [viaConverter EXCEPT ![to] = converter \/ Conv(edge.from)]
       /\ queue' = Append(queue, to)

(* A first edge is kept; a later one displaces it when its chain says      *)
(* strictly more, and the value is then looked at again.                   *)
MarkTainted(to, edge, transform, converter) ==
  LET via  == Via(edge.from) \/ transform
      conv == converter \/ Conv(edge.from)
  IN  IF to \in tainted /\ ChainScore(conv, via) >= Chain(to)
      THEN UNCHANGED marks
      ELSE /\ tainted' = tainted \cup {to}
           /\ pred' = [pred EXCEPT ![to] = edge]
           /\ viaTransform' = [viaTransform EXCEPT ![to] = via]
           /\ viaConverter' = [viaConverter EXCEPT ![to] = conv]
           /\ queue' = Append(queue, to)

IsRecord(v) == rec[v] # {}

(* carriesRecord: the row is the same row under another name.              *)
CarriesRecord(from, to) ==
  rec' = IF IsRecord(from) /\ ~IsRecord(to)
         THEN [rec EXCEPT ![to] = rec[from]] ELSE rec

(* No classified value has entered the mapping v stands for except under a *)
(* key somebody wrote.                                                     *)
ArgShapeStated(v) ==
  LET obj == prog.behind[v]
  IN  /\ obj # NoValue
      /\ \A w \in prog.into[obj] : w \in tainted => w \in prog.filed[obj]

(* Defect: every value is read as a row that states its columns.           *)
CarriesColumns(h) ==
  /\ h.kind \in {"other", "result", "callback", "through"} => ~IsRecord(cur)
  /\ h.kind = "property" => h.reads \cap rec[cur] # {}
  /\ h.unstated => ~ArgShapeStated(cur)

(* Whether the hop at hand carries the class out of cur: a row goes along  *)
(* a name, or along the read of a column the program writes.               *)
Carries(h) ==
  /\ h.kind \in {"other", "result", "callback", "through"} => ~IsRecord(cur)
  /\ h.kind = "property" => (IsRecord(cur) => h.reads \cap rec[cur] # {})
  /\ h.unstated => ~ArgShapeStated(cur)

KeepsRecord(h) == h.kind \in {"rename", "bind", "resolve"}

(* The witness chain of id, walked back n hops.                            *)
BackFrom(id) ==
  LET back[n \in Nat] ==
        IF n = 0 THEN id
        ELSE IF back[n - 1] = NoValue THEN NoValue
        ELSE pred[back[n - 1]].from
  IN  back

(* Defect: positions counted from one.                                     *)
EnteredViaParamFromOne(f, id) ==
  LET back == BackFrom(id)
      hits == {n \in 0 .. HopLimit - 1 : back[n] \in prog.params[f]}
      p    == back[CHOOSE n \in hits : \A m \in hits : n <= m]
  IN  IF hits = {} THEN NoFrame
      ELSE [fromParam |-> TRUE, site |-> pred[p].site,
            index |-> prog.position[p] - 1]

(* taintEnteredViaParam: the first parameter of f on the way back, and the *)
(* call that bound it.                                                     *)
EnteredViaParam(f, id) ==
  LET back == BackFrom(id)
      hits == {n \in 0 .. HopLimit - 1 : back[n] \in prog.params[f]}
      p    == back[CHOOSE n \in hits : \A m \in hits : n <= m]
  IN  IF hits = {} THEN NoFrame
      ELSE [fromParam |-> TRUE, site |-> pred[p].site,
            index |-> prog.position[p]]

(* Defect: whatever the site hands over is taken for classified.           *)
PassedAtParamAnything(site, index) ==
  LET hands == prog.hands[site]
      hits  == {i \in DOMAIN hands : hands[i].index = index}
  IN  IF hits = {} THEN NoValue
      ELSE hands[CHOOSE i \in hits : \A j \in hits : i <= j].value

(* passedAtParam: the first classified value the site handed to one        *)
(* parameter, NoValue when it handed none.                                 *)
PassedAtParam(site, index) ==
  LET hands == prog.hands[site]
      hits  == {i \in DOMAIN hands : /\ hands[i].index = index
                                     /\ hands[i].value \in tainted}
  IN  IF hits = {} THEN NoValue
      ELSE hands[CHOOSE i \in hits : \A j \in hits : i <= j].value

CallSitePassesTaint(site) == prog.given[site] \cap tainted # {}

(* Where the answer a call site receives is said to come from: the value   *)
(* returned, the site's own argument when the frame was another caller's,  *)
(* NoValue when the site gave nothing and receives nothing.                *)
AnswerFrom(site) ==
  CASE frame.fromParam /\ frame.site # NoCall /\ site # frame.site
         -> PassedAtParam(site, frame.index)
    [] frame.fromParam /\ frame.site = NoCall /\ ~CallSitePassesTaint(site)
         -> NoValue
    [] OTHER -> cur

-----------------------------------------------------------------------------
Init ==
  /\ prog \in Program
  /\ unsown = prog.seeds
  /\ tainted = {}
  /\ pred = [v \in Value |-> NoEdge]
  /\ viaTransform = [v \in Value |-> FALSE]
  /\ viaConverter = [v \in Value |-> FALSE]
  /\ rec = [v \in Value |-> {}]
  /\ queue = <<>>
  /\ cur = NoValue
  /\ todo = <<>>
  /\ frame = NoFrame

(* One e.seeds[..] = ..; markTainted(..) of seedSources.                   *)
Sow ==
  /\ unsown # <<>>
  /\ LET s == Head(unsown)
     IN  /\ MarkTainted(s.value, NoEdge, FALSE, s.converter)
         /\ rec' = IF s.columns = {} THEN rec
                   ELSE [rec EXCEPT ![s.value] = s.columns]
  /\ unsown' = Tail(unsown)
  /\ UNCHANGED <<prog, cur, todo, frame>>

Take ==
  /\ unsown = <<>> /\ todo = <<>> /\ queue # <<>>
  /\ cur' = Head(queue)
  /\ queue' = Tail(queue)
  /\ todo' = prog.hops[Head(queue)]
  /\ frame' = NoFrame
  /\ UNCHANGED <<prog, unsown, tainted, pred, viaTransform, viaConverter, rec>>

AtHop == todo # <<>> /\ todo' = Tail(todo) /\ UNCHANGED <<prog, unsown, cur>>

(* A flow, an argument or a receiver hands the class on.                   *)
Follow ==
  /\ AtHop
  /\ LET h == Head(todo)
     IN  /\ h.kind \notin {"leave", "return"}
         /\ Carries(h)
         /\ MarkTainted(h.to, [from |-> cur, site |-> h.site, kind |-> h.kind],
                        h.transform, FALSE)
         /\ IF KeepsRecord(h) THEN CarriesRecord(cur, h.to) ELSE UNCHANGED rec
  /\ UNCHANGED frame

Stop ==
  /\ AtHop
  /\ Head(todo).kind \notin {"leave", "return"} /\ ~Carries(Head(todo))
  /\ UNCHANGED <<marks, rec, frame>>

(* cur is a value its function returns: ask once how the class got in.     *)
Leave ==
  /\ AtHop
  /\ Head(todo).kind = "leave"
  /\ frame' = EnteredViaParam(Head(todo).fn, cur)
  /\ UNCHANGED <<marks, rec>>

(* One call site of that function receives the answer, or does not.        *)
Return ==
  /\ AtHop
  /\ Head(todo).kind = "return"
  /\ LET h    == Head(todo)
         from == AnswerFrom(h.site)
     IN  IF from = NoValue THEN UNCHANGED <<marks, rec>>
         ELSE /\ MarkTainted(h.to, [from |-> from, site |-> NoCall,
                                    kind |-> "return"], FALSE, FALSE)
              /\ CarriesRecord(from, h.to)
  /\ UNCHANGED frame

Next == Sow \/ Take \/ Follow \/ Stop \/ Leave \/ Return

Spec     == Init /\ [][Next]_vars
(* propagate() is a loop on one thread: a step that can be taken is taken. *)
FairSpec == Spec /\ WF_vars(Next)

Quiescent == unsown = <<>> /\ todo = <<>> /\ queue = <<>>

-----------------------------------------------------------------------------
(* What each step finds: the values waiting, the one at hand and the       *)
(* sources of the kept edges all carry the class, and a kept chain never   *)
(* says more than the chain it continues.                                  *)
ChainsGrow ==
  /\ \A i \in DOMAIN queue : queue[i] \in tainted
  /\ todo # <<>> => cur \in tainted
  /\ \A v \in tainted :
       pred[v].from # NoValue =>
         pred[v].from \in tainted /\ Chain(pred[v].from) <= Chain(v)

(* A kept witness is a path back to a seed: no set of classified values    *)
(* explains itself.  Displacing the edge of a value that other witnesses   *)
(* run through (markTainted) could close a cycle; tracePath would then     *)
(* print a chain that starts nowhere, and every `seen` guard on such a     *)
(* walk would cut a real finding short.                                    *)
WitnessesReachASeed ==
  \A S \in SUBSET tainted :
    S # {} => \E v \in S : pred[v].from \notin S

(* The engine keeps such a forest: every step of it takes a value in, or   *)
(* exchanges its evidence, by a hop of the program from a known value.     *)
Evidence == INSTANCE TaintEvidence
  WITH known <- tainted, parent <- [v \in Value |-> pred[v].from]
KeepsEvidence == Evidence!Spec

(* The hops of v that do not depend on who else is classified.             *)
Unconditional(v, h) ==
  /\ h.kind \notin {"leave", "return"} /\ ~h.unstated
  /\ h.kind \in {"other", "property", "result", "callback", "through"} => ~IsRecord(v)

(* When propagation stops nothing is left to hand on: the class has gone   *)
(* along every flow, argument and receiver of every value it reached, in   *)
(* whatever order values were reached, displaced and looked at again.      *)
NothingLeftToCarry ==
  Quiescent =>
    \A v \in tainted : \A i \in DOMAIN prog.hops[v] :
      Unconditional(v, prog.hops[v][i]) => prog.hops[v][i].to \in tainted

(* Which path is kept does not depend on which arrived first: at the end   *)
(* no hop offers a chain that says more than the kept one, so a sanitized  *)
(* branch cannot silence an unsanitized one (markTainted's own reason).    *)
KeptChainIsBest ==
  Quiescent =>
    \A v \in tainted : \A i \in DOMAIN prog.hops[v] :
      LET h == prog.hops[v][i]
      IN  Unconditional(v, h) =>
            Chain(h.to) <= ChainScore(viaConverter[v], viaTransform[v] \/ h.transform)

(* propagate() returns, for every program: a value is looked at again only *)
(* when its chain got strictly better.                                     *)
Terminates == <>Quiescent

(***************************************************************************)
(* What the comments of taint.go say and the code does not do.             *)
(***************************************************************************)

(* "The hop is recorded against ITS OWN argument, so nothing stops         *)
(* carrying taint": a second caller that handed something classified to a  *)
(* parameter the answer was derived from has a classified answer.          *)
NothingStopsCarrying ==
  Quiescent =>
    \A v \in tainted : \A i \in DOMAIN prog.hops[v] :
      LET h       == prog.hops[v][i]
          entered == EnteredViaParam(h.fn, v)
      IN  /\ h.kind = "return" /\ entered.fromParam
          /\ PassedAtParam(h.site, entered.index) # NoValue
          => h.to \in tainted

(* "... and every printed chain stays a path the program can take": an     *)
(* answer that came out of a function's frame went in at the same site.    *)
ChainsMatchCallAndReturn ==
  Quiescent =>
    \A v \in tainted : \A i \in DOMAIN prog.hops[v] :
      LET h == prog.hops[v][i]
      IN  h.kind = "return" /\ h.to \in tainted /\ pred[h.to].from = v =>
            EnteredViaParam(h.fn, v).site \in {h.site, NoCall}

(* "[an object] that also receives a spread ... holds classified data      *)
(* under a name nobody wrote, so no binding can be ruled out and the whole *)
(* object is handed over instead".                                         *)
OpenShapeIsHandedOver ==
  Quiescent =>
    \A v \in tainted : \A i \in DOMAIN prog.hops[v] :
      LET h == prog.hops[v][i]
      IN  h.kind = "bind" /\ h.unstated /\ ~ArgShapeStated(v) => h.to \in tainted

(* "The replacement can happen at most once per value, because it only     *)
(* ever goes from `went through something' to `did not'."                  *)
ReplacedOnlyByClean ==
  [][\A v \in tainted : pred'[v] # pred[v] => ~viaTransform'[v] /\ ~viaConverter'[v]]_vars
=============================================================================
