-------------------------- MODULE AcrossFunctions ---------------------------
(***************************************************************************)
(* core/internal/guard, the rules that look beyond one function:           *)
(*                                                                         *)
(*   peers    (omitted.go) functions of one module that do the same        *)
(*            operation to the same parameter, most of them under a        *)
(*            control one of them leaves out;                              *)
(*   limiter  (limiter.go) a mounted function counts some of the requests, *)
(*            and the handler behind it does expensive work for others.    *)
(*                                                                         *)
(* One function is the one on the block graph: the peer in question, or    *)
(* the mounted function.  The others are what the rule keeps of them.      *)
(* After the rules have run the function does, for some request.           *)
(***************************************************************************)
EXTENDS Runs, SequencesExt

CONSTANTS Value, NoValue,   \* the values of a function; no value
          Fact,             \* what a request carries besides its path
          Content           \* paths and contents

Constraint == [of : Fact \cup {"path"}, value : Content, equal : BOOLEAN]

ASSUME AcrossAssumption ==
  \A f \in LoweredFn :
    LET Own == {f.order[i] : i \in DOMAIN f.order}
    IN  /\ f.rule \in {"peers", "limiter"}
        /\ f.params \subseteq Value /\ IsFiniteSet(f.params)   \* without self and this
        /\ f.flows \in Seq([from : Value, to : Value, assigns : BOOLEAN])
        /\ f.reads \in Seq([base : Value, to : Value])     \* the properties
        /\ f.calls \in Seq([does : {"decide", "operate", "reshape", "count"}, name : STRING,
                            block : Own, args : Seq(Value), result : Value \cup {NoValue}])
        /\ f.peers \in Seq(SUBSET STRING)   \* the controls over each peer's operation
        /\ f.compares \in Seq([of : Fact \cup {"path", "other"}, value : Content,
                               eq : BOOLEAN, block : Own])
        /\ f.outer \subseteq Constraint     \* under which the mounted function calls this
        /\ f.route \in Content              \* the path of the entry point
        /\ f.work \subseteq Constraint      \* under which its handler does the work

VARIABLES
  said, judged,
  request    \* the request the function runs for

all == <<vars, said, judged, request, run>>

-----------------------------------------------------------------------------
Calls   == DOMAIN fn.calls
Call(i) == fn.calls[i]
ArgsOf(i) == {Call(i).args[k] : k \in DOMAIN Call(i).args}
Doing(role) == {i \in Calls : Call(i).does = role}

-----------------------------------------------------------------------------
(* observe: which parameter each value came out of, two steps at most.     *)
(* Known[v].hops = Reach + 1 says it came out of none.                     *)
Reach == 2

Start(f) == [v \in Value |-> IF v \in f.params THEN [param |-> v, hops |-> 0]
                                              ELSE [param |-> NoValue, hops |-> Reach + 1]]

Note(known, to, source, step) ==
  IF to = NoValue \/ source.hops + step >= known[to].hops THEN known
  ELSE [known EXCEPT ![to] = [param |-> source.param, hops |-> source.hops + step]]

(* The first argument that came out of a parameter.                        *)
Handed(known, args) ==
  LET From == {k \in DOMAIN args : known[args[k]].hops <= Reach}
  IN  IF From = {} THEN [param |-> NoValue, hops |-> Reach + 1]
      ELSE known[args[CHOOSE k \in From : \A j \in From : k <= j]]

(* One round: the edges, the properties and the results, as listed.        *)
AlongFlows(f, known) ==
  LET table[n \in 0 .. Len(f.flows)] ==
        IF n = 0 THEN known
        ELSE LET t == table[n - 1]
                 e == f.flows[n]
             IN  Note(t, e.to, t[e.from], IF e.assigns THEN 0 ELSE 1)
  IN  table[Len(f.flows)]

AlongReads(f, known) ==
  LET table[n \in 0 .. Len(f.reads)] ==
        IF n = 0 THEN known
        ELSE LET t == table[n - 1] IN Note(t, f.reads[n].to, t[f.reads[n].base], 1)
  IN  table[Len(f.reads)]

AlongCalls(f, known) ==
  LET table[n \in 0 .. Len(f.calls)] ==
        IF n = 0 THEN known
        ELSE LET t == table[n - 1] IN Note(t, f.calls[n].result, Handed(t, f.calls[n].args), 1)
  IN  table[Len(f.calls)]

Sweep(f, known) == AlongCalls(f, AlongReads(f, AlongFlows(f, known)))

Origins(f) == Sweep(f, Sweep(f, Start(f)))

InputsOf(known, i) == {known[v].param : v \in {a \in ArgsOf(i) : known[a].hops <= Reach}}

(* Defect: a decision that may stand before the operation gates it.        *)
GatesSomeWay(c, op) == Reaches(Call(c).block, Call(op).block)

(* It stands before the operation on every path, or decides whether it     *)
(* runs at all.                                                            *)
GatesIt(c, op) ==
  \/ Dominates(Call(c).block, Call(op).block)
  \/ ControlDependsOn(Call(op).block, Call(c).block)

(* The operations observed: on one parameter, and the last of its name on  *)
(* it, each with its gates.                                                *)
Observed ==
  LET known == Origins(fn)
      Inputs(i) == InputsOf(known, i)
      Ops == {i \in Doing("operate") : Call(i).block \in reached /\ Cardinality(Inputs(i)) = 1}
  IN  {[op |-> o, gates |-> {Call(c).name : c \in {d \in Doing("decide") :
           Call(d).block \in reached /\ Inputs(o) \subseteq Inputs(d) /\ GatesIt(d, o)}}] :
         o \in {p \in Ops : \A q \in Ops : q > p =>
                  Call(q).name # Call(p).name \/ Inputs(q) # Inputs(p)}}

(* report: two peers apply the control, and this one does not.             *)
AppliedBy(name) == {i \in DOMAIN fn.peers : name \in fn.peers[i]}

PeerOmissions ==
  IF fn.rule # "peers" \/ Len(fn.peers) + 1 < 3 THEN {}
  ELSE UNION {{<<o.op, name>> : name \in {n \in UNION Range(fn.peers) :
                                  n \notin o.gates /\ Cardinality(AppliedBy(n)) >= 2}} :
                o \in Observed}

-----------------------------------------------------------------------------
(* predicatesForCall: the comparisons with the request the call depends    *)
(* on, as the arm it stands on reads them.                                 *)

(* Defect: the arm is not asked.                                           *)
ReadOnOneArm(i, j) == fn.compares[j].eq

ReadOnItsArm(i, j) ==
  LET c == fn.compares[j]
  IN  IF DependsOnSuccessor(Call(i).block, c.block, 1) THEN c.eq ELSE ~ c.eq

Predicates(i) ==
  {[of |-> fn.compares[j].of, value |-> fn.compares[j].value, equal |-> ReadOnItsArm(i, j)] :
     j \in {k \in DOMAIN fn.compares : /\ fn.compares[k].of # "other"
                                       /\ ControlDependsOn(Call(i).block, fn.compares[k].block)}}

(* admissionsFrom: each counter with everything it is reached under.       *)
Admissions == {fn.outer \cup Predicates(i) : i \in Doing("count")}

(* routeCovered.                                                           *)
Covers(admission) ==
  /\ \A c \in admission : c.of = "path" => (fn.route = c.value) = c.equal
  /\ {c \in admission : c.of # "path"} \subseteq fn.work

(* Without a counter the program has not shown that it limits at all.      *)
Uncovered ==
  IF fn.rule # "limiter" \/ Admissions = {} \/ \E a \in Admissions : Covers(a) THEN {}
  ELSE {<<0, "uncovered">>}

-----------------------------------------------------------------------------
AcInit ==
  /\ Analysed
  /\ said = {} /\ judged = FALSE
  /\ request \in IF fn.rule = "limiter"
                 THEN {r \in [Fact \cup {"path"} -> Content] : r.path = fn.route}
                 ELSE {[of \in Fact \cup {"path"} |-> fn.route]}
  /\ RunInit

Judge ==
  /\ ~ judged
  /\ judged' = TRUE
  /\ said' = PeerOmissions \cup Uncovered
  /\ UNCHANGED <<vars, request, run>>

Holds(c) == (request[c.of] = c.value) = c.equal
Mounted  == \A c \in fn.outer : Holds(c)

Execute == judged /\ Mounted /\ RunStatement /\ UNCHANGED <<vars, said, judged, request>>

(* A branch on one comparison with the request goes the way it says.       *)
Answer(b) ==
  LET Asks == {j \in DOMAIN fn.compares : fn.compares[j].block = b}
      c    == fn.compares[CHOOSE j \in Asks : TRUE]
  IN  IF Cardinality(Asks) # 1 \/ (Asks # {} /\ c.of = "other") THEN DOMAIN fn.succs[b]
      ELSE {IF (request[c.of] = c.value) = c.eq THEN 1 ELSE 2}

Leave ==
  /\ judged /\ Mounted /\ RunBranch
  /\ \E i \in Answer(here) : here' = fn.succs[here][i]
  /\ UNCHANGED <<vars, said, judged, request>>

AcNext == Judge \/ Execute \/ Leave
AcSpec == AcInit /\ [][AcNext]_all

-----------------------------------------------------------------------------
(* Out of which parameters a value came, in no order: an assignment does   *)
(* not take it further away, anything else by one step.                    *)
Renamed(f, S) ==
  {v \in Value : \A T \in SUBSET Value :
     (S \subseteq T /\ \A e \in Range(f.flows) : e.assigns /\ e.from \in T => e.to \in T) => v \in T}

Further(f, S) ==
  Renamed(f, S \cup {e.to : e \in {g \in Range(f.flows) : g.from \in S}}
               \cup {r.to : r \in {q \in Range(f.reads) : q.base \in S}}
               \cup {c.result : c \in {d \in Range(f.calls) :
                                         d.result # NoValue /\ Range(d.args) \cap S # {}}})

CameFrom(f, v) == {p \in f.params : v \in Further(f, Further(f, Renamed(f, {p})))}

(* "Two handlers agreeing on a control and a third omitting it is a        *)
(* convention with a hole in it" (omitted.go:591): a run that operates on  *)
(* a parameter two peers ask about first, and has not asked, is reported,  *)
(* unless the question decides on some way whether the operation runs.     *)
UnaskedPeerControlIsReported ==
  judged /\ fn.rule = "peers" /\ Len(fn.peers) >= 2 =>
    \A op \in Doing("operate") :
      Now(<<"call", op>>) =>
        LET On == UNION {CameFrom(fn, v) : v \in ArgsOf(op)}
            Asking(n) == {c \in Doing("decide") : /\ Call(c).name = n
                            /\ On \cap UNION {CameFrom(fn, v) : v \in ArgsOf(c)} # {}}
        IN  Cardinality(On) = 1 =>
              \A n \in UNION Range(fn.peers) :
                (Cardinality(AppliedBy(n)) >= 2 /\ \A c \in Asking(n) : ~ Ran(<<"call", c>>))
                => \/ \E s \in said : s[2] = n /\ Call(s[1]).name = Call(op).name
                   \/ \E c \in Asking(n) : ControlDependsOn(Call(op).block, Call(c).block)

(* A request that gets past the mounted function uncounted, and for which  *)
(* the handler does the work, belongs to a route that is reported.         *)
Passed == ~ Mounted \/ (here \in Exits /\ AtEnd)
UncountedWorkIsReported ==
  judged /\ fn.rule = "limiter" /\ Passed =>
    \/ \E i \in Doing("count") : Ran(<<"call", i>>)
    \/ \E c \in fn.work : ~ Holds(c)
    \/ Doing("count") = {}
    \/ said # {}

(* What other functions of the module, or other ways to the same work, do  *)
(* first and this one does not, is reported (omitted.go:591,               *)
(* limiter.go:479), in functions that stand AsSupposed, below.             *)
OmittedElsewhereIsReported == UnaskedPeerControlIsReported /\ UncountedWorkIsReported

-----------------------------------------------------------------------------
(* What the rules suppose of a function.  Every call stands where its list *)
(* places it, and a decision on the block of an operation stands before    *)
(* it: only the blocks are compared (omitted.go:565).                      *)
StandsWhereListed(f) ==
  /\ \A b \in DOMAIN f.text : \A n \in DOMAIN f.text[b] :
       \E i \in DOMAIN f.calls : f.text[b][n] = <<"call", i>> /\ f.calls[i].block = b
  /\ \A i \in DOMAIN f.calls :
       \E n \in DOMAIN f.text[f.calls[i].block] : f.text[f.calls[i].block][n] = <<"call", i>>

AsksFirst(f) ==
  \A c, op \in DOMAIN f.calls :
    /\ f.calls[c].does = "decide" /\ f.calls[op].does = "operate"
    /\ f.calls[c].block = f.calls[op].block
    => \A n \in DOMAIN f.text[f.calls[op].block] :
         f.text[f.calls[op].block][n] = <<"call", op>> =>
           \E m \in 1 .. n - 1 : f.text[f.calls[op].block][m] = <<"call", c>>

(* Operations of one name are one nest of calls (omitted.go:571), and      *)
(* their block is one.                                                     *)
OperatesInOneBlock(f) ==
  \A i, j \in DOMAIN f.calls :
    f.calls[i].does = "operate" /\ f.calls[j].does = "operate" /\ f.calls[i].name = f.calls[j].name
      => f.calls[i].block = f.calls[j].block

(* Two rounds get as far as what is operated on (omitted.go:466).          *)
TwoRoundsAreEnough(f) ==
  \A i \in DOMAIN f.calls :
    f.calls[i].does = "operate" /\ (\E v \in Range(f.calls[i].args) : CameFrom(f, v) # {})
      => \E v \in Range(f.calls[i].args) : Origins(f)[v].hops <= Reach

PeersStand(f) ==
  StandsWhereListed(f) /\ AsksFirst(f) /\ OperatesInOneBlock(f) /\ TwoRoundsAreEnough(f)

(* A counter is behind no branch, or behind a comparison with the request  *)
(* that every run makes and that alone decides its branch.                 *)
CountedOn(i, j) ==
  LET a == fn.compares[j].block
  IN  /\ fn.compares[j].of # "other" /\ Len(fn.succs[a]) = 2
      /\ PostDominates(a, fn.entry) /\ ControlDependsOn(Call(i).block, a)
      /\ \A k \in DOMAIN fn.compares : fn.compares[k].block = a => k = j

CountersStandAlone ==
  \A i \in Doing("count") :
    PostDominates(Call(i).block, fn.entry) \/ \E j \in DOMAIN fn.compares : CountedOn(i, j)

AsSupposed ==
  /\ StandsWhereListed(fn)
  /\ fn.rule = "peers"   => PeersStand(fn)
  /\ fn.rule = "limiter" => CountersStandAlone
=============================================================================
