----------------------------- MODULE Admission -----------------------------
(***************************************************************************)
(* core/internal/taint/admission.go and the two judgements of taint.go     *)
(* that rest on the same graph questions: when a program that asked about  *)
(* a value before using it is believed.                                    *)
(*                                                                         *)
(* The function is one Reachdef has split, so a node of the engine is a    *)
(* name together with the definitions that feed it.  The function is then  *)
(* run on requests, its checks answering by what they compare, and each    *)
(* belief is held against what arrives at the operation.                   *)
(***************************************************************************)
EXTENDS Reachdef, SequencesExt

CONSTANTS Path,   \* the parts of the request the function reads
          Hops,   \* expressionOf walks this many hops (16)
          Rounds  \* derivedFrom closes in this many rounds (8)

ASSUME AdmissionAssumption == Hops \in Nat \ {0} /\ Rounds \in Nat

(* Every call is told apart by what it is to the judgements; of the        *)
(* headers a program sets, three bear on one.                              *)
HeaderNames == {"content-type", "content-security-policy", "content-disposition"}

ASSUME RoleAssumption ==
  \A f \in LoweredFn :
    /\ DOMAIN f.role = DOMAIN f.calls
    /\ \A c \in DOMAIN f.calls : f.role[c].kind = "header" => f.role[c].name \in HeaderNames

(* What arrives, told apart only by whether the program holds it too.      *)
Content == {"listed", "foreign"}

VARIABLES sent,      \* what the caller put in each part of the request
          holds,     \* what each name holds
          answer,    \* the arm the check that just ran leaves open, 0 for any
          response   \* what the headers written so far say

adVars == <<all, sent, holds, answer, response>>

Role(c) == fn.role[c]
NodeOf(u) == <<ReadBy(u), reads[u]>>
Source(i) == NodeOf(<<"flow", i, 0>>)
ArgOf(c)  == NodeOf(<<"call", c, 1>>)

(* The nodes the function's edges lead out of, and n.                      *)
Nodes(n) == {n} \cup {Source(i) : i \in DOMAIN fn.flows}

(* reachesFrom: root is among what the edges bring into n.                 *)
ReachesFrom(root, n) ==
  LET from[k \in 0 .. Len(fn.flows), x \in Nodes(n)] ==
        x[1] = root \/ (k > 0 /\ \E i \in x[2] : from[k - 1, Source(i)])
  IN  from[Len(fn.flows), n]

(* e.tainted: what descends from a seed.                                   *)
Tainted(n) == \E s \in fn.seeds : ReachesFrom(s, n)

-----------------------------------------------------------------------------
(* The callee that is asked.  A record of its own edges, comparisons and   *)
(* loops; `given` are the parameters the engine holds to be the caller's,  *)
(* `assumed` those of them that came through a call nobody could read.     *)

EdgesInto(f, v) == {i \in DOMAIN f.flows : f.flows[i].to = v}

DerivedFrom(f, root) ==
  LET derived[k \in 0 .. Rounds] ==
        IF k = 0 THEN {root}
        ELSE LET D == derived[k - 1]
             IN  D \cup {f.flows[i].to : i \in {j \in DOMAIN f.flows : f.flows[j].from \in D}}
  IN  derived[Rounds]

Classified(f) == UNION {DerivedFrom(f, v) : v \in f.given}

(* A callback the model calls an element binding, or the one read off what *)
(* a loop iterates.                                                        *)
ElementOf(f, v) ==
  {c.receiver : c \in {b \in f.callbacks : b.param = v /\ b.note = "element"}}
    \cup (IF Cardinality(EdgesInto(f, v)) # 1 THEN {}
          ELSE LET e == f.flows[CHOOSE i \in EdgesInto(f, v) : TRUE]
               IN  IF e.kind = "property" /\ e.from \in f.bounds THEN {e.from} ELSE {})

(* The values the witness of v passes, v among them.                       *)
Behind(f, v) == {w \in Classified(f) \cup {v} : v \in DerivedFrom(f, w)}

(* Defect: an assumption is enough, wherever it was made.                  *)
ProgramsOwnDataAssumed(f, v) ==
  /\ v \notin f.literals
  /\ v \in Classified(f) => Behind(f, v) \cap f.assumed # {}

ProgramsOwnData(f, v) ==
  /\ v \notin f.literals
  /\ v \in Classified(f) =>
       \E w \in Behind(f, v) : \E c \in ElementOf(f, w) :
         Behind(f, c) \cap f.assumed # {}

EqualityOperator(op) == op \in {"===", "==", "Is", "Eq"}
AdmissionParts       == {"", "origin", "host", "hostname"}

SettlesAnswer(cmp) == cmp.settles \in {"guard", "return"}

(* Defect: a comparison against anything settles the answer.               *)
DecidesOnAnything(f, param) ==
  LET derived == DerivedFrom(f, param)
  IN  \E i \in DOMAIN f.compares :
        LET cmp == f.compares[i]
        IN  EqualityOperator(cmp.op) /\ SettlesAnswer(cmp)
              /\ {cmp.left, cmp.right} \cap derived # {}

DecidesOnEquality(f, param) ==
  LET derived == DerivedFrom(f, param)
  IN  \E i \in DOMAIN f.compares :
        LET cmp    == f.compares[i]
            mine   == IF cmp.left \in derived THEN cmp.left ELSE cmp.right
            theirs == IF cmp.left \in derived THEN cmp.right ELSE cmp.left
        IN  /\ EqualityOperator(cmp.op)
            /\ mine \in derived /\ theirs \notin derived
            /\ ProgramsOwnData(f, theirs)
            /\ f.leaf[mine] \in AdmissionParts
            /\ SettlesAnswer(cmp)

-----------------------------------------------------------------------------
(* The function that asks.                                                 *)

Unknown == <<>>

(* expressionOf: the root and the path of a re-read, or Unknown.           *)
ExpressionOf(n) ==
  LET walk[k \in 0 .. Hops, x \in Nodes(n)] ==
        IF k = Hops THEN Unknown
        ELSE IF x[2] = {} THEN <<x, <<>>>>
        ELSE IF Cardinality(x[2]) > 1 THEN Unknown
        ELSE LET i == CHOOSE j \in x[2] : TRUE
             IN  CASE fn.kinds[i] = "assign" -> walk[k + 1, Source(i)]
                   [] fn.kinds[i] = "property" ->
                        LET up == walk[k + 1, Source(i)]
                        IN  IF up = Unknown THEN Unknown
                            ELSE <<up[1], Append(up[2], fn.path[x[1]])>>
                   [] OTHER -> <<x, <<>>>>
  IN  walk[0, n]

SameExpression(x, y) ==
  x = y \/ (ExpressionOf(x) # Unknown /\ ExpressionOf(x) = ExpressionOf(y))

(* The successor taken on YES; 0 when the branch does not say.             *)
Polarity(c) ==
  CASE Role(c).branch \in {"truthy", "both"} -> 1
    [] Role(c).branch = "falsy"              -> 2
    [] OTHER                                 -> 0

(* Defect: any argument will do.                                           *)
AdmittingAnything(c, n) ==
  IF Role(c).kind = "local" /\ DecidesOnEquality(Role(c).callee, Role(c).callee.param)
  THEN Polarity(c) ELSE 0

(* The successor that means this value was admitted; 0 for no decision.    *)
Admitting(c, n) ==
  IF /\ Role(c).kind = "local"
     /\ SameExpression(ArgOf(c), n)
     /\ DecidesOnEquality(Role(c).callee, Role(c).callee.param)
  THEN Polarity(c) ELSE 0

(* Every branch the function takes on an admission of n.                   *)
SelectedPosition(block, n) ==
  \E c \in DOMAIN fn.calls :
    Admitting(c, n) # 0 /\ ReachedThrough(block, Call(c).block, Admitting(c, n))

SinkSelected(sink, n) == SelectedPosition(Call(sink).block, n)

(* Defect: the definition on the witness is the only one looked at.        *)
OneDefinitionSelected(i, n) ==
  Flow(i).block # NoBlock /\ SelectedPosition(Flow(i).block, Source(i))

(* The witness enters n along flow i; every other classified definition of *)
(* n has to sit behind the same answer.                                    *)
DefinitionSelected(i, n) ==
  \E c \in DOMAIN fn.calls :
    /\ Admitting(c, Source(i)) # 0
    /\ \A j \in {k \in n[2] : Tainted(Source(k))} :
         /\ Flow(j).block # NoBlock
         /\ ReachedThrough(Flow(j).block, Call(c).block, Admitting(c, Source(i)))

(* The functions the engine found to answer only with data of their own.   *)
ReturnedConstrained(n) == n[1] \in fn.selected

(* walkWitness, along some witness the engine may have committed to.       *)
WalkWitness(sink, n) ==
  LET walk[k \in 0 .. Len(fn.flows), x \in Nodes(n)] ==
        \/ SinkSelected(sink, x) \/ ReturnedConstrained(x)
        \/ k > 0 /\ \E i \in x[2] :
             /\ Tainted(Source(i))
             /\ DefinitionSelected(i, x) \/ walk[k - 1, Source(i)]
  IN  walk[Len(fn.flows), n]

(* One way out of a function that was handed a classified parameter.       *)
ReturnAdmitted(out) ==
  LET n == ArgOf(out)
  IN  \/ n[1] \in fn.elements
      \/ \E param \in fn.seeds :
          ReachesFrom(param, n) /\ SelectedPosition(Call(out).block, <<param, {}>>)

Outs == {c \in DOMAIN fn.calls : Role(c).kind = "return"}

(* returnedConstrained, of this function.                                  *)
ConstrainsItsReturns ==
  LET classified == {c \in Outs : Tainted(ArgOf(c))}
  IN  classified # {} /\ \A c \in classified : ReturnAdmitted(c)

(* anchoredRegexGuardClears: failure leaves, success alone arrives here,   *)
(* and what the pattern accepts cannot spell the sink's syntax.            *)
PatternClears(sink, n) ==
  \E c \in DOMAIN fn.calls :
    LET b == Call(c).block
    IN  /\ Role(c).kind = "pattern" /\ Role(c).branch = "falsy"
        /\ IsGuard(b) /\ Dominates(b, Call(sink).block)
        /\ SelectedBySuccessor(Call(sink).block, b, 2)
        /\ ArgOf(c) = n
        /\ Role(c).excludes

-----------------------------------------------------------------------------
(* The response a body is written to.                                      *)

CallDominates(c, sink) ==
  /\ Dominates(Call(c).block, Call(sink).block)
  /\ Call(c).block = Call(sink).block => Call(c).line < Call(sink).line

(* Defect: whatever was written before, on some way.                       *)
HeadersReaching(sink) ==
  {c \in DOMAIN fn.calls :
     /\ Role(c).kind = "header" /\ Role(c).receiver = Role(sink).receiver
     /\ Call(c).block = Call(sink).block \/ Reaches(Call(c).block, Call(sink).block)}

Headers(sink) ==
  {c \in DOMAIN fn.calls :
     /\ Role(c).kind = "header" /\ Role(c).receiver = Role(sink).receiver
     /\ CallDominates(c, sink)}

(* dominatingResponseFacts: the last content type in the order of the      *)
(* calls, and whether anything forbade the body to execute.                *)
ContentType(sink) ==
  LET types == {c \in Headers(sink) : Role(c).name = "content-type"}
  IN  IF types = {} THEN ""
      ELSE Role(CHOOSE c \in types : \A d \in types : d <= c).value

(* What keeps a body from executing, by the name of the header.            *)
Forbids(name, value) ==
  <<name, value>> \in {<<"content-security-policy", "sandbox">>, <<"content-disposition", "attachment">>}

Blocked(sink) == \E c \in Headers(sink) : Forbids(Role(c).name, Role(c).value)

(* A body of the caller's text, no serialized object on the way.           *)
BodyIsMarkup(sink) == ~ Blocked(sink) /\ ContentType(sink) \in {"", "text/html"}

-----------------------------------------------------------------------------
(* The function runs.                                                      *)

(* What a callee answers about a content: by the program's own data when   *)
(* that is what it compares a deciding part of the value to, and as it     *)
(* pleases otherwise.                                                      *)
CalleeAnswers(f, content) ==
  LET decides == {i \in DOMAIN f.compares :
                    /\ f.compares[i].settles # "aside"
                    /\ f.compares[i].right \in f.own
                    /\ f.leaf[f.compares[i].left] \in AdmissionParts}
      same(i) == (content = "listed") = (f.compares[i].op = "===")
  IN  IF decides = {} THEN BOOLEAN
      ELSE {f.saysYes = (\E i \in decides : same(i))}

Answers(c, content) ==
  CASE Role(c).kind = "local"   -> CalleeAnswers(Role(c).callee, content)
    [] Role(c).kind = "pattern" -> IF Role(c).excludes THEN {content = "listed"} ELSE BOOLEAN
    [] OTHER                    -> BOOLEAN

(* The arms an answer leaves open.                                         *)
Arms(branch, yes) ==
  CASE branch = "truthy" -> IF yes THEN {1} ELSE {2}
    [] branch = "falsy"  -> IF yes THEN {2} ELSE {1}
    [] branch = "both"   -> IF yes THEN {1, 2} ELSE {2}
    [] branch = "either" -> IF yes THEN {1} ELSE {1, 2}
    [] OTHER             -> {1, 2}

Arrives(i) ==
  LET brought == IF fn.kinds[i] = "property" THEN sent[fn.path[Flow(i).to]]
                 ELSE holds[Flow(i).from]
  IN  IF Flow(i).grows /\ holds[Flow(i).to] = "foreign" THEN "foreign" ELSE brought

NoHeaders == [type |-> "text/html", policy |-> "", disposition |-> ""]

Header(name) == CASE name = "content-type"            -> "type"
                  [] name = "content-security-policy" -> "policy"
                  [] OTHER                            -> "disposition"

AdInit ==
  /\ RdInit
  /\ sent \in fn.requests
  /\ holds = [v \in Value |-> IF v \in fn.params THEN sent[fn.path[v]] ELSE "listed"]
  /\ answer = 0
  /\ response = NoHeaders

Split == SplitValue /\ UNCHANGED <<sent, holds, answer, response>>

RunFlow ==
  /\ Finished /\ at_statement <= Len(fn.text[at_block])
  /\ LET s == fn.text[at_block][at_statement]
     IN  /\ s[1] = "flow"
         /\ holds' = [holds EXCEPT ![Flow(s[2]).to] = Arrives(s[2])]
  /\ at_statement' = at_statement + 1
  /\ UNCHANGED <<vars, at_value, reads, at_block, last, sent, answer, response>>

RunCheck ==
  /\ Finished /\ at_statement <= Len(fn.text[at_block])
  /\ LET s == fn.text[at_block][at_statement]
     IN  /\ s[1] = "call" /\ Role(s[2]).kind \in {"local", "pattern"}
         /\ \E yes \in Answers(s[2], holds[Call(s[2]).reads[1]]) :
              \E arm \in Arms(Role(s[2]).branch, yes) : answer' = arm
  /\ at_statement' = at_statement + 1
  /\ UNCHANGED <<vars, at_value, reads, at_block, last, sent, holds, response>>

RunHeader ==
  /\ Finished /\ at_statement <= Len(fn.text[at_block])
  /\ LET s == fn.text[at_block][at_statement]
     IN  /\ s[1] = "call" /\ Role(s[2]).kind = "header"
         /\ response' = IF Role(s[2]).receiver = "res"
                        THEN [response EXCEPT ![Header(Role(s[2]).name)] = Role(s[2]).value]
                        ELSE response
  /\ at_statement' = at_statement + 1
  /\ UNCHANGED <<vars, at_value, reads, at_block, last, sent, holds, answer>>

RunSink ==
  /\ Finished /\ at_statement <= Len(fn.text[at_block])
  /\ LET s == fn.text[at_block][at_statement] IN s[1] = "call" /\ Role(s[2]).kind \in {"sink", "return"}
  /\ at_statement' = at_statement + 1
  /\ UNCHANGED <<vars, at_value, reads, at_block, last, sent, holds, answer, response>>

Branch ==
  /\ Finished /\ at_statement > Len(fn.text[at_block])
  /\ \E k \in DOMAIN fn.succs[at_block] :
       /\ answer # 0 /\ BranchesTwoWays(at_block) => k = answer
       /\ at_block' = fn.succs[at_block][k]
  /\ at_statement' = 1 /\ answer' = 0
  /\ UNCHANGED <<vars, at_value, reads, last, sent, holds, response>>

AdNext == Split \/ RunFlow \/ RunCheck \/ RunHeader \/ RunSink \/ Branch
AdSpec == AdInit /\ [][AdNext]_adVars

-----------------------------------------------------------------------------
AdTypeOK ==
  /\ RdTypeOK
  /\ sent \in [Path -> Content] /\ holds \in [Value -> Content]
  /\ answer \in {0, 1, 2}
  /\ DOMAIN response = {"type", "policy", "disposition"}

(* The operation about to run, if one is.                                  *)
AboutTo(kind) ==
  IF Finished /\ at_statement <= Len(fn.text[at_block])
  THEN {c \in DOMAIN fn.calls : fn.text[at_block][at_statement] = <<"call", c>> /\ Role(c).kind = kind}
  ELSE {}

Sunk(c) == holds[Call(c).reads[1]]

(* Whatever the analysis credits at the operation itself -- the operation, *)
(* or the assignment that feeds it, selected by a YES (admission.go:31),   *)
(* every way out of a selector (admission.go:302), a pattern that stood in *)
(* front (taint.go:3705) -- what arrives there on any run is something the *)
(* program holds or its pattern accepted.  Not so, and left out of the     *)
(* functions checked: a value that is assigned anew or appended to where   *)
(* the answer was YES, a loop that asks again after the answer was NO, and *)
(* a callee that answers NO to what it matched.                            *)
CreditedValueWasMatched ==
  /\ \A c \in AboutTo("sink") :
       LET n == ArgOf(c)
       IN  (CASE Role(c).context = "redirect" ->
                   Tainted(n) /\ (\/ SinkSelected(c, n)
                                  \/ \E i \in n[2] : Tainted(Source(i)) /\ DefinitionSelected(i, n))
              [] OTHER -> PatternClears(c, n))
           => Sunk(c) = "listed"
  /\ \A c \in AboutTo("return") : ConstrainsItsReturns => Sunk(c) = "listed"

(* A body reported as no markup is none on any run: the response that      *)
(* leaves carries another content type or forbids the body to execute      *)
(* (taint.go:3533, "facts about this response").                           *)
SilencedBodyIsNotMarkup ==
  \A c \in AboutTo("sink") :
    Role(c).context = "html" /\ Role(c).receiver = "res" /\ ~ BodyIsMarkup(c) =>
      \/ response.type # "text/html"
      \/ response.policy = "sandbox" \/ response.disposition = "attachment"

(* admission.go:37, of the whole walk back: "and nothing else defines the  *)
(* value from anywhere the decision did not allow".                        *)
NothingElseDefinesTheValue ==
  \A c \in AboutTo("sink") :
    Role(c).context = "redirect" /\ WalkWitness(c, ArgOf(c)) => Sunk(c) = "listed"

-----------------------------------------------------------------------------
(* What the judgement of a response takes for granted of a function.  The  *)
(* calls stand where they are listed, those of a block in source order,    *)
(* ...                                                                     *)
CallsStand(f) ==
  \A c \in DOMAIN f.calls :
    \E k \in DOMAIN f.text[f.calls[c].block] : f.text[f.calls[c].block][k] = <<"call", c>>

(* ... and no header unsays another one: the last one listed is read       *)
(* (taint.go:3606), and whether one on a branch replaces it is not asked.  *)
Quiets(r) == IF r.name = "content-type" THEN r.value # "text/html" ELSE Forbids(r.name, r.value)

NothingTakenBack(f) ==
  LET headers == {c \in DOMAIN f.calls : f.role[c].kind = "header" /\ f.role[c].receiver = "res"}
  IN  \A c, d \in headers :
        f.role[c].name = f.role[d].name => (Quiets(f.role[c]) <=> Quiets(f.role[d]))

HeadersHold(f) == RunsInSourceOrder(f) /\ CallsStand(f) /\ NothingTakenBack(f)
============================================================================
