------------------------------- MODULE Scope --------------------------------
(***************************************************************************)
(* core/internal/scope: the relation between two calls of a handler, the   *)
(* check it made and the operation that check admitted.  `propagate`       *)
(* carries the identifiers of the request through the handler's edges, one *)
(* edge a step; `judge` (the key relation) and `judgeAuthority` (the       *)
(* accessor relation) decide from what it found; then the handler runs, so *)
(* that their silence can be held against what a run asks before it acts.  *)
(*                                                                         *)
(* A callback passed to a call is a straight piece of the handler's body:  *)
(* its calls name the call they were handed to.  The calls are numbered as *)
(* flatten lists them, a call before those of its callbacks.               *)
(***************************************************************************)
EXTENDS Runs, SequencesExt

CONSTANTS Value,            \* the values of a handler, as positive numbers:
                            \* the code compares identifiers as strings
          ChosenContainers  \* where the caller decides what a key is

ASSUME ValueAssumption == Value \subseteq Nat \ {0}

ASSUME HandlerAssumption ==
  \A f \in LoweredFn :
    LET Own == {f.order[i] : i \in DOMAIN f.order}
        V0  == Value \cup {0}
    IN  /\ f.rule \in {"key", "accessor"}
        /\ f.kind \in [Value -> {"param", "property", "local"}]
        /\ f.base \in [Value -> V0]
        /\ f.name \in [Value -> STRING]
        /\ f.keyed \subseteq Value      \* the last word of the name says identifier
        /\ f.routed \subseteq Value     \* parameters the route path interpolates
        /\ f.identity \subseteq Value   \* carry the caller's identity
        /\ f.flows \in Seq([kind : {"assign", "enclose", "property"},
                            from : Value, to : Value, inside : Nat])
        /\ f.calls \in Seq([does : SUBSET {"mutates", "selects", "authorizes"},
                            block : Own, recv : V0, args : Seq(Value), result : V0,
                            inside : Nat])
        /\ f.compares \in Seq([left : Value, right : Value, block : Own])
        /\ \A i \in DOMAIN f.calls : f.calls[i].inside < i

VARIABLES
  carries,   \* value -> key -> how it carries it: Absent, 0 (directly), or
             \* the value it was enclosed in
  edge,      \* the edge `propagate` looks at next
  changed_,  \* did this sweep change an entry?
  op_,       \* the call `judge` looks at next
  said,      \* the keys reported, with the operation each is reported at
  stage      \* "carry", "judge", "run"

all == <<vars, carries, edge, changed_, op_, said, stage, run>>

Absent == -1

-----------------------------------------------------------------------------
Call(i)  == fn.calls[i]
ArgsOf(i) == {Call(i).args[n] : n \in DOMAIN Call(i).args}

(* flatten: the call a call was handed to, 0 in the handler's own body;    *)
(* callbacks are looked into three deep (maxDepth).                        *)
HostIn(f, i) == IF i = 0 THEN 0 ELSE f.calls[i].inside
Host(i)      == HostIn(fn, i)

AroundIn(f, i) ==
  {i, HostIn(f, i), HostIn(f, HostIn(f, i)), HostIn(f, HostIn(f, HostIn(f, i)))} \ {0}
Around(i) == AroundIn(fn, i)

(* The key relation is confined to the entry point's own function, the     *)
(* accessor relation sees the callbacks as well.                           *)
InView(inside) == IF fn.rule = "key" THEN inside = 0 ELSE Host(Host(Host(inside))) = 0
Calls == {i \in DOMAIN fn.calls : InView(Call(i).inside)}
Flows == {i \in DOMAIN fn.flows : InView(fn.flows[i].inside)}

-----------------------------------------------------------------------------
(* requestKeys, authorityKeys: the fields of the request whose names say   *)
(* they are identifiers.                                                   *)
Params == {v \in Value : fn.kind[v] = "param"}
Parsed == {Call(i).result : i \in {c \in DOMAIN fn.calls :
                                     Call(c).inside = 0 /\ ArgsOf(c) \cap Params # {}}} \ {0}

ContainerHops == 16
Source == Params \cup Parsed \cup {0}
Base   == [v \in Value \cup {0} |-> IF v \in Source THEN v ELSE fn.base[v]]
FromRequest(v) ==
  LET Up[n \in 0 .. ContainerHops] == IF n = 0 THEN v ELSE Base[Up[n - 1]]
  IN  Up[ContainerHops] \in Source \ {0}

Fields == {v \in fn.keyed : fn.kind[v] = "property" /\ fn.base[v] # 0 /\ FromRequest(fn.base[v])}
Keys   == IF fn.rule = "key" THEN Fields ELSE Fields \cup (Params \cap fn.keyed \cap fn.routed)

ContainerOf(k) == IF k \in Params THEN "route" ELSE fn.name[fn.base[k]]

-----------------------------------------------------------------------------
(* propagate.  Direct displaces enclosed, and of two containers the        *)
(* smaller stays.                                                          *)
Put(was, new) ==
  IF new = Absent \/ was = 0 \/ (was # Absent /\ new # 0 /\ was <= new) THEN was ELSE new

(* Defect: a field read out of a value inherits what the value carries.    *)
AlongOpened(f, c) == IF f.kind = "enclose" /\ c = 0 THEN f.to ELSE c

Along(f, c) ==
  IF f.kind = "property" THEN Absent
  ELSE IF f.kind = "enclose" /\ c = 0 THEN f.to ELSE c

Edges == Len(fn.flows) + Len(fn.calls)

(* What one edge leaves in a table.                                        *)
Through(table, n) ==
  IF n <= Len(fn.flows)
  THEN LET f == fn.flows[n]
       IN  IF n \notin Flows THEN table
           ELSE [table EXCEPT ![f.to] = [k \in Keys |-> Put(@[k], Along(f, table[f.from][k]))]]
  ELSE LET i == n - Len(fn.flows)
           Into == ArgsOf(i) \cup ({Call(i).recv} \ {0})
           Given(k) == {table[v][k] : v \in Into} \ {Absent}
       IN  IF i \notin Calls \/ Call(i).result = 0 THEN table
           ELSE [table EXCEPT ![Call(i).result] =
                   [k \in Keys |->
                      IF Given(k) = {} THEN @[k]
                      ELSE Put(@[k], CHOOSE c \in Given(k) : \A x \in Given(k) : c <= x)]]

Unopened == [v \in Value |-> [k \in Keys |-> IF v = k THEN 0 ELSE Absent]]

Carries(v, k) == carries[v][k] # Absent
KeysIn(values) == {k \in Keys : \E v \in values : Carries(v, k)}

-----------------------------------------------------------------------------
(* The key relation: judge.                                                *)
CarriesIdentity(i) == (ArgsOf(i) \cup {Call(i).recv}) \cap fn.identity # {}

Gates   == {i \in Calls : CarriesIdentity(i) /\ IsGuard(Call(i).block)}
Covered == KeysIn(UNION {ArgsOf(i) \ fn.identity : i \in Gates})  \* `scope`

GatedBy(op) == {g \in Gates \ {op} : Dominates(Call(g).block, Call(op).block)}

Unscoped(op) == KeysIn(ArgsOf(op)) \ Covered

(* How the operation was handed the key: as the first argument has it.     *)
Handed(op, k) ==
  LET At == {n \in DOMAIN Call(op).args : Carries(Call(op).args[n], k)}
  IN  carries[Call(op).args[CHOOSE n \in At : \A j \in At : n <= j]][k]

CarriesScope(op, container) ==
  \E v \in ArgsOf(op), k \in Covered : carries[v][k] = container

ActorCompared(op) ==
  \E j \in DOMAIN fn.compares :
    LET c == fn.compares[j]
    IN  /\ IsGuard(c.block) /\ Dominates(c.block, Call(op).block)
        /\ {c.left, c.right} \cap fn.identity # {}

(* In one block the order the calls were lowered in is the order they run. *)
Precedes(i, j) ==
  IF Call(i).block = Call(j).block THEN i < j ELSE Dominates(Call(i).block, Call(j).block)

ChosenScope == Covered # {} /\ \A k \in Covered : ContainerOf(k) \in ChosenContainers

(* Defect: a lookup of both keys counts wherever it stands.                *)
RelatedAnywhere(op, k) ==
  \E c \in Calls \ (Gates \cup {op}) :
    k \in KeysIn(ArgsOf(c)) /\ KeysIn(ArgsOf(c)) \cap Covered # {}

Related(op, k) ==
  \/ /\ ~ ChosenScope
     /\ \E c \in Calls \ (Gates \cup {op}) :
          /\ Precedes(c, op)
          /\ k \in KeysIn(ArgsOf(c)) /\ KeysIn(ArgsOf(c)) \cap Covered # {}
  \/ \E j \in DOMAIN fn.compares :
       LET c == fn.compares[j]
           both == KeysIn({c.left, c.right})
       IN  /\ Dominates(c.block, Call(op).block) /\ IsGuard(c.block)
           /\ k \in both /\ both \cap Covered # {}

Mutates(i) == "mutates" \in Call(i).does

Unrelated(op) ==
  IF Mutates(op) /\ ~ CarriesIdentity(op) /\ GatedBy(op) # {} /\ Covered # {} /\ ~ ActorCompared(op)
  THEN {k \in Unscoped(op) : ~ CarriesScope(op, Handed(op, k)) /\ ~ Related(op, k)}
  ELSE {}

-----------------------------------------------------------------------------
(* The accessor relation: judgeAuthority.  accessorsOf: a property read is *)
(* an accessor of its base, and everything else hands accessors on.        *)
Accessors ==
  LET Seed == [v \in Value |-> IF fn.kind[v] = "property" /\ fn.base[v] # 0
                               THEN {<<fn.base[v], fn.name[v]>>} ELSE {}]
      On[n \in 0 .. Cardinality(Value)] ==
        IF n = 0 THEN Seed
        ELSE LET known == On[n - 1]
             IN  [v \in Value |-> known[v] \cup
                    UNION {known[fn.flows[i].from] :
                             i \in {j \in Flows : fn.flows[j].to = v /\ fn.flows[j].kind # "property"}}]
  IN  On[Cardinality(Value)]

AccessorsOf(v) == IF v = 0 THEN {} ELSE Accessors[v]

(* authorityOf: what it was called on, or the callback's call was.         *)
AuthorityOf(op) ==
  LET speaking == {c \in Around(op) : AccessorsOf(Call(c).recv) # {}}
  IN  IF speaking = {} THEN {}
      ELSE AccessorsOf(Call(CHOOSE c \in speaking : \A d \in speaking : d <= c).recv)

(* Defect: what may have run on the way here counts as having run.         *)
BeforeSomeWay(i, j) ==
  \E m \in Around(j) :
    /\ Call(m).inside = Call(i).inside
    /\ IF Call(i).block = Call(m).block THEN i <= m ELSE Call(i).block < Call(m).block

(* before: the second call is lifted to the first one's frame.             *)
BeforeIn(i, j) ==
  \E m \in Around(j) :
    /\ Call(m).inside = Call(i).inside
    /\ IF Call(i).block = Call(m).block THEN i <= m
       ELSE Dominates(Call(i).block, Call(m).block)

Outermost(i)  == CHOOSE m \in Around(i) : Call(m).inside = 0
OuterBlock(i) == Call(Outermost(i)).block

HandedKey(i) == KeysIn(ArgsOf(i)) # {}

Questions ==
  {i \in Calls : /\ "authorizes" \in Call(i).does /\ Call(i).inside = 0
                 /\ IsGuard(Call(i).block)
                 /\ AccessorsOf(Call(i).recv) # {} /\ ~ HandedKey(i)}

SharedBases(asked, used) ==
  {b \in Value : (\E a \in asked : a[1] = b) /\ \E u \in used : u[1] = b}

(* An accessor of the context other than the one in question.              *)
OtherOf(v, used, base) == \E a \in AccessorsOf(v) \ used : a[1] = base

ContextRelated(op, used, base) == \E v \in ArgsOf(op) : OtherOf(v, used, base)

Ties(c, used, base) ==
  \E v \in ArgsOf(c) \cup {Call(c).recv} : OtherOf(v, used, base)

LookupRelated(g, op, k, used, base) ==
  \/ \E c \in Calls \ {g, op} :
       BeforeIn(c, op) /\ k \in KeysIn(ArgsOf(c)) /\ Ties(c, used, base)
  \/ \E j \in DOMAIN fn.compares :
       LET c == fn.compares[j]
       IN  /\ IsGuard(c.block) /\ Dominates(c.block, OuterBlock(op))
           /\ k \in KeysIn({c.left, c.right})
           /\ \E v \in {c.left, c.right} : OtherOf(v, used, base)

Selects(i) == "selects" \in Call(i).does

(* swapped: another accessor of a context they share, the smallest one;    *)
(* firstUnrelated: the keys nothing ties to that context.                  *)
Elsewhere(g, op) ==
  LET used   == AuthorityOf(op)
      asked  == AccessorsOf(Call(g).recv)
      shared == SharedBases(asked, used)
      base   == CHOOSE b \in shared : \A c \in shared : b <= c
  IN  IF /\ Selects(op) /\ used # {}
         /\ asked \cap used = {} /\ shared # {}
         /\ BeforeIn(g, op) /\ ~ ContextRelated(op, used, base)
      THEN {k \in KeysIn(ArgsOf(op)) : ~ LookupRelated(g, op, k, used, base)}
      ELSE {}

-----------------------------------------------------------------------------
(* One finding per key, and one key per operation: the first one that is   *)
(* not reported yet, of the first check that leaves one.                   *)
Fresh(keys) == {k \in keys : \A s \in said : s[1] # k}

Doubts(op) ==
  IF op \notin Calls THEN {}
  ELSE IF fn.rule = "key" THEN {Fresh(Unrelated(op))} \ {{}}
  ELSE LET leaving == {g \in Questions : Fresh(Elsewhere(g, op)) # {}}
       IN  {Fresh(Elsewhere(g, op)) : g \in {x \in leaving : \A y \in leaving : x <= y}}

Verdict(op) == {<<CHOOSE k \in keys : \A x \in keys : k <= x, op>> : keys \in Doubts(op)}

ScInit ==
  /\ Analysed
  /\ carries = Unopened
  /\ edge = 1 /\ changed_ = FALSE
  /\ op_ = 1 /\ said = {} /\ stage = "carry"
  /\ RunInit

Carry ==
  /\ stage = "carry" /\ edge <= Edges
  /\ carries' = Through(carries, edge)
  /\ changed_' = (changed_ \/ carries' # carries)
  /\ edge' = edge + 1
  /\ UNCHANGED <<vars, op_, said, stage, run>>

CarryAgain ==
  /\ stage = "carry" /\ edge > Edges
  /\ edge' = 1 /\ changed_' = FALSE
  /\ stage' = IF changed_ THEN "carry" ELSE "judge"
  /\ UNCHANGED <<vars, carries, op_, said, run>>

(* The operations are judged in the order of the calls.                    *)
Judge ==
  /\ stage = "judge" /\ op_ <= Len(fn.calls)
  /\ said' = said \cup Verdict(op_)
  /\ op_' = op_ + 1
  /\ UNCHANGED <<vars, carries, edge, changed_, stage, run>>

Judged ==
  /\ stage = "judge" /\ op_ > Len(fn.calls)
  /\ stage' = "run"
  /\ UNCHANGED <<vars, carries, edge, changed_, op_, said, run>>

(* The handler: a callback need not be called.                             *)
Within(f, s, i) == s[1] = "call" /\ i \in AroundIn(f, s[2]) \ {s[2]}
Inner(s, i)     == Within(fn, s, i)

SkipCallback ==
  /\ stage = "run" /\ Running /\ ~ AtEnd
  /\ \E i \in {Call(Text[pc][2]).inside} \ {0} :
       /\ Text[pc][1] = "call" /\ Now(<<"call", i>>)
       /\ pc' = CHOOSE n \in pc .. Len(Text) + 1 :
                  /\ \A m \in pc .. n - 1 : Inner(Text[m], i)
                  /\ n > Len(Text) \/ ~ Inner(Text[n], i)
  /\ UNCHANGED <<vars, carries, edge, changed_, op_, said, stage, here, trace>>

Execute == stage = "run" /\ RunStatement /\ UNCHANGED <<vars, carries, edge, changed_, op_, said, stage>>
Leave   == stage = "run" /\ RunBranch /\ UNCHANGED <<vars, carries, edge, changed_, op_, said, stage>>

(* How an execution runs the statements of a handler that is lowered call  *)
(* by call: each call stands in the block it is listed in; those of one    *)
(* frame run in the order they are listed, a callback right after the call *)
(* it was handed to; a block compares before it operates.                  *)
InOrder(f, b, q) ==
  LET text == f.text[b]
      j    == text[q][2]
  IN  /\ j \in DOMAIN f.calls /\ f.calls[j].block = b
      /\ \A p \in DOMAIN text :
           LET i == text[p][2]
           IN  /\ /\ text[p][1] = "call"
                  /\ i = f.calls[j].inside \/ (i < j /\ f.calls[i].inside = f.calls[j].inside)
                  => p < q
               /\ text[p][1] = "call" /\ Within(f, text[q], i)
                  => \A r \in p + 1 .. q : Within(f, text[r], i)
               /\ text[p][1] = "compare" /\ f.calls[j].does \cap {"mutates", "selects"} # {}
                  => p < q

RunsAsListed(f) ==
  /\ \A i \in DOMAIN f.calls :
       /\ \E p \in DOMAIN f.text[f.calls[i].block] : f.text[f.calls[i].block][p] = <<"call", i>>
       /\ f.calls[i].inside # 0 => f.calls[f.calls[i].inside].block = f.calls[i].block
  /\ \A j \in DOMAIN f.compares :
       \E p \in DOMAIN f.text[f.compares[j].block] :
         f.text[f.compares[j].block][p] = <<"compare", j>>
  /\ \A b \in DOMAIN f.text : \A q \in DOMAIN f.text[b] :
       f.text[b][q][1] = "call" => InOrder(f, b, q)

ScNext == Carry \/ CarryAgain \/ Judge \/ Judged \/ Execute \/ Leave \/ SkipCallback
ScSpec == ScInit /\ [][ScNext]_all

-----------------------------------------------------------------------------
(* The values a path of edges leads to from a key, along edges that may    *)
(* enclose it or along none that does.                                     *)
Hands(enclosing) ==
  {<<fn.flows[i].from, fn.flows[i].to>> :
     i \in {j \in Flows : fn.flows[j].kind \in {"assign"} \cup enclosing}}
    \cup UNION {(ArgsOf(i) \cup ({Call(i).recv} \ {0})) \X ({Call(i).result} \ {0}) : i \in Calls}

LedTo(k, hands) ==
  {v \in Value : \A S \in SUBSET Value :
     (k \in S /\ \A h \in hands : h[1] \in S => h[2] \in S) => v \in S}

(* "Coarse in one direction and exact in the other" (scope.go:381): when   *)
(* the fixpoint stops, a value carries a key exactly when the key flowed   *)
(* into it, and carries it directly exactly when some way there encloses   *)
(* it in nothing.                                                          *)
KeysAreExact ==
  stage = "judge" =>
    \A k \in Keys :
      /\ {v \in Value : Carries(v, k)} = LedTo(k, Hands({"enclose"}))
      /\ {v \in Value : carries[v][k] = 0} = LedTo(k, Hands({}))

RanCall(i)    == Ran(<<"call", i>>)
RanCompare(j) == Ran(<<"compare", j>>)
Reports(op)   == \E s \in said : s[2] = op

(* No way to the operation avoids the block; and none avoids the call.     *)
OnEveryWay(b, op) == OuterBlock(op) \in CutFromEntry(b)
CalledOnEveryWay(g, op) ==
  IF Call(g).block # OuterBlock(op) THEN OnEveryWay(Call(g).block, op)
  ELSE \E p, q \in DOMAIN fn.text[OuterBlock(op)] :
         /\ p <= q /\ fn.text[OuterBlock(op)][p] = <<"call", g>>
         /\ fn.text[OuterBlock(op)][q] = <<"call", Outermost(op)>>

(* A gate admits operations on its key; "an operation on a different key   *)
(* needs something tying the two" (scope.go:25).  A run that passed a      *)
(* check no way avoids, and changes a record under a key no check of the   *)
(* handler is about, has looked the two keys up together, compared them or *)
(* the caller, or selects by an authorized key at the same depth - or the  *)
(* operation, or the key, is reported.                                     *)
UnrelatedRecordIsReported ==
  fn.rule = "key" /\ stage = "run" =>
    \A op \in Calls :
      (/\ Now(<<"call", op>>) /\ Mutates(op) /\ ~ CarriesIdentity(op) /\ Covered # {}
       /\ \E g \in Gates \ {op} : OnEveryWay(Call(g).block, op))
      => \A k \in Unscoped(op) :
           \/ Reports(op)
           \/ \E s \in said : s[1] = k
           \/ \E v \in ArgsOf(op), c \in Covered :
                Handed(op, k) # Absent /\ carries[v][c] = Handed(op, k)
           \/ \E c \in Calls \ {op} :
                /\ RanCall(c) /\ ~ ChosenScope
                /\ k \in KeysIn(ArgsOf(c)) /\ KeysIn(ArgsOf(c)) \cap Covered # {}
           \/ \E j \in DOMAIN fn.compares :
                LET sides == {fn.compares[j].left, fn.compares[j].right}
                IN  /\ RanCompare(j)
                    /\ \/ sides \cap fn.identity # {}
                       \/ k \in KeysIn(sides) /\ KeysIn(sides) \cap Covered # {}

(* "Two accessors of one context are alternatives the handler chose        *)
(* between" (authority.go:374).  A run that asked one accessor, on every   *)
(* way, and then operates through another one of the same context on a     *)
(* record the request named, has tied that record to the context by        *)
(* something that ran before - or the operation, or the key, is reported.  *)
OtherAuthorityIsReported ==
  fn.rule = "accessor" /\ stage = "run" =>
    \A op \in Calls :
      LET used == AuthorityOf(op)
      IN  Now(<<"call", op>>) /\ Selects(op) /\ used # {} =>
            \A g \in Questions \ {op} :
              LET asked == AccessorsOf(Call(g).recv)
                  bases == SharedBases(asked, used)
              IN  asked \cap used = {} /\ bases # {} /\ CalledOnEveryWay(g, op)
                  => \A k \in KeysIn(ArgsOf(op)) :
                       \/ Reports(op)
                       \/ \E s \in said : s[1] = k
                       \/ \E b \in bases :
                            \/ ContextRelated(op, used, b)
                            \/ \E c \in Calls \ {op} :
                                 RanCall(c) /\ k \in KeysIn(ArgsOf(c)) /\ Ties(c, used, b)
                            \/ \E j \in DOMAIN fn.compares :
                                 RanCompare(j)
                                   /\ k \in KeysIn({fn.compares[j].left, fn.compares[j].right})

(* Whose record an operation reaches is settled before it runs, by what    *)
(* relates the keys or by what ties them to the context, or it is reported *)
(* (scope.go:514, authority.go:374).                                       *)
UnownedRecordIsReported == UnrelatedRecordIsReported /\ OtherAuthorityIsReported

-----------------------------------------------------------------------------
(* What a comment of the code says and the code does not do.               *)

(* What the sweeps settle on with the edges listed in this order.          *)
Settled(order) ==
  LET Swept[n \in 0 .. Cardinality(Value)] ==
        IF n = 0 THEN Unopened ELSE FoldLeft(Through, Swept[n - 1], order)
  IN  Swept[Cardinality(Value)]

(* scope.go:405: "between two containers the smaller name wins, so the     *)
(* answer does not depend on the order the edges happen to be listed in":  *)
(* listed backwards they settle on the same table.                         *)
EdgeOrderIsNoMatter ==
  stage = "judge" => carries = Settled([n \in 1 .. Edges |-> Edges + 1 - n])
=============================================================================
