---------------------------- MODULE ScopeProofs -----------------------------
(***************************************************************************)
(* Theorems about Scope, for every handler, and about Declared.            *)
(*                                                                         *)
(* What `propagate` leaves in its table is exact: the invariant is that    *)
(* nothing is in it that no path of edges leads to (Sound), and that the   *)
(* edges of a sweep that changed nothing so far change nothing (so that    *)
(* the table a sweep leaves alone is closed).                              *)
(*                                                                         *)
(* What the two relations do not report is settled before the operation:   *)
(* BehindInv says what an execution has behind it - every statement of the *)
(* blocks that dominate where it is, and every statement in front of it in *)
(* its block, up to callbacks nobody called - and JudgedInv that every     *)
(* operation judged so far was reported, or its keys were.                 *)
(*                                                                         *)
(* And about Declared, for every application: the edges of a method lead   *)
(* exactly where its statements hand things (MadeInv, ReadsAreExact), and  *)
(* what is reported is what was found so far (DeclaredInv).                *)
(***************************************************************************)
EXTENDS Scope, Declared, CfgProofs, WellFoundedInduction

-----------------------------------------------------------------------------
(* The handler, as Scope is handed it.                                     *)
V0 == Value \cup {0}

LEMMA ValueShape == Value \subseteq Nat /\ 0 \notin Value /\ Absent \notin V0
BY ValueAssumption DEF V0, Absent

LEMMA FlowShape ==
  ASSUME fn \in LoweredFn, NEW i \in DOMAIN fn.flows
  PROVE  /\ fn.flows[i].from \in Value /\ fn.flows[i].to \in Value
         /\ fn.flows[i].kind \in {"assign", "enclose", "property"}
<1>. DEFINE Edge == [kind : {"assign", "enclose", "property"},
                     from : Value, to : Value, inside : Nat]
<1>1. fn.flows \in Seq(Edge)
  BY HandlerAssumption
<1>. HIDE DEF Edge
<1>2. fn.flows[i] \in Edge
  BY <1>1
<1>. QED
  BY <1>2 DEF Edge

LEMMA CallShape ==
  ASSUME fn \in LoweredFn, NEW i \in DOMAIN fn.calls
  PROVE  /\ i \in Nat /\ i # 0
         /\ Call(i).block \in Blocks
         /\ Call(i).args \in Seq(Value) /\ ArgsOf(i) \subseteq Value
         /\ Call(i).recv \in V0 /\ Call(i).result \in V0
         /\ Call(i).inside \in Nat /\ Call(i).inside < i
<1>. DEFINE Form == [does : SUBSET {"mutates", "selects", "authorizes"},
                     block : Blocks, recv : V0, args : Seq(Value), result : V0,
                     inside : Nat]
<1>1. fn.calls \in Seq(Form) /\ fn.calls[i].inside < i
  BY HandlerAssumption DEF Blocks, V0
<1>. HIDE DEF Form
<1>2. fn.calls[i] \in Form /\ i \in Nat /\ i # 0
  BY <1>1
<1>3. Call(i).args \in Seq(Value)
  BY <1>2 DEF Call, Form
<1>4. ArgsOf(i) \subseteq Value
  BY <1>3 DEF ArgsOf
<1>. QED
  BY <1>1, <1>2, <1>3, <1>4 DEF Call, Form

LEMMA EdgeNumbers ==
  ASSUME fn \in LoweredFn
  PROVE  /\ Len(fn.flows) \in Nat /\ DOMAIN fn.flows = 1 .. Len(fn.flows)
         /\ Len(fn.calls) \in Nat /\ DOMAIN fn.calls = 1 .. Len(fn.calls)
         /\ Edges \in Nat
<1>1. Len(fn.flows) \in Nat /\ DOMAIN fn.flows = 1 .. Len(fn.flows)
  <2>. DEFINE Edge == [kind : {"assign", "enclose", "property"},
                       from : Value, to : Value, inside : Nat]
  <2>1. fn.flows \in Seq(Edge)
    BY HandlerAssumption
  <2>. HIDE DEF Edge
  <2>. QED
    BY <2>1
<1>2. Len(fn.calls) \in Nat /\ DOMAIN fn.calls = 1 .. Len(fn.calls)
  <2>. DEFINE Form == [does : SUBSET {"mutates", "selects", "authorizes"},
                       block : Blocks, recv : V0, args : Seq(Value), result : V0,
                       inside : Nat]
  <2>1. fn.calls \in Seq(Form)
    BY HandlerAssumption DEF Blocks, V0
  <2>. HIDE DEF Form
  <2>. QED
    BY <2>1
<1>3. Edges \in Nat
  <2>1. \A a, b \in Nat : a + b \in Nat
    OBVIOUS
  <2>. QED
    BY <1>1, <1>2, <2>1 DEF Edges
<1>. QED
  BY <1>1, <1>2, <1>3

LEMMA KeysAreValues ==
  ASSUME fn \in LoweredFn
  PROVE  Keys \subseteq Value
BY HandlerAssumption DEF Keys, Fields, Params

LEMMA LeastOf ==
  ASSUME NEW S \in SUBSET Nat, S # {}
  PROVE  \E c \in S : \A x \in S : c <= x
<1>1. PICK c \in S : \A x \in S : ~ (<<x, c>> \in OpToRel(<, Nat))
  BY NatLessThanWellFounded, WFMin
<1>2. ASSUME NEW x \in S PROVE c <= x
  <2>1. ~ (x < c)
    BY <1>1 DEF OpToRel
  <2>. QED
    BY <2>1
<1>. QED
  BY <1>2

-----------------------------------------------------------------------------
(* One edge.                                                               *)
Carried == {Absent} \cup V0
Table   == [Value -> [Keys -> Carried]]

LEMMA PutKeeps ==
  ASSUME NEW was \in Carried, NEW new \in Carried
  PROVE  /\ Put(was, new) \in Carried
         /\ Put(was, new) # Absent <=> was # Absent \/ new # Absent
         /\ Put(was, new) = 0 <=> was = 0 \/ new = 0
BY ValueShape DEF Put, Carried, V0, Absent

LEMMA AlongKeeps ==
  ASSUME fn \in LoweredFn, NEW i \in DOMAIN fn.flows, NEW c \in Carried
  PROVE  /\ Along(fn.flows[i], c) \in Carried
         /\ Along(fn.flows[i], c) # Absent
              <=> c # Absent /\ fn.flows[i].kind \in {"assign", "enclose"}
         /\ Along(fn.flows[i], c) = 0 <=> c = 0 /\ fn.flows[i].kind = "assign"
BY FlowShape, ValueShape DEF Along, Carried, V0, Absent

(* What an edge hands to the value it ends in.                             *)
Ends(n)   == IF n <= Len(fn.flows) THEN fn.flows[n].to ELSE Call(n - Len(fn.flows)).result
Into(n)   == LET i == n - Len(fn.flows) IN ArgsOf(i) \cup ({Call(i).recv} \ {0})
Given(t, n, k) == {t[v][k] : v \in Into(n)} \ {Absent}
Looked(n) == IF n <= Len(fn.flows) THEN n \in Flows
             ELSE n - Len(fn.flows) \in Calls /\ Call(n - Len(fn.flows)).result # 0
Comes(t, n, k) ==
  IF n <= Len(fn.flows) THEN Along(fn.flows[n], t[fn.flows[n].from][k])
  ELSE IF Given(t, n, k) = {} THEN Absent
  ELSE CHOOSE c \in Given(t, n, k) : \A x \in Given(t, n, k) : c <= x

LEMMA ThroughIs ==
  ASSUME NEW t, NEW n
  PROVE  Through(t, n) =
           IF ~ Looked(n) THEN t
           ELSE [t EXCEPT ![Ends(n)] = [k \in Keys |-> Put(t[Ends(n)][k], Comes(t, n, k))]]
<1>1. CASE n <= Len(fn.flows)
  BY <1>1 DEF Through, Looked, Ends, Comes
<1>2. CASE ~ (n <= Len(fn.flows))
  <2>1. \A k : (IF Given(t, n, k) = {} THEN t[Ends(n)][k]
               ELSE Put(t[Ends(n)][k], CHOOSE c \in Given(t, n, k) : \A x \in Given(t, n, k) : c <= x))
              = Put(t[Ends(n)][k], Comes(t, n, k))
    BY <1>2 DEF Comes, Put
  <2>. QED
    BY <1>2, <2>1 DEF Through, Looked, Ends, Given, Into
<1>. QED
  BY <1>1, <1>2

(* The pairs of Hands an edge accounts for.                                *)
HandsOf(n, enclosing) ==
  IF n <= Len(fn.flows)
  THEN {h \in {<<fn.flows[n].from, fn.flows[n].to>>} :
          fn.flows[n].kind \in {"assign"} \cup enclosing}
  ELSE Into(n) \X {Ends(n)}

LEMMA FlowHands ==
  ASSUME fn \in LoweredFn, NEW t \in Table, NEW n \in 1 .. Edges, n <= Len(fn.flows),
         NEW k \in Keys
  PROVE  /\ Ends(n) \in Value
         /\ Comes(t, n, k) \in Carried
         /\ Comes(t, n, k) # Absent <=>
              \E h \in HandsOf(n, {"enclose"}) : t[h[1]][k] # Absent
         /\ Comes(t, n, k) = 0 <=> \E h \in HandsOf(n, {}) : t[h[1]][k] = 0
         /\ \A h \in HandsOf(n, {"enclose"}) \cup HandsOf(n, {}) :
              h[1] \in Value /\ h[2] = Ends(n)
<1>. DEFINE f == fn.flows[n]
            c == t[fn.flows[n].from][k]
<1>1. n \in DOMAIN fn.flows
  BY EdgeNumbers
<1>2. f.from \in Value /\ f.to \in Value /\ c \in Carried
  BY <1>1, FlowShape DEF Table
<1>3. Comes(t, n, k) = Along(f, c) /\ Ends(n) = f.to
  BY DEF Comes, Ends
<1>4. /\ HandsOf(n, {"enclose"}) = {h \in {<<f.from, f.to>>} : f.kind \in {"assign", "enclose"}}
      /\ HandsOf(n, {}) = {h \in {<<f.from, f.to>>} : f.kind = "assign"}
  BY DEF HandsOf
<1>5. /\ Along(f, c) \in Carried
      /\ Along(f, c) # Absent <=> c # Absent /\ f.kind \in {"assign", "enclose"}
      /\ Along(f, c) = 0 <=> c = 0 /\ f.kind = "assign"
  BY <1>1, <1>2, AlongKeeps
<1>. HIDE DEF f
<1>6. <<f.from, f.to>>[1] = f.from /\ <<f.from, f.to>>[2] = f.to
  OBVIOUS
<1>7. c = t[f.from][k]
  BY DEF f
<1>. HIDE DEF c
<1>. QED
  BY <1>2, <1>3, <1>4, <1>5, <1>6, <1>7

LEMMA CallHands ==
  ASSUME fn \in LoweredFn, NEW t \in Table, NEW n \in 1 .. Edges, ~ (n <= Len(fn.flows)),
         Looked(n), NEW k \in Keys
  PROVE  /\ Ends(n) \in Value
         /\ Comes(t, n, k) \in Carried
         /\ Comes(t, n, k) # Absent <=>
              \E h \in HandsOf(n, {"enclose"}) : t[h[1]][k] # Absent
         /\ Comes(t, n, k) = 0 <=> \E h \in HandsOf(n, {}) : t[h[1]][k] = 0
         /\ \A h \in HandsOf(n, {"enclose"}) \cup HandsOf(n, {}) :
              h[1] \in Value /\ h[2] = Ends(n)
<1>. DEFINE i == n - Len(fn.flows)
            G == Given(t, n, k)
<1>1. i \in DOMAIN fn.calls /\ Call(i).result # 0
  BY DEF Looked, Calls
<1>2. Into(n) \subseteq Value /\ Ends(n) \in Value
  BY <1>1, CallShape DEF Into, Ends, V0
<1>3. HandsOf(n, {"enclose"}) = Into(n) \X {Ends(n)} /\ HandsOf(n, {}) = Into(n) \X {Ends(n)}
  BY DEF HandsOf
<1>4. G \subseteq V0 /\ G \subseteq Nat
  <2>1. ASSUME NEW v \in Into(n) PROVE t[v][k] \in Carried
    BY <1>2, <2>1 DEF Table
  <2>2. G \subseteq V0
    BY <2>1 DEF Given, Carried
  <2>3. V0 \subseteq Nat
    BY ValueShape DEF V0
  <2>. HIDE DEF G
  <2>. QED
    BY <2>2, <2>3
<1>5. Comes(t, n, k) = IF G = {} THEN Absent ELSE CHOOSE c \in G : \A x \in G : c <= x
  BY DEF Comes
<1>6. \A c : c \in G <=> \E v \in Into(n) : c = t[v][k] /\ c # Absent
  BY DEF Given
<1>. HIDE DEF G
<1>7. CASE G = {}
  <2>1. Comes(t, n, k) = Absent
    BY <1>5, <1>7
  <2>2. \A v \in Into(n) : t[v][k] = Absent
    BY <1>6, <1>7
  <2>. QED
    BY <1>2, <1>3, <2>1, <2>2, ValueShape DEF Carried, V0
<1>8. CASE G # {}
  <2>. DEFINE c == Comes(t, n, k)
  <2>1. c \in G /\ \A x \in G : c <= x
    BY <1>4, <1>5, <1>8, LeastOf
  <2>. HIDE DEF c
  <2>2. c \in V0 /\ c # Absent
    BY <1>4, <2>1, ValueShape
  <2>3. \E v \in Into(n) : t[v][k] # Absent
    BY <1>6, <2>1
  <2>4. c = 0 <=> 0 \in G
    BY <1>4, <2>1
  <2>5. 0 \in G <=> \E v \in Into(n) : t[v][k] = 0
    BY <1>6, ValueShape DEF V0
  <2>6. /\ (\E h \in Into(n) \X {Ends(n)} : t[h[1]][k] # Absent)
              <=> \E v \in Into(n) : t[v][k] # Absent
        /\ (\E h \in Into(n) \X {Ends(n)} : t[h[1]][k] = 0)
              <=> \E v \in Into(n) : t[v][k] = 0
    <3>1. \A h \in Into(n) \X {Ends(n)} : h[1] \in Into(n)
      OBVIOUS
    <3>2. \A v \in Into(n) : <<v, Ends(n)>> \in Into(n) \X {Ends(n)} /\ <<v, Ends(n)>>[1] = v
      OBVIOUS
    <3>. QED
      BY ONLY <3>1, <3>2
  <2>7. Comes(t, n, k) = c /\ c \in Carried
    BY <2>2 DEF c, Carried
  <2>8. /\ Comes(t, n, k) # Absent <=> \E h \in HandsOf(n, {"enclose"}) : t[h[1]][k] # Absent
        /\ Comes(t, n, k) = 0 <=> \E h \in HandsOf(n, {}) : t[h[1]][k] = 0
    BY <1>3, <2>2, <2>3, <2>4, <2>5, <2>6, <2>7
  <2>. QED
    BY <1>2, <1>3, <2>7, <2>8
<1>. QED
  BY <1>7, <1>8

(* Hands holds the pairs of the edges that are looked at, no others.       *)
LEMMA HandsAre ==
  ASSUME fn \in LoweredFn, NEW enclosing, NEW h
  PROVE  h \in Hands(enclosing)
           <=> \E n \in 1 .. Edges : Looked(n) /\ h \in HandsOf(n, enclosing)
<1>1. ASSUME h \in Hands(enclosing)
      PROVE  \E n \in 1 .. Edges : Looked(n) /\ h \in HandsOf(n, enclosing)
  <2>1. CASE \E i \in Flows : /\ fn.flows[i].kind \in {"assign"} \cup enclosing
                              /\ h = <<fn.flows[i].from, fn.flows[i].to>>
    <3>1. PICK i \in Flows : /\ fn.flows[i].kind \in {"assign"} \cup enclosing
                             /\ h = <<fn.flows[i].from, fn.flows[i].to>>
      BY <2>1
    <3>2. i \in DOMAIN fn.flows
      BY DEF Flows
    <3>3. i \in 1 .. Edges /\ i <= Len(fn.flows)
      <4>1. \A a, b \in Nat : i \in 1 .. a => i \in 1 .. a + b /\ i <= a
        OBVIOUS
      <4>. QED
        BY <3>2, <4>1, EdgeNumbers DEF Edges
    <3>. QED
      BY <3>1, <3>3 DEF Looked, HandsOf
  <2>2. CASE \E i \in Calls : h \in (ArgsOf(i) \cup ({Call(i).recv} \ {0})) \X ({Call(i).result} \ {0})
    <3>1. PICK i \in Calls : h \in (ArgsOf(i) \cup ({Call(i).recv} \ {0})) \X ({Call(i).result} \ {0})
      BY <2>2
    <3>. DEFINE n == i + Len(fn.flows)
    <3>2. i \in DOMAIN fn.calls
      BY DEF Calls
    <3>3. n \in 1 .. Edges /\ ~ (n <= Len(fn.flows)) /\ n - Len(fn.flows) = i
      <4>1. \A a, b \in Nat : i \in 1 .. b =>
               i + a \in 1 .. a + b /\ ~ (i + a <= a) /\ (i + a) - a = i
        OBVIOUS
      <4>. QED
        BY <3>2, <4>1, EdgeNumbers DEF Edges
    <3>. HIDE DEF n
    <3>4. Into(n) = ArgsOf(i) \cup ({Call(i).recv} \ {0}) /\ Ends(n) = Call(i).result
      BY <3>3 DEF Into, Ends
    <3>5. Call(i).result # 0
      BY <3>1
    <3>6. Looked(n)
      BY <3>3, <3>5 DEF Looked
    <3>7. h \in HandsOf(n, enclosing)
      BY <3>1, <3>3, <3>4, <3>5 DEF HandsOf
    <3>. QED
      BY <3>3, <3>6, <3>7
  <2>. QED
    BY <1>1, <2>1, <2>2 DEF Hands
<1>2. ASSUME NEW n \in 1 .. Edges, Looked(n), h \in HandsOf(n, enclosing)
      PROVE  h \in Hands(enclosing)
  <2>1. CASE n <= Len(fn.flows)
    BY <1>2, <2>1 DEF Looked, HandsOf, Hands
  <2>2. CASE ~ (n <= Len(fn.flows))
    <3>. DEFINE i == n - Len(fn.flows)
    <3>1. i \in Calls /\ Call(i).result # 0
      BY <1>2, <2>2 DEF Looked
    <3>2. h \in (ArgsOf(i) \cup ({Call(i).recv} \ {0})) \X ({Call(i).result} \ {0})
      BY <1>2, <2>2, <3>1 DEF HandsOf, Into, Ends
    <3>. HIDE DEF i
    <3>. QED
      BY <3>1, <3>2 DEF Hands
  <2>. QED
    BY <2>1, <2>2
<1>. QED
  BY <1>1, <1>2

-----------------------------------------------------------------------------
(* What an edge does to a table: the entries it makes are led to, and the  *)
(* table it leaves alone is closed under its pairs.                        *)
LEMMA ThroughKeeps ==
  ASSUME fn \in LoweredFn, NEW t \in Table, NEW n \in 1 .. Edges
  PROVE  /\ Through(t, n) \in Table
         /\ \A v \in Value, k \in Keys :
              /\ Through(t, n)[v][k] # Absent <=>
                   \/ t[v][k] # Absent
                   \/ /\ Looked(n)
                      /\ \E h \in HandsOf(n, {"enclose"}) : h[2] = v /\ t[h[1]][k] # Absent
              /\ Through(t, n)[v][k] = 0 <=>
                   \/ t[v][k] = 0
                   \/ Looked(n) /\ \E h \in HandsOf(n, {}) : h[2] = v /\ t[h[1]][k] = 0
<1>1. CASE ~ Looked(n)
  BY <1>1, ThroughIs
<1>2. CASE Looked(n)
  <2>. DEFINE e == Ends(n)
              row == [k \in Keys |-> Put(t[e][k], Comes(t, n, k))]
  <2>1. ASSUME NEW k \in Keys
        PROVE  /\ e \in Value
               /\ Comes(t, n, k) \in Carried
               /\ Comes(t, n, k) # Absent <=>
                    \E h \in HandsOf(n, {"enclose"}) : t[h[1]][k] # Absent
               /\ Comes(t, n, k) = 0 <=> \E h \in HandsOf(n, {}) : t[h[1]][k] = 0
               /\ \A h \in HandsOf(n, {"enclose"}) \cup HandsOf(n, {}) :
                    h[1] \in Value /\ h[2] = e
    BY <1>2, FlowHands, CallHands
  <2>2. ASSUME NEW k \in Keys
        PROVE  /\ row[k] \in Carried
               /\ row[k] # Absent <=> t[e][k] # Absent \/ Comes(t, n, k) # Absent
               /\ row[k] = 0 <=> t[e][k] = 0 \/ Comes(t, n, k) = 0
    <3>1. t[e][k] \in Carried /\ Comes(t, n, k) \in Carried
      BY <2>1 DEF Table
    <3>. QED
      BY <3>1, PutKeeps
  <2>3. Through(t, n) = [t EXCEPT ![e] = row]
    BY <1>2, ThroughIs
  <2>4. row \in [Keys -> Carried]
    BY <2>2
  <2>. HIDE DEF e, row
  <2>5. Through(t, n) \in Table
    BY <2>3, <2>4 DEF Table
  <2>6. ASSUME NEW v \in Value, NEW k \in Keys
        PROVE  /\ Through(t, n)[v][k] # Absent <=>
                    \/ t[v][k] # Absent
                    \/ \E h \in HandsOf(n, {"enclose"}) : h[2] = v /\ t[h[1]][k] # Absent
               /\ Through(t, n)[v][k] = 0 <=>
                    \/ t[v][k] = 0
                    \/ \E h \in HandsOf(n, {}) : h[2] = v /\ t[h[1]][k] = 0
    <3>1. Through(t, n)[v] = IF v = e THEN row ELSE t[v]
      BY <2>3 DEF Table
    <3>. QED
      BY <2>1, <2>2, <3>1
  <2>. QED
    BY <1>2, <2>5, <2>6
<1>. QED
  BY <1>1, <1>2

Closed(t, k) ==
  /\ \A h \in Hands({"enclose"}) : t[h[1]][k] # Absent => t[h[2]][k] # Absent
  /\ \A h \in Hands({}) : t[h[1]][k] = 0 => t[h[2]][k] = 0

LEMMA SettledIsClosed ==
  ASSUME fn \in LoweredFn, NEW t \in Table,
         \A n \in 1 .. Edges : Through(t, n) = t,
         NEW k \in Keys
  PROVE  Closed(t, k)
<1>1. ASSUME NEW enclosing \in {{"enclose"}, {}}, NEW h \in Hands(enclosing)
      PROVE  \E n \in 1 .. Edges :
               /\ Looked(n) /\ h \in HandsOf(n, enclosing)
               /\ h[1] \in Value /\ h[2] \in Value
  <2>1. PICK n \in 1 .. Edges : Looked(n) /\ h \in HandsOf(n, enclosing)
    BY HandsAre
  <2>2. h[1] \in Value /\ h[2] = Ends(n) /\ Ends(n) \in Value
    BY <2>1, FlowHands, CallHands
  <2>. QED
    BY <2>1, <2>2
<1>2. ASSUME NEW h \in Hands({"enclose"}), t[h[1]][k] # Absent PROVE t[h[2]][k] # Absent
  <2>1. PICK n \in 1 .. Edges : /\ Looked(n) /\ h \in HandsOf(n, {"enclose"})
                                /\ h[1] \in Value /\ h[2] \in Value
    BY <1>1
  <2>2. Through(t, n)[h[2]][k] # Absent
    BY <1>2, <2>1, ThroughKeeps
  <2>. QED
    BY <2>2
<1>3. ASSUME NEW h \in Hands({}), t[h[1]][k] = 0 PROVE t[h[2]][k] = 0
  <2>1. PICK n \in 1 .. Edges : /\ Looked(n) /\ h \in HandsOf(n, {})
                                /\ h[1] \in Value /\ h[2] \in Value
    BY <1>1
  <2>2. Through(t, n)[h[2]][k] = 0
    BY <1>3, <2>1, ThroughKeeps
  <2>. QED
    BY <2>2
<1>. QED
  BY <1>2, <1>3 DEF Closed

-----------------------------------------------------------------------------
(* Every state: what an entry says is so, and the edges this sweep has     *)
(* looked at without a change would change nothing.                        *)
Sound(t) ==
  \A k \in Keys :
    /\ t[k][k] = 0
    /\ \A v \in Value : t[v][k] # Absent => v \in LedTo(k, Hands({"enclose"}))
    /\ \A v \in Value : t[v][k] = 0 => v \in LedTo(k, Hands({}))

Unchanging(t, upto) == \A n \in 1 .. Edges : n < upto => Through(t, n) = t

CarryInv ==
  /\ fn \in LoweredFn
  /\ carries \in Table /\ Sound(carries)
  /\ edge \in Nat \ {0}
  /\ stage \in {"carry", "judge", "run"}
  /\ ~ changed_ => Unchanging(carries, edge)
  /\ stage # "carry" => Unchanging(carries, Edges + 1)

LEMMA LedAlong ==
  ASSUME NEW k, NEW hands, NEW h \in hands, h[1] \in LedTo(k, hands), h[2] \in Value
  PROVE  h[2] \in LedTo(k, hands)
BY DEF LedTo

LEMMA LedFrom == ASSUME NEW k \in Value, NEW hands PROVE k \in LedTo(k, hands)
BY DEF LedTo

LEMMA SoundStep ==
  ASSUME fn \in LoweredFn, NEW t \in Table, Sound(t), NEW n \in 1 .. Edges
  PROVE  Sound(Through(t, n))
<1>. DEFINE u == Through(t, n)
<1>1. ASSUME NEW k \in Keys, NEW enclosing \in {{"enclose"}, {}},
             NEW h \in HandsOf(n, enclosing), Looked(n)
      PROVE  h \in Hands(enclosing) /\ h[1] \in Value
  <2>1. h \in Hands(enclosing)
    BY <1>1, HandsAre
  <2>2. h[1] \in Value
    BY <1>1, FlowHands, CallHands
  <2>. QED
    BY <2>1, <2>2
<1>2. \A k \in Keys : k \in Value
  BY KeysAreValues
<1>3. ASSUME NEW k \in Keys PROVE u[k][k] = 0
  BY <1>2, ThroughKeeps DEF Sound
<1>4. ASSUME NEW k \in Keys, NEW v \in Value, u[v][k] # Absent
      PROVE  v \in LedTo(k, Hands({"enclose"}))
  <2>1. CASE t[v][k] # Absent
    BY <2>1 DEF Sound
  <2>2. CASE Looked(n) /\ \E h \in HandsOf(n, {"enclose"}) : h[2] = v /\ t[h[1]][k] # Absent
    <3>1. PICK h \in HandsOf(n, {"enclose"}) : h[2] = v /\ t[h[1]][k] # Absent
      BY <2>2
    <3>2. h \in Hands({"enclose"}) /\ h[1] \in Value
      BY <1>1, <2>2
    <3>3. h[1] \in LedTo(k, Hands({"enclose"}))
      BY <3>1, <3>2 DEF Sound
    <3>. QED
      BY <3>1, <3>2, <3>3, LedAlong
  <2>. QED
    BY <1>4, <2>1, <2>2, ThroughKeeps
<1>5. ASSUME NEW k \in Keys, NEW v \in Value, u[v][k] = 0
      PROVE  v \in LedTo(k, Hands({}))
  <2>1. CASE t[v][k] = 0
    BY <2>1 DEF Sound
  <2>2. CASE Looked(n) /\ \E h \in HandsOf(n, {}) : h[2] = v /\ t[h[1]][k] = 0
    <3>1. PICK h \in HandsOf(n, {}) : h[2] = v /\ t[h[1]][k] = 0
      BY <2>2
    <3>2. h \in Hands({}) /\ h[1] \in Value
      BY <1>1, <2>2
    <3>3. h[1] \in LedTo(k, Hands({}))
      BY <3>1, <3>2 DEF Sound
    <3>. QED
      BY <3>1, <3>2, <3>3, LedAlong
  <2>. QED
    BY <1>5, <2>1, <2>2, ThroughKeeps
<1>. HIDE DEF u
<1>6. Sound(u)
  BY <1>3, <1>4, <1>5 DEF Sound
<1>. QED
  BY <1>6 DEF u

LEMMA SoundInit ==
  ASSUME fn \in LoweredFn
  PROVE  Unopened \in Table /\ Sound(Unopened)
<1>1. Keys \subseteq Value
  BY KeysAreValues
<1>2. \A v \in Value, k \in Keys : Unopened[v][k] = IF v = k THEN 0 ELSE Absent
  BY DEF Unopened
<1>3. Unopened \in Table
  BY DEF Unopened, Table, Carried, V0
<1>4. Sound(Unopened)
  BY <1>1, <1>2, LedFrom DEF Sound, Absent
<1>. QED
  BY <1>3, <1>4

(* The tables are tables of the handler, which no step changes.            *)
LEMMA HandlerFrame ==
  ASSUME fn' = fn
  PROVE  /\ Keys' = Keys /\ Table' = Table /\ Edges' = Edges /\ Calls' = Calls
         /\ \A enclosing : (Hands(enclosing))' = Hands(enclosing)
         /\ \A t : (Sound(t))' <=> Sound(t)
         /\ \A t, n : (Through(t, n))' = Through(t, n)
         /\ \A t, upto : (Unchanging(t, upto))' <=> Unchanging(t, upto)
<1>1. Keys' = Keys
  BY DEF Keys, Fields, Params, FromRequest, Base, Source, Parsed, ArgsOf, Call
<1>2. Table' = Table /\ Edges' = Edges
  BY <1>1 DEF Table, Edges, Carried
<1>3. Calls' = Calls /\ Flows' = Flows
  BY DEF Calls, Flows, InView, Host, Call
<1>4. ASSUME NEW enclosing PROVE (Hands(enclosing))' = Hands(enclosing)
  BY <1>3 DEF Hands, ArgsOf, Call
<1>5. ASSUME NEW t, NEW n PROVE (Through(t, n))' = Through(t, n)
  BY <1>1, <1>3 DEF Through, ArgsOf, Call
<1>6. ASSUME NEW t PROVE (Sound(t))' <=> Sound(t)
  BY <1>1, <1>4 DEF Sound
<1>7. ASSUME NEW t, NEW upto PROVE (Unchanging(t, upto))' <=> Unchanging(t, upto)
  BY <1>2, <1>5 DEF Unchanging
<1>. QED
  BY <1>1, <1>2, <1>3, <1>4, <1>5, <1>6, <1>7

LEMMA CarryFrame ==
  ASSUME fn' = fn
  PROVE  CarryInv' <=>
           /\ fn \in LoweredFn
           /\ carries' \in Table /\ Sound(carries')
           /\ edge' \in Nat \ {0}
           /\ stage' \in {"carry", "judge", "run"}
           /\ ~ changed_' => Unchanging(carries', edge')
           /\ stage' # "carry" => Unchanging(carries', Edges + 1)
BY HandlerFrame DEF CarryInv

LEMMA CarryInvInit == ScInit => CarryInv
<1>. SUFFICES ASSUME ScInit PROVE CarryInv
  OBVIOUS
<1>1. fn \in LoweredFn
  BY DEF ScInit, Analysed
<1>. QED
  BY <1>1, SoundInit DEF ScInit, CarryInv, Unchanging

LEMMA CarryInvStep == CarryInv /\ [ScNext]_all => CarryInv'
<1>. SUFFICES ASSUME CarryInv, [ScNext]_all PROVE CarryInv'
  OBVIOUS
<1>1. fn' = fn
  BY DEF ScNext, all, vars, Carry, CarryAgain, Judge, Judged, Execute, Leave, SkipCallback
<1>2. /\ fn \in LoweredFn /\ carries \in Table /\ Sound(carries)
      /\ edge \in Nat \ {0} /\ Edges \in Nat
  BY EdgeNumbers DEF CarryInv
<1>3. CASE Carry
  <2>1. edge \in 1 .. Edges
    BY <1>2, <1>3 DEF Carry
  <2>2. carries' \in Table /\ Sound(carries')
    BY <1>2, <1>3, <2>1, SoundStep, ThroughKeeps DEF Carry
  <2>3. ASSUME ~ changed_' PROVE Unchanging(carries', edge')
    <3>1. ~ changed_ /\ carries' = carries /\ edge' = edge + 1 /\ Through(carries, edge) = carries
      BY <1>3, <2>3 DEF Carry
    <3>2. \A n \in 1 .. Edges : n < edge + 1 => n < edge \/ n = edge
      BY <1>2
    <3>. QED
      BY <3>1, <3>2 DEF CarryInv, Unchanging
  <2>4. edge' \in Nat \ {0} /\ stage' = "carry"
    BY <1>2, <1>3 DEF Carry
  <2>. QED
    BY <1>1, <1>2, <2>2, <2>3, <2>4, CarryFrame
<1>4. CASE CarryAgain
  <2>1. /\ carries' = carries /\ edge' = 1
        /\ stage' \in {"carry", "judge", "run"}
        /\ stage' # "carry" => ~ changed_
    BY <1>4 DEF CarryAgain
  <2>2. Unchanging(carries, 1)
    BY <1>2 DEF Unchanging
  <2>3. ASSUME ~ changed_ PROVE Unchanging(carries, Edges + 1)
    <3>1. \A n \in 1 .. Edges : n < edge
      BY <1>2, <1>4 DEF CarryAgain
    <3>. QED
      BY <2>3, <3>1 DEF CarryInv, Unchanging
  <2>. QED
    BY <1>1, <1>2, <2>1, <2>2, <2>3, CarryFrame
<1>5. CASE \/ Judge \/ Judged \/ Execute \/ Leave \/ SkipCallback \/ UNCHANGED all
  <2>1. /\ carries' = carries /\ edge' = edge /\ changed_' = changed_
        /\ (stage # "carry" /\ stage' \in {"judge", "run"}) \/ stage' = stage
    BY <1>5 DEF Judge, Judged, Execute, Leave, SkipCallback, all
  <2>. QED
    BY <1>1, <1>2, <2>1, CarryFrame DEF CarryInv
<1>. QED
  BY <1>3, <1>4, <1>5 DEF ScNext

LEMMA CarryInvariant == ScSpec => []CarryInv
BY CarryInvInit, CarryInvStep, PTL DEF ScSpec

(* scope.go:381: "Deliberately coarse in one direction and exact in the    *)
(* other."  Whatever the handler, and in whatever order its edges are      *)
(* listed, the sweeps stop with the keys that flow into each value, and    *)
(* with those that some way there encloses in nothing.                     *)
THEOREM KeysCorrect == ScSpec => []KeysAreExact
<1>1. ASSUME CarryInv PROVE KeysAreExact
  <2>. SUFFICES ASSUME stage = "judge", NEW k \in Keys
                PROVE  /\ {v \in Value : Carries(v, k)} = LedTo(k, Hands({"enclose"}))
                       /\ {v \in Value : carries[v][k] = 0} = LedTo(k, Hands({}))
    BY DEF KeysAreExact
  <2>1. /\ fn \in LoweredFn /\ carries \in Table /\ Sound(carries) /\ Edges \in Nat
        /\ \A n \in 1 .. Edges : Through(carries, n) = carries
    BY <1>1, EdgeNumbers DEF CarryInv, Unchanging
  <2>2. Closed(carries, k)
    BY <2>1, SettledIsClosed
  <2>3. k \in Value /\ carries[k][k] = 0
    BY <2>1, KeysAreValues DEF Sound
  <2>4. \A h \in Hands({"enclose"}) \cup Hands({}) : h[2] \in Value
    <3>1. ASSUME NEW enclosing \in {{"enclose"}, {}}, NEW h \in Hands(enclosing)
          PROVE  h[2] \in Value
      <4>1. PICK n \in 1 .. Edges : Looked(n) /\ h \in HandsOf(n, enclosing)
        BY <2>1, HandsAre
      <4>2. h[2] = Ends(n) /\ Ends(n) \in Value
        <5>1. CASE n <= Len(fn.flows)
          BY <2>1, <4>1, <5>1, FlowHands
        <5>2. CASE ~ (n <= Len(fn.flows))
          BY <2>1, <4>1, <5>2, CallHands
        <5>. QED
          BY <5>1, <5>2
      <4>. QED
        BY <4>2
    <3>. QED
      BY <3>1
  <2>5. {v \in Value : Carries(v, k)} = LedTo(k, Hands({"enclose"}))
    <3>. DEFINE S == {v \in Value : Carries(v, k)}
    <3>1. k \in S
      BY <2>3 DEF Carries, Absent
    <3>2. \A h \in Hands({"enclose"}) : h[1] \in S => h[2] \in S
      BY <2>2, <2>4 DEF Carries, Closed
    <3>3. S \subseteq LedTo(k, Hands({"enclose"}))
      BY <2>1 DEF Sound, Carries
    <3>4. S \in SUBSET Value
      OBVIOUS
    <3>. HIDE DEF S
    <3>5. LedTo(k, Hands({"enclose"})) \subseteq S
      BY <3>1, <3>2, <3>4 DEF LedTo
    <3>6. S = LedTo(k, Hands({"enclose"}))
      BY <3>3, <3>5
    <3>. QED
      BY <3>6 DEF S
  <2>6. {v \in Value : carries[v][k] = 0} = LedTo(k, Hands({}))
    <3>. DEFINE S == {v \in Value : carries[v][k] = 0}
    <3>1. k \in S
      BY <2>3
    <3>2. \A h \in Hands({}) : h[1] \in S => h[2] \in S
      BY <2>2, <2>4 DEF Closed
    <3>3. S \subseteq LedTo(k, Hands({}))
      BY <2>1 DEF Sound
    <3>4. S \in SUBSET Value
      OBVIOUS
    <3>. HIDE DEF S
    <3>5. LedTo(k, Hands({})) \subseteq S
      BY <3>1, <3>2, <3>4 DEF LedTo
    <3>6. S = LedTo(k, Hands({}))
      BY <3>3, <3>5
    <3>. QED
      BY <3>6 DEF S
  <2>. QED
    BY <2>5, <2>6
<1>. QED
  BY <1>1, CarryInvariant, PTL

-----------------------------------------------------------------------------
(* Nested calls.                                                           *)
LEMMA HostShape ==
  ASSUME fn \in LoweredFn, NEW i \in DOMAIN fn.calls \cup {0}
  PROVE  /\ Host(i) \in Nat /\ i \in Nat /\ (i # 0 => Host(i) < i) /\ (i = 0 => Host(i) = 0)
         /\ Host(i) \in DOMAIN fn.calls \cup {0}
<1>1. CASE i = 0
  BY <1>1 DEF Host, HostIn
<1>2. CASE i # 0
  <2>1. Host(i) = Call(i).inside /\ i \in DOMAIN fn.calls
    BY <1>2 DEF Host, HostIn, Call
  <2>2. Host(i) \in Nat /\ Host(i) < i /\ i \in Nat
    BY <2>1, CallShape
  <2>3. i \in 1 .. Len(fn.calls) /\ Len(fn.calls) \in Nat /\ DOMAIN fn.calls = 1 .. Len(fn.calls)
    BY <2>1, EdgeNumbers
  <2>4. Host(i) \in 1 .. Len(fn.calls) \cup {0}
    BY <2>2, <2>3
  <2>. QED
    BY <1>2, <2>2, <2>3, <2>4
<1>. QED
  BY <1>1, <1>2

LEMMA AroundShape ==
  ASSUME fn \in LoweredFn, NEW i \in DOMAIN fn.calls
  PROVE  /\ Around(i) = {i, Host(i), Host(Host(i)), Host(Host(Host(i)))} \ {0}
         /\ Around(i) \subseteq DOMAIN fn.calls
         /\ i \in Around(i)
         /\ Around(i) \ {i} = {Host(i), Host(Host(i)), Host(Host(Host(i)))} \ {0}
         /\ \A m \in Around(i) : m \in Nat /\ m <= i
<1>1. Around(i) = {i, Host(i), Host(Host(i)), Host(Host(Host(i)))} \ {0}
  BY DEF Around, AroundIn, Host
<1>2. /\ Host(i) \in DOMAIN fn.calls \cup {0} /\ Host(i) \in Nat /\ Host(i) < i
      /\ i \in Nat /\ i # 0
  BY HostShape, CallShape
<1>3. /\ Host(Host(i)) \in DOMAIN fn.calls \cup {0} /\ Host(Host(i)) \in Nat
      /\ Host(Host(i)) < i
  BY <1>2, HostShape
<1>4. /\ Host(Host(Host(i))) \in DOMAIN fn.calls \cup {0} /\ Host(Host(Host(i))) \in Nat
      /\ Host(Host(Host(i))) < i
  BY <1>2, <1>3, HostShape
<1>5. \A a, b, c : i # 0 /\ a # i /\ b # i /\ c # i =>
        /\ i \in {i, a, b, c} \ {0}
        /\ ({i, a, b, c} \ {0}) \ {i} = {a, b, c} \ {0}
  OBVIOUS
<1>6. Host(i) # i /\ Host(Host(i)) # i /\ Host(Host(Host(i))) # i
  BY <1>2, <1>3, <1>4
<1>7. Around(i) \subseteq DOMAIN fn.calls /\ \A m \in Around(i) : m \in Nat /\ m <= i
  BY <1>1, <1>2, <1>3, <1>4
<1>. QED
  BY ONLY <1>1, <1>2, <1>5, <1>6, <1>7

(* In view, the chain of calls ends within the four Around holds.          *)
LEMMA InViewShort ==
  ASSUME fn \in LoweredFn, NEW i \in Calls
  PROVE  i \in DOMAIN fn.calls /\ Host(Host(Host(Host(i)))) = 0
<1>1. i \in DOMAIN fn.calls /\ Call(i).inside = Host(i) /\ InView(Host(i))
  BY CallShape DEF Calls, Host, HostIn, Call
<1>2. Host(0) = 0
  BY DEF Host, HostIn
<1>. QED
  BY <1>1, <1>2 DEF InView

(* What a call of the same frame as one of those around it was handed to,  *)
(* it was handed to itself.                                                *)
LEMMA AroundUp ==
  ASSUME fn \in LoweredFn, NEW op \in Calls, NEW m \in Around(op),
         NEW c \in DOMAIN fn.calls, Host(c) = Host(m), NEW i \in Around(c) \ {c}
  PROVE  i \in Around(op) \ {op}
<1>. DEFINE h1 == Host(op)
            h2 == Host(h1)
            h3 == Host(h2)
<1>1. op \in DOMAIN fn.calls /\ Host(h3) = 0 /\ Host(0) = 0
  BY InViewShort DEF Host, HostIn
<1>2. Around(op) = {op, h1, h2, h3} \ {0} /\ Around(op) \ {op} = {h1, h2, h3} \ {0}
  BY <1>1, AroundShape
<1>3. i \in {Host(m), Host(Host(m)), Host(Host(Host(m)))} /\ i # 0
  BY AroundShape
<1>. HIDE DEF h3
<1>4. h2 = Host(h1) /\ h1 = Host(op) /\ h3 = Host(h2)
  BY DEF h3
<1>. HIDE DEF h1, h2
<1>5. m \in {op, h1, h2, h3}
  BY <1>2
<1>. QED
  BY <1>1, <1>2, <1>3, <1>4, <1>5

-----------------------------------------------------------------------------
(* What an execution has behind it: everything in front of where it is, up *)
(* to callbacks that were not called, which are behind it as a whole.      *)
RanIn(t, s)     == \E k \in DOMAIN t : t[k] = s
InCallback(s)   == s[1] = "call" /\ Host(s[2]) # 0
LeftBehind(b, q, n) ==
  \E i : Inner(fn.text[b][q], i) /\ \A r \in n .. Len(fn.text[b]) : ~ Inner(fn.text[b][r], i)

BehindHere(t, b, n) ==
  \A q \in 1 .. n - 1 : RanIn(t, fn.text[b][q]) \/ LeftBehind(b, q, n)

BehindBlocks(t, b) ==
  \A a \in Blocks \ {b} : b \in CutFromEntry(a) =>
    \A q \in DOMAIN fn.text[a] : RanIn(t, fn.text[a][q]) \/ InCallback(fn.text[a][q])

(* What had run when a call ran: what BeforeIn puts before it, and the     *)
(* comparisons of the blocks that dominate its own.                        *)
BehindCall(t, op) ==
  /\ Call(op).block \in reached
  /\ \A c \in Calls \ {op} : BeforeIn(c, op) => RanIn(t, <<"call", c>>)
  /\ Mutates(op) \/ Selects(op) =>
       \A j \in DOMAIN fn.compares :
         Dominates(fn.compares[j].block, Call(op).block) => RanIn(t, <<"compare", j>>)

BehindTypes ==
  /\ here \in reached
  /\ pc \in 1 .. Len(fn.text[here]) + 1
  /\ trace \in Seq(STRING \X Nat)

BehindInv ==
  /\ Analysed /\ RunsAsListed(fn)
  /\ BehindTypes
  /\ BehindHere(trace, here, pc)
  /\ BehindBlocks(trace, here)
  /\ \A op \in Calls : Now(<<"call", op>>) => BehindCall(trace, op)

LEMMA CompareShape ==
  ASSUME fn \in LoweredFn, NEW j \in DOMAIN fn.compares
  PROVE  fn.compares[j].block \in Blocks
<1>. DEFINE Asked == [left : Value, right : Value, block : Blocks]
<1>1. fn.compares \in Seq(Asked)
  BY HandlerAssumption DEF Blocks
<1>. HIDE DEF Asked
<1>2. fn.compares[j] \in Asked
  BY <1>1
<1>. QED
  BY <1>2 DEF Asked

(* The conjuncts of RunsAsListed, one by one.                              *)
LEMMA CallStands ==
  ASSUME fn \in LoweredFn, RunsAsListed(fn), NEW i \in DOMAIN fn.calls
  PROVE  /\ \E p \in DOMAIN fn.text[Call(i).block] : fn.text[Call(i).block][p] = <<"call", i>>
         /\ Host(i) # 0 => Call(Host(i)).block = Call(i).block
<1>1. i # 0
  BY CallShape
<1>. QED
  BY <1>1 DEF RunsAsListed, Call, Host, HostIn

LEMMA CompareStands ==
  ASSUME RunsAsListed(fn), NEW j \in DOMAIN fn.compares
  PROVE  \E p \in DOMAIN fn.text[fn.compares[j].block] :
           fn.text[fn.compares[j].block][p] = <<"compare", j>>
BY DEF RunsAsListed

LEMMA ListedHere ==
  ASSUME fn \in LoweredFn, RunsAsListed(fn), NEW b \in Blocks,
         NEW q \in DOMAIN fn.text[b], NEW j, fn.text[b][q] = <<"call", j>>
  PROVE  /\ InOrder(fn, b, q) /\ fn.text[b][q][2] = j
         /\ j \in DOMAIN fn.calls /\ Call(j).block = b
<1>1. DOMAIN fn.text = Blocks
  BY TextOfBlock
<1>2. fn.text[b][q][1] = "call" /\ fn.text[b][q][2] = j
  OBVIOUS
<1>3. InOrder(fn, b, q)
  BY <1>1, <1>2 DEF RunsAsListed
<1>. QED
  BY <1>2, <1>3 DEF InOrder, Call

LEMMA ListedIn ==
  ASSUME fn \in LoweredFn, RunsAsListed(fn), NEW b \in Blocks,
         NEW q \in DOMAIN fn.text[b], NEW j, fn.text[b][q] = <<"call", j>>
  PROVE  /\ j \in DOMAIN fn.calls /\ Call(j).block = b
         /\ \A p \in DOMAIN fn.text[b] : fn.text[b][p] = <<"call", Host(j)>> => p < q
         /\ \A p \in DOMAIN fn.text[b] : \A i :
              /\ fn.text[b][p] = <<"call", i>> /\ i < j /\ i # 0 /\ Host(i) = Host(j) => p < q
              /\ fn.text[b][p] = <<"compare", i>> /\ (Mutates(j) \/ Selects(j)) => p < q
<1>1. /\ InOrder(fn, b, q) /\ fn.text[b][q][2] = j
      /\ j \in DOMAIN fn.calls /\ Call(j).block = b
  BY ListedHere
<1>2. j # 0
  BY <1>1, CallShape
<1>3. ASSUME NEW p \in DOMAIN fn.text[b], NEW i, fn.text[b][p] = <<"call", i>>
      PROVE  /\ i = Host(j) => p < q
             /\ i < j /\ i # 0 /\ Host(i) = Host(j) => p < q
  <2>1. fn.text[b][p][1] = "call" /\ fn.text[b][p][2] = i
    BY <1>3
  <2>2. i = fn.calls[j].inside \/ (i < j /\ fn.calls[i].inside = fn.calls[j].inside) => p < q
    BY <1>1, <2>1 DEF InOrder
  <2>. QED
    BY <1>2, <2>2 DEF Host, HostIn
<1>4. ASSUME NEW p \in DOMAIN fn.text[b], NEW i, fn.text[b][p] = <<"compare", i>>,
             Mutates(j) \/ Selects(j)
      PROVE  p < q
  <2>1. fn.text[b][p][1] = "compare"
    BY <1>4
  <2>2. fn.calls[j].does \cap {"mutates", "selects"} # {}
    BY <1>4 DEF Mutates, Selects, Call
  <2>. QED
    BY <1>1, <2>1, <2>2 DEF InOrder
<1>. QED
  BY <1>1, <1>3, <1>4

(* What stands between a call and one inside it is inside it as well.      *)
LEMMA ListedInside ==
  ASSUME fn \in LoweredFn, RunsAsListed(fn), NEW b \in Blocks,
         NEW q \in DOMAIN fn.text[b], NEW j, fn.text[b][q] = <<"call", j>>,
         NEW p \in DOMAIN fn.text[b], NEW i, fn.text[b][p] = <<"call", i>>,
         Inner(fn.text[b][q], i)
  PROVE  \A r \in p + 1 .. q : Inner(fn.text[b][r], i)
<1>1. InOrder(fn, b, q)
  BY ListedHere
<1>2. fn.text[b][p][1] = "call" /\ fn.text[b][p][2] = i
  OBVIOUS
<1>3. Within(fn, fn.text[b][q], i)
  BY DEF Inner
<1>4. \A r \in p + 1 .. q : Within(fn, fn.text[b][r], i)
  BY <1>1, <1>2, <1>3 DEF InOrder
<1>. QED
  BY <1>4 DEF Inner

(* Around a call everything stands in its block, no later than it.         *)
LEMMA AroundStands ==
  ASSUME fn \in LoweredFn, RunsAsListed(fn), NEW op \in DOMAIN fn.calls, NEW m \in Around(op)
  PROVE  /\ m \in DOMAIN fn.calls /\ Call(m).block = Call(op).block
         /\ \A q \in DOMAIN fn.text[Call(op).block] :
              fn.text[Call(op).block][q] = <<"call", op>> =>
                \E p \in DOMAIN fn.text[Call(op).block] :
                  /\ fn.text[Call(op).block][p] = <<"call", m>>
                  /\ p <= q /\ (m # op => p < q)
<1>. DEFINE b == Call(op).block
            At(i, p) == p \in DOMAIN fn.text[b] /\ fn.text[b][p] = <<"call", i>>
<1>1. b \in Blocks
  BY CallShape
<1>2. \A p \in DOMAIN fn.text[b] : p \in Nat
  BY <1>1, TextOfBlock
<1>3. ASSUME NEW i \in DOMAIN fn.calls, Call(i).block = b, Host(i) # 0
      PROVE  /\ Host(i) \in DOMAIN fn.calls /\ Call(Host(i)).block = b
             /\ \A q : At(i, q) => \E p : At(Host(i), p) /\ p < q
  <2>1. Host(i) \in DOMAIN fn.calls /\ Call(Host(i)).block = b
    BY <1>3, HostShape, CallStands
  <2>2. PICK p : At(Host(i), p)
    BY <2>1, CallStands
  <2>3. ASSUME NEW q, At(i, q) PROVE p < q
    <3>1. q \in DOMAIN fn.text[b] /\ fn.text[b][q] = <<"call", i>>
      BY <2>3
    <3>2. p \in DOMAIN fn.text[b] /\ fn.text[b][p] = <<"call", Host(i)>>
      BY <2>2
    <3>. HIDE DEF b, At
    <3>. QED
      BY <1>1, <3>1, <3>2, ListedIn
  <2>. QED
    BY <2>1, <2>2, <2>3
<1>. DEFINE Fine(i) == /\ i \in DOMAIN fn.calls /\ Call(i).block = b
                       /\ \A q : At(op, q) => \E p : At(i, p) /\ p <= q /\ (i # op => p < q)
<1>4. Fine(op)
  BY <1>2
<1>5. ASSUME NEW i, Fine(i), Host(i) # 0 PROVE Fine(Host(i))
  <2>1. /\ Host(i) \in DOMAIN fn.calls /\ Call(Host(i)).block = b
        /\ \A q : At(i, q) => \E p : At(Host(i), p) /\ p < q
    BY <1>3, <1>5
  <2>2. ASSUME NEW q, At(op, q) PROVE \E p : At(Host(i), p) /\ p < q
    <3>1. PICK p : At(i, p) /\ p <= q
      BY <1>5, <2>2
    <3>2. PICK r : At(Host(i), r) /\ r < p
      BY <2>1, <3>1
    <3>3. r < q
      BY <1>2, <2>2, <3>1, <3>2
    <3>. QED
      BY <3>2, <3>3
  <2>3. \A p, q : p < q /\ At(op, q) /\ At(Host(i), p) => p <= q
    BY <1>2
  <2>. QED
    BY <2>1, <2>2, <2>3
<1>6. Host(0) = 0
  BY DEF Host, HostIn
<1>7. \A i : Host(i) = 0 \/ i # 0
  BY <1>6
<1>8. Fine(m)
  <2>. HIDE DEF Fine, At, b
  <2>1. m \in {op, Host(op), Host(Host(op)), Host(Host(Host(op)))} /\ m # 0
    BY AroundShape
  <2>. QED
    BY <2>1, <1>4, <1>5, <1>6
<1>. QED
  BY <1>8

(* A call that runs has what BeforeIn puts before it behind it: a callback *)
(* that was left behind would have left this call behind with it.          *)
LEMMA CallRuns ==
  ASSUME Analysed, RunsAsListed(fn), here \in reached, NEW t,
         BehindHere(t, here, pc), BehindBlocks(t, here),
         pc \in DOMAIN fn.text[here],
         NEW op \in Calls, fn.text[here][pc] = <<"call", op>>
  PROVE  BehindCall(t, op)
<1>1. /\ fn \in LoweredFn /\ reached = FromEntry /\ reached \subseteq Blocks /\ here \in Blocks
      /\ \A a \in Blocks, b \in Blocks :
           Dominates(a, b) <=> a \in reached /\ b \in reached /\ b \in CutFromEntry(a)
  BY AnalysedDominance, FromEntryClosed
<1>2. op \in DOMAIN fn.calls /\ Call(op).block = here
  BY <1>1, ListedIn
<1>3. DOMAIN fn.text[here] \subseteq Nat \ {0}
  BY <1>1, TextOfBlock
<1>4. ASSUME NEW q \in DOMAIN fn.text[here], q < pc,
             ~ RanIn(t, fn.text[here][q])
      PROVE  \E i : Inner(fn.text[here][q], i) /\ ~ Inner(fn.text[here][pc], i)
  <2>1. q \in 1 .. pc - 1 /\ pc \in pc .. Len(fn.text[here])
    BY <1>1, <1>3, <1>4, TextOfBlock
  <2>2. LeftBehind(here, q, pc)
    BY <1>4, <2>1 DEF BehindHere
  <2>. QED
    BY <2>1, <2>2 DEF LeftBehind
<1>5. ASSUME NEW c \in Calls \ {op}, BeforeIn(c, op)
      PROVE  RanIn(t, <<"call", c>>)
  <2>1. PICK m \in Around(op) :
          /\ Call(m).inside = Call(c).inside
          /\ IF Call(c).block = Call(m).block THEN c <= m
             ELSE Dominates(Call(c).block, Call(m).block)
    BY <1>5 DEF BeforeIn
  <2>2. c \in DOMAIN fn.calls /\ c # 0 /\ c \in Nat /\ Call(c).block \in Blocks
    BY <1>1, CallShape DEF Calls
  <2>3. /\ m \in DOMAIN fn.calls /\ m # 0 /\ m \in Nat /\ Call(m).block = here
        /\ \E p \in DOMAIN fn.text[here] :
             fn.text[here][p] = <<"call", m>> /\ p <= pc /\ (m # op => p < pc)
    BY <1>1, <1>2, AroundStands, CallShape
  <2>4. Host(c) = Host(m)
    BY <2>1, <2>2, <2>3 DEF Host, HostIn, Call
  <2>5. PICK q \in DOMAIN fn.text[Call(c).block] : fn.text[Call(c).block][q] = <<"call", c>>
    BY <1>1, <2>2, CallStands
  <2>6. CASE Call(c).block # here
    <3>1. Host(c) = 0
      BY <1>1, <2>2, <2>3, <2>4, <2>6, CallStands
    <3>2. here \in CutFromEntry(Call(c).block)
      BY <1>1, <2>1, <2>2, <2>3, <2>6
    <3>3. ~ InCallback(<<"call", c>>)
      BY <3>1 DEF InCallback
    <3>. QED
      BY <2>2, <2>5, <2>6, <3>2, <3>3 DEF BehindBlocks
  <2>7. CASE Call(c).block = here
    <3>1. c <= m
      BY <2>1, <2>3, <2>7
    <3>2. q \in DOMAIN fn.text[here] /\ fn.text[here][q] = <<"call", c>> /\ q \in Nat
      BY <2>5, <2>7, <1>3
    <3>3. PICK p \in DOMAIN fn.text[here] :
            fn.text[here][p] = <<"call", m>> /\ p <= pc /\ (m # op => p < pc)
      BY <2>3
    <3>4. c # m => q < p
      <4>1. \A x \in DOMAIN fn.text[here] : \A k :
              fn.text[here][x] = <<"call", k>> /\ k < m /\ k # 0 /\ Host(k) = Host(m) => x < p
        BY <1>1, <3>3, ListedIn
      <4>. QED
        BY <2>2, <2>3, <2>4, <3>1, <3>2, <4>1
    <3>5. \E x \in DOMAIN fn.text[here] : fn.text[here][x] = <<"call", c>> /\ x < pc
      <4>1. CASE c = m
        BY <3>3, <4>1
      <4>2. CASE c # m
        BY <1>3, <3>2, <3>3, <3>4, <4>2
      <4>. QED
        BY <4>1, <4>2
    <3>6. PICK x \in DOMAIN fn.text[here] : fn.text[here][x] = <<"call", c>> /\ x < pc
      BY <3>5
    <3>7. SUFFICES ASSUME ~ RanIn(t, <<"call", c>>) PROVE FALSE
      OBVIOUS
    <3>8. PICK i : Inner(<<"call", c>>, i) /\ ~ Inner(<<"call", op>>, i)
      BY <1>4, <3>6, <3>7
    <3>9. i \in Around(c) \ {c} /\ i \notin Around(op) \ {op}
      <4>1. \A k : <<"call", k>>[1] = "call" /\ <<"call", k>>[2] = k
        OBVIOUS
      <4>. QED
        BY <3>8, <4>1 DEF Inner, Within, Around
    <3>. QED
      BY <1>1, <2>2, <2>4, <3>9, AroundUp
  <2>. QED
    BY <2>6, <2>7
<1>6. ASSUME Mutates(op) \/ Selects(op), NEW j \in DOMAIN fn.compares,
             Dominates(fn.compares[j].block, Call(op).block)
      PROVE  RanIn(t, <<"compare", j>>)
  <2>. DEFINE b == fn.compares[j].block
  <2>1. b \in Blocks
    BY <1>1, CompareShape
  <2>2. PICK q \in DOMAIN fn.text[b] : fn.text[b][q] = <<"compare", j>>
    BY CompareStands
  <2>3. ~ InCallback(<<"compare", j>>) /\ \A i : ~ Inner(<<"compare", j>>, i)
    BY DEF InCallback, Inner, Within
  <2>4. CASE b # here
    <3>1. here \in CutFromEntry(b)
      BY <1>1, <1>2, <1>6, <2>1
    <3>. QED
      BY <2>1, <2>2, <2>3, <2>4, <3>1 DEF BehindBlocks
  <2>5. CASE b = here
    <3>1. q \in DOMAIN fn.text[here] /\ fn.text[here][q] = <<"compare", j>>
      BY <2>2, <2>5
    <3>2. q < pc
      <4>1. \A x \in DOMAIN fn.text[here] : \A k :
              fn.text[here][x] = <<"compare", k>> /\ (Mutates(op) \/ Selects(op)) => x < pc
        BY <1>1, ListedIn
      <4>. QED
        BY <1>6, <3>1, <4>1
    <3>. QED
      BY <1>4, <2>3, <3>1, <3>2
  <2>. QED
    BY <2>4, <2>5
<1>. QED
  BY <1>2, <1>5, <1>6 DEF BehindCall

LEMMA BehindFrame ==
  ASSUME vars' = vars
  PROVE  /\ Calls' = Calls /\ Blocks' = Blocks
         /\ Analysed' <=> Analysed
         /\ \A t, b, n : (BehindHere(t, b, n))' <=> BehindHere(t, b, n)
         /\ \A t, b : (BehindBlocks(t, b))' <=> BehindBlocks(t, b)
         /\ \A t, op : (BehindCall(t, op))' <=> BehindCall(t, op)
<1>1. fn' = fn /\ doms' = doms /\ reached' = reached
  BY DEF vars
<1>2. Calls' = Calls
  BY <1>1, HandlerFrame
<1>3. Blocks' = Blocks
  BY <1>1 DEF Blocks
<1>4. Analysed' <=> Analysed
  BY DEF Analysed, vars, FromEntry, CutFromEntry, CutFromExits, Blocks, Succ, Exits
<1>5. ASSUME NEW t, NEW b, NEW n PROVE (BehindHere(t, b, n))' <=> BehindHere(t, b, n)
  BY <1>1 DEF BehindHere, LeftBehind, Inner
<1>6. ASSUME NEW t, NEW b PROVE (BehindBlocks(t, b))' <=> BehindBlocks(t, b)
  BY <1>1, <1>3 DEF BehindBlocks, InCallback, Host, CutFromEntry, Succ, Blocks
<1>7. ASSUME NEW t, NEW op PROVE (BehindCall(t, op))' <=> BehindCall(t, op)
  BY <1>1, <1>2 DEF BehindCall, BeforeIn, Around, Call, Dominates, Mutates, Selects
<1>. QED
  BY <1>2, <1>3, <1>4, <1>5, <1>6, <1>7

-----------------------------------------------------------------------------
(* Every state: an execution has behind it what BehindInv says.            *)
LEMMA RanGrows ==
  ASSUME NEW t \in Seq(STRING \X Nat), NEW s \in STRING \X Nat
  PROVE  /\ Append(t, s) \in Seq(STRING \X Nat)
         /\ RanIn(Append(t, s), s)
         /\ \A x : RanIn(t, x) => RanIn(Append(t, s), x)
         /\ Append(t, s) # <<>> /\ Append(t, s)[Len(Append(t, s))] = s
<1>1. /\ Len(t) \in Nat /\ DOMAIN t = 1 .. Len(t)
      /\ Len(Append(t, s)) = Len(t) + 1 /\ DOMAIN Append(t, s) = 1 .. Len(t) + 1
      /\ Append(t, s)[Len(t) + 1] = s
      /\ \A k \in 1 .. Len(t) : Append(t, s)[k] = t[k]
      /\ Append(t, s) \in Seq(STRING \X Nat)
  OBVIOUS
<1>2. Len(Append(t, s)) # 0 /\ Len(<<>>) = 0
  BY <1>1
<1>3. RanIn(Append(t, s), s)
  BY <1>1 DEF RanIn
<1>4. ASSUME NEW x, RanIn(t, x) PROVE RanIn(Append(t, s), x)
  <2>1. PICK k \in 1 .. Len(t) : t[k] = x
    BY <1>1, <1>4 DEF RanIn
  <2>2. k \in 1 .. Len(t) + 1 /\ Append(t, s)[k] = x
    BY <1>1, <2>1
  <2>. QED
    BY <1>1, <2>2 DEF RanIn
<1>. QED
  BY <1>1, <1>2, <1>3, <1>4

LEMMA BehindGrows ==
  ASSUME NEW t, NEW u, \A s : RanIn(t, s) => RanIn(u, s)
  PROVE  /\ \A b, n : BehindHere(t, b, n) => BehindHere(u, b, n)
         /\ \A b : BehindBlocks(t, b) => BehindBlocks(u, b)
         /\ \A op : BehindCall(t, op) => BehindCall(u, op)
<1>1. \A b, n : BehindHere(t, b, n) => BehindHere(u, b, n)
  BY DEF BehindHere
<1>2. \A b : BehindBlocks(t, b) => BehindBlocks(u, b)
  BY DEF BehindBlocks
<1>3. \A op : BehindCall(t, op) => BehindCall(u, op)
  BY DEF BehindCall
<1>. QED
  BY <1>1, <1>2, <1>3

(* From one position of a block to a later one.                            *)
LEMMA BehindMovesOn ==
  ASSUME NEW t, NEW b, Len(fn.text[b]) \in Nat,
         NEW n \in Nat, NEW m \in Nat, n <= m, BehindHere(t, b, n),
         \A q \in n .. m - 1 : RanIn(t, fn.text[b][q]) \/ LeftBehind(b, q, m)
  PROVE  BehindHere(t, b, m)
<1>1. ASSUME NEW q, LeftBehind(b, q, n) PROVE LeftBehind(b, q, m)
  <2>1. \A r \in m .. Len(fn.text[b]) : r \in n .. Len(fn.text[b])
    OBVIOUS
  <2>. QED
    BY <1>1, <2>1 DEF LeftBehind
<1>2. \A q \in 1 .. m - 1 : q \in 1 .. n - 1 \/ q \in n .. m - 1
  OBVIOUS
<1>. QED
  BY <1>1, <1>2 DEF BehindHere

LEMMA BehindInvFrame ==
  ASSUME vars' = vars
  PROVE  BehindInv' <=>
           /\ Analysed /\ RunsAsListed(fn)
           /\ here' \in reached /\ pc' \in 1 .. Len(fn.text[here']) + 1
           /\ trace' \in Seq(STRING \X Nat)
           /\ BehindHere(trace', here', pc')
           /\ BehindBlocks(trace', here')
           /\ \A op \in Calls :
                trace' # <<>> /\ trace'[Len(trace')] = <<"call", op>> => BehindCall(trace', op)
<1>1. fn' = fn /\ reached' = reached
  BY DEF vars
<1>. QED
  BY <1>1, BehindFrame DEF BehindInv, BehindTypes, Now

LEMMA BehindInvInit == ScInit /\ RunsAsListed(fn) => BehindInv
<1>. SUFFICES ASSUME ScInit, RunsAsListed(fn) PROVE BehindInv
  OBVIOUS
<1>1. Analysed /\ here = fn.entry /\ pc = 1 /\ trace = <<>>
  BY DEF ScInit, RunInit
<1>2. /\ fn \in LoweredFn /\ reached = FromEntry
      /\ fn.entry \in reached /\ reached \subseteq Blocks /\ fn.entry \in Blocks
  BY <1>1, AnalysedDominance, FromEntryClosed, FnShape
<1>3. Len(fn.text[fn.entry]) \in Nat
  BY <1>2, TextOfBlock
<1>4. BehindTypes
  BY <1>1, <1>2, <1>3 DEF BehindTypes
<1>5. BehindHere(trace, here, pc)
  BY <1>1 DEF BehindHere
<1>6. BehindBlocks(trace, here)
  BY <1>1, <1>2, EntryNotDominated DEF BehindBlocks
<1>. QED
  BY <1>1, <1>4, <1>5, <1>6 DEF BehindInv, Now

LEMMA BehindStatement ==
  ASSUME BehindInv, RunStatement, vars' = vars
  PROVE  BehindInv'
<1>. DEFINE s == fn.text[here][pc]
            t == Append(trace, fn.text[here][pc])
<1>1. /\ Analysed /\ RunsAsListed(fn) /\ fn \in LoweredFn /\ here \in reached /\ here \in Blocks
      /\ trace \in Seq(STRING \X Nat)
  BY AnalysedDominance, FromEntryClosed DEF BehindInv, BehindTypes
<1>2. here' = here /\ pc' = pc + 1 /\ trace' = t
  BY DEF RunStatement, Text
<1>3. /\ Len(fn.text[here]) \in Nat /\ DOMAIN fn.text[here] = 1 .. Len(fn.text[here])
      /\ fn.text[here] \in Seq(STRING \X Nat)
  BY <1>1, TextOfBlock
<1>4. pc \in 1 .. Len(fn.text[here])
  BY <1>3 DEF BehindInv, BehindTypes, RunStatement, AtEnd, Text
<1>5. s \in STRING \X Nat
  BY <1>3, <1>4
<1>6. /\ t \in Seq(STRING \X Nat) /\ RanIn(t, s) /\ (\A x : RanIn(trace, x) => RanIn(t, x))
      /\ t # <<>> /\ t[Len(t)] = s
  BY <1>1, <1>5, RanGrows
<1>7. BehindHere(trace, here, pc) /\ BehindBlocks(trace, here)
  BY DEF BehindInv
<1>8. s = fn.text[here][pc]
  OBVIOUS
<1>. HIDE DEF t, s
<1>9. BehindHere(t, here, pc) /\ BehindBlocks(t, here)
  BY <1>6, <1>7, BehindGrows
<1>10. BehindHere(t, here, pc + 1)
  <2>1. \A q \in pc .. (pc + 1) - 1 : RanIn(t, fn.text[here][q])
    <3>1. \A q \in pc .. (pc + 1) - 1 : q = pc
      BY <1>4
    <3>. QED
      BY <3>1, <1>6, <1>8
  <2>2. pc \in Nat /\ pc + 1 \in Nat /\ pc <= pc + 1
    BY <1>4
  <2>. QED
    BY <1>3, <1>9, <2>1, <2>2, BehindMovesOn
<1>11. ASSUME NEW op \in Calls, s = <<"call", op>>
       PROVE  BehindCall(t, op)
  <2>1. BehindCall(trace, op)
    BY <1>1, <1>3, <1>4, <1>7, <1>8, <1>11, CallRuns
  <2>. QED
    BY <2>1, <1>6, BehindGrows
<1>12. pc + 1 \in 1 .. Len(fn.text[here]) + 1
  BY <1>3, <1>4
<1>. QED
  BY <1>1, <1>2, <1>6, <1>9, <1>10, <1>11, <1>12, BehindInvFrame

LEMMA BehindBranch ==
  ASSUME BehindInv, RunBranch, vars' = vars
  PROVE  BehindInv'
<1>1. /\ Analysed /\ RunsAsListed(fn) /\ fn \in LoweredFn /\ reached = FromEntry
      /\ here \in reached /\ here \in Blocks /\ reached \subseteq Blocks
      /\ trace \in Seq(STRING \X Nat)
  BY AnalysedDominance, FromEntryClosed DEF BehindInv, BehindTypes
<1>2. here' \in Succ(here) /\ pc' = 1 /\ trace' = trace
  BY DEF RunBranch
<1>3. here' \in reached /\ here' \in Blocks
  BY <1>1, <1>2, FromEntryClosed
<1>4. /\ Len(fn.text[here]) \in Nat /\ Len(fn.text[here']) \in Nat
      /\ DOMAIN fn.text[here] = 1 .. Len(fn.text[here])
  BY <1>1, <1>3, TextOfBlock
<1>5. pc = Len(fn.text[here]) + 1
  BY <1>4 DEF BehindInv, BehindTypes, RunBranch, AtEnd, Text
<1>6. ASSUME NEW q \in DOMAIN fn.text[here]
      PROVE  RanIn(trace, fn.text[here][q]) \/ InCallback(fn.text[here][q])
  <2>1. q \in 1 .. pc - 1
    BY <1>4, <1>5
  <2>2. RanIn(trace, fn.text[here][q]) \/ LeftBehind(here, q, pc)
    BY <2>1 DEF BehindInv, BehindHere
  <2>3. ASSUME NEW i, Inner(fn.text[here][q], i) PROVE InCallback(fn.text[here][q])
    <3>1. fn.text[here][q][1] = "call" /\ i \in Around(fn.text[here][q][2]) \ {fn.text[here][q][2]}
      BY <2>3 DEF Inner, Within, Around
    <3>2. Host(0) = 0
      BY DEF Host, HostIn
    <3>3. Host(fn.text[here][q][2]) # 0
      BY <3>1, <3>2 DEF Around, AroundIn, Host
    <3>. QED
      BY <3>1, <3>3 DEF InCallback
  <2>. QED
    BY <2>2, <2>3 DEF LeftBehind
<1>7. BehindBlocks(trace, here')
  <2>. SUFFICES ASSUME NEW a \in Blocks \ {here'}, here' \in CutFromEntry(a),
                       NEW q \in DOMAIN fn.text[a]
                PROVE  RanIn(trace, fn.text[a][q]) \/ InCallback(fn.text[a][q])
    BY DEF BehindBlocks
  <2>1. CASE a = here
    BY <2>1, <1>6
  <2>2. CASE a # here
    <3>1. here \in CutFromEntry(a)
      BY <2>2, <1>1, <1>2, <1>3, NotDominatedOn
    <3>. QED
      BY <2>2, <3>1 DEF BehindInv, BehindBlocks
  <2>. QED
    BY <2>1, <2>2
<1>8. BehindHere(trace, here', 1)
  BY DEF BehindHere
<1>9. 1 \in 1 .. Len(fn.text[here']) + 1
  BY <1>4
<1>10. \A op \in Calls :
         trace # <<>> /\ trace[Len(trace)] = <<"call", op>> => BehindCall(trace, op)
  BY DEF BehindInv, Now
<1>. QED
  BY <1>1, <1>2, <1>3, <1>7, <1>8, <1>9, <1>10, BehindInvFrame

LEMMA BehindSkip ==
  ASSUME BehindInv, SkipCallback
  PROVE  BehindInv'
<1>. DEFINE text == fn.text[here]
<1>1. /\ Analysed /\ RunsAsListed(fn) /\ fn \in LoweredFn /\ here \in reached /\ here \in Blocks
      /\ trace \in Seq(STRING \X Nat) /\ vars' = vars /\ here' = here /\ trace' = trace
  BY AnalysedDominance, FromEntryClosed DEF BehindInv, BehindTypes, SkipCallback
<1>2. /\ Len(text) \in Nat /\ DOMAIN text = 1 .. Len(text)
      /\ text \in Seq(STRING \X Nat)
  BY <1>1, TextOfBlock
<1>3. pc \in 1 .. Len(text) /\ pc \in DOMAIN text
  BY <1>2 DEF BehindInv, BehindTypes, SkipCallback, AtEnd, Text
<1>4. PICK i \in {Call(text[pc][2]).inside} \ {0} :
        /\ text[pc][1] = "call"
        /\ pc' = CHOOSE n \in pc .. Len(text) + 1 :
                   /\ \A m \in pc .. n - 1 : Inner(text[m], i)
                   /\ n > Len(text) \/ ~ Inner(text[n], i)
  BY DEF SkipCallback, Text
<1>5. PICK x : text[pc] = <<"call", x>>
  <2>1. text[pc] \in STRING \X Nat
    BY <1>2, <1>3
  <2>2. text[pc] = <<"call", text[pc][2]>>
    BY <1>4, <2>1
  <2>. QED
    BY <2>2
<1>6. x \in DOMAIN fn.calls /\ Call(x).block = here /\ x # 0 /\ i = Call(x).inside
  <2>1. x \in DOMAIN fn.calls /\ Call(x).block = here
    BY <1>1, <1>3, <1>5, ListedIn
  <2>2. text[pc][2] = x
    BY <1>5
  <2>. QED
    BY <1>1, <1>4, <2>1, <2>2, CallShape
<1>7. i = Host(x) /\ Inner(text[pc], i)
  <2>1. i = Host(x)
    BY <1>6 DEF Host, HostIn, Call
  <2>2. i \in Around(x) \ {x}
    BY <1>1, <1>4, <1>6, <2>1, AroundShape
  <2>. QED
    BY <1>5, <2>1, <2>2 DEF Inner, Within, Around
<1>8. PICK p \in DOMAIN text : text[p] = <<"call", i>> /\ p < pc
  <2>1. i \in DOMAIN fn.calls /\ Call(i).block = here
    BY <1>1, <1>4, <1>6, <1>7, HostShape, CallStands
  <2>2. PICK p \in DOMAIN text : text[p] = <<"call", i>>
    BY <1>1, <2>1, CallStands
  <2>3. text[p] = <<"call", Host(x)>>
    BY <1>7, <2>2
  <2>4. p < pc
    BY <1>1, <1>3, <1>5, <2>3, ListedIn
  <2>. QED
    BY <2>2, <2>4
<1>9. ASSUME NEW r \in DOMAIN text, Inner(text[r], i)
      PROVE  \A m \in p + 1 .. r : Inner(text[m], i)
  <2>1. text[r] \in STRING \X Nat
    BY <1>2
  <2>2. text[r] = <<"call", text[r][2]>>
    BY <1>9, <2>1 DEF Inner, Within
  <2>. DEFINE j == text[r][2]
  <2>. HIDE DEF j
  <2>3. text[r] = <<"call", j>>
    BY <2>2 DEF j
  <2>. QED
    BY <1>1, <1>8, <1>9, <2>3, ListedInside
<1>10. \E n \in pc .. Len(text) + 1 :
         /\ \A m \in pc .. n - 1 : Inner(text[m], i)
         /\ n > Len(text) \/ ~ Inner(text[n], i)
  <2>. DEFINE Ends_ == {n \in pc .. Len(text) + 1 : n > Len(text) \/ ~ Inner(text[n], i)}
  <2>1. Ends_ \in SUBSET Nat /\ Len(text) + 1 \in Ends_
    <3>1. Len(text) \in Nat /\ pc \in Nat /\ pc <= Len(text) + 1
      BY <1>2, <1>3
    <3>2. Len(text) + 1 \in pc .. Len(text) + 1 /\ Len(text) + 1 > Len(text)
      BY <3>1
    <3>. QED
      BY <3>1, <3>2
  <2>2. PICK n \in Ends_ : \A m \in Ends_ : n <= m
    <3>. HIDE DEF Ends_
    <3>. QED
      BY <2>1, LeastOf
  <2>3. n \in pc .. Len(text) + 1 /\ (n > Len(text) \/ ~ Inner(text[n], i))
    OBVIOUS
  <2>4. ASSUME NEW m \in pc .. n - 1 PROVE Inner(text[m], i)
    <3>1. m \in pc .. Len(text) + 1 /\ ~ (n <= m)
      BY <1>2, <1>3, <2>3
    <3>2. m \notin Ends_
      BY <2>2, <3>1
    <3>. QED
      BY <3>1, <3>2
  <2>. QED
    BY <2>3, <2>4
<1>11. /\ pc' \in pc .. Len(text) + 1
       /\ \A m \in pc .. pc' - 1 : Inner(text[m], i)
       /\ pc' > Len(text) \/ ~ Inner(text[pc'], i)
  <2>. HIDE DEF text
  <2>. QED
    BY <1>4, <1>10
<1>12. \A r \in pc' .. Len(text) : ~ Inner(text[r], i)
  <2>. SUFFICES ASSUME NEW r \in pc' .. Len(text), Inner(text[r], i) PROVE FALSE
    OBVIOUS
  <2>1. r \in DOMAIN text /\ pc' \in p + 1 .. r /\ ~ (pc' > Len(text))
    BY <1>2, <1>3, <1>8, <1>11
  <2>. QED
    BY <1>9, <1>11, <2>1
<1>13. BehindHere(trace, here, pc')
  <2>1. \A q \in pc .. pc' - 1 : LeftBehind(here, q, pc')
    BY <1>11, <1>12 DEF LeftBehind
  <2>2. pc \in Nat /\ pc' \in Nat /\ pc <= pc'
    BY <1>2, <1>3, <1>11
  <2>3. BehindHere(trace, here, pc)
    BY DEF BehindInv
  <2>. QED
    BY <1>2, <2>1, <2>2, <2>3, BehindMovesOn
<1>14. pc' \in 1 .. Len(fn.text[here]) + 1
  BY <1>2, <1>3, <1>11
<1>15. /\ BehindBlocks(trace, here)
       /\ \A op \in Calls :
            trace # <<>> /\ trace[Len(trace)] = <<"call", op>> => BehindCall(trace, op)
  BY DEF BehindInv, Now
<1>. QED
  BY <1>1, <1>13, <1>14, <1>15, BehindInvFrame

LEMMA BehindInvStep == BehindInv /\ [ScNext]_all => BehindInv'
<1>. SUFFICES ASSUME BehindInv, [ScNext]_all PROVE BehindInv'
  OBVIOUS
<1>1. CASE Execute
  <2>1. vars' = vars /\ RunStatement
    BY <1>1 DEF Execute
  <2>. QED
    BY <2>1, BehindStatement
<1>2. CASE Leave
  <2>1. vars' = vars /\ RunBranch
    BY <1>2 DEF Leave
  <2>. QED
    BY <2>1, BehindBranch
<1>3. CASE SkipCallback
  BY <1>3, BehindSkip
<1>4. CASE Carry \/ CarryAgain \/ Judge \/ Judged \/ UNCHANGED all
  <2>1. vars' = vars /\ here' = here /\ pc' = pc /\ trace' = trace
    BY <1>4 DEF Carry, CarryAgain, Judge, Judged, all, run
  <2>. QED
    BY <2>1, BehindInvFrame DEF BehindInv, BehindTypes, Now
<1>. QED
  BY <1>1, <1>2, <1>3, <1>4 DEF ScNext

LEMMA BehindInvariant == ScSpec /\ RunsAsListed(fn) => []BehindInv
BY BehindInvInit, BehindInvStep, PTL DEF ScSpec

-----------------------------------------------------------------------------
(* Every state: of an operation that was judged, something is reported or  *)
(* every key it is suspected for is.                                       *)
Suspects(n) ==
  IF fn.rule = "key" THEN Unrelated(n) ELSE UNION {Elsewhere(g, n) : g \in Questions}

Considered(reports, n) ==
  (\E s \in reports : s[2] = n) \/ \A k \in Suspects(n) : \E s \in reports : s[1] = k

JudgedInv ==
  /\ fn \in LoweredFn /\ op_ \in Nat \ {0}
  /\ \A n \in Calls : n < op_ => Considered(said, n)
  /\ op_ <= Len(fn.calls) + 1
  /\ stage = "carry" => op_ = 1
  /\ stage = "run" => op_ = Len(fn.calls) + 1

LEMMA KeysInFrame ==
  ASSUME vars' = vars, carries' = carries
  PROVE  /\ fn' = fn /\ doms' = doms /\ postDoms' = postDoms
         /\ Keys' = Keys /\ Calls' = Calls
         /\ \A V : (KeysIn(V))' = KeysIn(V)
         /\ \A i : (ArgsOf(i))' = ArgsOf(i) /\ (Call(i))' = Call(i)
         /\ \A b : (IsGuard(b))' <=> IsGuard(b)
         /\ \A a, b : (Dominates(a, b))' <=> Dominates(a, b)
<1>1. fn' = fn /\ doms' = doms /\ postDoms' = postDoms
  BY DEF vars
<1>2. Keys' = Keys /\ Calls' = Calls
  BY <1>1, HandlerFrame
<1>3. ASSUME NEW V PROVE (KeysIn(V))' = KeysIn(V)
  BY <1>1, <1>2 DEF KeysIn, Carries
<1>4. ASSUME NEW i PROVE (ArgsOf(i))' = ArgsOf(i) /\ (Call(i))' = Call(i)
  BY <1>1 DEF ArgsOf, Call
<1>5. ASSUME NEW b PROVE (IsGuard(b))' <=> IsGuard(b)
  BY <1>1 DEF IsGuard, BranchesTwoWays
<1>6. ASSUME NEW a, NEW b PROVE (Dominates(a, b))' <=> Dominates(a, b)
  BY <1>1 DEF Dominates
<1>. QED
  BY <1>1, <1>2, <1>3, <1>4, <1>5, <1>6

LEMMA UnrelatedFrame ==
  ASSUME vars' = vars, carries' = carries
  PROVE  \A op : (Unrelated(op))' = Unrelated(op)
<1>1. /\ fn' = fn /\ carries' = carries /\ Keys' = Keys /\ Calls' = Calls
      /\ \A V : (KeysIn(V))' = KeysIn(V)
      /\ \A i : (ArgsOf(i))' = ArgsOf(i) /\ (Call(i))' = Call(i)
      /\ \A b : (IsGuard(b))' <=> IsGuard(b)
      /\ \A a, b : (Dominates(a, b))' <=> Dominates(a, b)
  BY KeysInFrame
<1>2. \A i : (CarriesIdentity(i))' <=> CarriesIdentity(i)
  BY <1>1 DEF CarriesIdentity
<1>3. Gates' = Gates
  BY <1>1, <1>2 DEF Gates
<1>4. Covered' = Covered
  BY <1>1, <1>3 DEF Covered
<1>5. \A op : (GatedBy(op))' = GatedBy(op)
  BY <1>1, <1>3 DEF GatedBy
<1>6. \A op : (Unscoped(op))' = Unscoped(op)
  BY <1>1, <1>4 DEF Unscoped
<1>7. \A op, k : (Handed(op, k))' = Handed(op, k)
  BY <1>1 DEF Handed, Carries
<1>8. \A op, c : (CarriesScope(op, c))' <=> CarriesScope(op, c)
  BY <1>1, <1>4 DEF CarriesScope
<1>9. \A op : (ActorCompared(op))' <=> ActorCompared(op)
  BY <1>1 DEF ActorCompared
<1>10. \A op : (Mutates(op))' <=> Mutates(op)
  BY <1>1 DEF Mutates
<1>11. ChosenScope' <=> ChosenScope
  BY <1>1, <1>4 DEF ChosenScope, ContainerOf, Params
<1>12. \A op, k : (Related(op, k))' <=> Related(op, k)
  BY <1>1, <1>3, <1>4, <1>11 DEF Related, Precedes
<1>. QED
  BY <1>2, <1>4, <1>5, <1>6, <1>7, <1>8, <1>9, <1>10, <1>12 DEF Unrelated

LEMMA ElsewhereFrame ==
  ASSUME vars' = vars, carries' = carries
  PROVE  Questions' = Questions /\ \A g, op : (Elsewhere(g, op))' = Elsewhere(g, op)
<1>1. /\ fn' = fn /\ Keys' = Keys /\ Calls' = Calls
      /\ \A V : (KeysIn(V))' = KeysIn(V)
      /\ \A i : (ArgsOf(i))' = ArgsOf(i) /\ (Call(i))' = Call(i)
      /\ \A b : (IsGuard(b))' <=> IsGuard(b)
      /\ \A a, b : (Dominates(a, b))' <=> Dominates(a, b)
  BY KeysInFrame
<1>2. Accessors' = Accessors
  BY <1>1 DEF Accessors, Flows, InView, Host
<1>3. \A v : (AccessorsOf(v))' = AccessorsOf(v)
  BY <1>2 DEF AccessorsOf
<1>4. \A i : (Around(i))' = Around(i)
  BY <1>1 DEF Around
<1>5. ASSUME NEW op PROVE (AuthorityOf(op))' = AuthorityOf(op)
  <2>. DEFINE speaking == {c \in Around(op) : AccessorsOf(Call(c).recv) # {}}
  <2>1. speaking' = speaking
    BY <1>1, <1>3, <1>4
  <2>2. AuthorityOf(op) = IF speaking = {} THEN {}
                          ELSE AccessorsOf(Call(CHOOSE c \in speaking : \A d \in speaking : d <= c).recv)
    BY DEF AuthorityOf
  <2>3. (AuthorityOf(op))' = IF speaking' = {} THEN {}
           ELSE (AccessorsOf(Call(CHOOSE c \in speaking : \A d \in speaking : d <= c).recv))'
    BY DEF AuthorityOf
  <2>. DEFINE speaks == CHOOSE c \in speaking : \A d \in speaking : d <= c
  <2>4. speaks' = speaks
    BY <2>1
  <2>5. (AccessorsOf(Call(speaks).recv))' = AccessorsOf(Call(speaks).recv)
    <3>. HIDE DEF speaking
    <3>1. (Call(speaks).recv)' = Call(speaks).recv
      BY <1>1, <2>4 DEF Call
    <3>. QED
      BY <1>3, <3>1 DEF AccessorsOf
  <2>. QED
    BY <2>1, <2>2, <2>3, <2>5
<1>6. \A i, j : (BeforeIn(i, j))' <=> BeforeIn(i, j)
  BY <1>1, <1>4 DEF BeforeIn
<1>7. \A i : (OuterBlock(i))' = OuterBlock(i)
  BY <1>1, <1>4 DEF OuterBlock, Outermost
<1>8. Questions' = Questions
  BY <1>1, <1>3 DEF Questions, HandedKey
<1>9. \A v, used, base : (OtherOf(v, used, base))' <=> OtherOf(v, used, base)
  BY <1>3 DEF OtherOf
<1>10. \A op, used, base : (ContextRelated(op, used, base))' <=> ContextRelated(op, used, base)
  BY <1>1, <1>9 DEF ContextRelated
<1>11. \A g, op, k, used, base :
         (LookupRelated(g, op, k, used, base))' <=> LookupRelated(g, op, k, used, base)
  <2>1. \A c, used, base : (Ties(c, used, base))' <=> Ties(c, used, base)
    BY <1>1, <1>9 DEF Ties
  <2>2. ASSUME NEW g, NEW op, NEW k, NEW used, NEW base
        PROVE (LookupRelated(g, op, k, used, base))' <=> LookupRelated(g, op, k, used, base)
    <3>1. (\E c \in Calls \ {g, op} :
             BeforeIn(c, op) /\ k \in KeysIn(ArgsOf(c)) /\ Ties(c, used, base))'
          <=> \E c \in Calls \ {g, op} :
             BeforeIn(c, op) /\ k \in KeysIn(ArgsOf(c)) /\ Ties(c, used, base)
      BY <1>1, <1>6, <2>1
    <3>2. (\E j \in DOMAIN fn.compares :
             LET c == fn.compares[j]
             IN  /\ IsGuard(c.block) /\ Dominates(c.block, OuterBlock(op))
                 /\ k \in KeysIn({c.left, c.right})
                 /\ \E v \in {c.left, c.right} : OtherOf(v, used, base))'
          <=> \E j \in DOMAIN fn.compares :
             LET c == fn.compares[j]
             IN  /\ IsGuard(c.block) /\ Dominates(c.block, OuterBlock(op))
                 /\ k \in KeysIn({c.left, c.right})
                 /\ \E v \in {c.left, c.right} : OtherOf(v, used, base)
      BY <1>1, <1>7, <1>9
    <3>. QED
      BY <3>1, <3>2 DEF LookupRelated
  <2>. QED
    BY <2>2
<1>12. \A op : (Selects(op))' <=> Selects(op)
  BY <1>1 DEF Selects
<1>13. ASSUME NEW g, NEW op PROVE (Elsewhere(g, op))' = Elsewhere(g, op)
  <2>1. (AccessorsOf(Call(g).recv))' = AccessorsOf(Call(g).recv)
    <3>1. (Call(g).recv)' = Call(g).recv
      BY <1>1
    <3>. QED
      BY <1>3, <3>1
  <2>2. /\ (AuthorityOf(op))' = AuthorityOf(op)
        /\ (BeforeIn(g, op))' <=> BeforeIn(g, op)
        /\ (Selects(op))' <=> Selects(op)
        /\ (KeysIn(ArgsOf(op)))' = KeysIn(ArgsOf(op))
    BY <1>1, <1>5, <1>6, <1>12
  <2>3. \A used, base : (ContextRelated(op, used, base))' <=> ContextRelated(op, used, base)
    BY <1>10
  <2>4. \A k, used, base :
          (LookupRelated(g, op, k, used, base))' <=> LookupRelated(g, op, k, used, base)
    BY <1>11
  <2>. QED
    BY <2>1, <2>2, <2>3, <2>4 DEF Elsewhere
<1>. QED
  BY <1>8, <1>13

LEMMA ConsideredFrame ==
  ASSUME vars' = vars, carries' = carries
  PROVE  Calls' = Calls /\ \A reports, n : (Considered(reports, n))' <=> Considered(reports, n)
<1>1. \A n : (Suspects(n))' = Suspects(n)
  BY KeysInFrame, UnrelatedFrame, ElsewhereFrame DEF Suspects
<1>. QED
  BY <1>1, KeysInFrame DEF Considered

(* One operation is judged.                                                *)
LEMMA VerdictConsiders ==
  ASSUME fn \in LoweredFn, NEW op \in Calls
  PROVE  Considered(said \cup Verdict(op), op)
<1>1. CASE Doubts(op) # {}
  <2>1. PICK keys \in Doubts(op) : TRUE
    BY <1>1
  <2>2. <<CHOOSE k \in keys : \A x \in keys : k <= x, op>> \in Verdict(op)
    BY <2>1 DEF Verdict
  <2>3. \A k : <<k, op>>[2] = op
    OBVIOUS
  <2>. QED
    BY <2>2, <2>3 DEF Considered
<1>2. CASE Doubts(op) = {}
  <2>1. \A keys : Fresh(keys) = {} => \A k \in keys : \E s \in said : s[1] = k
    BY DEF Fresh
  <2>2. CASE fn.rule = "key"
    <3>1. Fresh(Unrelated(op)) = {}
      BY <1>2, <2>2 DEF Doubts
    <3>. QED
      BY <2>1, <2>2, <3>1 DEF Considered, Suspects
  <2>3. CASE fn.rule # "key"
    <3>. DEFINE leaving == {g \in Questions : Fresh(Elsewhere(g, op)) # {}}
    <3>1. {g \in leaving : \A y \in leaving : g <= y} = {}
      BY <1>2, <2>3 DEF Doubts
    <3>2. leaving \in SUBSET Nat
      BY CallShape DEF Questions, Calls
    <3>3. leaving = {}
      <4>. HIDE DEF leaving
      <4>. QED
        BY <3>1, <3>2, LeastOf
    <3>4. \A g \in Questions : Fresh(Elsewhere(g, op)) = {}
      BY <3>3
    <3>. QED
      BY <2>1, <2>3, <3>4 DEF Considered, Suspects
  <2>. QED
    BY <2>2, <2>3
<1>. QED
  BY <1>1, <1>2

LEMMA JudgedInvFrame ==
  ASSUME vars' = vars, carries' = carries
  PROVE  JudgedInv' <=>
           /\ fn \in LoweredFn /\ op_' \in Nat \ {0}
           /\ \A n \in Calls : n < op_' => Considered(said', n)
           /\ op_' <= Len(fn.calls) + 1
           /\ stage' = "carry" => op_' = 1
           /\ stage' = "run" => op_' = Len(fn.calls) + 1
<1>1. fn' = fn /\ Calls' = Calls /\ \A reports, n : (Considered(reports, n))' <=> Considered(reports, n)
  BY ConsideredFrame DEF vars
<1>2. \A n : (Considered(said, n))' <=> Considered(said', n)
  BY <1>1
<1>. QED
  BY <1>1, <1>2 DEF JudgedInv

LEMMA CallNumbers ==
  ASSUME fn \in LoweredFn
  PROVE  Calls \subseteq Nat \ {0} /\ Len(fn.calls) \in Nat /\ Calls \subseteq 1 .. Len(fn.calls)
BY CallShape, EdgeNumbers DEF Calls

LEMMA JudgedInvInit == ScInit => JudgedInv
<1>. SUFFICES ASSUME ScInit PROVE JudgedInv
  OBVIOUS
<1>1. fn \in LoweredFn /\ op_ = 1 /\ stage = "carry"
  BY DEF ScInit, Analysed
<1>2. (\A n \in Calls : ~ (n < 1)) /\ 1 <= Len(fn.calls) + 1
  BY <1>1, CallNumbers
<1>. QED
  BY <1>1, <1>2 DEF JudgedInv

LEMMA JudgedInvStep == JudgedInv /\ [ScNext]_all => JudgedInv'
<1>. SUFFICES ASSUME JudgedInv, [ScNext]_all PROVE JudgedInv'
  OBVIOUS
<1>1. vars' = vars /\ fn' = fn
  BY DEF ScNext, all, vars, Carry, CarryAgain, Judge, Judged, Execute, Leave, SkipCallback
<1>2. fn \in LoweredFn /\ op_ \in Nat \ {0} /\ Calls \subseteq Nat \ {0} /\ Len(fn.calls) \in Nat
  BY CallNumbers DEF JudgedInv
<1>3. CASE Carry \/ CarryAgain
  <2>1. /\ op_ = 1 /\ op_' = op_ /\ stage' # "run" /\ (stage' = "carry" => op_' = 1)
    BY <1>3 DEF Carry, CarryAgain, JudgedInv
  <2>2. Calls' = Calls
    BY <1>1, HandlerFrame
  <2>3. \A n \in Calls' : ~ (n < op_')
    BY <1>2, <2>1, <2>2
  <2>4. op_' <= Len(fn'.calls) + 1
    BY <1>1, <1>2, <2>1
  <2>. QED
    BY <1>1, <1>2, <2>1, <2>3, <2>4 DEF JudgedInv
<1>4. CASE Judge
  <2>1. /\ carries' = carries /\ stage' = "judge" /\ op_' = op_ + 1 /\ op_ <= Len(fn.calls)
        /\ said' = said \cup Verdict(op_)
    BY <1>4 DEF Judge
  <2>2. ASSUME NEW n \in Calls, n < op_ + 1 PROVE Considered(said', n)
    <3>1. CASE n = op_
      BY <1>2, <2>1, <3>1, VerdictConsiders
    <3>2. CASE n # op_
      <4>1. Considered(said, n)
        BY <1>2, <2>2, <3>2 DEF JudgedInv
      <4>. QED
        BY <2>1, <4>1 DEF Considered
    <3>. QED
      BY <3>1, <3>2
  <2>3. \A n \in Calls : n < op_' => Considered(said', n)
    BY <2>1, <2>2
  <2>4. op_' \in Nat \ {0} /\ op_' <= Len(fn.calls) + 1
    BY <1>2, <2>1
  <2>. QED
    BY <1>1, <1>2, <2>1, <2>3, <2>4, JudgedInvFrame
<1>5. CASE Judged
  <2>1. /\ carries' = carries /\ stage' = "run" /\ op_' = op_ /\ said' = said
        /\ op_ > Len(fn.calls)
    BY <1>5 DEF Judged
  <2>2. op_ = Len(fn.calls) + 1
    BY <1>2, <2>1 DEF JudgedInv
  <2>. QED
    BY <1>1, <1>2, <2>1, <2>2, JudgedInvFrame DEF JudgedInv
<1>6. CASE Execute \/ Leave \/ SkipCallback \/ UNCHANGED all
  <2>1. carries' = carries /\ op_' = op_ /\ said' = said /\ stage' = stage
    BY <1>6 DEF Execute, Leave, SkipCallback, all
  <2>. QED
    BY <1>1, <2>1, JudgedInvFrame DEF JudgedInv
<1>. QED
  BY <1>3, <1>4, <1>5, <1>6 DEF ScNext

LEMMA JudgedInvariant == ScSpec => []JudgedInv
BY JudgedInvInit, JudgedInvStep, PTL DEF ScSpec
-----------------------------------------------------------------------------
(* The outermost call around an operation, and what comes before it.       *)
LEMMA OutermostStands ==
  ASSUME fn \in LoweredFn, NEW op \in Calls
  PROVE  Outermost(op) \in Around(op) /\ Call(Outermost(op)).inside = 0
<1>. DEFINE h1 == Host(op)
            h2 == Host(h1)
            h3 == Host(h2)
<1>1. op \in DOMAIN fn.calls /\ Host(h3) = 0 /\ op # 0
  BY InViewShort, CallShape
<1>2. Around(op) = {op, h1, h2, h3} \ {0}
  BY <1>1, AroundShape
<1>3. \A m \in Around(op) : Host(m) = Call(m).inside
  BY <1>2 DEF Host, HostIn, Call
<1>4. \E m \in Around(op) : Host(m) = 0
  <2>1. CASE h1 = 0
    BY <1>1, <1>2, <2>1
  <2>2. CASE h1 # 0 /\ h2 = 0
    BY <1>2, <2>2
  <2>3. CASE h1 # 0 /\ h2 # 0 /\ h3 = 0
    BY <1>2, <2>3
  <2>4. CASE h1 # 0 /\ h2 # 0 /\ h3 # 0
    BY <1>1, <1>2, <2>4
  <2>. QED
    BY <2>1, <2>2, <2>3, <2>4
<1>5. \E m \in Around(op) : Call(m).inside = 0
  BY <1>3, <1>4
<1>. QED
  BY <1>5 DEF Outermost

(* A block no way avoids dominates.                                        *)
LEMMA EveryWayDominates ==
  ASSUME Analysed, NEW a \in Blocks, NEW b \in reached, b \in CutFromEntry(a)
  PROVE  Dominates(a, b)
<1>1. fn \in LoweredFn /\ reached = FromEntry /\ b \in Blocks
  BY AnalysedDominance, FromEntryClosed
<1>2. PICK T : EntryRegion(T, a) /\ b \notin T
  BY CutFromEntryRegion
<1>3. a \in reached
  <2>. SUFFICES ASSUME a \notin FromEntry PROVE FALSE
    BY <1>1
  <2>. DEFINE S == T \cap FromEntry
  <2>1. S \in SUBSET Blocks /\ fn.entry \in S /\ \A x \in S : Succ(x) \subseteq S
    BY <1>1, <1>2, FromEntryClosed DEF EntryRegion
  <2>2. FromEntry \subseteq S
    <3>. HIDE DEF S
    <3>. QED
      BY <1>1, <2>1, FromEntryClosed
  <2>. QED
    BY <1>1, <1>2, <2>2
<1>. QED
  BY <1>1, <1>3, AnalysedDominance

LEMMA OuterBlockIs ==
  ASSUME fn \in LoweredFn, RunsAsListed(fn), NEW op \in Calls
  PROVE  OuterBlock(op) = Call(op).block
BY OutermostStands, InViewShort, AroundStands DEF OuterBlock

LEMMA EveryWayIsBefore ==
  ASSUME Analysed, RunsAsListed(fn), NEW g \in Questions, NEW op \in Calls,
         Call(op).block \in reached, CalledOnEveryWay(g, op)
  PROVE  BeforeIn(g, op)
<1>1. fn \in LoweredFn
  BY DEF Analysed
<1>. DEFINE m == Outermost(op)
<1>2. m \in Around(op) /\ Call(m).inside = 0 /\ op \in DOMAIN fn.calls
  BY <1>1, OutermostStands, InViewShort
<1>3. m \in DOMAIN fn.calls /\ Call(m).block = Call(op).block /\ OuterBlock(op) = Call(op).block
  BY <1>1, <1>2, AroundStands, OuterBlockIs
<1>4. g \in DOMAIN fn.calls /\ Call(g).inside = 0 /\ Call(g).block \in Blocks /\ Call(op).block \in Blocks
      /\ g \in Nat \ {0} /\ m \in Nat \ {0}
  BY <1>1, <1>2, <1>3, CallShape DEF Questions, Calls
<1>5. CASE Call(g).block # OuterBlock(op)
  <2>1. Call(op).block \in CutFromEntry(Call(g).block)
    BY <1>3, <1>5 DEF CalledOnEveryWay, OnEveryWay
  <2>2. Dominates(Call(g).block, Call(m).block)
    BY <1>3, <1>4, <2>1, EveryWayDominates
  <2>. QED
    BY <1>2, <1>3, <1>4, <1>5, <2>2 DEF BeforeIn
<1>6. CASE Call(g).block = OuterBlock(op)
  <2>. DEFINE b == OuterBlock(op)
  <2>1. PICK p \in DOMAIN fn.text[b], q \in DOMAIN fn.text[b] :
          p <= q /\ fn.text[b][p] = <<"call", g>> /\ fn.text[b][q] = <<"call", m>>
    BY <1>6 DEF CalledOnEveryWay
  <2>2. Host(g) = 0 /\ Host(m) = 0
    BY <1>2, <1>4 DEF Host, HostIn, Call
  <2>3. b \in Blocks /\ p \in Nat /\ q \in Nat
    BY <1>1, <1>3, <1>4, TextOfBlock
  <2>4. m < g => q < p
    <3>1. m # 0 /\ Host(m) = Host(g)
      BY <1>4, <2>2
    <3>. HIDE DEF b, m
    <3>. QED
      BY <1>1, <2>1, <2>3, <3>1, ListedIn
  <2>5. g <= m
    BY <1>4, <2>1, <2>3, <2>4
  <2>. QED
    BY <1>2, <1>3, <1>4, <1>6, <2>5 DEF BeforeIn, m
<1>. QED
  BY <1>5, <1>6

(* A key an operation is handed, it is handed as some argument carries it. *)
LEMMA HandedIsCarried ==
  ASSUME fn \in LoweredFn, NEW op \in Calls, NEW k \in KeysIn(ArgsOf(op))
  PROVE  Handed(op, k) # Absent
<1>. DEFINE At == {n \in DOMAIN Call(op).args : Carries(Call(op).args[n], k)}
<1>1. At \subseteq Nat /\ At # {}
  <2>1. op \in DOMAIN fn.calls
    BY DEF Calls
  <2>2. Call(op).args \in Seq(Value)
    BY <2>1, CallShape
  <2>3. DOMAIN Call(op).args = 1 .. Len(Call(op).args) /\ Len(Call(op).args) \in Nat
    BY <2>2
  <2>4. \E v \in ArgsOf(op) : Carries(v, k)
    BY DEF KeysIn
  <2>5. \E n \in DOMAIN Call(op).args : Carries(Call(op).args[n], k)
    BY <2>4 DEF ArgsOf
  <2>. QED
    BY <2>3, <2>5
<1>. DEFINE first == CHOOSE n \in At : \A j \in At : n <= j
<1>2. first \in At
  <2>. HIDE DEF At
  <2>. QED
    BY <1>1, LeastOf
<1>3. Handed(op, k) = carries[Call(op).args[first]][k]
  BY DEF Handed
<1>. QED
  BY <1>2, <1>3 DEF Carries

-----------------------------------------------------------------------------
(* Where an operation is judged: the graph, what lies behind the execution *)
(* and what was reported.                                                  *)
LEMMA KeyRelationHolds ==
  ASSUME BehindInv, JudgedInv
  PROVE  UnrelatedRecordIsReported
<1>1. Analysed /\ RunsAsListed(fn) /\ fn \in LoweredFn
  BY DEF BehindInv, JudgedInv
<1>. SUFFICES ASSUME fn.rule = "key", stage = "run", NEW op \in Calls,
                     Now(<<"call", op>>), Mutates(op), ~ CarriesIdentity(op), Covered # {},
                     NEW g \in Gates \ {op}, OnEveryWay(Call(g).block, op),
                     NEW k \in Unscoped(op),
                     ~ Reports(op), \A s \in said : s[1] # k
              PROVE  \/ \E v \in ArgsOf(op), c \in Covered :
                          Handed(op, k) # Absent /\ carries[v][c] = Handed(op, k)
                     \/ \E c \in Calls \ {op} :
                          /\ RanCall(c) /\ ~ ChosenScope
                          /\ k \in KeysIn(ArgsOf(c)) /\ KeysIn(ArgsOf(c)) \cap Covered # {}
                     \/ \E j \in DOMAIN fn.compares :
                          LET sides == {fn.compares[j].left, fn.compares[j].right}
                          IN  /\ RanCompare(j)
                              /\ \/ sides \cap fn.identity # {}
                                 \/ k \in KeysIn(sides) /\ KeysIn(sides) \cap Covered # {}
  BY DEF UnrelatedRecordIsReported
<1>2. BehindCall(trace, op)
  BY DEF BehindInv
<1>3. op \in 1 .. Len(fn.calls) /\ op_ = Len(fn.calls) + 1 /\ Len(fn.calls) \in Nat
  BY <1>1, CallNumbers DEF JudgedInv
<1>4. k \notin Unrelated(op)
  <2>1. op < op_
    BY <1>3
  <2>2. Considered(said, op)
    BY <2>1 DEF JudgedInv
  <2>. QED
    BY <2>2 DEF Considered, Suspects, Reports
<1>5. GatedBy(op) # {}
  <2>1. Call(g).block \in Blocks /\ g \in Gates
    BY <1>1, CallShape DEF Gates, Calls
  <2>2. Call(op).block \in CutFromEntry(Call(g).block)
    BY <1>1, OuterBlockIs DEF OnEveryWay
  <2>3. Dominates(Call(g).block, Call(op).block)
    BY <1>1, <1>2, <2>1, <2>2, EveryWayDominates DEF BehindCall
  <2>. QED
    BY <2>1, <2>3 DEF GatedBy
<1>6. ActorCompared(op) \/ CarriesScope(op, Handed(op, k)) \/ Related(op, k)
  BY <1>4, <1>5 DEF Unrelated
<1>7. \A j \in DOMAIN fn.compares :
        Dominates(fn.compares[j].block, Call(op).block) => RanCompare(j)
  BY <1>2 DEF BehindCall, RanCompare, Ran, RanIn
<1>8. \A c \in Calls \ {op} : BeforeIn(c, op) => RanCall(c)
  BY <1>2 DEF BehindCall, RanCall, Ran, RanIn
<1>9. CASE ActorCompared(op)
  <2>1. PICK j \in DOMAIN fn.compares :
          /\ Dominates(fn.compares[j].block, Call(op).block)
          /\ {fn.compares[j].left, fn.compares[j].right} \cap fn.identity # {}
    BY <1>9 DEF ActorCompared
  <2>. QED
    BY <1>7, <2>1
<1>10. CASE CarriesScope(op, Handed(op, k))
  BY <1>1, <1>10, HandedIsCarried DEF CarriesScope, Unscoped
<1>11. CASE Related(op, k)
  <2>1. CASE ~ ChosenScope /\ \E c \in Calls \ (Gates \cup {op}) :
               /\ Precedes(c, op)
               /\ k \in KeysIn(ArgsOf(c)) /\ KeysIn(ArgsOf(c)) \cap Covered # {}
    <3>1. PICK c \in Calls \ (Gates \cup {op}) :
               /\ Precedes(c, op)
               /\ k \in KeysIn(ArgsOf(c)) /\ KeysIn(ArgsOf(c)) \cap Covered # {}
      BY <2>1
    <3>2. Call(c).inside = 0 /\ Call(op).inside = 0 /\ c \in Nat /\ op \in Nat /\ op \in Around(op)
      BY <1>1, <1>3, CallShape, AroundShape DEF Calls, InView
    <3>3. BeforeIn(c, op)
      BY <3>1, <3>2 DEF Precedes, BeforeIn
    <3>. QED
      BY <1>8, <2>1, <3>1, <3>3
  <2>2. CASE \E j \in DOMAIN fn.compares :
               LET c == fn.compares[j]
                   both == KeysIn({c.left, c.right})
               IN  /\ Dominates(c.block, Call(op).block) /\ IsGuard(c.block)
                   /\ k \in both /\ both \cap Covered # {}
    BY <1>7, <2>2
  <2>. QED
    BY <1>11, <2>1, <2>2 DEF Related
<1>. QED
  BY <1>6, <1>9, <1>10, <1>11

LEMMA AuthorityRelationHolds ==
  ASSUME BehindInv, JudgedInv
  PROVE  OtherAuthorityIsReported
<1>1. Analysed /\ RunsAsListed(fn) /\ fn \in LoweredFn
  BY DEF BehindInv, JudgedInv
<1>. SUFFICES ASSUME fn.rule = "accessor", stage = "run", NEW op \in Calls,
                     Now(<<"call", op>>), Selects(op), AuthorityOf(op) # {},
                     NEW g \in Questions \ {op},
                     AccessorsOf(Call(g).recv) \cap AuthorityOf(op) = {},
                     SharedBases(AccessorsOf(Call(g).recv), AuthorityOf(op)) # {},
                     CalledOnEveryWay(g, op),
                     NEW k \in KeysIn(ArgsOf(op)),
                     ~ Reports(op), \A s \in said : s[1] # k
              PROVE  \E b \in SharedBases(AccessorsOf(Call(g).recv), AuthorityOf(op)) :
                       \/ ContextRelated(op, AuthorityOf(op), b)
                       \/ \E c \in Calls \ {op} :
                            RanCall(c) /\ k \in KeysIn(ArgsOf(c)) /\ Ties(c, AuthorityOf(op), b)
                       \/ \E j \in DOMAIN fn.compares :
                            RanCompare(j) /\ k \in KeysIn({fn.compares[j].left, fn.compares[j].right})
  BY DEF OtherAuthorityIsReported
<1>2. BehindCall(trace, op)
  BY DEF BehindInv
<1>3. op \in 1 .. Len(fn.calls) /\ op_ = Len(fn.calls) + 1 /\ Len(fn.calls) \in Nat
  BY <1>1, CallNumbers DEF JudgedInv
<1>4. k \notin Elsewhere(g, op)
  <2>1. op < op_
    BY <1>3
  <2>2. Considered(said, op) /\ fn.rule # "key"
    BY <2>1 DEF JudgedInv
  <2>. QED
    BY <2>2 DEF Considered, Suspects, Reports
<1>5. BeforeIn(g, op)
  BY <1>1, <1>2, EveryWayIsBefore DEF BehindCall
<1>. DEFINE used   == AuthorityOf(op)
            shared == SharedBases(AccessorsOf(Call(g).recv), used)
            base   == CHOOSE b \in shared : \A c \in shared : b <= c
<1>6. base \in shared
  <2>1. shared \subseteq Nat
    BY ValueShape DEF SharedBases
  <2>. HIDE DEF shared
  <2>. QED
    BY <2>1, LeastOf DEF shared
<1>7. ContextRelated(op, used, base) \/ LookupRelated(g, op, k, used, base)
  BY <1>4, <1>5 DEF Elsewhere
<1>. HIDE DEF base
<1>8. CASE LookupRelated(g, op, k, used, base)
  <2>1. \/ \E c \in Calls \ {g, op} :
             BeforeIn(c, op) /\ k \in KeysIn(ArgsOf(c)) /\ Ties(c, used, base)
        \/ \E j \in DOMAIN fn.compares :
             /\ Dominates(fn.compares[j].block, OuterBlock(op))
             /\ k \in KeysIn({fn.compares[j].left, fn.compares[j].right})
    BY <1>8 DEF LookupRelated
  <2>2. \A j \in DOMAIN fn.compares :
          Dominates(fn.compares[j].block, OuterBlock(op)) => RanCompare(j)
    BY <1>1, <1>2, OuterBlockIs DEF BehindCall, RanCompare, Ran, RanIn
  <2>3. \A c \in Calls \ {op} : BeforeIn(c, op) => RanCall(c)
    BY <1>2 DEF BehindCall, RanCall, Ran, RanIn
  <2>. QED
    BY <1>6, <2>1, <2>2, <2>3
<1>. QED
  BY <1>6, <1>7, <1>8

(* Whose record an operation reaches is settled before it runs or is       *)
(* reported (scope.go:514, authority.go:374), in every execution of every  *)
(* handler that runs its statements as they are listed.                    *)
THEOREM UnownedCorrect == ScSpec /\ RunsAsListed(fn) => []UnownedRecordIsReported
<1>1. BehindInv /\ JudgedInv => UnownedRecordIsReported
  BY KeyRelationHolds, AuthorityRelationHolds DEF UnownedRecordIsReported
<1>. QED
  BY <1>1, BehindInvariant, JudgedInvariant, PTL

-----------------------------------------------------------------------------
(* An application, as Declared is handed it.                               *)
Bodies ==
  [kind : [Local -> {"param", "property", "local"}],
   base : [Local -> Local \cup {0}], self : Local \cup {0},
   leaf : [Local -> STRING], head : [Local -> STRING],
   container : [Local -> STRING], keyed : SUBSET Local,
   identity : SUBSET Local, steps : Seq(FlowForms \cup CallForms)]

LEMMA ViewShape ==
  ASSUME app \in Applications, NEW v \in DOMAIN app.views
  PROVE  /\ ViewAt(v).framework \in BOOLEAN /\ ViewAt(v).relation \in BOOLEAN
         /\ ViewAt(v).authorizes \subseteq STRING
         /\ ViewAt(v).selects \in Seq(DeclaredKeys) /\ ViewAt(v).constrains \in Seq(DeclaredKeys)
         /\ ViewAt(v).methods \in Seq(DOMAIN app.bodies)
<1>. DEFINE Shapes == [framework : BOOLEAN, authorizes : SUBSET STRING,
                       selects : Seq(DeclaredKeys), constrains : Seq(DeclaredKeys),
                       resolves : Seq([by : STRING, key : STRING]),
                       relation : BOOLEAN, methods : Seq(DOMAIN app.bodies)]
<1>1. app.views \in Seq(Shapes)
  BY ApplicationAssumption
<1>. HIDE DEF Shapes
<1>2. app.views[v] \in Shapes
  BY <1>1
<1>. QED
  BY <1>2 DEF Shapes, ViewAt

LEMMA ViewsListed ==
  ASSUME app \in Applications
  PROVE  Len(app.views) \in Nat /\ DOMAIN app.views = 1 .. Len(app.views)
<1>. DEFINE Shapes == [framework : BOOLEAN, authorizes : SUBSET STRING,
                       selects : Seq(DeclaredKeys), constrains : Seq(DeclaredKeys),
                       resolves : Seq([by : STRING, key : STRING]),
                       relation : BOOLEAN, methods : Seq(DOMAIN app.bodies)]
<1>1. app.views \in Seq(Shapes)
  BY ApplicationAssumption
<1>. HIDE DEF Shapes
<1>. QED
  BY <1>1

LEMMA BodyShape ==
  ASSUME app \in Applications, NEW v \in DOMAIN app.views, NEW m \in DOMAIN ViewAt(v).methods
  PROVE  BodyOf(v, m) \in Bodies
<1>1. app.bodies \in Seq(Bodies)
  BY ApplicationAssumption DEF Bodies
<1>. HIDE DEF Bodies
<1>2. ViewAt(v).methods[m] \in DOMAIN app.bodies
  <2>1. ViewAt(v).methods \in Seq(DOMAIN app.bodies)
    BY ViewShape
  <2>. QED
    BY <2>1
<1>. QED
  BY <1>1, <1>2 DEF BodyOf

LEMMA StepShape ==
  ASSUME NEW b \in Bodies, NEW i \in DOMAIN b.steps
  PROVE  \/ /\ b.steps[i].op = "call" /\ b.steps[i].on \in Local \cup {0}
            /\ b.steps[i].args \subseteq Local /\ b.steps[i].result \in Local \cup {0}
         \/ /\ b.steps[i].op \in {"assign", "enclose", "property"}
            /\ b.steps[i].from \in Local /\ b.steps[i].to \in Local
<1>. DEFINE Forms == FlowForms \cup CallForms
<1>1. b.steps \in Seq(Forms)
  BY DEF Bodies
<1>. HIDE DEF Forms
<1>2. b.steps[i] \in Forms
  BY <1>1
<1>. QED
  BY <1>2 DEF Forms, FlowForms, CallForms

LEMMA StepNumbers ==
  ASSUME NEW b \in Bodies
  PROVE  Len(b.steps) \in Nat /\ DOMAIN b.steps = 1 .. Len(b.steps)
<1>. DEFINE Forms == FlowForms \cup CallForms
<1>1. b.steps \in Seq(Forms)
  BY DEF Bodies
<1>. HIDE DEF Forms
<1>. QED
  BY <1>1

LEMMA StepReads ==
  ASSUME NEW b \in Bodies, NEW i \in DOMAIN b.steps
  PROVE  /\ Target(b.steps[i]) \in Local \cup {0} /\ ReadBy(b.steps[i]) \subseteq Local
         /\ Keeps(b.steps[i]) \subseteq Local
         /\ b.steps[i].op = "call" => OperandsOf(b.steps[i]) = ReadBy(b.steps[i])
BY StepShape DEF Target, ReadBy, Keeps, OperandsOf

LEMMA SourcesAreValues ==
  ASSUME NEW view, NEW b \in Bodies
  PROVE  SourcesOf(view, b) \subseteq Local
<1>1. b.keyed \subseteq Local /\ b.identity \subseteq Local
  BY DEF Bodies
<1>2. \A c \in CallSites(b) : b.steps[c].result \in Local \cup {0}
  BY StepShape DEF CallSites
<1>3. RequestFields(b) \subseteq Local
  BY <1>1 DEF RequestFields
<1>4. RelatedSources(view, b) \subseteq Local
  BY <1>1, <1>2 DEF RelatedSources
<1>. QED
  BY <1>3, <1>4 DEF SourcesOf

-----------------------------------------------------------------------------
(* The edges of a method and where they lead.                              *)
LEMMA HandsOfStep ==
  ASSUME NEW b \in Bodies, NEW h
  PROVE  h \in HandsOn(b) <=>
           \E i \in DOMAIN b.steps :
             /\ b.steps[i].op # "property" /\ Target(b.steps[i]) # 0
             /\ \E u \in ReadBy(b.steps[i]) : h = <<u, Target(b.steps[i])>>
<1>. DEFINE Of(i) ==
       IF b.steps[i].op = "call" THEN OperandsOf(b.steps[i]) \X ({b.steps[i].result} \ {0})
       ELSE IF b.steps[i].op = "property" THEN {}
       ELSE {<<b.steps[i].from, b.steps[i].to>>}
<1>1. HandsOn(b) = UNION {Of(i) : i \in DOMAIN b.steps}
  BY DEF HandsOn
<1>2. ASSUME NEW i \in DOMAIN b.steps
      PROVE  h \in Of(i) <=>
             /\ b.steps[i].op # "property" /\ Target(b.steps[i]) # 0
             /\ \E u \in ReadBy(b.steps[i]) : h = <<u, Target(b.steps[i])>>
  <2>1. CASE b.steps[i].op = "call"
    BY <2>1 DEF Target, ReadBy
  <2>2. CASE b.steps[i].op # "call"
    <3>1. b.steps[i].to # 0
      BY <2>2, StepShape, LocalAssumption
    <3>. QED
      BY <2>2, <3>1 DEF Target, ReadBy
  <2>. QED
    BY <2>1, <2>2
<1>. HIDE DEF Of
<1>. QED
  BY <1>1, <1>2

LEMMA LeadsFromItself ==
  ASSUME NEW b, NEW k \in Local
  PROVE  k \in LeadsFrom(b, k)
BY DEF LeadsFrom

LEMMA LeadsOnward ==
  ASSUME NEW b, NEW k, NEW u \in LeadsFrom(b, k), NEW v \in Local, <<u, v>> \in HandsOn(b)
  PROVE  v \in LeadsFrom(b, k)
<1>. SUFFICES ASSUME NEW S \in SUBSET Local, k \in S,
                     \A h \in HandsOn(b) : h[1] \in S => h[2] \in S
              PROVE  v \in S
  BY DEF LeadsFrom
<1>1. u \in S
  BY DEF LeadsFrom
<1>2. <<u, v>>[1] \in S => <<u, v>>[2] \in S
  OBVIOUS
<1>. QED
  BY <1>1, <1>2

LEMMA LeadsInto ==
  ASSUME NEW b, NEW k, NEW u \in LeadsFrom(b, k), NEW S \in SUBSET Local, k \in S,
         \A h \in HandsOn(b) : h[1] \in S => h[2] \in S
  PROVE  u \in S
BY DEF LeadsFrom

-----------------------------------------------------------------------------
(* What a run has made of its values so far: a source is in a value only   *)
(* where edges lead it, every source written so far is in its own value,   *)
(* and the statements that ran handed on what they read.                   *)
ServesWell ==
  /\ app \in Applications /\ ServedAsWritten(app)
  /\ view_ \in 1 .. Len(app.views) + 1 /\ step_ \in Nat
  /\ atLine \in Nat \ {0}
  /\ request.view = 0 => request.method = 0 /\ atLine = 1
  /\ request.view # 0 =>
       /\ view_ \notin DOMAIN app.views
       /\ request.view \in DOMAIN app.views
       /\ request.method \in {0} \cup DOMAIN Served.methods
       /\ PassesTheCheck(request.view, request.record)
       /\ request.method = 0 => atLine = 1

Written(b, k) == b.kind[k] = "param" \/ \E i \in 1 .. atLine - 1 : i \in DOMAIN b.steps /\ Target(b.steps[i]) = k

MadeAsRead(sources, b) ==
  /\ \A v \in Local : \A k \in madeOf[v] : k \in sources /\ v \in LeadsFrom(b, k)
  /\ \A k \in sources : Written(b, k) => k \in madeOf[k]
  /\ \A i \in DOMAIN b.steps :
       (i < atLine /\ b.steps[i].op # "property" /\ Target(b.steps[i]) # 0) =>
         \A u \in ReadBy(b.steps[i]) : madeOf[u] \subseteq madeOf[Target(b.steps[i])]

MadeInv ==
  /\ ServesWell
  /\ madeOf \in [Local -> SUBSET Local]
  /\ InBody => MadeAsRead(SourcesOf(Served, Body), Body)

LEMMA ServedBody ==
  ASSUME ServesWell, InBody
  PROVE  /\ Body \in Bodies /\ WrittenOnceAndFirst(Body)
         /\ SourcesAreWritten(Served, Body) /\ NamesAreRouteNames(Served, Body)
         /\ SourcesOf(Served, Body) \subseteq Local
<1>1. /\ app \in Applications /\ request.view \in DOMAIN app.views
      /\ request.method \in DOMAIN Served.methods
  BY DEF ServesWell, InBody
<1>2. Body \in Bodies
  BY <1>1, BodyShape DEF Body, Served
<1>3. /\ WrittenOnceAndFirst(Body)
      /\ SourcesAreWritten(Served, Body) /\ NamesAreRouteNames(Served, Body)
  <2>1. ServedAsWritten(app)
    BY DEF ServesWell
  <2>. QED
    BY <1>1, <2>1 DEF ServedAsWritten, Body, Served, BodyOf, ViewAt
<1>. QED
  BY <1>2, <1>3, SourcesAreValues

(* A statement leaves what it must: what was read before stays as it was.  *)
LEMMA MadeStep ==
  ASSUME MadeInv, InBody, RunStep
  PROVE  MadeInv'
<1>. DEFINE s == Body.steps[atLine]
            to == Target(s)
            S == SourcesOf(Served, Body)
<1>1. /\ UNCHANGED <<app, judging, request>> /\ atLine' = atLine + 1 /\ atLine \in DOMAIN Body.steps
      /\ madeOf' = [v \in Local |-> IF v = to THEN Made(Keeps(s)) \cup ({v} \cap S) ELSE madeOf[v]]
  BY DEF RunStep
<1>2. /\ ServesWell /\ madeOf \in [Local -> SUBSET Local] /\ atLine \in Nat \ {0}
      /\ MadeAsRead(S, Body)
  BY DEF MadeInv, ServesWell
<1>3. Body \in Bodies /\ WrittenOnceAndFirst(Body) /\ S \subseteq Local
  BY <1>2, ServedBody
<1>4. to \in Local \cup {0} /\ ReadBy(s) \subseteq Local /\ Keeps(s) \subseteq Local
  BY <1>1, <1>3, StepReads
<1>5. Body' = Body /\ Served' = Served /\ InBody' /\ SourcesOf(Served, Body)' = S
  BY <1>1 DEF Body, Served, InBody, BodyOf, ViewAt
<1>6. ServesWell'
  <2>1. view_' = view_ /\ step_' = step_ /\ app' = app /\ request' = request
    BY <1>1 DEF judging
  <2>2. request.method # 0 /\ request.view # 0
    BY DEF InBody
  <2>3. ServedAsWritten(app)' /\ (app \in Applications)'
    BY <1>2, <2>1 DEF ServesWell
  <2>4. PassesTheCheck(request.view, request.record)' <=> PassesTheCheck(request.view, request.record)
    BY <2>1 DEF PassesTheCheck, ViewAt
  <2>. QED
    BY <1>1, <1>2, <1>5, <2>1, <2>2, <2>3, <2>4 DEF ServesWell
<1>7. Made(Keeps(s)) \subseteq Local
  BY <1>2, <1>4 DEF Made
<1>8. madeOf' \in [Local -> SUBSET Local]
  BY <1>1, <1>2, <1>3, <1>7
<1>9. MadeAsRead(S, Body)'
  <2>1. ASSUME NEW v \in Local, NEW k \in madeOf'[v]
        PROVE  k \in S /\ v \in LeadsFrom(Body, k)
    <3>1. CASE k \in madeOf[v]
      BY <1>2, <3>1 DEF MadeAsRead
    <3>2. CASE k \notin madeOf[v]
      <4>1. v = to /\ k \in Made(Keeps(s)) \cup ({v} \cap S)
        BY <1>1, <3>2, <2>1
      <4>2. CASE k \in {v} \cap S
        BY <4>2, <1>3, LeadsFromItself
      <4>3. CASE k \in Made(Keeps(s))
        <5>1. PICK u \in Keeps(s) : k \in madeOf[u]
          BY <4>3 DEF Made
        <5>2. u \in Local /\ k \in S /\ u \in LeadsFrom(Body, k) /\ u # v
          BY <1>2, <1>4, <3>2, <5>1 DEF MadeAsRead
        <5>3. s.op # "property" /\ u \in ReadBy(s) /\ to # 0
          BY <4>1, <5>1, <5>2, LocalAssumption DEF Keeps, ReadBy, Target
        <5>4. <<u, to>> \in HandsOn(Body)
          BY <1>1, <1>3, <5>3, HandsOfStep
        <5>. QED
          BY <4>1, <5>2, <5>4, LeadsOnward
      <4>. QED
        BY <4>1, <4>2, <4>3
    <3>. QED
      BY <3>1, <3>2
  <2>2. ASSUME NEW k \in S, Written(Body, k)'
        PROVE  k \in madeOf'[k]
    <3>1. k \in Local
      BY <1>3
    <3>2. CASE k = to
      BY <1>1, <3>1, <3>2
    <3>3. CASE k # to
      <4>1. Written(Body, k)
        <5>1. \A i \in 1 .. (atLine + 1) - 1 : i = atLine \/ i \in 1 .. atLine - 1
          BY <1>2
        <5>. QED
          BY <1>1, <1>5, <2>2, <3>3, <5>1 DEF Written
      <4>. QED
        BY <1>1, <1>2, <3>1, <3>3, <4>1 DEF MadeAsRead
    <3>. QED
      BY <3>2, <3>3
  <2>3. ASSUME NEW i \in DOMAIN Body.steps, i < atLine + 1, Body.steps[i].op # "property",
               Target(Body.steps[i]) # 0, NEW u \in ReadBy(Body.steps[i])
        PROVE  madeOf'[u] \subseteq madeOf'[Target(Body.steps[i])]
    <3>. DEFINE t == Target(Body.steps[i])
    <3>1. u \in Local /\ t \in Local /\ i \in Nat
      BY <1>3, <2>3, StepReads, StepNumbers
    <3>2. u # to
      <4>1. to = u => atLine < i
        BY <1>1, <1>3, <3>1, LocalAssumption DEF WrittenOnceAndFirst
      <4>. QED
        BY <1>2, <2>3, <3>1, <4>1
    <3>3. madeOf'[u] = madeOf[u]
      BY <1>1, <3>1, <3>2
    <3>4. CASE i = atLine
      <4>1. u \in Keeps(s)
        BY <2>3, <3>4 DEF Keeps, ReadBy
      <4>2. madeOf[u] \subseteq Made(Keeps(s))
        BY <4>1 DEF Made
      <4>3. t = to
        BY <3>4
      <4>. QED
        BY <1>1, <3>1, <3>3, <4>2, <4>3
    <3>5. CASE i # atLine
      <4>1. i < atLine
        BY <1>2, <2>3, <3>1, <3>5
      <4>2. madeOf[u] \subseteq madeOf[t]
        BY <1>2, <2>3, <4>1 DEF MadeAsRead
      <4>3. CASE t # to
        BY <1>1, <3>1, <3>3, <4>2, <4>3
      <4>4. CASE t = to
        <5>1. s.op = "enclose"
          BY <1>1, <1>3, <3>1, <3>5, <4>4, LocalAssumption DEF WrittenOnceAndFirst
        <5>2. to \in Keeps(s)
          BY <5>1 DEF Keeps, Target
        <5>3. madeOf[t] \subseteq Made(Keeps(s))
          BY <4>4, <5>2 DEF Made
        <5>. QED
          BY <1>1, <3>1, <3>3, <4>2, <4>4, <5>3
      <4>. QED
        BY <4>3, <4>4
    <3>. QED
      BY <3>4, <3>5
  <2>. QED
    BY <1>1, <1>5, <2>1, <2>2, <2>3 DEF MadeAsRead
<1>. QED
  BY <1>5, <1>6, <1>8, <1>9 DEF MadeInv

LEMMA MadeInit == DeInit /\ ServedAsWritten(app) => MadeInv
<1>. SUFFICES ASSUME DeInit, ServedAsWritten(app) PROVE MadeInv
  OBVIOUS
<1>1. Len(app.views) \in Nat
  BY ViewsListed DEF DeInit
<1>2. ServesWell
  BY <1>1 DEF DeInit, ServesWell
<1>. QED
  BY <1>2 DEF DeInit, MadeInv, InBody

LEMMA MadeWhileJudging ==
  ASSUME MadeInv, JudgeStatement \/ NextMethod \/ JudgeClass
  PROVE  MadeInv'
<1>1. /\ UNCHANGED <<app, serving>> /\ view_ \in DOMAIN app.views
      /\ view_' \in {view_, view_ + 1} /\ step_' \in {step_ + 1, 1}
  BY DEF JudgeStatement, NextMethod, JudgeClass
<1>2. app' = app /\ request' = request /\ atLine' = atLine /\ madeOf' = madeOf
  BY <1>1 DEF serving
<1>3. ServesWell /\ request.view = 0 /\ request.method = 0
  BY <1>1 DEF MadeInv, ServesWell
<1>4. view_' \in 1 .. Len(app.views) + 1 /\ step_' \in Nat
  BY <1>1, <1>3, ViewsListed DEF ServesWell
<1>5. ServesWell'
  BY <1>2, <1>3, <1>4 DEF ServesWell
<1>6. ~ InBody'
  BY <1>2, <1>3 DEF InBody
<1>. QED
  BY <1>2, <1>5, <1>6 DEF MadeInv

LEMMA MadeDispatch ==
  ASSUME MadeInv, Dispatch
  PROVE  MadeInv'
<1>. PICK v \in DOMAIN app.views : \E m \in {0} \cup DOMAIN ViewAt(v).methods :
       \E record \in [FieldsOf(v) -> {"mine", "other"}] :
         /\ PassesTheCheck(v, record)
         /\ request' = [view |-> v, method |-> m, record |-> record]
         /\ madeOf' = [x \in Local |->
              IF m # 0 /\ x \in RequestParams(BodyOf(v, m)) THEN {x} \cap SourcesOf(ViewAt(v), BodyOf(v, m)) ELSE {}]
  BY DEF Dispatch
<1>. PICK m \in {0} \cup DOMAIN ViewAt(v).methods :
       \E record \in [FieldsOf(v) -> {"mine", "other"}] :
         /\ PassesTheCheck(v, record)
         /\ request' = [view |-> v, method |-> m, record |-> record]
         /\ madeOf' = [x \in Local |->
              IF m # 0 /\ x \in RequestParams(BodyOf(v, m)) THEN {x} \cap SourcesOf(ViewAt(v), BodyOf(v, m)) ELSE {}]
  OBVIOUS
<1>. PICK record \in [FieldsOf(v) -> {"mine", "other"}] :
         /\ PassesTheCheck(v, record)
         /\ request' = [view |-> v, method |-> m, record |-> record]
         /\ madeOf' = [x \in Local |->
              IF m # 0 /\ x \in RequestParams(BodyOf(v, m)) THEN {x} \cap SourcesOf(ViewAt(v), BodyOf(v, m)) ELSE {}]
  OBVIOUS
<1>1. /\ app' = app /\ view_' = view_ /\ step_' = step_ /\ atLine' = atLine
      /\ view_ \notin DOMAIN app.views /\ request.view = 0
  BY DEF Dispatch, judging
<1>2. ServesWell /\ atLine = 1
  BY <1>1 DEF MadeInv, ServesWell
<1>3. /\ request'.view = v /\ request'.method = m /\ request'.record = record /\ v # 0
  BY <1>2, ViewsListed DEF ServesWell
<1>4. Served' = ViewAt(v) /\ Body' = BodyOf(v, m)
  BY <1>1, <1>3 DEF Served, Body, BodyOf, ViewAt
<1>5. ServesWell'
  <2>1. ServedAsWritten(app)' /\ (app \in Applications)'
    BY <1>1, <1>2 DEF ServesWell
  <2>2. PassesTheCheck(request.view, request.record)'
    BY <1>1, <1>3 DEF PassesTheCheck, ViewAt
  <2>. QED
    BY <1>1, <1>2, <1>3, <1>4, <2>1, <2>2 DEF ServesWell
<1>6. madeOf' \in [Local -> SUBSET Local]
  OBVIOUS
<1>7. ASSUME InBody'
      PROVE  MadeAsRead(SourcesOf(Served, Body), Body)'
  <2>1. m \in DOMAIN ViewAt(v).methods /\ m # 0
    BY <1>3, <1>7 DEF InBody
  <2>2. BodyOf(v, m) \in Bodies
    BY <1>2, <2>1, BodyShape DEF ServesWell
  <2>. DEFINE b == BodyOf(v, m)
              S == SourcesOf(ViewAt(v), b)
  <2>3. S \subseteq Local /\ DOMAIN b.steps = 1 .. Len(b.steps) /\ Len(b.steps) \in Nat
    BY <2>2, SourcesAreValues, StepNumbers
  <2>4. madeOf' = [x \in Local |-> IF x \in RequestParams(b) THEN {x} \cap S ELSE {}]
    BY <2>1
  <2>5. Body' = b /\ SourcesOf(Served, Body)' = S /\ atLine' = 1
    BY <1>1, <1>2, <1>4 DEF S, b
  <2>. HIDE DEF b, S
  <2>6. \A x \in Local : \A k \in madeOf'[x] : k \in S /\ x \in LeadsFrom(b, k)
    BY <2>3, <2>4, LeadsFromItself
  <2>7. \A k \in S : Written(Body, k)' => k \in madeOf'[k]
    <3>1. \A k \in S : Written(Body, k)' => b.kind[k] = "param"
      BY <2>3, <2>5 DEF Written
    <3>. QED
      BY <2>3, <2>4, <3>1 DEF RequestParams
  <2>8. \A i \in DOMAIN b.steps : ~ (i < atLine')
    BY <2>3, <2>5
  <2>. QED
    BY <2>5, <2>6, <2>7, <2>8 DEF MadeAsRead
<1>. QED
  BY <1>4, <1>5, <1>6, <1>7 DEF MadeInv

LEMMA MadeInvariant == DeSpec /\ ServedAsWritten(app) => []MadeInv
<1>1. MadeInv /\ [DeNext]_deVars => MadeInv'
  <2>. SUFFICES ASSUME MadeInv, [DeNext]_deVars PROVE MadeInv'
    OBVIOUS
  <2>1. CASE JudgeStatement \/ NextMethod \/ JudgeClass
    BY <2>1, MadeWhileJudging
  <2>2. CASE Dispatch
    BY <2>2, MadeDispatch
  <2>3. CASE RunStep
    BY <2>3, MadeStep DEF RunStep
  <2>4. CASE UNCHANGED deVars
    <3>1. UNCHANGED <<app, view_, step_, request, atLine, madeOf>>
      BY <2>4 DEF deVars, judging, serving
    <3>2. Served' = Served /\ Body' = Body /\ InBody' = InBody
      BY <3>1 DEF InBody, Body, Served, BodyOf, ViewAt
    <3>3. PassesTheCheck(request.view, request.record)' = PassesTheCheck(request.view, request.record)
      BY <3>1 DEF PassesTheCheck, ViewAt
    <3>4. ServesWell'
      BY <3>1, <3>2, <3>3 DEF MadeInv, ServesWell
    <3>5. MadeAsRead(SourcesOf(Served, Body), Body)' = MadeAsRead(SourcesOf(Served, Body), Body)
      BY <3>1, <3>2 DEF MadeAsRead, Written
    <3>. QED
      BY <3>1, <3>2, <3>4, <3>5 DEF MadeInv
  <2>. QED
    BY <2>1, <2>2, <2>3, <2>4 DEF DeNext
<1>. QED
  BY <1>1, MadeInit, PTL DEF DeSpec

(* What a statement reads is made of exactly what the edges lead to it.    *)
LEMMA ReadsAreExact ==
  ASSUME MadeInv, InBody, atLine \in DOMAIN Body.steps,
         NEW u \in ReadBy(Body.steps[atLine]), NEW k \in SourcesOf(Served, Body)
  PROVE  k \in madeOf[u] <=> u \in LeadsFrom(Body, k)
<1>. DEFINE b == Body
            Still(v) == \E j \in DOMAIN b.steps : Target(b.steps[j]) = v /\ j >= atLine
            S == {v \in Local : k \in madeOf[v] \/ Still(v)}
<1>1. /\ ServesWell /\ madeOf \in [Local -> SUBSET Local] /\ atLine \in Nat \ {0}
      /\ MadeAsRead(SourcesOf(Served, Body), b)
  BY DEF MadeInv, ServesWell
<1>2. /\ b \in Bodies /\ WrittenOnceAndFirst(b) /\ k \in Local /\ SourcesAreWritten(Served, b)
      /\ DOMAIN b.steps = 1 .. Len(b.steps) /\ Len(b.steps) \in Nat
  BY <1>1, ServedBody, StepNumbers
<1>3. u \in Local
  BY <1>2, StepReads
<1>. HIDE DEF b
<1>4. ASSUME u \in LeadsFrom(b, k)
      PROVE  k \in madeOf[u]
  <2>1. k \in S
    <3>1. CASE b.kind[k] = "param"
      BY <1>1, <1>2, <3>1 DEF MadeAsRead, Written
    <3>2. CASE \E i \in DOMAIN b.steps : Target(b.steps[i]) = k
      <4>1. PICK i \in DOMAIN b.steps : Target(b.steps[i]) = k
        BY <3>2
      <4>2. CASE i >= atLine
        BY <1>2, <4>1, <4>2
      <4>3. CASE i < atLine
        <5>1. i \in 1 .. atLine - 1
          BY <1>1, <1>2, <4>3
        <5>2. Written(b, k)
          BY <4>1, <5>1 DEF Written
        <5>3. k \in SourcesOf(Served, Body)
          OBVIOUS
        <5>4. k \in madeOf[k]
          BY <1>1, <5>2, <5>3 DEF MadeAsRead
        <5>. QED
          BY <1>2, <5>4
      <4>. QED
        BY <1>1, <1>2, <4>2, <4>3
    <3>. QED
      BY <1>2, <3>1, <3>2 DEF SourcesAreWritten, b
  <2>2. ASSUME NEW h \in HandsOn(b), h[1] \in S
        PROVE  h[2] \in S
    <3>1. PICK i \in DOMAIN b.steps : \E r \in ReadBy(b.steps[i]) :
            /\ b.steps[i].op # "property" /\ Target(b.steps[i]) # 0
            /\ h = <<r, Target(b.steps[i])>>
      BY <1>2, HandsOfStep
    <3>. DEFINE t == Target(b.steps[i])
    <3>2. b.steps[i].op # "property" /\ t # 0 /\ h[1] \in ReadBy(b.steps[i]) /\ h[2] = t
      BY <3>1
    <3>3. t \in Local /\ i \in Nat
      BY <1>2, <3>2, StepReads
    <3>4. CASE i >= atLine
      BY <3>2, <3>3, <3>4
    <3>5. CASE i < atLine
      <4>1. ~ Still(h[1])
        <5>1. ASSUME NEW j \in DOMAIN b.steps, Target(b.steps[j]) = h[1], j >= atLine
              PROVE  FALSE
          <6>1. Target(b.steps[j]) # 0
            BY <2>2, <5>1, LocalAssumption
          <6>2. j < i
            BY <1>2, <3>2, <5>1, <6>1 DEF WrittenOnceAndFirst
          <6>. QED
            BY <1>1, <1>2, <3>3, <3>5, <5>1, <6>2
        <5>. QED
          BY <5>1
      <4>2. k \in madeOf[h[1]]
        BY <2>2, <4>1
      <4>3. madeOf[h[1]] \subseteq madeOf[t]
        BY <1>1, <3>2, <3>5 DEF MadeAsRead
      <4>. QED
        BY <3>2, <3>3, <4>2, <4>3
    <3>. QED
      BY <1>1, <3>3, <3>4, <3>5
  <2>3. u \in S
    <3>1. S \in SUBSET Local
      OBVIOUS
    <3>. HIDE DEF S
    <3>. QED
      BY <1>4, <2>1, <2>2, <3>1, LeadsInto
  <2>4. ~ Still(u)
    <3>1. ASSUME NEW j \in DOMAIN b.steps, Target(b.steps[j]) = u, j >= atLine
          PROVE  FALSE
      <4>1. Target(b.steps[j]) # 0
        BY <1>3, <3>1, LocalAssumption
      <4>2. j < atLine
        BY <1>2, <3>1, <4>1 DEF WrittenOnceAndFirst, b
      <4>. QED
        BY <1>1, <1>2, <3>1, <4>2
    <3>. QED
      BY <3>1
  <2>. QED
    BY <2>3, <2>4
<1>. QED
  BY <1>1, <1>3, <1>4 DEF MadeAsRead, b

-----------------------------------------------------------------------------
(* What is judged already: every key an operation could be reported for is *)
(* reported at it or was reported of the method before, every finding of a *)
(* class is reported; and nothing else is.                                 *)
StatementSettled(v, m, i) ==
  \A k \in UnaskedKeys(ViewAt(v), BodyOf(v, m), i, {}) :
    \E x \in Local : \E j \in DOMAIN BodyOf(v, m).steps :
      /\ ReportedAt(<<"body", ViewAt(v).methods[m], x, j>>)
      /\ j = i \/ BodyOf(v, m).leaf[k] = BodyOf(v, m).leaf[x]

ClassSettled(v) == \A k \in ClassFinding(ViewAt(v)) : ReportedAt(<<"class", k.loc, k.key>>)

InMethod == view_ \in DOMAIN app.views /\ IsJudged(view_) /\ method_ \in DOMAIN ViewAt(view_).methods

MethodSettled(v, m) == \A i \in DOMAIN BodyOf(v, m).steps : StatementSettled(v, m, i)
ViewSettled(v) == IsJudged(v) => ClassSettled(v) /\ \A m \in DOMAIN ViewAt(v).methods : MethodSettled(v, m)

SaidIsFiled ==
  \A n \in saidKeys : \E x \in Local : \E j \in DOMAIN BodyOf(view_, method_).steps :
    /\ ReportedAt(<<"body", ViewAt(view_).methods[method_], x, j>>)
    /\ BodyOf(view_, method_).leaf[x] = n

OfAClass(f) == \E k \in ClassFinding(ViewAt(f.view)) : f.place = <<"class", k.loc, k.key>>
OfAMethod(f) ==
  \E m \in DOMAIN ViewAt(f.view).methods : \E i \in DOMAIN BodyOf(f.view, m).steps :
    \E k \in UnaskedKeys(ViewAt(f.view), BodyOf(f.view, m), i, {}) :
      f.place = <<"body", ViewAt(f.view).methods[m], k, i>>

FiledWell(f) == f.view \in DOMAIN app.views /\ IsJudged(f.view) /\ (OfAClass(f) \/ OfAMethod(f))

DeclaredInv ==
  /\ app \in Applications /\ view_ \in Nat \ {0} /\ method_ \in Nat \ {0} /\ step_ \in Nat \ {0}
  /\ \A v \in DOMAIN app.views : v < view_ => ViewSettled(v)
  /\ (view_ \in DOMAIN app.views /\ IsJudged(view_)) =>
       \A m \in DOMAIN ViewAt(view_).methods : m < method_ => MethodSettled(view_, m)
  /\ InMethod => SaidIsFiled /\ \A i \in DOMAIN BodyOf(view_, method_).steps : i < step_ => StatementSettled(view_, method_, i)
  /\ ~ InMethod => saidKeys = {}
  /\ \A f \in filed : FiledWell(f)

LEMMA UnaskedKeysAre ==
  ASSUME NEW view, NEW b \in Bodies, NEW i \in DOMAIN b.steps, NEW told
  PROVE  /\ UnaskedKeys(view, b, i, told) = {k \in UnaskedKeys(view, b, i, {}) : b.leaf[k] \notin told}
         /\ UnaskedKeys(view, b, i, told) \subseteq Local
<1>1. OperandKeys(view, b, i) \subseteq Local
  BY SourcesAreValues DEF OperandKeys
<1>2. UnaskedKeys(view, b, i, told) = {k \in UnaskedKeys(view, b, i, {}) : b.leaf[k] \notin told}
  <2>1. CASE b.steps[i].op = "call" /\ b.steps[i].mutates /\ ~ ScopedBy(view, b, i) /\ RequestFields(b) # {}
    BY <2>1 DEF UnaskedKeys
  <2>2. CASE ~ (b.steps[i].op = "call" /\ b.steps[i].mutates /\ ~ ScopedBy(view, b, i) /\ RequestFields(b) # {})
    BY <2>2 DEF UnaskedKeys
  <2>. QED
    BY <2>1, <2>2
<1>3. UnaskedKeys(view, b, i, told) \subseteq OperandKeys(view, b, i)
  BY DEF UnaskedKeys
<1>. QED
  BY <1>1, <1>2, <1>3

(* Judging only adds to what is reported.                                  *)
LEMMA SettledStays ==
  ASSUME app' = app, filed \subseteq filed', NEW CONSTANT v
  PROVE  /\ ClassSettled(v) => ClassSettled(v)'
         /\ ViewSettled(v) => ViewSettled(v)'
         /\ \A m : \A i : StatementSettled(v, m, i) => StatementSettled(v, m, i)'
         /\ \A m : MethodSettled(v, m) => MethodSettled(v, m)'
<1>1. \A place : ReportedAt(place) => ReportedAt(place)'
  BY DEF ReportedAt
<1>2. \A m : BodyOf(v, m)' = BodyOf(v, m) /\ ViewAt(v)' = ViewAt(v) /\ IsJudged(v)' = IsJudged(v)
  BY DEF BodyOf, ViewAt, IsJudged
<1>3. ClassSettled(v) => ClassSettled(v)'
  BY <1>1, <1>2 DEF ClassSettled
<1>4. ASSUME NEW m, NEW i, StatementSettled(v, m, i) PROVE StatementSettled(v, m, i)'
  <2>1. BodyOf(v, m)' = BodyOf(v, m) /\ ViewAt(v)' = ViewAt(v)
    BY <1>2
  <2>. SUFFICES ASSUME NEW k \in UnaskedKeys(ViewAt(v), BodyOf(v, m), i, {})
                PROVE  \E x \in Local : \E j \in DOMAIN BodyOf(v, m).steps :
                         /\ ReportedAt(<<"body", ViewAt(v).methods[m], x, j>>)'
                         /\ j = i \/ BodyOf(v, m).leaf[k] = BodyOf(v, m).leaf[x]
    BY <2>1 DEF StatementSettled
  <2>2. PICK x \in Local, j \in DOMAIN BodyOf(v, m).steps :
          /\ ReportedAt(<<"body", ViewAt(v).methods[m], x, j>>)
          /\ j = i \/ BodyOf(v, m).leaf[k] = BodyOf(v, m).leaf[x]
    BY <1>4 DEF StatementSettled
  <2>3. ReportedAt(<<"body", ViewAt(v).methods[m], x, j>>)'
    BY <2>1, <2>2 DEF ReportedAt
  <2>. QED
    BY <2>2, <2>3
<1>5. ASSUME NEW m, MethodSettled(v, m) PROVE MethodSettled(v, m)'
  BY <1>2, <1>4, <1>5 DEF MethodSettled
<1>6. ViewSettled(v) => ViewSettled(v)'
  BY <1>2, <1>3, <1>5 DEF ViewSettled
<1>. QED
  BY <1>3, <1>4, <1>5, <1>6

LEMMA FiledStays ==
  ASSUME app' = app, NEW CONSTANT f, FiledWell(f)
  PROVE  FiledWell(f)'
<1>1. \A v, m : BodyOf(v, m)' = BodyOf(v, m) /\ ViewAt(v)' = ViewAt(v) /\ IsJudged(v)' = IsJudged(v)
  BY DEF BodyOf, ViewAt, IsJudged
<1>2. OfAClass(f)' = OfAClass(f) /\ OfAMethod(f)' = OfAMethod(f)
  BY <1>1 DEF OfAClass, OfAMethod
<1>. QED
  BY <1>1, <1>2 DEF FiledWell

LEMMA AddedIsReported ==
  ASSUME NEW found, filed' = AddFindings(found)
  PROVE  filed \subseteq filed' /\ filed' \subseteq filed \cup found
         /\ \A f \in found : ReportedAt(f.place)'
BY DEF AddFindings, ReportedAt

LEMMA ReportedStays ==
  ASSUME filed \subseteq filed', NEW CONSTANT place, ReportedAt(place)
  PROVE  ReportedAt(place)'
BY DEF ReportedAt

LEMMA JudgedStatement ==
  ASSUME DeclaredInv, JudgeStatement
  PROVE  DeclaredInv'
<1>. PICK v, m, i, b, view, id :
       /\ v = view_ /\ m = method_ /\ i = step_ /\ b = BodyOf(v, m) /\ view = ViewAt(v)
       /\ id = ViewAt(v).methods[m]
  OBVIOUS
<1>. PICK keys : keys = UnaskedKeys(view, b, i, saidKeys)
  OBVIOUS
<1>. PICK k : k = CHOOSE x \in keys : \A y \in keys : x <= y
  OBVIOUS
<1>. PICK f : f = [view |-> v, place |-> <<"body", id, k, i>>]
  OBVIOUS
<1>1. /\ app' = app /\ view_' = v /\ method_' = m /\ step_' = i + 1
      /\ InMethod /\ i \in DOMAIN b.steps
      /\ IF keys = {} THEN saidKeys' = saidKeys /\ filed' = filed
         ELSE saidKeys' = saidKeys \cup {b.leaf[k]} /\ filed' = AddFindings({f})
  BY DEF JudgeStatement, InMethod, BodyFinding
<1>2. /\ app \in Applications /\ v \in Nat \ {0} /\ m \in Nat \ {0} /\ i \in Nat \ {0}
      /\ b \in Bodies /\ DOMAIN b.steps = 1 .. Len(b.steps) /\ Len(b.steps) \in Nat
  BY <1>1, BodyShape, StepNumbers DEF InMethod, DeclaredInv
<1>3. /\ keys = {x \in UnaskedKeys(view, b, i, {}) : b.leaf[x] \notin saidKeys}
      /\ keys \subseteq Local /\ UnaskedKeys(view, b, i, {}) \subseteq Local
  BY <1>1, <1>2, UnaskedKeysAre
<1>4. keys # {} => k \in keys
  BY <1>3, LocalAssumption, LeastOf
<1>5. filed \subseteq filed' /\ \A g \in filed' : g \in filed \/ (keys # {} /\ g = f)
  BY <1>1, AddedIsReported
<1>6. keys # {} => ReportedAt(<<"body", id, k, i>>)'
  <2>1. keys # {} => ReportedAt(f.place)'
    BY <1>1, AddedIsReported
  <2>. QED
    BY <2>1
<1>7. /\ \A w : BodyOf(v, w)' = BodyOf(v, w)
      /\ BodyOf(v, m)' = b /\ ViewAt(v)' = view /\ IsJudged(v)' = IsJudged(v) /\ InMethod' = InMethod
  BY <1>1 DEF BodyOf, ViewAt, IsJudged, InMethod
<1>8. ASSUME NEW n \in saidKeys'
      PROVE  \E x \in Local : \E j \in DOMAIN b.steps : ReportedAt(<<"body", id, x, j>>)' /\ b.leaf[x] = n
  <2>1. CASE n \in saidKeys
    <3>1. PICK x \in Local, j \in DOMAIN b.steps : ReportedAt(<<"body", id, x, j>>) /\ b.leaf[x] = n
      BY <1>1, <2>1 DEF DeclaredInv, SaidIsFiled
    <3>. QED
      BY <1>5, <3>1, ReportedStays
  <2>2. CASE n \notin saidKeys
    <3>1. keys # {} /\ n = b.leaf[k] /\ k \in Local
      BY <1>1, <1>3, <1>4, <1>8, <2>2
    <3>. QED
      BY <1>1, <1>6, <3>1
  <2>. QED
    BY <2>1, <2>2
<1>9. ASSUME NEW y \in UnaskedKeys(view, b, i, {})
      PROVE  \E x \in Local : \E j \in DOMAIN b.steps :
               ReportedAt(<<"body", id, x, j>>)' /\ (j = i \/ b.leaf[y] = b.leaf[x])
  <2>1. CASE keys # {}
    BY <1>1, <1>3, <1>4, <1>6, <2>1
  <2>2. CASE keys = {}
    <3>1. b.leaf[y] \in saidKeys'
      BY <1>1, <1>3, <1>9, <2>2
    <3>2. PICK x \in Local, j \in DOMAIN b.steps : ReportedAt(<<"body", id, x, j>>)' /\ b.leaf[x] = b.leaf[y]
      BY <1>8, <3>1
    <3>. QED
      BY <3>2
  <2>. QED
    BY <2>1, <2>2
<1>10. StatementSettled(v, m, i)'
  <2>1. id = view.methods[m]
    OBVIOUS
  <2>. SUFFICES ASSUME NEW y \in UnaskedKeys(view, b, i, {})
                PROVE  \E x \in Local : \E j \in DOMAIN b.steps :
                         ReportedAt(<<"body", view.methods[m], x, j>>)' /\ (j = i \/ b.leaf[y] = b.leaf[x])
    BY <1>7 DEF StatementSettled, ReportedAt
  <2>. QED
    BY <1>9, <2>1
<1>11. SaidIsFiled'
  BY <1>1, <1>7, <1>8 DEF SaidIsFiled
<1>12. ASSUME NEW j \in DOMAIN b.steps, j < i + 1
       PROVE  StatementSettled(v, m, j)'
  <2>1. j = i \/ j < i
    BY <1>2, <1>12
  <2>2. j < i => StatementSettled(v, m, j)
    BY <1>1 DEF DeclaredInv
  <2>. QED
    BY <1>1, <1>5, <1>10, <2>1, <2>2, SettledStays
<1>13. \A w \in DOMAIN app.views : w < v => ViewSettled(w)'
  BY <1>1, <1>5, SettledStays DEF DeclaredInv
<1>14. \A w \in DOMAIN view.methods : w < m => MethodSettled(v, w)'
  BY <1>1, <1>5, SettledStays DEF DeclaredInv, InMethod
<1>15. \A g \in filed' : FiledWell(g)'
  <2>1. ASSUME NEW g \in filed PROVE FiledWell(g)'
    BY <1>1, FiledStays DEF DeclaredInv
  <2>2. ASSUME keys # {} PROVE FiledWell(f)
    <3>1. k \in UnaskedKeys(view, b, i, {}) /\ f.view = v /\ f.place = <<"body", id, k, i>>
      BY <1>3, <1>4, <2>2
    <3>2. OfAMethod(f)
      BY <1>1, <3>1 DEF OfAMethod, InMethod
    <3>. QED
      BY <1>1, <3>1, <3>2 DEF FiledWell, InMethod
  <2>3. keys # {} => FiledWell(f)'
    BY <1>1, <2>2, FiledStays
  <2>. QED
    BY <1>5, <2>1, <2>3
<1>. QED
  <2>1. /\ (app \in Applications)' /\ view_' \in Nat \ {0} /\ method_' \in Nat \ {0} /\ step_' \in Nat \ {0}
    BY <1>1, <1>2
  <2>. QED
    BY <1>1, <1>7, <1>11, <1>12, <1>13, <1>14, <1>15, <2>1 DEF DeclaredInv

LEMMA NextMethodJudged ==
  ASSUME DeclaredInv, NextMethod
  PROVE  DeclaredInv'
<1>. PICK v, m : v = view_ /\ m = method_
  OBVIOUS
<1>1. /\ app' = app /\ view_' = v /\ method_' = m + 1 /\ step_' = 1 /\ filed' = filed /\ saidKeys' = {}
      /\ InMethod /\ step_ \notin DOMAIN BodyOf(v, m).steps
  BY DEF NextMethod, InMethod
<1>2. /\ app \in Applications /\ v \in Nat \ {0} /\ m \in Nat \ {0} /\ step_ \in Nat \ {0}
      /\ DOMAIN BodyOf(v, m).steps = 1 .. Len(BodyOf(v, m).steps) /\ Len(BodyOf(v, m).steps) \in Nat
  BY <1>1, BodyShape, StepNumbers DEF InMethod, DeclaredInv
<1>3. /\ ViewAt(v)' = ViewAt(v) /\ IsJudged(v)' = IsJudged(v)
  BY <1>1 DEF ViewAt, IsJudged
<1>4. \A w \in DOMAIN app.views : w < v => ViewSettled(w)'
  BY <1>1, SettledStays DEF DeclaredInv
<1>5. MethodSettled(v, m)
  BY <1>1, <1>2 DEF DeclaredInv, MethodSettled
<1>6. ASSUME NEW w \in DOMAIN ViewAt(v).methods, w < m + 1
      PROVE  MethodSettled(v, w)'
  <2>1. DOMAIN ViewAt(v).methods \subseteq Nat
    BY <1>1, <1>2, ViewShape DEF InMethod
  <2>2. w = m \/ w < m
    BY <1>2, <1>6, <2>1
  <2>3. w < m => MethodSettled(v, w)
    BY <1>1 DEF DeclaredInv, InMethod
  <2>. QED
    BY <1>1, <1>5, <2>2, <2>3, SettledStays
<1>7. \A f \in filed' : FiledWell(f)'
  BY <1>1, FiledStays DEF DeclaredInv
<1>8. \A i \in DOMAIN BodyOf(view_, method_)'.steps : InMethod' => ~ (i < step_')
  <2>1. ASSUME InMethod' PROVE DOMAIN BodyOf(v, m + 1).steps \subseteq Nat \ {0}
    <3>1. v \in DOMAIN app.views /\ m + 1 \in DOMAIN ViewAt(v).methods
      BY <1>1, <1>3, <2>1 DEF InMethod
    <3>. QED
      BY <1>2, <3>1, BodyShape, StepNumbers
  <2>2. BodyOf(view_, method_)' = BodyOf(v, m + 1)
    BY <1>1 DEF BodyOf, ViewAt
  <2>. QED
    BY <1>1, <2>1, <2>2
<1>9. SaidIsFiled'
  BY <1>1 DEF SaidIsFiled
<1>10. (app \in Applications)' /\ view_' \in Nat \ {0} /\ method_' \in Nat \ {0} /\ step_' \in Nat \ {0}
  BY <1>1, <1>2
<1>. QED
  BY <1>1, <1>3, <1>4, <1>6, <1>7, <1>8, <1>9, <1>10 DEF DeclaredInv

LEMMA ClassJudged ==
  ASSUME DeclaredInv, JudgeClass
  PROVE  DeclaredInv'
<1>. PICK v : v = view_
  OBVIOUS
<1>. PICK found : found = {[view |-> v, place |-> <<"class", k.loc, k.key>>] : k \in ClassFinding(ViewAt(v))}
  OBVIOUS
<1>1. /\ app' = app /\ view_' = v + 1 /\ method_' = 1 /\ step_' = 1 /\ saidKeys' = saidKeys
      /\ v \in DOMAIN app.views /\ ~ InMethod
      /\ IF IsJudged(v) THEN filed' = AddFindings(found) ELSE filed' = filed
  BY DEF JudgeClass, InMethod, DeclaredFinding
<1>2. app \in Applications /\ v \in Nat \ {0} /\ saidKeys = {}
  BY <1>1 DEF DeclaredInv
<1>3. filed \subseteq filed' /\ \A f \in filed' : f \in filed \/ (IsJudged(v) /\ f \in found)
  BY <1>1, AddedIsReported
<1>4. IsJudged(v) => ClassSettled(v)'
  <2>. SUFFICES ASSUME IsJudged(v), NEW k \in ClassFinding(ViewAt(v))
                PROVE  ReportedAt(<<"class", k.loc, k.key>>)'
    <3>1. ViewAt(v)' = ViewAt(v)
      BY <1>1 DEF ViewAt
    <3>. QED
      BY <3>1, Zenon DEF ClassSettled
  <2>. PICK f : f = [view |-> v, place |-> <<"class", k.loc, k.key>>]
    OBVIOUS
  <2>1. f \in found /\ f.place = <<"class", k.loc, k.key>>
    OBVIOUS
  <2>2. ReportedAt(f.place)'
    BY <1>1, <2>1, AddedIsReported
  <2>. QED
    BY <2>1, <2>2
<1>5. /\ ViewAt(v)' = ViewAt(v) /\ IsJudged(v)' = IsJudged(v)
  BY <1>1 DEF ViewAt, IsJudged
<1>6. ViewSettled(v)'
  <2>1. ASSUME IsJudged(v), NEW w \in DOMAIN ViewAt(v).methods PROVE MethodSettled(v, w)'
    <3>1. DOMAIN ViewAt(v).methods = 1 .. Len(ViewAt(v).methods) /\ Len(ViewAt(v).methods) \in Nat
      BY <1>1, <1>2, ViewShape
    <3>2. method_ \in Nat \ {0} /\ method_ \notin DOMAIN ViewAt(v).methods
      BY <1>1, <2>1 DEF InMethod, DeclaredInv
    <3>3. w < method_
      BY <3>1, <3>2
    <3>4. MethodSettled(v, w)
      BY <1>1, <2>1, <3>3 DEF DeclaredInv
    <3>. QED
      BY <1>1, <1>3, <3>4, SettledStays
  <2>. QED
    BY <1>4, <1>5, <2>1 DEF ViewSettled
<1>7. ASSUME NEW w \in DOMAIN app.views, w < v + 1
      PROVE  ViewSettled(w)'
  <2>1. DOMAIN app.views \subseteq Nat
    BY <1>2, ViewsListed
  <2>2. w = v \/ w < v
    BY <1>2, <1>7, <2>1
  <2>. QED
    BY <1>1, <1>3, <1>6, <2>2, SettledStays DEF DeclaredInv
<1>8. \A f \in filed' : FiledWell(f)'
  <2>1. ASSUME NEW f \in filed PROVE FiledWell(f)'
    BY <1>1, <2>1, FiledStays DEF DeclaredInv
  <2>2. ASSUME IsJudged(v), NEW f \in found PROVE FiledWell(f)'
    <3>1. f.view = v /\ OfAClass(f)
      BY <2>2 DEF OfAClass
    <3>2. FiledWell(f)
      BY <1>1, <2>2, <3>1 DEF FiledWell
    <3>. QED
      BY <1>1, <3>2, FiledStays
  <2>. QED
    BY <1>3, <2>1, <2>2
<1>9. InMethod' => \A i \in DOMAIN BodyOf(view_, method_)'.steps : ~ (i < step_')
  <2>1. ASSUME InMethod' PROVE DOMAIN BodyOf(v + 1, 1).steps \subseteq Nat \ {0}
    <3>1. v + 1 \in DOMAIN app.views /\ 1 \in DOMAIN ViewAt(v + 1).methods
      BY <1>1, <2>1 DEF InMethod, ViewAt
    <3>. QED
      BY <1>2, <3>1, BodyShape, StepNumbers
  <2>2. BodyOf(view_, method_)' = BodyOf(v + 1, 1)
    BY <1>1 DEF BodyOf, ViewAt
  <2>. QED
    BY <1>1, <2>1, <2>2
<1>10. (view_' \in DOMAIN app'.views /\ IsJudged(view_)') =>
         \A w \in DOMAIN ViewAt(view_)'.methods : ~ (w < method_')
  <2>1. ViewAt(view_)' = ViewAt(v + 1)
    BY <1>1 DEF ViewAt
  <2>2. v + 1 \in DOMAIN app.views => DOMAIN ViewAt(v + 1).methods \subseteq Nat \ {0}
    BY <1>2, ViewShape
  <2>. QED
    BY <1>1, <2>1, <2>2
<1>11. SaidIsFiled' /\ saidKeys' = {}
  BY <1>1, <1>2 DEF SaidIsFiled
<1>12. (app \in Applications)' /\ view_' \in Nat \ {0} /\ method_' \in Nat \ {0} /\ step_' \in Nat \ {0}
  BY <1>1, <1>2
<1>. QED
  BY <1>1, <1>7, <1>8, <1>9, <1>10, <1>11, <1>12 DEF DeclaredInv

LEMMA DeclaredInvariant == DeSpec => []DeclaredInv
<1>1. DeInit => DeclaredInv
  <2>. SUFFICES ASSUME DeInit PROVE DeclaredInv
    OBVIOUS
  <2>1. app \in Applications /\ DOMAIN app.views \subseteq Nat \ {0}
    BY ViewsListed DEF DeInit
  <2>2. InMethod => DOMAIN BodyOf(view_, method_).steps \subseteq Nat \ {0}
    BY <2>1, BodyShape, StepNumbers DEF InMethod
  <2>3. view_ \in DOMAIN app.views => DOMAIN ViewAt(view_).methods \subseteq Nat \ {0}
    BY <2>1, ViewShape
  <2>. QED
    BY <2>1, <2>2, <2>3 DEF DeInit, DeclaredInv, SaidIsFiled
<1>2. DeclaredInv /\ [DeNext]_deVars => DeclaredInv'
  <2>. SUFFICES ASSUME DeclaredInv, [DeNext]_deVars PROVE DeclaredInv'
    OBVIOUS
  <2>1. CASE JudgeStatement
    BY <2>1, JudgedStatement
  <2>2. CASE NextMethod
    BY <2>2, NextMethodJudged
  <2>3. CASE JudgeClass
    BY <2>3, ClassJudged
  <2>4. CASE Dispatch \/ RunStep \/ UNCHANGED deVars
    <3>. PICK v, m : v = view_ /\ m = method_
      OBVIOUS
    <3>1. /\ app' = app /\ filed' = filed /\ saidKeys' = saidKeys /\ step_' = step_
          /\ view_' = v /\ method_' = m
      BY <2>4 DEF Dispatch, RunStep, deVars, judging
    <3>2. /\ BodyOf(v, m)' = BodyOf(v, m) /\ ViewAt(v)' = ViewAt(v)
          /\ IsJudged(v)' = IsJudged(v) /\ InMethod' = InMethod
      BY <3>1 DEF BodyOf, ViewAt, IsJudged, InMethod
    <3>3. \A w \in DOMAIN app.views : w < v => ViewSettled(w)'
      BY <3>1, SettledStays DEF DeclaredInv
    <3>4. (v \in DOMAIN app.views /\ IsJudged(v)) =>
            \A w \in DOMAIN ViewAt(v).methods : w < m => MethodSettled(v, w)'
      BY <3>1, SettledStays DEF DeclaredInv
    <3>5. InMethod => \A i \in DOMAIN BodyOf(v, m).steps : i < step_ => StatementSettled(v, m, i)'
      BY <3>1, SettledStays DEF DeclaredInv
    <3>6. InMethod => SaidIsFiled'
      BY <3>1, <3>2 DEF DeclaredInv, SaidIsFiled, ReportedAt
    <3>7. \A f \in filed : FiledWell(f)'
      BY <3>1, FiledStays DEF DeclaredInv
    <3>8. /\ app \in Applications /\ v \in Nat \ {0} /\ m \in Nat \ {0} /\ step_ \in Nat \ {0}
          /\ ~ InMethod => saidKeys = {}
      BY DEF DeclaredInv
    <3>. QED
      BY <3>1, <3>2, <3>3, <3>4, <3>5, <3>6, <3>7, <3>8 DEF DeclaredInv
  <2>. QED
    BY <2>1, <2>2, <2>3, <2>4 DEF DeNext
<1>. QED
  BY <1>1, <1>2, PTL DEF DeSpec

-----------------------------------------------------------------------------
(* What a class is reported for, and what it is not.                       *)
LEMMA ClassFindingIs ==
  ASSUME app \in Applications, NEW v \in DOMAIN app.views
  PROVE  /\ \A k \in ClassFinding(ViewAt(v)) :
              /\ ~ ViewAt(v).relation /\ Selection(ViewAt(v)) # <<>>
              /\ \A c \in Entries(Selection(ViewAt(v))) \cup Entries(ViewAt(v).constrains) :
                    c.key \notin ViewAt(v).authorizes
         /\ (/\ ~ ViewAt(v).relation /\ Selection(ViewAt(v)) # <<>>
             /\ \A c \in Entries(Selection(ViewAt(v))) \cup Entries(ViewAt(v).constrains) :
                   c.key \notin ViewAt(v).authorizes) =>
              \E k \in Entries(Selection(ViewAt(v))) : k \in ClassFinding(ViewAt(v))
<1>. PICK view : view = ViewAt(v)
  OBVIOUS
<1>. DEFINE keys == Selection(view)
<1>1. view.selects \in Seq(DeclaredKeys) /\ view.constrains \in Seq(DeclaredKeys)
  BY ViewShape
<1>2. /\ view.selects # <<>> => keys \in Seq(DeclaredKeys) /\ Len(keys) = 1
      /\ view.selects = <<>> => keys = view.constrains
  <2>1. view.selects # <<>> => Len(view.selects) \in Nat \ {0}
    BY <1>1
  <2>. QED
    BY <1>1, <2>1 DEF Selection
<1>3. DOMAIN keys = 1 .. Len(keys) /\ Len(keys) \in Nat /\ keys \in Seq(DeclaredKeys)
  BY <1>1, <1>2
<1>4. ASSUME NEW k \in ClassFinding(view)
      PROVE  /\ ~ view.relation /\ keys # <<>>
             /\ \A c \in Entries(keys) \cup Entries(view.constrains) : c.key \notin view.authorizes
  <2>1. ~ view.relation /\ ~ RelatedByQuery(view) /\ k \in UnrelatedKeys(view)
    BY <1>4 DEF ClassFinding
  <2>2. \A c \in Entries(view.constrains) : c.key \notin view.authorizes
    BY <2>1 DEF RelatedByQuery
  <2>3. PICK i \in DOMAIN keys : keys[i].key \notin view.authorizes
    BY <2>1 DEF UnrelatedKeys
  <2>4. keys # <<>>
    BY <1>3, <2>3
  <2>5. \A c \in Entries(keys) : c.key \notin view.authorizes
    <3>1. CASE view.selects = <<>>
      BY <1>2, <2>2, <3>1
    <3>2. CASE view.selects # <<>>
      <4>1. DOMAIN keys = {1}
        BY <1>2, <1>3, <3>2
      <4>. QED
        BY <2>3, <4>1 DEF Entries
    <3>. QED
      BY <3>1, <3>2
  <2>. QED
    BY <2>1, <2>2, <2>4, <2>5
<1>5. ASSUME ~ view.relation, keys # <<>>,
             \A c \in Entries(keys) \cup Entries(view.constrains) : c.key \notin view.authorizes
      PROVE  \E k \in Entries(keys) : k \in ClassFinding(view)
  <2>1. 1 \in DOMAIN keys
    <3>1. Len(keys) # 0
      BY <1>3, <1>5
    <3>. QED
      BY <1>3, <3>1
  <2>2. keys[1] \in Entries(keys)
    BY <2>1 DEF Entries
  <2>3. keys[1] \in UnrelatedKeys(view)
    <3>1. \A m \in 1 .. 1 - 1 : keys[m].key \in view.authorizes
      OBVIOUS
    <3>. QED
      BY <1>5, <2>1, <2>2, <3>1 DEF UnrelatedKeys
  <2>4. ~ RelatedByQuery(view)
    BY <1>5 DEF RelatedByQuery
  <2>. QED
    BY <1>5, <2>2, <2>3, <2>4 DEF ClassFinding
<1>. QED
  BY <1>4, <1>5

(* What a write is handed is what operandKeys says it carries.             *)
LEMMA HandedIsCarriedThere ==
  ASSUME MadeInv, InBody, atLine \in DOMAIN Body.steps, Body.steps[atLine].op = "call"
  PROVE  HandedAt(atLine) = OperandKeys(Served, Body, atLine)
<1>1. Body \in Bodies /\ MadeAsRead(SourcesOf(Served, Body), Body)
  BY ServedBody DEF MadeInv
<1>2. OperandsOf(Body.steps[atLine]) = ReadBy(Body.steps[atLine]) /\ ReadBy(Body.steps[atLine]) \subseteq Local
  BY <1>1, StepReads
<1>3. ASSUME NEW k \in HandedAt(atLine) PROVE k \in OperandKeys(Served, Body, atLine)
  <2>1. PICK u \in OperandsOf(Body.steps[atLine]) : k \in madeOf[u]
    BY <1>3 DEF HandedAt, Made
  <2>2. k \in SourcesOf(Served, Body) /\ u \in LeadsFrom(Body, k)
    BY <1>1, <1>2, <2>1 DEF MadeAsRead
  <2>. QED
    BY <2>1, <2>2 DEF OperandKeys
<1>4. ASSUME NEW k \in OperandKeys(Served, Body, atLine) PROVE k \in HandedAt(atLine)
  <2>1. PICK u \in OperandsOf(Body.steps[atLine]) : u \in LeadsFrom(Body, k) /\ k \in SourcesOf(Served, Body)
    BY <1>4 DEF OperandKeys
  <2>2. k \in madeOf[u]
    BY <1>2, <2>1, ReadsAreExact
  <2>. QED
    BY <2>1, <2>2 DEF HandedAt, Made
<1>. QED
  BY <1>3, <1>4

(* Who is served another record.                                           *)
LEMMA ElsewhereIsReported ==
  ASSUME MadeInv, DeclaredInv
  PROVE  RecordsElsewhereAreReported
<1>. SUFFICES ASSUME request.view # 0, IsJudged(request.view)
              PROVE  /\ (request.method = 0 /\ ServesElsewhere(Served, request.record)) =>
                          \E k \in Entries(Selection(Served)) : ReportedAt(<<"class", k.loc, k.key>>)
                     /\ WritesElsewhere(atLine) =>
                          \E h \in HandedAt(atLine) : \E k \in Local : \E j \in DOMAIN Body.steps :
                            /\ ReportedAt(<<"body", Served.methods[request.method], k, j>>)
                            /\ j = atLine \/ Body.leaf[h] = Body.leaf[k]
  BY DEF RecordsElsewhereAreReported
<1>1. ServesWell
  BY DEF MadeInv
<1>2. /\ app \in Applications /\ request.view \in DOMAIN app.views /\ view_ \notin DOMAIN app.views
      /\ PassesTheCheck(request.view, request.record) /\ view_ \in Nat \ {0}
  BY <1>1 DEF ServesWell, DeclaredInv
<1>3. ViewSettled(request.view)
  <2>1. request.view < view_
    BY <1>2, ViewsListed
  <2>. QED
    BY <1>2, <2>1 DEF DeclaredInv
<1>4. \A a \in Served.authorizes : request.record[Route(a)] = "mine"
  BY <1>2 DEF PassesTheCheck, Served
<1>5. ASSUME ServesElsewhere(Served, request.record)
      PROVE  \E k \in Entries(Selection(Served)) : ReportedAt(<<"class", k.loc, k.key>>)
  <2>1. /\ ~ Served.relation /\ Selection(Served) # <<>>
        /\ \A c \in Entries(Selection(Served)) \cup Entries(Served.constrains) : c.key \notin Served.authorizes
    BY <1>4, <1>5 DEF ServesElsewhere
  <2>2. PICK k \in Entries(Selection(Served)) : k \in ClassFinding(Served)
    BY <1>2, <2>1, ClassFindingIs DEF Served
  <2>. QED
    BY <1>3, <2>2 DEF ViewSettled, ClassSettled, Served
<1>6. ASSUME WritesElsewhere(atLine)
      PROVE  \E h \in HandedAt(atLine) : \E k \in Local : \E j \in DOMAIN Body.steps :
               /\ ReportedAt(<<"body", Served.methods[request.method], k, j>>)
               /\ j = atLine \/ Body.leaf[h] = Body.leaf[k]
  <2>1. /\ InBody /\ atLine \in DOMAIN Body.steps
        /\ Body.steps[atLine].op = "call" /\ Body.steps[atLine].mutates
        /\ \A k \in HandedAt(atLine) : NamesAt(k) = "other"
    BY <1>6 DEF WritesElsewhere, WritesAt, CallSites
  <2>2. PICK h : h \in HandedAt(atLine)
    BY <1>6 DEF WritesElsewhere
  <2>3. HandedAt(atLine) = OperandKeys(Served, Body, atLine)
    BY <2>1, HandedIsCarriedThere
  <2>4. \A k \in HandedAt(atLine) :
          k \notin RelatedSources(Served, Body) /\ k \in RequestFields(Body) /\ Body.leaf[k] \notin Served.authorizes
    <3>. SUFFICES ASSUME NEW k \in HandedAt(atLine)
                  PROVE  /\ k \notin RelatedSources(Served, Body) /\ k \in RequestFields(Body)
                         /\ Body.leaf[k] \notin Served.authorizes
      OBVIOUS
    <3>1. k \notin RelatedSources(Served, Body) /\ request.record[Field(k)] = "other"
      BY <2>1 DEF NamesAt
    <3>2. k \in RequestFields(Body)
      BY <2>3, <3>1 DEF OperandKeys, SourcesOf
    <3>3. ASSUME Body.leaf[k] \in Served.authorizes PROVE FALSE
      <4>1. Body.container[k] = "kwargs"
        BY <1>1, <2>1, <3>2, <3>3, ServedBody DEF NamesAreRouteNames
      <4>2. Field(k) = Route(Body.leaf[k])
        BY <4>1 DEF Field, Route
      <4>. QED
        BY <1>4, <3>1, <3>3, <4>2
    <3>. QED
      BY <3>1, <3>2, <3>3
  <2>5. h \in UnaskedKeys(Served, Body, atLine, {})
    BY <2>1, <2>2, <2>3, <2>4 DEF UnaskedKeys, ScopedBy
  <2>6. StatementSettled(request.view, request.method, atLine)
    <3>1. request.method \in DOMAIN Served.methods
      BY <1>1, <2>1 DEF ServesWell, InBody
    <3>. QED
      BY <1>3, <2>1, <3>1 DEF ViewSettled, MethodSettled, Served, Body
  <2>. QED
    BY <2>2, <2>5, <2>6 DEF StatementSettled, Served, Body
<1>. QED
  BY <1>5, <1>6

(* What is reported is another record.                                     *)
LEMMA ReportedIsElsewhere ==
  ASSUME MadeInv, DeclaredInv
  PROVE  ReportedRecordsAreElsewhere
<1>. SUFFICES ASSUME NEW f \in filed
              PROVE  /\ (/\ f.place[1] = "body" /\ WritesAt(f.place[4])
                         /\ request.view = f.view /\ Served.methods[request.method] = f.place[2]) =>
                          /\ f.place[3] \in HandedAt(atLine)
                          /\ \A k \in HandedAt(atLine) : ~ HeldByTheCheck(k)
                     /\ f.place[1] = "class" =>
                          \E record \in [FieldsOf(f.view) -> {"mine", "other"}] :
                            PassesTheCheck(f.view, record) /\ ServesElsewhere(ViewAt(f.view), record)
  BY DEF ReportedRecordsAreElsewhere
<1>1. /\ app \in Applications /\ f.view \in DOMAIN app.views
      /\ OfAClass(f) \/ OfAMethod(f)
  BY DEF DeclaredInv, FiledWell
<1>2. ASSUME f.place[1] = "body", WritesAt(f.place[4]),
             request.view = f.view, Served.methods[request.method] = f.place[2]
      PROVE  /\ f.place[3] \in HandedAt(atLine)
             /\ \A k \in HandedAt(atLine) : ~ HeldByTheCheck(k)
  <2>1. OfAMethod(f)
    BY <1>1, <1>2 DEF OfAClass
  <2>2. PICK m \in DOMAIN ViewAt(f.view).methods : \E i \in DOMAIN BodyOf(f.view, m).steps :
          \E k \in UnaskedKeys(ViewAt(f.view), BodyOf(f.view, m), i, {}) :
            f.place = <<"body", ViewAt(f.view).methods[m], k, i>>
    BY <2>1 DEF OfAMethod
  <2>. PICK i \in DOMAIN BodyOf(f.view, m).steps :
         \E k \in UnaskedKeys(ViewAt(f.view), BodyOf(f.view, m), i, {}) :
           f.place = <<"body", ViewAt(f.view).methods[m], k, i>>
    BY <2>2
  <2>. PICK k \in UnaskedKeys(ViewAt(f.view), BodyOf(f.view, m), i, {}) :
         f.place = <<"body", ViewAt(f.view).methods[m], k, i>>
    OBVIOUS
  <2>3. Served = ViewAt(f.view) /\ Body = BodyOf(f.view, m) /\ i = atLine /\ f.place[3] = k
    BY <1>2 DEF Served, Body, BodyOf, WritesAt
  <2>4. InBody /\ atLine \in DOMAIN Body.steps /\ Body.steps[atLine].op = "call"
    BY <1>2, <2>3 DEF WritesAt, CallSites
  <2>5. HandedAt(atLine) = OperandKeys(Served, Body, atLine)
    BY <2>4, HandedIsCarriedThere
  <2>6. k \in OperandKeys(Served, Body, atLine) /\ ~ ScopedBy(Served, Body, atLine)
    BY <2>3 DEF UnaskedKeys
  <2>7. ASSUME NEW h \in HandedAt(atLine) PROVE ~ HeldByTheCheck(h)
    <3>1. h \notin RelatedSources(Served, Body) /\ Body.leaf[h] \notin Served.authorizes
      BY <2>5, <2>6, <2>7 DEF ScopedBy
    <3>2. \A a : Field(h) = Route(a) => Body.leaf[h] = a
      BY DEF Field, Route
    <3>. QED
      BY <3>1, <3>2 DEF HeldByTheCheck
  <2>. QED
    BY <2>3, <2>5, <2>6, <2>7
<1>3. ASSUME f.place[1] = "class"
      PROVE  \E record \in [FieldsOf(f.view) -> {"mine", "other"}] :
               PassesTheCheck(f.view, record) /\ ServesElsewhere(ViewAt(f.view), record)
  <2>. PICK view : view = ViewAt(f.view)
    OBVIOUS
  <2>1. OfAClass(f)
    BY <1>1, <1>3 DEF OfAMethod
  <2>2. /\ ~ view.relation /\ Selection(view) # <<>>
        /\ \A c \in Entries(Selection(view)) \cup Entries(view.constrains) : c.key \notin view.authorizes
    <3>. PICK v \in DOMAIN app.views : v = f.view
      BY <1>1
    <3>1. \E k : k \in ClassFinding(ViewAt(v))
      BY <2>1 DEF OfAClass
    <3>2. /\ ~ ViewAt(v).relation /\ Selection(ViewAt(v)) # <<>>
          /\ \A c \in Entries(Selection(ViewAt(v))) \cup Entries(ViewAt(v).constrains) :
                c.key \notin ViewAt(v).authorizes
      BY <1>1, <3>1, ClassFindingIs
    <3>. QED
      BY <3>2
  <2>. DEFINE record == [field \in FieldsOf(f.view) |->
                          IF \E a \in view.authorizes : field = Route(a) THEN "mine" ELSE "other"]
  <2>3. record \in [FieldsOf(f.view) -> {"mine", "other"}]
    OBVIOUS
  <2>4. \A a \in view.authorizes : Route(a) \in FieldsOf(f.view)
    BY DEF FieldsOf
  <2>5. \A c \in Entries(Selection(view)) \cup Entries(view.constrains) : Route(c.key) \in FieldsOf(f.view)
    <3>1. Entries(Selection(view)) \subseteq Entries(view.selects) \cup Entries(view.constrains)
      <4>1. CASE view.selects = <<>>
        BY <4>1 DEF Selection
      <4>2. CASE view.selects # <<>>
        <5>1. view.selects \in Seq(DeclaredKeys)
          <6>. PICK v \in DOMAIN app.views : v = f.view
            BY <1>1
          <6>. QED
            BY <1>1, ViewShape
        <5>2. Len(view.selects) \in Nat \ {0} /\ DOMAIN view.selects = 1 .. Len(view.selects)
          BY <4>2, <5>1
        <5>3. Entries(Selection(view)) = {view.selects[1]} /\ 1 \in DOMAIN view.selects
          BY <4>2, <5>1, <5>2 DEF Selection, Entries
        <5>. QED
          BY <5>3 DEF Entries
      <4>. QED
        BY <4>1, <4>2
    <3>. QED
      BY <3>1 DEF FieldsOf
  <2>6. \A a, b : Route(a) = Route(b) => a = b
    BY DEF Route
  <2>7. PassesTheCheck(f.view, record)
    BY <2>4 DEF PassesTheCheck
  <2>8. \A c \in Entries(Selection(view)) \cup Entries(view.constrains) : record[Route(c.key)] = "other"
    BY <2>2, <2>5, <2>6
  <2>9. ServesElsewhere(ViewAt(f.view), record)
    BY <2>2, <2>8 DEF ServesElsewhere
  <2>. HIDE DEF record
  <2>. QED
    BY <2>3, <2>7, <2>9
<1>. QED
  BY <1>2, <1>3

(* Of every application whose methods write a value before they read it, a *)
(* record that no part of what the check was about relates to the caller   *)
(* is reported, and nothing else is (declared.go:32, 125).                 *)
THEOREM DeclaredCorrect == DeSpec /\ ServedAsWritten(app) => []DeclaredSelectionIsJudged
<1>1. MadeInv /\ DeclaredInv => DeclaredSelectionIsJudged
  BY ElsewhereIsReported, ReportedIsElsewhere DEF DeclaredSelectionIsJudged
<1>. QED
  BY <1>1, MadeInvariant, DeclaredInvariant, PTL
=============================================================================
