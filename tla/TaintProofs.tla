---------------------------- MODULE TaintProofs ----------------------------
(***************************************************************************)
(* What holds of the propagation of module Taint, and of what module       *)
(* Collect makes of it, for every set of values, functions, call sites and *)
(* columns and every program over them.                                    *)
(***************************************************************************)
EXTENDS Collect, FiniteSetTheorems, WellFoundedInduction, TLAPS

(* A nonempty set of naturals has a least element: what the two searches   *)
(* for "the first" rely on.                                                *)
LEMMA LeastNatural ==
  ASSUME NEW T \in SUBSET Nat, T # {}
  PROVE  \E n \in T : \A m \in T : n <= m
<1>1. PICK x \in T : \A y \in T : ~(<<y, x>> \in OpToRel(<, Nat))
  BY NatLessThanWellFounded, WFMin
<1>2. ASSUME NEW y \in T PROVE x <= y
  <2>1. ~(y < x)
    BY <1>1 DEF OpToRel
  <2> QED BY <2>1
<1> QED BY <1>2

-----------------------------------------------------------------------------
(* Recursive functions.  A function defined by recursion on a natural is   *)
(* CHOSEN to satisfy its equation; that some function does is shown here   *)
(* for the iterates of F from a, up to a bound or for every natural, and   *)
(* the walks of the engine are unfolded with it.                           *)
Iterates(g, D, a, F) == \A n \in D : g[n] = IF n = 0 THEN a ELSE F[g[n - 1]]

(* What holds of 0 and of the successor of what it holds of holds of all.  *)
LEMMA AllNaturals ==
  ASSUME NEW S \in SUBSET Nat, 0 \in S, \A n \in Nat : n \in S => n + 1 \in S
  PROVE  S = Nat
<1>1. SUFFICES ASSUME Nat \ S # {} PROVE FALSE
  OBVIOUS
<1>2. PICK n \in Nat \ S : \A m \in Nat \ S : n <= m
  BY <1>1, LeastNatural
<1>3. n # 0 /\ n - 1 \in Nat /\ n - 1 \in S
  BY <1>2
<1> QED BY <1>2, <1>3

(* Up to any bound the iterates of F exist.                                *)
LEMMA IterationUpTo ==
  ASSUME NEW T, NEW a \in T, NEW F \in [T -> T], NEW n \in Nat
  PROVE  \E g \in [0 .. n -> T] : Iterates(g, 0 .. n, a, F)
<1> DEFINE S == {k \in Nat : \E g \in [0 .. k -> T] : Iterates(g, 0 .. k, a, F)}
<1>1. 0 \in S
  <2> DEFINE g == [k \in 0 .. 0 |-> a]
  <2>1. g \in [0 .. 0 -> T] /\ Iterates(g, 0 .. 0, a, F)
    BY DEF Iterates
  <2> QED BY <2>1
<1>2. ASSUME NEW k \in Nat, k \in S PROVE k + 1 \in S
  <2>1. PICK g \in [0 .. k -> T] : Iterates(g, 0 .. k, a, F)
    BY <1>2
  <2> DEFINE h == [m \in 0 .. k + 1 |-> IF m = k + 1 THEN F[g[k]] ELSE g[m]]
  <2>2. k \in 0 .. k /\ \A m \in 0 .. k + 1 : m # k + 1 => m \in 0 .. k
    OBVIOUS
  <2>3. h \in [0 .. k + 1 -> T]
    BY <2>2
  <2>4. ASSUME NEW m \in 0 .. k + 1 PROVE h[m] = IF m = 0 THEN a ELSE F[h[m - 1]]
    <3>1. CASE m = k + 1
      BY <3>1, <2>2
    <3>2. CASE m # k + 1 /\ m = 0
      BY <3>2, <2>1, <2>2 DEF Iterates
    <3>3. CASE m # k + 1 /\ m # 0
      <4>1. m \in 0 .. k /\ m - 1 \in 0 .. k /\ m - 1 # k + 1 /\ m - 1 \in 0 .. k + 1
        BY <3>3
      <4>2. g[m] = F[g[m - 1]]
        BY <4>1, <3>3, <2>1 DEF Iterates
      <4> QED BY <4>1, <4>2, <3>3
    <3> QED BY <3>1, <3>2, <3>3
  <2> HIDE DEF h
  <2>5. Iterates(h, 0 .. k + 1, a, F)
    BY <2>4 DEF Iterates
  <2> QED BY <2>3, <2>5
<1> HIDE DEF S
<1>3. S = Nat
  <2>1. S \in SUBSET Nat
    BY DEF S
  <2> QED BY <1>1, <1>2, <2>1, AllNaturals
<1> QED BY <1>3 DEF S

(* A longer iteration agrees with a shorter one.                           *)
LEMMA IterationAgrees ==
  ASSUME NEW T, NEW a \in T, NEW F \in [T -> T], NEW g, NEW h,
         NEW k \in Nat, NEW l \in Nat, k <= l,
         Iterates(g, 0 .. k, a, F), Iterates(h, 0 .. l, a, F)
  PROVE  \A n \in 0 .. k : g[n] = h[n]
<1> DEFINE D == {n \in 0 .. k : g[n] # h[n]}
<1>1. SUFFICES ASSUME D # {} PROVE FALSE
  OBVIOUS
<1>2. PICK n \in D : \A m \in D : n <= m
  <2>1. D \in SUBSET Nat
    OBVIOUS
  <2> HIDE DEF D
  <2> QED BY <1>1, <2>1, LeastNatural
<1>3. n # 0
  BY <1>2 DEF Iterates
<1>4. n - 1 \in 0 .. k /\ n - 1 \in 0 .. l /\ n \in 0 .. l /\ n - 1 \notin D
  BY <1>2, <1>3
<1> QED BY <1>2, <1>3, <1>4 DEF Iterates

(* The diagonal of the bounded ones is the unbounded one.                  *)
LEMMA Iteration ==
  ASSUME NEW T, NEW a \in T, NEW F \in [T -> T]
  PROVE  \E g \in [Nat -> T] : Iterates(g, Nat, a, F)
<1> DEFINE Part(n) == CHOOSE g \in [0 .. n -> T] : Iterates(g, 0 .. n, a, F)
           all == [n \in Nat |-> Part(n)[n]]
<1>1. ASSUME NEW n \in Nat
      PROVE  Part(n) \in [0 .. n -> T] /\ Iterates(Part(n), 0 .. n, a, F)
  BY IterationUpTo, Zenon
<1> HIDE DEF Part
<1>2. all \in [Nat -> T]
  BY <1>1
<1>3. ASSUME NEW n \in Nat PROVE all[n] = IF n = 0 THEN a ELSE F[all[n - 1]]
  <2>1. n \in 0 .. n /\ Part(n)[n] = IF n = 0 THEN a ELSE F[Part(n)[n - 1]]
    BY <1>1 DEF Iterates
  <2>2. CASE n = 0
    BY <2>1, <2>2
  <2>3. CASE n # 0
    <3>1. n - 1 \in Nat /\ n - 1 <= n /\ n - 1 \in 0 .. n - 1
      BY <2>3
    <3>2. Iterates(Part(n - 1), 0 .. n - 1, a, F) /\ Iterates(Part(n), 0 .. n, a, F)
      BY <3>1, <1>1
    <3>3. Part(n - 1)[n - 1] = Part(n)[n - 1]
      BY <3>1, <3>2, IterationAgrees
    <3> QED BY <3>1, <3>3, <2>1, <2>3
  <2> QED BY <2>2, <2>3
<1> HIDE DEF all
<1>4. Iterates(all, Nat, a, F)
  BY <1>3 DEF Iterates
<1> QED BY <1>2, <1>4

-----------------------------------------------------------------------------
(* The operators of the engine.                                            *)

(* markTainted keeps the type of everything it writes.                     *)
LEMMA MarkTaintedType ==
  ASSUME TypeOK,
         NEW to \in Value, NEW edge \in Edge,
         NEW transform \in BOOLEAN, NEW converter \in BOOLEAN,
         MarkTainted(to, edge, transform, converter)
  PROVE  /\ tainted' \subseteq Value
         /\ pred' \in [Value -> Edge]
         /\ viaTransform' \in [Value -> BOOLEAN]
         /\ viaConverter' \in [Value -> BOOLEAN]
         /\ queue' \in Seq(Value)
<1> DEFINE via  == Via(edge.from) \/ transform
           conv == converter \/ Conv(edge.from)
<1>1. via \in BOOLEAN /\ conv \in BOOLEAN
  BY DEF Via, Conv
<1>2. CASE UNCHANGED marks
  BY <1>2 DEF marks, TypeOK
<1>3. CASE /\ tainted' = tainted \cup {to}
           /\ pred' = [pred EXCEPT ![to] = edge]
           /\ viaTransform' = [viaTransform EXCEPT ![to] = via]
           /\ viaConverter' = [viaConverter EXCEPT ![to] = conv]
           /\ queue' = Append(queue, to)
  <2>1. tainted' \subseteq Value /\ pred' \in [Value -> Edge]
    BY <1>3 DEF TypeOK
  <2>2. viaTransform' \in [Value -> BOOLEAN]
    BY <1>1, <1>3, Zenon DEF TypeOK
  <2>3. viaConverter' \in [Value -> BOOLEAN]
    BY <1>1, <1>3, Zenon DEF TypeOK
  <2>4. queue' \in Seq(Value)
    BY <1>3 DEF TypeOK
  <2> QED BY <2>1, <2>2, <2>3, <2>4
<1> QED BY <1>2, <1>3, Zenon DEF MarkTainted

LEMMA CarriesRecordType ==
  ASSUME TypeOK, NEW from \in Value, NEW to \in Value, CarriesRecord(from, to)
  PROVE  rec' \in [Value -> SUBSET Column]
BY DEF CarriesRecord, TypeOK

(* What taintEnteredViaParam answers is a frame: the parameter it stops at *)
(* is a value of the program.                                              *)
LEMMA EnteredViaParamType ==
  ASSUME TypeOK, NEW f \in Fn, NEW id
  PROVE  EnteredViaParam(f, id) \in Frame
<1> DEFINE back == BackFrom(id)
           hits == {n \in 0 .. HopLimit - 1 : back[n] \in prog.params[f]}
           n0   == CHOOSE n \in hits : \A m \in hits : n <= m
<1>p. prog \in Program
  BY DEF TypeOK
<1>q. prog.params[f] \subseteq Value /\ prog.position \in [Value -> Nat]
  BY <1>p, ProgramAssumption
<1>1. CASE hits = {}
  <2>1. EnteredViaParam(f, id) = NoFrame
    BY <1>1 DEF EnteredViaParam
  <2> QED BY <2>1 DEF NoFrame, Frame
<1>2. CASE hits # {}
  <2>1. hits \in SUBSET Nat
    BY ProgramAssumption
  <2>2. \E n \in hits : \A m \in hits : n <= m
    BY <1>2, <2>1, LeastNatural
  <2>3. n0 \in hits
    BY <2>2
  <2>4. back[n0] \in Value
    BY <2>3, <1>q
  <2> DEFINE p == back[n0]
  <2>5. pred[p].site \in Call \cup {NoCall} /\ prog.position[p] \in Nat
    BY <2>4, <1>q DEF TypeOK, Edge
  <2>6. EnteredViaParam(f, id) =
          [fromParam |-> TRUE, site |-> pred[p].site, index |-> prog.position[p]]
    BY <1>2 DEF EnteredViaParam
  <2> HIDE DEF p
  <2> QED BY <2>5, <2>6 DEF Frame
<1> QED BY <1>1, <1>2

(* passedAtParam answers with a classified argument of the site, or with   *)
(* nothing.                                                                *)
LEMMA PassedAtParamIsHanded ==
  ASSUME TypeOK, NEW site \in Call, NEW index
  PROVE  \/ PassedAtParam(site, index) = NoValue
         \/ /\ PassedAtParam(site, index) \in tainted
            /\ \E j \in DOMAIN prog.hands[site] :
                 prog.hands[site][j].value = PassedAtParam(site, index)
<1> DEFINE hands == prog.hands[site]
           hits  == {i \in DOMAIN hands : /\ hands[i].index = index
                                          /\ hands[i].value \in tainted}
           i0    == CHOOSE i \in hits : \A j \in hits : i <= j
<1>1. CASE hits = {}
  BY <1>1 DEF PassedAtParam
<1>2. CASE hits # {}
  <2>1. hands \in Seq([index : Nat, value : Value])
    BY ProgramAssumption DEF TypeOK
  <2>2. hits \in SUBSET Nat
    BY <2>1
  <2>3. \E i \in hits : \A j \in hits : i <= j
    BY <1>2, <2>2, LeastNatural
  <2>4. i0 \in hits
    BY <2>3
  <2>5. PassedAtParam(site, index) = hands[i0].value
    BY <1>2 DEF PassedAtParam
  <2> QED BY <2>4, <2>5
<1> QED BY <1>1, <1>2

-----------------------------------------------------------------------------
(* The hop at hand is one of the program's, and it stays one after the     *)
(* first is taken off.                                                     *)
LEMMA HeadTail ==
  ASSUME NEW S, NEW s \in Seq(S), s # <<>>
  PROVE  /\ Head(s) \in S /\ Head(s) = s[1] /\ 1 \in DOMAIN s
         /\ Tail(s) \in Seq(S)
         /\ \A i \in DOMAIN Tail(s) : i + 1 \in DOMAIN s /\ Tail(s)[i] = s[i + 1]
OBVIOUS

(* A step that looks at a hop keeps the types if what it marks has them.   *)
LEMMA TypeAfterHop ==
  ASSUME TypeOK, todo # <<>>, todo' = Tail(todo),
         UNCHANGED <<prog, unsown, cur, frame>>,
         tainted' \subseteq Value, pred' \in [Value -> Edge],
         viaTransform' \in [Value -> BOOLEAN],
         viaConverter' \in [Value -> BOOLEAN],
         queue' \in Seq(Value), rec' \in [Value -> SUBSET Column]
  PROVE  TypeOK'
<1>1. todo' \in Seq(Hop) /\ (todo' # <<>> => cur' \in Value)
  BY DEF TypeOK
<1>2. /\ prog' \in Program /\ unsown' \in Seq(Seed)
      /\ cur' \in Value \cup {NoValue} /\ frame' \in Frame
  BY DEF TypeOK
<1> QED BY <1>1, <1>2, Zenon DEF TypeOK

(* Who an answer is attributed to: the value at hand, or a classified      *)
(* argument of the site itself.                                            *)
LEMMA AnswerIsFrom ==
  ASSUME TypeOK, NEW site \in Call, AnswerFrom(site) # NoValue
  PROVE  \/ AnswerFrom(site) = cur
         \/ /\ AnswerFrom(site) \in tainted
            /\ \E j \in DOMAIN prog.hands[site] :
                 prog.hands[site][j].value = AnswerFrom(site)
<1> DEFINE A == frame.fromParam /\ frame.site # NoCall /\ site # frame.site
           B == frame.fromParam /\ frame.site = NoCall /\ ~CallSitePassesTaint(site)
<1>1. CASE A
  <2>1. AnswerFrom(site) = PassedAtParam(site, frame.index)
    BY <1>1, Zenon DEF AnswerFrom
  <2> QED BY <2>1, PassedAtParamIsHanded
<1>2. CASE ~A /\ B
  BY <1>2, Zenon DEF AnswerFrom
<1>3. CASE ~A /\ ~B
  BY <1>3, Zenon DEF AnswerFrom
<1> QED BY <1>1, <1>2, <1>3

(* Every step keeps the types.                                             *)
LEMMA TypeStep == TypeOK /\ [Next]_vars => TypeOK'
<1> SUFFICES ASSUME TypeOK, [Next]_vars PROVE TypeOK'
  OBVIOUS
<1>p. /\ prog \in Program
      /\ prog.hops \in [Value -> Seq(Hop)]
  BY ProgramAssumption DEF TypeOK
<1>h. ASSUME todo # <<>>
      PROVE  /\ Head(todo) \in Hop /\ Tail(todo) \in Seq(Hop)
             /\ Head(todo).to \in Value /\ Head(todo).site \in Call \cup {NoCall}
             /\ Head(todo).fn \in Fn /\ Head(todo).kind \in Kinds
  <2>1. todo \in Seq(Hop)
    BY DEF TypeOK
  <2>2. Head(todo) \in Hop /\ Tail(todo) \in Seq(Hop)
    BY <1>h, <2>1
  <2> QED BY <2>2 DEF Hop
<1>ht. ASSUME todo # <<>> PROVE Head(todo).transform \in BOOLEAN
  BY <1>h, <1>ht, Zenon DEF Hop
<1>n. NoEdge \in Edge
  BY DEF NoEdge, Edge
<1>1. CASE Sow
  <2> DEFINE s == Head(unsown)
  <2>1. s \in Seed /\ Tail(unsown) \in Seq(Seed)
    BY <1>1 DEF Sow, TypeOK
  <2>2. s.value \in Value /\ s.columns \in SUBSET Column
    BY <2>1 DEF Seed
  <2>3. s.converter \in BOOLEAN
    BY <2>1, Zenon DEF Seed
  <2>4. MarkTainted(s.value, NoEdge, FALSE, s.converter)
    BY <1>1 DEF Sow
  <2>5. /\ rec' = IF s.columns = {} THEN rec ELSE [rec EXCEPT ![s.value] = s.columns]
        /\ unsown' = Tail(unsown)
        /\ UNCHANGED <<prog, cur, todo, frame>>
    BY <1>1 DEF Sow
  <2> HIDE DEF s
  <2>6. /\ tainted' \subseteq Value /\ pred' \in [Value -> Edge]
        /\ viaTransform' \in [Value -> BOOLEAN]
        /\ viaConverter' \in [Value -> BOOLEAN] /\ queue' \in Seq(Value)
    <3>1. FALSE \in BOOLEAN
      OBVIOUS
    <3> QED BY <2>2, <2>3, <2>4, <1>n, <3>1, MarkTaintedType, Zenon
  <2>7. rec' \in [Value -> SUBSET Column]
    BY <2>2, <2>5 DEF TypeOK
  <2> QED BY <2>1, <2>5, <2>6, <2>7 DEF TypeOK
<1>2. CASE Take
  <2>1. queue # <<>> /\ queue \in Seq(Value)
    BY <1>2 DEF Take, TypeOK
  <2>2. Head(queue) \in Value /\ Tail(queue) \in Seq(Value)
    BY <2>1
  <2>3. prog.hops[Head(queue)] \in Seq(Hop)
    BY <2>2, <1>p
  <2>4. NoFrame \in Frame
    BY DEF NoFrame, Frame
  <2> QED BY <1>2, <2>2, <2>3, <2>4 DEF Take, TypeOK
<1>3. CASE Follow
  <2> DEFINE h == Head(todo)
             e == [from |-> cur, site |-> h.site, kind |-> h.kind]
  <2>1. todo # <<>> /\ todo' = Tail(todo) /\ UNCHANGED <<prog, unsown, cur, frame>>
    BY <1>3 DEF Follow, AtHop
  <2>2. e \in Edge
    BY <1>h, <2>1 DEF Edge, TypeOK
  <2>3. MarkTainted(h.to, e, h.transform, FALSE)
    BY <1>3 DEF Follow
  <2>4. /\ tainted' \subseteq Value /\ pred' \in [Value -> Edge]
        /\ viaTransform' \in [Value -> BOOLEAN]
        /\ viaConverter' \in [Value -> BOOLEAN] /\ queue' \in Seq(Value)
    <3>1. FALSE \in BOOLEAN /\ h.to \in Value /\ h.transform \in BOOLEAN
      BY <1>h, <1>ht, <2>1, Zenon
    <3> HIDE DEF h, e
    <3> QED BY <2>2, <2>3, <3>1, MarkTaintedType, Zenon
  <2>5. rec' \in [Value -> SUBSET Column]
    <3>1. CASE UNCHANGED rec
      BY <3>1 DEF TypeOK
    <3>2. CASE CarriesRecord(cur, h.to)
      <4>1. h.to \in Value /\ cur \in Value
        BY <1>h, <2>1 DEF TypeOK
      <4> HIDE DEF h
      <4> QED BY <3>2, <4>1, CarriesRecordType
    <3> QED BY <3>1, <3>2, <1>3 DEF Follow
  <2> QED BY <1>h, <2>1, <2>4, <2>5, TypeAfterHop
<1>4. CASE Stop
  <2>1. /\ todo # <<>> /\ todo' = Tail(todo)
        /\ UNCHANGED <<prog, unsown, cur, frame, tainted, pred, viaTransform,
                       viaConverter, rec, queue>>
    BY <1>4 DEF Stop, AtHop, marks
  <2> QED BY <1>h, <2>1 DEF TypeOK
<1>5. CASE Leave
  <2>1. /\ todo # <<>> /\ todo' = Tail(todo)
        /\ UNCHANGED <<prog, unsown, cur, tainted, pred, viaTransform,
                       viaConverter, rec, queue>>
        /\ frame' = EnteredViaParam(Head(todo).fn, cur)
    BY <1>5 DEF Leave, AtHop, marks
  <2>2. frame' \in Frame
    BY <1>h, <2>1, EnteredViaParamType
  <2> QED BY <1>h, <2>1, <2>2 DEF TypeOK
<1>6. CASE Return
  <2> DEFINE h    == Head(todo)
             from == AnswerFrom(h.site)
  <2>1. todo # <<>> /\ todo' = Tail(todo) /\ UNCHANGED <<prog, unsown, cur, frame>>
    BY <1>6 DEF Return, AtHop
  <2>2. CASE UNCHANGED <<marks, rec>>
    BY <1>h, <2>1, <2>2 DEF TypeOK, marks
  <2>3. CASE /\ from # NoValue
             /\ MarkTainted(h.to, [from |-> from, site |-> NoCall,
                                   kind |-> "return"], FALSE, FALSE)
             /\ CarriesRecord(from, h.to)
    <3>1. from \in Value
      <4>1. h.site \in Call
        <5>1. h.kind = "return" /\ h \in Hop
          BY <1>h, <2>1, <1>6 DEF Return
        <5> QED BY <5>1 DEF Hop
      <4>2. cur \in Value
        BY <2>1 DEF TypeOK
      <4> QED BY <4>1, <4>2, <2>3, AnswerIsFrom DEF TypeOK
    <3>2. h.to \in Value
      BY <1>h, <2>1
    <3> DEFINE e == [from |-> from, site |-> NoCall, kind |-> "return"]
    <3>3. e \in Edge
      BY <3>1 DEF Edge, Kinds
    <3>4. FALSE \in BOOLEAN
      OBVIOUS
    <3> HIDE DEF h, from, e
    <3>5. MarkTainted(h.to, e, FALSE, FALSE) /\ CarriesRecord(from, h.to)
      BY <2>3 DEF e
    <3>6. /\ tainted' \subseteq Value /\ pred' \in [Value -> Edge]
          /\ viaTransform' \in [Value -> BOOLEAN]
          /\ viaConverter' \in [Value -> BOOLEAN] /\ queue' \in Seq(Value)
      BY <3>2, <3>3, <3>4, <3>5, MarkTaintedType, Zenon
    <3>7. rec' \in [Value -> SUBSET Column]
      BY <3>1, <3>2, <3>5, CarriesRecordType
    <3> QED BY <1>h, <2>1, <3>6, <3>7, TypeAfterHop
  <2> QED BY <2>2, <2>3, <1>6 DEF Return
<1>7. CASE UNCHANGED vars
  BY <1>7 DEF vars, TypeOK
<1> QED BY <1>1, <1>2, <1>3, <1>4, <1>5, <1>6, <1>7 DEF Next

LEMMA TypeInit == Init => TypeOK
<1> SUFFICES ASSUME Init PROVE TypeOK
  OBVIOUS
<1>1. NoEdge \in Edge /\ NoFrame \in Frame
  BY DEF NoEdge, Edge, NoFrame, Frame
<1>2. viaTransform \in [Value -> BOOLEAN] /\ viaConverter \in [Value -> BOOLEAN]
  BY Zenon DEF Init
<1> QED BY <1>1, <1>2, ProgramAssumption DEF Init, TypeOK

(* Type correctness, for every program: in particular no step follows a    *)
(* hop out of a value that is none.                                        *)
THEOREM TypeCorrect == Spec => []TypeOK
BY TypeInit, TypeStep, PTL DEF Spec

-----------------------------------------------------------------------------
(* Scores.                                                                 *)
LEMMA ChainScoreNat ==
  ASSUME NEW c \in BOOLEAN, NEW t \in BOOLEAN
  PROVE  ChainScore(c, t) \in Nat
<1>1. CASE c
  BY <1>1 DEF ChainScore
<1>2. CASE ~c
  BY <1>2 DEF ChainScore
<1> QED BY <1>1, <1>2

(* Going along one more hop never lowers the score.                        *)
LEMMA ChainScoreGrows ==
  ASSUME NEW c \in BOOLEAN, NEW t \in BOOLEAN, NEW d \in BOOLEAN, NEW u \in BOOLEAN
  PROVE  ChainScore(c, t) <= ChainScore(d \/ c, t \/ u)
<1>1. CASE c /\ t
  BY <1>1 DEF ChainScore
<1>2. CASE c /\ ~t
  BY <1>2 DEF ChainScore
<1>3. CASE ~c /\ t
  BY <1>3 DEF ChainScore
<1>4. CASE ~c /\ ~t
  BY <1>4 DEF ChainScore
<1> QED BY <1>1, <1>2, <1>3, <1>4

(* What one markTainted does, in terms of scores: nothing, or it gives one *)
(* value a strictly better chain that continues a classified value's.      *)
LEMMA MarkTaintedScores ==
  ASSUME TypeOK,
         NEW to \in Value, NEW edge \in Edge,
         NEW transform \in BOOLEAN, NEW converter \in BOOLEAN,
         MarkTainted(to, edge, transform, converter)
  PROVE  \/ UNCHANGED <<tainted, pred, viaTransform, viaConverter, queue>>
         \/ /\ tainted' = tainted \cup {to}
            /\ pred' = [pred EXCEPT ![to] = edge]
            /\ queue' = Append(queue, to)
            /\ \A v \in Value : v # to => Chain(v)' = Chain(v)
            /\ \A v \in Value : Chain(v) \in Nat /\ Chain(v)' \in Nat
            /\ to \in tainted => Chain(to)' < Chain(to)
            /\ edge.from # NoValue => Chain(edge.from) <= Chain(to)'
<1> DEFINE via  == Via(edge.from) \/ transform
           conv == converter \/ Conv(edge.from)
<1>1. via \in BOOLEAN /\ conv \in BOOLEAN
  BY DEF Via, Conv
<1>2. CASE UNCHANGED marks
  BY <1>2 DEF marks
<1>3. CASE ~(to \in tainted /\ ChainScore(conv, via) >= Chain(to)) /\ ~UNCHANGED marks
  <2>1. /\ tainted' = tainted \cup {to}
        /\ pred' = [pred EXCEPT ![to] = edge]
        /\ viaTransform' = [viaTransform EXCEPT ![to] = via]
        /\ viaConverter' = [viaConverter EXCEPT ![to] = conv]
        /\ queue' = Append(queue, to)
    BY <1>3, Zenon DEF MarkTainted
  <2>2. /\ viaTransform \in [Value -> BOOLEAN] /\ viaConverter \in [Value -> BOOLEAN]
    BY DEF TypeOK
  <2>3. viaTransform' \in [Value -> BOOLEAN] /\ viaConverter' \in [Value -> BOOLEAN]
    BY MarkTaintedType
  <2>4. viaTransform'[to] = via /\ viaConverter'[to] = conv
    BY <2>1, <2>2, Zenon
  <2>5. \A v \in Value : v # to => /\ viaTransform'[v] = viaTransform[v]
                                   /\ viaConverter'[v] = viaConverter[v]
    BY <2>1, <2>2, Zenon
  <2>6. \A v \in Value : v # to => Chain(v)' = Chain(v)
    BY <2>5, Zenon DEF Chain
  <2>7. Chain(to)' = ChainScore(conv, via)
    BY <2>4, Zenon DEF Chain
  <2>8. ASSUME NEW v \in Value PROVE Chain(v) \in Nat /\ Chain(v)' \in Nat
    <3>1. /\ viaTransform[v] \in BOOLEAN /\ viaConverter[v] \in BOOLEAN
          /\ viaTransform'[v] \in BOOLEAN /\ viaConverter'[v] \in BOOLEAN
      BY <2>2, <2>3, <2>8, Zenon
    <3> QED BY <3>1, ChainScoreNat, Zenon DEF Chain
  <2>9. to \in tainted => Chain(to)' < Chain(to)
    <3>1. to \in tainted => ~(Chain(to)' >= Chain(to))
      BY <1>3, <2>7, Zenon
    <3>2. Chain(to)' \in Nat /\ Chain(to) \in Nat
      BY <2>8
    <3> QED BY <3>1, <3>2
  <2>10. ASSUME edge.from # NoValue PROVE Chain(edge.from) <= Chain(to)'
    <3>1. edge.from \in Value
      BY <2>10 DEF Edge
    <3>2. viaTransform[edge.from] \in BOOLEAN /\ viaConverter[edge.from] \in BOOLEAN
      BY <2>2, <3>1, Zenon
    <3>3. Via(edge.from) = viaTransform[edge.from] /\ Conv(edge.from) = viaConverter[edge.from]
      BY <2>10, <3>2, Zenon DEF Via, Conv
    <3>4. Chain(edge.from) <= ChainScore(converter \/ viaConverter[edge.from],
                                         viaTransform[edge.from] \/ transform)
      BY <3>2, ChainScoreGrows, Zenon DEF Chain
    <3> QED BY <2>7, <3>3, <3>4, Zenon
  <2> HIDE DEF via, conv
  <2> QED BY <2>1, <2>6, <2>8, <2>9, <2>10, Zenon
<1> QED BY <1>2, <1>3, Zenon DEF MarkTainted, marks

-----------------------------------------------------------------------------
(* The inductive invariant behind the forest of witnesses.  Acyclicity     *)
(* alone is not inductive: it is the scores that keep a displaced edge     *)
(* from running into a value that descends from the one displaced.         *)
ForestInv == TypeOK /\ ChainsGrow /\ WitnessesReachASeed

(* One markTainted from a classified value, or from a source, keeps it.    *)
LEMMA MarkKeepsForest ==
  ASSUME ForestInv,
         NEW to \in Value, NEW edge \in Edge,
         NEW transform \in BOOLEAN, NEW converter \in BOOLEAN,
         edge.from = NoValue \/ edge.from \in tainted,
         MarkTainted(to, edge, transform, converter)
  PROVE  /\ WitnessesReachASeed'
         /\ tainted \subseteq tainted'
         /\ \A i \in DOMAIN queue' : queue'[i] \in tainted'
         /\ \A v \in tainted' :
              pred'[v].from # NoValue =>
                pred'[v].from \in tainted' /\ Chain(pred[v].from)' <= Chain(v)'
<1>0. TypeOK /\ ChainsGrow /\ WitnessesReachASeed
  BY DEF ForestInv
<1>1. CASE UNCHANGED <<tainted, pred, viaTransform, viaConverter, queue>>
  BY <1>0, <1>1, Zenon DEF ChainsGrow, WitnessesReachASeed, Chain
<1>2. CASE /\ tainted' = tainted \cup {to}
           /\ pred' = [pred EXCEPT ![to] = edge]
           /\ queue' = Append(queue, to)
           /\ \A v \in Value : v # to => Chain(v)' = Chain(v)
           /\ \A v \in Value : Chain(v) \in Nat /\ Chain(v)' \in Nat
           /\ to \in tainted => Chain(to)' < Chain(to)
           /\ edge.from # NoValue => Chain(edge.from) <= Chain(to)'
  <2>1. /\ pred'[to] = edge
        /\ \A v \in Value : v # to => pred'[v] = pred[v]
        /\ tainted \subseteq Value /\ tainted' \subseteq Value
    BY <1>0, <1>2 DEF TypeOK
  <2>2. edge.from # to \/ edge.from = NoValue
    <3> SUFFICES ASSUME edge.from = to, edge.from # NoValue PROVE FALSE
      OBVIOUS
    <3>1. to \in tainted
      OBVIOUS
    <3> QED BY <3>1, <1>2
  <2>3. \A i \in DOMAIN queue' : queue'[i] \in tainted'
    <3>1. queue \in Seq(Value)
      BY <1>0 DEF TypeOK
    <3>2. \A i \in DOMAIN queue' : queue'[i] = to \/ (i \in DOMAIN queue /\ queue'[i] = queue[i])
      BY <1>2, <3>1
    <3> QED BY <1>0, <1>2, <3>2 DEF ChainsGrow
  (* A displaced value scores lower than before, so chains through it      *)
  (* still do not say more than it does.                                   *)
  <2>4. ASSUME NEW v \in tainted', pred'[v].from # NoValue
        PROVE  pred'[v].from \in tainted' /\ Chain(pred[v].from)' <= Chain(v)'
    <3>1. CASE v = to
      <4>1. pred'[v].from = edge.from /\ edge.from \in tainted /\ edge.from # to
        BY <2>1, <2>2, <2>4, <3>1
      <4>2. Chain(edge.from)' = Chain(edge.from)
        BY <1>2, <2>1, <4>1
      <4>3. Chain(pred[v].from)' = Chain(edge.from)'
        BY <4>1, Zenon DEF Chain
      <4> QED BY <1>2, <2>4, <3>1, <4>1, <4>2, <4>3
    <3>2. CASE v # to
      <4>1. v \in tainted /\ pred'[v] = pred[v] /\ v \in Value
        BY <1>2, <2>1, <3>2
      <4>0. PICK w \in tainted : w = pred[v].from /\ Chain(w) <= Chain(v)
        BY <1>0, <2>4, <4>1 DEF ChainsGrow
      <4>2. w \in tainted /\ Chain(w) <= Chain(v)
        BY <4>0
      <4>3. Chain(pred[v].from)' = Chain(w)'
        BY <4>0, <4>1, Zenon DEF Chain
      <4>4. w \in Value /\ w \in tainted'
        BY <4>2, <2>1, <1>2
      <4>5. Chain(v)' = Chain(v)
        BY <1>2, <4>1, <3>2
      <4>6. Chain(w)' <= Chain(w)
        <5>1. CASE w = to
          BY <5>1, <1>2, <4>2, <4>4
        <5>2. CASE w # to
          BY <5>2, <1>2, <4>4
        <5> QED BY <5>1, <5>2
      <4>7. Chain(w)' \in Nat /\ Chain(w) \in Nat /\ Chain(v) \in Nat
        BY <1>2, <4>1, <4>4
      <4>8. Chain(w)' \in Nat /\ Chain(w) \in Nat /\ Chain(v) \in Nat
            => Chain(w)' <= Chain(v)'
        BY <4>2, <4>5, <4>6
      <4> QED BY <4>0, <4>1, <4>3, <4>4, <4>7, <4>8
    <3> QED BY <3>1, <3>2
  (* A set that explained itself after the step would, cut down to the     *)
  (* values scoring no more than `to' and without `to', have done so       *)
  (* before it.                                                            *)
  <2>5. WitnessesReachASeed'
    <3> SUFFICES ASSUME NEW S \in SUBSET tainted', S # {},
                        \A v \in S : pred'[v].from \in S
                 PROVE  FALSE
      BY DEF WitnessesReachASeed
    <3>0. S \subseteq Value /\ NoValue \notin S
      BY <2>1, ProgramAssumption
    <3>1. CASE to \notin S
      <4>1. S \subseteq tainted /\ \A v \in S : pred[v].from \in S
        BY <1>2, <2>1, <3>0, <3>1
      <4> QED BY <1>0, <4>1 DEF WitnessesReachASeed
    <3>2. CASE to \in S
      <4> DEFINE T == {v \in S : v # to /\ Chain(v) <= Chain(to)'}
      <4>1. edge.from \in S /\ edge.from # to
        BY <2>1, <2>2, <3>0, <3>2
      <4>2. edge.from \in T
        BY <1>2, <3>0, <4>1
      <4>3. ASSUME NEW v \in T PROVE pred[v].from \in T
        <5> DEFINE w == pred[v].from
        <5>1. v \in S /\ v # to /\ v \in Value /\ v \in tainted
          BY <1>2, <3>0, <4>3
        <5>2. w \in S /\ w # NoValue /\ w \in Value
          BY <2>1, <3>0, <5>1
        <5>3. Chain(w) <= Chain(v) /\ Chain(v) <= Chain(to)'
          BY <1>0, <4>3, <5>1, <5>2 DEF ChainsGrow
        <5>4. Chain(w) \in Nat /\ Chain(v) \in Nat /\ Chain(to)' \in Nat
          BY <1>2, <5>1, <5>2
        <5>5. Chain(w) <= Chain(to)'
          <6> HIDE DEF w
          <6> QED BY <5>3, <5>4
        <5>6. w # to
          <6>1. to \in tainted => ~(Chain(to) <= Chain(to)')
            <7>1. Chain(to) \in Nat /\ Chain(to)' \in Nat
              BY <1>2
            <7> QED BY <1>2, <7>1
          <6>2. w \in tainted
            BY <1>0, <5>1, <5>2 DEF ChainsGrow
          <6> QED BY <5>5, <6>1, <6>2
        <5> QED BY <5>2, <5>5, <5>6
      <4>4. T \subseteq tainted
        BY <1>2
      <4> HIDE DEF T
      <4> QED BY <1>0, <4>2, <4>3, <4>4 DEF WitnessesReachASeed
    <3> QED BY <3>1, <3>2
  <2> QED BY <1>2, <2>3, <2>4, <2>5
<1> QED BY <1>0, <1>1, <1>2, MarkTaintedScores

(* Every mark of the engine continues the chain of a classified value.     *)
LEMMA ReturnMarks ==
  ASSUME ForestInv, Return
  PROVE  \/ UNCHANGED <<marks, rec>>
         \/ \E to \in Value, edge \in Edge :
              /\ MarkTainted(to, edge, FALSE, FALSE)
              /\ to = Head(todo).to /\ edge.from \in tainted
              /\ edge.from = AnswerFrom(Head(todo).site)
<1> DEFINE h    == Head(todo)
           from == AnswerFrom(h.site)
           e    == [from |-> from, site |-> NoCall, kind |-> "return"]
<1>1. TypeOK /\ ChainsGrow
  BY DEF ForestInv
<1>2. todo # <<>> /\ todo \in Seq(Hop) /\ h.kind = "return"
  BY <1>1 DEF Return, AtHop, TypeOK
<1>3. h \in Hop
  BY <1>2
<1>4. h.to \in Value /\ h.site \in Call
  BY <1>2, <1>3 DEF Hop
<1>5. CASE from # NoValue
  <2>1. from \in tainted
    <3>1. cur \in tainted
      BY <1>1, <1>2 DEF ChainsGrow
    <3> QED BY <1>1, <1>4, <1>5, <3>1, AnswerIsFrom
  <2>2. MarkTainted(h.to, e, FALSE, FALSE)
    BY <1>5 DEF Return
  <2>3. e \in Edge /\ e.from = from
    BY <2>1, <1>1 DEF Edge, Kinds, TypeOK
  <2> HIDE DEF e, from, h
  <2>4. MarkTainted(h.to, e, FALSE, FALSE) /\ h.to = h.to
        /\ e.from \in tainted /\ e.from = from
    BY <2>1, <2>2, <2>3
  <2>5. \E to \in Value, edge \in Edge :
          /\ MarkTainted(to, edge, FALSE, FALSE)
          /\ to = h.to /\ edge.from \in tainted /\ edge.from = from
    BY <2>3, <2>4, <1>4, Zenon
  <2> QED BY <2>5, Zenon DEF h, from
<1>6. CASE from = NoValue
  BY <1>6 DEF Return
<1> QED BY <1>5, <1>6

LEMMA FollowMarks ==
  ASSUME ForestInv, Follow
  PROVE  \E to \in Value, edge \in Edge, transform \in BOOLEAN :
           /\ MarkTainted(to, edge, transform, FALSE)
           /\ to = Head(todo).to /\ edge.from \in tainted /\ edge.from = cur
<1> DEFINE h == Head(todo)
           e == [from |-> cur, site |-> h.site, kind |-> h.kind]
<1>1. TypeOK /\ ChainsGrow
  BY DEF ForestInv
<1>2. todo # <<>> /\ todo \in Seq(Hop) /\ cur \in tainted
  BY <1>1 DEF Follow, AtHop, TypeOK, ChainsGrow
<1>3. h \in Hop
  BY <1>2
<1>4. h.to \in Value /\ h.site \in Call \cup {NoCall} /\ h.kind \in Kinds
  BY <1>3 DEF Hop
<1>5. h.transform \in BOOLEAN
  BY <1>3, Zenon DEF Hop
<1>6. e \in Edge /\ e.from = cur
  BY <1>1, <1>2, <1>4 DEF Edge, TypeOK
<1>7. MarkTainted(h.to, e, h.transform, FALSE)
  BY DEF Follow
<1> HIDE DEF h, e
<1>8. MarkTainted(h.to, e, h.transform, FALSE) /\ h.to = h.to
      /\ e.from \in tainted /\ e.from = cur
  BY <1>2, <1>6, <1>7
<1> QED BY <1>4, <1>5, <1>6, <1>8, Zenon DEF h

LEMMA SowMarks ==
  ASSUME ForestInv, Sow
  PROVE  \E to \in Value, converter \in BOOLEAN :
           /\ MarkTainted(to, NoEdge, FALSE, converter) /\ to = Head(unsown).value
<1> DEFINE s == Head(unsown)
<1>1. TypeOK /\ unsown # <<>>
  BY DEF ForestInv, Sow
<1>2. s \in Seed
  BY <1>1 DEF TypeOK
<1>3. s.value \in Value
  BY <1>2 DEF Seed
<1>4. s.converter \in BOOLEAN
  BY <1>2, Zenon DEF Seed
<1>5. MarkTainted(s.value, NoEdge, FALSE, s.converter) /\ s.value = s.value
  BY DEF Sow
<1> HIDE DEF s
<1> QED BY <1>3, <1>4, <1>5, Zenon DEF s

LEMMA ForestStep == ForestInv /\ [Next]_vars => ForestInv'
<1> SUFFICES ASSUME ForestInv, [Next]_vars PROVE ForestInv'
  OBVIOUS
<1>0. TypeOK /\ ChainsGrow /\ WitnessesReachASeed
  BY DEF ForestInv
<1>t. TypeOK'
  BY <1>0, TypeStep
<1>f. FALSE \in BOOLEAN
  OBVIOUS
<1> SUFFICES ChainsGrow' /\ WitnessesReachASeed'
  BY <1>t DEF ForestInv
<1>1. CASE Sow
  <2>1. UNCHANGED <<cur, todo>>
    BY <1>1 DEF Sow
  <2>2. PICK to \in Value, converter \in BOOLEAN :
          MarkTainted(to, NoEdge, FALSE, converter)
    BY <1>1, SowMarks
  <2>3. NoEdge \in Edge /\ NoEdge.from = NoValue
    BY DEF NoEdge, Edge
  <2>4. /\ WitnessesReachASeed' /\ tainted \subseteq tainted'
        /\ \A i \in DOMAIN queue' : queue'[i] \in tainted'
        /\ \A v \in tainted' : pred'[v].from # NoValue =>
             pred'[v].from \in tainted' /\ Chain(pred[v].from)' <= Chain(v)'
    BY <1>f, <2>2, <2>3, MarkKeepsForest, Zenon
  <2>5. todo' # <<>> => cur' \in tainted'
    BY <1>0, <2>1, <2>4 DEF ChainsGrow
  <2> QED BY <2>4, <2>5, Zenon DEF ChainsGrow
<1>2. CASE Take
  <2>1. /\ UNCHANGED <<tainted, pred, viaTransform, viaConverter>>
        /\ queue # <<>> /\ queue' = Tail(queue) /\ cur' = Head(queue)
    BY <1>2 DEF Take
  <2>2. queue \in Seq(Value)
    BY <1>0 DEF TypeOK
  <2>3. /\ cur' = queue[1] /\ 1 \in DOMAIN queue
        /\ \A i \in DOMAIN queue' : i + 1 \in DOMAIN queue /\ queue'[i] = queue[i + 1]
    BY <2>1, <2>2
  <2>4. /\ cur' \in tainted'
        /\ \A i \in DOMAIN queue' : queue'[i] \in tainted'
    BY <1>0, <2>1, <2>3 DEF ChainsGrow
  <2>5. \A v \in tainted' : pred'[v].from # NoValue =>
          pred'[v].from \in tainted' /\ Chain(pred[v].from)' <= Chain(v)'
    BY <1>0, <2>1, Zenon DEF ChainsGrow, Chain
  <2>6. WitnessesReachASeed'
    BY <1>0, <2>1 DEF WitnessesReachASeed
  <2> QED BY <2>4, <2>5, <2>6 DEF ChainsGrow
<1>3. CASE Follow
  <2>1. todo # <<>> /\ cur' = cur
    BY <1>3 DEF Follow, AtHop
  <2>2. PICK to \in Value, edge \in Edge, transform \in BOOLEAN :
          MarkTainted(to, edge, transform, FALSE) /\ edge.from \in tainted
    BY <1>3, FollowMarks
  <2>4. /\ WitnessesReachASeed' /\ tainted \subseteq tainted'
        /\ \A i \in DOMAIN queue' : queue'[i] \in tainted'
        /\ \A v \in tainted' : pred'[v].from # NoValue =>
             pred'[v].from \in tainted' /\ Chain(pred[v].from)' <= Chain(v)'
    BY <1>f, <2>2, MarkKeepsForest, Zenon
  <2>5. cur' \in tainted'
    BY <1>0, <2>1, <2>4 DEF ChainsGrow
  <2> QED BY <2>4, <2>5, Zenon DEF ChainsGrow
<1>4. CASE /\ UNCHANGED <<tainted, pred, viaTransform, viaConverter, queue, cur>>
           /\ todo' # <<>> => todo # <<>>
  <2>1. \A v \in tainted' : pred'[v].from # NoValue =>
          pred'[v].from \in tainted' /\ Chain(pred[v].from)' <= Chain(v)'
    BY <1>0, <1>4, Zenon DEF ChainsGrow, Chain
  <2>2. /\ \A i \in DOMAIN queue' : queue'[i] \in tainted'
        /\ todo' # <<>> => cur' \in tainted'
    BY <1>0, <1>4 DEF ChainsGrow
  <2>3. WitnessesReachASeed'
    BY <1>0, <1>4 DEF WitnessesReachASeed
  <2> QED BY <2>1, <2>2, <2>3 DEF ChainsGrow
<1>5. CASE Stop \/ Leave
  BY <1>4, <1>5 DEF Stop, Leave, AtHop, marks
<1>6. CASE Return
  <2>1. todo # <<>> /\ cur' = cur
    BY <1>6 DEF Return, AtHop
  <2>2. CASE UNCHANGED <<marks, rec>>
    BY <1>4, <2>1, <2>2 DEF marks
  <2>3. CASE \E to \in Value, edge \in Edge :
               MarkTainted(to, edge, FALSE, FALSE) /\ edge.from \in tainted
    <3>1. PICK to \in Value, edge \in Edge :
            MarkTainted(to, edge, FALSE, FALSE) /\ edge.from \in tainted
      BY <2>3
    <3>2. /\ WitnessesReachASeed' /\ tainted \subseteq tainted'
          /\ \A i \in DOMAIN queue' : queue'[i] \in tainted'
          /\ \A v \in tainted' : pred'[v].from # NoValue =>
               pred'[v].from \in tainted' /\ Chain(pred[v].from)' <= Chain(v)'
      BY <1>f, <3>1, MarkKeepsForest, Zenon
    <3>3. cur' \in tainted'
      BY <1>0, <2>1, <3>2 DEF ChainsGrow
    <3> QED BY <3>2, <3>3, Zenon DEF ChainsGrow
  <2> QED BY <1>6, <2>2, <2>3, ReturnMarks
<1>7. CASE UNCHANGED vars
  BY <1>4, <1>7 DEF vars
<1> QED BY <1>1, <1>2, <1>3, <1>5, <1>6, <1>7 DEF Next

LEMMA ForestInit == Init => ForestInv
BY TypeInit DEF Init, ForestInv, ChainsGrow, WitnessesReachASeed

LEMMA ForestInvariant == Spec => []ForestInv
BY ForestInit, ForestStep, PTL DEF Spec

(* For every program, whatever is displaced and in whatever order, the     *)
(* walk tracePath takes from a classified value ends at a seed.            *)
THEOREM WitnessesGrounded == Spec => []WitnessesReachASeed
<1>1. ForestInv => WitnessesReachASeed
  BY DEF ForestInv
<1> QED BY <1>1, ForestInvariant, PTL

-----------------------------------------------------------------------------
(* The engine keeps a forest of evidence.                                  *)

(* What is left to look at is what the program hands on, or a source.      *)
AgendaIsTheProgram ==
  /\ todo # <<>> => \A i \in DOMAIN todo :
       \E j \in DOMAIN prog.hops[cur] : prog.hops[cur][j] = todo[i]
  /\ \A i \in DOMAIN unsown : unsown[i].value \in Evidence!Sources

LEMMA AgendaStep == TypeOK /\ AgendaIsTheProgram /\ [Next]_vars => AgendaIsTheProgram'
<1> SUFFICES ASSUME TypeOK, AgendaIsTheProgram, [Next]_vars PROVE AgendaIsTheProgram'
  OBVIOUS
<1>0. todo \in Seq(Hop) /\ unsown \in Seq(Seed) /\ queue \in Seq(Value)
  BY DEF TypeOK
<1>1. prog' = prog
  BY DEF Next, Sow, Take, Follow, Stop, Leave, Return, AtHop, vars
<1>2. Evidence!Sources' = Evidence!Sources
  BY <1>1 DEF Evidence!Sources
<1>3. CASE Sow
  <2>1. todo' = todo /\ cur' = cur /\ unsown # <<>> /\ unsown' = Tail(unsown)
    BY <1>3 DEF Sow
  <2>2. \A i \in DOMAIN unsown' : i + 1 \in DOMAIN unsown /\ unsown'[i] = unsown[i + 1]
    BY <1>0, <2>1
  <2>3. \A i \in DOMAIN unsown' : unsown'[i].value \in Evidence!Sources
    BY <2>2 DEF AgendaIsTheProgram
  <2> QED BY <1>1, <1>2, <2>1, <2>3 DEF AgendaIsTheProgram
<1>4. CASE Take
  <2>1. unsown' = unsown /\ todo' = prog.hops[cur']
    BY <1>4 DEF Take
  <2> QED BY <1>1, <1>2, <2>1 DEF AgendaIsTheProgram
<1>5. CASE Follow \/ Stop \/ Leave \/ Return
  <2>1. todo # <<>> /\ todo' = Tail(todo) /\ UNCHANGED <<unsown, cur>>
    BY <1>5 DEF Follow, Stop, Leave, Return, AtHop
  <2>2. \A i \in DOMAIN todo' : i + 1 \in DOMAIN todo /\ todo'[i] = todo[i + 1]
    BY <1>0, <2>1
  <2> QED BY <1>1, <1>2, <2>1, <2>2 DEF AgendaIsTheProgram
<1>6. CASE UNCHANGED vars
  BY <1>1, <1>2, <1>6 DEF vars, AgendaIsTheProgram
<1> QED BY <1>3, <1>4, <1>5, <1>6 DEF Next

Parents == [v \in Value |-> pred[v].from]

(* A mark is a step of the forest when its edge is one the program makes.  *)
LEMMA MarkAttaches ==
  ASSUME TypeOK, WitnessesReachASeed', tainted' \subseteq Value, prog' = prog,
         NEW to \in Value, NEW edge \in Edge,
         NEW transform \in BOOLEAN, NEW converter \in BOOLEAN,
         MarkTainted(to, edge, transform, converter),
         \/ edge.from = NoValue /\ to \in Evidence!Sources
         \/ edge.from \in tainted /\ Evidence!HandsOn(edge.from, to)
  PROVE  [Evidence!Next]_<<prog, tainted, Parents>>
<1>1. CASE UNCHANGED <<tainted, pred, viaTransform, viaConverter, queue>>
  BY <1>1 DEF Parents
<1>2. CASE tainted' = tainted \cup {to} /\ pred' = [pred EXCEPT ![to] = edge]
  <2>1. Parents' = [Parents EXCEPT ![to] = edge.from]
    BY <1>2 DEF Parents, TypeOK
  <2>2. Evidence!Grounded(tainted', Parents')
    <3> SUFFICES ASSUME NEW S \in SUBSET tainted', S # {}
                 PROVE  \E v \in S : Parents'[v] \notin S
      BY DEF Evidence!Grounded
    <3>1. PICK v \in S : pred'[v].from \notin S
      BY DEF WitnessesReachASeed
    <3>2. Parents'[v] = pred'[v].from
      BY DEF Parents
    <3> QED BY <3>1, <3>2
  <2>3. edge.from \in Value \cup {NoValue}
    BY DEF Edge
  <2>4. Evidence!Attach(to, edge.from)
    BY <1>2, <2>1, <2>2 DEF Evidence!Attach, Parents
  <2> QED BY <2>3, <2>4 DEF Evidence!Next
<1> QED BY <1>1, <1>2, MarkTaintedScores

LEMMA EvidenceStep ==
  ForestInv /\ AgendaIsTheProgram /\ ForestInv' /\ [Next]_vars
    => [Evidence!Next]_<<prog, tainted, Parents>>
<1> SUFFICES ASSUME ForestInv, AgendaIsTheProgram, ForestInv', [Next]_vars
             PROVE  [Evidence!Next]_<<prog, tainted, Parents>>
  OBVIOUS
<1>0. TypeOK /\ ChainsGrow /\ WitnessesReachASeed' /\ tainted' \subseteq Value
  BY DEF ForestInv, TypeOK
<1>p. prog' = prog
  BY DEF Next, Sow, Take, Follow, Stop, Leave, Return, AtHop, vars
<1>f. FALSE \in BOOLEAN
  OBVIOUS
<1>h. ASSUME todo # <<>>
      PROVE  /\ cur \in Value /\ cur \in tainted
             /\ Head(todo) \in Hop
             /\ \E j \in DOMAIN prog.hops[cur] : prog.hops[cur][j] = Head(todo)
  <2>1. todo \in Seq(Hop) /\ cur \in Value
    BY <1>0, <1>h DEF TypeOK
  <2>2. Head(todo) = todo[1] /\ 1 \in DOMAIN todo /\ Head(todo) \in Hop
    BY <1>h, <2>1
  <2> QED BY <1>0, <1>h, <2>1, <2>2 DEF AgendaIsTheProgram, ChainsGrow
<1>1. CASE Sow
  <2>1. PICK to \in Value, converter \in BOOLEAN :
          MarkTainted(to, NoEdge, FALSE, converter) /\ to = Head(unsown).value
    BY <1>1, SowMarks
  <2>2. to \in Evidence!Sources
    <3>1. unsown \in Seq(Seed) /\ unsown # <<>>
      BY <1>0, <1>1 DEF TypeOK, Sow
    <3>2. Head(unsown) = unsown[1] /\ 1 \in DOMAIN unsown
      BY <3>1
    <3> QED BY <2>1, <3>2 DEF AgendaIsTheProgram
  <2>3. NoEdge \in Edge /\ NoEdge.from = NoValue
    BY DEF NoEdge, Edge
  <2> QED BY <1>0, <1>f, <1>p, <2>1, <2>2, <2>3, MarkAttaches, Zenon
<1>2. CASE Take \/ Stop \/ Leave
  BY <1>2, <1>p DEF Take, Stop, Leave, marks, Parents
<1>3. CASE Follow
  <2>1. PICK to \in Value, edge \in Edge, transform \in BOOLEAN :
          /\ MarkTainted(to, edge, transform, FALSE)
          /\ to = Head(todo).to /\ edge.from \in tainted /\ edge.from = cur
    BY <1>3, FollowMarks
  <2>2. todo # <<>> /\ Head(todo).kind # "leave"
    BY <1>3 DEF Follow, AtHop
  <2>3. PICK j \in DOMAIN prog.hops[cur] : prog.hops[cur][j] = Head(todo)
    BY <1>h, <2>2
  <2>4. Evidence!HandsOn(edge.from, to)
    BY <2>1, <2>2, <2>3 DEF Evidence!HandsOn
  <2> QED BY <1>0, <1>f, <1>p, <2>1, <2>4, MarkAttaches, Zenon
<1>4. CASE Return
  <2>1. CASE UNCHANGED <<marks, rec>>
    BY <1>p, <2>1 DEF marks, Parents
  <2>2. CASE \E to \in Value, edge \in Edge :
               /\ MarkTainted(to, edge, FALSE, FALSE)
               /\ to = Head(todo).to /\ edge.from \in tainted
               /\ edge.from = AnswerFrom(Head(todo).site)
    <3>1. PICK to \in Value, edge \in Edge :
            /\ MarkTainted(to, edge, FALSE, FALSE)
            /\ to = Head(todo).to /\ edge.from \in tainted
            /\ edge.from = AnswerFrom(Head(todo).site)
      BY <2>2
    <3>2. todo # <<>> /\ Head(todo).kind = "return"
      BY <1>4 DEF Return, AtHop
    <3>3. PICK j \in DOMAIN prog.hops[cur] : prog.hops[cur][j] = Head(todo)
      BY <1>h, <3>2
    <3>4. Head(todo).site \in Call /\ cur \in Value
      BY <1>h, <3>2 DEF Hop
    <3>5. AnswerFrom(Head(todo).site) # NoValue
      BY <1>0, <3>1, ProgramAssumption DEF TypeOK
    <3>6. Evidence!HandsOn(edge.from, to)
      <4>1. CASE edge.from = cur
        BY <3>1, <3>2, <3>3, <4>1 DEF Evidence!HandsOn
      <4>2. CASE \E i \in DOMAIN prog.hands[Head(todo).site] :
                   prog.hands[Head(todo).site][i].value = edge.from
        BY <3>1, <3>2, <3>3, <3>4, <4>2 DEF Evidence!HandsOn
      <4> QED BY <1>0, <3>1, <3>4, <3>5, <4>1, <4>2, AnswerIsFrom
    <3> QED BY <1>0, <1>f, <1>p, <3>1, <3>6, MarkAttaches, Zenon
  <2> QED BY <1>4, <2>1, <2>2, ReturnMarks
<1>5. CASE UNCHANGED vars
  BY <1>5 DEF vars, Parents
<1> QED BY <1>1, <1>2, <1>3, <1>4, <1>5 DEF Next

LEMMA EvidenceInit == Init => Evidence!Init /\ AgendaIsTheProgram
<1> SUFFICES ASSUME Init PROVE Evidence!Init /\ AgendaIsTheProgram
  OBVIOUS
<1>1. Evidence!Init
  BY DEF Init, Evidence!Init, NoEdge
<1>2. AgendaIsTheProgram
  BY DEF Init, AgendaIsTheProgram, Evidence!Sources
<1> QED BY <1>1, <1>2

(* The propagation implements the forest of evidence, for every program.   *)
THEOREM EvidenceKept == Spec => KeepsEvidence
<1>1. ForestInv => TypeOK
  BY DEF ForestInv
<1>2. Parents = [v \in Value |-> pred[v].from]
  BY DEF Parents
<1> QED BY <1>1, EvidenceInit, EvidenceStep, AgendaStep, ForestInvariant, PTL
        DEF Spec, KeepsEvidence, Evidence!Spec, Parents

-----------------------------------------------------------------------------
(* Nothing is left to carry, and the kept chain is the least excused one.  *)
(* A hop a classified value could still take is either taken, with a chain *)
(* no better left to offer, or the value is waiting for its turn, or it is *)
(* the value at hand and the hop still to come.                            *)

Offered(v, h) ==
  /\ h.to \in tainted
  /\ Chain(h.to) <= ChainScore(viaConverter[v], viaTransform[v] \/ h.transform)

Waiting(v)   == \E i \in DOMAIN queue : queue[i] = v
AtHand(v, h) == cur = v /\ \E i \in DOMAIN todo : todo[i] = h

CarriedInv ==
  \A v \in tainted : \A i \in DOMAIN prog.hops[v] :
    LET h == prog.hops[v][i]
    IN  Unconditional(v, h) => Offered(v, h) \/ Waiting(v) \/ AtHand(v, h)

(* A row stays a row.                                                      *)
LEMMA RecordsStay ==
  ASSUME TypeOK, [Next]_vars, NEW v \in Value, IsRecord(v)
  PROVE  IsRecord(v)'
<1>. rec \in [Value -> SUBSET Column]
  BY DEF TypeOK
<1>1. ASSUME NEW from, NEW to, CarriesRecord(from, to) PROVE IsRecord(v)'
  BY <1>1 DEF CarriesRecord, IsRecord
<1>2. ASSUME UNCHANGED rec PROVE IsRecord(v)'
  BY <1>2 DEF IsRecord
<1>3. CASE Sow
  BY <1>3 DEF Sow, IsRecord
<1>4. CASE Take \/ Stop \/ Leave \/ UNCHANGED vars
  BY <1>2, <1>4 DEF Take, Stop, Leave, vars
<1>5. CASE Follow
  <2>1. UNCHANGED rec \/ CarriesRecord(cur, Head(todo).to)
    BY <1>5 DEF Follow
  <2>. QED BY <1>1, <1>2, <2>1
<1>6. CASE Return
  <2>1. UNCHANGED rec \/ CarriesRecord(AnswerFrom(Head(todo).site), Head(todo).to)
    BY <1>6 DEF Return
  <2>. QED BY <1>1, <1>2, <2>1
<1>. QED BY <1>3, <1>4, <1>5, <1>6 DEF Next

(* Whatever is marked, a value that has offered what it can, or waits, has *)
(* afterwards offered what it can, or waits; the one marked waits.         *)
LEMMA MarkKeepsOffers ==
  ASSUME TypeOK,
         NEW to \in Value, NEW edge \in Edge,
         NEW transform \in BOOLEAN, NEW converter \in BOOLEAN,
         MarkTainted(to, edge, transform, converter),
         NEW v \in Value, NEW h \in Hop, v \in tainted',
         v \in tainted => Offered(v, h) \/ Waiting(v)
  PROVE  Offered(v, h)' \/ Waiting(v)'
<1>t. h.to \in Value
  BY DEF Hop
<1>1. CASE UNCHANGED <<tainted, pred, viaTransform, viaConverter, queue>>
  <2>1. Chain(h.to)' = Chain(h.to)
    BY <1>1, Zenon DEF Chain
  <2>2. v \in tainted
    BY <1>1
  <2>3. Offered(v, h) => Offered(v, h)'
    BY <1>1, <2>1, Zenon DEF Offered
  <2>4. Waiting(v) => Waiting(v)'
    BY <1>1 DEF Waiting
  <2> QED BY <2>2, <2>3, <2>4
<1>2. CASE /\ tainted' = tainted \cup {to}
           /\ queue' = Append(queue, to)
           /\ \A w \in Value : w # to => Chain(w)' = Chain(w)
           /\ \A w \in Value : Chain(w) \in Nat /\ Chain(w)' \in Nat
           /\ to \in tainted => Chain(to)' < Chain(to)
  <2>q. queue \in Seq(Value)
    BY DEF TypeOK
  <2>1. CASE v = to
    <3>1. Len(queue) + 1 \in DOMAIN queue' /\ queue'[Len(queue) + 1] = to
      BY <1>2, <2>q
    <3> QED BY <2>1, <3>1 DEF Waiting
  <2>2. CASE v # to /\ Waiting(v)
    <3>1. PICK i \in DOMAIN queue : queue[i] = v
      BY <2>2 DEF Waiting
    <3>2. i \in DOMAIN queue' /\ queue'[i] = v
      BY <1>2, <2>q, <3>1
    <3> QED BY <3>2 DEF Waiting
  <2>3. CASE v # to /\ Offered(v, h)
    <3>1. viaTransform'[v] = viaTransform[v] /\ viaConverter'[v] = viaConverter[v]
      BY <2>3, Zenon DEF MarkTainted, marks, TypeOK
    <3> DEFINE offer == ChainScore(viaConverter[v], viaTransform[v] \/ h.transform)
    <3>2. offer' = offer
      BY <3>1, Zenon
    <3>3. offer \in Nat
      <4>1. viaConverter[v] \in BOOLEAN /\ (viaTransform[v] \/ h.transform) \in BOOLEAN
        BY Zenon DEF TypeOK, Hop
      <4> QED BY <4>1, ChainScoreNat
    <3>4. h.to \in tainted /\ Chain(h.to) <= offer
      BY <2>3 DEF Offered
    <3>5. Chain(h.to)' <= Chain(h.to) /\ Chain(h.to) \in Nat /\ Chain(h.to)' \in Nat
      BY <1>2, <1>t, <3>4
    <3>6. h.to \in tainted'
      BY <1>2, <3>4
    <3> HIDE DEF offer
    <3>7. Chain(h.to)' <= offer'
      BY <3>2, <3>3, <3>4, <3>5
    <3> QED BY <3>6, <3>7 DEF Offered, offer
  <2> QED BY <1>2, <2>1, <2>2, <2>3
<1> QED BY <1>1, <1>2, MarkTaintedScores

(* The hop that is followed has been offered, unless the value it leaves   *)
(* was itself given a better chain by it and waits again.                  *)
LEMMA FollowOffers ==
  ASSUME TypeOK, NEW v \in Value, NEW h \in Hop, NEW edge \in Edge,
         edge.from = v, v \in tainted,
         MarkTainted(h.to, edge, h.transform, FALSE)
  PROVE  Offered(v, h)' \/ Waiting(v)'
<1>0. /\ h.to \in Value /\ v # NoValue
      /\ viaTransform \in [Value -> BOOLEAN] /\ viaConverter \in [Value -> BOOLEAN]
  BY ProgramAssumption DEF TypeOK, Hop
<1>b. h.transform \in BOOLEAN /\ viaTransform[v] \in BOOLEAN /\ viaConverter[v] \in BOOLEAN
  BY <1>0, Zenon DEF Hop
<1> DEFINE via   == viaTransform[v] \/ h.transform
           conv  == viaConverter[v]
<1>1. Via(edge.from) \/ h.transform <=> via
  BY <1>0, Zenon DEF Via
<1>2. FALSE \/ Conv(edge.from) <=> conv
  BY <1>0, Zenon DEF Conv
<1>3. (Via(edge.from) \/ h.transform) = via /\ (FALSE \/ Conv(edge.from)) = conv
  BY <1>1, <1>2, <1>b, Zenon DEF Via, Conv
<1>4. IF h.to \in tainted /\ ChainScore(conv, via) >= Chain(h.to)
      THEN UNCHANGED marks
      ELSE /\ tainted' = tainted \cup {h.to}
           /\ viaTransform' = [viaTransform EXCEPT ![h.to] = via]
           /\ viaConverter' = [viaConverter EXCEPT ![h.to] = conv]
           /\ queue' = Append(queue, h.to)
  BY <1>3, Zenon DEF MarkTainted
<1>n. ChainScore(conv, via) \in Nat
  <2>1. via \in BOOLEAN /\ conv \in BOOLEAN
    BY <1>b, Zenon
  <2> QED BY <2>1, ChainScoreNat
<1>m. Chain(h.to) \in Nat
  <2>1. viaTransform[h.to] \in BOOLEAN /\ viaConverter[h.to] \in BOOLEAN
    BY <1>0, Zenon
  <2> QED BY <2>1, ChainScoreNat DEF Chain
<1>5. CASE h.to \in tainted /\ ChainScore(conv, via) >= Chain(h.to)
  <2>1. UNCHANGED marks
    BY <1>4, <1>5, Zenon
  <2>2. tainted' = tainted /\ viaTransform' = viaTransform /\ viaConverter' = viaConverter
    BY <2>1 DEF marks
  <2>3. Chain(h.to)' = Chain(h.to) /\ ChainScore(conv, via)' = ChainScore(conv, via)
    BY <2>2, Zenon DEF Chain
  <2>4. Chain(h.to) <= ChainScore(conv, via)
    BY <1>5, <1>n, <1>m
  <2>5. Chain(h.to)' <= ChainScore(conv, via)'
    BY <2>3, <2>4, Zenon
  <2>6. h.to \in tainted'
    BY <1>5, <2>2
  <2> QED BY <2>5, <2>6, Zenon DEF Offered
<1>6. CASE ~(h.to \in tainted /\ ChainScore(conv, via) >= Chain(h.to))
  <2>1. /\ tainted' = tainted \cup {h.to}
        /\ viaTransform' = [viaTransform EXCEPT ![h.to] = via]
        /\ viaConverter' = [viaConverter EXCEPT ![h.to] = conv]
        /\ queue' = Append(queue, h.to)
    BY <1>4, <1>6, Zenon
  <2>2. CASE h.to = v
    <3>1. queue \in Seq(Value)
      BY DEF TypeOK
    <3>2. Len(queue) + 1 \in DOMAIN queue' /\ queue'[Len(queue) + 1] = h.to
      BY <1>0, <2>1, <3>1
    <3> QED BY <2>2, <3>2 DEF Waiting
  <2>3. CASE h.to # v
    <3>1. viaTransform'[v] = viaTransform[v] /\ viaConverter'[v] = viaConverter[v]
      BY <1>0, <2>1, <2>3, Zenon
    <3>2. viaTransform'[h.to] = via /\ viaConverter'[h.to] = conv
      BY <1>0, <2>1, Zenon
    <3>3. Chain(h.to)' = ChainScore(conv, via)
      BY <3>2, Zenon DEF Chain
    <3>4. ChainScore(conv, via)' = ChainScore(conv, via)
      BY <3>1, Zenon
    <3>5. ChainScore(conv, via) <= ChainScore(conv, via)
      BY <1>n
    <3>6. Chain(h.to)' <= ChainScore(conv, via)'
      BY <3>3, <3>4, <3>5, Zenon
    <3>7. h.to \in tainted'
      BY <2>1
    <3> QED BY <3>6, <3>7, Zenon DEF Offered
  <2> QED BY <2>2, <2>3
<1> QED BY <1>5, <1>6

LEMMA CarriedStepOne ==
  ASSUME ForestInv, CarriedInv, [Next]_vars,
         NEW v \in Value, NEW h \in Hop, NEW i \in DOMAIN prog.hops[v],
         h = prog.hops[v][i], v \in tainted', Unconditional(v, h)'
  PROVE  Offered(v, h)' \/ Waiting(v)' \/ AtHand(v, h)'
<1>0. TypeOK /\ ChainsGrow
  BY DEF ForestInv
<1>f. FALSE \in BOOLEAN
  OBVIOUS
<1>1. Unconditional(v, h)
  <2>1. IsRecord(v) => IsRecord(v)'
    BY <1>0, RecordsStay
  <2>2. Unconditional(v, h)' => Unconditional(v, h)
    BY <2>1, Zenon DEF Unconditional
  <2> QED BY <2>2
<1>2. h.kind \notin {"leave", "return"}
  BY <1>1 DEF Unconditional
<1>3. v \in tainted => Offered(v, h) \/ Waiting(v) \/ AtHand(v, h)
  BY <1>1, Zenon DEF CarriedInv
(* What a hop passed over leaves to come.                                  *)
<1>4. ASSUME todo # <<>>, todo' = Tail(todo), cur' = cur, AtHand(v, h)
      PROVE  AtHand(v, h)' \/ (cur = v /\ Head(todo) = h)
  <2>1. todo \in Seq(Hop)
    BY <1>0 DEF TypeOK
  <2>2. PICK j \in DOMAIN todo : todo[j] = h
    BY <1>4 DEF AtHand
  <2>3. CASE j = 1
    BY <1>4, <2>1, <2>2, <2>3 DEF AtHand
  <2>4. CASE j # 1
    <3>1. j - 1 \in DOMAIN todo' /\ todo'[j - 1] = h
      BY <1>4, <2>1, <2>2, <2>4
    <3> QED BY <1>4, <3>1 DEF AtHand
  <2> QED BY <2>3, <2>4
<1>5. ASSUME UNCHANGED <<tainted, viaTransform, viaConverter, queue>>
      PROVE  /\ v \in tainted
             /\ Offered(v, h) => Offered(v, h)'
             /\ Waiting(v) => Waiting(v)'
  <2>1. Chain(h.to)' = Chain(h.to)
    BY <1>5, Zenon DEF Chain
  <2>2. Offered(v, h) => Offered(v, h)'
    BY <1>5, <2>1, Zenon DEF Offered
  <2> QED BY <1>5, <2>2 DEF Waiting
<1>6. CASE Sow
  <2>1. UNCHANGED <<cur, todo>>
    BY <1>6 DEF Sow
  <2>2. AtHand(v, h) => AtHand(v, h)'
    BY <2>1 DEF AtHand
  <2>3. PICK to \in Value, converter \in BOOLEAN : MarkTainted(to, NoEdge, FALSE, converter)
    BY <1>6, SowMarks
  <2>4. NoEdge \in Edge
    BY DEF NoEdge, Edge
  <2>5. CASE v \in tainted => Offered(v, h) \/ Waiting(v)
    BY <1>0, <1>f, <2>3, <2>4, <2>5, MarkKeepsOffers, Zenon
  <2> QED BY <1>3, <2>2, <2>5
<1>7. CASE Take
  <2>1. /\ UNCHANGED <<tainted, viaTransform, viaConverter>>
        /\ todo = <<>> /\ queue # <<>> /\ queue' = Tail(queue)
        /\ cur' = Head(queue) /\ todo' = prog.hops[Head(queue)]
    BY <1>7 DEF Take
  <2>2. queue \in Seq(Value)
    BY <1>0 DEF TypeOK
  <2>3. ~AtHand(v, h)
    BY <2>1 DEF AtHand
  <2>4. CASE Offered(v, h)
    <3>1. Chain(h.to)' = Chain(h.to)
      BY <2>1, Zenon DEF Chain
    <3> QED BY <2>1, <2>4, <3>1, Zenon DEF Offered
  <2>5. CASE Waiting(v)
    <3>1. PICK j \in DOMAIN queue : queue[j] = v
      BY <2>5 DEF Waiting
    <3>2. CASE j = 1
      <4>1. cur' = v /\ todo' = prog.hops[v]
        BY <2>1, <2>2, <3>1, <3>2
      <4> QED BY <4>1 DEF AtHand
    <3>3. CASE j # 1
      <4>1. j - 1 \in DOMAIN queue' /\ queue'[j - 1] = v
        BY <2>1, <2>2, <3>1, <3>3
      <4> QED BY <4>1 DEF Waiting
    <3> QED BY <3>2, <3>3
  <2> QED BY <1>3, <2>1, <2>3, <2>4, <2>5
<1>8. CASE Follow
  <2>1. todo # <<>> /\ todo' = Tail(todo) /\ cur' = cur /\ todo \in Seq(Hop)
    BY <1>0, <1>8 DEF Follow, AtHop, TypeOK
  <2>e. Head(todo) \in Hop /\ cur \in tainted /\ cur \in Value
    BY <1>0, <2>1 DEF ChainsGrow, TypeOK
  <2> DEFINE e == [from |-> cur, site |-> Head(todo).site, kind |-> Head(todo).kind]
  <2>2. /\ e \in Edge /\ e.from = cur
        /\ MarkTainted(Head(todo).to, e, Head(todo).transform, FALSE)
    <3>1. MarkTainted(Head(todo).to, e, Head(todo).transform, FALSE)
      BY <1>8 DEF Follow
    <3>2. e \in Edge /\ e.from = cur
      BY <2>e DEF Edge, Hop
    <3> QED BY <3>1, <3>2
  <2>3. Head(todo).to \in Value /\ Head(todo).transform \in BOOLEAN
    BY <2>e, Zenon DEF Hop
  <2> HIDE DEF e
  <2>4. CASE v \in tainted => Offered(v, h) \/ Waiting(v)
    BY <1>0, <1>f, <2>2, <2>3, <2>4, MarkKeepsOffers, Zenon
  <2>5. CASE cur = v /\ Head(todo) = h
    <3>1. e.from = v /\ v \in tainted /\ MarkTainted(h.to, e, h.transform, FALSE)
      BY <2>2, <2>5, <2>e, Zenon
    <3> QED BY <1>0, <2>2, <3>1, FollowOffers
  <2> QED BY <1>3, <1>4, <2>1, <2>4, <2>5
<1>9. CASE Stop
  <2>1. /\ todo # <<>> /\ todo' = Tail(todo) /\ cur' = cur
        /\ UNCHANGED <<tainted, viaTransform, viaConverter, queue>>
        /\ ~Carries(Head(todo))
    BY <1>9 DEF Stop, AtHop, marks
  <2>2. ~(cur = v /\ Head(todo) = h)
    BY <1>1, <2>1, Zenon DEF Carries, Unconditional
  <2> QED BY <1>3, <1>4, <1>5, <2>1, <2>2
<1>10. CASE Leave
  <2>1. /\ todo # <<>> /\ todo' = Tail(todo) /\ cur' = cur
        /\ UNCHANGED <<tainted, viaTransform, viaConverter, queue>>
        /\ Head(todo).kind = "leave"
    BY <1>10 DEF Leave, AtHop, marks
  <2> QED BY <1>2, <1>3, <1>4, <1>5, <2>1
<1>11. CASE Return
  <2>1. /\ todo # <<>> /\ todo' = Tail(todo) /\ cur' = cur
        /\ Head(todo).kind = "return"
    BY <1>11 DEF Return, AtHop
  <2>2. CASE UNCHANGED <<marks, rec>>
    BY <1>2, <1>3, <1>4, <1>5, <2>1, <2>2 DEF marks
  <2>3. CASE \E to \in Value, edge \in Edge : MarkTainted(to, edge, FALSE, FALSE)
    <3>1. PICK to \in Value, edge \in Edge : MarkTainted(to, edge, FALSE, FALSE)
      BY <2>3
    <3>2. CASE v \in tainted => Offered(v, h) \/ Waiting(v)
      BY <1>0, <1>f, <3>1, <3>2, MarkKeepsOffers, Zenon
    <3> QED BY <1>2, <1>3, <1>4, <2>1, <3>2
  <2> QED BY <1>11, <2>2, <2>3, ReturnMarks
<1>12. CASE UNCHANGED vars
  <2>1. UNCHANGED <<tainted, viaTransform, viaConverter, queue, cur, todo>>
    BY <1>12 DEF vars
  <2>2. AtHand(v, h) => AtHand(v, h)'
    BY <2>1 DEF AtHand
  <2> QED BY <1>3, <1>5, <2>1, <2>2
<1> QED BY <1>6, <1>7, <1>8, <1>9, <1>10, <1>11, <1>12 DEF Next

(* What is offered, waits or is at hand stays so.                          *)
LEMMA CarriedStep == ForestInv /\ CarriedInv /\ [Next]_vars => CarriedInv'
<1> SUFFICES ASSUME ForestInv, CarriedInv, [Next]_vars,
                    NEW v \in tainted', NEW i \in DOMAIN prog'.hops[v],
                    NEW h, h = prog'.hops[v][i], Unconditional(v, h)'
             PROVE  Offered(v, h)' \/ Waiting(v)' \/ AtHand(v, h)'
  BY DEF CarriedInv
<1>1. prog' = prog
  BY DEF Next, vars, Sow, Take, Follow, Stop, Leave, Return, AtHop
<1>2. v \in Value
  <2>1. TypeOK'
    BY TypeStep DEF ForestInv
  <2> QED BY <2>1 DEF TypeOK
<1>3. h \in Hop /\ i \in DOMAIN prog.hops[v] /\ h = prog.hops[v][i]
  <2>1. prog.hops[v] \in Seq(Hop)
    BY <1>2, ProgramAssumption DEF ForestInv, TypeOK
  <2> QED BY <1>1, <2>1
<1> QED BY <1>2, <1>3, CarriedStepOne

LEMMA CarriedInvariant == Spec => []CarriedInv
<1>1. Init => CarriedInv
  BY DEF Init, CarriedInv
<1> QED BY <1>1, CarriedStep, ForestInvariant, PTL DEF Spec

(* When propagation stops, for every program: the class has gone along     *)
(* every hop of every value it reached that the value alone decides.       *)
THEOREM NothingIsLeft == Spec => []NothingLeftToCarry
<1>1. CarriedInv => NothingLeftToCarry
  <2> SUFFICES ASSUME CarriedInv, Quiescent, NEW v \in tainted,
                      NEW i \in DOMAIN prog.hops[v], Unconditional(v, prog.hops[v][i])
               PROVE  prog.hops[v][i].to \in tainted
    BY DEF NothingLeftToCarry
  <2>1. ~Waiting(v) /\ ~AtHand(v, prog.hops[v][i])
    BY DEF Quiescent, Waiting, AtHand
  <2>2. Offered(v, prog.hops[v][i])
    BY <2>1 DEF CarriedInv
  <2> QED BY <2>2 DEF Offered
<1> QED BY <1>1, CarriedInvariant, PTL

(* And the chain it keeps of each is the least excused one on offer,       *)
(* whichever arrived first.                                                *)
THEOREM BestChainIsKept == Spec => []KeptChainIsBest
<1>1. CarriedInv => KeptChainIsBest
  <2> SUFFICES ASSUME CarriedInv, Quiescent, NEW v \in tainted,
                      NEW i \in DOMAIN prog.hops[v], NEW h, h = prog.hops[v][i],
                      Unconditional(v, h)
               PROVE  Chain(h.to) <=
                        ChainScore(viaConverter[v], viaTransform[v] \/ h.transform)
    BY DEF KeptChainIsBest
  <2>1. ~Waiting(v) /\ ~AtHand(v, h)
    BY DEF Quiescent, Waiting, AtHand
  <2>2. Offered(v, h)
    BY <2>1 DEF CarriedInv
  <2> QED BY <2>2 DEF Offered
<1> QED BY <1>1, CarriedInvariant, PTL

-----------------------------------------------------------------------------
(* What propagation leaves for collect: the kept edges are hops of the     *)
(* program, and no seed is forgotten.                                      *)

(* The kept edge of a value is a hop of the program, and one that names a  *)
(* sanitizer is remembered; where there is none, the value is a seed.      *)
KeptHops ==
  \A w \in tainted :
    IF pred[w].from = NoValue THEN IsSeed(w)
    ELSE /\ RoutesInto(w) # {}
         /\ prog.way[<<pred[w].from, w>>].symbol # "" => viaTransform[w]

(* A seed without a converter is still to be sown, or its value has the    *)
(* least chain there is.                                                   *)
Sown(s) == s.converter \/ (s.value \in tainted /\ Chain(s.value) = 0)

SeedsSown ==
  \A i \in DOMAIN prog.seeds :
    (\E j \in DOMAIN unsown : unsown[j] = prog.seeds[i]) \/ Sown(prog.seeds[i])

(* One mark along an edge the program makes keeps the kept edges hops.     *)
LEMMA MarkKeepsHops ==
  ASSUME TypeOK, KeptHops, prog' = prog, tainted' \subseteq Value,
         NEW to \in Value, NEW edge \in Edge,
         NEW transform \in BOOLEAN, NEW converter \in BOOLEAN,
         MarkTainted(to, edge, transform, converter),
         edge.from = NoValue => IsSeed(to),
         edge.from # NoValue =>
           /\ \E u \in tainted : \E i \in DOMAIN prog.hops[u] : prog.hops[u][i].to = to
           /\ prog.way[<<edge.from, to>>].symbol # "" => transform
  PROVE  KeptHops'
<1>1. CASE UNCHANGED marks
  BY <1>1 DEF marks, KeptHops, IsSeed, RoutesInto
<1>2. CASE ~UNCHANGED marks
  <2> DEFINE via == Via(edge.from) \/ transform
  <2>1. /\ tainted' = tainted \cup {to}
        /\ pred' = [pred EXCEPT ![to] = edge]
        /\ viaTransform' = [viaTransform EXCEPT ![to] = via]
    BY <1>2, Zenon DEF MarkTainted
  <2>2. pred \in [Value -> Edge] /\ viaTransform \in [Value -> BOOLEAN] /\ tainted \subseteq Value
    BY DEF TypeOK
  <2>3. pred'[to] = edge /\ viaTransform'[to] = via
    BY <2>1, <2>2, Zenon
  <2>4. \A w \in Value : w # to => pred'[w] = pred[w] /\ viaTransform'[w] = viaTransform[w]
    BY <2>1, <2>2, Zenon
  <2>5. \A w : RoutesInto(w) \subseteq RoutesInto(w)' /\ IsSeed(w)' = IsSeed(w)
    BY <2>1 DEF RoutesInto, IsSeed
  <2>6. edge.from # NoValue => RoutesInto(to) # {}
    BY DEF RoutesInto
  <2>7. transform => via
    OBVIOUS
  <2> HIDE DEF via
  <2>8. ASSUME NEW w \in tainted'
        PROVE  IF pred'[w].from = NoValue THEN IsSeed(w)'
               ELSE /\ RoutesInto(w)' # {}
                    /\ prog'.way[<<pred'[w].from, w>>].symbol # "" => viaTransform'[w]
    <3>1. CASE w = to
      BY <3>1, <2>3, <2>5, <2>6, <2>7
    <3>2. CASE w # to
      <4>1. w \in tainted /\ w \in Value
        BY <3>2, <2>1, <2>2
      <4>2. pred'[w] = pred[w] /\ viaTransform'[w] = viaTransform[w]
        BY <4>1, <3>2, <2>4
      <4> QED BY <4>1, <4>2, <2>5 DEF KeptHops
    <3> QED BY <3>1, <3>2
  <2> QED BY <2>8 DEF KeptHops
<1> QED BY <1>1, <1>2

(* Nothing that is marked takes the least chain from a value that has it.  *)
LEMMA MarkKeepsLeast ==
  ASSUME TypeOK,
         NEW to \in Value, NEW edge \in Edge,
         NEW transform \in BOOLEAN, NEW converter \in BOOLEAN,
         MarkTainted(to, edge, transform, converter),
         NEW v \in tainted, Chain(v) = 0
  PROVE  v \in tainted' /\ Chain(v)' = 0
<1>1. v \in Value
  BY DEF TypeOK
<1>2. CASE UNCHANGED <<tainted, pred, viaTransform, viaConverter, queue>>
  BY <1>2, Zenon DEF Chain
<1>3. CASE /\ tainted' = tainted \cup {to}
           /\ \A w \in Value : w # to => Chain(w)' = Chain(w)
           /\ \A w \in Value : Chain(w) \in Nat /\ Chain(w)' \in Nat
           /\ to \in tainted => Chain(to)' < Chain(to)
  <2>1. v \in tainted'
    BY <1>3
  <2>2. CASE v = to
    <3>1. Chain(v)' < Chain(v) /\ Chain(v)' \in Nat
      BY <1>1, <1>3, <2>2
    <3> QED BY <3>1
  <2>3. CASE v # to
    BY <1>1, <1>3, <2>3, <2>1
  <2> QED BY <2>1, <2>2, <2>3
<1> QED BY <1>2, <1>3, MarkTaintedScores

(* A seed without a converter has the least chain once it is sown.         *)
LEMMA SowMakesLeast ==
  ASSUME TypeOK, NEW to \in Value, MarkTainted(to, NoEdge, FALSE, FALSE)
  PROVE  to \in tainted' /\ Chain(to)' = 0
<1>1. ~Via(NoEdge.from) /\ ~Conv(NoEdge.from)
  BY DEF Via, Conv, NoEdge
<1>2. ChainScore(FALSE, FALSE) = 0
  BY DEF ChainScore
<1>3. CASE to \in tainted /\ 0 >= Chain(to)
  <2>1. tainted' = tainted /\ Chain(to)' = Chain(to)
    BY <1>1, <1>2, <1>3, Zenon DEF MarkTainted, marks, Chain
  <2>2. Chain(to) \in Nat
    <3>1. viaTransform[to] \in BOOLEAN /\ viaConverter[to] \in BOOLEAN
      BY Zenon DEF TypeOK
    <3> QED BY <3>1, ChainScoreNat, Zenon DEF Chain
  <2> QED BY <1>3, <2>1, <2>2
<1>4. CASE ~(to \in tainted /\ 0 >= Chain(to))
  <2>1. /\ tainted' = tainted \cup {to}
        /\ viaTransform' = [viaTransform EXCEPT ![to] = Via(NoEdge.from) \/ FALSE]
        /\ viaConverter' = [viaConverter EXCEPT ![to] = FALSE \/ Conv(NoEdge.from)]
    BY <1>1, <1>2, <1>4, Zenon DEF MarkTainted
  <2>2. viaTransform \in [Value -> BOOLEAN] /\ viaConverter \in [Value -> BOOLEAN]
    BY DEF TypeOK
  <2>3. viaTransform'[to] = FALSE /\ viaConverter'[to] = FALSE
    BY <1>1, <2>1, <2>2
  <2> QED BY <1>2, <2>1, <2>3 DEF Chain
<1> QED BY <1>3, <1>4

(* Every edge the engine marks with is a hop of the program.               *)
LEMMA KeptHopsStep ==
  ForestInv /\ AgendaIsTheProgram /\ KeptHops /\ [Next]_vars => KeptHops'
<1> SUFFICES ASSUME ForestInv, AgendaIsTheProgram, KeptHops, [Next]_vars PROVE KeptHops'
  OBVIOUS
<1>0. TypeOK /\ ChainsGrow
  BY DEF ForestInv
<1>t. tainted' \subseteq Value
  BY <1>0, TypeStep DEF TypeOK
<1>p. prog' = prog /\ prog \in Program
  BY <1>0 DEF Next, Sow, Take, Follow, Stop, Leave, Return, AtHop, vars, TypeOK
<1>f. FALSE \in BOOLEAN
  OBVIOUS
<1>h. ASSUME todo # <<>>
      PROVE  /\ cur \in tainted /\ cur \in Value /\ Head(todo) \in Hop
             /\ \E j \in DOMAIN prog.hops[cur] : prog.hops[cur][j] = Head(todo)
  <2>1. todo \in Seq(Hop) /\ cur \in Value
    BY <1>0, <1>h DEF TypeOK
  <2>2. Head(todo) = todo[1] /\ 1 \in DOMAIN todo /\ Head(todo) \in Hop
    BY <1>h, <2>1
  <2> QED BY <1>0, <1>h, <2>1, <2>2 DEF AgendaIsTheProgram, ChainsGrow
<1>1. CASE Sow
  <2>1. PICK to \in Value, converter \in BOOLEAN :
          MarkTainted(to, NoEdge, FALSE, converter) /\ to = Head(unsown).value
    BY <1>1, SowMarks
  <2>2. IsSeed(to)
    <3>1. unsown \in Seq(Seed) /\ unsown # <<>>
      BY <1>0, <1>1 DEF TypeOK, Sow
    <3>2. Head(unsown) = unsown[1] /\ 1 \in DOMAIN unsown
      BY <3>1
    <3> QED BY <2>1, <3>2 DEF AgendaIsTheProgram, Evidence!Sources, IsSeed
  <2>3. NoEdge \in Edge /\ NoEdge.from = NoValue
    BY DEF NoEdge, Edge
  <2> QED BY <1>0, <1>f, <1>p, <1>t, <2>1, <2>2, <2>3, MarkKeepsHops, Zenon
<1>2. CASE UNCHANGED <<tainted, pred, viaTransform>>
  BY <1>p, <1>2 DEF KeptHops, IsSeed, RoutesInto
<1>3. CASE Follow
  <2> DEFINE h == Head(todo)
             e == [from |-> cur, site |-> h.site, kind |-> h.kind]
  <2>1. todo # <<>> /\ h.kind # "return" /\ MarkTainted(h.to, e, h.transform, FALSE)
    BY <1>3 DEF Follow, AtHop
  <2>2. PICK j \in DOMAIN prog.hops[cur] : prog.hops[cur][j] = h
    BY <1>h, <2>1
  <2>3. prog.way[<<cur, h.to>>].symbol # "" => h.transform
    BY <1>h, <1>p, <2>1, <2>2, WayAssumption
  <2>4. e \in Edge /\ e.from = cur /\ cur # NoValue
    BY <1>h, <2>1, ProgramAssumption DEF Edge, Hop
  <2>5. h.to \in Value /\ h.transform \in BOOLEAN
    BY <1>h, <2>1, Zenon DEF Hop
  <2>6. \E u \in tainted : \E i \in DOMAIN prog.hops[u] : prog.hops[u][i].to = h.to
    BY <1>h, <2>1, <2>2
  <2> HIDE DEF h, e
  <2> QED BY <1>0, <1>f, <1>p, <1>t, <2>1, <2>3, <2>4, <2>5, <2>6, MarkKeepsHops, Zenon
<1>4. CASE Return
  <2>1. CASE UNCHANGED <<marks, rec>>
    BY <1>2, <2>1 DEF marks
  <2>2. CASE \E to \in Value, edge \in Edge :
               /\ MarkTainted(to, edge, FALSE, FALSE)
               /\ to = Head(todo).to /\ edge.from \in tainted
               /\ edge.from = AnswerFrom(Head(todo).site)
    <3>1. PICK to \in Value, edge \in Edge :
            /\ MarkTainted(to, edge, FALSE, FALSE)
            /\ to = Head(todo).to /\ edge.from \in tainted
            /\ edge.from = AnswerFrom(Head(todo).site)
      BY <2>2
    <3>2. todo # <<>> /\ Head(todo).kind = "return"
      BY <1>4 DEF Return, AtHop
    <3>3. PICK j \in DOMAIN prog.hops[cur] : prog.hops[cur][j] = Head(todo)
      BY <1>h, <3>2
    <3>4. Head(todo).site \in Call /\ cur \in Value
      BY <1>h, <3>2 DEF Hop
    <3>5. AnswerFrom(Head(todo).site) # NoValue
      BY <1>0, <3>1, ProgramAssumption DEF TypeOK
    <3>6. prog.way[<<edge.from, to>>].symbol = ""
      <4> DEFINE site == Head(todo).site
                 answered == {prog.hands[site][k].value : k \in DOMAIN prog.hands[site]}
      <4>0. LET h == prog.hops[cur][j]
                given == {prog.hands[h.site][k].value : k \in DOMAIN prog.hands[h.site]}
            IN  h.kind = "return" =>
                  \A u \in {cur} \cup given : prog.way[<<u, h.to>>].symbol = ""
        BY <1>p, <3>4, WayAssumption, Zenon
      <4>1. \A u \in {cur} \cup answered : prog.way[<<u, to>>].symbol = ""
        BY <4>0, <3>1, <3>2, <3>3, Zenon
      <4>2. edge.from \in {cur} \cup answered
        BY <1>0, <3>1, <3>4, <3>5, AnswerIsFrom
      <4> QED BY <4>1, <4>2
    <3>7. \E u \in tainted : \E i \in DOMAIN prog.hops[u] : prog.hops[u][i].to = to
      BY <1>h, <3>1, <3>2, <3>3
    <3>8. edge.from # NoValue
      BY <3>1, <3>5
    <3> QED BY <1>0, <1>f, <1>p, <1>t, <3>1, <3>6, <3>7, <3>8, MarkKeepsHops, Zenon
  <2> QED BY <1>4, <2>1, <2>2, ReturnMarks
<1> QED BY <1>1, <1>2, <1>3, <1>4 DEF Next, Take, Stop, Leave, marks, vars

(* Whatever a step marks, the least chain stays with who has it.           *)
LEMMA LeastStays ==
  ASSUME ForestInv, [Next]_vars, NEW v \in tainted, Chain(v) = 0
  PROVE  v \in tainted' /\ Chain(v)' = 0
<1>0. TypeOK
  BY DEF ForestInv
<1>f. FALSE \in BOOLEAN
  OBVIOUS
<1>1. CASE \E to \in Value, edge \in Edge, transform \in BOOLEAN, converter \in BOOLEAN :
             MarkTainted(to, edge, transform, converter)
  BY <1>0, <1>1, MarkKeepsLeast
<1>2. CASE UNCHANGED <<tainted, viaTransform, viaConverter>>
  BY <1>2, Zenon DEF Chain
<1>3. CASE Sow
  <2>1. NoEdge \in Edge
    BY DEF NoEdge, Edge
  <2> QED BY <1>1, <1>3, <1>f, <2>1, SowMarks, Zenon
<1>4. CASE Follow
  BY <1>1, <1>4, <1>f, FollowMarks, Zenon
<1>5. CASE Return
  <2>1. CASE UNCHANGED <<marks, rec>>
    BY <1>2, <2>1 DEF marks
  <2>2. CASE \E to \in Value, edge \in Edge : MarkTainted(to, edge, FALSE, FALSE)
    BY <1>1, <1>f, <2>2, Zenon
  <2> QED BY <1>5, <2>1, <2>2, ReturnMarks
<1> QED BY <1>2, <1>3, <1>4, <1>5 DEF Next, Take, Stop, Leave, marks, vars

(* Every seed is sown once, and a sown one keeps the least chain.          *)
LEMMA SeedsSownStep == ForestInv /\ SeedsSown /\ [Next]_vars => SeedsSown'
<1> SUFFICES ASSUME ForestInv, SeedsSown, [Next]_vars PROVE SeedsSown'
  OBVIOUS
<1>p. prog' = prog
  BY DEF Next, Sow, Take, Follow, Stop, Leave, Return, AtHop, vars
<1> SUFFICES ASSUME NEW i \in DOMAIN prog.seeds, NEW s, s = prog.seeds[i]
             PROVE  (\E j \in DOMAIN unsown' : unsown'[j] = s) \/ Sown(s)'
  BY <1>p DEF SeedsSown, Sown, Chain
<1>1. Sown(s) => Sown(s)'
  <2>2. CASE s.converter
    BY <2>2 DEF Sown
  <2>3. CASE s.value \in tainted /\ Chain(s.value) = 0
    <3>1. s.value \in tainted' /\ Chain(s.value)' = 0
      BY <2>3, LeastStays
    <3> QED BY <3>1 DEF Sown
  <2> QED BY <2>2, <2>3 DEF Sown
<1>2. CASE unsown' = unsown
  BY <1>1, <1>2 DEF SeedsSown
<1>3. CASE Sow
  <2>1. TypeOK /\ unsown \in Seq(Seed) /\ unsown # <<>> /\ unsown' = Tail(unsown) /\ prog' = prog
    BY <1>3 DEF ForestInv, TypeOK, Sow
  <2>2. CASE Sown(s)
    BY <1>1, <2>2
  <2>3. CASE \E j \in DOMAIN unsown : unsown[j] = s
    <3>1. PICK j \in DOMAIN unsown : unsown[j] = s
      BY <2>3
    <3>2. CASE j = 1
      <4>1. s = Head(unsown) /\ s \in Seed
        BY <2>1, <3>1, <3>2
      <4>2. s.value \in Value
        BY <4>1 DEF Seed
      <4>3. MarkTainted(s.value, NoEdge, FALSE, s.converter)
        BY <1>3, <4>1 DEF Sow
      <4>4. CASE s.converter
        BY <4>4 DEF Sown
      <4>5. CASE ~s.converter
        <5>1. s.converter = FALSE
          BY <4>1, <4>5, Zenon DEF Seed
        <5>2. s.value \in tainted' /\ Chain(s.value)' = 0
          BY <2>1, <4>2, <4>3, <5>1, SowMakesLeast, Zenon
        <5> QED BY <5>2 DEF Sown
      <4> QED BY <4>4, <4>5
    <3>3. CASE j # 1
      <4>1. j - 1 \in DOMAIN unsown' /\ unsown'[j - 1] = s
        BY <2>1, <3>1, <3>3
      <4> QED BY <4>1
    <3> QED BY <3>2, <3>3
  <2> QED BY <2>2, <2>3 DEF SeedsSown
<1> QED BY <1>2, <1>3 DEF Next, Take, Follow, Stop, Leave, Return, AtHop, vars

(* What collect finds of the propagation when it starts.                   *)
EvidenceInv == ForestInv /\ AgendaIsTheProgram /\ CarriedInv /\ KeptHops /\ SeedsSown

(* All of it holds at the start ...                                        *)
LEMMA EvidenceInvInit == Init => EvidenceInv
<1> SUFFICES ASSUME Init PROVE EvidenceInv
  OBVIOUS
<1>1. CarriedInv /\ KeptHops
  BY DEF Init, CarriedInv, KeptHops
<1>2. SeedsSown
  BY DEF Init, SeedsSown
<1> QED BY <1>1, <1>2, ForestInit, EvidenceInit DEF EvidenceInv

-----------------------------------------------------------------------------
(* The path collect prints.                                                *)

(* BackFrom is the walk it says it is: each value's kept edge in turn.     *)
LEMMA BackUnfolds ==
  ASSUME TypeOK, NEW id \in Value \cup {NoValue}
  PROVE  /\ BackFrom(id) \in [Nat -> Value \cup {NoValue}]
         /\ BackFrom(id)[0] = id
         /\ \A n \in Nat : BackFrom(id)[n + 1] = IF BackFrom(id)[n] = NoValue THEN NoValue
                                                ELSE pred[BackFrom(id)[n]].from
<1> DEFINE T == Value \cup {NoValue}
           F == [v \in T |-> IF v = NoValue THEN NoValue ELSE pred[v].from]
           Step(back) == [n \in Nat |-> IF n = 0 THEN id
                           ELSE IF back[n - 1] = NoValue THEN NoValue ELSE pred[back[n - 1]].from]
<1>0. \A v \in Value : pred[v].from \in T
  BY DEF TypeOK, Edge
<1>1. F \in [T -> T]
  BY <1>0
<1>2. PICK g \in [Nat -> T] : Iterates(g, Nat, id, F)
  <2> HIDE DEF F
  <2> QED BY <1>1, Iteration
<1>3. \A n \in Nat : g[n] = IF n = 0 THEN id
                           ELSE IF g[n - 1] = NoValue THEN NoValue ELSE pred[g[n - 1]].from
  <2>1. ASSUME NEW n \in Nat, n # 0 PROVE g[n - 1] \in T /\ g[n] = F[g[n - 1]]
    <3>1. n - 1 \in Nat
      BY <2>1
    <3> QED BY <1>2, <2>1, <3>1 DEF Iterates
  <2>2. g[0] = id
    BY <1>2 DEF Iterates
  <2> QED BY <2>1, <2>2
<1>4. g = Step(g)
  BY <1>2, <1>3
<1>5. BackFrom(id) = CHOOSE back : back = Step(back)
  BY DEF BackFrom
<1>6. BackFrom(id) = Step(BackFrom(id))
  <2> HIDE DEF Step
  <2> QED BY <1>4, <1>5, Zenon
<1> DEFINE b == BackFrom(id)
<1>7. b = Step(b)
  BY <1>6
<1> HIDE DEF b
<1>8. \A n \in Nat : b[n] = IF n = 0 THEN id
                           ELSE IF b[n - 1] = NoValue THEN NoValue ELSE pred[b[n - 1]].from
  BY <1>7
<1>9. DOMAIN b = Nat /\ b = [n \in Nat |-> b[n]]
  BY <1>7
<1>10. ASSUME NEW n \in Nat
       PROVE  b[n + 1] = IF b[n] = NoValue THEN NoValue ELSE pred[b[n]].from
  <2>1. n + 1 \in Nat /\ n + 1 # 0 /\ (n + 1) - 1 = n
    OBVIOUS
  <2> QED BY <1>8, <2>1
<1>11. b[0] = id
  BY <1>8
<1>12. \A n \in Nat : b[n] \in T
  <2> DEFINE S == {n \in Nat : b[n] \in T}
  <2>1. 0 \in S
    BY <1>11
  <2>2. ASSUME NEW n \in Nat, n \in S PROVE n + 1 \in S
    BY <1>0, <1>10, <2>2
  <2>3. S \in SUBSET Nat
    OBVIOUS
  <2> HIDE DEF S
  <2>4. S = Nat
    BY <2>1, <2>2, <2>3, AllNaturals
  <2> QED BY <2>4 DEF S
<1>13. b \in [Nat -> T]
  BY <1>9, <1>12
<1> QED BY <1>10, <1>11, <1>13 DEF b

(* The walk back from a classified value: classified values down to one    *)
(* nothing comes before, never the same one twice, and nothing after.      *)
LEMMA WalkBack ==
  ASSUME ForestInv, NEW v \in tainted, NEW b, b = BackFrom(v)
  PROVE  \E n \in Nat :
           /\ \A m \in 0 .. n : b[m] \in tainted
           /\ \A m \in 0 .. n - 1 : pred[b[m]].from = b[m + 1]
           /\ pred[b[n]].from = NoValue
           /\ \A m \in Nat : m > n => b[m] = NoValue
           /\ \A i \in 0 .. n, j \in 0 .. n : i < j => b[i] # b[j]
<1>0. TypeOK /\ ChainsGrow /\ WitnessesReachASeed /\ v \in Value /\ tainted \subseteq Value
  BY DEF ForestInv, TypeOK
<1>n. \A w \in tainted : w # NoValue
  BY <1>0, ProgramAssumption
<1>1. /\ b[0] = v
      /\ \A m \in Nat : b[m + 1] = IF b[m] = NoValue THEN NoValue ELSE pred[b[m]].from
  BY <1>0, BackUnfolds
<1>2. \E m \in Nat : b[m] \notin tainted
  <2> SUFFICES ASSUME \A m \in Nat : b[m] \in tainted PROVE FALSE
    OBVIOUS
  <2> DEFINE S == {b[m] : m \in Nat}
  <2>1. \A w \in S : pred[w].from \in S
    <3> SUFFICES ASSUME NEW m \in Nat PROVE pred[b[m]].from \in S
      OBVIOUS
    <3>1. m + 1 \in Nat /\ b[m + 1] = pred[b[m]].from
      BY <1>1, <1>n
    <3> QED BY <3>1
  <2>2. S # {} /\ S \subseteq tainted
    <3>1. b[0] \in S
      OBVIOUS
    <3> QED BY <3>1
  <2> HIDE DEF S
  <2> QED BY <1>0, <2>1, <2>2 DEF WitnessesReachASeed
<1> DEFINE out == {m \in Nat : b[m] \notin tainted}
<1>3. PICK k \in out : \A m \in out : k <= m
  <2>1. out # {} /\ out \in SUBSET Nat
    BY <1>2
  <2> HIDE DEF out
  <2> QED BY <2>1, LeastNatural
<1>4. k \in Nat /\ k # 0 /\ k - 1 \in Nat
  BY <1>1, <1>3
<1> DEFINE n == k - 1
<1>5. \A m \in 0 .. n : b[m] \in tainted
  <2> SUFFICES ASSUME NEW m \in 0 .. n, b[m] \notin tainted PROVE FALSE
    OBVIOUS
  <2>1. m \in out
    OBVIOUS
  <2> QED BY <1>3, <1>4, <2>1
<1>6. ASSUME NEW m \in 0 .. n PROVE pred[b[m]].from = b[m + 1]
  BY <1>1, <1>4, <1>5, <1>n, <1>6
<1>7. pred[b[n]].from = NoValue
  <2>1. n \in 0 .. n /\ n + 1 = k
    BY <1>4
  <2>2. b[n] \in tainted /\ pred[b[n]].from \notin tainted
    BY <1>3, <1>5, <1>6, <2>1
  <2> HIDE DEF n
  <2> QED BY <1>0, <2>2 DEF ChainsGrow
<1>8. \A m \in Nat : m > n => b[m] = NoValue
  <2> DEFINE late == {m \in Nat : m > n /\ b[m] # NoValue}
  <2>1. SUFFICES ASSUME late # {} PROVE FALSE
    OBVIOUS
  <2>2. PICK m \in late : \A l \in late : m <= l
    <3>1. late \in SUBSET Nat
      OBVIOUS
    <3> HIDE DEF late
    <3> QED BY <2>1, <3>1, LeastNatural
  <2>3. CASE m = n + 1
    BY <1>4, <1>6, <1>7, <2>2, <2>3
  <2>4. CASE m # n + 1
    <3>1. m - 1 \in Nat /\ m - 1 > n /\ m - 1 \notin late
      BY <1>4, <2>2, <2>4
    <3>2. b[(m - 1) + 1] = NoValue
      BY <1>1, <3>1
    <3> QED BY <2>2, <3>2
  <2> QED BY <2>3, <2>4
<1>9. ASSUME NEW i \in 0 .. n, NEW j \in 0 .. n, i < j, b[i] = b[j]
      PROVE  FALSE
  <2> DEFINE S == {b[m] : m \in i .. j - 1}
  <2>1. ASSUME NEW m \in i .. j - 1 PROVE pred[b[m]].from \in S
    <3>1. m \in 0 .. n /\ pred[b[m]].from = b[m + 1]
      BY <1>4, <1>6
    <3>2. CASE m = j - 1
      <4>1. m + 1 = j /\ i \in i .. j - 1
        BY <1>4, <1>9, <3>2
      <4> QED BY <1>9, <3>1, <4>1
    <3>3. CASE m # j - 1
      <4>1. m + 1 \in i .. j - 1
        BY <1>4, <3>3
      <4> QED BY <3>1, <4>1
    <3> QED BY <3>2, <3>3
  <2>2. S # {} /\ S \subseteq tainted
    <3>1. i \in i .. j - 1 /\ i .. j - 1 \subseteq 0 .. n
      BY <1>4, <1>9
    <3>2. b[i] \in S
      BY <3>1
    <3> QED BY <1>5, <3>1, <3>2
  <2>3. \A w \in S : pred[w].from \in S
    BY <2>1
  <2> HIDE DEF S
  <2> QED BY <1>0, <2>2, <2>3 DEF WitnessesReachASeed
<1>10. n \in Nat /\ 0 .. n - 1 \subseteq 0 .. n
  BY <1>4
<1> HIDE DEF n
<1> QED BY <1>5, <1>6, <1>7, <1>8, <1>9, <1>10

(* tracePath prints that walk whole: there are no more values than Value.  *)
LEMMA TracePath ==
  ASSUME ForestInv, NEW v \in tainted
  PROVE  \E n \in Nat :
           /\ Trace(v) = [i \in 1 .. n + 1 |-> BackFrom(v)[i - 1]]
           /\ \A m \in 0 .. n : BackFrom(v)[m] \in tainted
           /\ \A m \in 0 .. n - 1 : pred[BackFrom(v)[m]].from = BackFrom(v)[m + 1]
           /\ pred[BackFrom(v)[n]].from = NoValue
<1> DEFINE b == BackFrom(v)
<1>1. PICK n \in Nat :
           /\ \A m \in 0 .. n : b[m] \in tainted
           /\ \A m \in 0 .. n - 1 : pred[b[m]].from = b[m + 1]
           /\ pred[b[n]].from = NoValue
           /\ \A m \in Nat : m > n => b[m] = NoValue
           /\ \A i \in 0 .. n, j \in 0 .. n : i < j => b[i] # b[j]
  BY WalkBack
<1>2. tainted \subseteq Value /\ NoValue \notin tainted
  BY ProgramAssumption DEF ForestInv, TypeOK
<1>3. IsFiniteSet(Value) /\ Cardinality(Value) \in Nat
  BY CollectAssumption, FS_CardinalityType
<1>4. IsFiniteSet(0 .. n) /\ Cardinality(0 .. n) = n + 1
  BY FS_Interval
<1> DEFINE steps == {m \in 0 .. Cardinality(Value) : b[m] # NoValue}
<1>5. n <= Cardinality(Value)
  <2> SUFFICES ASSUME Cardinality(Value) < n + 1 PROVE FALSE
    BY <1>3
  <2> DEFINE f == [m \in 0 .. n |-> b[m]]
  <2>1. f \in [0 .. n -> Value]
    BY <1>1, <1>2
  <2>2. \E x, y \in 0 .. n : x # y /\ f[x] = f[y]
    <3> HIDE DEF f
    <3> QED BY <1>3, <1>4, <2>1, FS_PigeonHole
  <2>3. PICK x \in 0 .. n, y \in 0 .. n : x # y /\ b[x] = b[y]
    BY <2>2
  <2>4. x < y \/ y < x
    BY <2>3
  <2> HIDE DEF b
  <2> QED BY <1>1, <2>3, <2>4
<1> HIDE DEF b
<1>6. steps = 0 .. n
  <2>1. \A m \in 0 .. n : m \in 0 .. Cardinality(Value) /\ b[m] # NoValue
    BY <1>1, <1>2, <1>3, <1>5
  <2>2. \A m \in 0 .. Cardinality(Value) : b[m] # NoValue => m \in 0 .. n
    BY <1>1, <1>3
  <2> QED BY <2>1, <2>2
<1>7. Trace(v) = [i \in 1 .. Cardinality(steps) |-> b[i - 1]]
  BY DEF Trace, b
<1>8. Trace(v) = [i \in 1 .. n + 1 |-> b[i - 1]]
  BY <1>4, <1>6, <1>7
<1> QED BY <1>1, <1>8 DEF b

(* A chain never says more than what continues it: on the path of a value  *)
(* with the least chain every value has the least chain, and no hop of it  *)
(* names a sanitizer.                                                      *)
LEMMA LeastPath ==
  ASSUME ForestInv, KeptHops, NEW v \in tainted, Chain(v) = 0, NEW w \in OnPath(v)
  PROVE  w \in tainted /\ Chain(w) = 0 /\ WayInto(w).symbol = ""
<1>0. TypeOK /\ ChainsGrow /\ tainted \subseteq Value /\ NoValue \notin tainted
  BY ProgramAssumption DEF ForestInv, TypeOK
<1>s. ASSUME NEW u \in tainted PROVE Chain(u) \in Nat /\ (Chain(u) = 0 => ~viaTransform[u])
  <2>1. viaTransform[u] \in BOOLEAN /\ viaConverter[u] \in BOOLEAN
    BY <1>0, Zenon DEF TypeOK
  <2>2. Chain(u) \in Nat
    BY <2>1, ChainScoreNat, Zenon DEF Chain
  <2>3. ASSUME viaTransform[u] PROVE Chain(u) # 0
    <3>1. CASE viaConverter[u]
      BY <2>3, <3>1 DEF Chain, ChainScore
    <3>2. CASE ~viaConverter[u]
      BY <2>3, <3>2 DEF Chain, ChainScore
    <3> QED BY <3>1, <3>2
  <2> QED BY <2>2, <2>3
<1> DEFINE b == BackFrom(v)
<1>1. PICK n \in Nat :
           /\ Trace(v) = [i \in 1 .. n + 1 |-> b[i - 1]]
           /\ \A m \in 0 .. n : b[m] \in tainted
           /\ \A m \in 0 .. n - 1 : pred[b[m]].from = b[m + 1]
           /\ pred[b[n]].from = NoValue
  BY TracePath
<1>2. b[0] = v
  BY <1>0, BackUnfolds
<1> HIDE DEF b
<1>3. \A m \in 0 .. n : Chain(b[m]) = 0
  <2> DEFINE D == {m \in 0 .. n : Chain(b[m]) # 0}
  <2>1. SUFFICES ASSUME D # {} PROVE FALSE
    OBVIOUS
  <2>2. PICK m \in D : \A l \in D : m <= l
    <3>1. D \in SUBSET Nat
      OBVIOUS
    <3> HIDE DEF D
    <3> QED BY <2>1, <3>1, LeastNatural
  <2>3. m # 0
    BY <1>2, <2>2
  <2>4. m - 1 \in 0 .. n - 1 /\ m - 1 \in 0 .. n /\ m - 1 \notin D /\ (m - 1) + 1 = m
    BY <2>2, <2>3
  <2>5. pred[b[m - 1]].from = b[m] /\ Chain(b[m - 1]) = 0
    BY <1>1, <2>4
  <2>6. b[m - 1] \in tainted /\ b[m] \in tainted /\ b[m] # NoValue
    BY <1>0, <1>1, <2>2, <2>4
  <2>7. Chain(pred[b[m - 1]].from) <= Chain(b[m - 1])
    BY <1>0, <2>5, <2>6 DEF ChainsGrow
  <2>8. Chain(b[m]) <= 0 /\ Chain(b[m]) \in Nat
    BY <1>s, <2>5, <2>6, <2>7
  <2> QED BY <2>2, <2>8
<1>4. PICK i \in 1 .. n + 1 : w = b[i - 1]
  <2>1. OnPath(v) = {Trace(v)[i] : i \in DOMAIN Trace(v)}
    BY DEF OnPath, Range
  <2> QED BY <1>1, <2>1
<1>5. w \in tainted /\ Chain(w) = 0
  BY <1>1, <1>3, <1>4
<1>6. WayInto(w).symbol = ""
  <2>1. CASE pred[w].from = NoValue
    BY <2>1 DEF WayInto, Continues, SourceWay
  <2>2. CASE pred[w].from # NoValue
    BY <1>5, <1>s, <2>2 DEF KeptHops, WayInto, Continues
  <2> QED BY <2>1, <2>2
<1> QED BY <1>5, <1>6

-----------------------------------------------------------------------------
(* What some route reaches untouched.                                      *)

(* What a set hands on along hops that nothing else decides and that pass  *)
(* no transform.                                                           *)
HandedOn(S) ==
  S \cup UNION {{prog.hops[v][i].to :
                   i \in {k \in DOMAIN prog.hops[v] :
                           /\ Unconditional(v, prog.hops[v][k])
                           /\ ~prog.hops[v][k].transform}} : v \in S}

(* What the routes reach lies within any set that has the seeds and hands  *)
(* on to nothing outside it.                                               *)
LEMMA ReachedUntouchedWithin ==
  ASSUME NEW G, PlainSeeds \subseteq G, IsFiniteSet(Value),
         \A v \in G : \A i \in DOMAIN prog.hops[v] :
           Unconditional(v, prog.hops[v][i]) /\ ~prog.hops[v][i].transform
             => prog.hops[v][i].to \in G
  PROVE  ReachedUntouched \subseteq G
<1> DEFINE C == Cardinality(Value)
           F == [S \in SUBSET G |-> HandedOn(S)]
           Step(after) == [n \in 0 .. C |-> IF n = 0 THEN PlainSeeds ELSE HandedOn(after[n - 1])]
<1>0. C \in Nat
  BY FS_CardinalityType
<1>1. \A S \in SUBSET G : HandedOn(S) \in SUBSET G
  BY DEF HandedOn
<1>2. F \in [SUBSET G -> SUBSET G] /\ \A S \in SUBSET G : F[S] = HandedOn(S)
  BY <1>1
<1> HIDE DEF C, F
<1>3. PICK g \in [0 .. C -> SUBSET G] : Iterates(g, 0 .. C, PlainSeeds, F)
  BY <1>0, <1>2, IterationUpTo
<1>4. g = Step(g)
  <2>1. ASSUME NEW n \in 0 .. C PROVE g[n] = IF n = 0 THEN PlainSeeds ELSE HandedOn(g[n - 1])
    <3>1. CASE n = 0
      BY <1>3, <3>1 DEF Iterates
    <3>2. CASE n # 0
      <4>1. n - 1 \in 0 .. C
        BY <1>0, <3>2
      <4>2. g[n - 1] \in SUBSET G /\ g[n] = F[g[n - 1]]
        BY <1>3, <3>2, <4>1 DEF Iterates
      <4> QED BY <1>2, <3>2, <4>2
    <3> QED BY <3>1, <3>2
  <2> QED BY <2>1, <1>3
<1> DEFINE after == CHOOSE a : a = Step(a)
<1>5. ReachedUntouched = after[C]
  BY DEF ReachedUntouched, ReachedFrom, HandedOn, C
<1>6. after = Step(after)
  <2> HIDE DEF Step
  <2> QED BY <1>4, Zenon
<1> HIDE DEF after
<1>7. \A n \in 0 .. C : after[n] = IF n = 0 THEN PlainSeeds ELSE HandedOn(after[n - 1])
  BY <1>6
<1>8. \A n \in 0 .. C : after[n] \in SUBSET G
  <2> DEFINE D == {n \in 0 .. C : after[n] \notin SUBSET G}
  <2>1. SUFFICES ASSUME D # {} PROVE FALSE
    OBVIOUS
  <2>2. PICK n \in D : \A m \in D : n <= m
    <3>1. D \in SUBSET Nat
      OBVIOUS
    <3> HIDE DEF D
    <3> QED BY <2>1, <3>1, LeastNatural
  <2>3. n # 0
    BY <1>7, <2>2
  <2>4. n - 1 \in 0 .. C /\ n - 1 \notin D
    BY <1>0, <2>2, <2>3
  <2>5. after[n - 1] \in SUBSET G /\ after[n] = HandedOn(after[n - 1])
    BY <1>7, <2>2, <2>3, <2>4
  <2> QED BY <1>1, <2>2, <2>5
<1>9. C \in 0 .. C
  BY <1>0
<1> QED BY <1>5, <1>8, <1>9

(* When propagation stops, what some route reaches untouched has a witness *)
(* with the least chain.                                                   *)
LEMMA UntouchedIsLeast ==
  ASSUME EvidenceInv, Quiescent, NEW v \in ReachedUntouched
  PROVE  v \in tainted /\ Chain(v) = 0
<1> DEFINE G == {w \in tainted : Chain(w) = 0}
<1>0. TypeOK /\ ForestInv /\ CarriedInv /\ SeedsSown /\ prog \in Program
  BY DEF EvidenceInv, ForestInv, TypeOK
<1>1. PlainSeeds \subseteq G
  <2> SUFFICES ASSUME NEW i \in DOMAIN prog.seeds, ~prog.seeds[i].converter
               PROVE  prog.seeds[i].value \in G
    BY DEF PlainSeeds
  <2>1. \A j : j \notin DOMAIN unsown
    BY DEF Quiescent
  <2> QED BY <1>0, <2>1 DEF SeedsSown, Sown
<1>2. ASSUME NEW w \in G, NEW i \in DOMAIN prog.hops[w],
             Unconditional(w, prog.hops[w][i]), ~prog.hops[w][i].transform
      PROVE  prog.hops[w][i].to \in G
  <2> DEFINE h == prog.hops[w][i]
  <2>1. ~Waiting(w) /\ ~AtHand(w, h)
    BY DEF Quiescent, Waiting, AtHand
  <2>2. Offered(w, h)
    BY <1>0, <1>2, <2>1 DEF CarriedInv
  <2>3. w \in Value /\ viaTransform[w] \in BOOLEAN /\ viaConverter[w] \in BOOLEAN
    BY <1>0, <1>2, Zenon DEF TypeOK
  <2>4. ~viaTransform[w] /\ ~viaConverter[w]
    <3>1. Chain(w) = 0
      BY <1>2
    <3> QED BY <2>3, <3>1 DEF Chain, ChainScore
  <2>5. ChainScore(viaConverter[w], viaTransform[w] \/ h.transform) = 0
    BY <1>2, <2>4 DEF ChainScore
  <2>6. h.to \in tainted /\ Chain(h.to) <= 0
    BY <2>2, <2>5 DEF Offered
  <2>7. Chain(h.to) \in Nat
    <3>1. h.to \in Value
      BY <1>0, <2>6 DEF TypeOK
    <3>2. viaTransform[h.to] \in BOOLEAN /\ viaConverter[h.to] \in BOOLEAN
      BY <1>0, <3>1, Zenon DEF TypeOK
    <3> QED BY <3>2, ChainScoreNat, Zenon DEF Chain
  <2> HIDE DEF h
  <2>8. h.to \in tainted /\ Chain(h.to) = 0
    BY <2>6, <2>7
  <2> QED BY <2>8 DEF h
<1>3. \A w \in G : \A i \in DOMAIN prog.hops[w] :
           Unconditional(w, prog.hops[w][i]) /\ ~prog.hops[w][i].transform
             => prog.hops[w][i].to \in G
  BY <1>2
<1> HIDE DEF G
<1>4. v \in G
  BY <1>1, <1>3, CollectAssumption, ReachedUntouchedWithin
<1> QED BY <1>4 DEF G

(* ... and is reported wherever no shape of the path is asked for.         *)
LEMMA LeastIsReported ==
  ASSUME ForestInv, KeptHops, NEW v \in tainted, Chain(v) = 0, v \notin prog.vouched,
         NEW ch, NEW p, AnyShape(ch, p)
  PROVE  Reported(v, ch, p)
<1>1. ~ConverterClears(v, ch)
  <2>1. v \in Value
    BY DEF ForestInv, TypeOK
  <2>2. viaConverter[v] \in BOOLEAN /\ viaTransform[v] \in BOOLEAN
    BY <2>1, Zenon DEF ForestInv, TypeOK
  <2>3. ~viaConverter[v]
    BY <2>2 DEF Chain, ChainScore
  <2> QED BY <2>3 DEF ConverterClears
<1>2. ~Sanitized(v, ch)
  BY LeastPath DEF Sanitized, Clears
<1>3. Shaped(v, ch, p)
  BY DEF AnyShape, Shaped
<1> QED BY <1>1, <1>2, <1>3 DEF Reported

(* ... and after every step.                                               *)
LEMMA EvidenceInvStep == EvidenceInv /\ [Next]_vars => EvidenceInv'
<1> SUFFICES ASSUME EvidenceInv, [Next]_vars PROVE EvidenceInv'
  OBVIOUS
<1>1. ForestInv /\ AgendaIsTheProgram /\ CarriedInv /\ KeptHops /\ SeedsSown /\ TypeOK
  BY DEF EvidenceInv, ForestInv
<1> QED BY <1>1, ForestStep, AgendaStep, CarriedStep, KeptHopsStep, SeedsSownStep
        DEF EvidenceInv

-----------------------------------------------------------------------------
(* What a judgement that was made has left behind.                         *)
Recorded(j) ==
  /\ Outcome(j) = "found" => Finding(j) \in found
  /\ Outcome(j) = "unanswered" => Finding(j) \in unanswered
  /\ Outcome(j) = "unjudged" => <<j.policy.id, prog.origin[OriginOf(j.value)].entry>> \in unjudged
  /\ Outcome(j) = "skipped" => j.policy.id \in skipped

(* The inductive invariant of collect: it starts when propagation is over, *)
(* the classes no longer move under it, and every judgement due is still   *)
(* pending or has left what its outcome says.                              *)
CollectInv ==
  /\ EvidenceInv
  /\ collecting => Quiescent
  /\ pending # {} => collecting
  /\ collecting => \A d \in Due : d \in pending \/ Recorded(JudgementAt(d))

(* Nothing collect writes is read by its judgements.                       *)
LEMMA TraceFrame ==
  ASSUME UNCHANGED vars, NEW v
  PROVE  /\ Trace(v)' = Trace(v) /\ OnPath(v)' = OnPath(v) /\ WayInto(v)' = WayInto(v)
         /\ TraceOrigin(v)' = TraceOrigin(v) /\ OriginOf(v)' = OriginOf(v)
<1>1. prog' = prog /\ pred' = pred
  BY DEF vars
<1>2. Trace(v)' = Trace(v)
  BY <1>1 DEF Trace, BackFrom
<1>3. OnPath(v)' = OnPath(v) /\ TraceOrigin(v)' = TraceOrigin(v)
  BY <1>2 DEF OnPath, TraceOrigin
<1>4. OriginOf(v)' = OriginOf(v)
  BY <1>1, <1>2 DEF OriginOf, IsSeed
<1>5. WayInto(v)' = WayInto(v)
  BY <1>1 DEF WayInto, Continues
<1> QED BY <1>2, <1>3, <1>4, <1>5

LEMMA FormsFrame ==
  ASSUME UNCHANGED vars, NEW v
  PROVE  Forms(v)' = Forms(v)
BY TraceFrame DEF Forms

(* Which judgements are due does not move under collect ...                *)
LEMMA DueFrame ==
  ASSUME UNCHANGED vars
  PROVE  Due' = Due
<1>1. prog' = prog /\ tainted' = tainted
  BY DEF vars
<1>2. ASSUME NEW s PROVE IsChannel(s)' <=> IsChannel(s)
  <2>1. Projected(s.receiver)' <=> Projected(s.receiver)
    BY FormsFrame DEF Projected
  <2> QED BY <1>1, <2>1 DEF IsChannel, ReceiverReached
<1>3. ASSUME NEW i PROVE IsChannel(prog.sinks[i])' <=> IsChannel(prog.sinks[i])
  BY <1>1, <1>2
<1> QED BY <1>1, <1>3 DEF Due, Arriving

(* ... nor does what comes of one.                                         *)
LEMMA OutcomeFrame ==
  ASSUME UNCHANGED vars, NEW j
  PROVE  /\ Outcome(j)' = Outcome(j)
         /\ Finding(j)' = Finding(j)
<1>1. prog' = prog /\ tainted' = tainted /\ viaConverter' = viaConverter
  BY DEF vars
<1> DEFINE v == j.value
           sink == j.sink
           p == j.policy
<1>2. /\ Trace(v)' = Trace(v) /\ OnPath(v)' = OnPath(v)
      /\ TraceOrigin(v)' = TraceOrigin(v) /\ OriginOf(v)' = OriginOf(v)
      /\ \A w : WayInto(w)' = WayInto(w)
  BY TraceFrame
<1>3. EntryUnread(j)' <=> EntryUnread(j)
  BY <1>1, <1>2 DEF EntryUnread
<1>4. OperationCarries(sink)' <=> OperationCarries(sink)
  BY <1>1 DEF OperationCarries
<1>5. EffectivelyRelated(v, sink)' <=> EffectivelyRelated(v, sink)
  BY <1>1, <1>2 DEF EffectivelyRelated, FunctionsOnPath, Gated
<1>6. Forms(v)' = Forms(v)
  BY FormsFrame
<1>7. Reported(v, sink.channel, p)' <=> Reported(v, sink.channel, p)
  <2>1. Sanitized(v, sink.channel)' <=> Sanitized(v, sink.channel)
    BY <1>2 DEF Sanitized, Clears
  <2>2. ComposedIntoSinkArgument(v)' <=> ComposedIntoSinkArgument(v)
    BY <1>2 DEF ComposedIntoSinkArgument
  <2>3. Shaped(v, sink.channel, p)' <=> Shaped(v, sink.channel, p)
    <3>1. WaysOf(v)' = WaysOf(v)
      BY <1>2 DEF WaysOf
    <3>2. WholeAllTheSame(v, sink.channel)' <=> WholeAllTheSame(v, sink.channel)
      BY <1>1, <1>2 DEF WholeAllTheSame
    <3> QED BY <1>1, <1>6, <2>2, <3>1, <3>2 DEF Shaped, ComposedIntoText, Enclosed, Projected
  <2> QED BY <1>1, <2>1, <2>3 DEF Reported, ConverterClears
<1>8. NeverGivenIdentity(prog.origin[TraceOrigin(v)], p)'
      <=> NeverGivenIdentity(prog.origin[TraceOrigin(v)], p)
  BY <1>1, <1>2 DEF NeverGivenIdentity
<1>9. Outcome(j)' = Outcome(j)
  BY <1>1, <1>3, <1>4, <1>5, <1>7, <1>8 DEF Outcome
<1>10. Confidence(v, sink, sink.channel)' = Confidence(v, sink, sink.channel)
  BY <1>2 DEF Confidence, ConfidenceOf
<1>11. Finding(j)' = Finding(j)
  BY <1>1, <1>2, <1>10 DEF Finding
<1> QED BY <1>9, <1>11

(* The invariant of collect is inductive.                                  *)
LEMMA CollectStep == CollectInv /\ [CollectNext]_allVars => CollectInv'
<1> SUFFICES ASSUME CollectInv, [CollectNext]_allVars PROVE CollectInv'
  OBVIOUS
<1>0. /\ EvidenceInv /\ (collecting => Quiescent) /\ (pending # {} => collecting)
      /\ collecting => \A d \in Due : d \in pending \/ Recorded(JudgementAt(d))
  BY DEF CollectInv
<1>1. EvidenceInv'
  BY <1>0, EvidenceInvStep
        DEF CollectNext, Propagate, StartCollecting, Judge, allVars, verdicts
<1>2. ASSUME UNCHANGED vars
      PROVE  /\ Due' = Due /\ Quiescent' = Quiescent
             /\ \A d : JudgementAt(d)' = JudgementAt(d)
             /\ \A j : Outcome(j)' = Outcome(j) /\ Finding(j)' = Finding(j)
             /\ \A j : prog'.origin[OriginOf(j.value)'] = prog.origin[OriginOf(j.value)]
  <2>1. prog' = prog /\ Quiescent' = Quiescent
    BY <1>2 DEF vars, Quiescent
  <2>2. ASSUME NEW d PROVE JudgementAt(d)' = JudgementAt(d)
    BY <2>1 DEF JudgementAt, Arriving
  <2>3. ASSUME NEW j PROVE /\ Outcome(j)' = Outcome(j) /\ Finding(j)' = Finding(j)
                           /\ OriginOf(j.value)' = OriginOf(j.value)
    BY <1>2, OutcomeFrame, TraceFrame
  <2> QED BY <1>2, <2>1, <2>2, <2>3, DueFrame
(* A judgement left behind stays.                                          *)
<1>3. ASSUME UNCHANGED vars, found \subseteq found', unanswered \subseteq unanswered',
             unjudged \subseteq unjudged', skipped \subseteq skipped'
      PROVE  \A j : Recorded(j) => Recorded(j)'
  BY <1>2, <1>3 DEF Recorded
<1>4. CASE Propagate
  <2>1. Next /\ UNCHANGED verdicts
    BY <1>4 DEF Propagate
  <2>2. ~collecting
    <3> SUFFICES ASSUME Quiescent PROVE FALSE
      BY <1>0
    <3> QED BY <2>1 DEF Next, Quiescent, Sow, Take, Follow, Stop, Leave, Return, AtHop
  <2> QED BY <1>0, <1>1, <2>1, <2>2 DEF CollectInv, verdicts
<1>5. CASE StartCollecting
  <2>1. collecting' /\ pending' = Due /\ UNCHANGED vars /\ Quiescent
    BY <1>5 DEF StartCollecting
  <2>2. pending' = Due' /\ Quiescent'
    BY <1>2, <2>1
  <2>3. \A d \in Due' : d \in pending' \/ Recorded(JudgementAt(d))'
    BY <2>2
  <2> QED BY <1>1, <2>1, <2>2, <2>3 DEF CollectInv
<1>6. CASE Judge
  <2>1. UNCHANGED <<vars, collecting>>
    BY <1>6 DEF Judge
  <2>1b. PICK d \in pending :
          \E j :
            /\ j = JudgementAt(d)
            /\ pending' = pending \ {d}
            /\ found' = IF Outcome(j) = "found" THEN found \cup {Finding(j)} ELSE found
            /\ unanswered' = IF Outcome(j) = "unanswered"
                             THEN unanswered \cup {Finding(j)} ELSE unanswered
            /\ unjudged' = IF Outcome(j) = "unjudged"
                           THEN unjudged \cup {<<j.policy.id, prog.origin[OriginOf(j.value)].entry>>}
                           ELSE unjudged
            /\ skipped' = IF Outcome(j) = "skipped" THEN skipped \cup {j.policy.id} ELSE skipped
    BY <1>6 DEF Judge
  <2>2. PICK j :
          /\ j = JudgementAt(d)
          /\ pending' = pending \ {d}
          /\ found' = IF Outcome(j) = "found" THEN found \cup {Finding(j)} ELSE found
          /\ unanswered' = IF Outcome(j) = "unanswered"
                           THEN unanswered \cup {Finding(j)} ELSE unanswered
          /\ unjudged' = IF Outcome(j) = "unjudged"
                         THEN unjudged \cup {<<j.policy.id, prog.origin[OriginOf(j.value)].entry>>}
                         ELSE unjudged
          /\ skipped' = IF Outcome(j) = "skipped" THEN skipped \cup {j.policy.id} ELSE skipped
    BY <2>1b
  <2>3. \A k : Recorded(k) => Recorded(k)'
    BY <1>3, <2>1, <2>2
  <2>4. Recorded(j)'
    BY <1>2, <2>1, <2>2 DEF Recorded
  <2>5. collecting /\ collecting' /\ Quiescent' /\ Due' = Due
    BY <1>0, <1>2, <2>1, <2>2
  <2>6. ASSUME NEW e \in Due' PROVE e \in pending' \/ Recorded(JudgementAt(e))'
    <3>1. JudgementAt(e)' = JudgementAt(e)
      BY <1>2, <2>1
    <3>2. PICK k : k = JudgementAt(e)
      OBVIOUS
    <3>3. CASE e = d
      <4>1. k = j
        BY <2>2, <3>2, <3>3
      <4>2. Recorded(k)'
        BY <2>4, <4>1
      <4> QED BY <3>1, <3>2, <4>2
    <3>4. CASE e # d
      <4>1. e \in pending' \/ Recorded(k)
        BY <1>0, <2>2, <2>5, <2>6, <3>2, <3>4
      <4> QED BY <2>3, <3>1, <3>2, <4>1
    <3> QED BY <3>3, <3>4
  <2> QED BY <1>1, <2>5, <2>6 DEF CollectInv
<1>7. CASE UNCHANGED allVars
  <2>1. UNCHANGED vars /\ UNCHANGED verdicts
    BY <1>7 DEF allVars
  <2>2. UNCHANGED <<pending, collecting, found, unanswered, unjudged, skipped>>
    BY <2>1 DEF verdicts
  <2>3. \A k : Recorded(k) => Recorded(k)'
    BY <1>3, <2>1, <2>2
  <2>4. ASSUME collecting', NEW e \in Due' PROVE e \in pending' \/ Recorded(JudgementAt(e))'
    <3>1. JudgementAt(e)' = JudgementAt(e) /\ Due' = Due
      BY <1>2, <2>1
    <3>2. PICK k : k = JudgementAt(e)
      OBVIOUS
    <3>3. e \in pending' \/ Recorded(k)
      BY <1>0, <2>2, <2>4, <3>1, <3>2
    <3> QED BY <2>3, <3>1, <3>2, <3>3
  <2> QED BY <1>0, <1>1, <1>2, <2>1, <2>2, <2>4 DEF CollectInv
<1> QED BY <1>4, <1>5, <1>6, <1>7 DEF CollectNext

(* It holds of every run.                                                  *)
LEMMA CollectInvariant == CollectSpec => []CollectInv
<1>1. CollectInit => CollectInv
  BY EvidenceInvInit DEF CollectInit, CollectInv
<1> QED BY <1>1, CollectStep, PTL DEF CollectSpec

(* Where the judgement of a pair is due, its outcome is on record.         *)
LEMMA JudgementIsRecorded ==
  ASSUME CollectInv, Collected, NEW j \in Judgements, j.value \in tainted
  PROVE  Recorded(j)
<1>0. PICK i \in {k \in DOMAIN prog.sinks : IsChannel(prog.sinks[k])} :
        \E v \in Range(Arriving(prog.sinks[i])), p \in Range(prog.sinks[i].policies) :
          j = [sink |-> prog.sinks[i], value |-> v, policy |-> p]
  BY DEF Judgements
<1>1. PICK v \in Range(Arriving(prog.sinks[i])), p \in Range(prog.sinks[i].policies) :
        j = [sink |-> prog.sinks[i], value |-> v, policy |-> p]
  BY <1>0
<1>2. PICK k \in DOMAIN Arriving(prog.sinks[i]) : v = Arriving(prog.sinks[i])[k]
  BY DEF Range
<1>3. PICK n \in DOMAIN prog.sinks[i].policies : p = prog.sinks[i].policies[n]
  BY DEF Range
<1> DEFINE d == <<i, k, n>>
<1>4. d \in Due
  BY <1>1, <1>2 DEF Due
<1>5. JudgementAt(d) = j
  BY <1>1, <1>2, <1>3 DEF JudgementAt
<1> QED BY <1>4, <1>5 DEF CollectInv, Collected

(* What is found, or found of an identity never given, is reported.        *)
LEMMA FoundIsReported ==
  ASSUME NEW j, Recorded(j), Outcome(j) \in {"found", "unanswered"}
  PROVE  ReportedAt(j.sink, j.value, j.policy)
BY DEF Recorded, ReportedAt, Finding

(* For every program: a sanitized branch that arrives first does not       *)
(* silence an unsanitized one.                                             *)
THEOREM UntouchedCorrect == CollectSpec => []UntouchedRouteIsReported
<1>1. CollectInv => UntouchedRouteIsReported
  <2> SUFFICES ASSUME CollectInv, Collected, NEW j \in Judgements,
                      j.value \in ReachedUntouched \ prog.vouched,
                      ~j.policy.missing, ~j.policy.relation,
                      AnyShape(j.sink.channel, j.policy)
               PROVE  ReportedAt(j.sink, j.value, j.policy)
    BY DEF UntouchedRouteIsReported
  <2>1. EvidenceInv /\ Quiescent /\ ForestInv /\ KeptHops
    BY DEF CollectInv, Collected, EvidenceInv
  <2>2. j.value \in tainted /\ Chain(j.value) = 0
    BY <2>1, UntouchedIsLeast
  <2>3. Reported(j.value, j.sink.channel, j.policy)
    BY <2>1, <2>2, LeastIsReported
  <2>4. Outcome(j) \in {"found", "unanswered"}
    BY <2>3 DEF Outcome
  <2> QED BY <2>2, <2>4, JudgementIsRecorded, FoundIsReported
<1> QED BY <1>1, CollectInvariant, PTL

(* On the only route there is, the first seed on the way back is where the *)
(* printed path starts.                                                    *)
LEMMA OneRouteOneOrigin ==
  ASSUME ForestInv, KeptHops, NEW v \in tainted, SingleRoute(v)
  PROVE  OriginOf(v) = TraceOrigin(v)
<1> DEFINE b == BackFrom(v)
           trace == Trace(v)
           seeds == {i \in DOMAIN trace : IsSeed(trace[i])}
<1>1. PICK n \in Nat :
           /\ Trace(v) = [i \in 1 .. n + 1 |-> b[i - 1]]
           /\ \A m \in 0 .. n : b[m] \in tainted
           /\ \A m \in 0 .. n - 1 : pred[b[m]].from = b[m + 1]
           /\ pred[b[n]].from = NoValue
  BY TracePath
<1> HIDE DEF b
<1>0. tainted \subseteq Value /\ NoValue \notin tainted /\ IsFiniteSet(tainted)
  BY ProgramAssumption, CollectAssumption, FS_Subset DEF ForestInv, TypeOK
<1>2. n + 1 \in 1 .. n + 1 /\ DOMAIN trace = 1 .. n + 1 /\ trace[n + 1] = b[n] /\ Len(trace) = n + 1
  BY <1>1
<1>3. IsSeed(b[n])
  <2>1. n \in 0 .. n
    OBVIOUS
  <2> QED BY <1>1, <2>1 DEF KeptHops
<1>4. ASSUME NEW i \in seeds PROVE i = n + 1
  <2>1. i \in 1 .. n + 1 /\ trace[i] = b[i - 1] /\ IsSeed(b[i - 1])
    BY <1>1, <1>2
  <2> SUFFICES ASSUME i # n + 1 PROVE FALSE
    OBVIOUS
  <2>2. i - 1 \in 0 .. n - 1 /\ i - 1 \in 0 .. n /\ (i - 1) + 1 \in 0 .. n
    BY <2>1
  <2>3. b[i - 1] \in tainted /\ pred[b[i - 1]].from # NoValue
    BY <1>0, <1>1, <2>2
  <2>4. RoutesInto(b[i - 1]) # {}
    BY <2>3 DEF KeptHops
  <2>5. b[i - 1] \in OnPath(v)
    BY <1>2, <2>1 DEF OnPath, Range
  <2>6. Cardinality(RoutesInto(b[i - 1])) + 1 <= 1
    BY <2>1, <2>5 DEF SingleRoute
  <2>7. IsFiniteSet(RoutesInto(b[i - 1]))
    BY <1>0, FS_Subset DEF RoutesInto
  <2>8. Cardinality(RoutesInto(b[i - 1])) \in Nat /\ Cardinality(RoutesInto(b[i - 1])) # 0
    BY <2>4, <2>7, FS_CardinalityType, FS_EmptySet
  <2> QED BY <2>6, <2>8
<1>5. n + 1 \in seeds
  BY <1>2, <1>3
<1>6. seeds = {n + 1}
  BY <1>4, <1>5
<1>7. OriginOf(v) = trace[CHOOSE i \in seeds : \A j \in seeds : i <= j]
  BY <1>5 DEF OriginOf
<1> HIDE DEF seeds
<1>8. (CHOOSE i \in seeds : \A j \in seeds : i <= j) = n + 1
  BY <1>6
<1>9. TraceOrigin(v) = trace[n + 1]
  BY <1>2 DEF TraceOrigin, Last
<1> QED BY <1>7, <1>8, <1>9

(* For every program: an unguarded access along the only route is answered *)
(* for, whatever other entries check.                                      *)
THEOREM UnownedAnswered == CollectSpec => []UnownedAccessIsAnswered
<1>1. CollectInv => UnownedAccessIsAnswered
  <2> SUFFICES ASSUME CollectInv, Collected, NEW j \in Judgements,
                      j.value \in ReachedUntouched \ prog.vouched, j.policy.relation,
                      AnyShape(j.sink.channel, j.policy),
                      SingleRoute(j.value), UnrelatedAlong(j.value, j.sink)
               PROVE  \/ ReportedAt(j.sink, j.value, j.policy)
                      \/ j.policy.id \in skipped
                      \/ <<j.policy.id, prog.origin[TraceOrigin(j.value)].entry>> \in unjudged
    BY DEF UnownedAccessIsAnswered
  <2>1. EvidenceInv /\ Quiescent /\ ForestInv /\ KeptHops
    BY DEF CollectInv, Collected, EvidenceInv
  <2>2. j.value \in tainted /\ Chain(j.value) = 0
    BY <2>1, UntouchedIsLeast
  <2>3. Reported(j.value, j.sink.channel, j.policy)
    BY <2>1, <2>2, LeastIsReported
  <2>4. ~OperationCarries(j.sink) /\ ~EffectivelyRelated(j.value, j.sink)
    BY DEF UnrelatedAlong, EffectivelyRelated
  <2>5. Outcome(j) \in {"found", "unanswered", "skipped", "unjudged"}
    BY <2>3, <2>4 DEF Outcome
  <2>6. Recorded(j)
    BY <2>2, JudgementIsRecorded
  <2>7. OriginOf(j.value) = TraceOrigin(j.value)
    BY <2>1, <2>2, OneRouteOneOrigin
  <2>8. CASE Outcome(j) \in {"found", "unanswered"}
    BY <2>6, <2>8, FoundIsReported
  <2>9. CASE Outcome(j) = "skipped"
    BY <2>6, <2>9 DEF Recorded
  <2>10. CASE Outcome(j) = "unjudged"
    BY <2>6, <2>7, <2>10 DEF Recorded
  <2> QED BY <2>5, <2>8, <2>9, <2>10
<1> QED BY <1>1, CollectInvariant, PTL

(* Where nothing is known of a value, no call made it.                     *)
LEMMA NothingMadeIt ==
  ASSUME NEW p, NEW v \in Value \cup {NoValue}, NEW symbols,
         p.kind = [w \in Value \cup {NoValue} |-> "other"],
         p.assigned \in [Value -> Value \cup {NoValue}]
  PROVE  ~Reading!ReceiverMadeBy(p, v, symbols)
<1> DEFINE T == Value \cup {NoValue}
           M == MadeByHops - 1
           F == [w \in T |-> IF w = NoValue \/ p.kind[w] = "result" THEN w ELSE p.assigned[w]]
           Step(behind) ==
             [n \in 0 .. M |->
               IF n = 0 THEN v
               ELSE IF behind[n - 1] = NoValue \/ p.kind[behind[n - 1]] = "result"
                    THEN behind[n - 1] ELSE p.assigned[behind[n - 1]]]
           behind == CHOOSE b : b = Step(b)
<1>0. M \in Nat
  BY CollectAssumption
<1>1. F \in [T -> T]
  OBVIOUS
<1>2. PICK g \in [0 .. M -> T] : Iterates(g, 0 .. M, v, F)
  <2> HIDE DEF F, M
  <2> QED BY <1>0, <1>1, IterationUpTo
<1>3. g = Step(g)
  <2>1. ASSUME NEW n \in 0 .. M, n # 0 PROVE g[n - 1] \in T /\ g[n] = F[g[n - 1]]
    <3>1. n - 1 \in 0 .. M
      BY <1>0, <2>1
    <3> QED BY <1>2, <2>1, <3>1 DEF Iterates
  <2>2. g[0] = v
    <3>1. 0 \in 0 .. M
      BY <1>0
    <3> HIDE DEF F, M
    <3> QED BY <1>2, <3>1 DEF Iterates
  <2> QED BY <1>2, <2>1, <2>2
<1>4. Reading!ReceiverMadeBy(p, v, symbols)
      = (behind[M] # NoValue /\ p.kind[behind[M]] = "result" /\ p.madeBy[behind[M]] \in symbols)
  BY DEF Reading!ReceiverMadeBy
<1>5. behind = Step(behind)
  <2> HIDE DEF Step
  <2> QED BY <1>3, Zenon
<1> HIDE DEF behind, M
<1>6. \A n \in 0 .. M :
        behind[n] = IF n = 0 THEN v
                    ELSE IF behind[n - 1] = NoValue \/ p.kind[behind[n - 1]] = "result"
                    THEN behind[n - 1] ELSE p.assigned[behind[n - 1]]
  BY <1>5
<1> DEFINE D == {n \in 0 .. M : behind[n] \notin T}
<1>7. D = {}
  <2> SUFFICES ASSUME D # {} PROVE FALSE
    OBVIOUS
  <2>1. PICK n \in D : \A m \in D : n <= m
    <3>1. D \in SUBSET Nat
      BY <1>0
    <3> HIDE DEF D
    <3> QED BY <3>1, LeastNatural
  <2>2. n # 0
    BY <1>6, <2>1
  <2>3. n - 1 \in 0 .. M /\ n - 1 \notin D
    BY <1>0, <2>1, <2>2
  <2>4. behind[n - 1] \in T
    BY <2>3
  <2> QED BY <1>6, <2>1, <2>2, <2>4
<1>8. M \in 0 .. M
  BY <1>0
<1>9. behind[M] \in T
  BY <1>7, <1>8
<1> QED BY <1>4, <1>9

(* For every program: unknown is not an answer.                            *)
THEOREM KnowingLessCorrect == CollectSpec => []KnowingLessDropsNothing
<1>1. prog \in Program => KnowingLessDropsNothing
  <2> SUFFICES ASSUME prog \in Program, NEW i \in DOMAIN prog.sinks,
                      NEW sink, sink = prog.sinks[i], NEW ch, ch = sink.channel,
                      Reading!ChannelAdmits(prog, sink, ch),
                      ~ch.known, ch.receiverFrom = {}, ch.entryParam = Reading!None
               PROVE  Reading!ChannelAdmits(NothingKnown, Unknowing(sink), ch)
    BY DEF KnowingLessDropsNothing
  <2> DEFINE call == Unknowing(sink)
             p    == NothingKnown
  <2>1. /\ "kind" \in DOMAIN prog /\ "assigned" \in DOMAIN prog /\ "language" \in DOMAIN prog
        /\ prog.assigned \in [Value -> Value \cup {NoValue}]
        /\ sink.receiver \in Value \cup {NoValue}
        /\ {"receiver", "type", "typeOrigin", "builtins", "literals", "external",
            "catastrophic", "count", "written"} \subseteq DOMAIN sink
    BY ReceiverAssumption
  <2>2. /\ p.kind = [w \in Value \cup {NoValue} |-> "other"]
        /\ p.assigned = prog.assigned /\ p.language = prog.language
    BY <2>1 DEF NothingKnown
  <2>3. /\ call.type = "" /\ call.typeOrigin = "" /\ call.builtins = {} /\ call.literals = {}
        /\ call.receiver = sink.receiver /\ call.external = sink.external
        /\ call.catastrophic = sink.catastrophic /\ call.count = sink.count
        /\ call.written = sink.written
    BY <2>1 DEF Unknowing
  <2> HIDE DEF call, p
  <2>4. ~Reading!ReceiverMadeBy(p, call.receiver, ch.receiverNotFrom)
    BY <2>1, <2>2, <2>3, NothingMadeIt
  <2>5. Reading!KnownEnough(call, ch) /\ ~Reading!Copies(call, ch)
    BY <2>3 DEF Reading!KnownEnough, Reading!Foreign, Reading!Copies
  <2>6. Reading!ChannelAdmits(p, call, ch)
    BY <2>2, <2>3, <2>4, <2>5 DEF Reading!ChannelAdmits
  <2> QED BY <2>6 DEF call, p
<1>2. CollectInv => prog \in Program
  BY DEF CollectInv, EvidenceInv, ForestInv, TypeOK
<1> QED BY <1>1, <1>2, CollectInvariant, PTL
=============================================================================
