---------------------------- MODULE AcrossProofs ----------------------------
(***************************************************************************)
(* What other functions do first and this one does not is reported, for    *)
(* every function and every execution of it.                               *)
(*                                                                         *)
(* Two arguments.  The table `observe` builds never says more than is      *)
(* true: in whatever order the edges are listed, a value it traces to a    *)
(* parameter came out of that parameter (Sound).  So a decision it takes   *)
(* for a gate is one that asked about what is operated on, and one that    *)
(* dominates the operation has run.  And while the request is one a        *)
(* counter is under, the run is in front of the branch that leads to the   *)
(* counter, or in front of the counter, or past it.                        *)
(***************************************************************************)
EXTENDS AcrossFunctions, CfgProofs, FiniteSetTheorems, WellFoundedInduction

LEMMA LeastNatural ==
  ASSUME NEW T \in SUBSET Nat, T # {}
  PROVE  \E n \in T : \A m \in T : n <= m
<1>1. PICK x \in T : \A y \in T : ~(<<y, x>> \in OpToRel(<, Nat))
  BY NatLessThanWellFounded, WFMin
<1>2. ASSUME NEW y \in T PROVE x <= y
  <2>1. ~(y < x)
    BY <1>1 DEF OpToRel
  <2> QED BY <2>1
<1> QED BY <1>2

-----------------------------------------------------------------------------
(* A table written entry by entry: a function that starts at a and obeys F *)
(* exists, and every one stays where F stays.                              *)
Follows(g, n, a, F) == \A k \in 0 .. n : g[k] = IF k = 0 THEN a ELSE F[k][g[k - 1]]

LEMMA TableExists ==
  ASSUME NEW T, NEW a \in T, NEW N \in Nat, NEW F \in [1 .. N -> [T -> T]]
  PROVE  \E g \in [0 .. N -> T] : Follows(g, N, a, F)
<1> DEFINE Missing == {k \in 0 .. N : ~ \E g \in [0 .. k -> T] : Follows(g, k, a, F)}
<1>1. SUFFICES ASSUME Missing # {} PROVE FALSE
  OBVIOUS
<1>2. PICK k \in Missing : \A m \in Missing : k <= m
  <2>1. Missing \in SUBSET Nat
    OBVIOUS
  <2> HIDE DEF Missing
  <2> QED BY <1>1, <2>1, LeastNatural
<1>3. k # 0
  <2> DEFINE g == [m \in 0 .. 0 |-> a]
  <2>1. g \in [0 .. 0 -> T] /\ Follows(g, 0, a, F)
    BY DEF Follows
  <2>2. (\E h \in [0 .. 0 -> T] : Follows(h, 0, a, F)) => 0 \notin Missing
    OBVIOUS
  <2> HIDE DEF g, Missing
  <2> QED BY <2>1, <2>2, <1>2
<1>4. k \in 1 .. N /\ k - 1 \in 0 .. N /\ k - 1 \notin Missing
  BY <1>2, <1>3
<1>5. PICK g \in [0 .. k - 1 -> T] : Follows(g, k - 1, a, F)
  BY <1>4
<1> DEFINE h == [m \in 0 .. k |-> IF m = k THEN F[k][g[k - 1]] ELSE g[m]]
<1>6. \A m \in 0 .. k : m # k => m \in 0 .. k - 1
  BY <1>4
<1>7. F[k] \in [T -> T] /\ g[k - 1] \in T /\ F[k][g[k - 1]] \in T
  BY <1>4, <1>5
<1>8. h \in [0 .. k -> T]
  BY <1>5, <1>6, <1>7
<1>9. ASSUME NEW m \in 0 .. k PROVE h[m] = IF m = 0 THEN a ELSE F[m][h[m - 1]]
  <2>1. CASE m = k
    <3>1. k - 1 \in 0 .. k /\ k - 1 # k
      BY <1>4
    <3>2. h[k - 1] = g[k - 1] /\ h[k] = F[k][g[k - 1]]
      BY <3>1, <1>4
    <3> HIDE DEF h
    <3> QED BY <2>1, <1>3, <3>2
  <2>2. CASE m # k
    <3>1. m \in 0 .. k - 1 /\ h[m] = g[m]
      BY <2>2, <1>6
    <3>2. m # 0 => m - 1 \in 0 .. k /\ m - 1 # k
      BY <3>1, <1>4
    <3>3. m # 0 => h[m - 1] = g[m - 1]
      BY <3>2
    <3>4. g[m] = IF m = 0 THEN a ELSE F[m][g[m - 1]]
      BY <1>5, <3>1 DEF Follows
    <3> HIDE DEF h
    <3> QED BY <3>1, <3>3, <3>4
  <2> QED BY <2>1, <2>2
<1> HIDE DEF h
<1>10. Follows(h, k, a, F)
  BY <1>9 DEF Follows
<1> QED BY <1>2, <1>8, <1>10

(* What holds at 0 and carries over to the next holds up to any bound.     *)
LEMMA UpTo ==
  ASSUME NEW N \in Nat, NEW S \in SUBSET (0 .. N), 0 \in S,
         \A k \in 1 .. N : k - 1 \in S => k \in S
  PROVE  N \in S
<1>1. SUFFICES ASSUME (0 .. N) \ S # {} PROVE FALSE
  OBVIOUS
<1>2. PICK k \in (0 .. N) \ S : \A m \in (0 .. N) \ S : k <= m
  <2>1. (0 .. N) \ S \in SUBSET Nat
    OBVIOUS
  <2> QED BY <1>1, <2>1, LeastNatural
<1>3. k \in 1 .. N /\ k - 1 \in 0 .. N /\ k - 1 \in S
  BY <1>2
<1> QED BY <1>2, <1>3

-----------------------------------------------------------------------------
(* The function, as the rules are handed it.                               *)
LEMMA AcrossShape ==
  ASSUME NEW f \in LoweredFn
  PROVE  LET Own == {f.order[i] : i \in DOMAIN f.order}
         IN  /\ f.params \subseteq Value /\ IsFiniteSet(f.params)
             /\ Len(f.flows) \in Nat /\ DOMAIN f.flows = 1 .. Len(f.flows)
             /\ \A n \in 1 .. Len(f.flows) : f.flows[n].from \in Value /\ f.flows[n].to \in Value
             /\ Len(f.reads) \in Nat /\ DOMAIN f.reads = 1 .. Len(f.reads)
             /\ \A n \in 1 .. Len(f.reads) : f.reads[n].base \in Value /\ f.reads[n].to \in Value
             /\ Len(f.calls) \in Nat /\ DOMAIN f.calls = 1 .. Len(f.calls)
             /\ \A n \in 1 .. Len(f.calls) :
                  /\ f.calls[n].block \in Own /\ f.calls[n].result \in Value \cup {NoValue}
                  /\ Len(f.calls[n].args) \in Nat
                  /\ DOMAIN f.calls[n].args = 1 .. Len(f.calls[n].args)
                  /\ \A k \in DOMAIN f.calls[n].args : f.calls[n].args[k] \in Value
<1> DEFINE Own  == {f.order[i] : i \in DOMAIN f.order}
           Edge == [from : Value, to : Value, assigns : BOOLEAN]
           Prop == [base : Value, to : Value]
           Made == [does : {"decide", "operate", "reshape", "count"}, name : STRING,
                    block : Own, args : Seq(Value), result : Value \cup {NoValue}]
<1>1. /\ f.params \subseteq Value /\ IsFiniteSet(f.params)
      /\ f.flows \in Seq(Edge) /\ f.reads \in Seq(Prop) /\ f.calls \in Seq(Made)
  BY AcrossAssumption
<1> HIDE DEF Edge, Prop, Made
<1>2. /\ Len(f.flows) \in Nat /\ DOMAIN f.flows = 1 .. Len(f.flows)
      /\ \A n \in 1 .. Len(f.flows) : f.flows[n] \in Edge
  BY <1>1
<1>3. /\ Len(f.reads) \in Nat /\ DOMAIN f.reads = 1 .. Len(f.reads)
      /\ \A n \in 1 .. Len(f.reads) : f.reads[n] \in Prop
  BY <1>1
<1>4. /\ Len(f.calls) \in Nat /\ DOMAIN f.calls = 1 .. Len(f.calls)
      /\ \A n \in 1 .. Len(f.calls) : f.calls[n] \in Made
  BY <1>1
<1>5. \A n \in 1 .. Len(f.flows) : f.flows[n].from \in Value /\ f.flows[n].to \in Value
  BY <1>2 DEF Edge
<1>6. \A n \in 1 .. Len(f.reads) : f.reads[n].base \in Value /\ f.reads[n].to \in Value
  BY <1>3 DEF Prop
<1>7. ASSUME NEW n \in 1 .. Len(f.calls)
      PROVE  /\ f.calls[n].block \in Own /\ f.calls[n].result \in Value \cup {NoValue}
             /\ Len(f.calls[n].args) \in Nat
             /\ DOMAIN f.calls[n].args = 1 .. Len(f.calls[n].args)
             /\ \A k \in DOMAIN f.calls[n].args : f.calls[n].args[k] \in Value
  <2>1. f.calls[n].block \in Own /\ f.calls[n].result \in Value \cup {NoValue} /\ f.calls[n].args \in Seq(Value)
    BY <1>4 DEF Made
  <2> QED BY <2>1
<1> QED BY <1>1, <1>2, <1>3, <1>4, <1>5, <1>6, <1>7

-----------------------------------------------------------------------------
(* Where a value may have come from, h steps away at most.                 *)
Within(f, p, h) ==
  CASE h = 0 -> Renamed(f, {p})
    [] h = 1 -> Further(f, Renamed(f, {p}))
    [] OTHER -> Further(f, Further(f, Renamed(f, {p})))

LEMMA RenamedHolds ==
  ASSUME NEW f \in LoweredFn, NEW S
  PROVE  /\ S \cap Value \subseteq Renamed(f, S) /\ Renamed(f, S) \subseteq Value
         /\ \A e \in Range(f.flows) : e.assigns /\ e.from \in Renamed(f, S) => e.to \in Renamed(f, S)
<1>1. \A e \in Range(f.flows) : e.to \in Value
  BY AcrossShape DEF Range
<1> QED BY <1>1 DEF Renamed

LEMMA FurtherHolds ==
  ASSUME NEW f \in LoweredFn, NEW S \in SUBSET Value
  PROVE  /\ S \subseteq Further(f, S) /\ Further(f, S) \subseteq Value
         /\ \A e \in Range(f.flows) : e.from \in S => e.to \in Further(f, S)
         /\ \A e \in Range(f.flows) : e.assigns /\ e.from \in Further(f, S) => e.to \in Further(f, S)
         /\ \A r \in Range(f.reads) : r.base \in S => r.to \in Further(f, S)
         /\ \A c \in Range(f.calls) :
              c.result # NoValue /\ Range(c.args) \cap S # {} => c.result \in Further(f, S)
<1> DEFINE U == S \cup {e.to : e \in {g \in Range(f.flows) : g.from \in S}}
                  \cup {r.to : r \in {q \in Range(f.reads) : q.base \in S}}
                  \cup {c.result : c \in {d \in Range(f.calls) :
                                           d.result # NoValue /\ Range(d.args) \cap S # {}}}
<1>1. /\ \A e \in Range(f.flows) : e.to \in Value
      /\ \A r \in Range(f.reads) : r.to \in Value
      /\ \A c \in Range(f.calls) : c.result # NoValue => c.result \in Value
  BY AcrossShape DEF Range
<1>2. /\ S \subseteq U
      /\ \A e \in Range(f.flows) : e.from \in S => e.to \in U
      /\ \A r \in Range(f.reads) : r.base \in S => r.to \in U
      /\ \A c \in Range(f.calls) :
           c.result # NoValue /\ Range(c.args) \cap S # {} => c.result \in U
  OBVIOUS
<1>3. Further(f, S) = Renamed(f, U)
  BY DEF Further
<1> HIDE DEF U
<1>4. /\ U \cap Value \subseteq Renamed(f, U) /\ Renamed(f, U) \subseteq Value
      /\ \A e \in Range(f.flows) : e.assigns /\ e.from \in Renamed(f, U) => e.to \in Renamed(f, U)
  BY RenamedHolds
<1> QED BY <1>1, <1>2, <1>3, <1>4

LEMMA WithinHolds ==
  ASSUME NEW f \in LoweredFn, NEW p \in f.params, NEW h \in 0 .. Reach
  PROVE  /\ Within(f, p, h) \subseteq Value /\ p \in Within(f, p, h)
         /\ \A e \in Range(f.flows) : e.assigns /\ e.from \in Within(f, p, h) => e.to \in Within(f, p, h)
         /\ h < Reach =>
              /\ Within(f, p, h) \subseteq Within(f, p, h + 1)
              /\ \A e \in Range(f.flows) : e.from \in Within(f, p, h) => e.to \in Within(f, p, h + 1)
              /\ \A r \in Range(f.reads) : r.base \in Within(f, p, h) => r.to \in Within(f, p, h + 1)
              /\ \A c \in Range(f.calls) :
                   c.result # NoValue /\ Range(c.args) \cap Within(f, p, h) # {}
                     => c.result \in Within(f, p, h + 1)
<1> DEFINE S0 == Renamed(f, {p})
           S1 == Further(f, S0)
           S2 == Further(f, S1)
<1>1. p \in Value
  BY AcrossShape
<1>2. /\ p \in S0 /\ S0 \in SUBSET Value
      /\ \A e \in Range(f.flows) : e.assigns /\ e.from \in S0 => e.to \in S0
  BY <1>1, RenamedHolds
<1>3. S1 \in SUBSET Value /\ S2 \in SUBSET Value
  BY <1>2, FurtherHolds
<1>4. /\ h \in {0, 1, 2} /\ (h < Reach <=> h \in {0, 1})
      /\ Within(f, p, 0) = S0 /\ Within(f, p, 1) = S1 /\ Within(f, p, 2) = S2
  BY DEF Reach, Within
<1> HIDE DEF S0, S1, S2
<1>5. CASE h = 0
  <2>1. h + 1 = 1
    BY <1>5
  <2> QED BY <1>2, <1>3, <1>4, <1>5, <2>1, FurtherHolds DEF S1
<1>6. CASE h = 1
  <2>1. h + 1 = 2
    BY <1>6
  <2>2. p \in S1
    BY <1>2, FurtherHolds DEF S1
  <2>3. \A e \in Range(f.flows) : e.assigns /\ e.from \in S1 => e.to \in S1
    BY <1>2, FurtherHolds DEF S1
  <2> QED BY <1>3, <1>4, <1>6, <2>1, <2>2, <2>3, FurtherHolds DEF S2
<1>7. CASE h = 2
  <2>1. p \in S1 /\ S1 \subseteq S2
    BY <1>2, <1>3, FurtherHolds DEF S1, S2
  <2>2. \A e \in Range(f.flows) : e.assigns /\ e.from \in S2 => e.to \in S2
    BY <1>3, FurtherHolds DEF S2
  <2> QED BY <1>3, <1>4, <1>7, <2>1, <2>2
<1> QED BY <1>4, <1>5, <1>6, <1>7

-----------------------------------------------------------------------------
(* The tables that say nothing false: what they trace to a parameter, in   *)
(* so many steps, came out of it within them.                              *)
Trail == [param : Value \cup {NoValue}, hops : 0 .. Reach + 1]

Tells(f, v, trail) ==
  trail.hops <= Reach => trail.param \in f.params /\ v \in Within(f, trail.param, trail.hops)

Sound(f) == {t \in [Value -> Trail] : \A v \in Value : Tells(f, v, t[v])}

LEMMA NoteIsSound ==
  ASSUME NEW f \in LoweredFn, NEW t \in Sound(f), NEW to \in Value \cup {NoValue},
         NEW source \in Trail, NEW step \in {0, 1},
         to # NoValue /\ source.hops + step <= Reach =>
           /\ source.param \in f.params
           /\ to \in Within(f, source.param, source.hops + step)
  PROVE  Note(t, to, source, step) \in Sound(f)
<1> DEFINE far == [param |-> source.param, hops |-> source.hops + step]
<1>1. CASE to = NoValue \/ source.hops + step >= t[to].hops
  BY <1>1 DEF Note
<1>2. CASE ~ (to = NoValue \/ source.hops + step >= t[to].hops)
  <2>1. /\ to \in Value /\ t \in [Value -> Trail] /\ t[to] \in Trail
        /\ \A v \in Value : Tells(f, v, t[v])
    BY <1>2 DEF Sound
  <2>2. source.hops \in Nat /\ t[to].hops \in Nat /\ t[to].hops <= Reach + 1 /\ Reach \in Nat
        /\ source.param \in Value \cup {NoValue}
    BY <2>1 DEF Trail, Reach
  <2>3. source.hops + step <= Reach /\ source.hops + step \in 0 .. Reach + 1
    BY <1>2, <2>2
  <2>4. far \in Trail /\ far.param = source.param /\ far.hops = source.hops + step
    BY <2>2, <2>3 DEF Trail
  <2> HIDE DEF far
  <2>5. Tells(f, to, far)
    BY <1>2, <2>3, <2>4 DEF Tells
  <2>6. Note(t, to, source, step) = [t EXCEPT ![to] = far]
    BY <1>2 DEF Note, far
  <2>7. [t EXCEPT ![to] = far] \in [Value -> Trail]
    BY <2>1, <2>4
  <2>8. \A v \in Value : Tells(f, v, [t EXCEPT ![to] = far][v])
    BY <2>1, <2>5
  <2> QED BY <2>6, <2>7, <2>8 DEF Sound
<1> QED BY <1>1, <1>2

(* One entry of each list.                                                 *)
LEMMA FlowIsSound ==
  ASSUME NEW f \in LoweredFn, NEW t \in Sound(f), NEW n \in 1 .. Len(f.flows)
  PROVE  Note(t, f.flows[n].to, t[f.flows[n].from], IF f.flows[n].assigns THEN 0 ELSE 1) \in Sound(f)
<1> DEFINE e      == f.flows[n]
           source == t[e.from]
           step   == IF e.assigns THEN 0 ELSE 1
<1>1. e.from \in Value /\ e.to \in Value /\ e \in Range(f.flows)
  BY AcrossShape DEF Range
<1>2. source \in Trail /\ Tells(f, e.from, source) /\ step \in {0, 1}
  BY <1>1 DEF Sound
<1>3. source.hops \in Nat /\ Reach \in Nat
  BY <1>2 DEF Trail, Reach
<1> HIDE DEF e, source
<1>4. ASSUME source.hops + step <= Reach
      PROVE  /\ source.param \in f.params
             /\ e.to \in Within(f, source.param, source.hops + step)
  <2>1. source.hops <= Reach /\ source.hops \in 0 .. Reach
    BY <1>2, <1>3, <1>4
  <2>2. source.param \in f.params /\ e.from \in Within(f, source.param, source.hops)
    BY <1>2, <2>1 DEF Tells
  <2>3. CASE e.assigns
    <3>1. source.hops + step = source.hops
      BY <1>3, <2>3
    <3> QED BY <1>1, <2>1, <2>2, <2>3, <3>1, WithinHolds
  <2>4. CASE ~ e.assigns
    <3>1. source.hops + step = source.hops + 1 /\ source.hops < Reach
      BY <1>3, <1>4, <2>4
    <3> QED BY <1>1, <2>1, <2>2, <3>1, WithinHolds
  <2> QED BY <2>3, <2>4
<1> HIDE DEF step
<1>5. Note(t, e.to, source, step) \in Sound(f)
  BY <1>1, <1>2, <1>4, NoteIsSound
<1> QED BY <1>5 DEF e, source, step

LEMMA ReadIsSound ==
  ASSUME NEW f \in LoweredFn, NEW t \in Sound(f), NEW n \in 1 .. Len(f.reads)
  PROVE  Note(t, f.reads[n].to, t[f.reads[n].base], 1) \in Sound(f)
<1> DEFINE r      == f.reads[n]
           source == t[r.base]
<1>1. r.base \in Value /\ r.to \in Value /\ r \in Range(f.reads)
  BY AcrossShape DEF Range
<1>2. source \in Trail /\ Tells(f, r.base, source)
  BY <1>1 DEF Sound
<1>3. source.hops \in Nat /\ Reach \in Nat
  BY <1>2 DEF Trail, Reach
<1> HIDE DEF r, source
<1>4. ASSUME source.hops + 1 <= Reach
      PROVE  /\ source.param \in f.params
             /\ r.to \in Within(f, source.param, source.hops + 1)
  <2>1. source.hops <= Reach /\ source.hops < Reach /\ source.hops \in 0 .. Reach
    BY <1>3, <1>4
  <2>2. source.param \in f.params /\ r.base \in Within(f, source.param, source.hops)
    BY <1>2, <2>1 DEF Tells
  <2> QED BY <1>1, <2>1, <2>2, WithinHolds
<1>5. Note(t, r.to, source, 1) \in Sound(f)
  BY <1>1, <1>2, <1>4, NoteIsSound
<1> QED BY <1>5 DEF r, source

LEMMA CallIsSound ==
  ASSUME NEW f \in LoweredFn, NEW t \in Sound(f), NEW n \in 1 .. Len(f.calls)
  PROVE  Note(t, f.calls[n].result, Handed(t, f.calls[n].args), 1) \in Sound(f)
<1> DEFINE c      == f.calls[n]
           source == Handed(t, c.args)
           From   == {k \in DOMAIN c.args : t[c.args[k]].hops <= Reach}
           none   == [param |-> NoValue, hops |-> Reach + 1]
<1>1. /\ c.result \in Value \cup {NoValue} /\ c \in Range(f.calls)
      /\ Len(c.args) \in Nat /\ DOMAIN c.args = 1 .. Len(c.args)
      /\ \A k \in DOMAIN c.args : c.args[k] \in Value
  BY AcrossShape DEF Range
<1>2. \A v \in Value : t[v] \in Trail /\ Tells(f, v, t[v])
  BY DEF Sound
<1>3. CASE From = {}
  <2>1. source = none
    BY <1>3 DEF Handed
  <2>2. none \in Trail /\ ~ (none.hops + 1 <= Reach)
    BY DEF Trail, Reach
  <2> HIDE DEF c, source, none
  <2>3. Note(t, c.result, source, 1) \in Sound(f)
    BY <1>1, <2>1, <2>2, NoteIsSound
  <2> QED BY <2>3 DEF c, source
<1>4. CASE From # {}
  <2>1. \E k \in From : \A j \in From : k <= j
    <3>1. From \in SUBSET Nat
      BY <1>1
    <3> HIDE DEF From
    <3> QED BY <1>4, <3>1, LeastNatural
  <2>2. source = t[c.args[CHOOSE k \in From : \A j \in From : k <= j]]
    BY <1>4 DEF Handed
  <2>3. PICK k \in From : source = t[c.args[k]]
    <3> HIDE DEF From, source
    <3> QED BY <2>1, <2>2, Zenon
  <2>4. /\ k \in DOMAIN c.args /\ source.hops <= Reach /\ c.args[k] \in Value
        /\ source \in Trail /\ Tells(f, c.args[k], source)
    BY <1>1, <1>2, <2>3
  <2> HIDE DEF c, source, From
  <2>5. source.hops \in 0 .. Reach /\ source.hops \in Nat /\ Reach \in Nat
    BY <2>4 DEF Trail, Reach
  <2>6. source.param \in f.params /\ c.args[k] \in Within(f, source.param, source.hops)
    BY <2>4 DEF Tells
  <2>7. Range(c.args) \cap Within(f, source.param, source.hops) # {}
    BY <2>4, <2>6 DEF Range
  <2>8. ASSUME c.result # NoValue, source.hops + 1 <= Reach
        PROVE  c.result \in Within(f, source.param, source.hops + 1)
    <3>1. source.hops < Reach
      BY <2>5, <2>8
    <3> QED BY <1>1, <2>5, <2>6, <2>7, <2>8, <3>1, WithinHolds
  <2>9. Note(t, c.result, source, 1) \in Sound(f)
    BY <1>1, <2>4, <2>6, <2>8, NoteIsSound
  <2> QED BY <2>9 DEF c, source
<1> QED BY <1>3, <1>4

(* One round, and the two of them.                                         *)
LEMMA AlongFlowsIsSound ==
  ASSUME NEW f \in LoweredFn, NEW known \in Sound(f)
  PROVE  AlongFlows(f, known) \in Sound(f)
<1> DEFINE N        == Len(f.flows)
           T        == Sound(f)
           One(n, t) == Note(t, f.flows[n].to, t[f.flows[n].from],
                            IF f.flows[n].assigns THEN 0 ELSE 1)
           Entry(g) == [n \in 0 .. N |-> IF n = 0 THEN known ELSE One(n, g[n - 1])]
           F        == [n \in 1 .. N |-> [t \in T |-> One(n, t)]]
           table    == CHOOSE g : g = Entry(g)
<1>1. N \in Nat /\ known \in T
  BY AcrossShape
<1>2. \A n \in 1 .. N : \A t \in T : One(n, t) \in T
  BY FlowIsSound
<1>3. AlongFlows(f, known) = table[N]
  BY DEF AlongFlows
<1> HIDE DEF One, T, N
<1>4. F \in [1 .. N -> [T -> T]]
  BY <1>2
<1>5. PICK g \in [0 .. N -> T] : Follows(g, N, known, F)
  <2> HIDE DEF F
  <2> QED BY <1>1, <1>4, TableExists
<1>6. ASSUME NEW n \in 0 .. N PROVE g[n] = IF n = 0 THEN known ELSE One(n, g[n - 1])
  <2>1. CASE n = 0
    BY <1>5, <2>1 DEF Follows
  <2>2. CASE n # 0
    <3>1. n \in 1 .. N /\ n - 1 \in 0 .. N
      BY <1>1, <2>2
    <3>2. g[n] = F[n][g[n - 1]]
      BY <1>5, <2>2 DEF Follows
    <3> QED BY <1>5, <2>2, <3>1, <3>2
  <2> QED BY <2>1, <2>2
<1>7. g = Entry(g)
  BY <1>5, <1>6
<1>8. table = Entry(table)
  <2> HIDE DEF Entry
  <2> QED BY <1>7, Zenon
<1> HIDE DEF table
<1>9. table[0] \in T
  BY <1>1, <1>8
<1>10. ASSUME NEW n \in 1 .. N, table[n - 1] \in T PROVE table[n] \in T
  <2>1. table[n] = One(n, table[n - 1])
    BY <1>1, <1>8
  <2> QED BY <1>2, <1>10, <2>1
<1>11. N \in {n \in 0 .. N : table[n] \in T}
  <2> DEFINE S == {n \in 0 .. N : table[n] \in T}
  <2>1. S \in SUBSET (0 .. N) /\ 0 \in S /\ \A k \in 1 .. N : k - 1 \in S => k \in S
    BY <1>1, <1>9, <1>10
  <2> HIDE DEF S
  <2>2. N \in S
    BY <1>1, <2>1, UpTo
  <2> QED BY <2>2 DEF S
<1> QED BY <1>3, <1>11 DEF T

LEMMA AlongReadsIsSound ==
  ASSUME NEW f \in LoweredFn, NEW known \in Sound(f)
  PROVE  AlongReads(f, known) \in Sound(f)
<1> DEFINE N        == Len(f.reads)
           T        == Sound(f)
           One(n, t) == Note(t, f.reads[n].to, t[f.reads[n].base], 1)
           Entry(g) == [n \in 0 .. N |-> IF n = 0 THEN known ELSE One(n, g[n - 1])]
           F        == [n \in 1 .. N |-> [t \in T |-> One(n, t)]]
           table    == CHOOSE g : g = Entry(g)
<1>1. N \in Nat /\ known \in T
  BY AcrossShape
<1>2. \A n \in 1 .. N : \A t \in T : One(n, t) \in T
  BY ReadIsSound
<1>3. AlongReads(f, known) = table[N]
  BY DEF AlongReads
<1> HIDE DEF One, T, N
<1>4. F \in [1 .. N -> [T -> T]]
  BY <1>2
<1>5. PICK g \in [0 .. N -> T] : Follows(g, N, known, F)
  <2> HIDE DEF F
  <2> QED BY <1>1, <1>4, TableExists
<1>6. ASSUME NEW n \in 0 .. N PROVE g[n] = IF n = 0 THEN known ELSE One(n, g[n - 1])
  <2>1. CASE n = 0
    BY <1>5, <2>1 DEF Follows
  <2>2. CASE n # 0
    <3>1. n \in 1 .. N /\ n - 1 \in 0 .. N
      BY <1>1, <2>2
    <3>2. g[n] = F[n][g[n - 1]]
      BY <1>5, <2>2 DEF Follows
    <3> QED BY <1>5, <2>2, <3>1, <3>2
  <2> QED BY <2>1, <2>2
<1>7. g = Entry(g)
  BY <1>5, <1>6
<1>8. table = Entry(table)
  <2> HIDE DEF Entry
  <2> QED BY <1>7, Zenon
<1> HIDE DEF table
<1>9. table[0] \in T
  BY <1>1, <1>8
<1>10. ASSUME NEW n \in 1 .. N, table[n - 1] \in T PROVE table[n] \in T
  <2>1. table[n] = One(n, table[n - 1])
    BY <1>1, <1>8
  <2> QED BY <1>2, <1>10, <2>1
<1>11. N \in {n \in 0 .. N : table[n] \in T}
  <2> DEFINE S == {n \in 0 .. N : table[n] \in T}
  <2>1. S \in SUBSET (0 .. N) /\ 0 \in S /\ \A k \in 1 .. N : k - 1 \in S => k \in S
    BY <1>1, <1>9, <1>10
  <2> HIDE DEF S
  <2>2. N \in S
    BY <1>1, <2>1, UpTo
  <2> QED BY <2>2 DEF S
<1> QED BY <1>3, <1>11 DEF T

LEMMA AlongCallsIsSound ==
  ASSUME NEW f \in LoweredFn, NEW known \in Sound(f)
  PROVE  AlongCalls(f, known) \in Sound(f)
<1> DEFINE N        == Len(f.calls)
           T        == Sound(f)
           One(n, t) == Note(t, f.calls[n].result, Handed(t, f.calls[n].args), 1)
           Entry(g) == [n \in 0 .. N |-> IF n = 0 THEN known ELSE One(n, g[n - 1])]
           F        == [n \in 1 .. N |-> [t \in T |-> One(n, t)]]
           table    == CHOOSE g : g = Entry(g)
<1>1. N \in Nat /\ known \in T
  BY AcrossShape
<1>2. \A n \in 1 .. N : \A t \in T : One(n, t) \in T
  BY CallIsSound
<1>3. AlongCalls(f, known) = table[N]
  BY DEF AlongCalls
<1> HIDE DEF One, T, N
<1>4. F \in [1 .. N -> [T -> T]]
  BY <1>2
<1>5. PICK g \in [0 .. N -> T] : Follows(g, N, known, F)
  <2> HIDE DEF F
  <2> QED BY <1>1, <1>4, TableExists
<1>6. ASSUME NEW n \in 0 .. N PROVE g[n] = IF n = 0 THEN known ELSE One(n, g[n - 1])
  <2>1. CASE n = 0
    BY <1>5, <2>1 DEF Follows
  <2>2. CASE n # 0
    <3>1. n \in 1 .. N /\ n - 1 \in 0 .. N
      BY <1>1, <2>2
    <3>2. g[n] = F[n][g[n - 1]]
      BY <1>5, <2>2 DEF Follows
    <3> QED BY <1>5, <2>2, <3>1, <3>2
  <2> QED BY <2>1, <2>2
<1>7. g = Entry(g)
  BY <1>5, <1>6
<1>8. table = Entry(table)
  <2> HIDE DEF Entry
  <2> QED BY <1>7, Zenon
<1> HIDE DEF table
<1>9. table[0] \in T
  BY <1>1, <1>8
<1>10. ASSUME NEW n \in 1 .. N, table[n - 1] \in T PROVE table[n] \in T
  <2>1. table[n] = One(n, table[n - 1])
    BY <1>1, <1>8
  <2> QED BY <1>2, <1>10, <2>1
<1>11. N \in {n \in 0 .. N : table[n] \in T}
  <2> DEFINE S == {n \in 0 .. N : table[n] \in T}
  <2>1. S \in SUBSET (0 .. N) /\ 0 \in S /\ \A k \in 1 .. N : k - 1 \in S => k \in S
    BY <1>1, <1>9, <1>10
  <2> HIDE DEF S
  <2>2. N \in S
    BY <1>1, <2>1, UpTo
  <2> QED BY <2>2 DEF S
<1> QED BY <1>3, <1>11 DEF T

LEMMA OriginsAreSound ==
  ASSUME NEW f \in LoweredFn
  PROVE  Origins(f) \in Sound(f)
<1>1. Start(f) \in Sound(f)
  <2>1. f.params \subseteq Value /\ Reach = 2
    BY AcrossShape DEF Reach
  <2>2. Start(f) \in [Value -> Trail]
    BY <2>1 DEF Start, Trail
  <2>3. ASSUME NEW v \in Value PROVE Tells(f, v, Start(f)[v])
    <3>1. CASE v \in f.params
      <4>1. Start(f)[v].param = v /\ Start(f)[v].hops = 0 /\ 0 \in 0 .. Reach
        BY <2>1, <3>1 DEF Start
      <4> QED BY <3>1, <4>1, WithinHolds DEF Tells
    <3>2. CASE v \notin f.params
      <4>1. Start(f)[v].hops = 3
        BY <2>1, <3>2 DEF Start
      <4> QED BY <2>1, <4>1 DEF Tells
    <3> QED BY <3>1, <3>2
  <2> QED BY <2>2, <2>3 DEF Sound
<1>2. ASSUME NEW t \in Sound(f) PROVE Sweep(f, t) \in Sound(f)
  BY AlongFlowsIsSound, AlongReadsIsSound, AlongCallsIsSound DEF Sweep
<1> QED BY <1>1, <1>2 DEF Origins

-----------------------------------------------------------------------------
(* What is observed of a call is true of it: the parameters it is said to  *)
(* be handed are among those its arguments came out of.                    *)
HandedFrom(i) == UNION {CameFrom(fn, v) : v \in ArgsOf(i)}

LEMMA CallShape ==
  ASSUME fn \in LoweredFn, NEW i \in Calls
  PROVE  Call(i).block \in Blocks /\ ArgsOf(i) \subseteq Value /\ ArgsOf(i) = Range(fn.calls[i].args)
<1>1. /\ i \in 1 .. Len(fn.calls) /\ fn.calls[i].block \in Blocks
      /\ \A k \in DOMAIN fn.calls[i].args : fn.calls[i].args[k] \in Value
  BY AcrossShape DEF Calls, Blocks
<1>2. ArgsOf(i) = Range(fn.calls[i].args)
  BY DEF ArgsOf, Call, Range
<1> QED BY <1>1, <1>2 DEF Call, Range

LEMMA WithinReach ==
  ASSUME NEW f \in LoweredFn, NEW p \in f.params, NEW h \in 0 .. Reach
  PROVE  Within(f, p, h) \subseteq Further(f, Further(f, Renamed(f, {p})))
<1>1. h \in {0, 1, 2} /\ Reach = 2 /\ 0 \in 0 .. Reach /\ 1 \in 0 .. Reach
  BY DEF Reach
<1>2. Within(f, p, 2) = Further(f, Further(f, Renamed(f, {p})))
  BY DEF Within
<1>3. Within(f, p, 0) \subseteq Within(f, p, 0 + 1) /\ Within(f, p, 1) \subseteq Within(f, p, 1 + 1)
  BY <1>1, WithinHolds
<1> QED BY <1>1, <1>2, <1>3

LEMMA InputsAreTrue ==
  ASSUME fn \in LoweredFn, NEW i \in Calls
  PROVE  InputsOf(Origins(fn), i) \subseteq HandedFrom(i)
<1> DEFINE known == Origins(fn)
<1> SUFFICES ASSUME NEW v \in ArgsOf(i), known[v].hops <= Reach
             PROVE  known[v].param \in CameFrom(fn, v)
  BY DEF InputsOf, HandedFrom
<1>1. known \in [Value -> Trail] /\ v \in Value /\ Tells(fn, v, known[v])
  BY OriginsAreSound, CallShape DEF Sound
<1>2. known[v].hops \in 0 .. Reach
  BY <1>1 DEF Trail, Reach
<1> HIDE DEF known
<1>3. known[v].param \in fn.params /\ v \in Within(fn, known[v].param, known[v].hops)
  BY <1>1 DEF Tells
<1> QED BY <1>2, <1>3, WithinReach DEF CameFrom

-----------------------------------------------------------------------------
(* Every state: the graph is analysed, and the reports are those of the    *)
(* rules.                                                                  *)
AcInv ==
  /\ Analysed
  /\ StandsWhereListed(fn)
  /\ RunInv
  /\ judged => said = PeerOmissions \cup Uncovered
  /\ fn.rule = "limiter" => request.path = fn.route

LEMMA OneBlockEach ==
  ASSUME fn \in LoweredFn, StandsWhereListed(fn)
  PROVE  StandsOnce(fn)
BY DEF StandsWhereListed, StandsOnce

LEMMA AcInvInit == AcInit /\ StandsWhereListed(fn) => AcInv
<1> SUFFICES ASSUME AcInit, StandsWhereListed(fn) PROVE AcInv
  OBVIOUS
<1>1. fn \in LoweredFn /\ reached = FromEntry
  BY AnalysedDominance DEF AcInit
<1>2. RunInv
  BY <1>1, RunInvInit DEF AcInit
<1> QED BY <1>2 DEF AcInv, AcInit

(* The reports depend on the function and its graph only.                  *)
LEMMA AcFrame ==
  ASSUME vars' = vars
  PROVE  /\ fn' = fn /\ PeerOmissions' = PeerOmissions /\ Uncovered' = Uncovered
         /\ Analysed' = Analysed
<1>1. fn' = fn /\ reached' = reached /\ postDoms' = postDoms /\ doms' = doms
  BY DEF vars
<1>2. Calls' = Calls /\ \A i : Call(i)' = Call(i)
  BY <1>1 DEF Calls, Call
<1>3. /\ \A S : Doing(S)' = Doing(S)
      /\ \A i : ArgsOf(i)' = ArgsOf(i)
  BY <1>2 DEF Doing, ArgsOf
<1>4. /\ \A a, b : Dominates(a, b)' <=> Dominates(a, b)
      /\ \A a, b : PostDominates(a, b)' <=> PostDominates(a, b)
      /\ \A b : Succ(b)' = Succ(b)
  BY <1>1 DEF Dominates, PostDominates, Succ
<1>5. /\ \A a, b : ControlDependsOn(a, b)' <=> ControlDependsOn(a, b)
      /\ \A a, b, k : DependsOnSuccessor(a, b, k)' <=> DependsOnSuccessor(a, b, k)
  BY <1>1, <1>4 DEF ControlDependsOn, DependsOnSuccessor, BranchesTwoWays
<1>6. \A c, o : GatesIt(c, o)' <=> GatesIt(c, o)
  BY <1>2, <1>4, <1>5 DEF GatesIt
<1>7. \A t, i : InputsOf(t, i)' = InputsOf(t, i)
  BY <1>3 DEF InputsOf
<1>8. Observed' = Observed
  BY <1>1, <1>2, <1>3, <1>6, <1>7 DEF Observed
<1>9. PeerOmissions' = PeerOmissions
  BY <1>1, <1>8 DEF PeerOmissions, AppliedBy
<1>10. \A i : Predicates(i)' = Predicates(i)
  BY <1>1, <1>2, <1>5 DEF Predicates, ReadOnItsArm
<1>11. Uncovered' = Uncovered
  <2>1. Admissions' = Admissions
    BY <1>1, <1>3, <1>10 DEF Admissions
  <2>2. \A a : Covers(a)' <=> Covers(a)
    BY <1>1 DEF Covers
  <2> QED BY <1>1, <2>1, <2>2 DEF Uncovered
<1>12. Analysed' = Analysed
  BY DEF Analysed, vars, Blocks, FromEntry, CutFromEntry, CutFromExits, Exits, Succ
<1> QED BY <1>1, <1>9, <1>11, <1>12

LEMMA AcInvStep == AcInv /\ [AcNext]_all => AcInv'
<1> SUFFICES ASSUME AcInv, [AcNext]_all PROVE AcInv'
  OBVIOUS
<1>1. vars' = vars /\ fn' = fn /\ request' = request
  BY DEF AcNext, Judge, Execute, Leave, all, vars
<1>2. /\ Analysed /\ fn \in LoweredFn /\ reached = FromEntry
      /\ StandsWhereListed(fn) /\ StandsOnce(fn)
  BY AnalysedDominance, OneBlockEach DEF AcInv
<1>3. Analysed' /\ StandsWhereListed(fn)'
  BY <1>1, <1>2, AcFrame
<1>4. RunInv'
  <2>1. CASE Execute
    BY <2>1, <1>1, <1>2, RunInvStatement DEF Execute, AcInv
  <2>2. CASE Leave
    BY <2>2, <1>1, <1>2, RunInvBranch DEF Leave, AcInv
  <2>3. CASE Judge \/ UNCHANGED all
    BY <2>3, <1>1, RunInvStutter DEF Judge, AcInv, all
  <2> QED BY <2>1, <2>2, <2>3 DEF AcNext
<1>5. judged' => said' = (PeerOmissions \cup Uncovered)'
  <2>1. CASE Judge
    BY <2>1, <1>1, AcFrame DEF Judge
  <2>2. CASE Execute \/ Leave \/ UNCHANGED all
    BY <2>2, <1>1, AcFrame DEF Execute, Leave, all, AcInv
  <2> QED BY <2>1, <2>2 DEF AcNext
<1> QED BY <1>1, <1>3, <1>4, <1>5 DEF AcInv

LEMMA AcInvariant == AcSpec /\ StandsWhereListed(fn) => []AcInv
BY AcInvInit, AcInvStep, PTL DEF AcSpec

-----------------------------------------------------------------------------
(* What lies behind a call that has just run.                              *)
LEMMA CallStands ==
  ASSUME fn \in LoweredFn, StandsWhereListed(fn), NEW i \in Calls
  PROVE  \E n \in DOMAIN fn.text[Call(i).block] : fn.text[Call(i).block][n] = <<"call", i>>
BY DEF StandsWhereListed, Calls, Call

LEMMA BehindTheCall ==
  ASSUME AcInv, NEW i, Now(<<"call", i>>)
  PROVE  /\ i \in Calls /\ Call(i).block \in reached
         /\ \E p \in DOMAIN fn.text[Call(i).block] :
              /\ fn.text[Call(i).block][p] = <<"call", i>>
              /\ RanThrough(trace, Len(trace), Call(i).block, p)
         /\ DominatorsRan(trace, Len(trace), Call(i).block)
<1>1. /\ fn \in LoweredFn /\ reached \subseteq Blocks /\ StandsWhereListed(fn)
      /\ trace \in Seq(STRING \X Nat) /\ trace # <<>> /\ trace[Len(trace)] = <<"call", i>>
  BY AnalysedDominance, FromEntryClosed DEF AcInv, RunInv, RunTypes, Now
<1>2. Len(trace) \in 1 .. Len(trace)
  BY <1>1
<1>3. PICK b \in reached : \E p \in DOMAIN fn.text[b] :
        /\ trace[Len(trace)] = fn.text[b][p]
        /\ RanThrough(trace, Len(trace), b, p) /\ DominatorsRan(trace, Len(trace), b)
  BY <1>2 DEF AcInv, RunInv, RunBehind, Followed
<1>4. b \in DOMAIN fn.text
  BY <1>1, TextOfBlock
<1>5. i \in Calls /\ Call(i).block = b
  BY <1>1, <1>3, <1>4 DEF StandsWhereListed, Calls, Call
<1> QED BY <1>1, <1>3, <1>5

(* The text of its block has run: so has every call on it.                 *)
LEMMA RanOnBlock ==
  ASSUME fn \in LoweredFn, StandsWhereListed(fn), trace \in Seq(STRING \X Nat),
         NEW d \in Calls, RanThrough(trace, Len(trace), Call(d).block, Len(fn.text[Call(d).block]))
  PROVE  Ran(<<"call", d>>)
<1>1. PICK n \in DOMAIN fn.text[Call(d).block] : fn.text[Call(d).block][n] = <<"call", d>>
  BY CallStands
<1>2. n \in 1 .. Len(fn.text[Call(d).block])
  BY <1>1, CallShape, TextOfBlock
<1>3. PICK j \in 1 .. Len(trace) : trace[j] = <<"call", d>>
  BY <1>1, <1>2 DEF RanThrough, Among
<1> QED BY <1>3 DEF Ran

(* A decision that stands before the operation on every path has run.      *)
LEMMA DecisionRan ==
  ASSUME AcInv, AsksFirst(fn), NEW op \in Doing("operate"), Now(<<"call", op>>),
         NEW d \in Doing("decide"), Dominates(Call(d).block, Call(op).block)
  PROVE  Ran(<<"call", d>>)
<1>1. /\ fn \in LoweredFn /\ StandsWhereListed(fn) /\ trace \in Seq(STRING \X Nat)
      /\ d \in Calls /\ op \in Calls
  BY AnalysedDominance DEF AcInv, RunInv, RunTypes, Doing
<1>2. Call(d).block \in Blocks /\ Call(op).block \in Blocks
  BY <1>1, CallShape
<1>3. CASE Call(d).block # Call(op).block
  <2>1. Call(op).block \in CutFromEntry(Call(d).block)
    BY <1>2, AnalysedDominance DEF AcInv
  <2>2. DominatorsRan(trace, Len(trace), Call(op).block)
    BY BehindTheCall
  <2>3. RanThrough(trace, Len(trace), Call(d).block, Len(fn.text[Call(d).block]))
    BY <1>2, <1>3, <2>1, <2>2 DEF DominatorsRan
  <2> QED BY <1>1, <2>3, RanOnBlock
<1>4. CASE Call(d).block = Call(op).block
  <2>1. PICK p \in DOMAIN fn.text[Call(op).block] :
          /\ fn.text[Call(op).block][p] = <<"call", op>>
          /\ RanThrough(trace, Len(trace), Call(op).block, p)
    BY BehindTheCall
  <2>2. PICK m \in 1 .. p - 1 : fn.text[Call(op).block][m] = <<"call", d>>
    BY <1>1, <1>4, <2>1 DEF AsksFirst, Doing, Calls, Call
  <2>3. m \in 1 .. p
    BY <1>1, <1>2, <2>1, <2>2, TextOfBlock
  <2>4. PICK j \in 1 .. Len(trace) : trace[j] = <<"call", d>>
    BY <2>1, <2>2, <2>3 DEF RanThrough, Among
  <2> QED BY <1>1, <2>4 DEF Ran
<1> QED BY <1>3, <1>4

(* Among finitely many positions, one is the last.                         *)
LEMMA LastPosition ==
  ASSUME NEW n \in Nat, NEW T \in SUBSET (1 .. n), T # {}
  PROVE  \E m \in T : \A k \in T : k <= m
<1> DEFINE U == {m \in Nat : \A k \in T : k <= m}
<1>1. n \in U /\ U \in SUBSET Nat
  OBVIOUS
<1>2. PICK m \in U : \A y \in U : m <= y
  <2>1. U # {}
    BY <1>1
  <2> HIDE DEF U
  <2> QED BY <1>1, <2>1, LeastNatural
<1>3. PICK t \in T : TRUE
  OBVIOUS
<1>4. m # 0 /\ m - 1 \in Nat /\ m - 1 \notin U
  BY <1>2, <1>3
<1>5. PICK k \in T : ~ (k <= m - 1)
  BY <1>4
<1>6. k = m
  BY <1>2, <1>4, <1>5
<1> QED BY <1>2, <1>5, <1>6

-----------------------------------------------------------------------------
(* What peers do first.  The operation that ran is observed, or a later    *)
(* one of its name on the same parameter, on the same block: with the same *)
(* gates.                                                                  *)
LEMMA OperationIsObserved ==
  ASSUME fn \in LoweredFn, NEW op \in Doing("operate"), Call(op).block \in reached,
         Cardinality(InputsOf(Origins(fn), op)) = 1
  PROVE  \E q \in Doing("operate") :
           /\ Call(q).name = Call(op).name
           /\ InputsOf(Origins(fn), q) = InputsOf(Origins(fn), op)
           /\ [op |-> q, gates |-> {Call(c).name : c \in {d \in Doing("decide") :
                 /\ Call(d).block \in reached
                 /\ InputsOf(Origins(fn), q) \subseteq InputsOf(Origins(fn), d)
                 /\ GatesIt(d, q)}}] \in Observed
<1> DEFINE In(i) == InputsOf(Origins(fn), i)
           Ops   == {i \in Doing("operate") : Call(i).block \in reached /\ Cardinality(In(i)) = 1}
           Same  == {i \in Ops : Call(i).name = Call(op).name /\ In(i) = In(op)}
           G(o)  == {Call(c).name : c \in {d \in Doing("decide") :
                       Call(d).block \in reached /\ In(o) \subseteq In(d) /\ GatesIt(d, o)}}
<1>1. Len(fn.calls) \in Nat /\ Calls = 1 .. Len(fn.calls)
  BY AcrossShape DEF Calls
<1> HIDE DEF In
<1>2. op \in Same /\ Same \in SUBSET (1 .. Len(fn.calls))
  BY <1>1 DEF Doing, In
<1>3. PICK q \in Same : \A k \in Same : k <= q
  <2> HIDE DEF Same
  <2> QED BY <1>1, <1>2, LastPosition
<1>4. \A k \in Ops : k > q => Call(k).name # Call(q).name \/ In(k) # In(q)
  BY <1>1, <1>2, <1>3 DEF Doing
<1>5. Observed = {[op |-> o, gates |-> G(o)] :
                    o \in {x \in Ops : \A k \in Ops : k > x =>
                             Call(k).name # Call(x).name \/ In(k) # In(x)}}
  BY DEF Observed, In
<1>6. q \in Ops /\ q \in Doing("operate")
  OBVIOUS
<1> HIDE DEF G, Ops
<1>7. [op |-> q, gates |-> G(q)] \in Observed
  BY <1>4, <1>5, <1>6
<1>8. Call(q).name = Call(op).name /\ In(q) = In(op)
  OBVIOUS
<1> HIDE DEF Same
<1> QED BY <1>6, <1>7, <1>8 DEF G, In

LEMMA UnaskedPeer ==
  ASSUME AcInv, PeersStand(fn) PROVE UnaskedPeerControlIsReported
<1> SUFFICES ASSUME judged, fn.rule = "peers", Len(fn.peers) >= 2,
                    NEW op \in Doing("operate"), Now(<<"call", op>>),
                    Cardinality(HandedFrom(op)) = 1,
                    NEW n \in UNION Range(fn.peers), Cardinality(AppliedBy(n)) >= 2,
                    \A c \in Doing("decide") :
                      Call(c).name = n /\ HandedFrom(op) \cap HandedFrom(c) # {}
                        => ~ Ran(<<"call", c>>) /\ ~ ControlDependsOn(Call(op).block, Call(c).block)
             PROVE  \E s \in said : s[2] = n /\ Call(s[1]).name = Call(op).name
  BY DEF UnaskedPeerControlIsReported, HandedFrom
<1> DEFINE In(i) == InputsOf(Origins(fn), i)
<1>1. /\ fn \in LoweredFn /\ op \in Calls /\ Call(op).block \in reached
      /\ StandsWhereListed(fn) /\ AsksFirst(fn)
  BY AnalysedDominance, BehindTheCall DEF AcInv, PeersStand
<1>2. PICK p : HandedFrom(op) = {p}
  <2>1. IsFiniteSet(HandedFrom(op))
    <3>1. HandedFrom(op) \subseteq fn.params
      BY DEF HandedFrom, CameFrom
    <3> QED BY <1>1, <3>1, AcrossShape, FS_Subset
  <2> QED BY <2>1, FS_Singleton
<1>3. In(op) = {p}
  <2>1. In(op) \subseteq {p}
    BY <1>1, <1>2, InputsAreTrue
  <2>2. PICK v \in ArgsOf(op) : p \in CameFrom(fn, v)
    BY <1>2 DEF HandedFrom
  <2>3. \E u \in Range(fn.calls[op].args) : Origins(fn)[u].hops <= Reach
    BY <1>1, <2>2, CallShape DEF PeersStand, TwoRoundsAreEnough, Doing, Calls, Call
  <2>4. In(op) # {}
    BY <1>1, <2>3, CallShape DEF InputsOf
  <2> QED BY <2>1, <2>4
<1>4. Cardinality(In(op)) = 1
  BY <1>3, FS_Singleton
<1> DEFINE G(o) == {Call(c).name : c \in {d \in Doing("decide") :
                      Call(d).block \in reached /\ In(o) \subseteq In(d) /\ GatesIt(d, o)}}
<1>5. PICK q \in Doing("operate") : /\ Call(q).name = Call(op).name /\ In(q) = In(op)
                                    /\ [op |-> q, gates |-> G(q)] \in Observed
  BY <1>1, <1>4, OperationIsObserved
<1>6. Call(q).block = Call(op).block
  BY <1>5 DEF PeersStand, OperatesInOneBlock, Doing, Calls, Call
<1>7. n \notin G(q)
  <2> SUFFICES ASSUME NEW d \in Doing("decide"), Call(d).name = n, In(q) \subseteq In(d), GatesIt(d, q)
               PROVE  FALSE
    OBVIOUS
  <2>1. d \in Calls
    BY DEF Doing
  <2>2. HandedFrom(op) \cap HandedFrom(d) # {}
    BY <1>1, <1>2, <1>3, <1>5, <2>1, InputsAreTrue
  <2>3. ~ Ran(<<"call", d>>) /\ ~ ControlDependsOn(Call(op).block, Call(d).block)
    BY <2>2
  <2>4. Dominates(Call(d).block, Call(op).block)
    BY <1>6, <2>3 DEF GatesIt
  <2> QED BY <1>1, <2>3, <2>4, DecisionRan
<1>8. <<q, n>> \in PeerOmissions
  <2>1. PICK r \in Observed : r.op = q /\ n \notin r.gates
    <3> DEFINE r == [op |-> q, gates |-> G(q)]
    <3>1. r \in Observed /\ r.op = q /\ r.gates = G(q)
      BY <1>5
    <3> HIDE DEF r, G
    <3> QED BY <1>7, <3>1
  <2>2. Len(fn.peers) \in Nat
    BY <1>1, AcrossAssumption
  <2>3. ~ (fn.rule # "peers" \/ Len(fn.peers) + 1 < 3)
    BY <2>2
  <2> QED BY <2>1, <2>3 DEF PeerOmissions
<1>9. <<q, n>> \in said
  BY <1>8 DEF AcInv
<1> QED BY <1>5, <1>9

-----------------------------------------------------------------------------
(* What the mounted function counts.  While the request is one the counter *)
(* is under, it has run or is ahead: control is on the way to its block or *)
(* to the branch it depends on, from where nothing leaves past it.         *)
Toward(b) == {b} \cup CutFromExits(b)

Ahead(i) ==
  \/ Ran(<<"call", i>>)
  \/ here \in Toward(Call(i).block)
  \/ \E j \in DOMAIN fn.compares : CountedOn(i, j) /\ here \in Toward(fn.compares[j].block)

CounterInv ==
  /\ CountersStandAlone
  /\ \A i \in Doing("count") : (\A c \in Predicates(i) : Holds(c)) => Ahead(i)

LEMMA CompareShape ==
  ASSUME fn \in LoweredFn, NEW j \in DOMAIN fn.compares
  PROVE  fn.compares[j].block \in Blocks /\ fn.compares[j].eq \in BOOLEAN
<1> DEFINE Own  == {fn.order[i] : i \in DOMAIN fn.order}
           Made == [of : Fact \cup {"path", "other"}, value : Content, eq : BOOLEAN, block : Own]
<1>1. fn.compares \in Seq(Made) /\ Own = Blocks
  BY AcrossAssumption DEF Blocks
<1> HIDE DEF Made
<1>2. fn.compares[j] \in Made
  BY <1>1
<1> QED BY <1>1, <1>2 DEF Made

(* On a way on from a block that leads to b, control still leads to b.     *)
LEMMA TowardOn ==
  ASSUME fn \in LoweredFn, NEW b \in Blocks, NEW p \in Blocks, p \in Toward(b), p # b,
         NEW q \in Succ(p)
  PROVE  q \in Toward(b)
BY PostDominatedOn DEF Toward

(* The comparison alone answers, and the arm the counter is on is the one  *)
(* its predicate speaks of.                                                *)
LEMMA AnswerIsTheArm ==
  ASSUME Analysed, NEW i \in Doing("count"), NEW j \in DOMAIN fn.compares, CountedOn(i, j),
         \A c \in Predicates(i) : Holds(c), NEW k \in Answer(fn.compares[j].block)
  PROVE  fn.succs[fn.compares[j].block][k] \in CutFromExits(Call(i).block)
<1> DEFINE c    == fn.compares[j]
           a    == c.block
           b    == Call(i).block
           Asks == {n \in DOMAIN fn.compares : fn.compares[n].block = a}
           Same == request[c.of] = c.value
<1>1. /\ fn \in LoweredFn /\ a \in Blocks /\ c.eq \in BOOLEAN /\ b \in Blocks
  BY AnalysedPostDominance, CompareShape, CallShape DEF Doing
<1>2. /\ c.of # "other" /\ ControlDependsOn(b, a)
      /\ fn.succs[a] \in Seq(Blocks) /\ DOMAIN fn.succs[a] = {1, 2}
  <2>1. c.of # "other" /\ ControlDependsOn(b, a) /\ Len(fn.succs[a]) = 2
    BY DEF CountedOn
  <2>2. fn.succs[a] \in Seq(Blocks)
    BY <1>1, FnShape
  <2>3. DOMAIN fn.succs[a] = 1 .. 2
    BY <2>1, <2>2
  <2> QED BY <2>1, <2>2, <2>3
<1>3. Asks = {j} /\ Cardinality(Asks) = 1
  <2>1. Asks = {j}
    BY DEF CountedOn
  <2> QED BY <2>1, FS_Singleton
<1>4. k = IF Same = c.eq THEN 1 ELSE 2
  <2>1. (CHOOSE n \in Asks : TRUE) = j
    BY <1>3
  <2>2. Asks # {}
    BY <1>3
  <2> HIDE DEF Asks
  <2>3. Answer(a) = {IF Same = c.eq THEN 1 ELSE 2}
    BY <1>2, <1>3, <2>1 DEF Answer, Asks
  <2> QED BY <2>3
<1>5. Same = ReadOnItsArm(i, j)
  <2> DEFINE q == [of |-> c.of, value |-> c.value, equal |-> ReadOnItsArm(i, j)]
  <2>1. q \in Predicates(i)
    BY <1>2 DEF Predicates
  <2>2. q.of = c.of /\ q.value = c.value /\ q.equal = ReadOnItsArm(i, j)
    OBVIOUS
  <2> HIDE DEF q
  <2> QED BY <2>1, <2>2 DEF Holds
<1>6. \A s \in Blocks : PostDominates(b, s) <=> s \in CutFromExits(b)
  BY <1>1, AnalysedPostDominance
<1>7. fn.succs[a][1] \in Blocks /\ fn.succs[a][2] \in Blocks
  BY <1>2
<1> HIDE DEF Same, Asks, c
<1>8. CASE DependsOnSuccessor(b, a, 1)
  <2>1. k = 1
    BY <1>4, <1>5, <1>8 DEF ReadOnItsArm, c
  <2>2. PostDominates(b, fn.succs[a][1])
    BY <1>2, <1>8 DEF DependsOnSuccessor
  <2> QED BY <1>6, <1>7, <2>1, <2>2 DEF c
<1>9. CASE ~ DependsOnSuccessor(b, a, 1)
  <2>1. Same = ~ c.eq
    BY <1>5, <1>9 DEF ReadOnItsArm, c
  <2>2. k = 2
    <3>1. Same # c.eq
      <4>1. CASE c.eq = TRUE
        BY <2>1, <4>1
      <4>2. CASE c.eq = FALSE
        BY <2>1, <4>2
      <4> QED BY <1>1, <4>1, <4>2
    <3> QED BY <1>4, <3>1
  <2>3. PostDominates(b, fn.succs[a][2])
    <3>1. /\ PostDominates(b, fn.succs[a][1]) \/ PostDominates(b, fn.succs[a][2])
          /\ ~ PostDominates(b, fn.succs[a][1]) \/ ~ PostDominates(b, fn.succs[a][2])
      BY <1>2 DEF ControlDependsOn, Succ
    <3>2. ~ (PostDominates(b, fn.succs[a][1]) /\ ~ PostDominates(b, fn.succs[a][2]))
      BY <1>2, <1>9 DEF DependsOnSuccessor
    <3> QED BY <3>1, <3>2
  <2> QED BY <1>6, <1>7, <2>2, <2>3 DEF c
<1> QED BY <1>8, <1>9

LEMMA CounterInit ==
  ASSUME AcInit, CountersStandAlone PROVE CounterInv
<1>1. fn \in LoweredFn /\ fn.entry \in Blocks /\ here = fn.entry
  BY AnalysedPostDominance, FnShape DEF AcInit, RunInit
<1>2. ASSUME NEW i \in Doing("count") PROVE Ahead(i)
  <2>1. CASE PostDominates(Call(i).block, fn.entry)
    BY <1>1, <2>1, AnalysedPostDominance, CallShape DEF AcInit, Doing, Ahead, Toward
  <2>2. CASE \E j \in DOMAIN fn.compares : CountedOn(i, j)
    <3>1. PICK j \in DOMAIN fn.compares : CountedOn(i, j)
      BY <2>2
    <3>2. fn.entry \in CutFromExits(fn.compares[j].block)
      BY <1>1, <3>1, CompareShape, AnalysedPostDominance DEF AcInit, CountedOn
    <3> QED BY <1>1, <3>1, <3>2 DEF Ahead, Toward
  <2> QED BY <2>1, <2>2 DEF CountersStandAlone
<1> QED BY <1>2 DEF CounterInv

LEMMA CounterFrame ==
  ASSUME vars' = vars, request' = request
  PROVE  /\ CountersStandAlone' <=> CountersStandAlone
         /\ \A S : Doing(S)' = Doing(S)
         /\ \A i : Predicates(i)' = Predicates(i) /\ Call(i)' = Call(i)
         /\ \A i, j : CountedOn(i, j)' <=> CountedOn(i, j)
         /\ \A b : Toward(b)' = Toward(b)
         /\ \A c : Holds(c)' <=> Holds(c)
<1>1. fn' = fn /\ reached' = reached /\ postDoms' = postDoms /\ doms' = doms
  BY DEF vars
<1>2. Calls' = Calls /\ \A i : Call(i)' = Call(i)
  BY <1>1 DEF Calls, Call
<1>3. \A S : Doing(S)' = Doing(S)
  BY <1>2 DEF Doing
<1>4. /\ \A a, b : PostDominates(a, b)' <=> PostDominates(a, b)
      /\ \A b : Succ(b)' = Succ(b)
  BY <1>1 DEF PostDominates, Succ
<1>5. /\ \A a, b : ControlDependsOn(a, b)' <=> ControlDependsOn(a, b)
      /\ \A a, b, k : DependsOnSuccessor(a, b, k)' <=> DependsOnSuccessor(a, b, k)
  BY <1>1, <1>4 DEF ControlDependsOn, DependsOnSuccessor, BranchesTwoWays
<1>6. \A i : Predicates(i)' = Predicates(i)
  BY <1>1, <1>2, <1>5 DEF Predicates, ReadOnItsArm
<1>7. \A i, j : CountedOn(i, j)' <=> CountedOn(i, j)
  BY <1>1, <1>2, <1>4, <1>5 DEF CountedOn
<1>8. CountersStandAlone' <=> CountersStandAlone
  BY <1>1, <1>2, <1>3, <1>4, <1>7 DEF CountersStandAlone
<1>9. \A b : Toward(b)' = Toward(b)
  BY <1>1 DEF Toward, CutFromExits, Blocks, Exits, Succ
<1>10. \A c : Holds(c)' <=> Holds(c)
  BY DEF Holds
<1> QED BY <1>2, <1>3, <1>6, <1>7, <1>8, <1>9, <1>10

LEMMA CounterStep ==
  ASSUME AcInv, CounterInv, [AcNext]_all PROVE CounterInv'
<1>1. vars' = vars /\ fn' = fn /\ request' = request
  BY DEF AcNext, Judge, Execute, Leave, all, vars
<1>2. /\ Analysed /\ fn \in LoweredFn /\ StandsWhereListed(fn) /\ RunInv
      /\ trace \in Seq(STRING \X Nat) /\ here \in Blocks
  BY AnalysedDominance, FromEntryClosed DEF AcInv, RunInv, RunTypes
<1>3. SUFFICES ASSUME NEW i \in Doing("count"), \A c \in Predicates(i) : Holds(c), Ahead(i)
               PROVE  Ahead(i)'
  BY <1>1, CounterFrame DEF CounterInv
<1> DEFINE b == Call(i).block
<1>4. i \in Calls /\ b \in Blocks
  BY <1>2, CallShape DEF Doing
<1>5. CASE here' = here /\ (Ran(<<"call", i>>) => Ran(<<"call", i>>)')
  BY <1>1, <1>3, <1>5, CounterFrame DEF Ahead
<1>6. CASE Judge \/ UNCHANGED all
  <2>1. here' = here /\ trace' = trace
    BY <1>6 DEF Judge, run, all
  <2> QED BY <1>5, <2>1 DEF Ran
<1>7. CASE Execute
  <2>1. here' = here /\ trace' = Append(trace, Text[pc])
    BY <1>7 DEF Execute, RunStatement
  <2>2. \A k \in DOMAIN trace : k \in DOMAIN trace' /\ trace'[k] = trace[k]
    BY <1>2, <2>1
  <2> QED BY <1>5, <2>1, <2>2 DEF Ran
<1>8. CASE Leave
  <2>1. PICK k \in Answer(here) : here' = fn.succs[here][k]
    BY <1>8 DEF Leave
  <2>2. trace' = trace /\ AtEnd /\ here' \in Succ(here)
    BY <1>8 DEF Leave, RunBranch
  <2>3. CASE Ran(<<"call", i>>)
    BY <2>2, <2>3 DEF Ahead, Ran
  <2>4. CASE here = b
    <3>1. RanThrough(trace, Len(trace), here, pc - 1)
      BY <1>2 DEF RunInv, RunBehind
    <3>2. pc - 1 = Len(fn.text[here])
      <4>1. Len(fn.text[here]) \in Nat
        BY <1>2, TextOfBlock
      <4> QED BY <1>2, <2>2, <4>1 DEF RunInv, RunTypes, AtEnd, Text
    <3>3. Ran(<<"call", i>>)
      BY <1>2, <1>4, <2>4, <3>1, <3>2, RanOnBlock
    <3> QED BY <2>3, <3>3
  <2>5. CASE here \in Toward(b) /\ here # b
    <3>1. here' \in Toward(b)
      BY <1>2, <1>4, <2>2, <2>5, TowardOn
    <3> QED BY <1>1, <3>1, CounterFrame DEF Ahead
  <2>6. CASE \E j \in DOMAIN fn.compares : CountedOn(i, j) /\ here \in Toward(fn.compares[j].block)
    <3>1. PICK j \in DOMAIN fn.compares : CountedOn(i, j) /\ here \in Toward(fn.compares[j].block)
      BY <2>6
    <3>2. fn.compares[j].block \in Blocks
      BY <1>2, CompareShape
    <3>3. CASE here = fn.compares[j].block
      <4>1. here' \in CutFromExits(b)
        BY <1>2, <1>3, <2>1, <3>1, <3>3, AnswerIsTheArm
      <4> QED BY <1>1, <4>1, CounterFrame DEF Ahead, Toward
    <3>4. CASE here # fn.compares[j].block
      <4>1. here' \in Toward(fn.compares[j].block)
        BY <1>2, <2>2, <3>1, <3>2, <3>4, TowardOn
      <4> QED BY <1>1, <3>1, <4>1, CounterFrame DEF Ahead
    <3> QED BY <3>3, <3>4
  <2> QED BY <1>3, <2>3, <2>4, <2>5, <2>6 DEF Ahead
<1> QED BY <1>6, <1>7, <1>8 DEF AcNext

(* At the end of an exit nothing is ahead any more.                        *)
LEMMA NothingAhead ==
  ASSUME AcInv, NEW i \in Doing("count"), Ahead(i), here \in Exits, AtEnd
  PROVE  Ran(<<"call", i>>)
<1>1. /\ fn \in LoweredFn /\ StandsWhereListed(fn) /\ RunInv
      /\ trace \in Seq(STRING \X Nat) /\ here \in Blocks /\ i \in Calls
  BY AnalysedDominance DEF AcInv, RunInv, RunTypes, Exits, Doing
<1>2. Call(i).block \in Blocks
  BY <1>1, CallShape
<1>3. CASE here \in Toward(Call(i).block)
  <2>1. here = Call(i).block
    BY <1>1, <1>2, <1>3, ExitNotPostDominated DEF Toward
  <2>2. RanThrough(trace, Len(trace), here, pc - 1)
    BY <1>1 DEF RunInv, RunBehind
  <2>3. pc - 1 = Len(fn.text[here])
    <3>1. Len(fn.text[here]) \in Nat
      BY <1>1, TextOfBlock
    <3> QED BY <1>1, <3>1 DEF RunInv, RunTypes, AtEnd, Text
  <2> QED BY <1>1, <2>1, <2>2, <2>3, RanOnBlock
<1>4. ASSUME NEW j \in DOMAIN fn.compares, CountedOn(i, j), here \in Toward(fn.compares[j].block)
      PROVE  FALSE
  <2>1. here = fn.compares[j].block
    BY <1>1, <1>4, CompareShape, ExitNotPostDominated DEF Toward
  <2>2. Len(fn.succs[here]) = 2 /\ fn.succs[here] = <<>>
    BY <1>4, <2>1 DEF CountedOn, Exits
  <2> QED BY <2>2
<1> QED BY <1>3, <1>4 DEF Ahead

LEMMA UncountedRequest ==
  ASSUME AcInv, CounterInv PROVE UncountedWorkIsReported
<1> SUFFICES ASSUME judged, fn.rule = "limiter", Passed, Doing("count") # {}, said = {},
                    \A c \in fn.work : Holds(c)
             PROVE  \E i \in Doing("count") : Ran(<<"call", i>>)
  BY DEF UncountedWorkIsReported
<1>1. Uncovered = {} /\ Admissions # {}
  BY DEF AcInv, Admissions
<1>2. PICK i \in Doing("count") : Covers(fn.outer \cup Predicates(i))
  BY <1>1 DEF Uncovered, Admissions
<1>3. ASSUME NEW c \in fn.outer \cup Predicates(i) PROVE Holds(c)
  <2>1. CASE c.of = "path"
    BY <1>2, <1>3, <2>1 DEF Covers, Holds, AcInv
  <2>2. CASE c.of # "path"
    BY <1>2, <1>3, <2>2 DEF Covers
  <2> QED BY <2>1, <2>2
<1>4. here \in Exits /\ AtEnd
  BY <1>3 DEF Passed, Mounted
<1>5. Ahead(i)
  BY <1>3 DEF CounterInv
<1> QED BY <1>4, <1>5, NothingAhead

-----------------------------------------------------------------------------
(* What the other functions of the module, or the other ways to the same   *)
(* work, do first and this one does not is reported (omitted.go:591,       *)
(* limiter.go:479): on every graph, for every execution of a function that *)
(* stands as the rules suppose.                                            *)
THEOREM OmittedCorrect == AcSpec /\ AsSupposed => []OmittedElsewhereIsReported
<1> DEFINE Inv == /\ AcInv
                  /\ fn.rule = "peers"   => PeersStand(fn)
                  /\ fn.rule = "limiter" => CounterInv
<1>1. AcInit /\ AsSupposed => Inv
  BY AcInvInit, CounterInit DEF AsSupposed
<1>2. Inv /\ [AcNext]_all => Inv'
  <2> SUFFICES ASSUME Inv, [AcNext]_all PROVE Inv'
    OBVIOUS
  <2>1. AcInv' /\ fn' = fn
    <3>1. vars' = vars
      BY DEF AcNext, Judge, Execute, Leave, all, vars
    <3> QED BY <3>1, AcInvStep, AcFrame
  <2>2. fn.rule = "limiter" => CounterInv'
    BY CounterStep
  <2> QED BY <2>1, <2>2
<1>3. Inv => OmittedElsewhereIsReported
  <2>1. AcInv /\ (fn.rule = "peers" => PeersStand(fn)) => UnaskedPeerControlIsReported
    BY UnaskedPeer DEF UnaskedPeerControlIsReported
  <2>2. AcInv /\ (fn.rule = "limiter" => CounterInv) => UncountedWorkIsReported
    BY UncountedRequest DEF UncountedWorkIsReported
  <2> QED BY <2>1, <2>2 DEF OmittedElsewhereIsReported
<1> QED BY <1>1, <1>2, <1>3, PTL DEF AcSpec
=============================================================================
