--------------------------- MODULE TaintEvidence ---------------------------
(***************************************************************************)
(* What the propagation of one classification promises, whatever worklist  *)
(* it uses and whichever witness it prefers: a forest of evidence.  A      *)
(* value is known to carry the class because a source rule says so or      *)
(* because a value already known is handed on to it by a hop of the        *)
(* program; what is known stays known; and evidence may be exchanged for   *)
(* better evidence but never becomes circular.                             *)
(***************************************************************************)
EXTENDS Sequences

CONSTANTS Value, NoValue, Program

VARIABLES prog,    \* the program under analysis
          known,   \* the values known to carry the class
          parent   \* value -> the value its evidence comes from

Sources == {prog.seeds[i].value : i \in DOMAIN prog.seeds}

(* A flow, an argument, a receiver or a returned value hands u on to v; or *)
(* u is what a call site gave a function whose answer is v.                *)
HandsOn(u, v) ==
  \/ \E i \in DOMAIN prog.hops[u] :
       prog.hops[u][i].kind # "leave" /\ prog.hops[u][i].to = v
  \/ \E w \in Value : \E i \in DOMAIN prog.hops[w] :
       /\ prog.hops[w][i].kind = "return" /\ prog.hops[w][i].to = v
       /\ \E j \in DOMAIN prog.hands[prog.hops[w][i].site] :
            prog.hands[prog.hops[w][i].site][j].value = u

(* No set of known values explains itself.                                 *)
Grounded(values, from) ==
  \A S \in SUBSET values : S # {} => \E v \in S : from[v] \notin S

Init == prog \in Program /\ known = {} /\ parent = [v \in Value |-> NoValue]

Attach(v, u) ==
  /\ \/ u = NoValue /\ v \in Sources
     \/ u \in known /\ HandsOn(u, v)
  /\ known' = known \cup {v}
  /\ parent' = [parent EXCEPT ![v] = u]
  /\ Grounded(known', parent')
  /\ UNCHANGED prog

Next == \E v \in Value, u \in Value \cup {NoValue} : Attach(v, u)

Spec == Init /\ [][Next]_<<prog, known, parent>>
=============================================================================
