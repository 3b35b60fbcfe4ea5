----------------------------- MODULE TaintHops -----------------------------
(***************************************************************************)
(* How core/internal/taint reads a lowered program before and while it     *)
(* propagates: build(), indexDestructuredArgs() and the dispatch of        *)
(* throughCall, throughDestructuredArg and throughReceiver on the shape of *)
(* a call, tabulated as the hops of module Taint.                          *)
(*                                                                         *)
(* A lowered program p is a record                                         *)
(*   seeds    what seedSources marks, in order                             *)
(*   flows    sequence of [from, to, kind, column]                         *)
(*   params   function -> sequence of [index, value, path, plain]; path is *)
(*            the property a destructured parameter reads, <<>> if none    *)
(*   returns  function -> the values it returns                            *)
(*   owner    value -> its function                                        *)
(*   calls    sequence of [local, fn, args, receiver, result, transform,   *)
(*            read, completes, callback]; an argument is [index, value]    *)
(*   entries  value -> sequence of [key, value], the keys a literal writes *)
(* A call site is its position in calls; an argument's index is the        *)
(* position of the parameter it binds, named or positional.                *)
(***************************************************************************)
EXTENDS Taint, SequencesExt

Mapped(op(_), seq) == [i \in DOMAIN seq |-> op(seq[i])]
Concatenated(op(_), seq) ==
  LET upTo[n \in 0 .. Len(seq)] ==
        IF n = 0 THEN <<>> ELSE upTo[n - 1] \o op(seq[n])
  IN  upTo[Len(seq)]

HopTo(p, v, kind, to, c) ==
  [kind |-> kind, to |-> to, site |-> c, fn |-> p.owner[v],
   transform |-> FALSE, unstated |-> FALSE, reads |-> {}]

CallsWhere(p, Test(_)) ==
  SelectSeq([c \in DOMAIN p.calls |-> c], LAMBDA c : Test(p.calls[c]))

(* FlowsFrom[v]: an assignment and a return rename a row, a property read  *)
(* takes a column of it.                                                   *)
FlowHops(p, v) ==
  LET hop(f) ==
        CASE f.kind \in {"assign", "return"} -> HopTo(p, v, "rename", f.to, NoCall)
          [] f.kind = "property" ->
               [HopTo(p, v, "property", f.to, NoCall) EXCEPT !.reads = {f.column}]
          [] OTHER -> HopTo(p, v, "other", f.to, NoCall)
  IN  Mapped(hop, SelectSeq(p.flows, LAMBDA f : f.from = v))

BoundParams(p, call, arg) ==
  SelectSeq(p.params[call.fn], LAMBDA q : q.index = arg.index)

Destructures(p, f) == \E i \in DOMAIN p.params[f] : ~p.params[f][i].plain

(* objectBehind: the literal a value stands for, through at most four      *)
(* plain assignments that are the only thing flowing into a name.          *)
ObjectBehind(p, v) ==
  LET into(w) == SelectSeq(p.flows, LAMBDA f : f.to = w)
      behind[n \in 0 .. 4, w \in Value] ==
        IF n = 0 THEN NoValue
        ELSE IF p.entries[w] # <<>> THEN w
        ELSE IF Len(into(w)) # 1 \/ into(w)[1].kind # "assign" THEN NoValue
        ELSE behind[n - 1, into(w)[1].from]
  IN  IF v = NoValue THEN NoValue ELSE behind[4, v]

(* indexArgEntries: what is filed under a literal, at most three deep, and *)
(* the dotted key it is filed under.                                       *)
FiledUnder(p, literal) ==
  LET under[d \in 0 .. 3, obj \in Value \cup {NoValue}] ==
        IF d = 0 \/ obj = NoValue THEN <<>>
        ELSE LET below(e) ==
                   Mapped(LAMBDA u : [value |-> u.value, key |-> <<e.key>> \o u.key],
                          under[d - 1, ObjectBehind(p, e.value)])
                 at(e) == <<[value |-> e.value, key |-> <<e.key>>]>> \o below(e)
             IN  Concatenated(at, p.entries[obj])
  IN  under[3, literal]

(* throughCall for one argument of one call.                               *)
ArgumentHops(p, v, c, arg) ==
  LET call == p.calls[c]
      bind(q) == [HopTo(p, v, "bind", q.value, c) EXCEPT
                    !.transform = call.transform,
                    !.unstated  = ~q.plain /\ q.path # <<>>]
      complete(t) == HopTo(p, v, "resolve", t.result, NoCall)
  IN  IF call.local THEN Mapped(bind, BoundParams(p, call, arg))
      ELSE IF call.completes # <<>>
      THEN Mapped(complete, SelectSeq(call.completes, LAMBDA t : t.index = arg.index))
      ELSE IF call.result = NoValue \/ call.read THEN <<>>
      ELSE <<[HopTo(p, v, "result", call.result, NoCall) EXCEPT
                !.transform = call.transform]>>

ArgHops(p, v) ==
  LET ofCall(c) == Concatenated(LAMBDA a : ArgumentHops(p, v, c, a),
                      SelectSeq(p.calls[c].args, LAMBDA a : a.value = v))
  IN  Concatenated(ofCall, CallsWhere(p, LAMBDA c : TRUE))

(* bindingReads, the part of it that does not change while taint spreads:  *)
(* the binding reads the key, or something around it, or - only while the  *)
(* value's own keys are not stated - something inside it.                  *)
BindingMayRead(q, key) ==
  /\ ~q.plain /\ q.path # <<>>
  /\ q.path = key \/ IsStrictPrefix(key, q.path) \/ IsStrictPrefix(q.path, key)

(* throughDestructuredArg: v is filed under a key of an argument a callee  *)
(* takes apart.                                                            *)
EntryHops(p, v) ==
  LET ofArg(c, a) ==
        LET call == p.calls[c]
            ofUse(u) == Mapped(LAMBDA q : [HopTo(p, v, "bind", q.value, c) EXCEPT
                                  !.transform = call.transform,
                                  !.unstated  = IsStrictPrefix(u.key, q.path)],
                          SelectSeq(BoundParams(p, call, a),
                                    LAMBDA q : BindingMayRead(q, u.key)))
        IN  Concatenated(ofUse, SelectSeq(FiledUnder(p, ObjectBehind(p, a.value)),
                                          LAMBDA u : u.value = v))
      ofCall(c) == Concatenated(LAMBDA a : ofArg(c, a), p.calls[c].args)
  IN  Concatenated(ofCall,
        CallsWhere(p, LAMBDA call : call.local /\ Destructures(p, call.fn)))

(* throughReceiver: into the callback the method is given, and into its    *)
(* result when the callee is not in the program.                           *)
ReceiverHops(p, v) ==
  LET ofCall(c) ==
        LET call == p.calls[c]
        IN  (IF call.callback = NoValue THEN <<>>
             ELSE <<HopTo(p, v, "callback", call.callback, NoCall)>>)
            \o
            (IF call.local \/ call.result = NoValue THEN <<>>
             ELSE <<[HopTo(p, v, "through", call.result, NoCall) EXCEPT
                       !.transform = call.transform]>>)
  IN  Concatenated(ofCall, CallsWhere(p, LAMBDA call : call.receiver = v))

(* The return loop of propagate: every call site of the function that      *)
(* keeps an answer.                                                        *)
ReturnHops(p, v) ==
  IF v \notin p.returns[p.owner[v]] THEN <<>>
  ELSE <<HopTo(p, v, "leave", v, NoCall)>> \o
       Mapped(LAMBDA c : HopTo(p, v, "return", p.calls[c].result, c),
              CallsWhere(p, LAMBDA call : /\ call.local /\ call.fn = p.owner[v]
                                          /\ call.result # NoValue))

(* What passedAtParam can answer with: the arguments that BECOME a         *)
(* parameter (Arg.Binds), which a destructured one never does.             *)
Hands(p, c) ==
  LET call == p.calls[c]
  IN  IF ~call.local THEN <<>>
      ELSE SelectSeq(call.args, LAMBDA a :
             \E i \in DOMAIN p.params[call.fn] :
               LET q == p.params[call.fn][i] IN q.plain /\ q.index = a.index)

Tabulate(p) ==
  [seeds    |-> p.seeds,
   hops     |-> [v \in Value |-> FlowHops(p, v) \o ArgHops(p, v) \o EntryHops(p, v)
                                 \o ReceiverHops(p, v) \o ReturnHops(p, v)],
   params   |-> [f \in Fn |-> {q.value : q \in ToSet(p.params[f])}],
   position |-> [v \in Value |->
                   LET own == {q \in ToSet(p.params[p.owner[v]]) : q.value = v}
                   IN  IF own = {} THEN 0 ELSE (CHOOSE q \in own : TRUE).index],
   hands    |-> [c \in Call |-> IF c \in DOMAIN p.calls THEN Hands(p, c) ELSE <<>>],
   given    |-> [c \in Call |->
                   IF c \notin DOMAIN p.calls THEN {}
                   ELSE ({a.value : a \in ToSet(p.calls[c].args)}
                           \cup {p.calls[c].receiver}) \ {NoValue}],
   behind   |-> [v \in Value |-> ObjectBehind(p, v)],
   filed    |-> [v \in Value |-> {e.value : e \in ToSet(p.entries[v])}],
   into     |-> [v \in Value |-> {f.from : f \in {g \in ToSet(p.flows) : g.to = v}}]]
=============================================================================
