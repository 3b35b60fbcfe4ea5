------------------------------ MODULE Channels ------------------------------
(***************************************************************************)
(* Which calls are a channel at all: the tests collect() makes of a call   *)
(* whose symbol or method a channel names, and the two walks that say what *)
(* the receiver of a method is.                                            *)
(*                                                                         *)
(* What is read of a program:                                              *)
(*   kind       value -> "param", "result" or "other"                      *)
(*   index      parameter -> its position in its function                  *)
(*   ofEntry    parameter -> that function is an entry point               *)
(*   passed     parameter -> what each call site hands over there, NoValue *)
(*              where one hands over nothing                               *)
(*   madeOn     call result -> the receiver of the call that answered it   *)
(*   madeBy     call result -> the last segment of that call's symbol      *)
(*   assigned   value -> what it was plainly assigned from                 *)
(*   language   the language the frontend lowered                          *)
(***************************************************************************)
EXTENDS Integers, Sequences

CONSTANTS Value, NoValue,
          RootHops, RootDepth, MadeByHops   \* 8, 3 and 8 in the code

None == -1   \* no parameter, no index

-----------------------------------------------------------------------------
(* Defect: the parameter of a helper answers for itself.                   *)
RootParamOfHelper(p, start) ==
  LET root[n \in 0 .. RootHops, v \in Value \cup {NoValue}] ==
        IF n = 0 \/ v = NoValue THEN None
        ELSE CASE p.kind[v] = "param" -> p.index[v]
               [] p.kind[v] = "result" -> root[n - 1, p.madeOn[v]]
               [] OTHER -> None
  IN  root[RootHops, start]

(* rootParamOf and passedAt: back through the receivers of a method chain  *)
(* and, at the parameter of a helper, to what its call sites pass - if all *)
(* of them pass something, and all of it has the same root.                *)
RootParamOf(p, start) ==
  LET root[d \in 0 .. RootDepth, n \in 0 .. RootHops, v \in Value \cup {NoValue}] ==
        LET sites == p.passed[v]
            agree == /\ d < RootDepth /\ sites # <<>>
                     /\ \A i \in DOMAIN sites : sites[i] # NoValue
                     /\ \A i \in 2 .. Len(sites) :
                          root[d + 1, RootHops, sites[i]] = root[d + 1, RootHops, sites[1]]
        IN  IF n = 0 \/ v = NoValue THEN None
            ELSE CASE p.kind[v] = "param" /\ p.ofEntry[v] -> p.index[v]
                   [] p.kind[v] = "param" /\ agree -> root[d, n - 1, sites[1]]
                   [] p.kind[v] = "result" -> root[d, n - 1, p.madeOn[v]]
                   [] OTHER -> None
  IN  root[0, RootHops, start]

(* receiverMadeBy: the first call behind a chain of plain assignments.     *)
ReceiverMadeBy(p, v, symbols) ==
  LET stops(w) == w = NoValue \/ p.kind[w] = "result"
      behind[n \in 0 .. MadeByHops - 1] ==
        IF n = 0 THEN v
        ELSE IF stops(behind[n - 1]) THEN behind[n - 1] ELSE p.assigned[behind[n - 1]]
      made == behind[MadeByHops - 1]
  IN  made # NoValue /\ p.kind[made] = "result" /\ p.madeBy[made] \in symbols

(* OptionsEnumerated: an argument that is an object literal read in full.  *)
Copies(call, ch) == ch.target # None /\ ch.target \in call.literals

Foreign(origin) == origin \in {"builtin", "module"}

(* Defect: only a receiver known to be foreign is a store of records.      *)
KnownEnoughStrict(call, ch) ==
  /\ ch.known => call.type \notin {"", "__object"} /\ ~Foreign(call.typeOrigin)
  /\ ch.external => call.type # "" /\ ~Foreign(call.typeOrigin)

(* RequiresKnownExternalReceiver wants a name; RequiresExternalReceiver is *)
(* refuted by a positive answer only.                                      *)
KnownEnough(call, ch) ==
  /\ ch.known => call.type \notin {"", "__object"} /\ ~Foreign(call.typeOrigin)
  /\ ch.external => ~Foreign(call.typeOrigin)

(* The tests of collect on the call alone, in its order.                   *)
ChannelAdmits(p, call, ch) ==
  /\ ch.entryParam # None => RootParamOf(p, call.receiver) = ch.entryParam
  /\ ch.symbol => call.external
  /\ ch.language \in {"", p.language}
  /\ ch.pattern => call.catastrophic
  /\ ch.receiverFrom # {} => ReceiverMadeBy(p, call.receiver, ch.receiverFrom)
  /\ ch.receiverNotFrom # {} => ~ReceiverMadeBy(p, call.receiver, ch.receiverNotFrom)
  /\ ch.mutates # None => ch.mutates \notin call.builtins
  /\ KnownEnough(call, ch)
  /\ ~Copies(call, ch)
  /\ call.count >= ch.least
  /\ ch.most > 0 => call.count <= ch.most
  /\ ch.qualifiers \subseteq call.written

(* channelArgs: positions and declared keywords, or everything.            *)
Declared(call, ch, i) ==
  LET a == call.args[i]
  IN  \/ ch.allArgs
      \/ a.name = "" /\ a.index \in ch.indexes
      \/ /\ ch.symbol /\ a.name \in DOMAIN ch.keyword
         /\ ch.keyword[a.name] \in ch.indexes

ChannelArgs(call, ch) ==
  LET n == Len(call.args)
      declared[i \in 0 .. n] ==
        IF i = 0 THEN <<>>
        ELSE IF Declared(call, ch, i)
             THEN Append(declared[i - 1], call.args[i].value)
             ELSE declared[i - 1]
      receiver == IF ch.indexes = {} /\ ch.untrusted /\ ~ch.allArgs /\ call.receiver # NoValue
                  THEN <<call.receiver>> ELSE <<>>
  IN  declared[n] \o receiver
=============================================================================
