---------------------------- MODULE InputProofs ----------------------------
(***************************************************************************)
(* What the analyses are given, for every program.                         *)
(*                                                                         *)
(* The graph of a function (Lowering), for every grammar, size and depth:  *)
(* a block the function was left from has no successors.  The property     *)
(* alone is not kept by a step: the walk links again, later, from blocks   *)
(* it set aside (the branch of an if, the ends of its arms, the region of  *)
(* a try, the question of a loop), and makes others of them current again, *)
(* where a return would end them.  Held names those of one open statement; *)
(* the invariant says that none of them was left, that none is current,    *)
(* and that no two open statements hold the same one.  Becomes names those *)
(* that will be current again: they, like the current one, are linked to   *)
(* nothing yet, so a return that ends one ends it bare.                    *)
(*                                                                         *)
(* The entry points and what is expected of them (Expectation), for every  *)
(* application and whatever its team does to it: an application stays one, *)
(* and a judgement says what the application is.                           *)
(*                                                                         *)
(* What a class begins with (Seeds), for every program and all its rules:  *)
(* EntryOf finds an entry point that makes a function run wherever there   *)
(* is one, each rule claims what its own definition allows, and no claim   *)
(* is lost or taken back by a later one.                                   *)
(*                                                                         *)
(* The secrets a request carries (Credential), for every handler: what     *)
(* Spread reaches is found there when the program runs, and what is found  *)
(* in a value of the handler's own is reached.                             *)
(***************************************************************************)
EXTENDS Lowering, Expectation, Seeds, Credential, FiniteSetTheorems, WellFoundedInduction, TLAPS

Held(f) ==
  CASE f.kind = "if"              -> {f.head} \cup f.ends
    [] f.kind \in {"while", "for"} ->
         {f.next, f.after} \cup (IF f.arm = "body" THEN {f.other} ELSE {})
    [] f.kind = "cfor"            -> {f.head, f.next, f.after}
    [] f.kind = "do"              -> {f.head, f.next, f.after}
    [] f.kind = "try"             ->
         {f.head} \cup f.ends \cup (IF f.arm = "finally" THEN {f.after} ELSE {})
    [] OTHER                      -> {}

Becomes(f) ==
  CASE f.kind \in {"while", "for"} -> {f.after} \cup (IF f.arm = "body" THEN {f.other} ELSE {})
    [] f.kind \in {"cfor", "do"}   -> {f.after}
    [] f.kind = "try"              -> IF f.arm = "finally" THEN {f.after} ELSE {}
    [] OTHER                       -> {}

HeldAreOpen ==
  \A i \in DOMAIN open : \A b \in Held(open[i]) :
    b \in DOMAIN blocks /\ ~ LeavesIt(b) /\ b # current

HeldApart ==
  \A i, j \in DOMAIN open : i # j => Held(open[i]) \cap Held(open[j]) = {}

ComingAreBare ==
  /\ blocks[current].succ = {}
  /\ \A i \in DOMAIN open : \A b \in Becomes(open[i]) : blocks[b].succ = {}

Apart(f) ==
  /\ f.kind \in {"while", "for"} /\ f.arm = "body" => f.other # f.next
  /\ f.kind \in {"cfor", "do"} => f.after # f.next

LoopsApart == \A i \in DOMAIN open : Apart(open[i])

LowerInv ==
  /\ LowerTypeOK
  /\ ~ LeavesIt(current)
  /\ HeldAreOpen
  /\ HeldApart
  /\ ComingAreBare
  /\ LoopsApart
  /\ LeftStaysLeft

BlockType == [succ : SUBSET Nat, term : {"none", "branch", "return", "throw"}]

-----------------------------------------------------------------------------
(* Sequences used as stacks.                                               *)
LEMMA AppendIs ==
  ASSUME NEW S, NEW s \in Seq(S), NEW e \in S
  PROVE  /\ Append(s, e) \in Seq(S) /\ Len(Append(s, e)) = Len(s) + 1
         /\ Append(s, e)[Len(s) + 1] = e /\ Append(s, e) # <<>>
         /\ \A i \in 1 .. Len(s) : Append(s, e)[i] = s[i]
  OBVIOUS

LEMMA LastIs ==
  ASSUME NEW S, NEW s \in Seq(S), s # <<>>
  PROVE  s[Len(s)] \in S
  OBVIOUS

LEMMA FrontIs ==
  ASSUME NEW S, NEW s \in Seq(S)
  PROVE  SubSeq(s, 1, Len(s) - 1) \in Seq(S)
  <1>1. CASE s = <<>>
    BY <1>1
  <1>2. CASE s # <<>>
    BY <1>2
  <1> QED
    BY <1>1, <1>2

-----------------------------------------------------------------------------
(* What the three edits of the graph do.                                   *)
LEMMA OpenedIs ==
  ASSUME NEW n \in Nat, blocks \in Seq(BlockType)
  PROVE  /\ Opened(n) \in Seq(BlockType)
         /\ DOMAIN Opened(n) = 1 .. Len(blocks) + n
         /\ \A b \in DOMAIN blocks : b \in DOMAIN Opened(n) /\ Opened(n)[b] = blocks[b]
         /\ \A b \in DOMAIN Opened(n) \ DOMAIN blocks :
              Opened(n)[b] = [succ |-> {}, term |-> "none"]
  <1>1. DOMAIN blocks = 1 .. Len(blocks) /\ Len(blocks) \in Nat
    OBVIOUS
  <1>2. \A b \in DOMAIN blocks : blocks[b] \in BlockType
    OBVIOUS
  <1>3. [succ |-> {}, term |-> "none"] \in BlockType
    BY DEF BlockType
  <1>4. \A b \in 1 .. Len(blocks) + n :
          (IF b \in DOMAIN blocks THEN blocks[b] ELSE [succ |-> {}, term |-> "none"]) \in BlockType
    BY <1>2, <1>3
  <1> QED
    BY <1>1, <1>4 DEF Opened

LEMMA LinkedIs ==
  ASSUME NEW bs \in Seq(BlockType), NEW links \in SUBSET (Nat \X Nat)
  PROVE  /\ Linked(bs, links) \in Seq(BlockType)
         /\ DOMAIN Linked(bs, links) = DOMAIN bs
         /\ \A b \in DOMAIN bs : Linked(bs, links)[b].term = bs[b].term
         /\ \A b \in DOMAIN bs : (\A l \in links : l[1] # b) =>
              Linked(bs, links)[b].succ = bs[b].succ
  <1>1. DOMAIN bs = 1 .. Len(bs) /\ Len(bs) \in Nat
    OBVIOUS
  <1>2. ASSUME NEW b \in DOMAIN bs
        PROVE  {l[2] : l \in {k \in links : k[1] = b}} \in SUBSET Nat
    OBVIOUS
  <1>6. \A b \in DOMAIN bs : bs[b] \in BlockType
    OBVIOUS
  <1>7. \A r \in BlockType : r.succ \in SUBSET Nat
                           /\ r.term \in {"none", "branch", "return", "throw"}
    BY DEF BlockType
  <1>3. \A b \in DOMAIN bs :
          /\ bs[b] \in BlockType
          /\ [succ |-> bs[b].succ \cup {l[2] : l \in {k \in links : k[1] = b}},
              term |-> bs[b].term] \in BlockType
    <2>1. ASSUME NEW S \in SUBSET Nat, NEW t \in {"none", "branch", "return", "throw"}
          PROVE  [succ |-> S, term |-> t] \in BlockType
      BY DEF BlockType
    <2> QED
      BY <1>2, <1>6, <1>7, <2>1
  <1>4. Linked(bs, links) \in Seq(BlockType)
    BY <1>1, <1>3 DEF Linked
  <1>5. \A b \in DOMAIN bs : (\A l \in links : l[1] # b) =>
          {l[2] : l \in {k \in links : k[1] = b}} = {}
    OBVIOUS
  <1> QED
    BY <1>1, <1>3, <1>4, <1>5 DEF Linked, BlockType

LEMMA TerminatedIs ==
  ASSUME NEW bs \in Seq(BlockType), NEW a \in DOMAIN bs,
         NEW how \in {"none", "branch", "return", "throw"}
  PROVE  /\ Terminated(bs, a, how) \in Seq(BlockType)
         /\ DOMAIN Terminated(bs, a, how) = DOMAIN bs
         /\ \A b \in DOMAIN bs : Terminated(bs, a, how)[b].succ = bs[b].succ
         /\ \A b \in DOMAIN bs \ {a} : Terminated(bs, a, how)[b] = bs[b]
         /\ Terminated(bs, a, how)[a].term = how
  <1>1. DOMAIN bs = 1 .. Len(bs) /\ Len(bs) \in Nat
    OBVIOUS
  <1>2. bs[a] \in BlockType
    OBVIOUS
  <1>3. [succ |-> bs[a].succ, term |-> how] \in BlockType
    BY <1>2 DEF BlockType
  <1> QED
    BY <1>1, <1>3 DEF Terminated

-----------------------------------------------------------------------------
(* A step keeps the invariant when it keeps the first k open statements    *)
(* and what it adds above them holds blocks of its own.                    *)
LEMMA BecomesHeld ==
  ASSUME NEW f
  PROVE  Becomes(f) \subseteq Held(f)
  BY DEF Becomes, Held

LEMMA FrameStep ==
  ASSUME LowerInv, LowerTypeOK',
         NEW k \in Nat, k <= Len(open), Len(open') \in {k, k + 1},
         \A i \in 1 .. k : open'[i] = open[i],
         \A b \in DOMAIN blocks : b # current /\ ~ LeavesIt(b) =>
            b \in DOMAIN blocks' /\ ~ LeavesIt(b)',
         ~ LeavesIt(current)',
         \A i \in 1 .. k : current' \notin Held(open[i]),
         Len(open') = k + 1 =>
           /\ \A b \in Held(open'[k + 1]) :
                /\ b \in DOMAIN blocks' /\ ~ LeavesIt(b)' /\ b # current'
                /\ \A i \in 1 .. k : b \notin Held(open[i])
           /\ Apart(open'[k + 1])
           /\ \A b \in Becomes(open'[k + 1]) : blocks'[b].succ = {},
         blocks'[current'].succ = {},
         \A i \in 1 .. k : \A b \in Becomes(open[i]) : blocks'[b].succ = {},
         LeftStaysLeft'
  PROVE  LowerInv'
  <1>1. /\ DOMAIN open = 1 .. Len(open) /\ Len(open) \in Nat
        /\ DOMAIN open' = 1 .. Len(open') /\ Len(open') \in Nat
    BY DEF LowerInv, LowerTypeOK
  <1>2. \A i \in DOMAIN open' : \/ i \in 1 .. k /\ i \in DOMAIN open
                                \/ i = k + 1 /\ Len(open') = k + 1
    <2>1. CASE Len(open') = k
      BY <1>1, <2>1
    <2>2. CASE Len(open') = k + 1
      BY <1>1, <2>2
    <2> QED
      BY <2>1, <2>2
  <1>3. HeldAreOpen'
    <2>1. ASSUME NEW i \in DOMAIN open', NEW b \in Held(open'[i])
          PROVE  b \in DOMAIN blocks' /\ ~ LeavesIt(b)' /\ b # current'
      <3>1. CASE i \in 1 .. k /\ i \in DOMAIN open
        BY <3>1, <2>1 DEF LowerInv, HeldAreOpen
      <3>2. CASE i = k + 1 /\ Len(open') = k + 1
        BY <3>2, <2>1
      <3> QED
        BY <1>2, <3>1, <3>2
    <2> QED
      BY <2>1 DEF HeldAreOpen
  <1>4. HeldApart'
    <2>1. ASSUME NEW i \in DOMAIN open', NEW j \in DOMAIN open', i # j,
                 NEW b \in Held(open'[i]), b \in Held(open'[j])
          PROVE  FALSE
      <3>1. CASE i \in 1 .. k /\ i \in DOMAIN open /\ j \in 1 .. k /\ j \in DOMAIN open
        BY <3>1, <2>1 DEF LowerInv, HeldApart
      <3>2. CASE i \in 1 .. k /\ j = k + 1 /\ Len(open') = k + 1
        BY <3>2, <2>1
      <3>3. CASE j \in 1 .. k /\ i = k + 1 /\ Len(open') = k + 1
        BY <3>3, <2>1
      <3> QED
        BY <1>2, <3>1, <3>2, <3>3, <2>1
    <2> QED
      BY <2>1 DEF HeldApart
  <1>5. LoopsApart'
    <2>1. ASSUME NEW i \in DOMAIN open'
          PROVE  Apart(open'[i])
      <3>1. CASE i \in 1 .. k /\ i \in DOMAIN open
        BY <3>1, <2>1 DEF LowerInv, LoopsApart
      <3>2. CASE i = k + 1 /\ Len(open') = k + 1
        BY <3>2, <2>1
      <3> QED
        BY <1>2, <3>1, <3>2
    <2> QED
      BY <2>1 DEF LoopsApart
  <1>6. ComingAreBare'
    BY <1>1, <1>2 DEF ComingAreBare
  <1> QED
    BY <1>3, <1>4, <1>5, <1>6 DEF LowerInv
-----------------------------------------------------------------------------
(* A graph that n blocks were added to, and links out of the blocks F: what *)
(* was not left is not left, and what is left leads nowhere.               *)
Sound(bs, n, F) ==
  /\ bs \in Seq(BlockType)
  /\ DOMAIN bs = 1 .. Len(blocks) + n
  /\ \A b \in DOMAIN bs : bs[b].term \in {"return", "throw"} => bs[b].succ = {}
  /\ \A b \in DOMAIN blocks : ~ LeavesIt(b) => bs[b].term \notin {"return", "throw"}
  /\ \A b \in DOMAIN bs \ DOMAIN blocks : bs[b].term \notin {"return", "throw"}
  /\ \A b \in DOMAIN blocks : b \notin F => bs[b].succ = blocks[b].succ
  /\ \A b \in DOMAIN bs \ DOMAIN blocks : b \notin F => bs[b].succ = {}

LEMMA BlocksTyped ==
  ASSUME LowerInv
  PROVE  /\ blocks \in Seq(BlockType) /\ Len(blocks) \in Nat
         /\ DOMAIN blocks = 1 .. Len(blocks)
         /\ current \in DOMAIN blocks
  <1>1. blocks \in Seq(BlockType)
    BY DEF LowerInv, LowerTypeOK, BlockType
  <1> QED
    BY <1>1 DEF LowerInv, LowerTypeOK

LEMMA SameSound ==
  ASSUME LowerInv
  PROVE  Sound(blocks, 0, {})
  BY BlocksTyped DEF LowerInv, LeftStaysLeft, LeavesIt, Sound

LEMMA OpenedSound ==
  ASSUME LowerInv, NEW n \in Nat
  PROVE  Sound(Opened(n), n, {})
  <1>1. /\ blocks \in Seq(BlockType) /\ Len(blocks) \in Nat
        /\ DOMAIN blocks = 1 .. Len(blocks)
    BY BlocksTyped
  <1>2. /\ Opened(n) \in Seq(BlockType)
        /\ DOMAIN Opened(n) = 1 .. Len(blocks) + n
        /\ \A b \in DOMAIN blocks : Opened(n)[b] = blocks[b]
        /\ \A b \in DOMAIN Opened(n) \ DOMAIN blocks :
             Opened(n)[b] = [succ |-> {}, term |-> "none"]
    BY <1>1, OpenedIs
  <1>3. \A b \in DOMAIN blocks : blocks[b].term \in {"return", "throw"} => blocks[b].succ = {}
    BY DEF LowerInv, LeftStaysLeft, LeavesIt
  <1>4. \A b \in DOMAIN Opened(n) \ DOMAIN blocks :
          /\ Opened(n)[b].term = "none"
          /\ Opened(n)[b].succ = {}
    BY <1>2
  <1>5. \A b \in DOMAIN Opened(n) : Opened(n)[b].term \in {"return", "throw"} => Opened(n)[b].succ = {}
    BY <1>2, <1>3, <1>4
  <1> QED
    BY <1>2, <1>4, <1>5 DEF Sound, LeavesIt

LEMMA BranchSound ==
  ASSUME LowerInv, NEW bs, NEW n \in Nat, NEW F, Sound(bs, n, F), NEW a \in DOMAIN bs
  PROVE  Sound(Terminated(bs, a, "branch"), n, F)
  <1>1. bs \in Seq(BlockType)
    BY DEF Sound
  <1>2. /\ Terminated(bs, a, "branch") \in Seq(BlockType)
        /\ DOMAIN Terminated(bs, a, "branch") = DOMAIN bs
        /\ \A b \in DOMAIN bs : Terminated(bs, a, "branch")[b].succ = bs[b].succ
        /\ \A b \in DOMAIN bs \ {a} : Terminated(bs, a, "branch")[b] = bs[b]
        /\ Terminated(bs, a, "branch")[a].term = "branch"
    BY <1>1, TerminatedIs
  <1>3. \A b \in DOMAIN blocks : b \in DOMAIN bs
    BY BlocksTyped DEF Sound
  <1> QED
    BY <1>2, <1>3 DEF Sound

LEMMA LinkSound ==
  ASSUME LowerInv, NEW bs, NEW n \in Nat, NEW F, Sound(bs, n, F),
         NEW links \in SUBSET (Nat \X Nat),
         \A l \in links : l[1] \in F /\ (l[1] \in DOMAIN bs => bs[l[1]].term \notin {"return", "throw"})
  PROVE  Sound(Linked(bs, links), n, F)
  <1>1. bs \in Seq(BlockType)
    BY DEF Sound
  <1>2. /\ \A b \in DOMAIN bs : bs[b].term \in {"return", "throw"} => \A l \in links : l[1] # b
        /\ \A b \in DOMAIN bs : b \notin F => \A l \in links : l[1] # b
    OBVIOUS
  <1>3. /\ Linked(bs, links) \in Seq(BlockType)
        /\ DOMAIN Linked(bs, links) = DOMAIN bs
        /\ \A b \in DOMAIN bs : Linked(bs, links)[b].term = bs[b].term
        /\ \A b \in DOMAIN bs : (\A l \in links : l[1] # b) =>
             Linked(bs, links)[b].succ = bs[b].succ
    BY <1>1, LinkedIs
  <1>4. \A b \in DOMAIN blocks : b \in DOMAIN bs
    BY BlocksTyped DEF Sound
  <1> QED
    BY <1>2, <1>3, <1>4 DEF Sound

(* What may be linked from later may be left out now.                      *)
LEMMA WiderSound ==
  ASSUME NEW bs, NEW n \in Nat, NEW F, Sound(bs, n, F), NEW G, F \subseteq G
  PROVE  Sound(bs, n, G)
  BY DEF Sound

LEMMA LinkedSame ==
  ASSUME LowerInv, NEW links \in SUBSET (Nat \X Nat), NEW F,
         \A l \in links : l[1] \in F /\ (l[1] \in DOMAIN blocks => ~ LeavesIt(l[1]))
  PROVE  Sound(Linked(blocks, links), 0, F)
  <1>1. Sound(blocks, 0, F)
    BY SameSound, WiderSound
  <1> QED
    BY <1>1, LinkSound DEF LeavesIt

LEMMA LinkedOpened ==
  ASSUME LowerInv, NEW n \in Nat, NEW links \in SUBSET (Nat \X Nat), NEW F,
         \A l \in links : l[1] \in F /\ (l[1] \in DOMAIN blocks => ~ LeavesIt(l[1]))
  PROVE  Sound(Linked(Opened(n), links), n, F)
  <1>1. Sound(Opened(n), n, F)
    BY OpenedSound, WiderSound
  <1>2. \A l \in links : l[1] \in DOMAIN Opened(n) => Opened(n)[l[1]].term \notin {"return", "throw"}
    BY <1>1 DEF Sound
  <1> QED
    BY <1>1, <1>2, LinkSound

LEMMA LinkedBranch ==
  ASSUME LowerInv, NEW n \in Nat, NEW links \in SUBSET (Nat \X Nat), NEW F,
         \A l \in links : l[1] \in F /\ (l[1] \in DOMAIN blocks => ~ LeavesIt(l[1])),
         NEW a \in 1 .. Len(blocks) + n
  PROVE  Sound(Linked(Terminated(Opened(n), a, "branch"), links), n, F)
  <1>1. Sound(Opened(n), n, F)
    BY OpenedSound, WiderSound
  <1>2. Sound(Terminated(Opened(n), a, "branch"), n, F)
    BY <1>1, BranchSound DEF Sound
  <1>3. \A l \in links : l[1] \in DOMAIN Terminated(Opened(n), a, "branch") =>
          Terminated(Opened(n), a, "branch")[l[1]].term \notin {"return", "throw"}
    BY <1>2 DEF Sound
  <1> QED
    BY <1>2, <1>3, LinkSound

LEMMA SoundStep ==
  ASSUME LowerInv, NEW n \in Nat, NEW F, Sound(blocks', n, F)
  PROVE  /\ LeftStaysLeft'
         /\ blocks' \in Seq([succ : SUBSET Nat, term : {"none", "branch", "return", "throw"}])
         /\ DOMAIN blocks' = 1 .. Len(blocks) + n
         /\ \A b \in DOMAIN blocks : b \in DOMAIN blocks' /\ (~ LeavesIt(b) => ~ LeavesIt(b)')
         /\ \A b \in DOMAIN blocks' \ DOMAIN blocks : ~ LeavesIt(b)'
         /\ \A b \in DOMAIN blocks : b \notin F => blocks'[b].succ = blocks[b].succ
         /\ \A b \in DOMAIN blocks' \ DOMAIN blocks : b \notin F => blocks'[b].succ = {}
  BY BlocksTyped DEF LeftStaysLeft, LeavesIt, Sound, BlockType

-----------------------------------------------------------------------------
(* The statements that are open.                                           *)
LEMMA HeldIsBlocks ==
  ASSUME LowerInv, NEW i \in DOMAIN open
  PROVE  \A b \in Held(open[i]) : b \in DOMAIN blocks /\ ~ LeavesIt(b) /\ b # current
  BY DEF LowerInv, HeldAreOpen

LEMMA OpenIs ==
  ASSUME LowerInv
  PROVE  \E k \in Nat : open \in Seq(FrameType) /\ Len(open) = k + 1 /\ DOMAIN open = 1 .. k + 1
  <1>1. open \in Seq(FrameType) /\ open # <<>>
    BY DEF LowerInv, LowerTypeOK
  <1>2. Len(open) \in Nat /\ Len(open) # 0 /\ DOMAIN open = 1 .. Len(open)
    BY <1>1
  <1>3. Len(open) - 1 \in Nat /\ Len(open) = (Len(open) - 1) + 1
    BY <1>2
  <1> QED
    BY <1>1, <1>2, <1>3

LEMMA TopIs ==
  ASSUME LowerInv
  PROVE  \E k \in Nat :
           /\ open \in Seq(FrameType) /\ Len(open) = k + 1 /\ DOMAIN open = 1 .. k + 1
           /\ Top \in FrameType /\ Top = open[k + 1]
           /\ \A b \in Held(Top) :
                /\ b \in DOMAIN blocks /\ ~ LeavesIt(b) /\ b # current
                /\ \A i \in 1 .. k : b \notin Held(open[i])
           /\ \A b \in Becomes(Top) : b \in Held(Top) /\ blocks[b].succ = {}
           /\ \A i \in 1 .. k : \A b \in Held(open[i]) : b \in DOMAIN blocks /\ b # current
           /\ \A i \in 1 .. k : \A b \in Becomes(open[i]) : b \in Held(open[i]) /\ blocks[b].succ = {}
  <1>1. PICK k \in Nat : open \in Seq(FrameType) /\ Len(open) = k + 1 /\ DOMAIN open = 1 .. k + 1
    BY OpenIs
  <1>2. Top \in FrameType /\ Top = open[k + 1] /\ k + 1 \in DOMAIN open
    BY <1>1 DEF Top
  <1>3. \A i \in 1 .. k : i \in DOMAIN open /\ i # k + 1
    BY <1>1
  <1>4. \A i \in 1 .. k : Held(open[i]) \cap Held(open[k + 1]) = {}
    BY <1>2, <1>3 DEF LowerInv, HeldApart
  <1>5. \A b \in Held(Top) : b \in DOMAIN blocks /\ ~ LeavesIt(b) /\ b # current
    BY <1>2, HeldIsBlocks
  <1>6. \A i \in 1 .. k : \A b \in Held(open[i]) : b \in DOMAIN blocks /\ b # current
    BY <1>3, HeldIsBlocks
  <1>7. \A i \in DOMAIN open : \A b \in Becomes(open[i]) : b \in Held(open[i]) /\ blocks[b].succ = {}
    BY BecomesHeld DEF LowerInv, ComingAreBare
  <1> QED
    BY <1>1, <1>2, <1>3, <1>4, <1>5, <1>6, <1>7

(* The blocks a step may make current, or set aside to become current.     *)
Coming(F) == ({current} \cup Becomes(Top) \cup (DOMAIN blocks' \ DOMAIN blocks)) \ F
Holding   == {current} \cup Held(Top) \cup (DOMAIN blocks' \ DOMAIN blocks)

(* F, the blocks a step links out of.                                      *)
FromTop(F) == F \cap DOMAIN blocks \subseteq {current} \cup Held(Top)

LEMMA KeptBelow ==
  ASSUME LowerInv, NEW n \in Nat, NEW F, Sound(blocks', n, F), FromTop(F)
  PROVE  \E k \in Nat :
           /\ open \in Seq(FrameType) /\ Len(open) = k + 1 /\ DOMAIN open = 1 .. k + 1
           /\ Top \in FrameType /\ Top = open[k + 1]
           /\ \A b \in Holding :
                /\ b \in DOMAIN blocks' /\ ~ LeavesIt(b)'
                /\ \A i \in 1 .. k : b \notin Held(open[i])
           /\ Coming(F) \subseteq Holding
           /\ \A b \in Coming(F) : blocks'[b].succ = {}
           /\ \A i \in 1 .. k : \A b \in Becomes(open[i]) : blocks'[b].succ = {}
  <1>1. PICK k \in Nat :
           /\ open \in Seq(FrameType) /\ Len(open) = k + 1 /\ DOMAIN open = 1 .. k + 1
           /\ Top \in FrameType /\ Top = open[k + 1]
           /\ \A b \in Held(Top) :
                /\ b \in DOMAIN blocks /\ ~ LeavesIt(b) /\ b # current
                /\ \A i \in 1 .. k : b \notin Held(open[i])
           /\ \A b \in Becomes(Top) : b \in Held(Top) /\ blocks[b].succ = {}
           /\ \A i \in 1 .. k : \A b \in Held(open[i]) : b \in DOMAIN blocks /\ b # current
           /\ \A i \in 1 .. k : \A b \in Becomes(open[i]) : b \in Held(open[i]) /\ blocks[b].succ = {}
    BY TopIs
  <1>2. /\ current \in DOMAIN blocks /\ ~ LeavesIt(current) /\ blocks[current].succ = {}
    BY DEF LowerInv, LowerTypeOK, ComingAreBare
  <1>3. /\ \A b \in DOMAIN blocks : b \in DOMAIN blocks' /\ (~ LeavesIt(b) => ~ LeavesIt(b)')
        /\ \A b \in DOMAIN blocks' \ DOMAIN blocks : ~ LeavesIt(b)'
        /\ \A b \in DOMAIN blocks : b \notin F => blocks'[b].succ = blocks[b].succ
        /\ \A b \in DOMAIN blocks' \ DOMAIN blocks : b \notin F => blocks'[b].succ = {}
    BY SoundStep
  <1>4. \A b \in Holding :
          /\ b \in DOMAIN blocks' /\ ~ LeavesIt(b)'
          /\ \A i \in 1 .. k : b \notin Held(open[i])
    BY <1>1, <1>2, <1>3 DEF Holding
  <1>5. Coming(F) \subseteq Holding /\ \A b \in Coming(F) : blocks'[b].succ = {}
    BY <1>1, <1>2, <1>3 DEF Holding, Coming
  <1>6. \A i \in 1 .. k : \A b \in Becomes(open[i]) : b \in DOMAIN blocks /\ b \notin F
    BY <1>1 DEF FromTop
  <1>7. \A i \in 1 .. k : \A b \in Becomes(open[i]) : blocks'[b].succ = {}
    BY <1>1, <1>3, <1>6
  <1> QED
    BY <1>1, <1>4, <1>5, <1>7

(* The blocks no open statement holds.                                     *)
Near == {current} \cup (DOMAIN blocks' \ DOMAIN blocks)

LEMMA KeptWhole ==
  ASSUME LowerInv, NEW n \in Nat, NEW F, Sound(blocks', n, F),
         F \cap DOMAIN blocks \subseteq {current}
  PROVE  \E k \in Nat :
           /\ open \in Seq(FrameType) /\ Len(open) = k /\ DOMAIN open = 1 .. k
           /\ \A b \in Near :
                /\ b \in DOMAIN blocks' /\ ~ LeavesIt(b)'
                /\ \A i \in 1 .. k : b \notin Held(open[i])
           /\ \A b \in Near \ F : blocks'[b].succ = {}
           /\ \A i \in 1 .. k : \A b \in Becomes(open[i]) : blocks'[b].succ = {}
  <1>1. PICK m \in Nat : open \in Seq(FrameType) /\ Len(open) = m + 1 /\ DOMAIN open = 1 .. m + 1
    BY OpenIs
  <1>2. PICK k \in Nat : k = m + 1
    OBVIOUS
  <1>3. open \in Seq(FrameType) /\ Len(open) = k /\ DOMAIN open = 1 .. k
    BY <1>1, <1>2
  <1>4. /\ current \in DOMAIN blocks /\ ~ LeavesIt(current) /\ blocks[current].succ = {}
    BY DEF LowerInv, LowerTypeOK, ComingAreBare
  <1>5. /\ \A b \in DOMAIN blocks : b \in DOMAIN blocks' /\ (~ LeavesIt(b) => ~ LeavesIt(b)')
        /\ \A b \in DOMAIN blocks' \ DOMAIN blocks : ~ LeavesIt(b)'
        /\ \A b \in DOMAIN blocks : b \notin F => blocks'[b].succ = blocks[b].succ
        /\ \A b \in DOMAIN blocks' \ DOMAIN blocks : b \notin F => blocks'[b].succ = {}
    BY SoundStep
  <1>6. \A i \in 1 .. k : \A b \in Held(open[i]) : b \in DOMAIN blocks /\ b # current
    BY <1>3, HeldIsBlocks
  <1>7. \A i \in 1 .. k : \A b \in Becomes(open[i]) :
          b \in DOMAIN blocks /\ b \notin F /\ blocks[b].succ = {}
    BY <1>3, <1>6, BecomesHeld DEF LowerInv, ComingAreBare
  <1>8. \A b \in Near :
          /\ b \in DOMAIN blocks' /\ ~ LeavesIt(b)'
          /\ \A i \in 1 .. k : b \notin Held(open[i])
    BY <1>4, <1>5, <1>6 DEF Near
  <1>9. \A b \in Near \ F : blocks'[b].succ = {}
    BY <1>4, <1>5 DEF Near
  <1> QED
    BY <1>3, <1>5, <1>7, <1>8, <1>9

-----------------------------------------------------------------------------
(* The four things a step does with the statements that are open: leave    *)
(* them, open one more, turn the innermost to its next arm, or close it.   *)
LEMMA StayStep ==
  ASSUME LowerInv, NEW n \in Nat, NEW F, Sound(blocks', n, F),
         F \cap DOMAIN blocks \subseteq {current},
         grammar' = grammar, stmts' \in Seq(StmtType), walked' \in BOOLEAN,
         targets' \in Seq(TargetType), switchDepth' \in Int,
         open' = open, current' \in Near \ F
  PROVE  LowerInv'
  <1>1. PICK k \in Nat :
           /\ open \in Seq(FrameType) /\ Len(open) = k /\ DOMAIN open = 1 .. k
           /\ \A b \in Near :
                /\ b \in DOMAIN blocks' /\ ~ LeavesIt(b)'
                /\ \A i \in 1 .. k : b \notin Held(open[i])
           /\ \A b \in Near \ F : blocks'[b].succ = {}
           /\ \A i \in 1 .. k : \A b \in Becomes(open[i]) : blocks'[b].succ = {}
    BY KeptWhole
  <1>2. /\ current' \in DOMAIN blocks' /\ blocks'[current'].succ = {}
        /\ \A i \in 1 .. k : current' \notin Held(open[i])
    BY <1>1
  <1>3. /\ LeftStaysLeft'
        /\ blocks' \in Seq([succ : SUBSET Nat, term : {"none", "branch", "return", "throw"}])
        /\ \A b \in DOMAIN blocks : b \in DOMAIN blocks' /\ (~ LeavesIt(b) => ~ LeavesIt(b)')
    BY SoundStep
  <1>4. LowerTypeOK'
    BY <1>2, <1>3 DEF LowerInv, LowerTypeOK
  <1>5. k <= Len(open) /\ Len(open') \in {k, k + 1} /\ Len(open') # k + 1
    BY <1>1
  <1>6. ~ LeavesIt(current)'
    <2>1. current' \in Near
      BY <1>1
    <2> QED
      BY <1>1, <2>1 DEF LeavesIt
  <1> QED
    BY <1>1, <1>2, <1>3, <1>4, <1>5, <1>6, FrameStep

LEMMA PushStep ==
  ASSUME LowerInv, NEW n \in Nat, NEW F, Sound(blocks', n, F),
         F \cap DOMAIN blocks \subseteq {current},
         grammar' = grammar, stmts' \in Seq(StmtType), walked' \in BOOLEAN,
         targets' \in Seq(TargetType), switchDepth' \in Int,
         current' \in Near \ F,
         NEW f \in FrameType, open' = Pushed(f),
         Held(f) \subseteq Near \ {current'},
         Becomes(f) \cap F = {},
         Apart(f)
  PROVE  LowerInv'
  <1>1. PICK k \in Nat :
           /\ open \in Seq(FrameType) /\ Len(open) = k /\ DOMAIN open = 1 .. k
           /\ \A b \in Near :
                /\ b \in DOMAIN blocks' /\ ~ LeavesIt(b)'
                /\ \A i \in 1 .. k : b \notin Held(open[i])
           /\ \A b \in Near \ F : blocks'[b].succ = {}
           /\ \A i \in 1 .. k : \A b \in Becomes(open[i]) : blocks'[b].succ = {}
    BY KeptWhole
  <1>2. /\ current' \in DOMAIN blocks' /\ blocks'[current'].succ = {}
        /\ \A i \in 1 .. k : current' \notin Held(open[i])
    BY <1>1
  <1>3. /\ LeftStaysLeft'
        /\ blocks' \in Seq([succ : SUBSET Nat, term : {"none", "branch", "return", "throw"}])
        /\ \A b \in DOMAIN blocks : b \in DOMAIN blocks' /\ (~ LeavesIt(b) => ~ LeavesIt(b)')
    BY SoundStep
  <1>4. /\ open' \in Seq(FrameType) /\ Len(open') = k + 1 /\ open' # <<>>
        /\ open'[k + 1] = f
        /\ \A i \in 1 .. k : open'[i] = open[i]
    <2>1. open \in Seq(FrameType) /\ Len(open) = k
      BY <1>1
    <2>2. /\ Append(open, f) \in Seq(FrameType) /\ Len(Append(open, f)) = k + 1
          /\ Append(open, f)[k + 1] = f /\ Append(open, f) # <<>>
          /\ \A i \in 1 .. k : Append(open, f)[i] = open[i]
      BY <2>1, AppendIs
    <2>3. open' = Append(open, f)
      BY DEF Pushed
    <2> QED
      BY <2>2, <2>3
  <1>5. LowerTypeOK'
    BY <1>2, <1>3, <1>4 DEF LowerInv, LowerTypeOK
  <1>6. ~ LeavesIt(current)'
    <2>1. current' \in Near
      BY <1>1
    <2> QED
      BY <1>1, <2>1 DEF LeavesIt
  <1>7. \A b \in Held(f) : b \in Near /\ b # current'
    OBVIOUS
  <1>8. \A b \in Becomes(f) : blocks'[b].succ = {}
    BY <1>1, <1>7, BecomesHeld
  <1>9. k <= Len(open) /\ Len(open') \in {k, k + 1}
    BY <1>1, <1>4
  <1> QED
    BY <1>1, <1>2, <1>3, <1>4, <1>5, <1>6, <1>7, <1>8, <1>9, FrameStep

LEMMA TurnStep ==
  ASSUME LowerInv, NEW n \in Nat, NEW F, Sound(blocks', n, F), FromTop(F),
         grammar' = grammar, stmts' \in Seq(StmtType), walked' \in BOOLEAN,
         targets' \in Seq(TargetType), switchDepth' \in Int,
         current' \in Coming(F),
         NEW f \in FrameType, open' = Turned(f),
         Held(f) \subseteq Holding \ {current'},
         Becomes(f) \subseteq Coming(F),
         Apart(f)
  PROVE  LowerInv'
  <1>1. PICK k \in Nat :
           /\ open \in Seq(FrameType) /\ Len(open) = k + 1 /\ DOMAIN open = 1 .. k + 1
           /\ Top \in FrameType /\ Top = open[k + 1]
           /\ \A b \in Holding :
                /\ b \in DOMAIN blocks' /\ ~ LeavesIt(b)'
                /\ \A i \in 1 .. k : b \notin Held(open[i])
           /\ Coming(F) \subseteq Holding
           /\ \A b \in Coming(F) : blocks'[b].succ = {}
           /\ \A i \in 1 .. k : \A b \in Becomes(open[i]) : blocks'[b].succ = {}
    BY KeptBelow
  <1>2. /\ current' \in DOMAIN blocks' /\ blocks'[current'].succ = {}
        /\ \A i \in 1 .. k : current' \notin Held(open[i])
    BY <1>1
  <1>3. /\ LeftStaysLeft'
        /\ blocks' \in Seq([succ : SUBSET Nat, term : {"none", "branch", "return", "throw"}])
        /\ \A b \in DOMAIN blocks : b \in DOMAIN blocks' /\ (~ LeavesIt(b) => ~ LeavesIt(b)')
    BY SoundStep
  <1>4. /\ open' \in Seq(FrameType) /\ Len(open') = k + 1 /\ open' # <<>>
        /\ open'[k + 1] = f
        /\ \A i \in 1 .. k : open'[i] = open[i]
    BY <1>1 DEF Turned
  <1>5. LowerTypeOK'
    BY <1>2, <1>3, <1>4 DEF LowerInv, LowerTypeOK
  <1>6. ~ LeavesIt(current)'
    <2>1. current' \in Holding
      BY <1>1
    <2> QED
      BY <1>1, <2>1 DEF LeavesIt
  <1>7. \A b \in Held(f) : b \in Holding /\ b # current'
    OBVIOUS
  <1>8. k <= Len(open) /\ Len(open') \in {k, k + 1}
    BY <1>1, <1>4
  <1> QED
    BY <1>1, <1>2, <1>3, <1>4, <1>5, <1>6, <1>7, <1>8, FrameStep

LEMMA PopStep ==
  ASSUME LowerInv, NEW n \in Nat, NEW F, Sound(blocks', n, F), FromTop(F),
         grammar' = grammar, stmts' \in Seq(StmtType), walked' \in BOOLEAN,
         targets' \in Seq(TargetType), switchDepth' \in Int,
         current' \in Coming(F),
         Len(open) > 1, open' = Popped
  PROVE  LowerInv'
  <1>1. PICK k \in Nat :
           /\ open \in Seq(FrameType) /\ Len(open) = k + 1 /\ DOMAIN open = 1 .. k + 1
           /\ Top \in FrameType /\ Top = open[k + 1]
           /\ \A b \in Holding :
                /\ b \in DOMAIN blocks' /\ ~ LeavesIt(b)'
                /\ \A i \in 1 .. k : b \notin Held(open[i])
           /\ Coming(F) \subseteq Holding
           /\ \A b \in Coming(F) : blocks'[b].succ = {}
           /\ \A i \in 1 .. k : \A b \in Becomes(open[i]) : blocks'[b].succ = {}
    BY KeptBelow
  <1>2. /\ current' \in DOMAIN blocks' /\ blocks'[current'].succ = {}
        /\ \A i \in 1 .. k : current' \notin Held(open[i])
    BY <1>1
  <1>3. /\ LeftStaysLeft'
        /\ blocks' \in Seq([succ : SUBSET Nat, term : {"none", "branch", "return", "throw"}])
        /\ \A b \in DOMAIN blocks : b \in DOMAIN blocks' /\ (~ LeavesIt(b) => ~ LeavesIt(b)')
    BY SoundStep
  <1>4. open' = SubSeq(open, 1, k)
    BY <1>1 DEF Popped
  <1>5. /\ open' \in Seq(FrameType) /\ Len(open') = k /\ open' # <<>>
        /\ \A i \in 1 .. k : open'[i] = open[i]
    BY <1>1, <1>4
  <1>6. LowerTypeOK'
    BY <1>2, <1>3, <1>5 DEF LowerInv, LowerTypeOK
  <1>7. ~ LeavesIt(current)'
    <2>1. current' \in Holding
      BY <1>1
    <2> QED
      BY <1>1, <2>1 DEF LeavesIt
  <1>8. k <= Len(open) /\ Len(open') \in {k, k + 1} /\ Len(open') # k + 1
    BY <1>1, <1>5
  <1> QED
    BY <1>1, <1>2, <1>3, <1>5, <1>6, <1>7, <1>8, FrameStep
-----------------------------------------------------------------------------
(* What a step reads, and the blocks it opens.                             *)
LEMMA ReadIs ==
  ASSUME LowerInv, NEW kind \in Kinds,
         NEW opt \in SUBSET {"else", "sure", "cond", "step"}, Read(kind, opt)
  PROVE  grammar' = grammar /\ stmts' \in Seq(StmtType)
  <1>1. Top \in FrameType
    BY TopIs
  <1>2. [kind |-> kind, parent |-> Top.stmt, arm |-> Top.arm, opt |-> opt] \in StmtType
    BY <1>1 DEF StmtType, FrameType
  <1>3. stmts \in Seq(StmtType)
    BY DEF LowerInv, LowerTypeOK
  <1> QED
    BY <1>2, <1>3 DEF Read

LEMMA IdIs ==
  ASSUME LowerInv
  PROVE  Id \in Nat
  BY DEF Id, LowerInv, LowerTypeOK

LEMMA FreshIs ==
  ASSUME LowerInv, NEW n \in Nat, NEW m \in 1 .. n, DOMAIN blocks' = 1 .. Len(blocks) + n
  PROVE  /\ Fresh(m) \in Nat /\ Fresh(m) \in MaybeBlock /\ Fresh(m) # NoBlock
         /\ Fresh(m) \in 1 .. Len(blocks) + n
         /\ Fresh(m) \in DOMAIN blocks' \ DOMAIN blocks
         /\ Fresh(m) \in Near /\ Fresh(m) # current
  <1>1. /\ Len(blocks) \in Nat /\ DOMAIN blocks = 1 .. Len(blocks)
        /\ current \in DOMAIN blocks
    BY BlocksTyped
  <1>2. /\ Fresh(m) \in 1 .. Len(blocks) + n
        /\ Fresh(m) \notin DOMAIN blocks
        /\ Fresh(m) \in Nat
    BY <1>1 DEF Fresh
  <1> QED
    BY <1>1, <1>2, NoBlockAssumption DEF Near, MaybeBlock

LEMMA FirstIs ==
  ASSUME LowerInv, NEW F, Sound(blocks', 1, F), current' = Fresh(1)
  PROVE  /\ current' \in DOMAIN blocks' \ DOMAIN blocks
         /\ current' \in Near /\ current' # current
         /\ current \in Near /\ current \in Holding
  <1>1. DOMAIN blocks' = 1 .. Len(blocks) + 1
    BY SoundStep
  <1>2. 1 \in Nat /\ 1 \in 1 .. 1
    OBVIOUS
  <1>3. Fresh(1) \in DOMAIN blocks' \ DOMAIN blocks
    BY <1>1, <1>2, FreshIs
  <1>4. Fresh(1) \in Near
    BY <1>1, <1>2, FreshIs
  <1>5. Fresh(1) # current
    BY <1>1, <1>2, FreshIs
  <1> QED
    BY <1>3, <1>4, <1>5 DEF Near, Holding

LEMMA CurrentIs ==
  ASSUME LowerInv
  PROVE  current \in Nat /\ current \in MaybeBlock /\ current \in DOMAIN blocks /\ ~ LeavesIt(current)
  BY BlocksTyped DEF MaybeBlock, LowerInv

-----------------------------------------------------------------------------
(* Statements that open nothing.                                           *)
LEMMA CallStep ==
  ASSUME LowerInv, Call
  PROVE  LowerInv'
  <1>1. /\ blocks' = blocks /\ current' = current /\ open' = open
        /\ targets' = targets /\ switchDepth' = switchDepth /\ walked' = walked
        /\ Read("call", {})
    BY DEF Call
  <1>2. Sound(blocks', 0, {})
    BY <1>1, SameSound
  <1>3. grammar' = grammar /\ stmts' \in Seq(StmtType)
    BY <1>1, ReadIs DEF Kinds
  <1>4. /\ walked' \in BOOLEAN /\ current' \in Near \ {}
        /\ targets' \in Seq(TargetType) /\ switchDepth' \in Int
    BY <1>1 DEF LowerInv, LowerTypeOK, Near
  <1> QED
    BY <1>1, <1>2, <1>3, <1>4, StayStep

(* A return or a throw ends the current block, which leads nowhere yet.    *)
LEMMA EndedStep ==
  ASSUME LowerInv, NEW how \in {"return", "throw"}, NEW bs, bs = Opened(1),
         blocks' = Terminated(bs, current, how), current' = Fresh(1),
         open' = open, grammar' = grammar, stmts' \in Seq(StmtType),
         targets' = targets, switchDepth' = switchDepth, walked' = walked
  PROVE  LowerInv'
  <1>1. Sound(bs, 1, {})
    BY OpenedSound
  <1>2. /\ blocks \in Seq(BlockType) /\ Len(blocks) \in Nat
        /\ DOMAIN blocks = 1 .. Len(blocks) /\ current \in DOMAIN blocks
    BY BlocksTyped
  <1>3. bs \in Seq(BlockType) /\ DOMAIN bs = 1 .. Len(blocks) + 1
        /\ current \in DOMAIN bs
    BY <1>1, <1>2 DEF Sound
  <1>4. /\ blocks' \in Seq(BlockType)
        /\ DOMAIN blocks' = 1 .. Len(blocks) + 1
        /\ \A b \in DOMAIN blocks' : blocks'[b].succ = bs[b].succ
        /\ \A b \in DOMAIN blocks' \ {current} : blocks'[b] = bs[b]
    <2>1. how \in {"none", "branch", "return", "throw"}
      OBVIOUS
    <2>2. /\ Terminated(bs, current, how) \in Seq(BlockType)
          /\ DOMAIN Terminated(bs, current, how) = DOMAIN bs
          /\ \A b \in DOMAIN bs : Terminated(bs, current, how)[b].succ = bs[b].succ
          /\ \A b \in DOMAIN bs \ {current} : Terminated(bs, current, how)[b] = bs[b]
          /\ Terminated(bs, current, how)[current].term = how
      <3>1. bs \in Seq(BlockType)
        BY <1>3
      <3>2. current \in DOMAIN bs
        BY <1>3
      <3> QED
        BY ONLY <3>1, <3>2, <2>1, TerminatedIs, Zenon
    <2> QED
      BY <1>3, <2>2
  <1>5. blocks[current].succ = {}
    BY DEF LowerInv, ComingAreBare
  <1>6. /\ \A b \in DOMAIN blocks' \ {current} :
             blocks'[b].term \in {"return", "throw"} => blocks'[b].succ = {}
        /\ \A b \in DOMAIN blocks : blocks'[b].succ = blocks[b].succ
        /\ \A b \in DOMAIN blocks \ {current} :
             ~ LeavesIt(b) => blocks'[b].term \notin {"return", "throw"}
        /\ \A b \in DOMAIN blocks' \ DOMAIN blocks :
             blocks'[b].succ = {} /\ blocks'[b].term \notin {"return", "throw"}
    BY <1>1, <1>2, <1>4 DEF Sound
  <1>7. LeftStaysLeft'
    BY <1>2, <1>5, <1>6 DEF LeftStaysLeft, LeavesIt
  <1>8. current' \in DOMAIN blocks' \ DOMAIN blocks
    BY <1>4, FreshIs
  <1>9. ~ LeavesIt(current)' /\ blocks'[current'].succ = {}
    BY <1>6, <1>8 DEF LeavesIt
  <1>10. LowerTypeOK'
    BY <1>4, <1>8 DEF LowerInv, LowerTypeOK, BlockType
  <1>11. PICK k \in Nat : Len(open) = k /\ DOMAIN open = 1 .. k
    BY OpenIs
  <1>12. \A i \in 1 .. k : \A b \in Held(open[i]) : b \in DOMAIN blocks /\ b # current
    BY <1>11, HeldIsBlocks
  <1>13. \A i \in 1 .. k : \A b \in Becomes(open[i]) : blocks'[b].succ = {}
    BY <1>6, <1>11, <1>12, BecomesHeld DEF LowerInv, ComingAreBare
  <1>14. /\ \A b \in DOMAIN blocks : b # current /\ ~ LeavesIt(b) =>
              b \in DOMAIN blocks' /\ ~ LeavesIt(b)'
         /\ \A i \in 1 .. k : current' \notin Held(open[i])
         /\ k <= Len(open) /\ Len(open') \in {k, k + 1} /\ Len(open') # k + 1
    BY <1>2, <1>4, <1>6, <1>8, <1>11, <1>12 DEF LeavesIt
  <1> QED
    BY <1>7, <1>9, <1>10, <1>13, <1>14, FrameStep

LEMMA ReturnStep ==
  ASSUME LowerInv, Return
  PROVE  LowerInv'
  <1>1. /\ Read("return", {}) /\ blocks' = Terminated(Opened(1), current, "return")
        /\ current' = Fresh(1) /\ open' = open
        /\ targets' = targets /\ switchDepth' = switchDepth /\ walked' = walked
    BY DEF Return
  <1>2. grammar' = grammar /\ stmts' \in Seq(StmtType)
    BY <1>1, ReadIs DEF Kinds
  <1> QED
    BY <1>1, <1>2, EndedStep

LEMMA ThrowStep ==
  ASSUME LowerInv, Throw
  PROVE  LowerInv'
  <1>1. /\ Read("throw", {}) /\ blocks' = Terminated(Opened(1), current, "throw")
        /\ current' = Fresh(1) /\ open' = open
        /\ targets' = targets /\ switchDepth' = switchDepth /\ walked' = walked
    BY DEF Throw
  <1>2. grammar' = grammar /\ stmts' \in Seq(StmtType)
    BY <1>1, ReadIs DEF Kinds
  <1> QED
    BY <1>1, <1>2, EndedStep

(* A jump inside the function links its block and starts another.          *)
LEMMA JumpedStep ==
  ASSUME LowerInv, NEW to \in Nat,
         blocks' = Linked(Opened(1), {<<current, to>>}), current' = Fresh(1),
         open' = open, grammar' = grammar, stmts' \in Seq(StmtType),
         targets' = targets, switchDepth' = switchDepth, walked' = walked
  PROVE  LowerInv'
  <1>1. current \in Nat /\ ~ LeavesIt(current)
    BY CurrentIs
  <1>2. Sound(blocks', 1, {current})
    BY <1>1, LinkedOpened
  <1>4. current' \in Near \ {current}
    BY <1>2, FirstIs
  <1>5. walked' \in BOOLEAN /\ targets' \in Seq(TargetType) /\ switchDepth' \in Int
    BY DEF LowerInv, LowerTypeOK
  <1> QED
    BY <1>1, <1>2, <1>4, <1>5, StayStep

LEMMA TargetIs ==
  ASSUME LowerInv, targets # <<>>
  PROVE  /\ targets[Len(targets)].continueTo \in Nat
         /\ targets[Len(targets)].breakTo \in Nat
  <1>1. targets \in Seq(TargetType)
    BY DEF LowerInv, LowerTypeOK
  <1>2. targets[Len(targets)] \in TargetType
    BY <1>1, LastIs
  <1> QED
    BY <1>2 DEF TargetType

LEMMA BreakStep ==
  ASSUME LowerInv, Break
  PROVE  LowerInv'
  <1>1. /\ Read("break", {}) /\ open' = open
        /\ targets' = targets /\ switchDepth' = switchDepth /\ walked' = walked
    BY DEF Break
  <1>2. grammar' = grammar /\ stmts' \in Seq(StmtType)
    BY <1>1, ReadIs DEF Kinds
  <1>3. CASE targets # <<>> /\ targets[Len(targets)].switchDepth = switchDepth
    <2>1. targets[Len(targets)].breakTo \in Nat
      BY <1>3, TargetIs
    <2>2. /\ blocks' = Linked(Opened(1), {<<current, targets[Len(targets)].breakTo>>})
          /\ current' = Fresh(1)
      BY <1>3 DEF Break
    <2> QED
      BY <1>1, <1>2, <2>1, <2>2, JumpedStep
  <1>4. CASE ~ (targets # <<>> /\ targets[Len(targets)].switchDepth = switchDepth)
    <2>1. blocks' = blocks /\ current' = current
      BY <1>4 DEF Break
    <2>2. Sound(blocks', 0, {})
      BY <2>1, SameSound
    <2>3. /\ walked' \in BOOLEAN /\ current' \in Near \ {}
          /\ targets' \in Seq(TargetType) /\ switchDepth' \in Int
      BY <1>1, <2>1 DEF LowerInv, LowerTypeOK, Near
    <2> QED
      BY <1>1, <1>2, <2>2, <2>3, StayStep
  <1> QED
    BY <1>3, <1>4

LEMMA ContinueStep ==
  ASSUME LowerInv, Continue
  PROVE  LowerInv'
  <1>1. /\ Read("continue", {}) /\ open' = open
        /\ targets' = targets /\ switchDepth' = switchDepth /\ walked' = walked
        /\ targets # <<>>
        /\ blocks' = Linked(Opened(1), {<<current, targets[Len(targets)].continueTo>>})
        /\ current' = Fresh(1)
    BY DEF Continue
  <1>2. grammar' = grammar /\ stmts' \in Seq(StmtType)
    BY <1>1, ReadIs DEF Kinds
  <1>3. targets[Len(targets)].continueTo \in Nat
    BY <1>1, TargetIs
  <1> QED
    BY <1>1, <1>2, <1>3, JumpedStep

LEMMA EndFunctionStep ==
  ASSUME LowerInv, EndFunction
  PROVE  LowerInv'
  <1>1. /\ blocks' = blocks /\ current' = current /\ open' = open /\ walked' = TRUE
        /\ grammar' = grammar /\ stmts' = stmts
        /\ targets' = targets /\ switchDepth' = switchDepth
    BY DEF EndFunction, text, graph
  <1>2. Sound(blocks', 0, {})
    BY <1>1, SameSound
  <1>3. /\ walked' \in BOOLEAN /\ current' \in Near \ {} /\ stmts' \in Seq(StmtType)
        /\ targets' \in Seq(TargetType) /\ switchDepth' \in Int
    BY <1>1 DEF LowerInv, LowerTypeOK, Near
  <1> QED
    BY <1>1, <1>2, <1>3, StayStep

-----------------------------------------------------------------------------
(* What the innermost statement sets aside, and what the rest of the state *)
(* is when a statement opens or ends.                                      *)
LEMMA TopHolds ==
  ASSUME LowerInv
  PROVE  /\ Top \in FrameType
         /\ \A b \in Held(Top) : b \in Nat /\ b \in DOMAIN blocks /\ ~ LeavesIt(b) /\ b # current
         /\ Becomes(Top) \subseteq Held(Top)
         /\ Apart(Top)
  <1>1. PICK k \in Nat : open \in Seq(FrameType) /\ Len(open) = k + 1 /\ DOMAIN open = 1 .. k + 1
    BY OpenIs
  <1>2. Len(open) \in DOMAIN open /\ Top = open[Len(open)]
    BY <1>1 DEF Top
  <1>3. Top \in FrameType
    BY <1>1, <1>2
  <1>4. \A b \in Held(Top) : b \in DOMAIN blocks /\ ~ LeavesIt(b) /\ b # current
    BY <1>2, HeldIsBlocks
  <1>5. \A b \in DOMAIN blocks : b \in Nat
    BY BlocksTyped
  <1> QED
    BY <1>2, <1>3, <1>4, <1>5, BecomesHeld DEF LowerInv, LoopsApart

LEMMA OthersTyped ==
  ASSUME LowerInv
  PROVE  /\ stmts \in Seq(StmtType) /\ walked \in BOOLEAN
         /\ targets \in Seq(TargetType) /\ switchDepth \in Int
         /\ LoopPopped \in Seq(TargetType)
         /\ \A c, b \in Nat : ToLoop(c, b) \in Seq(TargetType)
  <1>1. /\ stmts \in Seq(StmtType) /\ walked \in BOOLEAN
        /\ targets \in Seq(TargetType) /\ switchDepth \in Int
    BY DEF LowerInv, LowerTypeOK
  <1>2. LoopPopped \in Seq(TargetType)
    BY <1>1, FrontIs DEF LoopPopped
  <1>3. ASSUME NEW c \in Nat, NEW b \in Nat
        PROVE  ToLoop(c, b) \in Seq(TargetType)
    <2>1. [continueTo |-> c, breakTo |-> b, switchDepth |-> switchDepth] \in TargetType
      BY <1>1 DEF TargetType
    <2> QED
      BY <1>1, <2>1, AppendIs DEF ToLoop
  <1> QED
    BY <1>1, <1>2, <1>3

-----------------------------------------------------------------------------
(* if                                                                      *)
LEMMA IfStep ==
  ASSUME LowerInv, If
  PROVE  LowerInv'
  <1>1. /\ Read("if", {}) /\ targets' = targets /\ switchDepth' = switchDepth /\ walked' = walked
        /\ blocks' = Linked(Terminated(Opened(1), current, "branch"), {<<current, Fresh(1)>>})
        /\ current' = Fresh(1)
        /\ open' = Pushed(Frame("if", "then", current, NoBlock, NoBlock, NoBlock, NoBlock))
    BY DEF If, Enters
  <1>2. grammar' = grammar /\ stmts' \in Seq(StmtType)
    BY <1>1, ReadIs DEF Kinds
  <1>3. /\ current \in Nat /\ current \in MaybeBlock /\ current \in 1 .. Len(blocks) + 1
        /\ ~ LeavesIt(current) /\ Fresh(1) \in Nat
    BY BlocksTyped, CurrentIs DEF Fresh
  <1>4. Sound(blocks', 1, {current})
    BY <1>1, <1>3, LinkedBranch
  <1>6. current' \in Near /\ current' # current /\ current \in Near
    BY <1>1, <1>4, FirstIs
  <1>7. PICK f : f = Frame("if", "then", current, NoBlock, NoBlock, NoBlock, NoBlock)
    OBVIOUS
  <1>8. f \in FrameType /\ f.kind = "if" /\ f.head = current /\ f.ends = {}
    BY <1>3, <1>7, IdIs DEF Frame, FrameType, Kinds, Arms, MaybeBlock
  <1>9. Held(f) = {current} /\ Becomes(f) = {} /\ Apart(f)
    BY <1>8 DEF Held, Becomes, Apart
  <1>10. Held(f) \subseteq Near \ {current'} /\ Becomes(f) \cap {current} = {}
    BY <1>6, <1>9 DEF Near
  <1>11. targets' \in Seq(TargetType) /\ switchDepth' \in Int /\ walked' \in BOOLEAN
    BY <1>1, OthersTyped
  <1> QED
    BY <1>1, <1>2, <1>4, <1>6, <1>7, <1>8, <1>9, <1>10, <1>11, PushStep

LEMMA ElseStep ==
  ASSUME LowerInv, Else
  PROVE  LowerInv'
  <1>1. /\ Top.kind = "if" /\ Top.arm = "then"
        /\ targets' = targets /\ switchDepth' = switchDepth /\ walked' = walked
        /\ grammar' = grammar /\ stmts' = stmts
        /\ blocks' = Linked(Opened(1), {<<Top.head, Fresh(1)>>})
        /\ current' = Fresh(1)
        /\ open' = Turned([Top EXCEPT !.arm = "else", !.ends = {current}])
    BY DEF Else, Ends, text
  <1>2. Top.head \in Held(Top) /\ Top \in FrameType
    BY <1>1, TopHolds DEF Held
  <1>3. /\ Top.head \in Nat /\ ~ LeavesIt(Top.head) /\ Top.head \in DOMAIN blocks
        /\ Fresh(1) \in Nat /\ current \in Nat
    BY <1>2, TopHolds, BlocksTyped, CurrentIs DEF Fresh
  <1>4. Sound(blocks', 1, {Top.head})
    BY <1>1, <1>3, LinkedOpened
  <1>6. current' \in DOMAIN blocks' \ DOMAIN blocks /\ current' # current
    BY <1>1, <1>4, FirstIs
  <1>7. PICK f : f = [Top EXCEPT !.arm = "else", !.ends = {current}]
    OBVIOUS
  <1>8. /\ f \in FrameType /\ f.kind = "if" /\ f.head = Top.head /\ f.ends = {current}
    <2>1. "else" \in Arms /\ {current} \in SUBSET Nat
      BY <1>3 DEF Arms
    <2>2. /\ [Top EXCEPT !.arm = "else", !.ends = {current}] \in FrameType
          /\ [Top EXCEPT !.arm = "else", !.ends = {current}].kind = Top.kind
          /\ [Top EXCEPT !.arm = "else", !.ends = {current}].head = Top.head
          /\ [Top EXCEPT !.arm = "else", !.ends = {current}].ends = {current}
      BY <1>2, <2>1 DEF FrameType
    <2> QED
      BY <1>1, <1>7, <2>2
  <1>9. Held(f) = {Top.head, current} /\ Becomes(f) = {} /\ Apart(f)
    BY <1>8 DEF Held, Becomes, Apart
  <1>10. Held(f) \subseteq Holding \ {current'}
    BY <1>2, <1>3, <1>6, <1>9 DEF Holding
  <1>11. current' \in Coming({Top.head}) /\ FromTop({Top.head})
    BY <1>2, <1>3, <1>6 DEF Coming, FromTop
  <1>12. /\ targets' \in Seq(TargetType) /\ switchDepth' \in Int /\ walked' \in BOOLEAN
         /\ stmts' \in Seq(StmtType)
    BY <1>1, OthersTyped
  <1> QED
    BY <1>1, <1>4, <1>7, <1>8, <1>9, <1>10, <1>11, <1>12, TurnStep

(* The arms that came to their end are joined behind the statement.        *)
LEMMA JoinedStep ==
  ASSUME LowerInv, NEW E, E \subseteq {current} \cup Held(Top),
         \A e \in E : ~ LeavesIt(e),
         blocks' = Linked(Opened(1), E \X {Fresh(1)}), current' = Fresh(1),
         Len(open) > 1, open' = Popped,
         grammar' = grammar, stmts' = stmts, targets' = targets,
         switchDepth' = switchDepth, walked' = walked
  PROVE  LowerInv'
  <1>1. E \subseteq DOMAIN blocks /\ E \subseteq Nat /\ Fresh(1) \in Nat
    BY TopHolds, BlocksTyped, CurrentIs DEF Fresh
  <1>2. PICK links : links = E \X {Fresh(1)}
    OBVIOUS
  <1>3. /\ links \in SUBSET (Nat \X Nat)
        /\ \A l \in links : l[1] \in E /\ (l[1] \in DOMAIN blocks => ~ LeavesIt(l[1]))
    BY <1>1, <1>2
  <1>4. Sound(blocks', 1, E)
    BY <1>2, <1>3, LinkedOpened
  <1>6. current' \in DOMAIN blocks' \ DOMAIN blocks
    BY <1>4, FirstIs
  <1>7. current' \in Coming(E) /\ FromTop(E)
    BY <1>1, <1>6 DEF Coming, FromTop
  <1>8. /\ targets' \in Seq(TargetType) /\ switchDepth' \in Int /\ walked' \in BOOLEAN
        /\ stmts' \in Seq(StmtType)
    BY OthersTyped
  <1> QED
    BY <1>4, <1>7, <1>8, PopStep

LEMMA EndIfStep ==
  ASSUME LowerInv, EndIf
  PROVE  LowerInv'
  <1>1. PICK E : E = {e \in Top.ends \cup {current} : ~ LeavesIt(e)}
                       \cup (IF Top.arm = "then" THEN {Top.head} ELSE {})
    OBVIOUS
  <1>2. /\ Top.kind = "if" /\ Len(open) > 1
        /\ targets' = targets /\ switchDepth' = switchDepth /\ walked' = walked
        /\ grammar' = grammar /\ stmts' = stmts
        /\ blocks' = Linked(Opened(1), E \X {Fresh(1)})
        /\ current' = Fresh(1) /\ open' = Popped
    BY <1>1 DEF EndIf, Ends, text
  <1>3. Held(Top) = {Top.head} \cup Top.ends
    BY <1>2 DEF Held
  <1>4. E \subseteq {current} \cup Held(Top) /\ \A e \in E : ~ LeavesIt(e)
    BY <1>1, <1>3, TopHolds
  <1> QED
    BY <1>2, <1>4, JoinedStep

LEMMA EndTryStep ==
  ASSUME LowerInv, EndTry
  PROVE  LowerInv'
  <1>1. PICK E : E = Top.ends \cup {current}
    OBVIOUS
  <1>2. /\ Top.kind = "try" /\ Len(open) > 1
        /\ targets' = targets /\ switchDepth' = switchDepth /\ walked' = walked
        /\ grammar' = grammar /\ stmts' = stmts
        /\ blocks' = Linked(Opened(1), E \X {Fresh(1)})
        /\ current' = Fresh(1) /\ open' = Popped
    BY <1>1 DEF EndTry, Ends, text
  <1>3. Top.ends \subseteq Held(Top)
    BY <1>2 DEF Held
  <1>4. E \subseteq {current} \cup Held(Top) /\ \A e \in E : ~ LeavesIt(e)
    BY <1>1, <1>3, TopHolds, CurrentIs
  <1> QED
    BY <1>2, <1>4, JoinedStep

-----------------------------------------------------------------------------
(* The loops.                                                              *)
LEMMA FourFresh ==
  ASSUME LowerInv
  PROVE  /\ Fresh(1) \in Nat /\ Fresh(2) \in Nat /\ Fresh(3) \in Nat /\ Fresh(4) \in Nat
         /\ Fresh(1) \notin DOMAIN blocks /\ Fresh(2) \notin DOMAIN blocks
         /\ Fresh(3) \notin DOMAIN blocks /\ Fresh(4) \notin DOMAIN blocks
         /\ Fresh(1) # Fresh(2) /\ Fresh(1) # Fresh(3) /\ Fresh(1) # Fresh(4)
         /\ Fresh(2) # Fresh(3) /\ Fresh(2) # Fresh(4) /\ Fresh(3) # Fresh(4)
         /\ Fresh(1) # current /\ Fresh(2) # current /\ Fresh(3) # current /\ Fresh(4) # current
  BY BlocksTyped DEF Fresh

LEMMA OpenedFour ==
  ASSUME LowerInv, NEW n \in {3, 4}, NEW F, Sound(blocks', n, F)
  PROVE  /\ current \in Near /\ Fresh(1) \in Near /\ Fresh(2) \in Near /\ Fresh(3) \in Near
         /\ n = 4 => Fresh(4) \in Near
  <1>1. DOMAIN blocks' = 1 .. Len(blocks) + n
    BY SoundStep
  <1>2. Len(blocks) \in Nat /\ DOMAIN blocks = 1 .. Len(blocks)
    BY BlocksTyped
  <1>3. /\ Fresh(1) \in DOMAIN blocks' \ DOMAIN blocks
        /\ Fresh(2) \in DOMAIN blocks' \ DOMAIN blocks
        /\ Fresh(3) \in DOMAIN blocks' \ DOMAIN blocks
        /\ n = 4 => Fresh(4) \in DOMAIN blocks' \ DOMAIN blocks
    BY <1>1, <1>2 DEF Fresh
  <1> QED
    BY <1>3 DEF Near

LEMMA WhileStep ==
  ASSUME LowerInv, While
  PROVE  LowerInv'
  <1>0. PICK orelse \in {{}, {"else"}} :
          LET header == Fresh(1)   body == Fresh(2)   after == Fresh(3)
              other  == IF orelse = {} THEN after ELSE Fresh(4)
          IN  /\ Read("while", orelse)
              /\ blocks' = Linked(Terminated(Opened(3 + Cardinality(orelse)), header, "branch"),
                                  {<<current, header>>, <<header, body>>, <<header, other>>})
              /\ current' = body
              /\ open' = Pushed(Frame("while", "body", header, body, header, other, after))
              /\ targets' = ToLoop(header, after)
              /\ switchDepth' = switchDepth /\ walked' = walked
    BY DEF While, Enters
  <1>1. PICK h, b, a, o, n :
          /\ h = Fresh(1) /\ b = Fresh(2) /\ a = Fresh(3)
          /\ o = IF orelse = {} THEN a ELSE Fresh(4)
          /\ n = 3 + Cardinality(orelse)
          /\ Read("while", orelse)
          /\ blocks' = Linked(Terminated(Opened(n), h, "branch"),
                              {<<current, h>>, <<h, b>>, <<h, o>>})
          /\ current' = b
          /\ open' = Pushed(Frame("while", "body", h, b, h, o, a))
          /\ targets' = ToLoop(h, a)
          /\ switchDepth' = switchDepth /\ walked' = walked
    BY <1>0
  <1>2. Cardinality({}) = 0 /\ Cardinality({"else"}) = 1
    BY FS_EmptySet, FS_Singleton
  <1>3. /\ n \in {3, 4} /\ n \in Nat
        /\ n = 3 => o = a
        /\ n = 4 => o = Fresh(4)
        /\ h \in 1 .. Len(blocks) + n
    <2>1. n \in {3, 4} /\ n \in Nat /\ (n = 3 => o = a) /\ (n = 4 => o = Fresh(4))
      <3>1. CASE orelse = {}
        BY <1>1, <1>2, <3>1
      <3>2. CASE orelse = {"else"}
        BY <1>1, <1>2, <3>2
      <3> QED
        BY <3>1, <3>2
    <2>2. h \in 1 .. Len(blocks) + n
      BY <1>1, <2>1, BlocksTyped DEF Fresh
    <2> QED
      BY <2>1, <2>2
  <1>4. grammar' = grammar /\ stmts' \in Seq(StmtType)
    BY <1>1, ReadIs DEF Kinds
  <1>5. /\ h \in Nat /\ b \in Nat /\ a \in Nat /\ o \in Nat
        /\ h \notin DOMAIN blocks /\ h # b /\ h # a /\ h # o /\ b # a /\ b # o
        /\ h # current /\ b # current /\ a # current /\ o # current
        /\ current \in Nat /\ ~ LeavesIt(current)
    BY <1>1, <1>3, FourFresh, CurrentIs
  <1>6. PICK links : links = {<<current, h>>, <<h, b>>, <<h, o>>}
    OBVIOUS
  <1>7. /\ links \in SUBSET (Nat \X Nat)
        /\ \A l \in links : l[1] \in {current, h} /\ (l[1] \in DOMAIN blocks => ~ LeavesIt(l[1]))
    BY <1>5, <1>6
  <1>8. Sound(blocks', n, {current, h})
    BY <1>1, <1>3, <1>6, <1>7, LinkedBranch
  <1>9. current \in Near /\ h \in Near /\ b \in Near /\ a \in Near /\ o \in Near
    BY <1>1, <1>3, <1>8, OpenedFour
  <1>10. PICK f : f = Frame("while", "body", h, b, h, o, a)
    OBVIOUS
  <1>11. /\ f \in FrameType /\ f.kind = "while" /\ f.arm = "body"
         /\ f.next = h /\ f.other = o /\ f.after = a
    BY <1>5, <1>10, IdIs DEF Frame, FrameType, Kinds, Arms, MaybeBlock
  <1>12. Held(f) = {h, a, o} /\ Becomes(f) = {a, o} /\ Apart(f)
    BY <1>5, <1>11 DEF Held, Becomes, Apart
  <1>13. /\ Held(f) \subseteq Near \ {current'} /\ Becomes(f) \cap {current, h} = {}
         /\ current' \in Near \ {current, h} /\ {current, h} \cap DOMAIN blocks \subseteq {current}
    BY <1>1, <1>5, <1>9, <1>12
  <1>14. targets' \in Seq(TargetType) /\ switchDepth' \in Int /\ walked' \in BOOLEAN
    BY <1>1, <1>5, OthersTyped
  <1> QED
    BY <1>1, <1>3, <1>4, <1>8, <1>10, <1>11, <1>12, <1>13, <1>14, PushStep

LEMMA ForStep ==
  ASSUME LowerInv, For
  PROVE  LowerInv'
  <1>0. PICK orelse \in {{}, {"else"}}, sure \in {{}, {"sure"}} :
          LET body  == Fresh(1)   after == Fresh(2)   ask == Fresh(3)
              other == IF orelse = {} THEN after ELSE Fresh(4)
              head  == IF sure = {} THEN ask ELSE body
          IN  /\ Read("for", orelse \cup sure)
              /\ blocks' = Linked(Terminated(Opened(3 + Cardinality(orelse)), ask, "branch"),
                                  {<<current, head>>, <<ask, body>>, <<ask, other>>})
              /\ current' = body
              /\ open' = Pushed(Frame("for", "body", head, body, ask, other, after))
              /\ targets' = ToLoop(ask, after)
              /\ switchDepth' = switchDepth /\ walked' = walked
    BY DEF For, Enters
  <1>1. PICK h, b, a, k, o, n :
          /\ b = Fresh(1) /\ a = Fresh(2) /\ k = Fresh(3)
          /\ o = IF orelse = {} THEN a ELSE Fresh(4)
          /\ h = IF sure = {} THEN k ELSE b
          /\ n = 3 + Cardinality(orelse)
          /\ Read("for", orelse \cup sure)
          /\ blocks' = Linked(Terminated(Opened(n), k, "branch"),
                              {<<current, h>>, <<k, b>>, <<k, o>>})
          /\ current' = b
          /\ open' = Pushed(Frame("for", "body", h, b, k, o, a))
          /\ targets' = ToLoop(k, a)
          /\ switchDepth' = switchDepth /\ walked' = walked
    BY <1>0
  <1>2. Cardinality({}) = 0 /\ Cardinality({"else"}) = 1
    BY FS_EmptySet, FS_Singleton
  <1>3. /\ n \in {3, 4} /\ n \in Nat
        /\ n = 3 => o = a
        /\ n = 4 => o = Fresh(4)
        /\ k \in 1 .. Len(blocks) + n
    <2>1. n \in {3, 4} /\ n \in Nat /\ (n = 3 => o = a) /\ (n = 4 => o = Fresh(4))
      <3>1. CASE orelse = {}
        BY <1>1, <1>2, <3>1
      <3>2. CASE orelse = {"else"}
        BY <1>1, <1>2, <3>2
      <3> QED
        BY <3>1, <3>2
    <2>2. k \in 1 .. Len(blocks) + n
      BY <1>1, <2>1, BlocksTyped DEF Fresh
    <2> QED
      BY <2>1, <2>2
  <1>4. grammar' = grammar /\ stmts' \in Seq(StmtType)
    BY <1>1, ReadIs DEF Kinds
  <1>5. /\ k \in Nat /\ b \in Nat /\ a \in Nat /\ o \in Nat /\ h \in Nat
        /\ k \notin DOMAIN blocks /\ k # b /\ k # a /\ k # o /\ b # a /\ b # o
        /\ k # current /\ b # current /\ a # current /\ o # current
        /\ current \in Nat /\ ~ LeavesIt(current)
    BY <1>1, <1>3, FourFresh, CurrentIs
  <1>6. PICK links : links = {<<current, h>>, <<k, b>>, <<k, o>>}
    OBVIOUS
  <1>7. /\ links \in SUBSET (Nat \X Nat)
        /\ \A l \in links : l[1] \in {current, k} /\ (l[1] \in DOMAIN blocks => ~ LeavesIt(l[1]))
    BY <1>5, <1>6
  <1>8. Sound(blocks', n, {current, k})
    BY <1>1, <1>3, <1>6, <1>7, LinkedBranch
  <1>9. current \in Near /\ k \in Near /\ b \in Near /\ a \in Near /\ o \in Near
    BY <1>1, <1>3, <1>8, OpenedFour
  <1>10. PICK f : f = Frame("for", "body", h, b, k, o, a)
    OBVIOUS
  <1>11. /\ f \in FrameType /\ f.kind = "for" /\ f.arm = "body"
         /\ f.next = k /\ f.other = o /\ f.after = a
    BY <1>5, <1>10, IdIs DEF Frame, FrameType, Kinds, Arms, MaybeBlock
  <1>12. Held(f) = {k, a, o} /\ Becomes(f) = {a, o} /\ Apart(f)
    BY <1>5, <1>11 DEF Held, Becomes, Apart
  <1>13. /\ Held(f) \subseteq Near \ {current'} /\ Becomes(f) \cap {current, k} = {}
         /\ current' \in Near \ {current, k} /\ {current, k} \cap DOMAIN blocks \subseteq {current}
    BY <1>1, <1>5, <1>9, <1>12
  <1>14. targets' \in Seq(TargetType) /\ switchDepth' \in Int /\ walked' \in BOOLEAN
    BY <1>1, <1>5, OthersTyped
  <1> QED
    BY <1>1, <1>3, <1>4, <1>8, <1>10, <1>11, <1>12, <1>13, <1>14, PushStep

LEMMA EndLoopStep ==
  ASSUME LowerInv, EndLoop
  PROVE  LowerInv'
  <1>1. /\ Top.kind \in {"while", "for"} /\ Top.arm = "body" /\ Len(open) > 1
        /\ grammar' = grammar /\ stmts' = stmts
        /\ blocks' = IF PathExists(blocks, Top.body, current)
                     THEN Linked(blocks, {<<current, Top.next>>}) ELSE blocks
        /\ targets' = LoopPopped /\ switchDepth' = switchDepth /\ walked' = walked
        /\ IF Top.other # Top.after
           THEN current' = Top.other /\ open' = Turned([Top EXCEPT !.arm = "else"])
           ELSE current' = Top.after /\ open' = Popped
    BY DEF EndLoop, Ends, text
  <1>2. /\ Held(Top) = {Top.next, Top.after, Top.other} /\ Becomes(Top) = {Top.after, Top.other}
        /\ Top.other # Top.next
    BY <1>1, TopHolds DEF Held, Becomes, Apart
  <1>3. /\ Top.next \in Nat /\ Top.other # current /\ Top.after # current /\ Top \in FrameType
        /\ current \in Nat /\ ~ LeavesIt(current)
    BY <1>2, TopHolds, CurrentIs
  <1>4. Sound(blocks', 0, {current})
    <2>1. PICK links : links = {<<current, Top.next>>}
      OBVIOUS
    <2>2. /\ links \in SUBSET (Nat \X Nat)
          /\ \A l \in links : l[1] \in {current} /\ (l[1] \in DOMAIN blocks => ~ LeavesIt(l[1]))
      BY <1>3, <2>1
    <2>3. Sound(Linked(blocks, links), 0, {current})
      BY <2>2, LinkedSame
    <2>4. Sound(blocks, 0, {current})
      BY SameSound, WiderSound
    <2> QED
      BY <1>1, <2>1, <2>3, <2>4
  <1>5. FromTop({current})
    BY DEF FromTop
  <1>6. /\ targets' \in Seq(TargetType) /\ switchDepth' \in Int /\ walked' \in BOOLEAN
        /\ stmts' \in Seq(StmtType)
    BY <1>1, OthersTyped
  <1>7. CASE Top.other # Top.after
    <2>1. PICK f : f = [Top EXCEPT !.arm = "else"]
      OBVIOUS
    <2>2. /\ f \in FrameType /\ f.kind = Top.kind /\ f.arm = "else"
          /\ f.next = Top.next /\ f.after = Top.after
      BY <1>3, <2>1 DEF FrameType, Arms
    <2>3. Held(f) = {Top.next, Top.after} /\ Becomes(f) = {Top.after} /\ Apart(f)
      BY <1>1, <2>2 DEF Held, Becomes, Apart
    <2>4. current' = Top.other /\ open' = Turned(f)
      BY <1>1, <1>7, <2>1
    <2>5. /\ Held(f) \subseteq Holding \ {current'} /\ Becomes(f) \subseteq Coming({current})
          /\ current' \in Coming({current})
      BY <1>2, <1>3, <1>7, <2>3, <2>4 DEF Holding, Coming
    <2> QED
      BY <1>1, <1>4, <1>5, <1>6, <2>2, <2>3, <2>4, <2>5, TurnStep
  <1>8. CASE Top.other = Top.after
    <2>1. current' = Top.after /\ open' = Popped
      BY <1>1, <1>8
    <2>2. current' \in Coming({current})
      BY <1>2, <1>3, <2>1 DEF Coming
    <2> QED
      BY <1>1, <1>4, <1>5, <1>6, <2>1, <2>2, PopStep
  <1> QED
    BY <1>7, <1>8

(* A block set aside behind the statement becomes the current one.         *)
LEMMA ThenceStep ==
  ASSUME LowerInv, Top.after \in Becomes(Top),
         blocks' = Linked(blocks, {<<current, Top.after>>}), current' = Top.after,
         Len(open) > 1, open' = Popped,
         grammar' = grammar, stmts' = stmts, targets' = targets,
         switchDepth' = switchDepth, walked' = walked
  PROVE  LowerInv'
  <1>1. /\ Top.after \in Nat /\ Top.after # current
        /\ current \in Nat /\ ~ LeavesIt(current)
    BY TopHolds, CurrentIs
  <1>2. PICK links : links = {<<current, Top.after>>}
    OBVIOUS
  <1>3. /\ links \in SUBSET (Nat \X Nat)
        /\ \A l \in links : l[1] \in {current} /\ (l[1] \in DOMAIN blocks => ~ LeavesIt(l[1]))
    BY <1>1, <1>2
  <1>4. Sound(blocks', 0, {current})
    BY <1>2, <1>3, LinkedSame
  <1>5. FromTop({current}) /\ current' \in Coming({current})
    BY <1>1 DEF FromTop, Coming
  <1>6. /\ targets' \in Seq(TargetType) /\ switchDepth' \in Int /\ walked' \in BOOLEAN
        /\ stmts' \in Seq(StmtType)
    BY OthersTyped
  <1> QED
    BY <1>4, <1>5, <1>6, PopStep

LEMMA EndLoopElseStep ==
  ASSUME LowerInv, EndLoopElse
  PROVE  LowerInv'
  <1>1. /\ Top.kind \in {"while", "for"} /\ Len(open) > 1
        /\ grammar' = grammar /\ stmts' = stmts
        /\ blocks' = Linked(blocks, {<<current, Top.after>>}) /\ current' = Top.after
        /\ open' = Popped
        /\ targets' = targets /\ switchDepth' = switchDepth /\ walked' = walked
    BY DEF EndLoopElse, Ends, text
  <1>2. Top.after \in Becomes(Top)
    BY <1>1 DEF Becomes
  <1> QED
    BY <1>1, <1>2, ThenceStep

LEMMA EndFinallyStep ==
  ASSUME LowerInv, EndFinally
  PROVE  LowerInv'
  <1>1. /\ Top.kind = "try" /\ Top.arm = "finally" /\ Len(open) > 1
        /\ grammar' = grammar /\ stmts' = stmts
        /\ blocks' = Linked(blocks, {<<current, Top.after>>}) /\ current' = Top.after
        /\ open' = Popped
        /\ targets' = targets /\ switchDepth' = switchDepth /\ walked' = walked
    BY DEF EndFinally, Ends, text
  <1>2. Top.after \in Becomes(Top)
    BY <1>1 DEF Becomes
  <1> QED
    BY <1>1, <1>2, ThenceStep

LEMMA CForStep ==
  ASSUME LowerInv, CFor
  PROVE  LowerInv'
  <1>0. PICK cond \in {{}, {"cond"}}, step \in {{}, {"step"}} :
          LET header == Fresh(1)   body == Fresh(2)   after == Fresh(3)
              next   == IF step = {} THEN header ELSE Fresh(4)
              built  == Opened(3 + Cardinality(step))
          IN  /\ Read("cfor", cond \cup step)
              /\ blocks' = IF cond = {}
                           THEN Linked(built, {<<current, header>>, <<header, body>>})
                           ELSE Linked(Terminated(built, header, "branch"),
                                       {<<current, header>>, <<header, body>>, <<header, after>>})
              /\ current' = body
              /\ open' = Pushed(Frame("cfor", "body", header, body, next, NoBlock, after))
              /\ targets' = ToLoop(next, after)
              /\ switchDepth' = switchDepth /\ walked' = walked
    BY DEF CFor, Enters
  <1>1. PICK h, b, a, k, n :
          /\ h = Fresh(1) /\ b = Fresh(2) /\ a = Fresh(3)
          /\ k = IF step = {} THEN h ELSE Fresh(4)
          /\ n = 3 + Cardinality(step)
          /\ Read("cfor", cond \cup step)
          /\ blocks' = IF cond = {}
                       THEN Linked(Opened(n), {<<current, h>>, <<h, b>>})
                       ELSE Linked(Terminated(Opened(n), h, "branch"),
                                   {<<current, h>>, <<h, b>>, <<h, a>>})
          /\ current' = b
          /\ open' = Pushed(Frame("cfor", "body", h, b, k, NoBlock, a))
          /\ targets' = ToLoop(k, a)
          /\ switchDepth' = switchDepth /\ walked' = walked
    BY <1>0
  <1>2. Cardinality({}) = 0 /\ Cardinality({"step"}) = 1
    BY FS_EmptySet, FS_Singleton
  <1>3. /\ n \in {3, 4} /\ n \in Nat
        /\ n = 3 => k = h
        /\ n = 4 => k = Fresh(4)
        /\ h \in 1 .. Len(blocks) + n
    <2>1. n \in {3, 4} /\ n \in Nat /\ (n = 3 => k = h) /\ (n = 4 => k = Fresh(4))
      <3>1. CASE step = {}
        BY <1>1, <1>2, <3>1
      <3>2. CASE step = {"step"}
        BY <1>1, <1>2, <3>2
      <3> QED
        BY <3>1, <3>2
    <2>2. h \in 1 .. Len(blocks) + n
      BY <1>1, <2>1, BlocksTyped DEF Fresh
    <2> QED
      BY <2>1, <2>2
  <1>4. grammar' = grammar /\ stmts' \in Seq(StmtType)
    BY <1>1, ReadIs DEF Kinds
  <1>5. /\ h \in Nat /\ b \in Nat /\ a \in Nat /\ k \in Nat
        /\ h \notin DOMAIN blocks /\ h # b /\ h # a /\ b # a /\ b # k /\ a # k
        /\ h # current /\ b # current /\ a # current /\ k # current
        /\ current \in Nat /\ ~ LeavesIt(current)
    BY <1>1, <1>3, FourFresh, CurrentIs
  <1>6. PICK lone, both :
          lone = {<<current, h>>, <<h, b>>} /\ both = {<<current, h>>, <<h, b>>, <<h, a>>}
    OBVIOUS
  <1>7. /\ lone \in SUBSET (Nat \X Nat) /\ both \in SUBSET (Nat \X Nat)
        /\ \A l \in lone : l[1] \in {current, h} /\ (l[1] \in DOMAIN blocks => ~ LeavesIt(l[1]))
        /\ \A l \in both : l[1] \in {current, h} /\ (l[1] \in DOMAIN blocks => ~ LeavesIt(l[1]))
    BY <1>5, <1>6
  <1>8. Sound(blocks', n, {current, h})
    <2>1. Sound(Linked(Opened(n), lone), n, {current, h})
      BY <1>3, <1>7, LinkedOpened
    <2>2. Sound(Linked(Terminated(Opened(n), h, "branch"), both), n, {current, h})
      BY <1>3, <1>7, LinkedBranch
    <2> QED
      BY <1>1, <1>6, <2>1, <2>2
  <1>9. current \in Near /\ h \in Near /\ b \in Near /\ a \in Near /\ k \in Near
    BY <1>1, <1>3, <1>8, OpenedFour
  <1>10. PICK f : f = Frame("cfor", "body", h, b, k, NoBlock, a)
    OBVIOUS
  <1>11. /\ f \in FrameType /\ f.kind = "cfor" /\ f.head = h /\ f.next = k /\ f.after = a
    BY <1>5, <1>10, IdIs DEF Frame, FrameType, Kinds, Arms, MaybeBlock
  <1>12. Held(f) = {h, k, a} /\ Becomes(f) = {a} /\ Apart(f)
    BY <1>5, <1>11 DEF Held, Becomes, Apart
  <1>13. /\ Held(f) \subseteq Near \ {current'} /\ Becomes(f) \cap {current, h} = {}
         /\ current' \in Near \ {current, h} /\ {current, h} \cap DOMAIN blocks \subseteq {current}
    BY <1>1, <1>5, <1>9, <1>12
  <1>14. targets' \in Seq(TargetType) /\ switchDepth' \in Int /\ walked' \in BOOLEAN
    BY <1>1, <1>5, OthersTyped
  <1> QED
    BY <1>1, <1>3, <1>4, <1>8, <1>10, <1>11, <1>12, <1>13, <1>14, PushStep

LEMMA DoStep ==
  ASSUME LowerInv, Do
  PROVE  LowerInv'
  <1>1. PICK h, b, k, a :
          /\ h = Fresh(1) /\ b = Fresh(2) /\ k = Fresh(3) /\ a = Fresh(4)
          /\ Read("do", {})
          /\ blocks' = Linked(Opened(4), {<<current, h>>, <<h, b>>})
          /\ current' = b
          /\ open' = Pushed(Frame("do", "body", h, b, k, NoBlock, a))
          /\ targets' = ToLoop(k, a)
          /\ switchDepth' = switchDepth /\ walked' = walked
    BY DEF Do, Enters
  <1>2. grammar' = grammar /\ stmts' \in Seq(StmtType)
    BY <1>1, ReadIs DEF Kinds
  <1>3. /\ h \in Nat /\ b \in Nat /\ a \in Nat /\ k \in Nat
        /\ h \notin DOMAIN blocks /\ h # b /\ h # a /\ b # a /\ b # k /\ a # k
        /\ h # current /\ b # current /\ a # current /\ k # current
        /\ current \in Nat /\ ~ LeavesIt(current)
    BY <1>1, FourFresh, CurrentIs
  <1>4. PICK links : links = {<<current, h>>, <<h, b>>}
    OBVIOUS
  <1>5. /\ links \in SUBSET (Nat \X Nat)
        /\ \A l \in links : l[1] \in {current, h} /\ (l[1] \in DOMAIN blocks => ~ LeavesIt(l[1]))
    BY <1>3, <1>4
  <1>6. Sound(blocks', 4, {current, h})
    BY <1>1, <1>4, <1>5, LinkedOpened
  <1>7. current \in Near /\ h \in Near /\ b \in Near /\ a \in Near /\ k \in Near
    BY <1>1, <1>6, OpenedFour
  <1>8. PICK f : f = Frame("do", "body", h, b, k, NoBlock, a)
    OBVIOUS
  <1>9. f \in FrameType /\ f.kind = "do" /\ f.head = h /\ f.next = k /\ f.after = a
    BY <1>3, <1>8, IdIs DEF Frame, FrameType, Kinds, Arms, MaybeBlock
  <1>10. Held(f) = {h, k, a} /\ Becomes(f) = {a} /\ Apart(f)
    BY <1>3, <1>9 DEF Held, Becomes, Apart
  <1>11. /\ Held(f) \subseteq Near \ {current'} /\ Becomes(f) \cap {current, h} = {}
         /\ current' \in Near \ {current, h} /\ {current, h} \cap DOMAIN blocks \subseteq {current}
    BY <1>1, <1>3, <1>7, <1>10
  <1>12. targets' \in Seq(TargetType) /\ switchDepth' \in Int /\ walked' \in BOOLEAN
    BY <1>1, <1>3, OthersTyped
  <1> QED
    BY <1>1, <1>2, <1>6, <1>8, <1>9, <1>10, <1>11, <1>12, PushStep

(* The way back into a loop, and from its question or step to its head.    *)
LEMMA BackSound ==
  ASSUME LowerInv, Top.kind \in {"cfor", "do"}, NEW F, F = {current, Top.next},
         NEW back,
         back = IF PathExists(blocks, Top.body, current)
                THEN Linked(blocks, {<<current, Top.next>>}) ELSE blocks
  PROVE  /\ Sound(back, 0, F)
         /\ \A links \in SUBSET (Nat \X Nat) :
              (\A l \in links : l[1] = Top.next) =>
                /\ Sound(Linked(back, links), 0, F)
                /\ Sound(Linked(Terminated(back, Top.next, "branch"), links), 0, F)
  <1>1. Top.next \in Held(Top)
    BY DEF Held
  <1>2. /\ Top.next \in Nat /\ Top.next \in DOMAIN blocks /\ ~ LeavesIt(Top.next)
        /\ current \in Nat /\ ~ LeavesIt(current)
    BY <1>1, TopHolds, CurrentIs
  <1>3. Sound(back, 0, F)
    <2>1. PICK links : links = {<<current, Top.next>>}
      OBVIOUS
    <2>2. /\ links \in SUBSET (Nat \X Nat)
          /\ \A l \in links : l[1] \in F /\ (l[1] \in DOMAIN blocks => ~ LeavesIt(l[1]))
      BY <1>2, <2>1
    <2>3. Sound(Linked(blocks, links), 0, F)
      BY <2>2, LinkedSame
    <2>4. Sound(blocks, 0, F)
      BY SameSound, WiderSound
    <2> QED
      BY <2>1, <2>3, <2>4
  <1>4. Top.next \in DOMAIN back /\ back[Top.next].term \notin {"return", "throw"}
    <2>1. DOMAIN back = 1 .. Len(blocks) + 0
      BY <1>3 DEF Sound
    <2>2. Top.next \in DOMAIN back
      BY <1>2, <2>1, BlocksTyped
    <2>3. back[Top.next].term \notin {"return", "throw"}
      BY <1>2, <1>3 DEF Sound
    <2> QED
      BY <2>2, <2>3
  <1>5. PICK turned : turned = Terminated(back, Top.next, "branch")
    OBVIOUS
  <1>6. Sound(turned, 0, F)
    BY <1>3, <1>4, <1>5, BranchSound
  <1>7. turned[Top.next].term \notin {"return", "throw"}
    BY <1>2, <1>6, BlocksTyped DEF Sound
  <1>8. ASSUME NEW links \in SUBSET (Nat \X Nat), \A l \in links : l[1] = Top.next
        PROVE  Sound(Linked(back, links), 0, F) /\ Sound(Linked(turned, links), 0, F)
    <2>1. \A l \in links : l[1] \in F /\ (l[1] \in DOMAIN back => back[l[1]].term \notin {"return", "throw"})
      BY <1>4, <1>8
    <2>2. \A l \in links : l[1] \in F /\ (l[1] \in DOMAIN turned => turned[l[1]].term \notin {"return", "throw"})
      BY <1>7, <1>8
    <2> QED
      BY <1>3, <1>6, <2>1, <2>2, LinkSound
  <1> QED
    BY <1>3, <1>5, <1>8

LEMMA EndCForStep ==
  ASSUME LowerInv, EndCFor
  PROVE  LowerInv'
  <1>1. PICK back :
          back = IF PathExists(blocks, Top.body, current)
                 THEN Linked(blocks, {<<current, Top.next>>}) ELSE blocks
    OBVIOUS
  <1>2. /\ Top.kind = "cfor" /\ Len(open) > 1
        /\ grammar' = grammar /\ stmts' = stmts
        /\ blocks' = IF Top.next # Top.head /\ PathExists(back, Top.body, Top.next)
                     THEN Linked(back, {<<Top.next, Top.head>>}) ELSE back
        /\ current' = Top.after /\ open' = Popped
        /\ targets' = LoopPopped /\ switchDepth' = switchDepth /\ walked' = walked
    BY <1>1 DEF EndCFor, Ends, text
  <1>3. Held(Top) = {Top.head, Top.next, Top.after} /\ Becomes(Top) = {Top.after} /\ Top.after # Top.next
    BY <1>2, TopHolds DEF Held, Becomes, Apart
  <1>4. Top.next \in Nat /\ Top.head \in Nat /\ Top.after # current
    BY <1>3, TopHolds
  <1>5. PICK F : F = {current, Top.next}
    OBVIOUS
  <1>6. PICK links : links = {<<Top.next, Top.head>>}
    OBVIOUS
  <1>7. links \in SUBSET (Nat \X Nat) /\ \A l \in links : l[1] = Top.next
    BY <1>4, <1>6
  <1>8. Sound(blocks', 0, F)
    <2>1. Sound(back, 0, F) /\ Sound(Linked(back, links), 0, F)
      BY <1>1, <1>2, <1>5, <1>7, BackSound
    <2> QED
      BY <1>2, <1>6, <2>1
  <1>9. FromTop(F) /\ current' \in Coming(F)
    BY <1>2, <1>3, <1>4, <1>5 DEF FromTop, Coming
  <1>10. /\ targets' \in Seq(TargetType) /\ switchDepth' \in Int /\ walked' \in BOOLEAN
         /\ stmts' \in Seq(StmtType)
    BY <1>2, OthersTyped
  <1> QED
    BY <1>2, <1>8, <1>9, <1>10, PopStep

LEMMA EndDoStep ==
  ASSUME LowerInv, EndDo
  PROVE  LowerInv'
  <1>1. PICK back :
          back = IF PathExists(blocks, Top.body, current)
                 THEN Linked(blocks, {<<current, Top.next>>}) ELSE blocks
    OBVIOUS
  <1>2. /\ Top.kind = "do" /\ Len(open) > 1
        /\ grammar' = grammar /\ stmts' = stmts
        /\ blocks' = Linked(Terminated(back, Top.next, "branch"),
                            {<<Top.next, Top.head>>, <<Top.next, Top.after>>})
        /\ current' = Top.after /\ open' = Popped
        /\ targets' = LoopPopped /\ switchDepth' = switchDepth /\ walked' = walked
    BY <1>1 DEF EndDo, Ends, text
  <1>3. Held(Top) = {Top.head, Top.next, Top.after} /\ Becomes(Top) = {Top.after} /\ Top.after # Top.next
    BY <1>2, TopHolds DEF Held, Becomes, Apart
  <1>4. Top.next \in Nat /\ Top.head \in Nat /\ Top.after \in Nat /\ Top.after # current
    BY <1>3, TopHolds
  <1>5. PICK F : F = {current, Top.next}
    OBVIOUS
  <1>6. PICK links : links = {<<Top.next, Top.head>>, <<Top.next, Top.after>>}
    OBVIOUS
  <1>7. links \in SUBSET (Nat \X Nat) /\ \A l \in links : l[1] = Top.next
    BY <1>4, <1>6
  <1>8. Sound(blocks', 0, F)
    <2>1. Sound(Linked(Terminated(back, Top.next, "branch"), links), 0, F)
      BY <1>1, <1>2, <1>5, <1>7, BackSound
    <2> QED
      BY <1>2, <1>6, <2>1
  <1>9. FromTop(F) /\ current' \in Coming(F)
    BY <1>2, <1>3, <1>4, <1>5 DEF FromTop, Coming
  <1>10. /\ targets' \in Seq(TargetType) /\ switchDepth' \in Int /\ walked' \in BOOLEAN
         /\ stmts' \in Seq(StmtType)
    BY <1>2, OthersTyped
  <1> QED
    BY <1>2, <1>8, <1>9, <1>10, PopStep

-----------------------------------------------------------------------------
(* switch                                                                  *)
LEMMA SwitchStep ==
  ASSUME LowerInv, Switch
  PROVE  LowerInv'
  <1>1. /\ Read("switch", {}) /\ blocks' = blocks /\ current' = current
        /\ open' = Pushed(Frame("switch", "case", NoBlock, NoBlock, NoBlock, NoBlock, NoBlock))
        /\ targets' = targets /\ switchDepth' = switchDepth + 1 /\ walked' = walked
    BY DEF Switch, Enters
  <1>2. grammar' = grammar /\ stmts' \in Seq(StmtType)
    BY <1>1, ReadIs DEF Kinds
  <1>3. Sound(blocks', 0, {})
    BY <1>1, SameSound
  <1>4. PICK f : f = Frame("switch", "case", NoBlock, NoBlock, NoBlock, NoBlock, NoBlock)
    OBVIOUS
  <1>5. f \in FrameType /\ f.kind = "switch"
    BY <1>4, IdIs DEF Frame, FrameType, Kinds, Arms, MaybeBlock
  <1>6. Held(f) = {} /\ Becomes(f) = {} /\ Apart(f)
    BY <1>5 DEF Held, Becomes, Apart
  <1>7. current' \in Near \ {} /\ {} \cap DOMAIN blocks \subseteq {current}
    BY <1>1 DEF Near
  <1>8. targets' \in Seq(TargetType) /\ switchDepth' \in Int /\ walked' \in BOOLEAN
    BY <1>1, OthersTyped
  <1> QED
    BY <1>1, <1>2, <1>3, <1>4, <1>5, <1>6, <1>7, <1>8, PushStep

(* The next arm of a switch, and the else of a try.                        *)
LEMMA NextArmStep ==
  ASSUME LowerInv, NEW arm \in {"default", "else"},
         Top.kind = "switch" \/ (Top.kind = "try" /\ Top.arm = "try"),
         blocks' = blocks, current' = current, open' = Turned([Top EXCEPT !.arm = arm]),
         grammar' = grammar, stmts' = stmts, targets' = targets,
         switchDepth' = switchDepth, walked' = walked
  PROVE  LowerInv'
  <1>1. Sound(blocks', 0, {})
    BY SameSound
  <1>2. Top \in FrameType
    BY TopHolds
  <1>3. PICK f : f = [Top EXCEPT !.arm = arm]
    OBVIOUS
  <1>4. /\ f \in FrameType /\ f.kind = Top.kind /\ f.arm = arm
        /\ f.head = Top.head /\ f.ends = Top.ends
    BY <1>2, <1>3 DEF FrameType, Arms
  <1>5. Held(f) \subseteq Held(Top) /\ Becomes(f) = {} /\ Apart(f)
    BY <1>4 DEF Held, Becomes, Apart
  <1>6. Held(f) \subseteq Holding \ {current'}
    BY <1>5, TopHolds DEF Holding
  <1>7. current' \in Coming({}) /\ Becomes(f) \subseteq Coming({}) /\ FromTop({})
    BY <1>5 DEF Coming, FromTop
  <1>8. /\ targets' \in Seq(TargetType) /\ switchDepth' \in Int /\ walked' \in BOOLEAN
        /\ stmts' \in Seq(StmtType)
    BY OthersTyped
  <1> QED
    BY <1>1, <1>3, <1>4, <1>5, <1>6, <1>7, <1>8, TurnStep

LEMMA NextCaseStep ==
  ASSUME LowerInv, NextCase
  PROVE  LowerInv'
  <1>1. /\ Top.kind = "switch" /\ blocks' = blocks /\ current' = current
        /\ open' = Turned([Top EXCEPT !.arm = "default"])
        /\ grammar' = grammar /\ stmts' = stmts /\ targets' = targets
        /\ switchDepth' = switchDepth /\ walked' = walked
    BY DEF NextCase, Ends, text, graph
  <1>2. PICK arm \in {"default", "else"} : arm = "default"
    OBVIOUS
  <1>3. open' = Turned([Top EXCEPT !.arm = arm])
    BY <1>1, <1>2
  <1>4. Top.kind = "switch" \/ (Top.kind = "try" /\ Top.arm = "try")
    BY <1>1
  <1> QED
    BY <1>1, <1>3, <1>4, NextArmStep

LEMMA TryElseStep ==
  ASSUME LowerInv, TryElse
  PROVE  LowerInv'
  <1>1. /\ Top.kind = "try" /\ Top.arm = "try" /\ blocks' = blocks /\ current' = current
        /\ open' = Turned([Top EXCEPT !.arm = "else"])
        /\ grammar' = grammar /\ stmts' = stmts /\ targets' = targets
        /\ switchDepth' = switchDepth /\ walked' = walked
    BY DEF TryElse, Ends, text, graph
  <1>2. PICK arm \in {"default", "else"} : arm = "else"
    OBVIOUS
  <1>3. open' = Turned([Top EXCEPT !.arm = arm])
    BY <1>1, <1>2
  <1> QED
    BY <1>1, <1>3, NextArmStep

LEMMA EndSwitchStep ==
  ASSUME LowerInv, EndSwitch
  PROVE  LowerInv'
  <1>1. /\ Len(open) > 1 /\ blocks' = blocks /\ current' = current /\ open' = Popped
        /\ grammar' = grammar /\ stmts' = stmts /\ targets' = targets
        /\ switchDepth' = switchDepth - 1 /\ walked' = walked
    BY DEF EndSwitch, Ends, text, graph
  <1>2. Sound(blocks', 0, {})
    BY <1>1, SameSound
  <1>3. current' \in Coming({}) /\ FromTop({})
    BY <1>1 DEF Coming, FromTop
  <1>4. /\ targets' \in Seq(TargetType) /\ switchDepth' \in Int /\ walked' \in BOOLEAN
        /\ stmts' \in Seq(StmtType)
    <2>1. \A i \in Int : i - 1 \in Int
      OBVIOUS
    <2> QED
      BY <1>1, <2>1, OthersTyped
  <1> QED
    BY <1>1, <1>2, <1>3, <1>4, PopStep

-----------------------------------------------------------------------------
(* try                                                                     *)
LEMMA TryStep ==
  ASSUME LowerInv, Try
  PROVE  LowerInv'
  <1>1. PICK r, b :
          /\ r = Fresh(1) /\ b = Fresh(2)
          /\ Read("try", {})
          /\ blocks' = Linked(Opened(2), {<<current, r>>, <<r, b>>})
          /\ current' = b
          /\ open' = Pushed(Frame("try", "try", r, b, NoBlock, NoBlock, NoBlock))
          /\ targets' = targets /\ switchDepth' = switchDepth /\ walked' = walked
    BY DEF Try, Enters
  <1>2. grammar' = grammar /\ stmts' \in Seq(StmtType)
    BY <1>1, ReadIs DEF Kinds
  <1>3. /\ r \in Nat /\ b \in Nat /\ r # b /\ r # current /\ b # current
        /\ r \notin DOMAIN blocks /\ current \in Nat /\ ~ LeavesIt(current)
    BY <1>1, FourFresh, CurrentIs
  <1>4. PICK links : links = {<<current, r>>, <<r, b>>}
    OBVIOUS
  <1>5. /\ links \in SUBSET (Nat \X Nat)
        /\ \A l \in links : l[1] \in {current, r} /\ (l[1] \in DOMAIN blocks => ~ LeavesIt(l[1]))
    BY <1>3, <1>4
  <1>6. Sound(blocks', 2, {current, r})
    BY <1>1, <1>4, <1>5, LinkedOpened
  <1>7. r \in Near /\ b \in Near
    <2>1. DOMAIN blocks' = 1 .. Len(blocks) + 2
      BY <1>6, SoundStep
    <2>2. r \in DOMAIN blocks' \ DOMAIN blocks /\ b \in DOMAIN blocks' \ DOMAIN blocks
      BY <1>1, <2>1, BlocksTyped DEF Fresh
    <2> QED
      BY <2>2 DEF Near
  <1>8. PICK f : f = Frame("try", "try", r, b, NoBlock, NoBlock, NoBlock)
    OBVIOUS
  <1>9. f \in FrameType /\ f.kind = "try" /\ f.arm = "try" /\ f.head = r /\ f.ends = {}
    BY <1>3, <1>8, IdIs DEF Frame, FrameType, Kinds, Arms, MaybeBlock
  <1>10. Held(f) = {r} /\ Becomes(f) = {} /\ Apart(f)
    BY <1>9 DEF Held, Becomes, Apart
  <1>11. /\ Held(f) \subseteq Near \ {current'} /\ Becomes(f) \cap {current, r} = {}
         /\ current' \in Near \ {current, r} /\ {current, r} \cap DOMAIN blocks \subseteq {current}
    BY <1>1, <1>3, <1>7, <1>10
  <1>12. targets' \in Seq(TargetType) /\ switchDepth' \in Int /\ walked' \in BOOLEAN
    BY <1>1, OthersTyped
  <1> QED
    BY <1>1, <1>2, <1>6, <1>8, <1>9, <1>10, <1>11, <1>12, PushStep

LEMMA CatchStep ==
  ASSUME LowerInv, Catch
  PROVE  LowerInv'
  <1>1. /\ Top.kind = "try" /\ Top.arm \in {"try", "else"}
        /\ targets' = targets /\ switchDepth' = switchDepth /\ walked' = walked
        /\ grammar' = grammar /\ stmts' = stmts
        /\ blocks' = Linked(Opened(1), {<<Top.head, Fresh(1)>>})
        /\ current' = Fresh(1)
        /\ open' = Turned([Top EXCEPT !.arm = "catch", !.ends = {current}])
    BY DEF Catch, Ends, text
  <1>2. Top.head \in Held(Top) /\ Top \in FrameType
    BY <1>1, TopHolds DEF Held
  <1>3. /\ Top.head \in Nat /\ ~ LeavesIt(Top.head) /\ Top.head \in DOMAIN blocks
        /\ Fresh(1) \in Nat /\ current \in Nat
    BY <1>2, TopHolds, BlocksTyped, CurrentIs DEF Fresh
  <1>4. Sound(blocks', 1, {Top.head})
    BY <1>1, <1>3, LinkedOpened
  <1>5. current' \in DOMAIN blocks' \ DOMAIN blocks /\ current' # current
    BY <1>1, <1>4, FirstIs
  <1>6. PICK f : f = [Top EXCEPT !.arm = "catch", !.ends = {current}]
    OBVIOUS
  <1>7. /\ f \in FrameType /\ f.kind = "try" /\ f.arm = "catch"
        /\ f.head = Top.head /\ f.ends = {current}
    <2>1. "catch" \in Arms /\ {current} \in SUBSET Nat
      BY <1>3 DEF Arms
    <2>2. /\ [Top EXCEPT !.arm = "catch", !.ends = {current}] \in FrameType
          /\ [Top EXCEPT !.arm = "catch", !.ends = {current}].kind = Top.kind
          /\ [Top EXCEPT !.arm = "catch", !.ends = {current}].arm = "catch"
          /\ [Top EXCEPT !.arm = "catch", !.ends = {current}].head = Top.head
          /\ [Top EXCEPT !.arm = "catch", !.ends = {current}].ends = {current}
      BY <1>2, <2>1 DEF FrameType
    <2> QED
      BY <1>1, <1>6, <2>2
  <1>8. Held(f) = {Top.head, current} /\ Becomes(f) = {} /\ Apart(f)
    BY <1>7 DEF Held, Becomes, Apart
  <1>9. Held(f) \subseteq Holding \ {current'}
    BY <1>2, <1>3, <1>5, <1>8 DEF Holding
  <1>10. current' \in Coming({Top.head}) /\ FromTop({Top.head})
    BY <1>2, <1>3, <1>5 DEF Coming, FromTop
  <1>11. /\ targets' \in Seq(TargetType) /\ switchDepth' \in Int /\ walked' \in BOOLEAN
         /\ stmts' \in Seq(StmtType)
    BY <1>1, OthersTyped
  <1> QED
    BY <1>1, <1>4, <1>6, <1>7, <1>8, <1>9, <1>10, <1>11, TurnStep

LEMMA FinallyStep ==
  ASSUME LowerInv, Finally
  PROVE  LowerInv'
  <1>1. PICK E, a, b :
          /\ E = Top.ends \cup {current} /\ a = Fresh(1) /\ b = Fresh(2)
          /\ Top.kind = "try" /\ Top.arm \in {"try", "else", "catch"}
          /\ targets' = targets /\ switchDepth' = switchDepth /\ walked' = walked
          /\ grammar' = grammar /\ stmts' = stmts
          /\ blocks' = Linked(Opened(2), E \X {b})
          /\ current' = b
          /\ open' = Turned([Top EXCEPT !.arm = "finally", !.ends = {}, !.after = a])
    BY DEF Finally, Ends, text
  <1>2. Held(Top) = {Top.head} \cup Top.ends /\ Top \in FrameType
    BY <1>1, TopHolds DEF Held
  <1>3. /\ E \subseteq DOMAIN blocks /\ E \subseteq Nat /\ \A e \in E : ~ LeavesIt(e)
        /\ a \in Nat /\ b \in Nat /\ a # b /\ a \notin DOMAIN blocks /\ b \notin DOMAIN blocks
        /\ Top.head \in DOMAIN blocks
    BY <1>1, <1>2, TopHolds, BlocksTyped, CurrentIs, FourFresh
  <1>4. PICK links : links = E \X {b}
    OBVIOUS
  <1>5. /\ links \in SUBSET (Nat \X Nat)
        /\ \A l \in links : l[1] \in E /\ (l[1] \in DOMAIN blocks => ~ LeavesIt(l[1]))
    BY <1>3, <1>4
  <1>6. Sound(blocks', 2, E)
    BY <1>1, <1>4, <1>5, LinkedOpened
  <1>7. a \in DOMAIN blocks' \ DOMAIN blocks /\ b \in DOMAIN blocks' \ DOMAIN blocks
    <2>1. DOMAIN blocks' = 1 .. Len(blocks) + 2
      BY <1>6, SoundStep
    <2> QED
      BY <1>1, <2>1, BlocksTyped DEF Fresh
  <1>8. PICK f : f = [Top EXCEPT !.arm = "finally", !.ends = {}, !.after = a]
    OBVIOUS
  <1>9. /\ f \in FrameType /\ f.kind = "try" /\ f.arm = "finally"
        /\ f.head = Top.head /\ f.ends = {} /\ f.after = a
    <2>1. "finally" \in Arms /\ {} \in SUBSET Nat /\ a \in MaybeBlock
      BY <1>3 DEF Arms, MaybeBlock
    <2>2. /\ [Top EXCEPT !.arm = "finally", !.ends = {}, !.after = a] \in FrameType
          /\ [Top EXCEPT !.arm = "finally", !.ends = {}, !.after = a].kind = Top.kind
          /\ [Top EXCEPT !.arm = "finally", !.ends = {}, !.after = a].arm = "finally"
          /\ [Top EXCEPT !.arm = "finally", !.ends = {}, !.after = a].head = Top.head
          /\ [Top EXCEPT !.arm = "finally", !.ends = {}, !.after = a].ends = {}
          /\ [Top EXCEPT !.arm = "finally", !.ends = {}, !.after = a].after = a
      BY <1>2, <2>1 DEF FrameType
    <2> QED
      BY <1>1, <1>8, <2>2
  <1>10. Held(f) = {Top.head, a} /\ Becomes(f) = {a} /\ Apart(f)
    BY <1>9 DEF Held, Becomes, Apart
  <1>11. /\ Held(f) \subseteq Holding \ {current'} /\ Becomes(f) \subseteq Coming(E)
         /\ current' \in Coming(E) /\ FromTop(E)
    BY <1>1, <1>2, <1>3, <1>7, <1>10 DEF Holding, Coming, FromTop
  <1>12. /\ targets' \in Seq(TargetType) /\ switchDepth' \in Int /\ walked' \in BOOLEAN
         /\ stmts' \in Seq(StmtType)
    BY <1>1, OthersTyped
  <1> QED
    BY <1>1, <1>6, <1>8, <1>9, <1>10, <1>11, <1>12, TurnStep

-----------------------------------------------------------------------------
LEMMA LowerInitInv ==
  ASSUME LowerInit
  PROVE  LowerInv
  <1>1. PICK f : f = [stmt |-> 0, kind |-> "function", arm |-> "body", head |-> NoBlock,
                      body |-> NoBlock, next |-> NoBlock, other |-> NoBlock,
                      after |-> NoBlock, ends |-> {}]
    OBVIOUS
  <1>2. open = <<f>> /\ DOMAIN open = {1} /\ open[1] = f
    BY <1>1 DEF LowerInit
  <1>3. f \in FrameType /\ f.kind = "function"
    BY <1>1 DEF FrameType, Kinds, Arms, MaybeBlock
  <1>4. Held(f) = {} /\ Becomes(f) = {} /\ Apart(f)
    BY <1>3 DEF Held, Becomes, Apart
  <1>5. PICK r : r = [succ |-> {}, term |-> "none"]
    OBVIOUS
  <1>6. r \in BlockType /\ r.succ = {} /\ r.term = "none"
    BY <1>5 DEF BlockType
  <1>7. /\ blocks = <<r>> /\ current = 1 /\ stmts = <<>> /\ targets = <<>>
        /\ switchDepth = 0 /\ walked = FALSE /\ grammar \in Grammars
    BY <1>5 DEF LowerInit
  <1>8. blocks \in Seq(BlockType) /\ DOMAIN blocks = {1} /\ blocks[1] = r
    BY <1>6, <1>7
  <1>9. LowerTypeOK
    <2>1. open \in Seq(FrameType) /\ open # <<>>
      BY <1>2, <1>3
    <2>2. stmts \in Seq(StmtType) /\ targets \in Seq(TargetType)
      BY <1>7
    <2>3. blocks \in Seq([succ : SUBSET Nat, term : {"none", "branch", "return", "throw"}])
      BY <1>8 DEF BlockType
    <2>4. current \in DOMAIN blocks /\ switchDepth \in Int
      BY <1>7, <1>8
    <2>5. walked \in BOOLEAN
      BY <1>7, Zenon
    <2> QED
      BY <1>7, <2>1, <2>2, <2>3, <2>4, <2>5 DEF LowerTypeOK
  <1>10. ~ LeavesIt(current) /\ LeftStaysLeft /\ ComingAreBare
    BY <1>2, <1>4, <1>6, <1>7, <1>8 DEF LeavesIt, LeftStaysLeft, ComingAreBare
  <1>11. HeldAreOpen /\ HeldApart /\ LoopsApart
    BY <1>2, <1>4 DEF HeldAreOpen, HeldApart, LoopsApart
  <1> QED
    BY <1>9, <1>10, <1>11 DEF LowerInv

LEMMA LowerNextInv ==
  ASSUME LowerInv, [LowerNext]_lowerVars
  PROVE  LowerInv'
  <1>1. CASE LowerNext
    BY <1>1, CallStep, ReturnStep, ThrowStep, BreakStep, ContinueStep,
       IfStep, ElseStep, EndIfStep, WhileStep, ForStep, EndLoopStep, EndLoopElseStep,
       CForStep, EndCForStep, DoStep, EndDoStep, SwitchStep, NextCaseStep, EndSwitchStep,
       TryStep, TryElseStep, CatchStep, FinallyStep, EndFinallyStep, EndTryStep,
       EndFunctionStep DEF LowerNext
  <1>2. CASE UNCHANGED lowerVars
    <2>1. /\ blocks' = blocks /\ current' = current /\ open' = open /\ walked' = walked
          /\ grammar' = grammar /\ stmts' = stmts
          /\ targets' = targets /\ switchDepth' = switchDepth
      BY <1>2 DEF lowerVars
    <2>2. Sound(blocks', 0, {})
      BY <2>1, SameSound
    <2>3. /\ walked' \in BOOLEAN /\ current' \in Near \ {} /\ stmts' \in Seq(StmtType)
          /\ targets' \in Seq(TargetType) /\ switchDepth' \in Int
      BY <2>1, OthersTyped DEF Near
    <2> QED
      BY <2>1, <2>2, <2>3, StayStep
  <1> QED
    BY <1>1, <1>2

(* Whatever the function, its grammar, size and depth: nothing follows a   *)
(* block the function was left from, so no exception edge, join or loop    *)
(* that is linked afterwards makes code run behind a return or a throw     *)
(* (lower.ts:2616-2628, lower.py:3101).                                    *)
THEOREM NothingFollowsLeaving == LowerSpec => []LeftStaysLeft
  <1>1. LowerInit => LowerInv
    BY LowerInitInv
  <1>2. LowerInv /\ [LowerNext]_lowerVars => LowerInv'
    BY LowerNextInv
  <1>3. LowerInv => LeftStaysLeft
    BY DEF LowerInv
  <1> QED
    BY <1>1, <1>2, <1>3, PTL DEF LowerSpec

-----------------------------------------------------------------------------
(* The graph is whole.                                                     *)
LEMMA LeadsOpened ==
  ASSUME LowerInv, Leads(blocks), NEW n \in Nat
  PROVE  /\ Leads(Opened(n)) /\ Opened(n) \in Seq(BlockType)
         /\ DOMAIN Opened(n) = 1 .. Len(blocks) + n
         /\ DOMAIN blocks \subseteq DOMAIN Opened(n)
<1>1. blocks \in Seq(BlockType)
  BY BlocksTyped
<1>2. /\ Opened(n) \in Seq(BlockType)
      /\ DOMAIN Opened(n) = 1 .. Len(blocks) + n
      /\ \A b \in DOMAIN blocks : b \in DOMAIN Opened(n) /\ Opened(n)[b] = blocks[b]
      /\ \A b \in DOMAIN Opened(n) \ DOMAIN blocks :
           Opened(n)[b] = [succ |-> {}, term |-> "none"]
  BY <1>1, OpenedIs
<1>3. \A b \in DOMAIN Opened(n) \ DOMAIN blocks : Opened(n)[b].succ = {}
  BY <1>2
<1> QED
  BY <1>2, <1>3 DEF Leads

LEMMA LeadsTerminated ==
  ASSUME NEW bs \in Seq(BlockType), NEW a \in DOMAIN bs, Leads(bs),
         NEW how \in {"none", "branch", "return", "throw"}
  PROVE  /\ Leads(Terminated(bs, a, how)) /\ Terminated(bs, a, how) \in Seq(BlockType)
         /\ DOMAIN Terminated(bs, a, how) = DOMAIN bs
<1>1. /\ Terminated(bs, a, how) \in Seq(BlockType)
      /\ DOMAIN Terminated(bs, a, how) = DOMAIN bs
      /\ \A b \in DOMAIN bs : Terminated(bs, a, how)[b].succ = bs[b].succ
      /\ \A b \in DOMAIN bs \ {a} : Terminated(bs, a, how)[b] = bs[b]
      /\ Terminated(bs, a, how)[a].term = how
  <2>1. bs \in Seq(BlockType)
    OBVIOUS
  <2>2. a \in DOMAIN bs
    OBVIOUS
  <2>3. how \in {"none", "branch", "return", "throw"}
    OBVIOUS
  <2> QED
    BY ONLY <2>1, <2>2, <2>3, TerminatedIs, Zenon
<1> QED
  BY <1>1 DEF Leads

LEMMA LeadsLinked ==
  ASSUME NEW bs \in Seq(BlockType), Leads(bs), NEW links \in SUBSET (Nat \X Nat),
         \A l \in links : l[2] \in DOMAIN bs
  PROVE  /\ Leads(Linked(bs, links)) /\ Linked(bs, links) \in Seq(BlockType)
         /\ DOMAIN Linked(bs, links) = DOMAIN bs
<1>1. Linked(bs, links) \in Seq(BlockType) /\ DOMAIN Linked(bs, links) = DOMAIN bs
  BY LinkedIs
<1>2. \A b \in DOMAIN bs : Linked(bs, links)[b].succ
                             = bs[b].succ \cup {l[2] : l \in {k \in links : k[1] = b}}
  BY DEF Linked
<1> QED
  BY <1>1, <1>2 DEF Leads

(* A step that opens n blocks, may end one in a branch, and links some.    *)
Builds(n) == DOMAIN blocks' = 1 .. Len(blocks) + n /\ Leads(blocks')

LEMMA LinkedBuilds ==
  ASSUME LowerInv, Leads(blocks), NEW n \in Nat, NEW links \in SUBSET (Nat \X Nat),
         \A l \in links : l[2] \in 1 .. Len(blocks) + n,
         \/ blocks' = Linked(Opened(n), links)
         \/ \E a \in 1 .. Len(blocks) + n : blocks' = Linked(Terminated(Opened(n), a, "branch"), links)
  PROVE  Builds(n)
<1>1. /\ Leads(Opened(n)) /\ Opened(n) \in Seq(BlockType)
      /\ DOMAIN Opened(n) = 1 .. Len(blocks) + n
  BY LeadsOpened
<1>2. CASE blocks' = Linked(Opened(n), links)
  BY <1>1, <1>2, LeadsLinked DEF Builds
<1>3. ASSUME NEW a \in 1 .. Len(blocks) + n,
             blocks' = Linked(Terminated(Opened(n), a, "branch"), links)
      PROVE  Builds(n)
  <2>1. /\ Leads(Terminated(Opened(n), a, "branch"))
        /\ Terminated(Opened(n), a, "branch") \in Seq(BlockType)
        /\ DOMAIN Terminated(Opened(n), a, "branch") = DOMAIN Opened(n)
    BY <1>1, LeadsTerminated
  <2> QED
    BY <1>1, <1>3, <2>1, LeadsLinked DEF Builds
<1> QED
  BY <1>2, <1>3

LEMMA EndedBuilds ==
  ASSUME LowerInv, Leads(blocks), NEW how \in {"return", "throw"},
         blocks' = Terminated(Opened(1), current, how)
  PROVE  Builds(1)
<1>1. /\ Leads(Opened(1)) /\ Opened(1) \in Seq(BlockType)
      /\ DOMAIN Opened(1) = 1 .. Len(blocks) + 1
      /\ current \in DOMAIN Opened(1)
  BY LeadsOpened, BlocksTyped
<1>2. how \in {"none", "branch", "return", "throw"}
  OBVIOUS
<1> QED
  BY <1>1, <1>2, LeadsTerminated DEF Builds

(* What a step reads, places, aims at and opens.                           *)
Reads == \/ stmts' = stmts
         \/ DOMAIN stmts' = DOMAIN stmts \cup {Id} /\ Id \in DOMAIN stmts' /\ ReadInOrder'

Places == \/ where' = where
          \/ \E e \in (DOMAIN stmts') \X {"call", "cond", "step"}, b \in DOMAIN blocks' :
               where' = [x \in DOMAIN where \cup {e} |-> IF x = e THEN b ELSE where[x]]

Targets == \/ targets' = targets \/ targets' = LoopPopped
           \/ \E c, b \in DOMAIN blocks' : targets' = ToLoop(c, b)

Opens == \/ open' = open \/ open' = Popped
         \/ \E f : open' = Pushed(f) /\ f.stmt \in DOMAIN stmts' /\ FrameFits(f, blocks')
         \/ \E f : open' = Turned(f) /\ f.stmt = Top.stmt /\ FrameFits(f, blocks')

LEMMA FitsLater ==
  ASSUME NEW f, FrameFits(f, blocks), DOMAIN blocks \subseteq DOMAIN blocks'
  PROVE  FrameFits(f, blocks')
  BY DEF FrameFits

LEMMA OpensFit ==
  ASSUME LowerInv, FramesFit, Opens, DOMAIN stmts \subseteq DOMAIN stmts',
         DOMAIN blocks \subseteq DOMAIN blocks'
  PROVE  FramesFit'
<1>1. PICK k \in Nat : open \in Seq(FrameType) /\ Len(open) = k + 1 /\ DOMAIN open = 1 .. k + 1
  BY OpenIs
<1>2. Top = open[k + 1]
  BY <1>1 DEF Top
<1>3. \A i \in 1 .. k + 1 : /\ FrameFits(open[i], blocks')
                            /\ i = 1 => open[i].stmt = 0
                            /\ i # 1 => open[i].stmt \in DOMAIN stmts'
  BY <1>1, FitsLater DEF FramesFit
<1>4. CASE open' = open
  BY <1>1, <1>3, <1>4 DEF FramesFit
<1>5. CASE open' = Popped
  <2>1. DOMAIN open' = 1 .. k /\ \A i \in 1 .. k : open'[i] = open[i]
    BY <1>1, <1>5 DEF Popped
  <2> QED
    BY <1>1, <1>3, <2>1 DEF FramesFit
<1>6. ASSUME NEW f, open' = Pushed(f), f.stmt \in DOMAIN stmts', FrameFits(f, blocks')
      PROVE  FramesFit'
  <2>1. /\ DOMAIN open' = 1 .. k + 2 /\ open'[k + 2] = f
        /\ \A i \in 1 .. k + 1 : open'[i] = open[i]
    BY <1>1, <1>6 DEF Pushed
  <2>2. \A i \in 1 .. k + 2 : i \in 1 .. k + 1 \/ (i = k + 2 /\ i # 1)
    BY <1>1
  <2> QED
    BY <1>3, <1>6, <2>1, <2>2 DEF FramesFit
<1>7. ASSUME NEW f, open' = Turned(f), f.stmt = Top.stmt, FrameFits(f, blocks')
      PROVE  FramesFit'
  <2>1. /\ DOMAIN open' = 1 .. k + 1 /\ open'[k + 1] = f
        /\ \A i \in 1 .. k + 1 : i # k + 1 => open'[i] = open[i]
    BY <1>1, <1>7 DEF Turned
  <2> QED
    BY <1>2, <1>3, <1>7, <2>1 DEF FramesFit
<1> QED
  BY <1>4, <1>5, <1>6, <1>7 DEF Opens

LEMMA TargetsAim ==
  ASSUME LowerInv, \A i \in DOMAIN targets : Aims(targets[i], blocks), Targets,
         DOMAIN blocks \subseteq DOMAIN blocks'
  PROVE  \A i \in DOMAIN targets' : Aims(targets'[i], blocks')
<1>1. /\ targets \in Seq(TargetType) /\ Len(targets) \in Nat
      /\ DOMAIN targets = 1 .. Len(targets)
  BY DEF LowerInv, LowerTypeOK
<1>2. \A i \in DOMAIN targets : Aims(targets[i], blocks')
  BY DEF Aims
<1>3. CASE targets' = targets
  BY <1>2, <1>3
<1>4. CASE targets' = LoopPopped
  <2>1. \A i \in DOMAIN targets' : i \in DOMAIN targets /\ targets'[i] = targets[i]
    <3>1. CASE targets = <<>>
      BY <1>4, <3>1 DEF LoopPopped
    <3>2. CASE targets # <<>>
      BY <1>1, <1>4, <3>2 DEF LoopPopped
    <3> QED
      BY <3>1, <3>2
  <2> QED
    BY <1>2, <2>1
<1>5. ASSUME NEW c \in DOMAIN blocks', NEW b \in DOMAIN blocks', targets' = ToLoop(c, b)
      PROVE  \A i \in DOMAIN targets' : Aims(targets'[i], blocks')
  <2>1. PICK t : t = [continueTo |-> c, breakTo |-> b, switchDepth |-> switchDepth]
    OBVIOUS
  <2>2. t.continueTo = c /\ t.breakTo = b /\ targets' = Append(targets, t)
    BY <1>5, <2>1 DEF ToLoop
  <2>3. \A i \in DOMAIN targets' : \/ i \in DOMAIN targets /\ targets'[i] = targets[i]
                                   \/ targets'[i] = t
    BY <1>1, <2>2
  <2>4. Aims(t, blocks')
    BY <1>5, <2>2 DEF Aims
  <2> QED
    BY <1>2, <2>3, <2>4
<1> QED
  BY <1>3, <1>4, <1>5 DEF Targets

LEMMA WholeStep ==
  ASSUME LowerInv, GraphIsWhole, NEW n \in Nat, Builds(n), Reads, Places, Targets, Opens
  PROVE  GraphIsWhole'
<1>1. DOMAIN blocks \subseteq DOMAIN blocks' /\ Leads(blocks')
  BY BlocksTyped DEF Builds
<1>2. DOMAIN stmts \subseteq DOMAIN stmts' /\ ReadInOrder'
  BY DEF Reads, ReadInOrder, GraphIsWhole
<1>3. PlacesExist'
  <2>1. /\ DOMAIN where \subseteq (DOMAIN stmts') \X {"call", "cond", "step"}
        /\ where \in [DOMAIN where -> DOMAIN blocks']
    BY <1>1, <1>2 DEF PlacesExist, GraphIsWhole
  <2>2. CASE where' = where
    BY <2>1, <2>2 DEF PlacesExist
  <2>3. ASSUME NEW e \in (DOMAIN stmts') \X {"call", "cond", "step"}, NEW b \in DOMAIN blocks',
               where' = [x \in DOMAIN where \cup {e} |-> IF x = e THEN b ELSE where[x]]
        PROVE  PlacesExist'
    BY <2>1, <2>3 DEF PlacesExist
  <2> QED
    BY <2>2, <2>3 DEF Places
<1>4. FramesFit' /\ \A i \in DOMAIN targets' : Aims(targets'[i], blocks')
  BY <1>1, <1>2, OpensFit, TargetsAim DEF GraphIsWhole
<1> QED
  BY <1>1, <1>2, <1>3, <1>4 DEF GraphIsWhole

LEMMA ReadReads ==
  ASSUME LowerInv, GraphIsWhole, NEW kind, NEW opt, Read(kind, opt)
  PROVE  Reads /\ Id \in DOMAIN stmts'
<1>1. stmts \in Seq(StmtType) /\ Len(stmts) \in Nat /\ DOMAIN stmts = 1 .. Len(stmts)
  BY DEF LowerInv, LowerTypeOK
<1>2. PICK k \in Nat : open \in Seq(FrameType) /\ Len(open) = k + 1 /\ DOMAIN open = 1 .. k + 1
  BY OpenIs
<1>3. Top.stmt \in 0 .. Len(stmts)
  BY <1>1, <1>2 DEF Top, FramesFit, GraphIsWhole
<1>4. PICK r : r = [kind |-> kind, parent |-> Top.stmt, arm |-> Top.arm, opt |-> opt]
  OBVIOUS
<1>5. stmts' = Append(stmts, r) /\ r.parent = Top.stmt
  BY <1>4 DEF Read
<1>6. /\ DOMAIN stmts' = 1 .. Len(stmts) + 1 /\ stmts'[Len(stmts) + 1] = r
      /\ \A i \in 1 .. Len(stmts) : stmts'[i] = stmts[i]
  BY <1>1, <1>5
<1>7. DOMAIN stmts' = DOMAIN stmts \cup {Id} /\ Id \in DOMAIN stmts'
  BY <1>1, <1>6 DEF Id
<1>8. \A i \in DOMAIN stmts' : stmts'[i].parent \in 0 .. i - 1
  BY <1>1, <1>3, <1>5, <1>6 DEF ReadInOrder, GraphIsWhole
<1> QED
  BY <1>7, <1>8 DEF Reads, ReadInOrder

LEMMA PlacedPlaces ==
  ASSUME NEW part \in {"call", "cond", "step"}, NEW b \in DOMAIN blocks'
  PROVE  /\ where' = Placed(part, b) /\ Id \in DOMAIN stmts' => Places
         /\ where' = Later(part, b) /\ Top.stmt \in DOMAIN stmts' => Places
<1>1. ASSUME where' = Placed(part, b), Id \in DOMAIN stmts' PROVE Places
  <2>1. <<Id, part>> \in (DOMAIN stmts') \X {"call", "cond", "step"}
    BY <1>1
  <2> QED
    BY <1>1, <2>1, Zenon DEF Places, Placed
<1>2. ASSUME where' = Later(part, b), Top.stmt \in DOMAIN stmts' PROVE Places
  <2>1. <<Top.stmt, part>> \in (DOMAIN stmts') \X {"call", "cond", "step"}
    BY <1>2
  <2> QED
    BY <1>2, <2>1, Zenon DEF Places, Later
<1> QED
  BY <1>1, <1>2

LEMMA BuildsOn ==
  ASSUME NEW n \in Nat, NEW bs \in Seq(BlockType), Leads(bs), DOMAIN bs = 1 .. Len(blocks) + n,
         NEW links \in SUBSET (Nat \X Nat), \A l \in links : l[2] \in DOMAIN bs,
         blocks' = Linked(bs, links)
  PROVE  Builds(n)
  BY LeadsLinked DEF Builds

LEMMA MoreBlocks ==
  ASSUME LowerInv, NEW n \in Nat, Builds(n)
  PROVE  DOMAIN blocks' = 1 .. Len(blocks) + n /\ DOMAIN blocks \subseteq DOMAIN blocks'
<1>1. Len(blocks) \in Nat /\ DOMAIN blocks = 1 .. Len(blocks)
  BY BlocksTyped
<1> QED
  BY <1>1 DEF Builds

LEMMA StaysBuilt ==
  ASSUME LowerInv, GraphIsWhole, blocks' = blocks
  PROVE  Builds(0)
<1>1. blocks \in Seq(BlockType) /\ DOMAIN blocks = 1 .. Len(blocks) /\ Len(blocks) \in Nat
  BY BlocksTyped
<1> QED
  BY <1>1 DEF Builds, GraphIsWhole

(* The innermost statement, and the one it becomes.                        *)
LEMMA TopFits ==
  ASSUME LowerInv, GraphIsWhole
  PROVE  /\ Top \in FrameType /\ FrameFits(Top, blocks)
         /\ Len(open) > 1 => Top.stmt \in DOMAIN stmts
<1>1. PICK k \in Nat : open \in Seq(FrameType) /\ Len(open) = k + 1 /\ DOMAIN open = 1 .. k + 1
  BY OpenIs
<1>2. Top = open[k + 1] /\ k + 1 \in DOMAIN open
  BY <1>1 DEF Top
<1> QED
  BY <1>1, <1>2 DEF FramesFit, GraphIsWhole

LEMMA TurnedOpens ==
  ASSUME LowerInv, GraphIsWhole, DOMAIN blocks \subseteq DOMAIN blocks',
         NEW arm, NEW ends \in SUBSET DOMAIN blocks', NEW after \in DOMAIN blocks',
         \/ open' = Turned([Top EXCEPT !.arm = arm])
         \/ open' = Turned([Top EXCEPT !.arm = arm, !.ends = ends])
         \/ open' = Turned([Top EXCEPT !.arm = arm, !.ends = ends, !.after = after])
  PROVE  Opens
<1>1. Top \in FrameType /\ FrameFits(Top, blocks)
  BY TopFits
<1>2. CASE open' = Turned([Top EXCEPT !.arm = arm])
  <2>1. PICK f : f = [Top EXCEPT !.arm = arm]
    OBVIOUS
  <2>2. /\ f.stmt = Top.stmt /\ f.head = Top.head /\ f.body = Top.body /\ f.next = Top.next
        /\ f.other = Top.other /\ f.after = Top.after /\ f.ends = Top.ends
    BY <1>1, <2>1 DEF FrameType
  <2>3. FrameFits(f, blocks')
    BY <1>1, <2>2 DEF FrameFits
  <2> QED
    BY <1>2, <2>1, <2>2, <2>3 DEF Opens
<1>3. CASE open' = Turned([Top EXCEPT !.arm = arm, !.ends = ends])
  <2>1. PICK f : f = [Top EXCEPT !.arm = arm, !.ends = ends]
    OBVIOUS
  <2>2. /\ f.stmt = Top.stmt /\ f.head = Top.head /\ f.body = Top.body /\ f.next = Top.next
        /\ f.other = Top.other /\ f.after = Top.after /\ f.ends = ends
    BY <1>1, <2>1 DEF FrameType
  <2>3. FrameFits(f, blocks')
    BY <1>1, <2>2 DEF FrameFits
  <2> QED
    BY <1>3, <2>1, <2>2, <2>3 DEF Opens
<1>4. CASE open' = Turned([Top EXCEPT !.arm = arm, !.ends = ends, !.after = after])
  <2>1. PICK f : f = [Top EXCEPT !.arm = arm, !.ends = ends, !.after = after]
    OBVIOUS
  <2>2. /\ f.stmt = Top.stmt /\ f.head = Top.head /\ f.body = Top.body /\ f.next = Top.next
        /\ f.other = Top.other /\ f.after = after /\ f.ends = ends
    BY <1>1, <2>1 DEF FrameType
  <2>3. FrameFits(f, blocks')
    BY <1>1, <2>2 DEF FrameFits
  <2> QED
    BY <1>4, <2>1, <2>2, <2>3 DEF Opens
<1> QED
  BY <1>2, <1>3, <1>4

LEMMA PushedOpens ==
  ASSUME NEW kind, NEW arm, Id \in DOMAIN stmts',
         NEW h \in (DOMAIN blocks') \cup {NoBlock}, NEW b \in (DOMAIN blocks') \cup {NoBlock},
         NEW k \in (DOMAIN blocks') \cup {NoBlock}, NEW o \in (DOMAIN blocks') \cup {NoBlock},
         NEW a \in (DOMAIN blocks') \cup {NoBlock},
         open' = Pushed(Frame(kind, arm, h, b, k, o, a))
  PROVE  Opens
<1>1. PICK f : f = Frame(kind, arm, h, b, k, o, a)
  OBVIOUS
<1>2. /\ f.stmt = Id /\ f.head = h /\ f.body = b /\ f.next = k /\ f.other = o
      /\ f.after = a /\ f.ends = {}
  BY <1>1 DEF Frame
<1>3. FrameFits(f, blocks')
  BY <1>2 DEF FrameFits
<1> QED
  BY <1>1, <1>2, <1>3 DEF Opens

-----------------------------------------------------------------------------
(* Statements that open nothing.                                           *)
LEMMA CallWhole ==
  ASSUME LowerInv, GraphIsWhole, Call
  PROVE  GraphIsWhole'
<1>1. /\ Read("call", {}) /\ where' = Placed("call", current)
      /\ blocks' = blocks /\ open' = open /\ targets' = targets
  BY DEF Call
<1>2. Builds(0) /\ Reads /\ Id \in DOMAIN stmts' /\ current \in DOMAIN blocks'
  BY <1>1, StaysBuilt, ReadReads, CurrentIs
<1>3. Places
  BY <1>1, <1>2, PlacedPlaces
<1> QED
  BY <1>1, <1>2, <1>3, WholeStep DEF Targets, Opens

LEMMA ReturnWhole ==
  ASSUME LowerInv, GraphIsWhole, Return
  PROVE  GraphIsWhole'
<1>1. /\ Read("return", {}) /\ where' = where
      /\ blocks' = Terminated(Opened(1), current, "return")
      /\ open' = open /\ targets' = targets
  BY DEF Return
<1>2. Builds(1) /\ Reads
  BY <1>1, EndedBuilds, ReadReads DEF GraphIsWhole
<1> QED
  BY <1>1, <1>2, WholeStep DEF Targets, Opens, Places

LEMMA ThrowWhole ==
  ASSUME LowerInv, GraphIsWhole, Throw
  PROVE  GraphIsWhole'
<1>1. /\ Read("throw", {}) /\ where' = where
      /\ blocks' = Terminated(Opened(1), current, "throw")
      /\ open' = open /\ targets' = targets
  BY DEF Throw
<1>2. Builds(1) /\ Reads
  BY <1>1, EndedBuilds, ReadReads DEF GraphIsWhole
<1> QED
  BY <1>1, <1>2, WholeStep DEF Targets, Opens, Places

LEMMA JumpedWhole ==
  ASSUME LowerInv, GraphIsWhole, NEW kind, Read(kind, {}), NEW to \in DOMAIN blocks,
         blocks' = Linked(Opened(1), {<<current, to>>}),
         where' = where, open' = open, targets' = targets
  PROVE  GraphIsWhole'
<1>1. PICK links : links = {<<current, to>>}
  OBVIOUS
<1>2. links \in SUBSET (Nat \X Nat) /\ \A l \in links : l[2] \in 1 .. Len(blocks) + 1
  BY <1>1, BlocksTyped
<1>3. Builds(1) /\ Reads
  BY <1>1, <1>2, LinkedBuilds, ReadReads DEF GraphIsWhole
<1> QED
  BY <1>3, WholeStep DEF Targets, Opens, Places

LEMMA LastAims ==
  ASSUME LowerInv, GraphIsWhole, targets # <<>>
  PROVE  /\ targets[Len(targets)].continueTo \in DOMAIN blocks
         /\ targets[Len(targets)].breakTo \in DOMAIN blocks
<1>1. targets \in Seq(TargetType)
  BY OthersTyped
<1>2. Len(targets) \in DOMAIN targets
  BY <1>1
<1> QED
  BY <1>2 DEF GraphIsWhole, Aims

LEMMA BreakWhole ==
  ASSUME LowerInv, GraphIsWhole, Break
  PROVE  GraphIsWhole'
<1>1. Read("break", {}) /\ where' = where /\ open' = open /\ targets' = targets
  BY DEF Break
<1>2. CASE targets # <<>> /\ targets[Len(targets)].switchDepth = switchDepth
  <2>1. blocks' = Linked(Opened(1), {<<current, targets[Len(targets)].breakTo>>})
    BY <1>2 DEF Break
  <2> QED
    BY <1>1, <1>2, <2>1, LastAims, JumpedWhole
<1>3. CASE ~ (targets # <<>> /\ targets[Len(targets)].switchDepth = switchDepth)
  <2>1. blocks' = blocks
    BY <1>3 DEF Break
  <2>2. Builds(0) /\ Reads
    BY <1>1, <2>1, StaysBuilt, ReadReads
  <2> QED
    BY <1>1, <2>2, WholeStep DEF Targets, Opens, Places
<1> QED
  BY <1>2, <1>3

LEMMA ContinueWhole ==
  ASSUME LowerInv, GraphIsWhole, Continue
  PROVE  GraphIsWhole'
<1>1. /\ Read("continue", {}) /\ where' = where /\ open' = open /\ targets' = targets
      /\ targets # <<>>
      /\ blocks' = Linked(Opened(1), {<<current, targets[Len(targets)].continueTo>>})
  BY DEF Continue
<1> QED
  BY <1>1, LastAims, JumpedWhole

(* What neither reads nor links.                                           *)
LEMMA QuietWhole ==
  ASSUME LowerInv, GraphIsWhole, stmts' = stmts, where' = where, blocks' = blocks,
         targets' = targets, Opens
  PROVE  GraphIsWhole'
<1>1. Builds(0)
  BY StaysBuilt
<1> QED
  BY <1>1, WholeStep DEF Targets, Places, Reads

LEMMA EndFunctionWhole ==
  ASSUME LowerInv, GraphIsWhole, EndFunction
  PROVE  GraphIsWhole'
<1>1. /\ stmts' = stmts /\ where' = where /\ blocks' = blocks /\ targets' = targets
      /\ open' = open
  BY DEF EndFunction, text, graph
<1> QED
  BY <1>1, QuietWhole DEF Opens

-----------------------------------------------------------------------------
(* if, switch and try.                                                     *)
LEMMA IfWhole ==
  ASSUME LowerInv, GraphIsWhole, If
  PROVE  GraphIsWhole'
<1>1. /\ Read("if", {}) /\ where' = Placed("cond", current) /\ targets' = targets
      /\ blocks' = Linked(Terminated(Opened(1), current, "branch"), {<<current, Fresh(1)>>})
      /\ open' = Pushed(Frame("if", "then", current, NoBlock, NoBlock, NoBlock, NoBlock))
  BY DEF If, Enters
<1>2. PICK links : links = {<<current, Fresh(1)>>}
  OBVIOUS
<1>3. /\ current \in 1 .. Len(blocks) + 1 /\ links \in SUBSET (Nat \X Nat)
      /\ \A l \in links : l[2] \in 1 .. Len(blocks) + 1
  BY <1>2, BlocksTyped DEF Fresh
<1>4. Builds(1)
  BY <1>1, <1>2, <1>3, LinkedBuilds DEF GraphIsWhole
<1>5. Reads /\ Id \in DOMAIN stmts' /\ current \in DOMAIN blocks'
  BY <1>1, <1>3, <1>4, ReadReads DEF Builds
<1>6. Places /\ Opens
  BY <1>1, <1>5, PlacedPlaces, PushedOpens
<1> QED
  BY <1>1, <1>4, <1>5, <1>6, WholeStep DEF Targets

LEMMA SwitchWhole ==
  ASSUME LowerInv, GraphIsWhole, Switch
  PROVE  GraphIsWhole'
<1>1. /\ Read("switch", {}) /\ where' = Placed("cond", current) /\ targets' = targets
      /\ blocks' = blocks
      /\ open' = Pushed(Frame("switch", "case", NoBlock, NoBlock, NoBlock, NoBlock, NoBlock))
  BY DEF Switch, Enters
<1>2. Builds(0) /\ Reads /\ Id \in DOMAIN stmts' /\ current \in DOMAIN blocks'
  BY <1>1, StaysBuilt, ReadReads, CurrentIs
<1>3. Places /\ Opens
  BY <1>1, <1>2, PlacedPlaces, PushedOpens
<1> QED
  BY <1>1, <1>2, <1>3, WholeStep DEF Targets

LEMMA ArmsWhole ==
  ASSUME LowerInv, GraphIsWhole, NextCase \/ TryElse
  PROVE  GraphIsWhole'
<1>1. PICK arm : /\ stmts' = stmts /\ where' = where /\ blocks' = blocks /\ targets' = targets
                 /\ open' = Turned([Top EXCEPT !.arm = arm])
  BY DEF NextCase, TryElse, text, graph
<1>2. Opens
  BY <1>1, CurrentIs, TurnedOpens
<1> QED
  BY <1>1, <1>2, QuietWhole

LEMMA EndSwitchWhole ==
  ASSUME LowerInv, GraphIsWhole, EndSwitch
  PROVE  GraphIsWhole'
<1>1. /\ stmts' = stmts /\ where' = where /\ blocks' = blocks /\ targets' = targets
      /\ open' = Popped
  BY DEF EndSwitch, text, graph
<1> QED
  BY <1>1, QuietWhole DEF Opens

(* What ends or turns an arm links blocks there already to one that is     *)
(* opened.                                                                 *)
LEMMA JoinedWhole ==
  ASSUME LowerInv, GraphIsWhole, NEW n \in {1, 2}, NEW E \in SUBSET DOMAIN blocks,
         blocks' = Linked(Opened(n), E \X {Fresh(n)}),
         stmts' = stmts, where' = where, targets' = targets,
         DOMAIN blocks \subseteq DOMAIN blocks' /\ DOMAIN blocks' = 1 .. Len(blocks) + n => Opens
  PROVE  GraphIsWhole'
<1>1. PICK links : links = E \X {Fresh(n)}
  OBVIOUS
<1>2. Len(blocks) \in Nat /\ DOMAIN blocks = 1 .. Len(blocks)
  BY BlocksTyped
<1>3. Fresh(n) \in Nat /\ Fresh(n) \in 1 .. Len(blocks) + n
  BY <1>2 DEF Fresh
<1>4. links \in SUBSET (Nat \X Nat) /\ \A l \in links : l[2] \in 1 .. Len(blocks) + n
  BY <1>1, <1>2, <1>3
<1>5. Builds(n)
  BY <1>1, <1>4, LinkedBuilds DEF GraphIsWhole
<1>6. n \in Nat
  OBVIOUS
<1>7. DOMAIN blocks' = 1 .. Len(blocks) + n /\ DOMAIN blocks \subseteq DOMAIN blocks'
  BY ONLY LowerInv, <1>5, <1>6, MoreBlocks, Zenon
<1>8. Opens
  BY <1>7
<1> QED
  BY <1>5, <1>6, <1>8, WholeStep DEF Targets, Places, Reads

LEMMA ElseWhole ==
  ASSUME LowerInv, GraphIsWhole, Else \/ Catch
  PROVE  GraphIsWhole'
<1>1. PICK arm :
        /\ Top.kind \in {"if", "try"} /\ (Top.kind = "try" => Top.arm # "finally")
        /\ blocks' = Linked(Opened(1), {<<Top.head, Fresh(1)>>})
        /\ stmts' = stmts /\ where' = where /\ targets' = targets
        /\ open' = Turned([Top EXCEPT !.arm = arm, !.ends = {current}])
  BY DEF Else, Catch, Ends, text
<1>2. Top.head \in DOMAIN blocks
  BY <1>1, TopHolds DEF Held
<1>3. PICK E : E = {Top.head}
  OBVIOUS
<1>4. {<<Top.head, Fresh(1)>>} = E \X {Fresh(1)}
  BY <1>3
<1>5. ASSUME DOMAIN blocks \subseteq DOMAIN blocks' PROVE Opens
  <2>1. {current} \in SUBSET DOMAIN blocks' /\ current \in DOMAIN blocks'
    BY <1>5, CurrentIs
  <2> QED
    BY <1>1, <1>5, <2>1, TurnedOpens
<1>6. /\ E \in SUBSET DOMAIN blocks /\ 1 \in {1, 2}
      /\ blocks' = Linked(Opened(1), E \X {Fresh(1)})
  BY <1>1, <1>2, <1>3, <1>4
<1> QED
  BY <1>1, <1>5, <1>6, JoinedWhole

LEMMA EndArmsWhole ==
  ASSUME LowerInv, GraphIsWhole, EndIf \/ EndTry
  PROVE  GraphIsWhole'
<1>1. PICK E : /\ E \subseteq Top.ends \cup {current} \cup (IF Top.kind = "if" THEN {Top.head} ELSE {})
               /\ Top.kind \in {"if", "try"}
               /\ blocks' = Linked(Opened(1), E \X {Fresh(1)})
               /\ stmts' = stmts /\ where' = where /\ targets' = targets /\ open' = Popped
  <2>1. CASE EndIf
    <3>1. PICK E : E = {e \in Top.ends \cup {current} : ~ LeavesIt(e)}
                         \cup (IF Top.arm = "then" THEN {Top.head} ELSE {})
      OBVIOUS
    <3>2. /\ Top.kind = "if" /\ blocks' = Linked(Opened(1), E \X {Fresh(1)})
          /\ stmts' = stmts /\ where' = where /\ targets' = targets /\ open' = Popped
      BY <2>1, <3>1 DEF EndIf, Ends, text
    <3> QED
      BY <3>1, <3>2
  <2>2. CASE EndTry
    BY <2>2 DEF EndTry, Ends, text
  <2> QED
    BY <2>1, <2>2
<1>2. E \in SUBSET DOMAIN blocks
  BY <1>1, TopHolds, CurrentIs DEF Held
<1> QED
  BY <1>1, <1>2, JoinedWhole DEF Opens

LEMMA FinallyWhole ==
  ASSUME LowerInv, GraphIsWhole, Finally
  PROVE  GraphIsWhole'
<1>1. PICK E, a :
        /\ E = Top.ends \cup {current} /\ a = Fresh(1) /\ Top.kind = "try" /\ Top.arm # "finally"
        /\ blocks' = Linked(Opened(2), E \X {Fresh(2)})
        /\ stmts' = stmts /\ where' = where /\ targets' = targets
        /\ open' = Turned([Top EXCEPT !.arm = "finally", !.ends = {}, !.after = a])
  BY DEF Finally, Ends, text
<1>2. E \in SUBSET DOMAIN blocks
  BY <1>1, TopHolds, CurrentIs DEF Held
<1>3. ASSUME DOMAIN blocks \subseteq DOMAIN blocks', DOMAIN blocks' = 1 .. Len(blocks) + 2
      PROVE  Opens
  <2>1. {} \in SUBSET DOMAIN blocks' /\ a \in DOMAIN blocks'
    BY <1>1, <1>3, BlocksTyped DEF Fresh
  <2> QED
    BY <1>1, <1>3, <2>1, TurnedOpens
<1> QED
  BY <1>1, <1>2, <1>3, JoinedWhole

LEMMA TryWhole ==
  ASSUME LowerInv, GraphIsWhole, Try
  PROVE  GraphIsWhole'
<1>1. PICK r, b :
        /\ r = Fresh(1) /\ b = Fresh(2) /\ Read("try", {})
        /\ blocks' = Linked(Opened(2), {<<current, r>>, <<r, b>>})
        /\ where' = where /\ targets' = targets
        /\ open' = Pushed(Frame("try", "try", r, b, NoBlock, NoBlock, NoBlock))
  BY DEF Try, Enters
<1>2. PICK links : links = {<<current, r>>, <<r, b>>}
  OBVIOUS
<1>3. /\ r \in 1 .. Len(blocks) + 2 /\ b \in 1 .. Len(blocks) + 2
      /\ links \in SUBSET (Nat \X Nat) /\ \A l \in links : l[2] \in 1 .. Len(blocks) + 2
  BY <1>1, <1>2, BlocksTyped DEF Fresh
<1>4. Builds(2)
  BY <1>1, <1>2, <1>3, LinkedBuilds DEF GraphIsWhole
<1>5. Reads /\ Id \in DOMAIN stmts' /\ r \in DOMAIN blocks' /\ b \in DOMAIN blocks'
  BY <1>1, <1>3, <1>4, ReadReads DEF Builds
<1>6. Opens
  BY <1>1, <1>5, PushedOpens
<1> QED
  BY <1>1, <1>4, <1>5, <1>6, WholeStep DEF Targets, Places

-----------------------------------------------------------------------------
(* The loops.                                                              *)
LEMMA FreshReach ==
  ASSUME LowerInv, NEW n \in {3, 4}
  PROVE  /\ Fresh(1) \in 1 .. Len(blocks) + n
         /\ Fresh(2) \in 1 .. Len(blocks) + n
         /\ Fresh(3) \in 1 .. Len(blocks) + n
         /\ (n = 4 => Fresh(4) \in 1 .. Len(blocks) + n)
         /\ current \in 1 .. Len(blocks) + n
         /\ 1 .. Len(blocks) + n \subseteq Nat
<1>1. Len(blocks) \in Nat /\ DOMAIN blocks = 1 .. Len(blocks) /\ current \in DOMAIN blocks
  BY BlocksTyped
<1>2. PICK m \in Nat : m = Len(blocks)
  BY <1>1
<1>3. /\ m + 1 \in 1 .. m + n /\ m + 2 \in 1 .. m + n /\ m + 3 \in 1 .. m + n
      /\ (n = 4 => m + 4 \in 1 .. m + n)
  OBVIOUS
<1>4. current \in 1 .. m + n
  BY <1>1, <1>2
<1>5. 1 .. m + n \subseteq Nat
  OBVIOUS
<1> QED
  BY <1>2, <1>3, <1>4, <1>5 DEF Fresh

LEMMA OneMore ==
  Cardinality({}) = 0 /\ Cardinality({"else"}) = 1 /\ Cardinality({"step"}) = 1
  BY FS_EmptySet, FS_Singleton

LEMMA WhileWhole ==
  ASSUME LowerInv, GraphIsWhole, While
  PROVE  GraphIsWhole'
<1>0. PICK orelse \in {{}, {"else"}} :
        LET header == Fresh(1)   body == Fresh(2)   after == Fresh(3)
            other  == IF orelse = {} THEN after ELSE Fresh(4)
        IN  /\ Read("while", orelse)
            /\ where' = Placed("cond", header)
            /\ blocks' = Linked(Terminated(Opened(3 + Cardinality(orelse)), header, "branch"),
                                {<<current, header>>, <<header, body>>, <<header, other>>})
            /\ open' = Pushed(Frame("while", "body", header, body, header, other, after))
            /\ targets' = ToLoop(header, after)
  BY DEF While, Enters
<1>1. PICK h, b, a, o, n :
        /\ h = Fresh(1) /\ b = Fresh(2) /\ a = Fresh(3)
        /\ o = IF orelse = {} THEN a ELSE Fresh(4)
        /\ n = 3 + Cardinality(orelse)
        /\ Read("while", orelse) /\ where' = Placed("cond", h)
        /\ blocks' = Linked(Terminated(Opened(n), h, "branch"),
                            {<<current, h>>, <<h, b>>, <<h, o>>})
        /\ open' = Pushed(Frame("while", "body", h, b, h, o, a))
        /\ targets' = ToLoop(h, a)
  BY <1>0
<1>2. /\ n \in {3, 4} /\ h \in 1 .. Len(blocks) + n /\ b \in 1 .. Len(blocks) + n
      /\ a \in 1 .. Len(blocks) + n /\ o \in 1 .. Len(blocks) + n
      /\ current \in 1 .. Len(blocks) + n
  <2>0. orelse \in {{}, {"else"}} /\ n = 3 + Cardinality(orelse)
    BY <1>1
  <2>1. n \in {3, 4} /\ (n = 3 <=> orelse = {}) /\ (n = 4 <=> orelse # {})
    <3>1. CASE orelse = {}
      BY <2>0, <3>1, OneMore
    <3>2. CASE orelse = {"else"}
      BY <2>0, <3>2, OneMore
    <3> QED
      BY <2>0, <3>1, <3>2
  <2>2. /\ Fresh(1) \in 1 .. Len(blocks) + n
        /\ Fresh(2) \in 1 .. Len(blocks) + n
        /\ Fresh(3) \in 1 .. Len(blocks) + n
        /\ (n = 4 => Fresh(4) \in 1 .. Len(blocks) + n)
        /\ current \in 1 .. Len(blocks) + n
    BY <2>1, FreshReach
  <2> QED
    BY <1>1, <2>1, <2>2
<1>3. PICK links : links = {<<current, h>>, <<h, b>>, <<h, o>>}
  OBVIOUS
<1>4. links \in SUBSET (Nat \X Nat) /\ \A l \in links : l[2] \in 1 .. Len(blocks) + n
  <2> DEFINE Reach == 1 .. Len(blocks) + n
  <2>1. current \in Reach /\ h \in Reach /\ b \in Reach /\ o \in Reach
    BY <1>2
  <2>2. links \subseteq Reach \X Reach
    <3> HIDE DEF Reach
    <3> QED BY <2>1, <1>3
  <2>3. Reach \subseteq Nat
    BY <1>2, FreshReach
  <2> QED BY <2>2, <2>3
<1>5. \E q \in 1 .. Len(blocks) + n : blocks' = Linked(Terminated(Opened(n), q, "branch"), links)
  BY <1>1, <1>2, <1>3
<1>6. Builds(n)
  BY <1>2, <1>4, <1>5, LinkedBuilds DEF GraphIsWhole
<1>7. /\ Reads /\ Id \in DOMAIN stmts' /\ h \in DOMAIN blocks' /\ b \in DOMAIN blocks'
      /\ a \in DOMAIN blocks' /\ o \in DOMAIN blocks'
  BY <1>1, <1>2, <1>6, ReadReads DEF Builds
<1>8. Places
  BY <1>1, <1>7, PlacedPlaces
<1>9. Opens
  <2>1. open' = Pushed(Frame("while", "body", h, b, h, o, a)) /\ Id \in DOMAIN stmts'
    BY <1>1, <1>7
  <2>2. /\ a \in (DOMAIN blocks') \cup {NoBlock}
        /\ b \in (DOMAIN blocks') \cup {NoBlock}
        /\ h \in (DOMAIN blocks') \cup {NoBlock}
        /\ o \in (DOMAIN blocks') \cup {NoBlock}
    BY <1>7
  <2> QED
    BY ONLY <2>1, <2>2, PushedOpens
<1>10. Targets
  BY <1>1, <1>7 DEF Targets
<1>11. n \in Nat
  BY <1>2
<1> QED
  BY <1>6, <1>7, <1>8, <1>9, <1>10, <1>11, WholeStep

LEMMA ForWhole ==
  ASSUME LowerInv, GraphIsWhole, For
  PROVE  GraphIsWhole'
<1>0. PICK orelse \in {{}, {"else"}}, sure \in {{}, {"sure"}} :
        LET body  == Fresh(1)   after == Fresh(2)   ask == Fresh(3)
            other == IF orelse = {} THEN after ELSE Fresh(4)
            head  == IF sure = {} THEN ask ELSE body
        IN  /\ Read("for", orelse \cup sure)
            /\ where' = where
            /\ blocks' = Linked(Terminated(Opened(3 + Cardinality(orelse)), ask, "branch"),
                                {<<current, head>>, <<ask, body>>, <<ask, other>>})
            /\ open' = Pushed(Frame("for", "body", head, body, ask, other, after))
            /\ targets' = ToLoop(ask, after)
  BY DEF For, Enters
<1>1. PICK h, b, a, k, o, n :
        /\ b = Fresh(1) /\ a = Fresh(2) /\ k = Fresh(3)
        /\ o = IF orelse = {} THEN a ELSE Fresh(4)
        /\ h = IF sure = {} THEN k ELSE b
        /\ n = 3 + Cardinality(orelse)
        /\ Read("for", orelse \cup sure) /\ where' = where
        /\ blocks' = Linked(Terminated(Opened(n), k, "branch"),
                            {<<current, h>>, <<k, b>>, <<k, o>>})
        /\ open' = Pushed(Frame("for", "body", h, b, k, o, a))
        /\ targets' = ToLoop(k, a)
  BY <1>0
<1>2. /\ n \in {3, 4} /\ h \in 1 .. Len(blocks) + n /\ b \in 1 .. Len(blocks) + n
      /\ k \in 1 .. Len(blocks) + n
      /\ a \in 1 .. Len(blocks) + n /\ o \in 1 .. Len(blocks) + n
      /\ current \in 1 .. Len(blocks) + n
  <2>0. orelse \in {{}, {"else"}} /\ n = 3 + Cardinality(orelse)
    BY <1>1
  <2>1. n \in {3, 4} /\ (n = 3 <=> orelse = {}) /\ (n = 4 <=> orelse # {})
    <3>1. CASE orelse = {}
      BY <2>0, <3>1, OneMore
    <3>2. CASE orelse = {"else"}
      BY <2>0, <3>2, OneMore
    <3> QED
      BY <2>0, <3>1, <3>2
  <2>2. /\ Fresh(1) \in 1 .. Len(blocks) + n
        /\ Fresh(2) \in 1 .. Len(blocks) + n
        /\ Fresh(3) \in 1 .. Len(blocks) + n
        /\ (n = 4 => Fresh(4) \in 1 .. Len(blocks) + n)
        /\ current \in 1 .. Len(blocks) + n
    BY <2>1, FreshReach
  <2> QED
    BY <1>1, <2>1, <2>2
<1>3. PICK links : links = {<<current, h>>, <<k, b>>, <<k, o>>}
  OBVIOUS
<1>4. links \in SUBSET (Nat \X Nat) /\ \A l \in links : l[2] \in 1 .. Len(blocks) + n
  <2> DEFINE Reach == 1 .. Len(blocks) + n
  <2>1. current \in Reach /\ h \in Reach /\ k \in Reach /\ b \in Reach /\ o \in Reach
    BY <1>2
  <2>2. links \subseteq Reach \X Reach
    <3> HIDE DEF Reach
    <3> QED BY <2>1, <1>3
  <2>3. Reach \subseteq Nat
    BY <1>2, FreshReach
  <2> QED BY <2>2, <2>3
<1>5. \E q \in 1 .. Len(blocks) + n : blocks' = Linked(Terminated(Opened(n), q, "branch"), links)
  BY <1>1, <1>2, <1>3
<1>6. Builds(n)
  BY <1>2, <1>4, <1>5, LinkedBuilds DEF GraphIsWhole
<1>7. /\ Reads /\ Id \in DOMAIN stmts' /\ h \in DOMAIN blocks' /\ b \in DOMAIN blocks'
      /\ k \in DOMAIN blocks' /\ a \in DOMAIN blocks' /\ o \in DOMAIN blocks'
  BY <1>1, <1>2, <1>6, ReadReads DEF Builds
<1>8. Places
  BY <1>1 DEF Places
<1>9. Opens
  <2>1. open' = Pushed(Frame("for", "body", h, b, k, o, a)) /\ Id \in DOMAIN stmts'
    BY <1>1, <1>7
  <2>2. /\ a \in (DOMAIN blocks') \cup {NoBlock}
        /\ b \in (DOMAIN blocks') \cup {NoBlock}
        /\ h \in (DOMAIN blocks') \cup {NoBlock}
        /\ k \in (DOMAIN blocks') \cup {NoBlock}
        /\ o \in (DOMAIN blocks') \cup {NoBlock}
    BY <1>7
  <2> QED
    BY ONLY <2>1, <2>2, PushedOpens
<1>10. Targets
  BY <1>1, <1>7 DEF Targets
<1>11. n \in Nat
  BY <1>2
<1> QED
  BY <1>6, <1>7, <1>8, <1>9, <1>10, <1>11, WholeStep

LEMMA CForWhole ==
  ASSUME LowerInv, GraphIsWhole, CFor
  PROVE  GraphIsWhole'
<1>0. PICK cond \in {{}, {"cond"}}, step \in {{}, {"step"}} :
        LET header == Fresh(1)   body == Fresh(2)   after == Fresh(3)
            next   == IF step = {} THEN header ELSE Fresh(4)
            built  == Opened(3 + Cardinality(step))
        IN  /\ Read("cfor", cond \cup step)
            /\ where' = IF cond = {} THEN where ELSE Placed("cond", header)
            /\ blocks' = IF cond = {}
                         THEN Linked(built, {<<current, header>>, <<header, body>>})
                         ELSE Linked(Terminated(built, header, "branch"),
                                     {<<current, header>>, <<header, body>>, <<header, after>>})
            /\ open' = Pushed(Frame("cfor", "body", header, body, next, NoBlock, after))
            /\ targets' = ToLoop(next, after)
  BY DEF CFor, Enters
<1>1. PICK h, b, a, k, n :
        /\ h = Fresh(1) /\ b = Fresh(2) /\ a = Fresh(3)
        /\ k = IF step = {} THEN h ELSE Fresh(4)
        /\ n = 3 + Cardinality(step)
        /\ Read("cfor", cond \cup step) /\ where' = IF cond = {} THEN where ELSE Placed("cond", h)
        /\ blocks' = IF cond = {}
                     THEN Linked(Opened(n), {<<current, h>>, <<h, b>>})
                     ELSE Linked(Terminated(Opened(n), h, "branch"),
                                 {<<current, h>>, <<h, b>>, <<h, a>>})
        /\ open' = Pushed(Frame("cfor", "body", h, b, k, NoBlock, a))
        /\ targets' = ToLoop(k, a)
  BY <1>0
<1>2. /\ n \in {3, 4} /\ h \in 1 .. Len(blocks) + n /\ b \in 1 .. Len(blocks) + n
      /\ k \in 1 .. Len(blocks) + n /\ a \in 1 .. Len(blocks) + n
      /\ current \in 1 .. Len(blocks) + n
  <2>0. step \in {{}, {"step"}} /\ n = 3 + Cardinality(step)
    BY <1>1
  <2>1. n \in {3, 4} /\ (n = 3 <=> step = {}) /\ (n = 4 <=> step # {})
    <3>1. CASE step = {}
      BY <2>0, <3>1, OneMore
    <3>2. CASE step = {"step"}
      BY <2>0, <3>2, OneMore
    <3> QED
      BY <2>0, <3>1, <3>2
  <2>2. /\ Fresh(1) \in 1 .. Len(blocks) + n
        /\ Fresh(2) \in 1 .. Len(blocks) + n
        /\ Fresh(3) \in 1 .. Len(blocks) + n
        /\ (n = 4 => Fresh(4) \in 1 .. Len(blocks) + n)
        /\ current \in 1 .. Len(blocks) + n
    BY <2>1, FreshReach
  <2> QED
    BY <1>1, <2>1, <2>2
<1>3. PICK links :
        links = IF cond = {} THEN {<<current, h>>, <<h, b>>} ELSE {<<current, h>>, <<h, b>>, <<h, a>>}
  OBVIOUS
<1>4. links \in SUBSET (Nat \X Nat) /\ \A l \in links : l[2] \in 1 .. Len(blocks) + n
  <2> DEFINE Reach == 1 .. Len(blocks) + n
  <2>1. current \in Reach /\ h \in Reach /\ b \in Reach /\ a \in Reach
    BY <1>2
  <2>2. links \subseteq {<<current, h>>, <<h, b>>, <<h, a>>}
    BY <1>3
  <2>3. links \subseteq Reach \X Reach
    <3> HIDE DEF Reach
    <3> QED BY <2>1, <2>2
  <2>4. Reach \subseteq Nat
    BY <1>2, FreshReach
  <2> QED BY <2>3, <2>4
<1>5. \/ blocks' = Linked(Opened(n), links)
      \/ \E q \in 1 .. Len(blocks) + n : blocks' = Linked(Terminated(Opened(n), q, "branch"), links)
  BY <1>1, <1>2, <1>3
<1>6. Builds(n)
  BY <1>2, <1>4, <1>5, LinkedBuilds DEF GraphIsWhole
<1>7. /\ Reads /\ Id \in DOMAIN stmts' /\ h \in DOMAIN blocks' /\ b \in DOMAIN blocks'
      /\ k \in DOMAIN blocks' /\ a \in DOMAIN blocks'
  BY <1>1, <1>2, <1>6, ReadReads DEF Builds
<1>8. Places
  <2>1. CASE where' = where
    BY <2>1 DEF Places
  <2>2. CASE where' = Placed("cond", h)
    BY <1>7, <2>2, PlacedPlaces
  <2> QED
    BY <1>1, <2>1, <2>2
<1>9. Opens
  <2>1. open' = Pushed(Frame("cfor", "body", h, b, k, NoBlock, a)) /\ Id \in DOMAIN stmts'
    BY <1>1, <1>7
  <2>2. /\ NoBlock \in (DOMAIN blocks') \cup {NoBlock}
        /\ a \in (DOMAIN blocks') \cup {NoBlock}
        /\ b \in (DOMAIN blocks') \cup {NoBlock}
        /\ h \in (DOMAIN blocks') \cup {NoBlock}
        /\ k \in (DOMAIN blocks') \cup {NoBlock}
    BY <1>7
  <2> QED
    BY ONLY <2>1, <2>2, PushedOpens
<1>10. Targets
  BY <1>1, <1>7 DEF Targets
<1>11. n \in Nat
  BY <1>2
<1> QED
  BY <1>6, <1>7, <1>8, <1>9, <1>10, <1>11, WholeStep

LEMMA DoWhole ==
  ASSUME LowerInv, GraphIsWhole, Do
  PROVE  GraphIsWhole'
<1>1. PICK h, b, k, a, n :
        /\ h = Fresh(1) /\ b = Fresh(2) /\ k = Fresh(3) /\ a = Fresh(4) /\ n = 4
        /\ Read("do", {}) /\ where' = where
        /\ blocks' = Linked(Opened(n), {<<current, h>>, <<h, b>>})
        /\ open' = Pushed(Frame("do", "body", h, b, k, NoBlock, a))
        /\ targets' = ToLoop(k, a)
  BY DEF Do, Enters
<1>2. /\ n \in {3, 4} /\ h \in 1 .. Len(blocks) + n /\ b \in 1 .. Len(blocks) + n
      /\ k \in 1 .. Len(blocks) + n /\ a \in 1 .. Len(blocks) + n
      /\ current \in 1 .. Len(blocks) + n
  <2>1. n \in {3, 4} /\ n = 4
    BY <1>1
  <2>2. /\ Fresh(1) \in 1 .. Len(blocks) + n
        /\ Fresh(2) \in 1 .. Len(blocks) + n
        /\ Fresh(3) \in 1 .. Len(blocks) + n
        /\ (n = 4 => Fresh(4) \in 1 .. Len(blocks) + n)
        /\ current \in 1 .. Len(blocks) + n
    BY <2>1, FreshReach
  <2> QED
    BY <1>1, <2>1, <2>2
<1>3. PICK links : links = {<<current, h>>, <<h, b>>}
  OBVIOUS
<1>4. links \in SUBSET (Nat \X Nat) /\ \A l \in links : l[2] \in 1 .. Len(blocks) + n
  <2> DEFINE Reach == 1 .. Len(blocks) + n
  <2>1. current \in Reach /\ h \in Reach /\ b \in Reach
    BY <1>2
  <2>2. links \subseteq Reach \X Reach
    <3> HIDE DEF Reach
    <3> QED BY <2>1, <1>3
  <2>3. Reach \subseteq Nat
    BY <1>2, FreshReach
  <2> QED BY <2>2, <2>3
<1>5. blocks' = Linked(Opened(n), links)
  BY <1>1, <1>3
<1>6. Builds(n)
  BY <1>2, <1>4, <1>5, LinkedBuilds DEF GraphIsWhole
<1>7. /\ Reads /\ Id \in DOMAIN stmts' /\ h \in DOMAIN blocks' /\ b \in DOMAIN blocks'
      /\ k \in DOMAIN blocks' /\ a \in DOMAIN blocks'
  BY <1>1, <1>2, <1>6, ReadReads DEF Builds
<1>8. Places
  BY <1>1 DEF Places
<1>9. Opens
  <2>1. open' = Pushed(Frame("do", "body", h, b, k, NoBlock, a)) /\ Id \in DOMAIN stmts'
    BY <1>1, <1>7
  <2>2. /\ NoBlock \in (DOMAIN blocks') \cup {NoBlock}
        /\ a \in (DOMAIN blocks') \cup {NoBlock}
        /\ b \in (DOMAIN blocks') \cup {NoBlock}
        /\ h \in (DOMAIN blocks') \cup {NoBlock}
        /\ k \in (DOMAIN blocks') \cup {NoBlock}
    BY <1>7
  <2> QED
    BY ONLY <2>1, <2>2, PushedOpens
<1>10. Targets
  BY <1>1, <1>7 DEF Targets
<1>11. n \in Nat
  BY <1>2
<1> QED
  BY <1>6, <1>7, <1>8, <1>9, <1>10, <1>11, WholeStep

(* The way back, and what runs behind a loop's body.                       *)
LEMMA BackLeads ==
  ASSUME LowerInv, GraphIsWhole, Top.next \in DOMAIN blocks, NEW back,
         back = IF PathExists(blocks, Top.body, current)
                THEN Linked(blocks, {<<current, Top.next>>}) ELSE blocks
  PROVE  back \in Seq(BlockType) /\ Leads(back) /\ DOMAIN back = DOMAIN blocks
<1>1. blocks \in Seq(BlockType) /\ Leads(blocks)
  BY BlocksTyped DEF GraphIsWhole
<1>2. PICK links : links = {<<current, Top.next>>}
  OBVIOUS
<1>3. links \in SUBSET (Nat \X Nat) /\ \A l \in links : l[2] \in DOMAIN blocks
  BY <1>2, BlocksTyped
<1> QED
  BY <1>1, <1>2, <1>3, LeadsLinked

LEMMA BehindWhole ==
  ASSUME LowerInv, GraphIsWhole, Len(open) > 1,
         DOMAIN blocks' = DOMAIN blocks, Leads(blocks'), stmts' = stmts,
         NEW part \in {"cond", "step"},
         \/ where' = where
         \/ where' = Later(part, Top.next) /\ Top.next \in DOMAIN blocks,
         targets' = targets \/ targets' = LoopPopped, Opens
  PROVE  GraphIsWhole'
<1>1. Builds(0)
  BY BlocksTyped DEF Builds
<1>2. part \in {"call", "cond", "step"} /\ Top.stmt \in DOMAIN stmts'
  BY TopFits
<1>3. Places
  <2>1. CASE where' = where
    BY <2>1 DEF Places
  <2>2. CASE where' = Later(part, Top.next) /\ Top.next \in DOMAIN blocks
    BY <1>2, <2>2, PlacedPlaces
  <2> QED
    BY <2>1, <2>2
<1> QED
  BY <1>1, <1>3, WholeStep DEF Targets, Reads

LEMMA EndLoopWhole ==
  ASSUME LowerInv, GraphIsWhole, EndLoop
  PROVE  GraphIsWhole'
<1>1. /\ Top.kind \in {"while", "for"} /\ Top.arm = "body" /\ Len(open) > 1
      /\ stmts' = stmts /\ where' = where /\ targets' = LoopPopped
      /\ blocks' = IF PathExists(blocks, Top.body, current)
                   THEN Linked(blocks, {<<current, Top.next>>}) ELSE blocks
      /\ open' = Turned([Top EXCEPT !.arm = "else"]) \/ open' = Popped
  BY DEF EndLoop, Ends, text
<1>2. Top.next \in DOMAIN blocks
  BY <1>1, TopHolds DEF Held
<1>3. Leads(blocks') /\ DOMAIN blocks' = DOMAIN blocks
  BY <1>1, <1>2, BackLeads
<1>4. Opens
  <2>1. CASE open' = Popped
    BY <2>1 DEF Opens
  <2>2. CASE open' = Turned([Top EXCEPT !.arm = "else"])
    BY <1>3, <2>2, CurrentIs, TurnedOpens
  <2> QED
    BY <1>1, <2>1, <2>2
<1>5. "step" \in {"cond", "step"}
  OBVIOUS
<1> QED
  BY <1>1, <1>3, <1>4, <1>5, BehindWhole

LEMMA ThenceWhole ==
  ASSUME LowerInv, GraphIsWhole, EndLoopElse \/ EndFinally
  PROVE  GraphIsWhole'
<1>1. /\ \/ Top.kind \in {"while", "for"} /\ Top.arm = "else"
         \/ Top.kind = "try" /\ Top.arm = "finally"
      /\ Len(open) > 1
      /\ stmts' = stmts /\ where' = where /\ targets' = targets
      /\ blocks' = Linked(blocks, {<<current, Top.after>>}) /\ open' = Popped
  BY DEF EndLoopElse, EndFinally, Ends, text
<1>2. Top.after \in DOMAIN blocks
  BY <1>1, TopHolds DEF Becomes
<1>3. PICK links : links = {<<current, Top.after>>}
  OBVIOUS
<1>4. links \in SUBSET (Nat \X Nat) /\ \A l \in links : l[2] \in DOMAIN blocks
  BY <1>2, <1>3, BlocksTyped
<1>5. blocks \in Seq(BlockType) /\ Leads(blocks)
  BY BlocksTyped DEF GraphIsWhole
<1>6. Leads(blocks') /\ DOMAIN blocks' = DOMAIN blocks
  BY <1>1, <1>3, <1>4, <1>5, LeadsLinked
<1>7. "step" \in {"cond", "step"} /\ Opens
  BY <1>1 DEF Opens
<1> QED
  BY <1>1, <1>6, <1>7, BehindWhole

LEMMA EndCForWhole ==
  ASSUME LowerInv, GraphIsWhole, EndCFor
  PROVE  GraphIsWhole'
<1>1. PICK back :
        back = IF PathExists(blocks, Top.body, current)
               THEN Linked(blocks, {<<current, Top.next>>}) ELSE blocks
  OBVIOUS
<1>2. /\ Top.kind = "cfor" /\ Len(open) > 1
      /\ stmts' = stmts /\ targets' = LoopPopped /\ open' = Popped
      /\ where' = where \/ where' = Later("step", Top.next)
      /\ blocks' = Linked(back, {<<Top.next, Top.head>>}) \/ blocks' = back
  BY <1>1 DEF EndCFor, Ends, text
<1>3. Top.next \in DOMAIN blocks /\ Top.head \in DOMAIN blocks
  BY <1>2, TopHolds DEF Held
<1>4. back \in Seq(BlockType) /\ Leads(back) /\ DOMAIN back = DOMAIN blocks
  BY <1>1, <1>3, BackLeads
<1>5. PICK links : links = {<<Top.next, Top.head>>}
  OBVIOUS
<1>6. links \in SUBSET (Nat \X Nat) /\ \A l \in links : l[2] \in DOMAIN back
  BY <1>3, <1>4, <1>5, BlocksTyped
<1>7. Leads(Linked(back, links)) /\ DOMAIN Linked(back, links) = DOMAIN blocks
  BY <1>4, <1>6, LeadsLinked
<1>8. Leads(blocks') /\ DOMAIN blocks' = DOMAIN blocks
  BY <1>2, <1>4, <1>5, <1>7
<1>9. "step" \in {"cond", "step"} /\ Opens
  BY <1>2 DEF Opens
<1> QED
  BY <1>2, <1>3, <1>8, <1>9, BehindWhole

LEMMA EndDoWhole ==
  ASSUME LowerInv, GraphIsWhole, EndDo
  PROVE  GraphIsWhole'
<1>1. PICK back :
        back = IF PathExists(blocks, Top.body, current)
               THEN Linked(blocks, {<<current, Top.next>>}) ELSE blocks
  OBVIOUS
<1>2. /\ Top.kind = "do" /\ Len(open) > 1
      /\ stmts' = stmts /\ targets' = LoopPopped /\ open' = Popped
      /\ where' = Later("cond", Top.next)
      /\ blocks' = Linked(Terminated(back, Top.next, "branch"),
                          {<<Top.next, Top.head>>, <<Top.next, Top.after>>})
  BY <1>1 DEF EndDo, Ends, text
<1>3. Top.next \in DOMAIN blocks /\ Top.head \in DOMAIN blocks /\ Top.after \in DOMAIN blocks
  BY <1>2, TopHolds DEF Held
<1>4. back \in Seq(BlockType) /\ Leads(back) /\ DOMAIN back = DOMAIN blocks
  BY <1>1, <1>3, BackLeads
<1>5. PICK turned : turned = Terminated(back, Top.next, "branch")
  OBVIOUS
<1>6. turned \in Seq(BlockType) /\ Leads(turned) /\ DOMAIN turned = DOMAIN blocks
  BY <1>3, <1>4, <1>5, LeadsTerminated
<1>7. PICK links : links = {<<Top.next, Top.head>>, <<Top.next, Top.after>>}
  OBVIOUS
<1>8. links \in SUBSET (Nat \X Nat) /\ \A l \in links : l[2] \in DOMAIN turned
  BY <1>3, <1>6, <1>7, BlocksTyped
<1>9. Leads(blocks') /\ DOMAIN blocks' = DOMAIN blocks
  BY <1>2, <1>5, <1>6, <1>7, <1>8, LeadsLinked
<1>10. "cond" \in {"cond", "step"} /\ Opens
  BY <1>2 DEF Opens
<1> QED
  BY <1>2, <1>3, <1>9, <1>10, BehindWhole

-----------------------------------------------------------------------------
LEMMA WholeFirst ==
  ASSUME LowerInit
  PROVE  GraphIsWhole
<1>1. /\ stmts = <<>> /\ targets = <<>> /\ blocks = <<[succ |-> {}, term |-> "none"]>>
      /\ where = [e \in {} |-> 1]
  BY DEF LowerInit
<1>2. PICK f : f = [stmt |-> 0, kind |-> "function", arm |-> "body", head |-> NoBlock,
                    body |-> NoBlock, next |-> NoBlock, other |-> NoBlock,
                    after |-> NoBlock, ends |-> {}]
  OBVIOUS
<1>3. DOMAIN open = {1} /\ open[1] = f
  BY <1>2 DEF LowerInit
<1>4. Leads(blocks)
  BY <1>1 DEF Leads
<1>5. FramesFit
  <2>1. FrameFits(f, blocks) /\ f.stmt = 0
    BY <1>2 DEF FrameFits
  <2> QED
    BY <1>3, <2>1 DEF FramesFit
<1>6. PlacesExist
  BY <1>1 DEF PlacesExist
<1>7. ReadInOrder /\ \A i \in DOMAIN targets : Aims(targets[i], blocks)
  BY <1>1 DEF ReadInOrder
<1> QED
  BY <1>4, <1>5, <1>6, <1>7 DEF GraphIsWhole

LEMMA WholeNext ==
  ASSUME LowerInv, GraphIsWhole, [LowerNext]_lowerVars
  PROVE  GraphIsWhole'
<1>1. CASE LowerNext
  BY <1>1, CallWhole, ReturnWhole, ThrowWhole, BreakWhole, ContinueWhole,
     IfWhole, ElseWhole, EndArmsWhole, WhileWhole, ForWhole, EndLoopWhole, ThenceWhole,
     CForWhole, EndCForWhole, DoWhole, EndDoWhole, SwitchWhole, ArmsWhole, EndSwitchWhole,
     TryWhole, FinallyWhole, EndFunctionWhole DEF LowerNext
<1>2. CASE UNCHANGED lowerVars
  <2>1. /\ stmts' = stmts /\ where' = where /\ blocks' = blocks /\ targets' = targets
        /\ open' = open
    BY <1>2 DEF lowerVars
  <2> QED
    BY <2>1, QuietWhole DEF Opens
<1> QED
  BY <1>1, <1>2

(* Whatever the function, its grammar, size and depth: the state of the    *)
(* walk stays well formed, and the graph it builds is whole at every step. *)
(* Every successor, every block a call or a condition was placed in, every *)
(* target of a break or a continue and every block an open statement is    *)
(* still to link is a block that exists, and only what was read is placed  *)
(* (lower.ts:2505-2760, lower.py:2890-3140).                               *)
THEOREM LoweringTypes == LowerSpec => [](LowerTypeOK /\ GraphIsWhole)
<1>1. LowerInit => LowerInv /\ GraphIsWhole
  BY LowerInitInv, WholeFirst
<1>2. LowerInv /\ GraphIsWhole /\ [LowerNext]_lowerVars => LowerInv' /\ GraphIsWhole'
  BY LowerNextInv, WholeNext
<1>3. LowerInv => LowerTypeOK
  BY DEF LowerInv
<1> QED
  BY <1>1, <1>2, <1>3, PTL DEF LowerSpec

-----------------------------------------------------------------------------
(* What is mounted in front of an entry point, and what is called in it.   *)

LEMMA GreatestNatural ==
  ASSUME NEW T \in SUBSET Nat, T # {}, NEW n \in Nat, \A t \in T : t <= n
  PROVE  \E m \in T : \A t \in T : t <= m
<1> DEFINE Left == {n - t : t \in T}
<1>1. Left \in SUBSET Nat /\ Left # {}
  <2>1. \A t \in T : n - t \in Nat
    OBVIOUS
  <2> QED BY <2>1
<1>2. PICK x \in Left : \A y \in Left : ~(<<y, x>> \in OpToRel(<, Nat))
  BY <1>1, NatLessThanWellFounded, WFMin
<1>3. PICK m \in T : x = n - m
  OBVIOUS
<1>4. ASSUME NEW t \in T PROVE t <= m
  <2>1. n - t \in Left /\ n - t \in Nat
    OBVIOUS
  <2>2. ~(n - t < n - m)
    BY <1>1, <1>2, <1>3, <2>1 DEF OpToRel
  <2> QED BY <2>2, <2>1
<1> QED BY <1>4

LEMMA CallsOfAnEntry ==
  ASSUME NEW c, CodeShaped(c), NEW e \in EntryShape(c)
  PROVE  (IF e.fn = 0 THEN <<>> ELSE c.fns[e.fn].calls) \in Seq(CallShape)
<1>1. CASE e.fn = 0
  BY <1>1
<1>2. CASE e.fn # 0
  <2>1. e.fn \in DOMAIN c.fns /\ c.fns \in Seq(FnShape)
    BY <1>2 DEF EntryShape, CodeShaped
  <2>2. c.fns[e.fn] \in FnShape
    BY <2>1
  <2> QED BY <1>2, <2>2 DEF FnShape
<1> QED BY <1>1, <1>2

(* A binding is a control at its own place, and the last of a name is      *)
(* the one the control is known by.                                        *)
LEMMA MountedControls ==
  ASSUME NEW c, NEW p, CodeShaped(c), NEW e \in EntryShape(c), NEW r
  PROVE  LET k == ControlsOf(c, p, e)
             ref == <<"bound", r>>
         IN  /\ PlacesOf(k, ref) = {i \in DOMAIN e.chain : e.chain[i].ref = r}
             /\ \A i \in PlacesOf(k, ref) :
                  k[i].scope = e.chain[i].scope /\ k[i].kind = Classify(c, p, r)
<1> DEFINE calls == IF e.fn = 0 THEN <<>> ELSE c.fns[e.fn].calls
           mounted == {i \in DOMAIN e.chain : e.chain[i].ref # ""}
           called  == {j \in DOMAIN calls : Classify(c, p, ControlName(calls[j])) # ""}
           At(i) == IF i \in mounted
                    THEN [ref   |-> <<"bound", e.chain[i].ref>>,
                          kind  |-> Classify(c, p, e.chain[i].ref), scope |-> e.chain[i].scope]
                    ELSE [ref   |-> <<"call", ControlName(calls[i - Len(e.chain)])>>,
                          kind  |-> Classify(c, p, ControlName(calls[i - Len(e.chain)])), scope |-> "handler-body"]
           places == mounted \cup {Len(e.chain) + j : j \in called}
<1>1. ControlsOf(c, p, e) = [i \in places |-> At(i)]
  BY DEF ControlsOf
<1>2. e.chain \in Seq(BindingShape)
  BY DEF EntryShape
<1>3. \A i \in DOMAIN e.chain : e.chain[i].ref # ""
  <2>1. \A i \in DOMAIN e.chain : e.chain[i] \in BindingShape
    BY <1>2
  <2> QED BY <2>1 DEF BindingShape
<1> HIDE DEF calls, called
<1>4. PlacesOf(ControlsOf(c, p, e), <<"bound", r>>) = {i \in places : At(i).ref = <<"bound", r>>}
  BY <1>1 DEF PlacesOf
<1>5. \A i \in places : At(i).ref = <<"bound", r>> <=> i \in mounted /\ e.chain[i].ref = r
  OBVIOUS
<1>6. PlacesOf(ControlsOf(c, p, e), <<"bound", r>>) = {i \in DOMAIN e.chain : e.chain[i].ref = r}
  BY <1>3, <1>4, <1>5
<1>7. ASSUME NEW i \in PlacesOf(ControlsOf(c, p, e), <<"bound", r>>)
      PROVE  ControlsOf(c, p, e)[i].scope = e.chain[i].scope /\ ControlsOf(c, p, e)[i].kind = Classify(c, p, r)
  <2>1. i \in mounted /\ e.chain[i].ref = r
    BY <1>3, <1>6
  <2>2. ControlsOf(c, p, e)[i] = At(i)
    BY <1>1, <2>1
  <2>3. At(i) = [ref |-> <<"bound", r>>, kind |-> Classify(c, p, r), scope |-> e.chain[i].scope]
    BY <2>1
  <2> HIDE DEF At
  <2> QED BY <2>2, <2>3
<1> QED BY <1>6, <1>7

LEMMA LastBinding ==
  ASSUME NEW c, NEW p, CodeShaped(c), NEW e \in EntryShape(c), NEW r,
         \E i \in DOMAIN e.chain : e.chain[i].ref = r
  PROVE  \E i \in DOMAIN e.chain :
           /\ e.chain[i].ref = r
           /\ \A j \in DOMAIN e.chain : e.chain[j].ref = r => j <= i
           /\ ControlRef(ControlsOf(c, p, e), <<"bound", r>>).scope = e.chain[i].scope
           /\ ControlRef(ControlsOf(c, p, e), <<"bound", r>>).kind = Classify(c, p, r)
<1> DEFINE k == ControlsOf(c, p, e)
           P == PlacesOf(k, <<"bound", r>>)
<1>1. P = {i \in DOMAIN e.chain : e.chain[i].ref = r}
      /\ \A i \in P : k[i].scope = e.chain[i].scope /\ k[i].kind = Classify(c, p, r)
  BY MountedControls
<1>2. e.chain \in Seq(BindingShape)
  BY DEF EntryShape
<1>3. DOMAIN e.chain = 1 .. Len(e.chain) /\ Len(e.chain) \in Nat
  BY <1>2
<1> HIDE DEF k, P
<1>4. P \in SUBSET Nat /\ P # {} /\ \A i \in P : i <= Len(e.chain)
  BY <1>1, <1>3
<1>5. \E i \in P : \A j \in P : j <= i
  BY <1>3, <1>4, GreatestNatural
<1> DEFINE last == CHOOSE i \in P : \A j \in P : j <= i
<1>6. last \in P /\ \A j \in P : j <= last
  BY <1>5
<1>7. ControlRef(k, <<"bound", r>>) = k[last]
  BY DEF ControlRef, P
<1> HIDE DEF last
<1> QED BY <1>1, <1>6, <1>7 DEF k

LEMMA BoundRefs ==
  ASSUME NEW c, NEW p, CodeShaped(c), NEW e \in EntryShape(c), NEW r
  PROVE  <<"bound", r>> \in Refs(Facts(c, p, e).controls) <=> \E i \in DOMAIN e.chain : e.chain[i].ref = r
<1>1. Facts(c, p, e).controls = ControlsOf(c, p, e)
  BY DEF Facts
<1>2. <<"bound", r>> \in Refs(ControlsOf(c, p, e)) <=> PlacesOf(ControlsOf(c, p, e), <<"bound", r>>) # {}
  BY DEF Refs, PlacesOf
<1> QED BY <1>1, <1>2, MountedControls

LEMMA CarriedBindings ==
  ASSUME NEW c, NEW p, CodeShaped(c), NEW e \in EntryShape(c), NEW r
  PROVE  /\ Carries(Facts(c, p, e), <<"bound", r>>) =>
              /\ \E i \in DOMAIN e.chain : e.chain[i].ref = r
              /\ ControlRef(Facts(c, p, e).controls, <<"bound", r>>).kind = Classify(c, p, r)
         /\ ApplicationFirst(e.chain) /\ (\E i \in DOMAIN e.chain : e.chain[i].ref = r /\ e.chain[i].scope = "route") =>
              Carries(Facts(c, p, e), <<"bound", r>>)
<1>1. Facts(c, p, e).controls = ControlsOf(c, p, e)
  BY DEF Facts
<1>2. e.chain \in Seq(BindingShape)
  BY DEF EntryShape
<1>3. CASE ~ \E i \in DOMAIN e.chain : e.chain[i].ref = r
  BY <1>3, BoundRefs DEF Carries
<1>4. CASE \E i \in DOMAIN e.chain : e.chain[i].ref = r
  <2>1. PICK i \in DOMAIN e.chain :
           /\ e.chain[i].ref = r
           /\ \A j \in DOMAIN e.chain : e.chain[j].ref = r => j <= i
           /\ ControlRef(ControlsOf(c, p, e), <<"bound", r>>).scope = e.chain[i].scope
           /\ ControlRef(ControlsOf(c, p, e), <<"bound", r>>).kind = Classify(c, p, r)
    BY <1>4, LastBinding
  <2>2. ASSUME ApplicationFirst(e.chain), NEW j \in DOMAIN e.chain, e.chain[j].ref = r, e.chain[j].scope = "route"
        PROVE  e.chain[i].scope # "app"
    <3>1. j <= i /\ i \in Int /\ j \in Int
      BY <1>2, <2>1, <2>2
    <3>2. CASE j = i
      BY <2>2, <3>2
    <3>3. CASE j < i
      BY <2>2, <2>1, <3>3 DEF ApplicationFirst
    <3> QED BY <3>1, <3>2, <3>3
  <2> QED BY <1>1, <1>4, <2>1, <2>2, BoundRefs DEF Carries
<1> QED BY <1>3, <1>4

-----------------------------------------------------------------------------
(* The routes of one router, as the population they are judged in.         *)
ExShaped ==
  /\ CodeShaped(code) /\ IsFiniteSet(entries) /\ policy \in PolicyShape
  /\ EntriesShaped(code, entries) /\ EntriesShaped(code, code.routes)

LEMMA FactsOfAnEntry ==
  ASSUME NEW c, NEW p, NEW e
  PROVE  /\ Facts(c, p, e).entry = e
         /\ Facts(c, p, e).group = <<e.kind, ModuleOf(c, e), e.mount>>
         /\ Facts(c, p, e).label = Label(c, e)
         /\ Facts(c, p, e).controls = ControlsOf(c, p, e)
         /\ Facts(c, p, e).credential = (e.fn # 0 /\ c.fns[e.fn].secret)
BY DEF Facts, GroupOf

LEMMA Population ==
  ASSUME NEW e \in entries, InApplicationSurface(code, ModuleOf(code, e))
  PROVE  /\ Peers(Judged, GroupOf(code, e)) = {Facts(code, policy, x) : x \in Fellows(e)}
         /\ Facts(code, policy, e) \in Judged /\ e \in Fellows(e)
<1> DEFINE F(x) == Facts(code, policy, x)
           In(x) == InApplicationSurface(code, ModuleOf(code, x))
<1>1. Judged = {F(x) : x \in {y \in entries : In(y)}}
  BY DEF Judged, Entries
<1>2. \A x : F(x).group = <<x.kind, ModuleOf(code, x), x.mount>>
  BY FactsOfAnEntry
<1>3. GroupOf(code, e) = <<e.kind, ModuleOf(code, e), e.mount>>
  BY DEF GroupOf
<1>4. \A x : F(x).group = GroupOf(code, e) <=>
               x.kind = e.kind /\ x.mount = e.mount /\ ModuleOf(code, x) = ModuleOf(code, e)
  BY <1>2, <1>3
<1>5. Fellows(e) = {x \in entries : F(x).group = GroupOf(code, e)}
  BY <1>4 DEF Fellows
<1>6. \A x \in Fellows(e) : In(x)
  BY DEF Fellows
<1> HIDE DEF F, In
<1>7. Peers(Judged, GroupOf(code, e)) = {F(x) : x \in Fellows(e)}
  <2>1. \A f : f \in Peers(Judged, GroupOf(code, e)) <=> f \in Judged /\ f.group = GroupOf(code, e)
    BY DEF Peers
  <2>2. \A f : f \in Judged <=> \E x \in entries : In(x) /\ f = F(x)
    BY <1>1
  <2>3. \A f : f \in {F(x) : x \in Fellows(e)} <=> \E x \in entries : F(x).group = GroupOf(code, e) /\ f = F(x)
    BY <1>5
  <2>4. \A x \in entries : F(x).group = GroupOf(code, e) => In(x)
    BY <1>5, <1>6
  <2>5. \A f : f \in Peers(Judged, GroupOf(code, e)) <=> f \in {F(x) : x \in Fellows(e)}
    BY <2>1, <2>2, <2>3, <2>4, Zenon
  <2> QED BY <2>5
<1>8. F(e) \in Judged
  BY <1>1 DEF In
<1>9. e \in Fellows(e)
  BY DEF Fellows
<1> QED BY <1>7, <1>8, <1>9 DEF F

LEMMA AsMany ==
  ASSUME NEW S, IsFiniteSet(S)
  PROVE  LET T == {Facts(code, policy, x) : x \in S}
         IN  IsFiniteSet(T) /\ Cardinality(T) = Cardinality(S)
<1> DEFINE T == {Facts(code, policy, x) : x \in S}
           f == [x \in S |-> Facts(code, policy, x)]
<1>1. \A x : Facts(code, policy, x).entry = x
  BY FactsOfAnEntry
<1>2. f \in Surjection(S, T)
  BY DEF Surjection
<1>3. \A x, y \in S : f[x] = f[y] => x = y
  BY <1>1
<1>4. f \in Injection(S, T)
  <2>1. IsInjective(f)
    BY <1>3 DEF IsInjective
  <2> QED BY <2>1, <1>2 DEF Injection, Surjection
<1> QED BY <1>2, <1>4, FS_Surjection

(* Three in five of a router's routes mount a binding and one does not:    *)
(* the binding is expected, and as the kind of control it is.              *)
LEMMA OddOneDeviates ==
  ASSUME ExShaped, NEW e \in entries, InApplicationSurface(code, ModuleOf(code, e)),
         NEW r, ~ HasBinding(e, r),
         Cardinality(Fellows(e)) >= 3,
         Cardinality({x \in Fellows(e) : Mounts(x, r)}) * 5 >= Cardinality(Fellows(e)) * 3,
         ~ (Classify(code, policy, r) = "csrf" /\ e.method \in {"GET", "HEAD", "OPTIONS"})
  PROVE  [at |-> Facts(code, policy, e), lacks |-> <<"bound", r>>, kind |-> Classify(code, policy, r)]
           \in Deviations(Judged)
<1> DEFINE F(x) == Facts(code, policy, x)
           g   == GroupOf(code, e)
           ref == <<"bound", r>>
           All == Fellows(e)
           Mounting == {x \in Fellows(e) : Mounts(x, r)}
           Carrying == {f \in Peers(Judged, g) : Carries(f, ref)}
<1>1. /\ Peers(Judged, g) = {F(x) : x \in All}
      /\ F(e) \in Judged /\ e \in All
  BY Population
<1>2. All \subseteq entries /\ Mounting \subseteq All
  BY DEF Fellows
<1>3. IsFiniteSet(All) /\ IsFiniteSet(Mounting) /\ Cardinality(All) \in Nat /\ Cardinality(Mounting) \in Nat
  BY <1>2, FS_Subset, FS_CardinalityType DEF ExShaped
<1>4. \A x \in All : x \in EntryShape(code) /\ ApplicationFirst(x.chain)
  BY <1>2 DEF ExShaped, EntriesShaped
<1>5. CodeShaped(code)
  BY DEF ExShaped
<1>6. \A x \in Mounting : Carries(F(x), ref)
  <2> SUFFICES ASSUME NEW x \in Mounting PROVE Carries(F(x), ref)
    OBVIOUS
  <2>1. Mounts(x, r) /\ x \in All
    OBVIOUS
  <2>2. \E i \in DOMAIN x.chain : x.chain[i].ref = r /\ x.chain[i].scope = "route"
    BY <2>1 DEF Mounts, Range
  <2> QED BY <1>4, <1>5, <2>1, <2>2, CarriedBindings
<1>7. \A x \in All : Carries(F(x), ref) => HasBinding(x, r)
  <2> SUFFICES ASSUME NEW x \in All, Carries(F(x), ref) PROVE HasBinding(x, r)
    OBVIOUS
  <2>1. \E i \in DOMAIN x.chain : x.chain[i].ref = r
    BY <1>4, <1>5, CarriedBindings
  <2> QED BY <2>1 DEF HasBinding, Range
<1>8. \A x \in All : Carries(F(x), ref) => ControlRef(F(x).controls, ref).kind = Classify(code, policy, r)
  BY <1>4, <1>5, CarriedBindings
<1>9. ref \notin Refs(F(e).controls)
  <2>1. ~ \E i \in DOMAIN e.chain : e.chain[i].ref = r
    BY DEF HasBinding, Range
  <2>2. e \in EntryShape(code)
    BY <1>1, <1>4
  <2>3. ref \notin Refs(Facts(code, policy, e).controls)
    BY <1>5, <2>1, <2>2, BoundRefs
  <2> QED BY <2>3
<1> HIDE DEF F
<1>10. IsFiniteSet(Peers(Judged, g)) /\ Cardinality(Peers(Judged, g)) = Cardinality(All)
  BY <1>1, <1>3, AsMany DEF F
<1>11. IsFiniteSet({F(x) : x \in Mounting}) /\ Cardinality({F(x) : x \in Mounting}) = Cardinality(Mounting)
  BY <1>3, AsMany DEF F
<1>12. {F(x) : x \in Mounting} \subseteq Carrying
  BY <1>1, <1>2, <1>6
<1>13. Carrying \subseteq Peers(Judged, g) \ {F(e)}
  <2>1. F(e) \notin Carrying
    BY <1>9 DEF Carries
  <2> QED BY <2>1
<1>14. IsFiniteSet(Peers(Judged, g) \ {F(e)}) /\ Cardinality(Peers(Judged, g) \ {F(e)}) = Cardinality(All) - 1
  <2>1. F(e) \in Peers(Judged, g)
    BY <1>1
  <2> QED BY <2>1, <1>10, FS_RemoveElement
<1>15. IsFiniteSet(Carrying) /\ Cardinality(Carrying) <= Cardinality(All) - 1
  BY <1>13, <1>14, FS_Subset
<1>16. Cardinality(Mounting) <= Cardinality(Carrying) /\ Cardinality(Carrying) \in Nat
  BY <1>11, <1>12, <1>15, FS_Subset, FS_CardinalityType
<1>17. Expected(Judged, g, ref)
  <2>1. Cardinality(Carrying) < Cardinality(Peers(Judged, g))
    BY <1>3, <1>10, <1>15, <1>16
  <2>2. Cardinality(Carrying) * 5 >= Cardinality(Peers(Judged, g)) * 3
    BY <1>3, <1>10, <1>16
  <2> QED BY <2>1, <2>2 DEF Expected
<1>18. Carrying # {}
  <2>1. Cardinality(Carrying) # 0
    BY <1>3, <1>16
  <2> QED BY <2>1, FS_EmptySet
<1>19. SignalKind(Judged, g, ref) = Classify(code, policy, r)
  <2> DEFINE one == CHOOSE f \in Peers(Judged, g) : Carries(f, ref)
  <2>1. one \in Peers(Judged, g) /\ Carries(one, ref)
    BY <1>18
  <2>2. PICK x \in All : one = F(x)
    BY <1>1, <2>1
  <2>3. SignalKind(Judged, g, ref) = ControlRef(one.controls, ref).kind
    BY DEF SignalKind
  <2> HIDE DEF one
  <2> QED BY <1>8, <2>1, <2>2, <2>3
<1>20. ref \in UNION {Refs(f.controls) : f \in Peers(Judged, g)}
  <2>1. PICK f \in Peers(Judged, g) : Carries(f, ref)
    BY <1>18
  <2> QED BY <2>1 DEF Carries
<1>21. F(e).entry = e /\ F(e) \in Peers(Judged, g)
  BY <1>1, FactsOfAnEntry DEF F
<1>22. Applies(SignalKind(Judged, g, ref), F(e))
  BY <1>19, <1>21 DEF Applies
<1>23. g \in Groups(Judged) /\ Cardinality(Peers(Judged, g)) >= MinPeers
  <2>1. F(e) \in Judged /\ F(e).group = g
    BY <1>1, FactsOfAnEntry DEF F, GroupOf
  <2> QED BY <2>1, <1>10 DEF Groups, MinPeers
<1> HIDE DEF g, ref, All, Mounting, Carrying
<1>24. [at |-> F(e), lacks |-> ref, kind |-> SignalKind(Judged, g, ref)] \in
         {[at |-> f, lacks |-> ref, kind |-> SignalKind(Judged, g, ref)] :
            f \in {x \in Peers(Judged, g) : ref \notin Refs(x.controls) /\ Applies(SignalKind(Judged, g, ref), x)}}
  BY <1>9, <1>21, <1>22
<1>25. [at |-> F(e), lacks |-> ref, kind |-> SignalKind(Judged, g, ref)] \in Deviations(Judged)
  BY <1>17, <1>20, <1>23, <1>24 DEF Deviations
<1> QED BY <1>19, <1>25 DEF F, ref

(* A declaration selects an entry point by the address the code compares.  *)
LEMMA SelectedBy ==
  ASSUME ExShaped, NEW x \in entries, NEW r \in policy.rules
  PROVE  r \in RulesFor(policy, Facts(code, policy, x)) <=> Selects(r, x)
<1> DEFINE f == Facts(code, policy, x)
<1>1. f.entry = x /\ f.group = <<x.kind, ModuleOf(code, x), x.mount>>
  BY FactsOfAnEntry
<1>2. x.path \in Seq(STRING)
  BY DEF ExShaped, EntriesShaped, EntryShape
<1>3. r.prefix \in Seq(STRING)
  BY DEF ExShaped, PolicyShape, RuleShape
<1>4. IsPrefix(r.prefix, x.path) <=> \A k \in DOMAIN r.prefix : k <= Len(x.path) /\ x.path[k] = r.prefix[k]
  <2> DEFINE s == r.prefix
             t == x.path
  <2> SUFFICES ASSUME s \in Seq(STRING), t \in Seq(STRING)
               PROVE  IsPrefix(s, t) <=> \A k \in DOMAIN s : k <= Len(t) /\ t[k] = s[k]
    BY <1>2, <1>3
  <2> HIDE DEF s, t
  <2>1. ASSUME IsPrefix(s, t), NEW k \in DOMAIN s PROVE k <= Len(t) /\ t[k] = s[k]
    <3>1. Len(s) <= Len(t) /\ SubSeq(s, 1, Len(s)) = SubSeq(t, 1, Len(s))
      BY <2>1 DEF IsPrefix
    <3>2. SubSeq(s, 1, Len(s))[k] = s[k] /\ SubSeq(t, 1, Len(s))[k] = t[k]
      BY <3>1
    <3> QED BY <3>1, <3>2
  <2>2. ASSUME \A k \in DOMAIN s : k <= Len(t) /\ t[k] = s[k] PROVE IsPrefix(s, t)
    <3>1. Len(s) \in Nat /\ Len(t) \in Nat /\ DOMAIN s = 1 .. Len(s)
      OBVIOUS
    <3>2. Len(s) <= Len(t)
      <4>1. CASE Len(s) = 0
        BY <3>1, <4>1
      <4>2. CASE Len(s) # 0
        <5>1. Len(s) \in DOMAIN s
          BY <3>1, <4>2
        <5> QED BY <2>2, <5>1
      <4> QED BY <4>1, <4>2
    <3>3. SubSeq(s, 1, Len(s)) = SubSeq(t, 1, Len(s))
      <4>1. SubSeq(s, 1, Len(s)) = [k \in 1 .. Len(s) |-> s[k]]
        BY <3>1
      <4>2. SubSeq(t, 1, Len(s)) = [k \in 1 .. Len(s) |-> t[k]]
        BY <3>1
      <4> QED BY <2>2, <3>1, <4>1, <4>2
    <3> QED BY <3>2, <3>3 DEF IsPrefix
  <2> QED BY <2>1, <2>2
<1> HIDE DEF f
<1>5. r \in RulesFor(policy, f) <=> Matches(r, x, f.group)
  BY <1>1 DEF RulesFor
<1>6. Matches(r, x, f.group) <=> Selects(r, x)
  BY <1>1, <1>4, Zenon DEF Matches, Selects
<1> QED BY <1>5, <1>6 DEF f

LEMMA ExemptWhereSelected ==
  ASSUME ExShaped, LabelsTellApart, NEW e \in entries, InApplicationSurface(code, ModuleOf(code, e))
  PROVE  Facts(code, policy, e).label \in Exempt(Judged, policy) <=>
           \E r \in policy.rules : r.public /\ Selects(r, e)
<1> DEFINE F(x) == Facts(code, policy, x)
<1>1. Judged = {F(x) : x \in {y \in entries : InApplicationSurface(code, ModuleOf(code, y))}}
  BY DEF Judged, Entries
<1>2. \A x : F(x).label = Label(code, x)
  BY FactsOfAnEntry
<1>3. \A x \in entries : (\E r \in RulesFor(policy, F(x)) : r.public) <=> \E r \in policy.rules : r.public /\ Selects(r, x)
  <2> SUFFICES ASSUME NEW x \in entries
               PROVE  (\E r \in RulesFor(policy, F(x)) : r.public) <=> \E r \in policy.rules : r.public /\ Selects(r, x)
    OBVIOUS
  <2>1. RulesFor(policy, F(x)) \subseteq policy.rules
    BY DEF RulesFor
  <2> QED BY <2>1, SelectedBy
<1> HIDE DEF F
<1>4. F(e) \in Judged
  BY <1>1
<1>5. ASSUME F(e).label \in Exempt(Judged, policy)
      PROVE  \E r \in policy.rules : r.public /\ Selects(r, e)
  <2>1. PICK f \in Judged : f.label = F(e).label /\ \E r \in RulesFor(policy, f) : r.public
    BY <1>5 DEF Exempt
  <2>2. PICK x \in entries : f = F(x)
    BY <1>1, <2>1
  <2>3. x = e
    BY <1>2, <2>1, <2>2 DEF LabelsTellApart
  <2> QED BY <1>3, <2>1, <2>2, <2>3
<1>6. ASSUME \E r \in policy.rules : r.public /\ Selects(r, e)
      PROVE  F(e).label \in Exempt(Judged, policy)
  <2>1. \E r \in RulesFor(policy, F(e)) : r.public
    BY <1>3, <1>6
  <2> QED BY <1>4, <2>1 DEF Exempt
<1> QED BY <1>5, <1>6 DEF F

LEMMA OddOneReported == ExShaped /\ LabelsTellApart => TheOddOneIsReported
<1> SUFFICES ASSUME ExShaped, LabelsTellApart, NEW e \in entries, NEW ref \in {b.ref : b \in code.middleware},
                    InApplicationSurface(code, ModuleOf(code, e)),
                    Cardinality(Fellows(e)) >= 3,
                    Cardinality({x \in Fellows(e) : Mounts(x, ref)}) * 5 >= Cardinality(Fellows(e)) * 3,
                    ~ HasBinding(e, ref),
                    ~ (Classify(code, policy, ref) = "csrf" /\ e.method \in {"GET", "HEAD", "OPTIONS"})
             PROVE  LET About(set) == \E d \in set : d.at.entry = e /\ d.lacks = <<"bound", ref>>
                    IN  IF \E r \in policy.rules : r.public /\ Selects(r, e)
                        THEN About(Suppressed(Judged, policy))
                        ELSE IF Classify(code, policy, ref) = "authentication" /\ e.fn # 0 /\ code.fns[e.fn].secret
                        THEN About(Withheld(Judged, policy))
                        ELSE About(Inferred(Judged, policy))
  BY DEF TheOddOneIsReported
<1> DEFINE kind == Classify(code, policy, ref)
           d == [at |-> Facts(code, policy, e), lacks |-> <<"bound", ref>>, kind |-> kind]
<1>1. d \in Deviations(Judged)
  BY OddOneDeviates
<1>2. d.at.label \in Exempt(Judged, policy) <=> \E r \in policy.rules : r.public /\ Selects(r, e)
  BY ExemptWhereSelected
<1>3. d.at.entry = e /\ d.lacks = <<"bound", ref>> /\ d.kind = kind
      /\ d.at.credential = (e.fn # 0 /\ code.fns[e.fn].secret)
  BY FactsOfAnEntry
<1> HIDE DEF d, kind
<1>4. CASE \E r \in policy.rules : r.public /\ Selects(r, e)
  <2>1. d \in Suppressed(Judged, policy)
    BY <1>1, <1>2, <1>4 DEF Suppressed
  <2> QED BY <1>3, <1>4, <2>1
<1>5. CASE ~ (\E r \in policy.rules : r.public /\ Selects(r, e)) /\ kind = "authentication" /\ e.fn # 0 /\ code.fns[e.fn].secret
  <2>1. d \in Withheld(Judged, policy)
    BY <1>1, <1>2, <1>3, <1>5 DEF Withheld, Suppressed
  <2> QED BY <1>3, <1>5, <2>1 DEF kind
<1>6. CASE ~ (\E r \in policy.rules : r.public /\ Selects(r, e)) /\ ~ (kind = "authentication" /\ e.fn # 0 /\ code.fns[e.fn].secret)
  <2>1. d \notin Suppressed(Judged, policy) \cup Withheld(Judged, policy)
    BY <1>2, <1>3, <1>6 DEF Withheld, Suppressed
  <2> DEFINE said == [origin |-> "inferred", at |-> d.at, lacks |-> d.lacks, kind |-> d.kind, gates |-> FALSE,
                      cwe |-> WeaknessAt(d.kind, d.at.entry.path)]
  <2>2. said \in Inferred(Judged, policy)
    BY <1>1, <2>1 DEF Inferred
  <2>3. said.at.entry = e /\ said.lacks = <<"bound", ref>>
    BY <1>3
  <2> HIDE DEF said
  <2> QED BY <1>6, <2>2, <2>3 DEF kind
<1> QED BY <1>4, <1>5, <1>6 DEF kind

-----------------------------------------------------------------------------
(* What the search reaches is what a request can run.                      *)
LEMMA Edges ==
  ASSUME ExShaped, NEW g \in DOMAIN code.fns, NEW h \in DOMAIN code.fns
  PROVE  h \in LocalCallees(code.fns[g]) \cup HandedOver(code.fns[g]) <=> Runs(g, h)
<1>1. h # 0
  BY DEF ExShaped, CodeShaped
<1>2. h \in LocalCallees(code.fns[g]) <=> \E k \in Range(code.fns[g].calls) : k.kind = "local" /\ k.to = h
  BY <1>1 DEF LocalCallees
<1>3. h \in HandedOver(code.fns[g]) <=> \E k \in Range(code.fns[g].calls) : h \in k.passes
  BY DEF HandedOver
<1> QED BY <1>2, <1>3 DEF Runs

LEMMA StartsAlike ==
  ASSUME NEW S PROVE Roots(Judged) \subseteq S <=> \A e \in Served : e.fn \in S
<1> DEFINE F(x) == Facts(code, policy, x)
<1>1. Judged = {F(x) : x \in {y \in entries : InApplicationSurface(code, ModuleOf(code, y))}}
  BY DEF Judged, Entries
<1>2. \A x : F(x).entry = x
  BY FactsOfAnEntry
<1>3. \A x : TrustLevel(x) = "remote" <=> x.trust \in {"", "remote"}
  BY DEF TrustLevel
<1> HIDE DEF F
<1>4. Roots(Judged) = {x.fn : x \in Served}
  <2>1. ASSUME NEW n \in Roots(Judged) PROVE \E x \in Served : n = x.fn
    <3>1. PICK f \in Judged : TrustLevel(f.entry) = "remote" /\ n = f.entry.fn /\ n # 0
      BY <2>1 DEF Roots
    <3>2. PICK x \in entries : f = F(x) /\ InApplicationSurface(code, ModuleOf(code, x))
      BY <1>1, <3>1
    <3> QED BY <1>2, <1>3, <3>1, <3>2 DEF Served
  <2>2. ASSUME NEW x \in Served PROVE x.fn \in Roots(Judged)
    <3>1. F(x) \in Judged
      BY <1>1 DEF Served
    <3> QED BY <1>2, <1>3, <3>1 DEF Served, Roots
  <2> QED BY <2>1, <2>2
<1> QED BY <1>4

LEMMA ReachedIsRun == ExShaped => Reachable(code, Judged) = RunByARequest
<1> SUFFICES ASSUME ExShaped PROVE Reachable(code, Judged) = RunByARequest
  OBVIOUS
<1> DEFINE All == DOMAIN code.fns
           Steps(g) == LocalCallees(code.fns[g]) \cup HandedOver(code.fns[g])
<1>1. \A g \in All : Steps(g) \subseteq All
  BY DEF ExShaped, CodeShaped
<1>2. ASSUME NEW S \in SUBSET All
      PROVE  (\A g \in S : Steps(g) \subseteq S) <=> (\A g \in S, h \in All : Runs(g, h) => h \in S)
  <2>1. \A g \in S, h \in All : h \in Steps(g) <=> Runs(g, h)
    BY Edges
  <2> HIDE DEF Steps
  <2> QED BY <1>1, <2>1
<1>3. ASSUME NEW S \in SUBSET All
      PROVE  (Roots(Judged) \subseteq S /\ \A g \in S : Steps(g) \subseteq S) <=>
             ((\A e \in Served : e.fn \in S) /\ \A g \in S, h \in All : Runs(g, h) => h \in S)
  BY <1>2, StartsAlike
<1>4. Reachable(code, Judged) =
        {f \in All : \A S \in SUBSET All : (Roots(Judged) \subseteq S /\ \A g \in S : Steps(g) \subseteq S) => f \in S}
  BY DEF Reachable, ReachableFrom
<1>5. RunByARequest =
        {f \in All : \A S \in SUBSET All :
           ((\A e \in Served : e.fn \in S) /\ \A g \in S, h \in All : Runs(g, h) => h \in S) => f \in S}
  BY DEF RunByARequest
<1> HIDE DEF All, Steps
<1> QED BY <1>3, <1>4, <1>5

LEMMA RunGoesOn ==
  ASSUME NEW g \in RunByARequest, NEW h \in DOMAIN code.fns, Runs(g, h)
  PROVE  h \in RunByARequest
BY DEF RunByARequest

LEMMA CausesTrue == ExShaped => CausesAreTrue
<1> SUFFICES ASSUME ExShaped PROVE CausesAreTrue
  OBVIOUS
<1> DEFINE said == Unreached(code, Judged)
           run == RunByARequest
           out == UnreachedInputFunctions(code, Judged)
           name(f) == code.fns[f].name
<1>1. out = {f \in DOMAIN code.fns \ run : code.fns[f].reads /\ InApplicationSurface(code, code.fns[f].module)}
  BY ReachedIsRun DEF UnreachedInputFunctions, InputFunctions
<1>2. /\ said.missing = {f \in out : CauseOf(code, f) = "missing call edge"}
      /\ said.below = {f \in out : CauseOf(code, f) = "below unreached"}
      /\ said.never = {f \in out : CauseOf(code, f) = "never called"}
      /\ said.fromReached = {f \in said.missing : name(f) \in NamedFromReached(code, Judged)}
  BY DEF Unreached
<1>3. \A f : CauseOf(code, f) \in {"missing call edge", "below unreached", "never called"}
  BY DEF CauseOf
<1>4. 0 \notin DOMAIN code.fns
  BY DEF ExShaped, CodeShaped
<1>5. out \subseteq DOMAIN code.fns /\ run \subseteq DOMAIN code.fns
  BY <1>1 DEF RunByARequest
<1>6. ASSUME NEW f \in DOMAIN code.fns, CallersOf(code, f) = {}, NEW g \in DOMAIN code.fns
      PROVE  CallsByName(g, f) <=> name(f) \in UnresolvedNames(code.fns[g])
  <2>1. f \notin LocalCallees(code.fns[g])
    BY <1>6 DEF CallersOf
  <2>2. \A k \in Range(code.fns[g].calls) : ~ (k.kind = "local" /\ k.to = f)
    BY <1>4, <2>1 DEF LocalCallees
  <2>3. name(f) \in UnresolvedNames(code.fns[g]) <=>
          \E k \in Range(code.fns[g].calls) : (k.kind # "local" \/ k.to = 0) /\ name(f) \in {k.method, k.written} \ {""}
    BY DEF UnresolvedNames
  <2>4. CallsByName(g, f) <=>
          \E k \in Range(code.fns[g].calls) : name(f) \in {k.method, k.written} \ {""} /\ (k.kind = "local" => k.to \in {0, f})
    BY DEF CallsByName
  <2> HIDE DEF name
  <2> QED BY <2>2, <2>3, <2>4
<1>7. \A f \in said.missing \cup said.never : f \in DOMAIN code.fns /\ CallersOf(code, f) = {}
  BY <1>2, <1>5 DEF CauseOf
<1> HIDE DEF said, run, out, name
<1>8. UNION {said.missing, said.below, said.never} = out
  BY <1>2, <1>3
<1>9. said.missing \cap said.below = {} /\ (said.missing \cup said.below) \cap said.never = {}
  BY <1>2
<1>10. ASSUME NEW f \in said.below, NEW g \in DOMAIN code.fns, Runs(g, f) PROVE g \notin run
  <2>1. f \in DOMAIN code.fns /\ f \notin run
    BY <1>1, <1>2
  <2> QED BY <1>10, <2>1, RunGoesOn DEF run
<1>11. ASSUME NEW f \in said.never, NEW g \in DOMAIN code.fns PROVE ~ CallsByName(g, f)
  <2>1. name(f) \notin Named(code)
    BY <1>2 DEF CauseOf, name
  <2>2. name(f) \notin UnresolvedNames(code.fns[g])
    BY <2>1 DEF Named, Range
  <2> QED BY <1>6, <1>7, <2>2
<1>12. said.fromReached = {f \in said.missing : \E g \in run : CallsByName(g, f)}
  <2> SUFFICES ASSUME NEW f \in said.missing
               PROVE  name(f) \in NamedFromReached(code, Judged) <=> \E g \in run : CallsByName(g, f)
    BY <1>2
  <2>1. name(f) \in NamedFromReached(code, Judged) <=> \E g \in run : name(f) \in UnresolvedNames(code.fns[g])
    BY ReachedIsRun DEF NamedFromReached, run
  <2> QED BY <1>5, <1>6, <1>7, <2>1
<1> QED BY <1>1, <1>8, <1>9, <1>10, <1>11, <1>12 DEF CausesAreTrue, said, run

-----------------------------------------------------------------------------
(* What a team does to an application leaves it one.                       *)

LEMMA Longer ==
  ASSUME NEW chain \in Seq(BindingShape), ApplicationFirst(chain), NEW b \in BindingShape
  PROVE  LET longer == IF b.scope = "app" THEN <<b>> \o chain ELSE Append(chain, b)
         IN  longer \in Seq(BindingShape) /\ ApplicationFirst(longer)
<1>1. CASE b.scope = "app"
  <2> DEFINE longer == <<b>> \o chain
  <2>1. longer \in Seq(BindingShape) /\ Len(longer) = Len(chain) + 1
        /\ \A i \in 1 .. Len(longer) : longer[i] = IF i = 1 THEN b ELSE chain[i - 1]
    OBVIOUS
  <2> HIDE DEF longer
  <2>2. ASSUME NEW i \in DOMAIN longer, NEW j \in DOMAIN longer, i < j, longer[j].scope = "app"
        PROVE  longer[i].scope = "app"
    <3>1. i \in 1 .. Len(longer) /\ j \in 1 .. Len(longer)
      BY <2>1
    <3>2. CASE i = 1
      BY <1>1, <2>1, <3>1, <3>2
    <3>3. CASE i # 1
      <4>1. i - 1 \in DOMAIN chain /\ j - 1 \in DOMAIN chain /\ i - 1 < j - 1
        BY <2>1, <2>2, <3>1, <3>3
      <4>2. longer[i] = chain[i - 1] /\ longer[j] = chain[j - 1]
        BY <2>1, <2>2, <3>1, <3>3
      <4> QED BY <2>2, <4>1, <4>2 DEF ApplicationFirst
    <3> QED BY <3>2, <3>3
  <2> QED BY <1>1, <2>1, <2>2 DEF longer, ApplicationFirst
<1>2. CASE b.scope # "app"
  <2> DEFINE longer == Append(chain, b)
  <2>1. longer \in Seq(BindingShape) /\ Len(longer) = Len(chain) + 1
        /\ \A i \in 1 .. Len(longer) : longer[i] = IF i = Len(longer) THEN b ELSE chain[i]
    OBVIOUS
  <2> HIDE DEF longer
  <2>2. ASSUME NEW i \in DOMAIN longer, NEW j \in DOMAIN longer, i < j, longer[j].scope = "app"
        PROVE  longer[i].scope = "app"
    <3>1. i \in 1 .. Len(longer) /\ j \in 1 .. Len(longer)
      BY <2>1
    <3>2. j # Len(longer)
      BY <1>2, <2>1, <2>2, <3>1
    <3>3. i \in DOMAIN chain /\ j \in DOMAIN chain
      BY <2>1, <2>2, <3>1, <3>2
    <3>4. longer[i] = chain[i] /\ longer[j] = chain[j]
      BY <2>1, <2>2, <3>1, <3>2
    <3> QED BY <2>2, <3>3, <3>4 DEF ApplicationFirst
  <2> QED BY <1>2, <2>1, <2>2 DEF longer, ApplicationFirst
<1> QED BY <1>1, <1>2

LEMMA Shorter ==
  ASSUME NEW chain \in Seq(BindingShape), ApplicationFirst(chain), NEW k \in DOMAIN chain
  PROVE  RemoveAt(chain, k) \in Seq(BindingShape) /\ ApplicationFirst(RemoveAt(chain, k))
<1> DEFINE left  == SubSeq(chain, 1, k - 1)
           right == SubSeq(chain, k + 1, Len(chain))
           shorter == RemoveAt(chain, k)
<1>1. k \in 1 .. Len(chain) /\ Len(chain) \in Nat
  OBVIOUS
<1>2. left \in Seq(BindingShape) /\ Len(left) = k - 1 /\ \A i \in 1 .. Len(left) : left[i] = chain[i]
  BY <1>1
<1>3. right \in Seq(BindingShape) /\ Len(right) = Len(chain) - k /\ \A i \in 1 .. Len(right) : right[i] = chain[k + i]
  BY <1>1
<1>4. shorter = left \o right
  BY DEF RemoveAt
<1> HIDE DEF left, right, shorter
<1>5. shorter \in Seq(BindingShape) /\ Len(shorter) = Len(left) + Len(right)
      /\ \A i \in 1 .. Len(shorter) : shorter[i] = IF i <= Len(left) THEN left[i] ELSE right[i - Len(left)]
  <2>1. \A l, r \in Seq(BindingShape) :
          /\ l \o r \in Seq(BindingShape) /\ Len(l \o r) = Len(l) + Len(r)
          /\ \A i \in 1 .. Len(l \o r) : (l \o r)[i] = IF i <= Len(l) THEN l[i] ELSE r[i - Len(l)]
    OBVIOUS
  <2> QED BY <1>2, <1>3, <1>4, <2>1, Zenon
<1>6. \A i \in 1 .. Len(shorter) : shorter[i] = chain[IF i < k THEN i ELSE i + 1]
  <2> SUFFICES ASSUME NEW i \in 1 .. Len(shorter) PROVE shorter[i] = chain[IF i < k THEN i ELSE i + 1]
    OBVIOUS
  <2>1. CASE i < k
    BY <1>1, <1>2, <1>5, <2>1
  <2>2. CASE ~ (i < k)
    <3> DEFINE a == Len(left)
               b == Len(right)
               n == Len(shorter)
    <3>a. a = k - 1 /\ b = Len(chain) - k /\ n = a + b /\ i \in 1 .. n
      BY <1>2, <1>3, <1>5
    <3> HIDE DEF a, b, n
    <3>c. i \in Int /\ k \in Int /\ a \in Int /\ b \in Int /\ a = k - 1 /\ i <= a + b /\ k <= i
      <4>1. k \in Int /\ Len(chain) \in Int
        BY <1>1
      <4>2. a \in Int /\ b \in Int
        BY <3>a, <4>1
      <4>3. n \in Int
        BY <3>a, <4>2
      <4>4. i \in Int /\ i <= n
        BY <3>a, <4>3
      <4> QED BY <2>2, <3>a, <4>1, <4>2, <4>4
    <3>b. i - a \in 1 .. b /\ ~ (i <= a) /\ k + (i - a) = i + 1
      <4>1. a + b \in Int /\ i - a \in Int /\ 1 <= i - a /\ i - a <= b
        BY <3>c
      <4>2. i > a /\ k + (i - a) = i + 1
        BY <3>c
      <4> QED BY <3>c, <4>1, <4>2
    <3>1. i - Len(left) \in 1 .. Len(right) /\ ~ (i <= Len(left)) /\ k + (i - Len(left)) = i + 1
      BY <3>b DEF a, b
    <3> QED BY <1>3, <1>5, <2>2, <3>1
  <2> QED BY <2>1, <2>2
<1>7. Len(shorter) = Len(chain) - 1
  BY <1>1, <1>2, <1>3, <1>5
<1>8. ASSUME NEW i \in DOMAIN shorter, NEW j \in DOMAIN shorter, i < j, shorter[j].scope = "app"
      PROVE  shorter[i].scope = "app"
  <2> DEFINE old(n) == IF n < k THEN n ELSE n + 1
  <2>1. i \in 1 .. Len(shorter) /\ j \in 1 .. Len(shorter)
    BY <1>5
  <2>2. old(i) \in DOMAIN chain /\ old(j) \in DOMAIN chain /\ old(i) < old(j)
    BY <1>1, <1>7, <1>8, <2>1
  <2>3. shorter[i] = chain[old(i)] /\ shorter[j] = chain[old(j)]
    BY <1>6, <2>1
  <2> HIDE DEF old
  <2> QED BY <1>8, <2>2, <2>3 DEF ApplicationFirst
<1> QED BY <1>5, <1>8 DEF ApplicationFirst, shorter

LEMMA RechainedEntry ==
  ASSUME NEW c, NEW e \in EntryShape(c), NEW chain \in Seq(BindingShape)
  PROVE  LET x == [e EXCEPT !.chain = chain]
         IN  x \in EntryShape(c) /\ x.chain = chain /\ Label(c, x) = Label(c, e)
<1> DEFINE x == [e EXCEPT !.chain = chain]
<1>1. x \in EntryShape(c) /\ x.chain = chain /\ x.method = e.method /\ x.path = e.path /\ x.fn = e.fn
  BY DEF EntryShape
<1> HIDE DEF x
<1>2. Label(c, x) = Label(c, e)
  BY <1>1 DEF Label
<1> QED BY <1>1, <1>2 DEF x

(* Rechaining an entry point in either way.                                *)
LEMMA RechainingKeeps ==
  ASSUME ExShaped, NEW e \in entries, NEW chain \in Seq(BindingShape), ApplicationFirst(chain),
         Rechained(e, chain), UNCHANGED <<code, policy>>
  PROVE  ExShaped' /\ (LabelsTellApart => LabelsTellApart')
<1> DEFINE x == [e EXCEPT !.chain = chain]
<1>1. e \in EntryShape(code)
  BY DEF ExShaped, EntriesShaped
<1>2. x \in EntryShape(code) /\ x.chain = chain /\ Label(code, x) = Label(code, e)
  BY <1>1, RechainedEntry
<1>3. entries' = (entries \ {e}) \cup {x} /\ code' = code /\ policy' = policy
  BY DEF Rechained
<1> HIDE DEF x
<1>4. IsFiniteSet(entries')
  <2>1. IsFiniteSet(entries \ {e})
    BY FS_RemoveElement DEF ExShaped
  <2> QED BY <1>3, <2>1, FS_AddElement
<1>5. EntriesShaped(code, entries')
  BY <1>2, <1>3 DEF ExShaped, EntriesShaped
<1>6. ExShaped'
  BY <1>3, <1>4, <1>5 DEF ExShaped
<1>7. ASSUME LabelsTellApart, NEW y \in entries', NEW z \in entries', Label(code, y) = Label(code, z) PROVE y = z
  <2>1. \A w \in entries \ {e} : Label(code, w) # Label(code, e)
    BY <1>7 DEF LabelsTellApart
  <2>2. CASE y = x \/ z = x
    BY <1>2, <1>3, <1>7, <2>1, <2>2
  <2>3. CASE y # x /\ z # x
    BY <1>3, <1>7, <2>3 DEF LabelsTellApart
  <2> QED BY <2>2, <2>3
<1> QED BY <1>3, <1>6, <1>7 DEF LabelsTellApart

LEMMA TeamKeepsShape == ExShaped /\ ExNext => ExShaped' /\ code' = code /\ (LabelsTellApart => LabelsTellApart')
<1> SUFFICES ASSUME ExShaped, ExNext PROVE ExShaped' /\ code' = code /\ (LabelsTellApart => LabelsTellApart')
  OBVIOUS
<1>1. CASE Register
  <2>1. PICK e \in code.routes : /\ \A x \in entries : Label(code, x) # Label(code, e)
                                 /\ entries' = entries \cup {e}
    BY <1>1 DEF Register
  <2>2. code' = code /\ policy' = policy
    BY <1>1 DEF Register
  <2>3. IsFiniteSet(entries') /\ EntriesShaped(code, entries')
    BY <2>1, FS_AddElement DEF ExShaped, EntriesShaped
  <2> QED BY <2>1, <2>2, <2>3 DEF ExShaped, LabelsTellApart
<1>2. CASE Unregister
  <2>1. entries' \subseteq entries /\ code' = code /\ policy' = policy
    BY <1>2 DEF Unregister
  <2>2. IsFiniteSet(entries') /\ EntriesShaped(code, entries')
    BY <2>1, FS_Subset DEF ExShaped, EntriesShaped
  <2> QED BY <2>1, <2>2 DEF ExShaped, LabelsTellApart
<1>3. CASE Mount
  <2>1. PICK e \in entries : \E b \in code.middleware :
          Rechained(e, IF b.scope = "app" THEN <<b>> \o e.chain ELSE Append(e.chain, b))
    BY <1>3 DEF Mount
  <2>2. PICK b \in code.middleware : Rechained(e, IF b.scope = "app" THEN <<b>> \o e.chain ELSE Append(e.chain, b))
    BY <2>1
  <2>3. e.chain \in Seq(BindingShape) /\ ApplicationFirst(e.chain) /\ b \in BindingShape
    BY DEF ExShaped, EntriesShaped, EntryShape, CodeShaped
  <2>4. UNCHANGED <<code, policy>>
    BY <1>3 DEF Mount
  <2> QED BY <2>2, <2>3, <2>4, Longer, RechainingKeeps
<1>4. CASE Unmount
  <2>1. PICK e \in entries : \E k \in DOMAIN e.chain : Rechained(e, RemoveAt(e.chain, k))
    BY <1>4 DEF Unmount
  <2>2. PICK k \in DOMAIN e.chain : Rechained(e, RemoveAt(e.chain, k))
    BY <2>1
  <2>3. e.chain \in Seq(BindingShape) /\ ApplicationFirst(e.chain)
    BY DEF ExShaped, EntriesShaped, EntryShape
  <2>4. UNCHANGED <<code, policy>>
    BY <1>4 DEF Unmount
  <2> QED BY <2>2, <2>3, <2>4, Shorter, RechainingKeeps
<1>5. CASE Declare
  <2>1. PICK r \in policy.drafts : policy' = [policy EXCEPT !.rules = @ \cup {r}]
    BY <1>5 DEF Declare
  <2>2. policy' \in PolicyShape
    BY <2>1 DEF ExShaped, PolicyShape
  <2>3. code' = code /\ entries' = entries
    BY <1>5 DEF Declare
  <2> QED BY <2>2, <2>3 DEF ExShaped, LabelsTellApart
<1> QED BY <1>1, <1>2, <1>3, <1>4, <1>5 DEF ExNext

Said == coverage = Evaluate(code, policy, entries)

LEMMA ExStarts == ExInit => ExShaped /\ Said
<1> SUFFICES ASSUME ExInit PROVE ExShaped /\ Said
  OBVIOUS
<1>1. PICK family \in Applications : \E a \in family :
        /\ code = a.code /\ entries = a.entries /\ policy = a.policy
        /\ coverage = Evaluate(code, policy, entries)
  BY DEF ExInit
<1>2. PICK a \in family : /\ code = a.code /\ entries = a.entries /\ policy = a.policy
                          /\ coverage = Evaluate(code, policy, entries)
  BY <1>1
<1>3. /\ CodeShaped(a.code) /\ IsFiniteSet(a.entries)
      /\ EntriesShaped(a.code, a.entries \cup a.code.routes)
      /\ a.policy \in PolicyShape
  BY ApplicationAssumption
<1> QED BY <1>2, <1>3 DEF ExShaped, EntriesShaped, Said

LEMMA ExKeeps == ExShaped /\ Said /\ [ExNext]_exVars =>
                   ExShaped' /\ Said' /\ code' = code /\ (LabelsTellApart => LabelsTellApart')
<1>1. ASSUME ExShaped, Said, ExNext PROVE ExShaped' /\ Said' /\ code' = code /\ (LabelsTellApart => LabelsTellApart')
  <2>1. ExShaped' /\ code' = code /\ (LabelsTellApart => LabelsTellApart')
    BY <1>1, TeamKeepsShape
  <2>2. NextRun
    BY <1>1 DEF ExNext, Register, Unregister, Mount, Unmount, Declare
  <2> QED BY <2>1, <2>2 DEF NextRun, Said
<1>2. ASSUME ExShaped, Said, UNCHANGED exVars PROVE ExShaped' /\ Said' /\ code' = code /\ (LabelsTellApart => LabelsTellApart')
  BY <1>2 DEF exVars, ExShaped, Said, LabelsTellApart
<1> QED BY <1>1, <1>2

(* Nothing goes quiet (expectation.go 200, 209, 219, surface.go 195): for  *)
(* every application whose routes have labels of their own, and whatever   *)
(* its team does to it between runs.                                       *)
THEOREM QuietCorrect == ExSpec /\ LabelsTellApart => []NothingGoesQuiet
<1>1. ExShaped /\ LabelsTellApart => NothingGoesQuiet
  BY OddOneReported, CausesTrue DEF NothingGoesQuiet
<1> QED BY <1>1, ExStarts, ExKeeps, PTL DEF ExSpec

-----------------------------------------------------------------------------
(* A doubt about a requirement, and what takes it away.                    *)

LEMMA EachRequirementOnce == \A q, r \in Catalog : q.id = r.id => q = r
BY DEF Catalog

LEMMA NothingServedNothingRuns ==
  ASSUME NEW c, NEW s, IsFiniteSet(s), RemoteEntries(s) = 0
  PROVE  UnreachedInputFunctions(c, s) = InputFunctions(c)
<1>1. {f \in s : TrustLevel(f.entry) = "remote"} = {}
  <2> DEFINE R == {f \in s : TrustLevel(f.entry) = "remote"}
  <2>1. IsFiniteSet(R)
    BY FS_Subset
  <2>2. Cardinality(R) = 0
    BY DEF RemoteEntries
  <2> QED BY <2>1, <2>2, FS_EmptySet
<1>2. Roots(s) = {}
  BY <1>1 DEF Roots
<1>3. Reachable(c, s) = {}
  BY <1>2 DEF Reachable, ReachableFrom
<1> QED BY <1>3 DEF UnreachedInputFunctions

(* Of two surfaces of one program whose unreached code is the same, only   *)
(* the first is doubted: then the program reads no input.                  *)
LEMMA DoubtNeedsUnreachedCode ==
  ASSUME NEW c, CodeShaped(c), NEW s, NEW t, IsFiniteSet(s), NEW es, NEW et,
         s = {} \/ Suspect(c, s, es), ~ Suspect(c, t, et),
         UnreachedInputFunctions(c, t) = UnreachedInputFunctions(c, s),
         UnenumeratedRoutes(c, et) = UnenumeratedRoutes(c, es)
  PROVE  InputFunctions(c) = {}
<1> SUFFICES ASSUME InputFunctions(c) # {} PROVE FALSE
  OBVIOUS
<1> DEFINE I == InputFunctions(c)
           U == UnreachedInputFunctions(c, s)
<1>1. IsFiniteSet(I) /\ U \subseteq I
  <2>1. DOMAIN c.fns = 1 .. Len(c.fns) /\ Len(c.fns) \in Nat
    BY DEF CodeShaped
  <2>2. IsFiniteSet(DOMAIN c.fns)
    <3>1. 1 \in Int /\ Len(c.fns) \in Int
      BY <2>1
    <3>2. IsFiniteSet(1 .. Len(c.fns))
      BY <3>1, FS_Interval, Zenon
    <3> QED BY <2>1, <3>2
  <2>3. I \subseteq DOMAIN c.fns /\ U \subseteq I
    BY DEF InputFunctions, UnreachedInputFunctions
  <2> QED BY <2>2, <2>3, FS_Subset
<1>2. IsFiniteSet(U) /\ Cardinality(U) \in Nat /\ Cardinality(I) \in Nat /\ Cardinality(I) # 0
  BY <1>1, FS_Subset, FS_CardinalityType, FS_EmptySet
<1>3. ~ (2 * Cardinality(U) > Cardinality(I))
  BY DEF Suspect, UnreachedShareSuspect
<1>4. RemoteEntries(s) = 0
  <2>1. CASE s = {}
    <3>1. {f \in s : TrustLevel(f.entry) = "remote"} = {}
      BY <2>1
    <3> QED BY <3>1, FS_EmptySet DEF RemoteEntries
  <2>2. CASE Suspect(c, s, es)
    BY <1>3, <2>2 DEF Suspect, UnreachedShareSuspect
  <2> QED BY <2>1, <2>2
<1>5. U = I
  BY <1>4, NothingServedNothingRuns
<1> HIDE DEF U, I
<1> QED BY <1>2, <1>3, <1>5

UnreachedIsNotRun ==
  UnreachedInputFunctions(code, Judged) = InputFunctions(code) \ (RunByARequest \cap InputFunctions(code))

LEMMA UnreachedExactly == ExShaped => UnreachedIsNotRun
BY ReachedIsRun DEF UnreachedInputFunctions, UnreachedIsNotRun

LEMMA FewAreJudged == ExShaped => IsFiniteSet(Judged)
<1> SUFFICES ASSUME ExShaped PROVE IsFiniteSet(Judged)
  OBVIOUS
<1> DEFINE S == {x \in entries : InApplicationSurface(code, ModuleOf(code, x))}
<1>1. IsFiniteSet(S)
  BY FS_Subset DEF ExShaped
<1>2. Judged = {Facts(code, policy, x) : x \in S}
  BY DEF Judged, Entries
<1> HIDE DEF S
<1> QED BY <1>1, <1>2, AsMany

LEMMA DoubtStays ==
  ASSUME ExShaped, Said, Said', UnreachedIsNotRun, UnreachedIsNotRun', code' = code,
         NEW v \in coverage, NEW w \in coverage', v.id = w.id, v.state = "not evaluated", w.state = "satisfied",
         RunByARequest' \cap InputFunctions(code) = RunByARequest \cap InputFunctions(code),
         UnenumeratedRoutes(code, entries)' = UnenumeratedRoutes(code, entries)
  PROVE  InputFunctions(code) = {}
<1>1. PICK q \in Catalog : v = [id |-> q.id, state |-> RequirementState(q, code, policy, Judged, entries)]
  BY DEF Said, Evaluate, Judged
<1>2. PICK r \in Catalog : w = [id |-> r.id, state |-> RequirementState(r, code, policy', Judged', entries')]
  BY DEF Said, Evaluate, Judged
<1>3. q = r
  BY <1>1, <1>2, EachRequirementOnce
<1>4. NotEvaluated(q, code, Judged, entries)
  BY <1>1 DEF RequirementState
<1>5. ~ NotEvaluated(q, code, Judged', entries')
  BY <1>2, <1>3 DEF RequirementState
<1>6. Judged = {} \/ Suspect(code, Judged, entries)
  BY <1>4, <1>5 DEF NotEvaluated
<1>7. ~ Suspect(code, Judged', entries')
  BY <1>5 DEF NotEvaluated
<1>8. UnreachedInputFunctions(code, Judged) = InputFunctions(code) \ (RunByARequest \cap InputFunctions(code))
  BY DEF UnreachedIsNotRun
<1>9. UnreachedInputFunctions(code, Judged') = InputFunctions(code) \ (RunByARequest' \cap InputFunctions(code))
  BY DEF UnreachedIsNotRun
<1>10. UnreachedInputFunctions(code, Judged') = UnreachedInputFunctions(code, Judged)
  BY <1>8, <1>9
<1>11. UnenumeratedRoutes(code, entries') = UnenumeratedRoutes(code, entries)
  OBVIOUS
<1>12. CodeShaped(code) /\ IsFiniteSet(Judged)
  BY FewAreJudged DEF ExShaped
<1> QED BY <1>6, <1>7, <1>10, <1>11, <1>12, DoubtNeedsUnreachedCode

(* A doubt is not outgrown (surface.go 250, 262): whatever a team adds,    *)
(* takes away or declares, a requirement that was not evaluated is         *)
(* satisfied only when a request has come to run more of the code that     *)
(* reads input, or a served file was enumerated.                           *)
THEOREM DoubtCorrect == ExSpec => DoubtIsNotOutgrown
<1> DEFINE Step == (\E v \in coverage, w \in coverage' : v.id = w.id /\ v.state = "not evaluated" /\ w.state = "satisfied") =>
                      \/ InputFunctions(code) = {}
                      \/ RunByARequest' \cap InputFunctions(code) # RunByARequest \cap InputFunctions(code)
                      \/ UnenumeratedRoutes(code, entries)' # UnenumeratedRoutes(code, entries)
<1>1. ExShaped /\ Said /\ [ExNext]_exVars => ExShaped' /\ Said' /\ code' = code
  BY ExKeeps
<1>2. ExShaped /\ Said /\ Said' /\ UnreachedIsNotRun /\ UnreachedIsNotRun' /\ [ExNext]_exVars => [Step]_exVars
  BY <1>1, DoubtStays
<1> QED BY <1>1, <1>2, ExStarts, UnreachedExactly, PTL DEF ExSpec, DoubtIsNotOutgrown

-----------------------------------------------------------------------------
(* The values a class begins with.  Entry points above a function.         *)
LEMMA LeastNatural ==
  ASSUME NEW T \in SUBSET Nat, T # {}
  PROVE  \E n \in T : \A m \in T : n <= m
<1>1. PICK x \in T : \A y \in T : ~(<<y, x>> \in OpToRel(<, Nat))
  BY NatLessThanWellFounded, WFMin
<1>2. ASSUME NEW y \in T PROVE x <= y
  <2>1. ~(y < x)
    BY <1>1 DEF OpToRel
  <2> QED BY <2>1
<1> QED BY <1>2

LEMMA MinIs ==
  ASSUME NEW T \in SUBSET Nat, T # {}
  PROVE  Min(T) \in T /\ \A t \in T : Min(T) <= t
BY LeastNatural DEF Min

LEMMA MaxIs ==
  ASSUME NEW T \in SUBSET Nat, T # {}, NEW n \in Nat, \A t \in T : t <= n
  PROVE  Max(T) \in T /\ \A t \in T : t <= Max(T)
<1>1. \E m \in T : \A t \in T : t <= m
  BY GreatestNatural
<1>2. \A m, t \in T : (t <= m <=> m >= t)
  OBVIOUS
<1> QED BY <1>1, <1>2 DEF Max

LEMMA FirstOfIs ==
  ASSUME NEW places \in SUBSET (Nat \X Nat), places # {}
  PROVE  FirstOf(places) \in places
<1> DEFINE Rows == {x[1] : x \in places}
<1>1. Rows \in SUBSET Nat /\ Rows # {}
  OBVIOUS
<1>2. PICK a \in Rows : \A b \in Rows : a <= b
  BY <1>1, LeastNatural
<1> DEFINE Cols == {x[2] : x \in {y \in places : y[1] = a}}
<1>3. Cols \in SUBSET Nat /\ Cols # {}
  BY <1>2
<1>4. PICK c \in Cols : \A d \in Cols : c <= d
  BY <1>3, LeastNatural
<1>5. PICK x \in places : x[1] = a /\ x[2] = c
  BY <1>4
<1>6. ASSUME NEW y \in places PROVE x[1] < y[1] \/ (x[1] = y[1] /\ x[2] <= y[2])
  <2>1. x[1] \in Nat /\ y[1] \in Nat /\ x[1] <= y[1]
    BY <1>1, <1>2, <1>5
  <2>2. x[1] = y[1] => x[2] <= y[2]
    BY <1>4, <1>5
  <2> QED BY <2>1, <2>2
<1> QED BY <1>5, <1>6 DEF FirstOf

-----------------------------------------------------------------------------
Table(p) ==
  CHOOSE served : served = [n \in 0 .. Len(p.fns) |-> IF n = 0 THEN [g \in DOMAIN p.fns |-> EntryAt(p, g)]
                                                      ELSE Higher(p, served[n - 1])]

LEMMA EntryOfIs == \A p, f : EntryOf(p, f) = Table(p)[Len(p.fns)][f]
BY DEF EntryOf, Table

LEMMA FnsShape ==
  ASSUME NEW p, IntakeShaped(p)
  PROVE  /\ Len(p.fns) \in Nat /\ DOMAIN p.fns = 1 .. Len(p.fns)
         /\ Len(p.entries) \in Nat /\ DOMAIN p.entries = 1 .. Len(p.entries)
         /\ Len(p.val) \in Nat /\ DOMAIN p.val = 1 .. Len(p.val)
         /\ \A f \in DOMAIN p.fns : p.fns[f] \in DefShape(p)
         /\ \A e \in DOMAIN p.entries : p.entries[e] \in EnteredShape(p)
BY DEF IntakeShaped

LEMMA TableIs ==
  ASSUME NEW p, IntakeShaped(p)
  PROVE  /\ Table(p)[0] = [g \in DOMAIN p.fns |-> EntryAt(p, g)]
         /\ \A n \in 1 .. Len(p.fns) : Table(p)[n] = Higher(p, Table(p)[n - 1])
<1> DEFINE N == Len(p.fns)
           Base == [g \in DOMAIN p.fns |-> EntryAt(p, g)]
           Obeys(s, n) == s = [k \in 0 .. n |-> IF k = 0 THEN Base ELSE Higher(p, s[k - 1])]
           Missing == {n \in 0 .. N : ~ \E s : Obeys(s, n)}
<1>0. N \in Nat
  BY FnsShape
<1>1. ASSUME Missing # {} PROVE FALSE
  <2>1. PICK n \in Missing : \A m \in Missing : n <= m
    <3>1. Missing \in SUBSET Nat
      BY <1>0
    <3> QED BY <3>1, <1>1, LeastNatural
  <2>2. CASE n = 0
    <3>1. Obeys([k \in 0 .. 0 |-> Base], 0)
      OBVIOUS
    <3> QED BY <3>1, <2>1, <2>2
  <2>3. CASE n # 0
    <3>0. n \in 0 .. N /\ n - 1 \in 0 .. N /\ n \in 1 .. N /\ ~ (n <= n - 1)
      BY <2>3, <1>0
    <3>1. n - 1 \in 0 .. N /\ n - 1 \notin Missing /\ n \in 1 .. N
      BY <3>0, <2>1
    <3>2. PICK s : Obeys(s, n - 1)
      BY <3>1
    <3> DEFINE t == [k \in 0 .. n |-> IF k = n THEN Higher(p, s[n - 1]) ELSE s[k]]
    <3>3. ASSUME NEW k \in 0 .. n PROVE t[k] = IF k = 0 THEN Base ELSE Higher(p, t[k - 1])
      <4>1. CASE k = n
        BY <4>1, <3>1
      <4>2. CASE k # n /\ k = 0
        BY <4>2, <3>1, <3>2
      <4>3. CASE k # n /\ k # 0
        <5>1. k \in 0 .. n - 1 /\ k - 1 \in 0 .. n - 1 /\ k - 1 \in 0 .. n /\ k - 1 # n
          BY <4>3, <3>1
        <5>2. t[k] = s[k] /\ t[k - 1] = s[k - 1]
          BY <4>3, <5>1
        <5>3. s[k] = Higher(p, s[k - 1])
          BY <3>2, <5>1, <4>3
        <5> QED BY <5>2, <5>3, <4>3
      <4> QED BY <4>1, <4>2, <4>3
    <3>4. Obeys(t, n)
      <4> HIDE DEF Base
      <4>1. t = [k \in 0 .. n |-> t[k]]
        OBVIOUS
      <4> HIDE DEF t
      <4> QED BY <4>1, <3>3
    <3> QED BY <3>4, <2>1
  <2> QED BY <2>2, <2>3
<1>2. \E s : Obeys(s, N)
  BY <1>0, <1>1
<1>3. Obeys(Table(p), N)
  BY <1>2 DEF Table
<1>4. Table(p)[0] = Base
  <2>1. 0 \in 0 .. N
    BY <1>0
  <2> QED BY <1>3, <2>1
<1>5. ASSUME NEW n \in 1 .. N PROVE Table(p)[n] = Higher(p, Table(p)[n - 1])
  <2>1. n \in 0 .. N /\ n # 0
    BY <1>0
  <2> QED BY <1>3, <2>1
<1> QED BY <1>4, <1>5

LEMMA UpTo ==
  ASSUME NEW N \in Nat, NEW S, 0 \in S, \A n \in 1 .. N : n - 1 \in S => n \in S
  PROVE  \A n \in 0 .. N : n \in S
<1> DEFINE Missing == {n \in 0 .. N : n \notin S}
<1>1. SUFFICES ASSUME Missing # {} PROVE FALSE
  OBVIOUS
<1>2. PICK n \in Missing : \A m \in Missing : n <= m
  <2>1. Missing \in SUBSET Nat
    OBVIOUS
  <2> QED BY <2>1, <1>1, LeastNatural
<1>3. n \in 1 .. N /\ n - 1 \in 0 .. N /\ ~ (n <= n - 1)
  OBVIOUS
<1>4. n - 1 \in S
  BY <1>2, <1>3
<1> QED BY <1>3, <1>4

LEMMA EntryAtIs ==
  ASSUME NEW p, IntakeShaped(p), NEW f \in DOMAIN p.fns
  PROVE  /\ EntryAt(p, f) \in {0} \cup DOMAIN p.entries
         /\ EntryAt(p, f) # 0 <=> Registered(p, f) # {}
         /\ EntryAt(p, f) # 0 => EntryAt(p, f) \in DOMAIN p.entries /\ p.entries[EntryAt(p, f)].fn = f
<1>1. Registered(p, f) \in SUBSET Nat /\ Len(p.entries) \in Nat /\ \A e \in Registered(p, f) : e <= Len(p.entries)
  BY FnsShape DEF Registered
<1>2. Registered(p, f) # {} => Max(Registered(p, f)) \in Registered(p, f)
  BY <1>1, MaxIs
<1>3. 0 \notin DOMAIN p.entries
  BY FnsShape
<1>4. \A e \in Registered(p, f) : e \in DOMAIN p.entries /\ p.entries[e].fn = f
  BY DEF Registered
<1> QED BY <1>2, <1>3, <1>4 DEF EntryAt

Serving(p) == [DOMAIN p.fns -> {0} \cup DOMAIN p.entries]

LEMMA HigherIs ==
  ASSUME NEW p, IntakeShaped(p), NEW s \in Serving(p)
  PROVE  /\ Higher(p, s) \in Serving(p)
         /\ \A f \in DOMAIN p.fns :
              /\ s[f] # 0 => Higher(p, s)[f] = s[f]
              /\ s[f] = 0 /\ Higher(p, s)[f] # 0 =>
                   \E g \in DOMAIN p.fns : s[g] # 0 /\ Hands(p, g, f) /\ Higher(p, s)[f] = s[g]
              /\ \A g \in DOMAIN p.fns : s[g] # 0 /\ Hands(p, g, f) => Higher(p, s)[f] # 0
<1> DEFINE Those(S) == {g \in S : s[g] # 0}
           Above(f) == IF Those(CalledBy(p, f)) # {} THEN Those(CalledBy(p, f)) ELSE Those(HandedBy(p, f))
<1>1. \A f \in DOMAIN p.fns : Higher(p, s)[f] = IF s[f] # 0 \/ Above(f) = {} THEN s[f] ELSE s[Min(Above(f))]
  BY DEF Higher
<1>2. DOMAIN Higher(p, s) = DOMAIN p.fns /\ Higher(p, s) = [f \in DOMAIN p.fns |-> Higher(p, s)[f]]
  BY DEF Higher
<1>3. \A f \in DOMAIN p.fns : s[f] \in {0} \cup DOMAIN p.entries
  BY DEF Serving
<1>4. ASSUME NEW f \in DOMAIN p.fns, Above(f) # {}
      PROVE  Min(Above(f)) \in DOMAIN p.fns /\ s[Min(Above(f))] # 0 /\ Hands(p, Min(Above(f)), f)
  <2>1. Above(f) \in SUBSET Nat
    BY FnsShape DEF CalledBy, HandedBy
  <2>2. Min(Above(f)) \in Above(f)
    BY <2>1, <1>4, MinIs
  <2>3. \A g \in Above(f) : g \in DOMAIN p.fns /\ s[g] # 0 /\ Hands(p, g, f)
    BY DEF CalledBy, HandedBy, Hands
  <2> QED BY <2>2, <2>3
<1>5. ASSUME NEW f \in DOMAIN p.fns, NEW g \in DOMAIN p.fns, s[g] # 0, Hands(p, g, f)
      PROVE  Above(f) # {}
  BY <1>5 DEF CalledBy, HandedBy, Hands
<1> HIDE DEF Above
<1>6. \A f \in DOMAIN p.fns : Higher(p, s)[f] \in {0} \cup DOMAIN p.entries
  BY <1>1, <1>3, <1>4
<1>7. Higher(p, s) \in Serving(p)
  BY <1>2, <1>6 DEF Serving
<1>8. ASSUME NEW f \in DOMAIN p.fns
      PROVE  /\ s[f] # 0 => Higher(p, s)[f] = s[f]
             /\ s[f] = 0 /\ Higher(p, s)[f] # 0 =>
                  \E g \in DOMAIN p.fns : s[g] # 0 /\ Hands(p, g, f) /\ Higher(p, s)[f] = s[g]
  BY <1>1, <1>4
<1>9. ASSUME NEW f \in DOMAIN p.fns, NEW g \in DOMAIN p.fns, s[g] # 0, Hands(p, g, f)
      PROVE  Higher(p, s)[f] # 0
  BY <1>9, <1>1, <1>4, <1>5
<1> QED BY <1>7, <1>8, <1>9

LEMMA TableType ==
  ASSUME NEW p, IntakeShaped(p)
  PROVE  \A n \in 0 .. Len(p.fns) : Table(p)[n] \in Serving(p)
<1> DEFINE S == {n \in 0 .. Len(p.fns) : Table(p)[n] \in Serving(p)}
<1>0. Len(p.fns) \in Nat
  BY FnsShape
<1>1. 0 \in S
  <2>1. [g \in DOMAIN p.fns |-> EntryAt(p, g)] \in Serving(p)
    BY EntryAtIs DEF Serving
  <2> QED BY <2>1, <1>0, TableIs
<1>2. ASSUME NEW n \in 1 .. Len(p.fns), n - 1 \in S PROVE n \in S
  <2>1. Table(p)[n - 1] \in Serving(p) /\ n \in 0 .. Len(p.fns)
    BY <1>0, <1>2
  <2>2. Higher(p, Table(p)[n - 1]) \in Serving(p)
    BY <2>1, HigherIs
  <2> QED BY <2>1, <2>2, TableIs
<1> HIDE DEF S
<1>3. \A n \in 0 .. Len(p.fns) : n \in S
  BY <1>0, <1>1, <1>2, UpTo
<1> QED BY <1>3 DEF S

(* An entry point a function is given is one that makes it run.            *)
LEMMA GivenServes ==
  ASSUME NEW p, IntakeShaped(p)
  PROVE  \A n \in 0 .. Len(p.fns) : \A f \in DOMAIN p.fns :
           /\ Table(p)[n][f] # 0 => f \in Serves(p, Table(p)[n][f])
           /\ EntryAt(p, f) # 0 => Table(p)[n][f] = EntryAt(p, f)
<1> DEFINE Good(n, f) == /\ Table(p)[n][f] # 0 => f \in Serves(p, Table(p)[n][f])
                         /\ EntryAt(p, f) # 0 => Table(p)[n][f] = EntryAt(p, f)
           S == {n \in 0 .. Len(p.fns) : \A f \in DOMAIN p.fns : Good(n, f)}
<1>0. Len(p.fns) \in Nat /\ 0 \notin DOMAIN p.fns
  BY FnsShape
<1>1. 0 \in S
  <2>1. ASSUME NEW f \in DOMAIN p.fns PROVE Good(0, f)
    <3>1. Table(p)[0][f] = EntryAt(p, f)
      BY TableIs
    <3>2. EntryAt(p, f) # 0 => f \in Serves(p, EntryAt(p, f))
      BY EntryAtIs, <1>0 DEF Serves
    <3> QED BY <3>1, <3>2
  <2> QED BY <2>1, <1>0
<1>2. ASSUME NEW n \in 1 .. Len(p.fns), n - 1 \in S PROVE n \in S
  <2>0. n - 1 \in 0 .. Len(p.fns) /\ n \in 0 .. Len(p.fns)
    BY <1>0
  <2>1. Table(p)[n - 1] \in Serving(p) /\ Table(p)[n] = Higher(p, Table(p)[n - 1])
    BY <2>0, TableType, TableIs
  <2>2. ASSUME NEW f \in DOMAIN p.fns PROVE Good(n, f)
    <3>1. Good(n - 1, f)
      BY <1>2
    <3>2. CASE Table(p)[n - 1][f] # 0
      BY <3>1, <3>2, <2>1, HigherIs
    <3>3. CASE Table(p)[n - 1][f] = 0 /\ Table(p)[n][f] # 0
      <4>1. PICK g \in DOMAIN p.fns : Table(p)[n - 1][g] # 0 /\ Hands(p, g, f) /\ Table(p)[n][f] = Table(p)[n - 1][g]
        BY <3>3, <2>1, HigherIs
      <4>2. g \in Serves(p, Table(p)[n][f])
        BY <4>1, <1>2
      <4>3. f \in Serves(p, Table(p)[n][f])
        BY <4>1, <4>2 DEF Serves
      <4> QED BY <3>1, <3>3, <4>3
    <3>4. CASE Table(p)[n][f] = 0 /\ Table(p)[n - 1][f] = 0
      BY <3>1, <3>4
    <3> QED BY <3>2, <3>3, <3>4
  <2> QED BY <2>0, <2>2
<1> HIDE DEF S
<1>3. \A n \in 0 .. Len(p.fns) : n \in S
  BY <1>0, <1>1, <1>2, UpTo
<1> QED BY <1>3 DEF S

(* What is given none after as many steps as there are functions is not    *)
(* handed anything by what is given one: each step before reaches one more,*)
(* or none can be reached.                                                 *)
Reached(p, n)   == {f \in DOMAIN p.fns : Table(p)[n][f] # 0}
ClosedUp(p, Z)  == \A g \in Z, h \in DOMAIN p.fns : Hands(p, g, h) => h \in Z

LEMMA ReachedGrows ==
  ASSUME NEW p, IntakeShaped(p), NEW n \in 1 .. Len(p.fns)
  PROVE  /\ Reached(p, n - 1) \subseteq Reached(p, n)
         /\ ClosedUp(p, Reached(p, n - 1)) => Reached(p, n) = Reached(p, n - 1)
         /\ Reached(p, n) = Reached(p, n - 1) => ClosedUp(p, Reached(p, n - 1))
<1>0. Len(p.fns) \in Nat /\ n - 1 \in 0 .. Len(p.fns)
  BY FnsShape
<1>1. Table(p)[n - 1] \in Serving(p) /\ Table(p)[n] = Higher(p, Table(p)[n - 1])
  BY <1>0, TableType, TableIs
<1>2. ASSUME NEW f \in DOMAIN p.fns
      PROVE  /\ Table(p)[n - 1][f] # 0 => Table(p)[n][f] # 0
             /\ Table(p)[n - 1][f] = 0 /\ Table(p)[n][f] # 0 =>
                  \E g \in DOMAIN p.fns : Table(p)[n - 1][g] # 0 /\ Hands(p, g, f)
             /\ \A g \in DOMAIN p.fns : Table(p)[n - 1][g] # 0 /\ Hands(p, g, f) => Table(p)[n][f] # 0
  BY <1>1, HigherIs
<1> QED BY <1>2 DEF Reached, ClosedUp

LEMMA ReachedIsClosed ==
  ASSUME NEW p, IntakeShaped(p)
  PROVE  ClosedUp(p, Reached(p, Len(p.fns)))
<1> DEFINE N == Len(p.fns)
           Many(n) == ClosedUp(p, Reached(p, n)) \/ Cardinality(Reached(p, n)) >= n
           S == {n \in 0 .. N : Many(n)}
<1>0. N \in Nat /\ DOMAIN p.fns = 1 .. N
  BY FnsShape
<1>1. IsFiniteSet(DOMAIN p.fns) /\ Cardinality(DOMAIN p.fns) = N
  <2>1. 1 \in Int /\ N \in Int
    BY <1>0
  <2>2. IsFiniteSet(1 .. N) /\ Cardinality(1 .. N) = IF 1 > N THEN 0 ELSE N - 1 + 1
    BY <2>1, FS_Interval, Zenon
  <2> QED BY <2>2, <1>0
<1>2. \A n : /\ Reached(p, n) \in SUBSET DOMAIN p.fns /\ IsFiniteSet(Reached(p, n))
             /\ Cardinality(Reached(p, n)) \in Nat
             /\ Cardinality(Reached(p, n)) <= N
             /\ Cardinality(Reached(p, n)) = N => Reached(p, n) = DOMAIN p.fns
  <2>1. \A n : Reached(p, n) \in SUBSET DOMAIN p.fns
    BY DEF Reached
  <2>2. \A n : /\ IsFiniteSet(Reached(p, n))
               /\ Cardinality(Reached(p, n)) <= Cardinality(DOMAIN p.fns)
               /\ Cardinality(DOMAIN p.fns) = Cardinality(Reached(p, n)) => DOMAIN p.fns = Reached(p, n)
    BY <2>1, <1>1, FS_Subset
  <2>3. \A n : Cardinality(Reached(p, n)) \in Nat
    BY <2>2, FS_CardinalityType
  <2> QED BY <1>1, <2>1, <2>2, <2>3
<1>3. 0 \in S
  BY <1>0, <1>2
<1>4. ASSUME NEW n \in 1 .. N, n - 1 \in S PROVE n \in S
  <2>0. n \in 0 .. N /\ n - 1 \in Nat /\ n \in Nat
    BY <1>0
  <2>1. CASE ClosedUp(p, Reached(p, n - 1))
    BY <2>0, <2>1, ReachedGrows
  <2>2. CASE Reached(p, n) # Reached(p, n - 1) /\ ~ ClosedUp(p, Reached(p, n - 1))
    <3>1. Reached(p, n - 1) \in SUBSET Reached(p, n)
      BY ReachedGrows
    <3>2. /\ Cardinality(Reached(p, n - 1)) <= Cardinality(Reached(p, n))
          /\ Cardinality(Reached(p, n)) = Cardinality(Reached(p, n - 1)) => Reached(p, n) = Reached(p, n - 1)
      BY <3>1, <1>2, FS_Subset
    <3>3. Cardinality(Reached(p, n - 1)) >= n - 1
      BY <1>4, <2>2
    <3>4. Cardinality(Reached(p, n - 1)) \in Nat /\ Cardinality(Reached(p, n)) \in Nat
      BY <1>2
    <3>5. Cardinality(Reached(p, n)) >= n
      BY <2>0, <2>2, <3>2, <3>3, <3>4
    <3> QED BY <2>0, <3>5
  <2>3. CASE Reached(p, n) = Reached(p, n - 1) /\ ~ ClosedUp(p, Reached(p, n - 1))
    BY <2>3, ReachedGrows
  <2> QED BY <2>1, <2>2, <2>3
<1> HIDE DEF S
<1>5. N \in S
  <2>1. \A n \in 0 .. N : n \in S
    BY <1>0, <1>3, <1>4, UpTo
  <2> QED BY <2>1, <1>0
<1>6. CASE Cardinality(Reached(p, N)) >= N
  <2>1. Reached(p, N) = DOMAIN p.fns
    BY <1>0, <1>2, <1>6
  <2> QED BY <2>1 DEF ClosedUp
<1> QED BY <1>5, <1>6 DEF S

(* EntryOf says which entry point makes a function run, its own if it has  *)
(* one, and says none only where there is none.                            *)
LEMMA EntryOfServes ==
  ASSUME NEW p, IntakeShaped(p), NEW f \in DOMAIN p.fns
  PROVE  /\ EntryOf(p, f) \in {0} \cup DOMAIN p.entries
         /\ EntryOf(p, f) # 0 => f \in Serves(p, EntryOf(p, f))
         /\ EntryOf(p, f) # 0 /\ Registered(p, f) # {} => p.entries[EntryOf(p, f)].fn = f
         /\ EntryOf(p, f) = 0 => \A d \in DOMAIN p.entries : f \notin Serves(p, d)
<1> DEFINE N == Len(p.fns)
<1>0. N \in Nat /\ N \in 0 .. N
  BY FnsShape
<1>1. EntryOf(p, f) = Table(p)[N][f] /\ Table(p)[N] \in Serving(p)
  BY <1>0, EntryOfIs, TableType
<1>2. \A g \in DOMAIN p.fns : /\ Table(p)[N][g] # 0 => g \in Serves(p, Table(p)[N][g])
                              /\ EntryAt(p, g) # 0 => Table(p)[N][g] = EntryAt(p, g)
  BY <1>0, GivenServes
<1>3. EntryOf(p, f) \in {0} \cup DOMAIN p.entries
  BY <1>1 DEF Serving
<1>4. ASSUME NEW d \in DOMAIN p.entries, f \in Serves(p, d) PROVE Table(p)[N][f] # 0
  <2>1. ClosedUp(p, Reached(p, N))
    BY ReachedIsClosed
  <2>2. p.entries[d].fn \in {0} \cup DOMAIN p.fns
    BY FnsShape DEF EnteredShape
  <2>3. p.entries[d].fn # 0 => p.entries[d].fn \in Reached(p, N)
    <3>1. ASSUME p.entries[d].fn # 0 PROVE p.entries[d].fn \in Reached(p, N)
      <4>1. p.entries[d].fn \in DOMAIN p.fns /\ Registered(p, p.entries[d].fn) # {}
        BY <2>2, <3>1 DEF Registered
      <4>2. EntryAt(p, p.entries[d].fn) # 0
        BY <4>1, EntryAtIs
      <4> QED BY <4>1, <4>2, <1>2 DEF Reached
    <3> QED BY <3>1
  <2>4. Reached(p, N) \in SUBSET DOMAIN p.fns
    BY DEF Reached
  <2>5. f \in Reached(p, N)
    BY <1>4, <2>1, <2>2, <2>3, <2>4 DEF Serves, ClosedUp
  <2> QED BY <2>5 DEF Reached
<1> QED BY <1>1, <1>2, <1>3, <1>4, EntryAtIs

-----------------------------------------------------------------------------
(* Where claims stand.                                                     *)
LEMMA NoZero ==
  ASSUME NEW p, IntakeShaped(p)
  PROVE  0 \notin DOMAIN p.val /\ 0 \notin DOMAIN p.entries /\ 0 \notin DOMAIN p.fns
<1>1. /\ DOMAIN p.fns = 1 .. Len(p.fns) /\ DOMAIN p.entries = 1 .. Len(p.entries)
      /\ DOMAIN p.val = 1 .. Len(p.val)
  BY FnsShape
<1>2. \A n : 0 \notin 1 .. n
  OBVIOUS
<1> QED BY <1>1, <1>2

LEMMA StandsInIs ==
  ASSUME NEW p, IntakeShaped(p), NEW f \in DOMAIN p.fns, NEW v \in Range(p.fns[f].vals)
  PROVE  StandsIn(p, v) = f /\ v \in DOMAIN p.val /\ v # 0
<1>1. \A g \in DOMAIN p.fns : v \in Range(p.fns[g].vals) => g = f
  BY DEF IntakeShaped
<1>2. StandsIn(p, v) = f
  BY <1>1 DEF StandsIn
<1>3. p.fns[f].vals \in Seq(DOMAIN p.val)
  BY FnsShape DEF DefShape
<1>4. v \in DOMAIN p.val
  BY <1>3 DEF Range
<1> QED BY <1>2, <1>4, FnsShape

LEMMA PlacesAre ==
  ASSUME NEW p, IntakeShaped(p)
  PROVE  /\ ValuePlaces(p) \in SUBSET (Nat \X Nat) /\ CallPlaces(p) \in SUBSET (Nat \X Nat)
         /\ AnswerPlaces(p) \in SUBSET CallPlaces(p)
         /\ \A x \in ValuePlaces(p) : x[1] \in DOMAIN p.fns /\ ValueAt(p, x) \in Range(p.fns[x[1]].vals)
         /\ \A x \in CallPlaces(p) : /\ x[1] \in DOMAIN p.fns /\ x[2] \in DOMAIN p.fns[x[1]].calls
                                     /\ CallAt(p, x) \in Range(p.fns[x[1]].calls)
         /\ \A x \in AnswerPlaces(p) : CallAt(p, x).result \in Range(p.fns[x[1]].vals)
<1>1. \A f \in DOMAIN p.fns : f \in Nat /\ DOMAIN p.fns[f].vals \in SUBSET Nat /\ DOMAIN p.fns[f].calls \in SUBSET Nat
  BY FnsShape DEF DefShape
<1>2. /\ ValuePlaces(p) \in SUBSET (Nat \X Nat)
      /\ \A x \in ValuePlaces(p) : x[1] \in DOMAIN p.fns /\ ValueAt(p, x) \in Range(p.fns[x[1]].vals)
  <2>1. \A x \in ValuePlaces(p) : \E f \in DOMAIN p.fns : x \in {f} \X DOMAIN p.fns[f].vals
    BY DEF ValuePlaces
  <2>2. \A x \in ValuePlaces(p) :
          x \in Nat \X Nat /\ x[1] \in DOMAIN p.fns /\ x[2] \in DOMAIN p.fns[x[1]].vals
    BY <1>1, <2>1
  <2> QED BY <2>2 DEF ValueAt, Range
<1>3. /\ CallPlaces(p) \in SUBSET (Nat \X Nat)
      /\ \A x \in CallPlaces(p) : /\ x[1] \in DOMAIN p.fns /\ x[2] \in DOMAIN p.fns[x[1]].calls
                                  /\ CallAt(p, x) \in Range(p.fns[x[1]].calls)
  <2>1. \A x \in CallPlaces(p) : \E f \in DOMAIN p.fns : x \in {f} \X DOMAIN p.fns[f].calls
    BY DEF CallPlaces
  <2>2. \A x \in CallPlaces(p) :
          x \in Nat \X Nat /\ x[1] \in DOMAIN p.fns /\ x[2] \in DOMAIN p.fns[x[1]].calls
    BY <1>1, <2>1
  <2> QED BY <2>2 DEF CallAt, Range
<1>4. /\ AnswerPlaces(p) \in SUBSET CallPlaces(p)
      /\ \A x \in AnswerPlaces(p) : CallAt(p, x).result # 0
  BY DEF AnswerPlaces
<1>5. \A x \in AnswerPlaces(p) : CallAt(p, x).result \in Range(p.fns[x[1]].vals)
  BY <1>3, <1>4 DEF IntakeShaped
<1> QED BY <1>2, <1>3, <1>4, <1>5

LEMMA EntryPlacesAre ==
  ASSUME NEW p, IntakeShaped(p), NEW r
  PROVE  /\ Taken(p, r) \in SUBSET DOMAIN p.entries
         /\ \A e \in Taken(p, r) : Takes(p, r, e) /\ e \in Nat /\ p.entries[e].fn \in DOMAIN p.fns
         /\ EntryPlaces(p, r) \in SUBSET (Nat \X Nat)
         /\ \A x \in EntryPlaces(p, r) :
              x[1] \in Taken(p, r) /\ ValueAt(p, Answering(p, x)) \in Range(p.fns[p.entries[x[1]].fn].vals)
<1>1. /\ Taken(p, r) \in SUBSET DOMAIN p.entries
      /\ \A e \in Taken(p, r) : Takes(p, r, e) /\ e \in Nat /\ p.entries[e].fn \in DOMAIN p.fns
  <2>1. \A e \in DOMAIN p.entries : e \in Nat /\ p.entries[e].fn \in {0} \cup DOMAIN p.fns
    BY FnsShape DEF EnteredShape
  <2>2. \A e \in Taken(p, r) : e \in DOMAIN p.entries /\ Takes(p, r, e)
    BY DEF Taken
  <2>3. \A e : Takes(p, r, e) => p.entries[e].fn # 0
    BY DEF Takes
  <2> QED BY <2>1, <2>2, <2>3
<1>2. \A x \in EntryPlaces(p, r) : \E e \in Taken(p, r) : x \in {e} \X DOMAIN p.fns[p.entries[e].fn].vals
  BY DEF EntryPlaces
<1>3. \A f \in DOMAIN p.fns : DOMAIN p.fns[f].vals \in SUBSET Nat
  BY FnsShape DEF DefShape
<1>4. \A x \in EntryPlaces(p, r) :
        /\ x \in Nat \X Nat /\ x[1] \in Taken(p, r)
        /\ x[2] \in DOMAIN p.fns[p.entries[x[1]].fn].vals
  BY <1>1, <1>2, <1>3
<1>5. \A x : ValueAt(p, Answering(p, x)) = p.fns[p.entries[x[1]].fn].vals[x[2]]
  BY DEF ValueAt, Answering
<1> QED BY <1>1, <1>4, <1>5 DEF Range

LEMMA ParamAtIs ==
  ASSUME NEW p, IntakeShaped(p), NEW f \in DOMAIN p.fns, NEW index
  PROVE  ParamAt(p, f, index) \in SUBSET ({0} \cup Range(p.fns[f].vals))
<1>1. \A i \in DOMAIN p.fns[f].params : p.fns[f].params[i].val \in {0} \cup Range(p.fns[f].vals)
  BY DEF IntakeShaped, Range
<1> QED BY <1>1 DEF ParamAt

LEMMA OneCall ==
  ASSUME NEW p, IntakeShaped(p), NEW x \in AnswerPlaces(p), NEW y \in AnswerPlaces(p),
         CallAt(p, x).result = CallAt(p, y).result
  PROVE  x = y
<1>1. x \in Nat \X Nat /\ y \in Nat \X Nat /\ x \in CallPlaces(p) /\ y \in CallPlaces(p)
  BY PlacesAre
<1>2. /\ x[1] \in DOMAIN p.fns /\ y[1] \in DOMAIN p.fns
      /\ x[2] \in DOMAIN p.fns[x[1]].calls /\ y[2] \in DOMAIN p.fns[y[1]].calls
  BY <1>1, PlacesAre
<1>3. CallAt(p, x).result # 0
  BY DEF AnswerPlaces
<1>4. p.fns[x[1]].calls[x[2]].result = p.fns[y[1]].calls[y[2]].result /\ p.fns[x[1]].calls[x[2]].result # 0
  BY <1>3 DEF CallAt
<1>5. \A f, g \in DOMAIN p.fns : \A i \in DOMAIN p.fns[f].calls, j \in DOMAIN p.fns[g].calls :
        p.fns[f].calls[i].result = p.fns[g].calls[j].result /\ p.fns[f].calls[i].result # 0 => f = g /\ i = j
  BY DEF IntakeShaped
<1>6. x[1] = y[1] /\ x[2] = y[2]
  BY <1>2, <1>4, <1>5
<1> QED BY <1>1, <1>6

-----------------------------------------------------------------------------
(* What a rule claims.                                                     *)
Bare(c)     == c.converter = "" /\ c.columns = {}
Aimed(p, c) == c.val \in DOMAIN p.val => Anchored(p, c)

LEMMA OwnAnchor ==
  ASSUME NEW p, IntakeShaped(p), NEW f \in DOMAIN p.fns, NEW c,
         c.val \in Range(p.fns[f].vals), c.entry = EntryOf(p, f)
  PROVE  Anchored(p, c)
<1>1. StandsIn(p, c.val) = f
  BY StandsInIs
<1> QED BY <1>1, EntryOfServes DEF Anchored

LEMMA EntryAnchor ==
  ASSUME NEW p, IntakeShaped(p), NEW c, c.entry \in DOMAIN p.entries, p.entries[c.entry].fn \in DOMAIN p.fns,
         c.val \in Range(p.fns[p.entries[c.entry].fn].vals)
  PROVE  Anchored(p, c)
<1>1. StandsIn(p, c.val) = p.entries[c.entry].fn /\ c.entry # 0
  BY StandsInIs, FnsShape
<1>2. p.entries[c.entry].fn \in Serves(p, c.entry)
  BY FnsShape DEF Serves
<1> QED BY <1>1, <1>2 DEF Anchored

LEMMA ClaimFields ==
  ASSUME NEW p, NEW v, NEW e, NEW f
  PROVE  /\ ClaimOf(p, v, e).val = v /\ ClaimOf(p, v, e).entry = e /\ Bare(ClaimOf(p, v, e))
         /\ ClaimWithin(p, v, f).val = v /\ ClaimWithin(p, v, f).entry = EntryOf(p, f) /\ Bare(ClaimWithin(p, v, f))
         /\ ClaimBelow(p, v, f).val = v /\ ClaimBelow(p, v, f).entry = EntryOf(p, f) /\ Bare(ClaimBelow(p, v, f))
BY DEF ClaimOf, ClaimWithin, ClaimBelow, Claim, Bare

(* What a rule of values, of calls or of one entry point's own function    *)
(* claims.                                                                 *)
Plainly(p, C) == /\ DOMAIN C \in SUBSET (Nat \X Nat)
                 /\ \A x \in DOMAIN C : Aimed(p, C[x]) /\ Bare(C[x])

LEMMA OfValues ==
  ASSUME NEW p, IntakeShaped(p), NEW C, DOMAIN C \in SUBSET ValuePlaces(p),
         \A x \in DOMAIN C : \/ C[x] = ClaimWithin(p, ValueAt(p, x), x[1])
                             \/ C[x] = ClaimBelow(p, ValueAt(p, x), x[1])
  PROVE  Plainly(p, C)
<1>1. ASSUME NEW x \in DOMAIN C PROVE Anchored(p, C[x]) /\ Bare(C[x])
  <2>1. x \in ValuePlaces(p) /\ x[1] \in DOMAIN p.fns /\ ValueAt(p, x) \in Range(p.fns[x[1]].vals)
    BY PlacesAre
  <2>2. C[x].val = ValueAt(p, x) /\ C[x].entry = EntryOf(p, x[1]) /\ Bare(C[x])
    BY ClaimFields
  <2> QED BY <2>1, <2>2, OwnAnchor
<1> QED BY <1>1, PlacesAre DEF Plainly, Aimed

LEMMA OfAnswers ==
  ASSUME NEW p, IntakeShaped(p), NEW C, DOMAIN C \in SUBSET AnswerPlaces(p),
         \A x \in DOMAIN C : \/ C[x] = ClaimWithin(p, CallAt(p, x).result, x[1])
                             \/ C[x] = ClaimBelow(p, CallAt(p, x).result, x[1])
  PROVE  Plainly(p, C)
<1>1. ASSUME NEW x \in DOMAIN C PROVE Anchored(p, C[x]) /\ Bare(C[x])
  <2>1. x \in AnswerPlaces(p) /\ x[1] \in DOMAIN p.fns /\ CallAt(p, x).result \in Range(p.fns[x[1]].vals)
    BY PlacesAre
  <2>2. C[x].val = CallAt(p, x).result /\ C[x].entry = EntryOf(p, x[1]) /\ Bare(C[x])
    BY ClaimFields
  <2> QED BY <2>1, <2>2, OwnAnchor
<1>2. AnswerPlaces(p) \in SUBSET (Nat \X Nat)
  BY PlacesAre
<1> QED BY <1>1, <1>2 DEF Plainly, Aimed

LEMMA OfEntries ==
  ASSUME NEW p, IntakeShaped(p), NEW r, NEW C, DOMAIN C \in SUBSET EntryPlaces(p, r),
         \A x \in DOMAIN C : C[x] = ClaimOf(p, ValueAt(p, Answering(p, x)), x[1])
  PROVE  Plainly(p, C)
<1>1. ASSUME NEW x \in DOMAIN C PROVE Anchored(p, C[x]) /\ Bare(C[x])
  <2>1. /\ x[1] \in DOMAIN p.entries /\ p.entries[x[1]].fn \in DOMAIN p.fns
        /\ ValueAt(p, Answering(p, x)) \in Range(p.fns[p.entries[x[1]].fn].vals)
    BY EntryPlacesAre
  <2>2. C[x].val = ValueAt(p, Answering(p, x)) /\ C[x].entry = x[1] /\ Bare(C[x])
    BY ClaimFields
  <2> QED BY <2>1, <2>2, EntryAnchor
<1> QED BY <1>1, EntryPlacesAre DEF Plainly, Aimed

LEMMA PlainRules ==
  ASSUME NEW p, IntakeShaped(p), NEW r
  PROVE  /\ Plainly(p, SeedByValueKind(p, r)) /\ Plainly(p, SeedByGlobalProperty(p, r))
         /\ Plainly(p, SeedByCallResult(p, r)) /\ Plainly(p, SeedByCallMethodResult(p, r))
         /\ Plainly(p, SeedByProperty(p, r)) /\ Plainly(p, SeedByEntryParamProperty(p, r))
         /\ Plainly(p, SeedByEntryCallProperty(p, r))
<1>1. Plainly(p, SeedByValueKind(p, r))
  <2> DEFINE C == SeedByValueKind(p, r)
  <2>1. DOMAIN C \in SUBSET ValuePlaces(p) /\ \A x \in DOMAIN C : C[x] = ClaimWithin(p, ValueAt(p, x), x[1])
    BY DEF SeedByValueKind
  <2> HIDE DEF C
  <2>2. Plainly(p, C)
    BY <2>1, OfValues
  <2> QED BY <2>2 DEF C
<1>2. Plainly(p, SeedByGlobalProperty(p, r))
  <2> DEFINE C == SeedByGlobalProperty(p, r)
  <2>1. DOMAIN C \in SUBSET ValuePlaces(p) /\ \A x \in DOMAIN C : C[x] = ClaimWithin(p, ValueAt(p, x), x[1])
    BY DEF SeedByGlobalProperty
  <2> HIDE DEF C
  <2>2. Plainly(p, C)
    BY <2>1, OfValues
  <2> QED BY <2>2 DEF C
<1>3. Plainly(p, SeedByCallResult(p, r))
  <2> DEFINE C == SeedByCallResult(p, r)
  <2>1. DOMAIN C \in SUBSET AnswerPlaces(p) /\ \A x \in DOMAIN C : C[x] = ClaimWithin(p, CallAt(p, x).result, x[1])
    BY DEF SeedByCallResult
  <2> HIDE DEF C
  <2>2. Plainly(p, C)
    BY <2>1, OfAnswers
  <2> QED BY <2>2 DEF C
<1>4. Plainly(p, SeedByCallMethodResult(p, r))
  <2> DEFINE C == SeedByCallMethodResult(p, r)
  <2>1. DOMAIN C \in SUBSET AnswerPlaces(p) /\ \A x \in DOMAIN C : C[x] = ClaimBelow(p, CallAt(p, x).result, x[1])
    BY DEF SeedByCallMethodResult
  <2> HIDE DEF C
  <2>2. Plainly(p, C)
    BY <2>1, OfAnswers
  <2> QED BY <2>2 DEF C
<1>5. Plainly(p, SeedByProperty(p, r))
  <2> DEFINE C == SeedByProperty(p, r)
  <2>1. DOMAIN C \in SUBSET ValuePlaces(p) /\ \A x \in DOMAIN C : C[x] = ClaimBelow(p, ValueAt(p, x), x[1])
    BY DEF SeedByProperty
  <2> HIDE DEF C
  <2>2. Plainly(p, C)
    BY <2>1, OfValues
  <2> QED BY <2>2 DEF C
<1>6. Plainly(p, SeedByEntryParamProperty(p, r))
  <2> DEFINE C == SeedByEntryParamProperty(p, r)
  <2>1. DOMAIN C \in SUBSET EntryPlaces(p, r) /\ \A x \in DOMAIN C : C[x] = ClaimOf(p, ValueAt(p, Answering(p, x)), x[1])
    BY DEF SeedByEntryParamProperty, ReadAtEntries
  <2> HIDE DEF C
  <2>2. Plainly(p, C)
    BY <2>1, OfEntries
  <2> QED BY <2>2 DEF C
<1>7. Plainly(p, SeedByEntryCallProperty(p, r))
  <2> DEFINE C == SeedByEntryCallProperty(p, r)
  <2>1. DOMAIN C \in SUBSET EntryPlaces(p, r) /\ \A x \in DOMAIN C : C[x] = ClaimOf(p, ValueAt(p, Answering(p, x)), x[1])
    BY DEF SeedByEntryCallProperty, ReadAtEntries
  <2> HIDE DEF C
  <2>2. Plainly(p, C)
    BY <2>1, OfEntries
  <2> QED BY <2>2 DEF C
<1> QED BY <1>1, <1>2, <1>3, <1>4, <1>5, <1>6, <1>7

LEMMA HookRule ==
  ASSUME NEW p, IntakeShaped(p), NEW r
  PROVE  Plainly(p, SeedByFunctionParamProperty(p, r))
<1> DEFINE C == SeedByFunctionParamProperty(p, r)
           Hooks == {f \in DOMAIN p.fns : p.fns[f].name = r.function}
           Met == {f \in Hooks : ParamAt(p, f, r.index) # {}}
           Spots == {y \in ValuePlaces(p) : /\ y[1] \in Hooks
                                            /\ ReadOff(p, r, ValueAt(p, y), ParamAt(p, y[1], r.index))}
           Hook(v, f) == Claim(v, EntryOf(p, f), 0, "")
<1>1. \A v, f : Hook(v, f).val = v /\ Hook(v, f).entry = EntryOf(p, f) /\ Bare(Hook(v, f))
  BY DEF Claim, Bare
<1> HIDE DEF Hook
<1>2. CASE r.paths = {}
  <2>1. C = [x \in Met \X {1} |-> Hook(CHOOSE v \in ParamAt(p, x[1], r.index) : TRUE, x[1])]
    BY <1>2 DEF SeedByFunctionParamProperty, Hook
  <2>2. Met \in SUBSET Nat
    <3>1. DOMAIN p.fns \in SUBSET Nat
      BY FnsShape
    <3> QED BY <3>1
  <2> HIDE DEF Met, C
  <2>3. DOMAIN C \in SUBSET (Nat \X Nat)
    <3>1. DOMAIN C = Met \X {1}
      BY <2>1
    <3>2. {1} \in SUBSET Nat
      OBVIOUS
    <3>3. \A x : x \in Met \X {1} => x \in Nat \X Nat
      BY <3>2, <2>2
    <3> QED BY <3>1, <3>3
  <2>4. ASSUME NEW x \in DOMAIN C PROVE Aimed(p, C[x]) /\ Bare(C[x])
    <3> DEFINE v == CHOOSE u \in ParamAt(p, x[1], r.index) : TRUE
    <3>1. x[1] \in Met /\ C[x] = Hook(v, x[1])
      BY <2>1
    <3>a. x[1] \in DOMAIN p.fns /\ ParamAt(p, x[1], r.index) # {}
      BY <3>1 DEF Met
    <3>b. v \in ParamAt(p, x[1], r.index)
      BY <3>a
    <3>2. x[1] \in DOMAIN p.fns /\ v \in {0} \cup Range(p.fns[x[1]].vals)
      <4> HIDE DEF v
      <4> QED BY <3>a, <3>b, ParamAtIs
    <3>3. C[x].val = v /\ C[x].entry = EntryOf(p, x[1]) /\ Bare(C[x])
      BY <3>1, <1>1
    <3>4. 0 \notin DOMAIN p.val
      BY FnsShape
    <3> HIDE DEF v, C
    <3>5. v \in Range(p.fns[x[1]].vals) => Anchored(p, C[x])
      BY <3>2, <3>3, OwnAnchor
    <3> QED BY <3>2, <3>3, <3>4, <3>5 DEF Aimed
  <2>5. Plainly(p, C)
    BY <2>3, <2>4 DEF Plainly
  <2> QED BY <2>5 DEF C
<1>3. CASE r.paths # {}
  <2>1. C = [x \in Spots |-> Hook(ValueAt(p, x), x[1])]
    BY <1>3 DEF SeedByFunctionParamProperty, Hook
  <2>2. Spots \in SUBSET ValuePlaces(p)
    OBVIOUS
  <2> HIDE DEF Spots, C
  <2>3. DOMAIN C \in SUBSET (Nat \X Nat)
    BY <2>1, <2>2, PlacesAre
  <2>4. ASSUME NEW x \in DOMAIN C PROVE Aimed(p, C[x]) /\ Bare(C[x])
    <3>1. C[x] = Hook(ValueAt(p, x), x[1]) /\ x \in ValuePlaces(p)
      BY <2>1, <2>2
    <3>2. x[1] \in DOMAIN p.fns /\ ValueAt(p, x) \in Range(p.fns[x[1]].vals)
      BY <3>1, PlacesAre
    <3>3. C[x].val = ValueAt(p, x) /\ C[x].entry = EntryOf(p, x[1]) /\ Bare(C[x])
      BY <3>1, <1>1
    <3> QED BY <3>2, <3>3, OwnAnchor DEF Aimed
  <2>5. Plainly(p, C)
    BY <2>3, <2>4 DEF Plainly
  <2> QED BY <2>5 DEF C
<1> QED BY <1>2, <1>3

LEMMA ViewRule ==
  ASSUME NEW p, IntakeShaped(p), NEW r \in Range(p.rules), r.match = "view-instance-property"
  PROVE  Plainly(p, SeedByViewInstanceProperty(p, r))
<1> DEFINE C == SeedByViewInstanceProperty(p, r)
           Routed(f) == {e \in Taken(p, r) : p.fns[f].class # "" /\ p.fns[p.entries[e].fn].class = p.fns[f].class}
           At(f) == IF EntryAt(p, f) \in Taken(p, r) THEN EntryAt(p, f) ELSE Min(Routed(f))
           Spots == {y \in ValuePlaces(p) : /\ Routed(y[1]) # {}
                                            /\ ReadOff(p, r, ValueAt(p, y), ParamAt(p, y[1], 0))
                                            /\ LeafMatches(p.val[ValueAt(p, y)].path, r)}
<1>1. C = [x \in Spots |-> ClaimOf(p, ValueAt(p, x), At(x[1]))]
  BY DEF SeedByViewInstanceProperty
<1>2. Spots \in SUBSET ValuePlaces(p) /\ \A x \in Spots : Routed(x[1]) # {}
  OBVIOUS
<1> HIDE DEF C, Spots
<1>3. /\ \A f : Routed(f) \in SUBSET Taken(p, r)
      /\ \A f : \A e \in Routed(f) : p.fns[f].class # "" /\ p.fns[p.entries[e].fn].class = p.fns[f].class
  OBVIOUS
<1> HIDE DEF Routed
<1>4. \A f : /\ EntryAt(p, f) \in Taken(p, r) => At(f) = EntryAt(p, f)
             /\ EntryAt(p, f) \notin Taken(p, r) => At(f) = Min(Routed(f))
  OBVIOUS
<1> HIDE DEF At
<1>5. \A x \in DOMAIN C : x \in Spots /\ C[x] = ClaimOf(p, ValueAt(p, x), At(x[1]))
  BY <1>1
<1>6. /\ Taken(p, r) \in SUBSET DOMAIN p.entries
      /\ \A e \in Taken(p, r) : e # 0 /\ e \in Nat /\ Takes(p, r, e)
  BY EntryPlacesAre, FnsShape
<1>7. ASSUME NEW x \in DOMAIN C PROVE Anchored(p, C[x]) /\ Bare(C[x])
  <2>0. x \in Spots /\ C[x] = ClaimOf(p, ValueAt(p, x), At(x[1]))
    BY <1>5
  <2>1. PICK f : f = x[1]
    OBVIOUS
  <2>2. f \in DOMAIN p.fns /\ ValueAt(p, x) \in Range(p.fns[f].vals) /\ Routed(f) # {}
    BY <2>0, <2>1, <1>2, PlacesAre
  <2>3. PICK e : e = At(f)
    OBVIOUS
  <2>4. C[x].val = ValueAt(p, x) /\ C[x].entry = e /\ Bare(C[x])
    BY <2>0, <2>1, <2>3, ClaimFields
  <2>5. StandsIn(p, C[x].val) = f
    BY <2>2, <2>4, StandsInIs
  <2>6. CASE EntryAt(p, f) \in Taken(p, r)
    <3>1. e = EntryAt(p, f) /\ e \in DOMAIN p.entries /\ e # 0
      BY <2>6, <2>3, <1>4, <1>6
    <3>2. p.entries[e].fn = f
      BY <3>1, <2>2, EntryAtIs
    <3> QED BY <2>2, <2>4, <3>1, <3>2, EntryAnchor
  <2>7. CASE EntryAt(p, f) \notin Taken(p, r)
    <3>1. Routed(f) \in SUBSET Nat
      BY <1>3, <1>6
    <3>2. e \in Routed(f)
      BY <3>1, <2>2, <2>3, <2>7, <1>4, MinIs
    <3>3. e \in Taken(p, r) /\ p.fns[f].class # "" /\ p.fns[p.entries[e].fn].class = p.fns[f].class
      BY <3>2, <1>3
    <3>4. Takes(p, r, e) /\ e # 0
      BY <3>3, <1>6
    <3>5. Registered(p, f) # {} => EntryAt(p, f) \in Registered(p, f) /\ ~ Takes(p, r, EntryAt(p, f))
      BY <2>2, <2>7, EntryAtIs DEF Registered, Taken
    <3>6. p.fns[f].class \in {p.fns[p.entries[e].fn].class} \ {""}
      BY <3>3
    <3>7. Registered(p, f) # {} =>
             \E q \in Range(p.rules) : \E d \in Registered(p, f) :
               q.match = "view-instance-property" /\ Takes(p, q, e) /\ ~Takes(p, q, d)
      BY <3>4, <3>5
    <3> QED BY <2>4, <2>5, <3>4, <3>6, <3>7 DEF Anchored
  <2> QED BY <2>6, <2>7
<1>8. DOMAIN C \in SUBSET (Nat \X Nat)
  BY <1>1, <1>2, PlacesAre
<1>9. Plainly(p, C)
  BY <1>7, <1>8 DEF Plainly, Aimed
<1> QED BY <1>9 DEF C

(* Where the parameters stand that a route names.                          *)
RouteParam(p, x) == p.fns[p.entries[x[1]].fn].params[x[2]]
RouteClaim(p, x) == [ClaimOf(p, RouteParam(p, x).val, x[1])
                       EXCEPT !.converter = Converter(p.entries[x[1]], RouteParam(p, x).name)]
RoutePlaces(p, r) == UNION {{e} \X DOMAIN p.fns[p.entries[e].fn].params : e \in Taken(p, r)}
RouteRead(p, r) == {y \in RoutePlaces(p, r) : /\ RouteParam(p, y).val # 0
                                              /\ Captures(p.entries[y[1]], RouteParam(p, y).name) # {}}

LEMMA RouteClaims ==
  ASSUME NEW p, NEW r
  PROVE  /\ DOMAIN SeedByRoutePathParam(p, r) = RouteRead(p, r)
         /\ \A x \in RouteRead(p, r) : SeedByRoutePathParam(p, r)[x] = RouteClaim(p, x)
BY DEF SeedByRoutePathParam, RouteRead, RoutePlaces, RouteParam, RouteClaim

LEMMA RouteClaimIs ==
  ASSUME NEW p, NEW x
  PROVE  /\ RouteClaim(p, x).val = RouteParam(p, x).val /\ RouteClaim(p, x).entry = x[1]
         /\ RouteClaim(p, x).columns = {}
         /\ RouteClaim(p, x).converter = Converter(p.entries[x[1]], RouteParam(p, x).name)
BY DEF RouteClaim, ClaimOf, Claim

LEMMA RoutePlacesAre ==
  ASSUME NEW p, IntakeShaped(p), NEW r, NEW x \in RoutePlaces(p, r)
  PROVE  /\ x \in Nat \X Nat /\ x[1] \in Taken(p, r)
         /\ p.entries[x[1]].fn \in DOMAIN p.fns /\ x[1] \in DOMAIN p.entries
         /\ RouteParam(p, x) \in Range(p.fns[p.entries[x[1]].fn].params)
<1>1. PICK e \in Taken(p, r) : x \in {e} \X DOMAIN p.fns[p.entries[e].fn].params
  BY DEF RoutePlaces
<1>2. e \in Nat /\ e \in DOMAIN p.entries /\ p.entries[e].fn \in DOMAIN p.fns
  BY EntryPlacesAre
<1>3. DOMAIN p.fns[p.entries[e].fn].params \in SUBSET Nat
  BY <1>2, FnsShape DEF DefShape
<1>4. x[1] = e /\ x[2] \in DOMAIN p.fns[p.entries[e].fn].params /\ x \in Nat \X Nat
  BY <1>1, <1>2, <1>3
<1>5. RouteParam(p, x) \in Range(p.fns[p.entries[x[1]].fn].params)
  BY <1>4 DEF RouteParam, Range
<1> QED BY <1>2, <1>4, <1>5

(* What the routes say of a value, rule by rule and parameter by parameter.*)
RouteRules(p) == {q \in Range(p.rules) : q.match = "route-path-param"}

LEMMA SaysWhat ==
  ASSUME NEW p, NEW r \in RouteRules(p), NEW e \in Taken(p, r),
         NEW q \in Range(p.fns[p.entries[e].fn].params), Captures(p.entries[e], q.name) # {}
  PROVE  Converter(p.entries[e], q.name) \in RouteSays(p, q.val)
<1> DEFINE All == UNION {Taken(p, o) : o \in RouteRules(p)}
           Pairs == UNION {{d} \X Range(p.fns[p.entries[d].fn].params) : d \in All}
           y == <<e, q>>
<1>1. e \in All
  OBVIOUS
<1>2. y \in {e} \X Range(p.fns[p.entries[e].fn].params)
  OBVIOUS
<1> HIDE DEF All
<1>3. y \in Pairs
  BY <1>1, <1>2
<1>4. RouteSays(p, q.val) =
        {Converter(p.entries[x[1]], x[2].name) :
           x \in {z \in Pairs : z[2].val = q.val /\ Captures(p.entries[z[1]], z[2].name) # {}}}
  BY DEF RouteSays, RouteRules, All
<1>5. y[1] = e /\ y[2] = q
  OBVIOUS
<1> HIDE DEF Pairs, y
<1>6. y \in {z \in Pairs : z[2].val = q.val /\ Captures(p.entries[z[1]], z[2].name) # {}}
  BY <1>3, <1>5
<1> QED BY <1>4, <1>5, <1>6

LEMMA SaidByWhom ==
  ASSUME NEW p, NEW v, NEW word \in RouteSays(p, v)
  PROVE  \E r \in RouteRules(p) : \E e \in Taken(p, r) : \E q \in Range(p.fns[p.entries[e].fn].params) :
           q.val = v /\ Captures(p.entries[e], q.name) # {} /\ Converter(p.entries[e], q.name) = word
<1> DEFINE All == UNION {Taken(p, o) : o \in RouteRules(p)}
           Pairs == UNION {{d} \X Range(p.fns[p.entries[d].fn].params) : d \in All}
<1>1. RouteSays(p, v) =
        {Converter(p.entries[x[1]], x[2].name) :
           x \in {z \in Pairs : z[2].val = v /\ Captures(p.entries[z[1]], z[2].name) # {}}}
  BY DEF RouteSays, RouteRules
<1> HIDE DEF Pairs
<1>2. PICK y \in Pairs : /\ y[2].val = v /\ Captures(p.entries[y[1]], y[2].name) # {}
                         /\ Converter(p.entries[y[1]], y[2].name) = word
  BY <1>1
<1>3. PICK e \in All : y \in {e} \X Range(p.fns[p.entries[e].fn].params)
  BY <1>2 DEF Pairs
<1>4. PICK r \in RouteRules(p) : e \in Taken(p, r)
  BY <1>3
<1>5. y[1] = e /\ y[2] \in Range(p.fns[p.entries[e].fn].params)
  BY <1>3
<1> QED BY <1>2, <1>4, <1>5

LEMMA RouteRule ==
  ASSUME NEW p, IntakeShaped(p), NEW r \in RouteRules(p)
  PROVE  /\ DOMAIN SeedByRoutePathParam(p, r) \in SUBSET (Nat \X Nat)
         /\ \A x \in DOMAIN SeedByRoutePathParam(p, r) :
              /\ Aimed(p, SeedByRoutePathParam(p, r)[x])
              /\ SeedByRoutePathParam(p, r)[x].converter \in RouteSays(p, SeedByRoutePathParam(p, r)[x].val)
              /\ SeedByRoutePathParam(p, r)[x].columns = {}
<1>1. RouteRead(p, r) \in SUBSET RoutePlaces(p, r)
  BY DEF RouteRead
<1>2. ASSUME NEW x \in RouteRead(p, r)
      PROVE  Anchored(p, RouteClaim(p, x)) /\ RouteClaim(p, x).converter \in RouteSays(p, RouteClaim(p, x).val)
  <2>1. PICK e, q : e = x[1] /\ q = RouteParam(p, x)
    OBVIOUS
  <2>2. /\ e \in Taken(p, r) /\ e \in DOMAIN p.entries /\ p.entries[e].fn \in DOMAIN p.fns
        /\ q \in Range(p.fns[p.entries[e].fn].params)
    BY <1>1, <2>1, RoutePlacesAre
  <2>3. q.val # 0 /\ Captures(p.entries[e], q.name) # {}
    BY <2>1 DEF RouteRead
  <2>4. q.val \in Range(p.fns[p.entries[e].fn].vals)
    BY <2>2, <2>3 DEF IntakeShaped
  <2>5. RouteClaim(p, x).val = q.val /\ RouteClaim(p, x).entry = e
        /\ RouteClaim(p, x).converter = Converter(p.entries[e], q.name)
    BY <2>1, RouteClaimIs
  <2>6. Converter(p.entries[e], q.name) \in RouteSays(p, q.val)
    BY <2>2, <2>3, SaysWhat
  <2>7. Anchored(p, RouteClaim(p, x))
    BY <2>2, <2>4, <2>5, EntryAnchor
  <2> QED BY <2>5, <2>6, <2>7
<1>3. RouteRead(p, r) \in SUBSET (Nat \X Nat)
  BY <1>1, RoutePlacesAre
<1>4. \A x : RouteClaim(p, x).columns = {}
  BY RouteClaimIs
<1> QED BY <1>2, <1>3, <1>4, RouteClaims DEF Aimed

(* What a route says of a value is claimed of it.                          *)
LEMMA SaidIsClaimed ==
  ASSUME NEW p, IntakeShaped(p), NEW v \in DOMAIN p.val, NEW word \in RouteSays(p, v)
  PROVE  \E r \in RouteRules(p) : \E x \in DOMAIN SeedByRoutePathParam(p, r) :
           SeedByRoutePathParam(p, r)[x].val = v /\ SeedByRoutePathParam(p, r)[x].converter = word
<1>1. PICK r \in RouteRules(p) : \E e \in Taken(p, r) : \E q \in Range(p.fns[p.entries[e].fn].params) :
        q.val = v /\ Captures(p.entries[e], q.name) # {} /\ Converter(p.entries[e], q.name) = word
  BY SaidByWhom
<1>2. PICK e \in Taken(p, r) : \E q \in Range(p.fns[p.entries[e].fn].params) :
        q.val = v /\ Captures(p.entries[e], q.name) # {} /\ Converter(p.entries[e], q.name) = word
  BY <1>1
<1>3. PICK k \in DOMAIN p.fns[p.entries[e].fn].params :
        LET q == p.fns[p.entries[e].fn].params[k]
        IN  q.val = v /\ Captures(p.entries[e], q.name) # {} /\ Converter(p.entries[e], q.name) = word
  BY <1>2 DEF Range
<1>4. <<e, k>> \in {e} \X DOMAIN p.fns[p.entries[e].fn].params
  OBVIOUS
<1>a. PICK x : x = <<e, k>>
  OBVIOUS
<1>5. x[1] = e /\ RouteParam(p, x) = p.fns[p.entries[e].fn].params[k]
  BY <1>a DEF RouteParam
<1>6. x \in RoutePlaces(p, r)
  BY <1>2, <1>4, <1>a DEF RoutePlaces
<1>7. v # 0
  BY NoZero
<1>8. x \in RouteRead(p, r)
  BY <1>3, <1>5, <1>6, <1>7 DEF RouteRead
<1>9. RouteClaim(p, x).val = v /\ RouteClaim(p, x).converter = word
  BY <1>3, <1>5, RouteClaimIs
<1>10. x \in DOMAIN SeedByRoutePathParam(p, r) /\ SeedByRoutePathParam(p, r)[x] = RouteClaim(p, x)
  BY <1>8, RouteClaims
<1> QED BY <1>9, <1>10

-----------------------------------------------------------------------------
(* Rows.  A write that counts is one that requests reach.                  *)
LEMMA WritesToIs ==
  ASSUME NEW p, IntakeShaped(p), NEW r, NEW x, NamesAt(p, r, "read", x) # {}, NEW w
  PROVE  /\ w \in WritesTo(p, r, x) <=> w \in WritesBehind(p, r, x)
         /\ w \in WritesTo(p, r, x) => EntryOf(p, w[1]) \in Writers(p, w)
<1> SUFFICES ASSUME w \in CallPlaces(p)
             PROVE  /\ w \in WritesTo(p, r, x) <=> w \in WritesBehind(p, r, x)
                    /\ w \in WritesTo(p, r, x) => EntryOf(p, w[1]) \in Writers(p, w)
  BY DEF WritesTo, WritesBehind
<1>1. w[1] \in DOMAIN p.fns
  BY PlacesAre
<1>2. EntryOf(p, w[1]) # 0 => EntryOf(p, w[1]) \in Writers(p, w)
  BY <1>1, EntryOfServes DEF Writers
<1>3. Writers(p, w) # {} => EntryOf(p, w[1]) # 0
  BY <1>1, EntryOfServes DEF Writers
<1>4. w \in WritesTo(p, r, x) <=>
        /\ NamesAt(p, r, "write", w) = NamesAt(p, r, "read", x) /\ NamesAt(p, r, "write", w) # {}
        /\ WrittenFields(CallAt(p, w)) # {} /\ EntryOf(p, w[1]) # 0
        /\ \E s \in AccessAt(p, "write", CallAt(p, w)) : CallCarries(p, r.writtenClass, CallAt(p, w), s.valueArg)
  BY DEF WritesTo, Counts
<1>5. w \in WritesBehind(p, r, x) <=>
        /\ NamesAt(p, r, "write", w) = NamesAt(p, r, "read", x)
        /\ WrittenFields(CallAt(p, w)) # {} /\ Writers(p, w) # {}
        /\ \E s \in AccessAt(p, "write", CallAt(p, w)) : CallCarries(p, r.writtenClass, CallAt(p, w), s.valueArg)
  BY DEF WritesBehind
<1> QED BY <1>2, <1>3, <1>4, <1>5

LEMMA ColumnsAreWritten ==
  ASSUME NEW c, NEW column \in WrittenFields(c)
  PROVE  \E o \in c.options : ~o.literal /\ Folded[Last(o.path)] = column /\ Head(o.path) # "where"
<1>1. "where" \in CriteriaOptions
  BY DEF CriteriaOptions
<1>2. \E o \in c.options : ~o.literal /\ Folded[Last(o.path)] = column /\ Head(o.path) \notin CriteriaOptions
  BY DEF WrittenFields
<1> QED BY <1>1, <1>2

FirstWriter(p, r, x) == EntryOf(p, FirstOf(WritesTo(p, r, x))[1])
RowClaim(p, r, x) ==
  [Claim(CallAt(p, x).result, EntryOf(p, x[1]), EntryAt(p, x[1]), TrustOf(p, FirstWriter(p, r, x)))
     EXCEPT !.columns = UNION {WrittenFields(CallAt(p, w)) : w \in WritesTo(p, r, x)}]
RowsRead(p, r) == {y \in AnswerPlaces(p) : /\ NamesAt(p, r, "read", y) # {} /\ WritesTo(p, r, y) # {}
                                           /\ EnclosingEntry(p, y[1]) # Described(p, FirstWriter(p, r, y))}

LEMMA RowClaims ==
  ASSUME NEW p, NEW r
  PROVE  /\ DOMAIN SeedByStoreRead(p, r) = RowsRead(p, r)
         /\ \A x \in RowsRead(p, r) : SeedByStoreRead(p, r)[x] = RowClaim(p, r, x)
BY DEF SeedByStoreRead, RowsRead, RowClaim, FirstWriter

LEMMA RowClaimIs ==
  ASSUME NEW p, NEW r, NEW x
  PROVE  /\ RowClaim(p, r, x).val = CallAt(p, x).result /\ RowClaim(p, r, x).entry = EntryOf(p, x[1])
         /\ RowClaim(p, r, x).trust = TrustOf(p, FirstWriter(p, r, x)) /\ RowClaim(p, r, x).converter = ""
         /\ RowClaim(p, r, x).columns = UNION {WrittenFields(CallAt(p, w)) : w \in WritesTo(p, r, x)}
BY DEF RowClaim, Claim

LEMMA FirstWriterIs ==
  ASSUME NEW p, IntakeShaped(p), NEW r, NEW x, NamesAt(p, r, "read", x) # {}, WritesTo(p, r, x) # {}
  PROVE  \E w \in WritesBehind(p, r, x) : FirstWriter(p, r, x) \in Writers(p, w)
<1>1. WritesTo(p, r, x) \in SUBSET (Nat \X Nat)
  BY PlacesAre DEF WritesTo
<1>2. FirstOf(WritesTo(p, r, x)) \in WritesTo(p, r, x)
  BY <1>1, FirstOfIs
<1> QED BY <1>2, WritesToIs DEF FirstWriter

LEMMA StoreRule ==
  ASSUME NEW p, IntakeShaped(p), NEW r, NEW x \in DOMAIN SeedByStoreRead(p, r)
  PROVE  /\ x \in AnswerPlaces(p) /\ SeedByStoreRead(p, r)[x].val = CallAt(p, x).result
         /\ Anchored(p, SeedByStoreRead(p, r)[x]) /\ SeedByStoreRead(p, r)[x].converter = ""
         /\ Earned(p, r, x, SeedByStoreRead(p, r)[x].columns, {SeedByStoreRead(p, r)[x].trust})
<1>0. x \in RowsRead(p, r) /\ SeedByStoreRead(p, r)[x] = RowClaim(p, r, x)
  BY RowClaims
<1>1. /\ x \in AnswerPlaces(p) /\ NamesAt(p, r, "read", x) # {} /\ WritesTo(p, r, x) # {}
      /\ Foreign(p, FirstWriter(p, r, x), x)
  BY <1>0 DEF RowsRead, Foreign
<1>2. x[1] \in DOMAIN p.fns /\ CallAt(p, x).result \in Range(p.fns[x[1]].vals)
  BY <1>1, PlacesAre
<1>a. PICK c : c = RowClaim(p, r, x)
  OBVIOUS
<1>b. /\ c.val = CallAt(p, x).result /\ c.entry = EntryOf(p, x[1])
      /\ c.trust = TrustOf(p, FirstWriter(p, r, x)) /\ c.converter = ""
      /\ c.columns = UNION {WrittenFields(CallAt(p, w)) : w \in WritesTo(p, r, x)}
  BY <1>a, RowClaimIs, Zenon
<1>3. Anchored(p, c)
  BY <1>2, <1>b, OwnAnchor
<1>4. \E w \in WritesBehind(p, r, x) : FirstWriter(p, r, x) \in Writers(p, w)
  BY <1>1, FirstWriterIs
<1>5. \A trust \in {c.trust} : TrustOf(p, FirstWriter(p, r, x)) = trust
  BY <1>b
<1>6. ASSUME NEW column \in c.columns
      PROVE  \E w \in WritesBehind(p, r, x) : \E o \in CallAt(p, w).options :
               ~o.literal /\ Folded[Last(o.path)] = column /\ Head(o.path) # "where"
  <2>1. PICK w \in WritesTo(p, r, x) : column \in WrittenFields(CallAt(p, w))
    BY <1>6, <1>b
  <2>2. w \in WritesBehind(p, r, x)
    BY <2>1, <1>1, WritesToIs
  <2> QED BY <2>1, <2>2, ColumnsAreWritten
<1>7. Earned(p, r, x, c.columns, {c.trust})
  BY <1>1, <1>4, <1>5, <1>6 DEF Earned
<1> QED BY <1>0, <1>a, <1>b, <1>1, <1>3, <1>7, Zenon

(* A row that only others write is claimed.                                *)
LEMMA OthersRowIsClaimed ==
  ASSUME NEW p, IntakeShaped(p), NEW r, NEW x \in AnswerPlaces(p), WritesBehind(p, r, x) # {},
         \A w \in WritesBehind(p, r, x) : \A e \in Writers(p, w) : Foreign(p, e, x)
  PROVE  /\ x \in DOMAIN SeedByStoreRead(p, r) /\ SeedByStoreRead(p, r)[x].val = CallAt(p, x).result
         /\ SeedByStoreRead(p, r)[x].columns # {}
<1>1. NamesAt(p, r, "read", x) # {}
  BY DEF WritesBehind
<1>2. PICK w \in WritesBehind(p, r, x) : w \in WritesTo(p, r, x)
  BY <1>1, WritesToIs
<1>3. Foreign(p, FirstWriter(p, r, x), x)
  BY <1>1, <1>2, FirstWriterIs
<1>4. x \in RowsRead(p, r)
  BY <1>1, <1>2, <1>3 DEF RowsRead, Foreign
<1>5. WrittenFields(CallAt(p, w)) # {}
  BY DEF WritesBehind
<1>a. PICK c : c = RowClaim(p, r, x)
  OBVIOUS
<1>b. /\ c.val = CallAt(p, x).result
      /\ c.columns = UNION {WrittenFields(CallAt(p, u)) : u \in WritesTo(p, r, x)}
  BY <1>a, RowClaimIs, Zenon
<1>6. c.columns # {}
  BY <1>2, <1>5, <1>b
<1>7. x \in DOMAIN SeedByStoreRead(p, r) /\ SeedByStoreRead(p, r)[x] = c
  BY <1>4, <1>a, RowClaims
<1> QED BY <1>6, <1>7, <1>b

-----------------------------------------------------------------------------
(* Whatever the rule.                                                      *)
LEMMA ClaimsOf ==
  ASSUME NEW p, NEW r
  PROVE  /\ r.match = "store-read" => Claims(p, r) = SeedByStoreRead(p, r)
         /\ r.match = "route-path-param" => Claims(p, r) = SeedByRoutePathParam(p, r)
         /\ r.match = "view-instance-property" => Claims(p, r) = SeedByViewInstanceProperty(p, r)
         /\ r.match = "function-param-property" => Claims(p, r) = SeedByFunctionParamProperty(p, r)
         /\ r.match \notin {"store-read", "route-path-param", "view-instance-property", "function-param-property"} =>
              Claims(p, r) \in {SeedByValueKind(p, r), SeedByGlobalProperty(p, r), SeedByCallResult(p, r),
                                SeedByCallMethodResult(p, r), SeedByProperty(p, r), SeedByEntryParamProperty(p, r),
                                SeedByEntryCallProperty(p, r)}
BY DEF Claims

WellClaimed(p, r, c) ==
  /\ Aimed(p, c)
  /\ c.converter = "" \/ c.converter \in RouteSays(p, c.val)
  /\ c.columns # {} => r.match = "store-read"

LEMMA ClaimsAreSound ==
  ASSUME NEW p, IntakeShaped(p), NEW r \in Range(p.rules)
  PROVE  /\ DOMAIN Claims(p, r) \in SUBSET (Nat \X Nat)
         /\ \A x \in DOMAIN Claims(p, r) : WellClaimed(p, r, Claims(p, r)[x])
<1>1. ASSUME NEW C, Plainly(p, C)
      PROVE  DOMAIN C \in SUBSET (Nat \X Nat) /\ \A x \in DOMAIN C : WellClaimed(p, r, C[x])
  BY <1>1 DEF Plainly, Bare, WellClaimed
<1>2. CASE r.match = "store-read"
  <2>1. DOMAIN SeedByStoreRead(p, r) \in SUBSET (Nat \X Nat)
    BY StoreRule, PlacesAre
  <2>2. \A x \in DOMAIN SeedByStoreRead(p, r) : WellClaimed(p, r, SeedByStoreRead(p, r)[x])
    BY <1>2, StoreRule DEF WellClaimed, Aimed
  <2>3. Claims(p, r) = SeedByStoreRead(p, r)
    BY <1>2, ClaimsOf
  <2> QED BY <2>1, <2>2, <2>3
<1>3. CASE r.match = "route-path-param"
  <2>1. r \in RouteRules(p)
    BY <1>3 DEF RouteRules
  <2>2. \A x \in DOMAIN SeedByRoutePathParam(p, r) : WellClaimed(p, r, SeedByRoutePathParam(p, r)[x])
    BY <2>1, RouteRule DEF WellClaimed
  <2>3. Claims(p, r) = SeedByRoutePathParam(p, r)
    BY <1>3, ClaimsOf
  <2> QED BY <2>1, <2>2, <2>3, RouteRule
<1>4. CASE r.match = "view-instance-property"
  BY <1>1, <1>4, ClaimsOf, ViewRule
<1>5. CASE r.match = "function-param-property"
  BY <1>1, <1>5, ClaimsOf, HookRule
<1>6. CASE r.match \notin {"store-read", "route-path-param", "view-instance-property", "function-param-property"}
  BY <1>1, <1>6, ClaimsOf, PlainRules
<1> QED BY <1>2, <1>3, <1>4, <1>5, <1>6

-----------------------------------------------------------------------------
(* The invariant.  What is marked was claimed by a rule of the class, and  *)
(* the claim that a row's columns are of is the last one of its value, or  *)
(* is behind one that has none; and what a rule claims is due, or pending, *)
(* or told: no later mark takes it back.                                   *)
Made(p, c) == \E r \in Range(p.rules) : \E x \in DOMAIN Claims(p, r) : c = Claims(p, r)[x]

RowMade(p, v, columns, seed) ==
  \E r \in Range(p.rules) : \E x \in DOMAIN Claims(p, r) :
    /\ Claims(p, r)[x].val = v /\ Claims(p, r)[x].columns = columns
    /\ seed.columns # {} => seed = Claims(p, r)[x]

Told(c) ==
  c.val \in DOMAIN intake.val => /\ c.converter = "" => kept[c.val] = ""
                                 /\ c.columns # {} => records[c.val] # {}

SdDomains ==
  /\ IntakeShaped(intake)
  /\ due \in Seq(Range(intake.rules))
  /\ DOMAIN seeds = DOMAIN intake.val /\ DOMAIN kept = DOMAIN intake.val /\ DOMAIN records = DOMAIN intake.val

PendingIsMade ==
  \A x \in DOMAIN claims : \E r \in Range(intake.rules) : x \in DOMAIN Claims(intake, r) /\ claims[x] = Claims(intake, r)[x]

SeedsAreMade == \A v \in DOMAIN intake.val : seeds[v] = Unclaimed \/ (seeds[v].val = v /\ Made(intake, seeds[v]))

KeptIsSaid == \A v \in DOMAIN intake.val : kept[v] \in RouteSays(intake, v) \cup {"", Unmarked}

RowsAreMade ==
  \A v \in DOMAIN intake.val : records[v] # {} => RowMade(intake, v, records[v], seeds[v])

NothingIsLost ==
  \A r \in Range(intake.rules) : r \in Range(due) \/
    \A x \in DOMAIN Claims(intake, r) :
      (x \in DOMAIN claims /\ claims[x] = Claims(intake, r)[x]) \/ Told(Claims(intake, r)[x])

SdInv == SdDomains /\ PendingIsMade /\ SeedsAreMade /\ KeptIsSaid /\ RowsAreMade /\ NothingIsLost

LEMMA SdInvInit == SdInit => SdInv
<1> SUFFICES ASSUME SdInit PROVE SdInv
  OBVIOUS
<1>1. IntakeShaped(intake)
  BY IntakesAssumption DEF SdInit
<1>2. due \in Seq(Range(intake.rules)) /\ due = intake.rules
  BY <1>1 DEF IntakeShaped, SdInit
<1>3. DOMAIN claims = {}
  BY DEF SdInit, NoClaims
<1>4. /\ DOMAIN seeds = DOMAIN intake.val /\ DOMAIN kept = DOMAIN intake.val /\ DOMAIN records = DOMAIN intake.val
      /\ \A v \in DOMAIN intake.val : seeds[v] = Unclaimed /\ kept[v] = Unmarked /\ records[v] = {}
  BY DEF SdInit
<1>5. SdDomains
  BY <1>1, <1>2, <1>4 DEF SdDomains
<1>6. PendingIsMade /\ NothingIsLost
  BY <1>2, <1>3 DEF PendingIsMade, NothingIsLost
<1>7. SeedsAreMade /\ KeptIsSaid /\ RowsAreMade
  BY <1>4 DEF SeedsAreMade, KeptIsSaid, RowsAreMade
<1> QED BY <1>5, <1>6, <1>7 DEF SdInv

LEMMA SowStep == SdInv /\ Sow => SdInv'
<1> SUFFICES ASSUME SdInv, Sow PROVE SdInv'
  OBVIOUS
<1>0. /\ intake' = intake /\ seeds' = seeds /\ kept' = kept /\ records' = records
      /\ DOMAIN claims = {} /\ due # <<>> /\ due' = Tail(due) /\ claims' = Claims(intake, Head(due))
  BY DEF Sow
<1>1. /\ due' \in Seq(Range(intake.rules)) /\ Head(due) \in Range(intake.rules)
      /\ \A r \in Range(due) : r = Head(due) \/ r \in Range(due')
  <2>1. due \in Seq(Range(intake.rules)) /\ Len(due) \in Nat /\ Len(due) # 0
    BY <1>0 DEF SdInv, SdDomains
  <2>2. ASSUME NEW r \in Range(due) PROVE r = Head(due) \/ r \in Range(due')
    <3>1. PICK i \in 1 .. Len(due) : r = due[i]
      BY <2>1 DEF Range
    <3>2. CASE i = 1
      BY <3>1, <3>2, <2>1
    <3>3. CASE i # 1
      <4>1. i - 1 \in 1 .. Len(due) - 1 /\ Len(due') = Len(due) - 1 /\ DOMAIN due' = 1 .. Len(due) - 1
        BY <3>1, <3>3, <2>1, <1>0
      <4>2. due'[i - 1] = due[i - 1 + 1] /\ i - 1 + 1 = i
        BY <4>1, <2>1, <1>0
      <4> QED BY <3>1, <4>1, <4>2 DEF Range
    <3> QED BY <3>2, <3>3
  <2>3. due' \in Seq(Range(intake.rules)) /\ Head(due) \in Range(intake.rules)
    BY <2>1, <1>0
  <2> QED BY <2>2, <2>3
<1>2. SdDomains'
  BY <1>0, <1>1 DEF SdInv, SdDomains
<1>3. PendingIsMade'
  BY <1>0, <1>1 DEF PendingIsMade
<1>4. SeedsAreMade' /\ KeptIsSaid' /\ RowsAreMade'
  BY <1>0 DEF SdInv, SeedsAreMade, KeptIsSaid, RowsAreMade
<1>5. NothingIsLost'
  BY <1>0, <1>1 DEF SdInv, NothingIsLost, Told
<1> QED BY <1>2, <1>3, <1>4, <1>5 DEF SdInv

LEMMA MarkStep == SdInv /\ Mark => SdInv'
<1> SUFFICES ASSUME SdInv, Mark PROVE SdInv'
  OBVIOUS
<1>1. PICK x0 : x0 = FirstOf(DOMAIN claims)
  OBVIOUS
<1>2. PICK c : c = claims[x0]
  OBVIOUS
<1>3. /\ intake' = intake /\ due' = due /\ claims' = [x \in DOMAIN claims \ {x0} |-> claims[x]]
      /\ seeds' = [seeds EXCEPT ![c.val] = c]
      /\ kept' = [kept EXCEPT ![c.val] = IF @ = Unmarked \/ (c.converter = "" /\ @ # "") THEN c.converter ELSE @]
      /\ records' = [records EXCEPT ![c.val] = IF c.columns = {} THEN @ ELSE c.columns]
  BY <1>1, <1>2 DEF Mark
<1>4. IntakeShaped(intake)
  BY DEF SdInv, SdDomains
<1>5. x0 \in DOMAIN claims
  <2>1. \A x \in DOMAIN claims : x \in Nat \X Nat
    BY <1>4, ClaimsAreSound DEF SdInv, PendingIsMade
  <2>2. DOMAIN claims \in SUBSET (Nat \X Nat) /\ DOMAIN claims # {}
    BY <2>1 DEF Mark
  <2> QED BY <1>1, <2>2, FirstOfIs
<1>6. PICK r0 \in Range(intake.rules) : x0 \in DOMAIN Claims(intake, r0) /\ c = Claims(intake, r0)[x0]
  BY <1>2, <1>5 DEF SdInv, PendingIsMade
<1>7. c.converter = "" \/ c.converter \in RouteSays(intake, c.val)
  BY <1>4, <1>6, ClaimsAreSound DEF WellClaimed
<1>8. /\ DOMAIN seeds = DOMAIN intake.val /\ DOMAIN kept = DOMAIN intake.val /\ DOMAIN records = DOMAIN intake.val
  BY DEF SdInv, SdDomains
<1>9. /\ DOMAIN seeds' = DOMAIN intake.val /\ DOMAIN kept' = DOMAIN intake.val /\ DOMAIN records' = DOMAIN intake.val
      /\ \A v \in DOMAIN intake.val \ {c.val} : seeds'[v] = seeds[v] /\ kept'[v] = kept[v] /\ records'[v] = records[v]
      /\ c.val \in DOMAIN intake.val =>
           /\ seeds'[c.val] = c
           /\ kept'[c.val] = IF kept[c.val] = Unmarked \/ (c.converter = "" /\ kept[c.val] # "")
                             THEN c.converter ELSE kept[c.val]
           /\ records'[c.val] = IF c.columns = {} THEN records[c.val] ELSE c.columns
  BY <1>3, <1>8
<1>10. SdDomains'
  BY <1>3, <1>9 DEF SdInv, SdDomains
<1>11. PendingIsMade'
  BY <1>3 DEF SdInv, PendingIsMade
<1>12. SeedsAreMade'
  <2>1. Made(intake, c)
    BY <1>6 DEF Made
  <2>2. ASSUME NEW v \in DOMAIN intake.val
        PROVE  seeds'[v] = Unclaimed \/ (seeds'[v].val = v /\ Made(intake, seeds'[v]))
    <3>1. CASE v = c.val
      BY <2>1, <3>1, <1>9
    <3>2. CASE v # c.val
      BY <3>2, <1>9 DEF SdInv, SeedsAreMade
    <3> QED BY <3>1, <3>2
  <2> QED BY <2>2, <1>3 DEF SeedsAreMade
<1>13. KeptIsSaid'
  <2>1. ASSUME NEW v \in DOMAIN intake.val PROVE kept'[v] \in RouteSays(intake, v) \cup {"", Unmarked}
    BY <1>7, <1>9 DEF SdInv, KeptIsSaid
  <2> QED BY <2>1, <1>3 DEF KeptIsSaid
<1>14. RowsAreMade'
  <2>1. ASSUME NEW v \in DOMAIN intake.val, records'[v] # {} PROVE RowMade(intake, v, records'[v], seeds'[v])
    <3>1. CASE v = c.val /\ c.columns # {}
      <4>1. records'[v] = c.columns /\ seeds'[v] = c
        BY <3>1, <1>9
      <4> QED BY <3>1, <4>1, <1>6 DEF RowMade
    <3>2. CASE v = c.val /\ c.columns = {}
      <4>1. records'[v] = records[v] /\ seeds'[v].columns = {}
        BY <3>2, <1>9
      <4>2. RowMade(intake, v, records[v], seeds[v])
        BY <2>1, <4>1 DEF SdInv, RowsAreMade
      <4> QED BY <4>1, <4>2 DEF RowMade
    <3>3. CASE v # c.val
      BY <2>1, <3>3, <1>9 DEF SdInv, RowsAreMade
    <3> QED BY <3>1, <3>2, <3>3
  <2> QED BY <2>1, <1>3 DEF RowsAreMade
<1>15. NothingIsLost'
  <2>1. \A v \in DOMAIN intake.val : /\ kept[v] = "" => kept'[v] = ""
                                     /\ records[v] # {} => records'[v] # {}
    BY <1>9 DEF Unmarked
  <2>2. \A d : Told(d) => Told(d)'
    BY <2>1, <1>3 DEF Told
  <2>3. Told(c)'
    BY <1>3, <1>9 DEF Told
  <2>4. ASSUME NEW r \in Range(intake.rules), r \notin Range(due), NEW x \in DOMAIN Claims(intake, r)
        PROVE  (x \in DOMAIN claims' /\ claims'[x] = Claims(intake, r)[x]) \/ Told(Claims(intake, r)[x])'
    <3>1. (x \in DOMAIN claims /\ claims[x] = Claims(intake, r)[x]) \/ Told(Claims(intake, r)[x])
      BY <2>4 DEF SdInv, NothingIsLost
    <3>2. PICK d : d = Claims(intake, r)[x]
      OBVIOUS
    <3>3. CASE x = x0 /\ claims[x] = Claims(intake, r)[x]
      BY <3>3, <1>2, <1>3, <2>3
    <3>4. CASE x # x0 /\ x \in DOMAIN claims /\ claims[x] = Claims(intake, r)[x]
      BY <3>4, <1>3
    <3>5. CASE Told(Claims(intake, r)[x])
      <4>1. Told(d)'
        BY <3>2, <3>5, <2>2
      <4>2. d = Claims(intake, r)[x]'
        BY <3>2, <1>3
      <4> QED BY <4>1, <3>2, <1>3 DEF Told
    <3> QED BY <3>1, <3>3, <3>4, <3>5
  <2> QED BY <2>4, <1>3 DEF NothingIsLost
<1> QED BY <1>10, <1>11, <1>12, <1>13, <1>14, <1>15 DEF SdInv

LEMMA SdInvEarns == SdInv => SourcesAreEarned
<1> SUFFICES ASSUME SdInv PROVE SourcesAreEarned
  OBVIOUS
<1>0. /\ IntakeShaped(intake)
      /\ DOMAIN seeds = DOMAIN intake.val /\ DOMAIN kept = DOMAIN intake.val /\ DOMAIN records = DOMAIN intake.val
  BY DEF SdInv, SdDomains
<1>1. AnchorsServe
  <2>1. ASSUME NEW v \in DOMAIN intake.val, seeds[v] # Unclaimed PROVE Anchored(intake, seeds[v])
    <3>1. seeds[v].val = v /\ Made(intake, seeds[v])
      BY <2>1 DEF SdInv, SeedsAreMade
    <3>2. PICK r \in Range(intake.rules) : \E x \in DOMAIN Claims(intake, r) : seeds[v] = Claims(intake, r)[x]
      BY <3>1 DEF Made
    <3>3. Aimed(intake, seeds[v])
      BY <3>2, <1>0, ClaimsAreSound DEF WellClaimed
    <3> QED BY <3>1, <3>3 DEF Aimed
  <2> QED BY <2>1, <1>0 DEF AnchorsServe
<1>2. ASSUME Settled, NEW r \in Range(intake.rules), NEW x \in DOMAIN Claims(intake, r)
      PROVE  Told(Claims(intake, r)[x])
  <2>1. Range(due) = {} /\ DOMAIN claims = {}
    BY <1>2 DEF Settled, Range
  <2> QED BY <2>1 DEF SdInv, NothingIsLost
<1>3. OpenCapturesStayOpen
  <2>1. ASSUME NEW v \in DOMAIN intake.val, Settled, NEW word \in RouteSays(intake, v), word = "" PROVE kept[v] = ""
    <3>1. PICK r \in RouteRules(intake) : \E x \in DOMAIN SeedByRoutePathParam(intake, r) :
            /\ SeedByRoutePathParam(intake, r)[x].val = v
            /\ SeedByRoutePathParam(intake, r)[x].converter = word
      <4>1. IntakeShaped(intake) /\ v \in DOMAIN intake.val /\ word \in RouteSays(intake, v)
        BY <1>0
      <4> QED BY <4>1, SaidIsClaimed
    <3>2. r \in Range(intake.rules) /\ Claims(intake, r) = SeedByRoutePathParam(intake, r)
      BY <3>1, ClaimsOf DEF RouteRules
    <3> QED BY <2>1, <3>1, <3>2, <1>2 DEF Told
  <2>2. \A v \in DOMAIN intake.val : kept[v] \in RouteSays(intake, v) \cup {"", Unmarked}
    BY DEF SdInv, KeptIsSaid
  <2> QED BY <2>1, <2>2, <1>0 DEF OpenCapturesStayOpen
<1>4. RowsAreAnothers
  <2>1. ASSUME NEW q \in AnswerPlaces(intake)
        PROVE  CallAt(intake, q).result \in DOMAIN intake.val
    BY <1>0, PlacesAre, StandsInIs
  <2>2. ASSUME NEW q \in AnswerPlaces(intake), NEW v, v = CallAt(intake, q).result, records[v] # {}
        PROVE  \E r \in StoreRules(intake) :
                 Earned(intake, r, q, records[v], IF seeds[v].columns # {} THEN {seeds[v].trust} ELSE {})
    <3>1. v \in DOMAIN intake.val
      BY <2>1, <2>2
    <3>2. PICK r \in Range(intake.rules) : \E x \in DOMAIN Claims(intake, r) :
            /\ Claims(intake, r)[x].val = v /\ Claims(intake, r)[x].columns = records[v]
            /\ seeds[v].columns # {} => seeds[v] = Claims(intake, r)[x]
      BY <2>2, <3>1 DEF SdInv, RowsAreMade, RowMade
    <3>3. PICK x \in DOMAIN Claims(intake, r) :
            /\ Claims(intake, r)[x].val = v /\ Claims(intake, r)[x].columns = records[v]
            /\ seeds[v].columns # {} => seeds[v] = Claims(intake, r)[x]
      BY <3>2
    <3>4. r.match = "store-read"
      BY <2>2, <3>3, <1>0, ClaimsAreSound DEF WellClaimed
    <3>5. r \in StoreRules(intake) /\ Claims(intake, r) = SeedByStoreRead(intake, r)
      BY <3>4, ClaimsOf DEF StoreRules
    <3>6. PICK c : c = Claims(intake, r)[x]
      OBVIOUS
    <3>a. x \in DOMAIN SeedByStoreRead(intake, r) /\ c = SeedByStoreRead(intake, r)[x]
      BY <3>5, <3>6
    <3>7. x \in AnswerPlaces(intake) /\ c.val = CallAt(intake, x).result
          /\ Earned(intake, r, x, c.columns, {c.trust})
      BY <3>a, <1>0, StoreRule
    <3>8. x = q
      BY <3>3, <3>6, <3>7, <2>2, <1>0, OneCall
    <3>9. c.columns = records[v] /\ (seeds[v].columns # {} => seeds[v] = c)
      BY <3>3, <3>6
    <3>10. Earned(intake, r, q, records[v], IF seeds[v].columns # {} THEN {seeds[v].trust} ELSE {})
      BY <3>7, <3>8, <3>9 DEF Earned
    <3> QED BY <3>5, <3>10
  <2>3. ASSUME NEW q \in AnswerPlaces(intake), NEW r \in StoreRules(intake), Settled, WritesBehind(intake, r, q) # {},
               \A w \in WritesBehind(intake, r, q) : \A e \in Writers(intake, w) : Foreign(intake, e, q)
        PROVE  records[CallAt(intake, q).result] # {}
    <3>1. r \in Range(intake.rules) /\ Claims(intake, r) = SeedByStoreRead(intake, r)
      BY ClaimsOf DEF StoreRules
    <3>2. PICK c : c = SeedByStoreRead(intake, r)[q]
      OBVIOUS
    <3>3. q \in DOMAIN SeedByStoreRead(intake, r) /\ c.val = CallAt(intake, q).result /\ c.columns # {}
      BY <2>3, <3>2, <1>0, OthersRowIsClaimed
    <3>4. Told(c)
      BY <2>3, <3>1, <3>2, <3>3, <1>2
    <3> QED BY <3>3, <3>4, <2>1 DEF Told
  <2> QED BY <2>2, <2>3 DEF RowsAreAnothers
<1> QED BY <1>1, <1>3, <1>4 DEF SourcesAreEarned

(* What a class begins with is what a request really sends (taint.go 3132, *)
(* 1784, 1183): for every program, whatever the rules of the class and the *)
(* order they are taken in.  A source is anchored under an entry point     *)
(* that makes its function run; a capture some route leaves open is not    *)
(* taken for a converted one; a row is another's, in the columns named.    *)
THEOREM SourcesCorrect == SdSpec => []SourcesAreEarned
<1>1. SdInv /\ [SdNext]_sdVars => SdInv'
  <2>1. SdInv /\ UNCHANGED sdVars => SdInv'
    <3> SUFFICES ASSUME SdInv, UNCHANGED sdVars PROVE SdInv'
      OBVIOUS
    <3>1. /\ intake' = intake /\ due' = due /\ claims' = claims /\ seeds' = seeds
          /\ kept' = kept /\ records' = records
      BY DEF sdVars
    <3>2. SdDomains' /\ SeedsAreMade' /\ KeptIsSaid' /\ RowsAreMade'
      BY <3>1 DEF SdInv, SdDomains, SeedsAreMade, KeptIsSaid, RowsAreMade
    <3>3. PendingIsMade' /\ NothingIsLost'
      BY <3>1 DEF SdInv, PendingIsMade, NothingIsLost, Told
    <3> QED BY <3>2, <3>3 DEF SdInv
  <2> QED BY <2>1, SowStep, MarkStep DEF SdNext
<1> QED BY <1>1, SdInvInit, SdInvEarns, PTL DEF SdSpec

-----------------------------------------------------------------------------
(* The secrets a lookup is keyed by (Credential).  A LET function that     *)
(* makes each value of the one before is named by its CHOOSE, and exists:  *)
(* Steps says what one is.                                                 *)
Steps(N, S, b, G, s) ==
  /\ s \in [0 .. N -> S]
  /\ s[0] = b
  /\ \A n \in 1 .. N : s[n] = G[<<n, s[n - 1]>>]

LEMMA StepsExist ==
  ASSUME NEW N \in Nat, NEW S, NEW b \in S, NEW G \in [(1 .. N) \X S -> S]
  PROVE  \E s : Steps(N, S, b, G, s)
<1> DEFINE Obeys(s, n) == /\ s \in [0 .. n -> S] /\ s[0] = b
                          /\ \A k \in 1 .. n : s[k] = G[<<k, s[k - 1]>>]
           Reachable_ == {n \in 0 .. N : \E s : Obeys(s, n)}
<1>1. 0 \in Reachable_
  <2>1. Obeys([k \in 0 .. 0 |-> b], 0)
    OBVIOUS
  <2>2. 0 \in 0 .. N
    OBVIOUS
  <2> HIDE DEF Obeys
  <2> QED BY <2>1, <2>2
<1>2. ASSUME NEW n \in 1 .. N, n - 1 \in Reachable_ PROVE n \in Reachable_
  <2>1. PICK s : Obeys(s, n - 1)
    BY <1>2
  <2> DEFINE t == [k \in 0 .. n |-> IF k = n THEN G[<<n, s[n - 1]>>] ELSE s[k]]
  <2>0. n \in Nat /\ n # 0 /\ n - 1 \in 0 .. n - 1
    OBVIOUS
  <2>2. t \in [0 .. n -> S]
    <3>1. G[<<n, s[n - 1]>>] \in S
      BY <2>0, <2>1
    <3>2. ASSUME NEW k \in 0 .. n, k # n PROVE s[k] \in S
      <4>1. k \in 0 .. n - 1
        BY <3>2
      <4> QED BY <4>1, <2>1
    <3> QED BY <3>1, <3>2
  <2>3. t[0] = b
    BY <2>0, <2>1
  <2>4. ASSUME NEW k \in 1 .. n PROVE t[k] = G[<<k, t[k - 1]>>]
    <3>1. k \in 0 .. n /\ k - 1 \in 0 .. n /\ k - 1 # n
      OBVIOUS
    <3>2. t[k - 1] = s[k - 1]
      BY <3>1
    <3>3. CASE k = n
      BY <3>1, <3>2, <3>3
    <3>4. CASE k # n
      <4>1. k \in 1 .. n - 1
        BY <3>4
      <4>2. s[k] = G[<<k, s[k - 1]>>]
        BY <4>1, <2>1
      <4> QED BY <3>1, <3>2, <3>4, <4>2
    <3> QED BY <3>3, <3>4
  <2> HIDE DEF t
  <2>5. Obeys(t, n)
    BY <2>2, <2>3, <2>4
  <2>6. n \in 0 .. N
    OBVIOUS
  <2> HIDE DEF Obeys
  <2> QED BY <2>5, <2>6
<1>3. N \in Reachable_
  <2> HIDE DEF Reachable_
  <2>1. \A n \in 0 .. N : n \in Reachable_
    BY <1>1, <1>2, UpTo
  <2> QED BY <2>1
<1>4. PICK s : Obeys(s, N)
  BY <1>3
<1> QED BY <1>4 DEF Steps

-----------------------------------------------------------------------------
(* Sequences put one behind the other.                                     *)
Chained(ss) ==
  CHOOSE flatten : flatten = [i \in 1 .. Len(ss) |-> IF i = 1 THEN ss[i] ELSE flatten[i - 1] \o ss[i]]

LEMMA FlattenedIs == \A ss : FlattenSeq(ss) = IF Len(ss) = 0 THEN ss ELSE Chained(ss)[Len(ss)]
BY DEF FlattenSeq, Chained

LEMMA ChainedIs ==
  ASSUME NEW T, NEW ss \in Seq(Seq(T)), Len(ss) # 0
  PROVE  /\ Chained(ss)[1] = ss[1]
         /\ \A i \in 2 .. Len(ss) : Chained(ss)[i] = Chained(ss)[i - 1] \o ss[i]
<1> DEFINE N == Len(ss) - 1
           G == [x \in (1 .. N) \X Seq(T) |-> x[2] \o ss[x[1] + 1]]
           Obeys(t) == t = [i \in 1 .. Len(ss) |-> IF i = 1 THEN ss[i] ELSE t[i - 1] \o ss[i]]
<1>0. N \in Nat /\ Len(ss) \in Nat /\ DOMAIN ss = 1 .. Len(ss) /\ \A i \in 1 .. Len(ss) : ss[i] \in Seq(T)
  OBVIOUS
<1>1. ss[1] \in Seq(T)
  BY <1>0
<1>2. G \in [(1 .. N) \X Seq(T) -> Seq(T)]
  <2>1. ASSUME NEW x \in (1 .. N) \X Seq(T) PROVE x[2] \o ss[x[1] + 1] \in Seq(T)
    <3>1. x[1] + 1 \in 1 .. Len(ss) /\ x[2] \in Seq(T)
      BY <1>0
    <3>2. ss[x[1] + 1] \in Seq(T)
      BY <3>1, <1>0
    <3> QED BY <3>1, <3>2
  <2> QED BY <2>1
<1>3. PICK s \in [0 .. N -> Seq(T)] : s[0] = ss[1] /\ \A n \in 1 .. N : s[n] = G[<<n, s[n - 1]>>]
  <2>1. N \in Nat
    BY <1>0
  <2>2. \E s : Steps(N, Seq(T), ss[1], G, s)
    <3> HIDE DEF G, N
    <3> QED BY <2>1, <1>1, <1>2, StepsExist
  <2> QED BY <2>2 DEF Steps
<1> DEFINE t == [i \in 1 .. Len(ss) |-> s[i - 1]]
<1>4. ASSUME NEW i \in 1 .. Len(ss) PROVE t[i] = IF i = 1 THEN ss[i] ELSE t[i - 1] \o ss[i]
  <2>1. i - 1 \in 0 .. N
    BY <1>0
  <2>2. CASE i = 1
    <3>1. s[0] = ss[1]
      BY <1>3
    <3> QED BY <3>1, <2>2
  <2>3. CASE i # 1
    <3>1. i - 1 \in 1 .. N /\ (i - 1) - 1 \in 0 .. N /\ i - 1 \in 1 .. Len(ss) /\ (i - 1) + 1 = i
      BY <2>3, <1>0
    <3>2. s[i - 1] = G[<<i - 1, s[(i - 1) - 1]>>]
      BY <1>3, <3>1, <2>1
    <3>3. s[(i - 1) - 1] \in Seq(T)
      BY <1>3, <3>1
    <3>4. s[i - 1] = s[(i - 1) - 1] \o ss[i]
      BY <3>1, <3>2, <3>3
    <3> QED BY <3>1, <3>4, <2>3
  <2> QED BY <2>2, <2>3
<1>5. Obeys(t)
  <2>1. t = [i \in 1 .. Len(ss) |-> t[i]]
    OBVIOUS
  <2> HIDE DEF t
  <2> QED BY <2>1, <1>4
<1>6. Obeys(Chained(ss))
  <2> HIDE DEF t
  <2> QED BY <1>5 DEF Chained
<1>7. 1 \in 1 .. Len(ss)
  BY <1>0
<1>8. Chained(ss)[1] = ss[1]
  BY <1>6, <1>7
<1>9. ASSUME NEW i \in 2 .. Len(ss) PROVE Chained(ss)[i] = Chained(ss)[i - 1] \o ss[i]
  <2>1. i \in 1 .. Len(ss) /\ i # 1
    BY <1>0
  <2> QED BY <1>6, <2>1
<1> QED BY <1>8, <1>9

LEMMA JoinedHas ==
  ASSUME NEW T, NEW a \in Seq(T), NEW c \in Seq(T)
  PROVE  a \o c \in Seq(T) /\ \A x : x \in Range(a \o c) <=> x \in Range(a) \/ x \in Range(c)
<1>1. ASSUME NEW x, x \in Range(a) PROVE x \in Range(a \o c)
  <2>1. PICK i \in DOMAIN a : a[i] = x
    BY <1>1 DEF Range
  <2>2. i \in DOMAIN (a \o c) /\ (a \o c)[i] = x
    BY <2>1
  <2> QED BY <2>2 DEF Range
<1>2. ASSUME NEW x, x \in Range(c) PROVE x \in Range(a \o c)
  <2>1. PICK i \in DOMAIN c : c[i] = x
    BY <1>2 DEF Range
  <2>2. Len(a) + i \in DOMAIN (a \o c) /\ (a \o c)[Len(a) + i] = x
    BY <2>1
  <2> QED BY <2>2 DEF Range
<1>3. ASSUME NEW x, x \in Range(a \o c) PROVE x \in Range(a) \/ x \in Range(c)
  <2>1. PICK i \in DOMAIN (a \o c) : (a \o c)[i] = x
    BY <1>3 DEF Range
  <2>2. CASE i <= Len(a)
    BY <2>1, <2>2 DEF Range
  <2>3. CASE ~(i <= Len(a))
    <3>1. i - Len(a) \in DOMAIN c /\ c[i - Len(a)] = x
      BY <2>1, <2>3
    <3> QED BY <3>1 DEF Range
  <2> QED BY <2>2, <2>3
<1> QED BY <1>1, <1>2, <1>3

LEMMA FlattenedHas ==
  ASSUME NEW T, NEW ss \in Seq(Seq(T))
  PROVE  /\ FlattenSeq(ss) \in Seq(T)
         /\ \A x : x \in Range(FlattenSeq(ss)) <=> \E i \in DOMAIN ss : x \in Range(ss[i])
<1>0. Len(ss) \in Nat /\ DOMAIN ss = 1 .. Len(ss) /\ \A i \in 1 .. Len(ss) : ss[i] \in Seq(T)
  OBVIOUS
<1>1. CASE Len(ss) = 0
  <2>1. FlattenSeq(ss) = ss /\ ss = <<>> /\ DOMAIN ss = {}
    BY <1>1, <1>0, FlattenedIs
  <2> QED BY <2>1 DEF Range
<1>2. CASE Len(ss) # 0
  <2> DEFINE Good(n) == /\ Chained(ss)[n] \in Seq(T)
                        /\ \A x : x \in Range(Chained(ss)[n]) <=> \E i \in 1 .. n : x \in Range(ss[i])
             S == {n \in 0 .. Len(ss) : n # 0 => Good(n)}
  <2>1. 0 \in S
    BY <1>0
  <2>2. ASSUME NEW n \in 1 .. Len(ss), n - 1 \in S PROVE n \in S
    <3>0. ss[n] \in Seq(T) /\ n \in 0 .. Len(ss) /\ n # 0
      BY <1>0
    <3>1. CASE n = 1
      <4>1. Chained(ss)[1] = ss[1]
        BY <1>2, ChainedIs
      <4>2. \A i : i \in 1 .. 1 <=> i = 1
        OBVIOUS
      <4>3. \A x : x \in Range(ss[1]) <=> \E i \in 1 .. 1 : x \in Range(ss[i])
        BY <4>2, Zenon
      <4>4. Good(1)
        BY <4>1, <4>3, <3>0, <3>1
      <4> QED BY <4>4, <3>0, <3>1
    <3>2. CASE n # 1
      <4>1. n \in 2 .. Len(ss) /\ n - 1 # 0
        BY <3>2
      <4>2. Chained(ss)[n] = Chained(ss)[n - 1] \o ss[n]
        BY <1>2, <4>1, ChainedIs
      <4>3. Good(n - 1)
        BY <2>2, <4>1
      <4>4. Chained(ss)[n] \in Seq(T)
        BY <4>2, <4>3, <3>0
      <4>5. \A x : x \in Range(Chained(ss)[n]) <=> x \in Range(Chained(ss)[n - 1]) \/ x \in Range(ss[n])
        BY <4>2, <4>3, <3>0, JoinedHas
      <4>6. \A x : (\E i \in 1 .. n : x \in Range(ss[i])) <=> (\E i \in 1 .. n - 1 : x \in Range(ss[i])) \/ x \in Range(ss[n])
        <5>1. \A i \in 1 .. n : i = n \/ i \in 1 .. n - 1
          OBVIOUS
        <5>2. n \in 1 .. n /\ \A i \in 1 .. n - 1 : i \in 1 .. n
          OBVIOUS
        <5> QED BY <5>1, <5>2
      <4>7. Good(n)
        BY <4>3, <4>4, <4>5, <4>6
      <4> QED BY <4>7, <3>0
    <3> QED BY <3>1, <3>2
  <2>3. Len(ss) \in S
    <3> HIDE DEF S
    <3>1. \A n \in 0 .. Len(ss) : n \in S
      BY <1>0, <2>1, <2>2, UpTo
    <3> QED BY <3>1, <1>0
  <2>4. Good(Len(ss))
    BY <2>3, <1>2
  <2>5. FlattenSeq(ss) = Chained(ss)[Len(ss)]
    BY <1>2, FlattenedIs
  <2> HIDE DEF S
  <2> QED BY <2>4, <2>5, <1>0
<1> QED BY <1>1, <1>2

LEMMA StandingHas ==
  ASSUME NEW T, NEW seq \in Seq(T), NEW places
  PROVE  /\ StandingAt(seq, places) \in Seq(T)
         /\ \A x : x \in Range(StandingAt(seq, places)) <=> \E i \in DOMAIN seq \cap places : x = seq[i]
<1> DEFINE ss == [i \in DOMAIN seq |-> IF i \in places THEN <<seq[i]>> ELSE <<>>]
<1>1. ss \in Seq(Seq(T)) /\ DOMAIN ss = DOMAIN seq
  <2>1. \A i \in DOMAIN seq : (IF i \in places THEN <<seq[i]>> ELSE <<>>) \in Seq(T)
    OBVIOUS
  <2>2. DOMAIN seq = 1 .. Len(seq) /\ Len(seq) \in Nat
    OBVIOUS
  <2> QED BY <2>1, <2>2
<1>2. \A i \in DOMAIN seq : \A x : x \in Range(ss[i]) <=> i \in places /\ x = seq[i]
  BY DEF Range
<1>3. StandingAt(seq, places) = FlattenSeq(ss)
  BY DEF StandingAt
<1> HIDE DEF ss
<1>4. /\ FlattenSeq(ss) \in Seq(T)
      /\ \A x : x \in Range(FlattenSeq(ss)) <=> \E i \in DOMAIN ss : x \in Range(ss[i])
  BY <1>1, FlattenedHas
<1> QED BY <1>1, <1>2, <1>3, <1>4

-----------------------------------------------------------------------------
(* One round of what is reached.                                           *)
Grown(before, x) == IF Carried(before, x.carrier) THEN before ELSE Append(before, x)
Rounds(reached, met) ==
  CHOOSE after : after = [k \in 0 .. Len(met) |->
        IF k = 0 THEN reached
        ELSE LET before == after[k - 1]
             IN  IF Carried(before, met[k].carrier) THEN before ELSE Append(before, met[k])]

LEMMA AddedIs == \A reached, met : Added(reached, met) = Rounds(reached, met)[Len(met)]
BY DEF Added, Rounds

LEMMA RoundsAre ==
  ASSUME NEW P, NEW reached \in Seq(P), NEW met \in Seq(P)
  PROVE  /\ Rounds(reached, met)[0] = reached
         /\ \A k \in 1 .. Len(met) : Rounds(reached, met)[k] = Grown(Rounds(reached, met)[k - 1], met[k])
<1> DEFINE N == Len(met)
           G == [x \in (1 .. N) \X Seq(P) |-> Grown(x[2], met[x[1]])]
           Obeys(t) == t = [k \in 0 .. Len(met) |->
        IF k = 0 THEN reached
        ELSE LET before == t[k - 1]
             IN  IF Carried(before, met[k].carrier) THEN before ELSE Append(before, met[k])]
<1>0. N \in Nat /\ DOMAIN met = 1 .. N /\ \A k \in 1 .. N : met[k] \in P
  OBVIOUS
<1>1. G \in [(1 .. N) \X Seq(P) -> Seq(P)]
  <2>1. ASSUME NEW x \in (1 .. N) \X Seq(P) PROVE Grown(x[2], met[x[1]]) \in Seq(P)
    BY <1>0 DEF Grown
  <2> QED BY <2>1
<1>2. PICK s : Steps(N, Seq(P), reached, G, s)
  <2> HIDE DEF G
  <2>1. N \in Nat
    BY <1>0
  <2> QED BY <2>1, <1>1, StepsExist
<1>3. s \in [0 .. N -> Seq(P)] /\ s[0] = reached /\ \A n \in 1 .. N : s[n] = Grown(s[n - 1], met[n])
  <2>1. ASSUME NEW n \in 1 .. N PROVE s[n] = Grown(s[n - 1], met[n])
    <3>1. s[n] = G[<<n, s[n - 1]>>] /\ n - 1 \in 0 .. N /\ s \in [0 .. N -> Seq(P)]
      <4> HIDE DEF G
      <4> QED BY <1>0, <1>2 DEF Steps
    <3>2. <<n, s[n - 1]>> \in (1 .. N) \X Seq(P)
      BY <3>1
    <3> QED BY <3>1, <3>2
  <2> QED BY <2>1, <1>2 DEF Steps
<1>4. Obeys(s)
  <2>1. s = [k \in 0 .. N |-> s[k]]
    BY <1>3
  <2>2. \A k \in 0 .. N : k # 0 => k \in 1 .. N
    BY <1>0
  <2> QED BY <2>1, <2>2, <1>3 DEF Grown
<1>5. Obeys(Rounds(reached, met))
  BY <1>4 DEF Rounds
<1>6. \A k \in 1 .. N : k \in 0 .. N /\ k # 0
  BY <1>0
<1>7. 0 \in 0 .. N
  BY <1>0
<1> QED BY <1>5, <1>6, <1>7 DEF Grown

Once(reached) == \A i, j \in DOMAIN reached : reached[i].carrier = reached[j].carrier => i = j
Keeps(before, after) == Len(before) <= Len(after) /\ \A i \in DOMAIN before : after[i] = before[i]

LEMMA GrownHas ==
  ASSUME NEW P, NEW before \in Seq(P), NEW x \in P
  PROVE  /\ Grown(before, x) \in Seq(P)
         /\ Keeps(before, Grown(before, x))
         /\ \A i \in DOMAIN Grown(before, x) : i > Len(before) => Grown(before, x)[i] = x
         /\ Carried(Grown(before, x), x.carrier)
         /\ Once(before) => Once(Grown(before, x))
<1>1. CASE Carried(before, x.carrier)
  BY <1>1 DEF Grown, Keeps
<1>2. CASE ~Carried(before, x.carrier)
  <2> DEFINE g == Append(before, x)
  <2>1. /\ Grown(before, x) = g /\ g \in Seq(P) /\ Len(g) = Len(before) + 1 /\ DOMAIN g = 1 .. Len(before) + 1
        /\ Len(before) \in Nat /\ DOMAIN before = 1 .. Len(before)
        /\ g[Len(before) + 1] = x /\ \A i \in DOMAIN before : g[i] = before[i]
    BY <1>2 DEF Grown
  <2> HIDE DEF g
  <2>2. Keeps(before, g)
    BY <2>1 DEF Keeps
  <2>3. \A i \in DOMAIN g : i > Len(before) => g[i] = x
    BY <2>1
  <2>4. Carried(g, x.carrier)
    BY <2>1 DEF Carried
  <2>5. ASSUME Once(before), NEW i \in DOMAIN g, NEW j \in DOMAIN g, g[i].carrier = g[j].carrier PROVE i = j
    <3>1. \A k \in DOMAIN g : k \in DOMAIN before \/ k = Len(before) + 1
      BY <2>1
    <3>2. \A k \in DOMAIN before : g[k].carrier # x.carrier
      BY <1>2, <2>1 DEF Carried
    <3> QED BY <3>1, <3>2, <2>1, <2>5 DEF Once
  <2> QED BY <2>1, <2>2, <2>3, <2>4, <2>5 DEF Once
<1> QED BY <1>1, <1>2

LEMMA KeptCarried ==
  ASSUME NEW P, NEW before \in Seq(P), NEW after \in Seq(P), Keeps(before, after), NEW v, Carried(before, v)
  PROVE  Carried(after, v)
<1>1. PICK i \in DOMAIN before : before[i].carrier = v
  BY DEF Carried
<1>2. i \in DOMAIN after /\ after[i] = before[i]
  BY DEF Keeps
<1> QED BY <1>1, <1>2 DEF Carried

LEMMA AddedHas ==
  ASSUME NEW P, NEW reached \in Seq(P), NEW met \in Seq(P)
  PROVE  /\ Added(reached, met) \in Seq(P)
         /\ Keeps(reached, Added(reached, met))
         /\ \A i \in DOMAIN Added(reached, met) : i > Len(reached) => Added(reached, met)[i] \in Range(met)
         /\ \A x \in Range(met) : Carried(Added(reached, met), x.carrier)
         /\ Once(reached) => Once(Added(reached, met))
<1> DEFINE N == Len(met)
           R(k) == Rounds(reached, met)[k]
           Good(k) == /\ R(k) \in Seq(P)
                      /\ Keeps(reached, R(k))
                      /\ \A i \in DOMAIN R(k) : i > Len(reached) => R(k)[i] \in Range(met)
                      /\ \A m \in 1 .. k : Carried(R(k), met[m].carrier)
                      /\ Once(reached) => Once(R(k))
           S == {k \in 0 .. N : Good(k)}
<1>0. N \in Nat /\ DOMAIN met = 1 .. N /\ (\A k \in 1 .. N : met[k] \in P) /\ 0 \in 0 .. N /\ N \in 0 .. N
  OBVIOUS
<1>1. R(0) = reached /\ \A k \in 1 .. N : R(k) = Grown(R(k - 1), met[k])
  BY RoundsAre
<1> HIDE DEF R
<1>2. 0 \in S
  <2>1. Keeps(reached, reached) /\ \A i \in DOMAIN reached : ~(i > Len(reached))
    BY DEF Keeps
  <2>2. \A m \in 1 .. 0 : FALSE
    OBVIOUS
  <2> QED BY <1>0, <1>1, <2>1, <2>2
<1>3. ASSUME NEW k \in 1 .. N, k - 1 \in S PROVE k \in S
  <2> DEFINE b == R(k - 1)
             x == met[k]
  <2>0. /\ b \in Seq(P) /\ Keeps(reached, b)
        /\ \A i \in DOMAIN b : i > Len(reached) => b[i] \in Range(met)
        /\ \A m \in 1 .. k - 1 : Carried(b, met[m].carrier)
        /\ Once(reached) => Once(b)
    BY <1>3
  <2>1. x \in P /\ R(k) = Grown(b, x) /\ x \in Range(met) /\ k \in 0 .. N
    BY <1>0, <1>1 DEF Range
  <2> DEFINE a == Grown(b, x)
  <2> HIDE DEF b, x
  <2>2. /\ a \in Seq(P) /\ Keeps(b, a) /\ \A i \in DOMAIN a : i > Len(b) => a[i] = x
        /\ Carried(a, x.carrier) /\ (Once(b) => Once(a))
    BY <2>0, <2>1, GrownHas
  <2> HIDE DEF a
  <2>3. Keeps(reached, a)
    BY <2>0, <2>2 DEF Keeps
  <2>4. \A i \in DOMAIN a : i > Len(reached) => a[i] \in Range(met)
    <3>1. ASSUME NEW i \in DOMAIN a, i > Len(reached) PROVE a[i] \in Range(met)
      <4>1. CASE i > Len(b)
        BY <2>1, <2>2, <4>1
      <4>2. CASE ~(i > Len(b))
        <5>1. i \in DOMAIN b
          BY <4>2, <2>0, <2>2
        <5> QED BY <5>1, <2>0, <2>2, <3>1 DEF Keeps
      <4> QED BY <4>1, <4>2
    <3> QED BY <3>1
  <2>5. \A m \in 1 .. k : Carried(a, met[m].carrier)
    <3>1. ASSUME NEW m \in 1 .. k PROVE Carried(a, met[m].carrier)
      <4>1. CASE m = k
        BY <4>1, <2>2 DEF x
      <4>2. CASE m # k
        <5>1. m \in 1 .. k - 1
          BY <4>2
        <5> QED BY <5>1, <2>0, <2>2, KeptCarried
      <4> QED BY <4>1, <4>2
    <3> QED BY <3>1
  <2>6. R(k) = a
    BY <2>1 DEF a
  <2>7. Good(k)
    BY <2>0, <2>2, <2>3, <2>4, <2>5, <2>6
  <2> HIDE DEF Good
  <2> QED BY <2>1, <2>7
<1>4. N \in S
  <2> HIDE DEF S
  <2>1. \A k \in 0 .. N : k \in S
    BY <1>0, <1>2, <1>3, UpTo
  <2> QED BY <2>1, <1>0
<1>5. Good(N)
  BY <1>4
<1>6. Added(reached, met) = R(N)
  BY AddedIs DEF R
<1>7. \A x \in Range(met) : \E m \in 1 .. N : x = met[m]
  BY <1>0 DEF Range
<1> QED BY <1>5, <1>6, <1>7

-----------------------------------------------------------------------------
(* What is reached in a handler of this shape.                             *)
Entry == [key : STRING, val : Nat]
Flow_(p) == [from : DOMAIN p.val, to : DOMAIN p.val]
Place(p) == [carrier : DOMAIN p.val, key : STRING \cup {Nameless}]

LEMMA ShapeOf ==
  ASSUME NEW p, HandlerShaped(p)
  PROVE  /\ Len(p.val) \in Nat /\ DOMAIN p.val = 1 .. Len(p.val)
         /\ Len(p.fns) \in Nat /\ DOMAIN p.fns = 1 .. Len(p.fns) /\ 1 \in DOMAIN p.fns
         /\ \A v \in DOMAIN p.val : /\ p.val[v].entries \in Seq(Entry)
                                    /\ p.val[v].path \in Seq(STRING) /\ p.val[v].base \in Nat
         /\ \A f \in Range(p.fns) : /\ f.vals \in Seq(DOMAIN p.val) /\ f.params \in Seq(ParamForms)
                                    /\ f.assigns \in Seq(Flow_(p)) /\ f.calls \in Seq(CallForms_)
         /\ \A g \in DOMAIN p.fns : p.fns[g] \in Range(p.fns)
<1> DEFINE V == [kind : STRING, base : Nat, path : Seq(STRING), name : STRING, entries : Seq(Entry)]
           F == [params : Seq(ParamForms), vals : Seq(DOMAIN p.val), bound : BOOLEAN,
                 assigns : Seq(Flow_(p)), calls : Seq(CallForms_)]
<1>1. p.val \in Seq(V) /\ p.fns \in Seq(F) /\ p.fns # <<>>
  BY DEF HandlerShaped, Entry, Flow_
<1>2. ASSUME NEW v \in DOMAIN p.val
      PROVE  p.val[v].entries \in Seq(Entry) /\ p.val[v].path \in Seq(STRING) /\ p.val[v].base \in Nat
  <2>1. p.val[v] \in V
    <3> HIDE DEF V
    <3> QED BY <1>1
  <2> QED BY <2>1
<1>3. ASSUME NEW f \in Range(p.fns)
      PROVE  /\ f.vals \in Seq(DOMAIN p.val) /\ f.params \in Seq(ParamForms)
             /\ f.assigns \in Seq(Flow_(p)) /\ f.calls \in Seq(CallForms_)
  <2>1. f \in F
    <3> HIDE DEF F
    <3> QED BY <1>1 DEF Range
  <2> QED BY <2>1
<1>4. /\ Len(p.val) \in Nat /\ DOMAIN p.val = 1 .. Len(p.val)
      /\ Len(p.fns) \in Nat /\ DOMAIN p.fns = 1 .. Len(p.fns) /\ 1 \in DOMAIN p.fns
  <2> HIDE DEF F, V
  <2> QED BY <1>1
<1> QED BY <1>2, <1>3, <1>4 DEF Range

MetAt(p, f, at) == Enclosing(p, f, at.carrier) \o AliasesOf(f, at)

LEMMA EnclosingHas ==
  ASSUME NEW p, HandlerShaped(p), NEW f \in Range(p.fns), NEW v
  PROVE  /\ Enclosing(p, f, v) \in Seq(Place(p))
         /\ \A x : x \in Range(Enclosing(p, f, v)) <=>
              \E o \in Range(f.vals) : \E e \in Range(p.val[o].entries) : e.val = v /\ x = Holder(o, e)
<1>1. f.vals \in Seq(DOMAIN p.val) /\ \A o \in DOMAIN p.val : p.val[o].entries \in Seq(Entry)
  BY ShapeOf
<1>2. ASSUME NEW o \in DOMAIN p.val
      PROVE  /\ HoldersIn(p, o, v) \in Seq(Place(p))
             /\ \A x : x \in Range(HoldersIn(p, o, v)) <=>
                  \E e \in Range(p.val[o].entries) : e.val = v /\ x = Holder(o, e)
  <2> DEFINE E == p.val[o].entries
             ss == [k \in DOMAIN E |-> IF E[k].val = v THEN <<Holder(o, E[k])>> ELSE <<>>]
  <2>1. E \in Seq(Entry)
    BY <1>1
  <2> HIDE DEF E
  <2>2. DOMAIN E = 1 .. Len(E) /\ Len(E) \in Nat /\ \A k \in DOMAIN E : E[k] \in Entry
    BY <2>1
  <2>3. ASSUME NEW k \in DOMAIN E PROVE (IF E[k].val = v THEN <<Holder(o, E[k])>> ELSE <<>>) \in Seq(Place(p))
    <3>1. Holder(o, E[k]) \in Place(p)
      BY <2>2 DEF Holder, Place, Entry
    <3> QED BY <3>1
  <2>4. ss \in Seq(Seq(Place(p)))
    BY <2>2, <2>3
  <2>5. \A k \in DOMAIN E : \A x : x \in Range(ss[k]) <=> E[k].val = v /\ x = Holder(o, E[k])
    BY DEF Range
  <2>6. DOMAIN ss = DOMAIN E
    OBVIOUS
  <2>7. HoldersIn(p, o, v) = FlattenSeq(ss)
    BY DEF HoldersIn, E
  <2> HIDE DEF ss
  <2>8. /\ FlattenSeq(ss) \in Seq(Place(p))
        /\ \A x : x \in Range(FlattenSeq(ss)) <=> \E k \in DOMAIN ss : x \in Range(ss[k])
    BY <2>4, FlattenedHas
  <2>9. \A x : x \in Range(FlattenSeq(ss)) <=> \E e \in Range(E) : e.val = v /\ x = Holder(o, e)
    <3>1. \A e : e \in Range(E) <=> \E k \in DOMAIN E : e = E[k]
      BY DEF Range
    <3>2. \A x : x \in Range(FlattenSeq(ss)) <=> \E k \in DOMAIN E : E[k].val = v /\ x = Holder(o, E[k])
      BY <2>5, <2>6, <2>8
    <3> QED BY <3>1, <3>2
  <2> QED BY <2>7, <2>8, <2>9 DEF E
<1> DEFINE tt == [i \in DOMAIN f.vals |-> HoldersIn(p, f.vals[i], v)]
<1>3. DOMAIN f.vals = 1 .. Len(f.vals) /\ Len(f.vals) \in Nat /\ \A i \in DOMAIN f.vals : f.vals[i] \in DOMAIN p.val
  BY <1>1
<1>4. tt \in Seq(Seq(Place(p)))
  <2>1. \A i \in DOMAIN f.vals : HoldersIn(p, f.vals[i], v) \in Seq(Place(p))
    BY <1>2, <1>3
  <2> QED BY <2>1, <1>3
<1>5. \A i \in DOMAIN f.vals : \A x : x \in Range(tt[i]) <=>
        \E e \in Range(p.val[f.vals[i]].entries) : e.val = v /\ x = Holder(f.vals[i], e)
  BY <1>2, <1>3
<1>6. DOMAIN tt = DOMAIN f.vals
  OBVIOUS
<1>7. Enclosing(p, f, v) = FlattenSeq(tt)
  BY DEF Enclosing
<1> HIDE DEF tt
<1>8. /\ FlattenSeq(tt) \in Seq(Place(p))
      /\ \A x : x \in Range(FlattenSeq(tt)) <=> \E i \in DOMAIN tt : x \in Range(tt[i])
  BY <1>4, FlattenedHas
<1>9. \A x : x \in Range(FlattenSeq(tt)) <=>
        \E o \in Range(f.vals) : \E e \in Range(p.val[o].entries) : e.val = v /\ x = Holder(o, e)
  <2> DEFINE Hit(o, x) == \E e \in Range(p.val[o].entries) : e.val = v /\ x = Holder(o, e)
  <2>1. \A i \in DOMAIN f.vals : \A x : x \in Range(tt[i]) <=> Hit(f.vals[i], x)
    BY <1>5
  <2>2. \A o : o \in Range(f.vals) <=> \E i \in DOMAIN f.vals : o = f.vals[i]
    BY DEF Range
  <2> HIDE DEF Hit
  <2>3. \A x : x \in Range(FlattenSeq(tt)) <=> \E i \in DOMAIN f.vals : Hit(f.vals[i], x)
    BY <2>1, <1>6, <1>8
  <2>4. \A x : x \in Range(FlattenSeq(tt)) <=> \E o \in Range(f.vals) : Hit(o, x)
    BY <2>2, <2>3
  <2> QED BY <2>4 DEF Hit
<1> QED BY <1>7, <1>8, <1>9

LEMMA AliasesHave ==
  ASSUME NEW p, HandlerShaped(p), NEW f \in Range(p.fns), NEW cur \in Place(p)
  PROVE  /\ AliasesOf(f, cur) \in Seq(Place(p))
         /\ \A x : x \in Range(AliasesOf(f, cur)) <=>
              \E e \in Range(f.assigns) : e.from = cur.carrier /\ x = [carrier |-> e.to, key |-> cur.key]
<1> DEFINE flows == AssignedTo(f, cur.carrier)
           al == [k \in DOMAIN flows |-> [carrier |-> flows[k].to, key |-> cur.key]]
<1>1. f.assigns \in Seq(Flow_(p))
  BY ShapeOf
<1>2. /\ flows \in Seq(Flow_(p))
      /\ \A e : e \in Range(flows) <=> e \in Range(f.assigns) /\ e.from = cur.carrier
  <2> DEFINE at == {k \in DOMAIN f.assigns : f.assigns[k].from = cur.carrier}
  <2>1. flows = StandingAt(f.assigns, at)
    BY DEF AssignedTo
  <2> HIDE DEF at, flows
  <2>2. /\ flows \in Seq(Flow_(p))
        /\ \A e : e \in Range(flows) <=> \E k \in DOMAIN f.assigns \cap at : e = f.assigns[k]
    BY <1>1, <2>1, StandingHas
  <2> QED BY <2>2 DEF at, Range
<1>3. AliasesOf(f, cur) = al
  BY DEF AliasesOf
<1> HIDE DEF flows
<1>4. DOMAIN flows = 1 .. Len(flows) /\ Len(flows) \in Nat /\ \A k \in DOMAIN flows : flows[k] \in Flow_(p)
  BY <1>2
<1>5. al \in Seq(Place(p))
  <2>1. \A k \in DOMAIN flows : [carrier |-> flows[k].to, key |-> cur.key] \in Place(p)
    BY <1>4 DEF Flow_, Place
  <2> QED BY <2>1, <1>4
<1>6. \A x : x \in Range(al) <=> \E e \in Range(flows) : x = [carrier |-> e.to, key |-> cur.key]
  BY DEF Range
<1> HIDE DEF al
<1> QED BY <1>2, <1>3, <1>5, <1>6

Meets(p, f, at, x) ==
  \/ \E o \in Range(f.vals) : \E e \in Range(p.val[o].entries) : e.val = at.carrier /\ x = Holder(o, e)
  \/ \E e \in Range(f.assigns) : e.from = at.carrier /\ x = [carrier |-> e.to, key |-> at.key]

LEMMA MetHas ==
  ASSUME NEW p, HandlerShaped(p), NEW f \in Range(p.fns), NEW at \in Place(p)
  PROVE  /\ MetAt(p, f, at) \in Seq(Place(p))
         /\ \A x : x \in Range(MetAt(p, f, at)) <=> Meets(p, f, at, x)
<1>1. Enclosing(p, f, at.carrier) \in Seq(Place(p)) /\ AliasesOf(f, at) \in Seq(Place(p))
  BY EnclosingHas, AliasesHave
<1>2. /\ MetAt(p, f, at) \in Seq(Place(p))
      /\ \A x : x \in Range(MetAt(p, f, at)) <=> x \in Range(Enclosing(p, f, at.carrier)) \/ x \in Range(AliasesOf(f, at))
  BY <1>1, JoinedHas DEF MetAt
<1>3. \A x : x \in Range(Enclosing(p, f, at.carrier)) <=>
              \E o \in Range(f.vals) : \E e \in Range(p.val[o].entries) : e.val = at.carrier /\ x = Holder(o, e)
  BY EnclosingHas
<1>4. \A x : x \in Range(AliasesOf(f, at)) <=>
              \E e \in Range(f.assigns) : e.from = at.carrier /\ x = [carrier |-> e.to, key |-> at.key]
  BY AliasesHave
<1> QED BY <1>2, <1>3, <1>4 DEF Meets

-----------------------------------------------------------------------------
Walks(p, f, seed) ==
  CHOOSE walk : walk = [n \in 0 .. Len(p.val) |->
        IF n = 0 THEN <<[carrier |-> seed, key |-> Nameless]>> ELSE Visit(p, f, walk[n - 1], n)]

LEMMA SpreadIs == \A p, f, seed : Spread(p, f, seed) = Walks(p, f, seed)[Len(p.val)]
BY DEF Spread, Walks

LEMMA VisitHas ==
  ASSUME NEW p, HandlerShaped(p), NEW f \in Range(p.fns), NEW reached \in Seq(Place(p)), NEW at \in Nat \ {0}
  PROVE  /\ Visit(p, f, reached, at) \in Seq(Place(p))
         /\ Keeps(reached, Visit(p, f, reached, at))
         /\ Once(reached) => Once(Visit(p, f, reached, at))
         /\ \A i \in DOMAIN Visit(p, f, reached, at) : i > Len(reached) =>
              at \in DOMAIN reached /\ Visit(p, f, reached, at)[i] \in Range(MetAt(p, f, reached[at]))
         /\ at \in DOMAIN reached =>
              \A x \in Range(MetAt(p, f, reached[at])) : Carried(Visit(p, f, reached, at), x.carrier)
<1>0. Len(reached) \in Nat /\ DOMAIN reached = 1 .. Len(reached)
  OBVIOUS
<1>1. CASE at > Len(reached)
  <2>1. Visit(p, f, reached, at) = reached /\ at \notin DOMAIN reached
    BY <1>0, <1>1 DEF Visit
  <2> QED BY <2>1, <1>0 DEF Keeps
<1>2. CASE ~(at > Len(reached))
  <2>1. at \in DOMAIN reached /\ reached[at] \in Place(p)
    BY <1>0, <1>2
  <2> DEFINE met == MetAt(p, f, reached[at])
  <2>2. met \in Seq(Place(p))
    BY <2>1, MetHas
  <2>3. Visit(p, f, reached, at) = Added(reached, met)
    BY <1>2 DEF Visit, MetAt
  <2> HIDE DEF met
  <2>4. /\ Added(reached, met) \in Seq(Place(p))
        /\ Keeps(reached, Added(reached, met))
        /\ \A i \in DOMAIN Added(reached, met) : i > Len(reached) => Added(reached, met)[i] \in Range(met)
        /\ \A x \in Range(met) : Carried(Added(reached, met), x.carrier)
        /\ Once(reached) => Once(Added(reached, met))
    BY <2>2, AddedHas
  <2> QED BY <2>1, <2>3, <2>4 DEF met
<1> QED BY <1>1, <1>2

LEMMA WalksAre ==
  ASSUME NEW p, HandlerShaped(p), NEW f \in Range(p.fns), NEW seed \in DOMAIN p.val
  PROVE  /\ Walks(p, f, seed)[0] = <<[carrier |-> seed, key |-> Nameless]>>
         /\ \A n \in 1 .. Len(p.val) : Walks(p, f, seed)[n] = Visit(p, f, Walks(p, f, seed)[n - 1], n)
<1> DEFINE N == Len(p.val)
           P == Seq(Place(p))
           b == <<[carrier |-> seed, key |-> Nameless]>>
           G == [x \in (1 .. N) \X P |-> Visit(p, f, x[2], x[1])]
           Obeys(t) == t = [n \in 0 .. Len(p.val) |->
        IF n = 0 THEN <<[carrier |-> seed, key |-> Nameless]>> ELSE Visit(p, f, t[n - 1], n)]
<1>0. N \in Nat
  BY ShapeOf
<1>1. b \in P
  <2> DEFINE e == [carrier |-> seed, key |-> Nameless]
  <2>1. e \in Place(p)
    BY DEF Place
  <2> HIDE DEF e
  <2>2. <<e>> \in Seq(Place(p))
    BY <2>1
  <2> QED BY <2>2 DEF e
<1>2. G \in [(1 .. N) \X P -> P]
  <2>1. ASSUME NEW x \in (1 .. N) \X P PROVE Visit(p, f, x[2], x[1]) \in P
    <3>1. x[1] \in Nat \ {0} /\ x[2] \in P
      BY <1>0
    <3> QED BY <3>1, VisitHas
  <2> HIDE DEF P
  <2> QED BY <2>1
<1>3. PICK s : Steps(N, P, b, G, s)
  <2> HIDE DEF G, P, b, N
  <2> QED BY <1>0, <1>1, <1>2, StepsExist
<1>4. s \in [0 .. N -> P] /\ s[0] = b /\ \A n \in 1 .. N : s[n] = Visit(p, f, s[n - 1], n)
  <2>1. ASSUME NEW n \in 1 .. N PROVE s[n] = Visit(p, f, s[n - 1], n)
    <3>1. s[n] = G[<<n, s[n - 1]>>] /\ n - 1 \in 0 .. N /\ s \in [0 .. N -> P]
      <4> HIDE DEF G, P, b
      <4> QED BY <1>0, <1>3 DEF Steps
    <3>2. <<n, s[n - 1]>> \in (1 .. N) \X P
      <4> HIDE DEF P
      <4> QED BY <3>1
    <3> HIDE DEF P
    <3> QED BY <3>1, <3>2
  <2> HIDE DEF P, b
  <2> QED BY <2>1, <1>3 DEF Steps
<1>5. Obeys(s)
  <2>1. s = [k \in 0 .. N |-> s[k]]
    <3> HIDE DEF P
    <3> QED BY <1>4
  <2>2. \A k \in 0 .. N : k # 0 => k \in 1 .. N
    BY <1>0
  <2> QED BY <2>1, <2>2, <1>4
<1>6. Obeys(Walks(p, f, seed))
  BY <1>5 DEF Walks
<1>7. \A k \in 1 .. N : k \in 0 .. N /\ k # 0
  BY <1>0
<1>8. 0 \in 0 .. N
  BY <1>0
<1> QED BY <1>6, <1>7, <1>8

ClosedAt(p, f, w, i) == \A x \in Range(MetAt(p, f, w[i])) : Carried(w, x.carrier)
HasOrigin(p, f, w, i) == \E j \in 1 .. i - 1 : w[i] \in Range(MetAt(p, f, w[j]))
Starts(w, seed) == 1 \in DOMAIN w /\ w[1] = [carrier |-> seed, key |-> Nameless]

(* What is reached starts at the secret, each carrier once and met from    *)
(* one reached before it, and nothing that is met from it is left out.     *)
SpreadOf(p, f, seed, w) ==
  /\ w \in Seq(Place(p)) /\ Len(w) <= Len(p.val)
  /\ Once(w) /\ Starts(w, seed)
  /\ \A i \in DOMAIN w : ClosedAt(p, f, w, i)
  /\ \A i \in DOMAIN w : i # 1 => HasOrigin(p, f, w, i)

LEMMA OnceIsShort ==
  ASSUME NEW p, HandlerShaped(p), NEW w \in Seq(Place(p)), Once(w)
  PROVE  Len(w) <= Len(p.val)
<1>1. /\ Len(w) \in Nat /\ DOMAIN w = 1 .. Len(w) /\ \A i \in 1 .. Len(w) : w[i].carrier \in 1 .. Len(p.val)
      /\ Len(p.val) \in Nat
  <2>1. \A i \in 1 .. Len(w) : w[i] \in Place(p)
    OBVIOUS
  <2>2. Len(p.val) \in Nat /\ DOMAIN p.val = 1 .. Len(p.val)
    BY ShapeOf
  <2>3. \A i \in 1 .. Len(w) : w[i].carrier \in DOMAIN p.val
    BY <2>1 DEF Place
  <2>4. Len(w) \in Nat /\ DOMAIN w = 1 .. Len(w)
    OBVIOUS
  <2> QED BY <2>2, <2>3, <2>4
<1>2. SUFFICES ASSUME Len(p.val) < Len(w) PROVE FALSE
  BY <1>1
<1> DEFINE g == [i \in 1 .. Len(w) |-> w[i].carrier]
<1>3. g \in [1 .. Len(w) -> 1 .. Len(p.val)]
  BY <1>1
<1>4. /\ IsFiniteSet(1 .. Len(w)) /\ Cardinality(1 .. Len(w)) = Len(w)
      /\ IsFiniteSet(1 .. Len(p.val)) /\ Cardinality(1 .. Len(p.val)) = Len(p.val)
  <2>1. \A m \in Nat : IsFiniteSet(1 .. m) /\ Cardinality(1 .. m) = m
    BY FS_Interval
  <2> QED BY <1>1, <2>1
<1>5. PICK i, j \in 1 .. Len(w) : i # j /\ g[i] = g[j]
  <2> HIDE DEF g
  <2> QED BY <1>2, <1>3, <1>4, FS_PigeonHole
<1>6. w[i].carrier = w[j].carrier
  BY <1>5
<1> QED BY <1>1, <1>5, <1>6 DEF Once

LEMMA SpreadHas ==
  ASSUME NEW p, HandlerShaped(p), NEW f \in Range(p.fns), NEW seed \in DOMAIN p.val
  PROVE  SpreadOf(p, f, seed, Spread(p, f, seed))
<1> DEFINE N == Len(p.val)
           W(n) == Walks(p, f, seed)[n]
           Good(n, w) == /\ w \in Seq(Place(p)) /\ Once(w) /\ Starts(w, seed)
                         /\ \A i \in DOMAIN w : i <= n => ClosedAt(p, f, w, i)
                         /\ \A i \in DOMAIN w : i # 1 => HasOrigin(p, f, w, i)
           S == {n \in 0 .. N : Good(n, W(n))}
<1>0. N \in Nat /\ 0 \in 0 .. N /\ N \in 0 .. N
  BY ShapeOf
<1>1. W(0) = <<[carrier |-> seed, key |-> Nameless]>> /\ \A n \in 1 .. N : W(n) = Visit(p, f, W(n - 1), n)
  BY WalksAre
<1> HIDE DEF W
<1>2. 0 \in S
  <2> DEFINE w == <<[carrier |-> seed, key |-> Nameless]>>
  <2>1. w \in Seq(Place(p)) /\ DOMAIN w = {1} /\ Starts(w, seed)
    <3> DEFINE e == [carrier |-> seed, key |-> Nameless]
    <3>1. e \in Place(p)
      BY DEF Place
    <3> HIDE DEF e
    <3>2. <<e>> \in Seq(Place(p)) /\ DOMAIN <<e>> = {1} /\ <<e>>[1] = e
      BY <3>1
    <3> QED BY <3>2 DEF Starts, e
  <2>2. Once(w) /\ (\A i \in DOMAIN w : ~(i <= 0)) /\ \A i \in DOMAIN w : i = 1
    <3> HIDE DEF w
    <3> QED BY <2>1 DEF Once
  <2> HIDE DEF w
  <2>3. Good(0, w)
    BY <2>1, <2>2
  <2>4. W(0) = w
    BY <1>1 DEF w
  <2> HIDE DEF Good
  <2> QED BY <2>3, <2>4, <1>0
<1>3. ASSUME NEW n \in 1 .. N, n - 1 \in S PROVE n \in S
  <2> DEFINE b == W(n - 1)
             a == Visit(p, f, b, n)
  <2>1. Good(n - 1, b)
    BY <1>3
  <2>2. W(n) = a /\ n \in 0 .. N /\ n \in Nat \ {0}
    <3>1. W(n) = a
      BY <1>1
    <3>2. n \in 0 .. N /\ n \in Nat \ {0}
      BY <1>0
    <3> QED BY <3>1, <3>2
  <2> HIDE DEF b
  <2>3. /\ a \in Seq(Place(p)) /\ Keeps(b, a) /\ (Once(b) => Once(a))
        /\ \A i \in DOMAIN a : i > Len(b) => n \in DOMAIN b /\ a[i] \in Range(MetAt(p, f, b[n]))
        /\ n \in DOMAIN b => \A x \in Range(MetAt(p, f, b[n])) : Carried(a, x.carrier)
    BY <2>1, <2>2, VisitHas
  <2> HIDE DEF a
  <2>4. /\ Len(b) \in Nat /\ DOMAIN b = 1 .. Len(b) /\ Len(a) \in Nat /\ DOMAIN a = 1 .. Len(a)
        /\ Len(b) <= Len(a) /\ \A i \in DOMAIN b : a[i] = b[i]
    BY <2>1, <2>3 DEF Keeps
  <2>5. Starts(a, seed)
    <3>1. 1 \in DOMAIN b /\ b[1] = [carrier |-> seed, key |-> Nameless]
      BY <2>1 DEF Starts
    <3>2. a[1] = b[1]
      BY <3>1, <2>4
    <3>3. 1 <= Len(b)
      <4>1. Len(b) \in Nat /\ DOMAIN b = 1 .. Len(b)
        BY <2>4
      <4>2. 1 \in DOMAIN b
        BY <3>1
      <4> QED BY <4>1, <4>2
    <3>4. 1 \in DOMAIN a
      <4>1. Len(b) \in Nat /\ Len(a) \in Nat /\ Len(b) <= Len(a) /\ DOMAIN a = 1 .. Len(a)
        BY <2>4
      <4> QED BY <3>3, <4>1
    <3> QED BY <3>1, <3>2, <3>4 DEF Starts
  <2>6. ASSUME NEW i \in DOMAIN a, i <= n PROVE ClosedAt(p, f, a, i)
    <3>1. CASE i \in DOMAIN b /\ i # n
      <4>1. ClosedAt(p, f, b, i) /\ a[i] = b[i]
        BY <3>1, <2>1, <2>2, <2>4, <2>6
      <4> QED BY <4>1, <2>1, <2>3, KeptCarried DEF ClosedAt
    <3>2. CASE i \in DOMAIN b /\ i = n
      <4>1. a[i] = b[n]
        BY <3>2, <2>4
      <4> QED BY <4>1, <3>2, <2>3 DEF ClosedAt
    <3>3. CASE i \notin DOMAIN b
      <4>1. i > Len(b)
        BY <3>3, <2>4
      <4>2. n \in DOMAIN b
        BY <4>1, <2>3
      <4> QED BY <4>1, <4>2, <2>2, <2>4, <2>6
    <3> QED BY <3>1, <3>2, <3>3
  <2>7. ASSUME NEW i \in DOMAIN a, i # 1 PROVE HasOrigin(p, f, a, i)
    <3>1. CASE i \in DOMAIN b
      <4>1. PICK j \in 1 .. i - 1 : b[i] \in Range(MetAt(p, f, b[j]))
        BY <3>1, <2>7, <2>1 DEF HasOrigin
      <4>2. j \in DOMAIN b
        BY <3>1, <2>4
      <4>3. a[i] = b[i] /\ a[j] = b[j]
        BY <3>1, <4>2, <2>4
      <4> QED BY <4>1, <4>3 DEF HasOrigin
    <3>2. CASE i \notin DOMAIN b
      <4>1. i > Len(b)
        BY <3>2, <2>4
      <4>2. n \in DOMAIN b /\ a[i] \in Range(MetAt(p, f, b[n]))
        BY <4>1, <2>3
      <4>3. a[n] = b[n] /\ n \in 1 .. i - 1
        BY <4>1, <4>2, <2>4
      <4> QED BY <4>2, <4>3 DEF HasOrigin
    <3> QED BY <3>1, <3>2
  <2>8. Once(a)
    BY <2>1, <2>3
  <2>9. Good(n, a)
    BY <2>3, <2>5, <2>6, <2>7, <2>8
  <2> HIDE DEF Good
  <2> QED BY <2>2, <2>9
<1>4. N \in S
  <2> HIDE DEF S, N
  <2>1. \A n \in 0 .. N : n \in S
    BY <1>0, <1>2, <1>3, UpTo
  <2> QED BY <2>1, <1>0
<1> DEFINE w == Spread(p, f, seed)
<1>5. Good(N, w)
  <2>1. w = W(N)
    BY SpreadIs DEF W
  <2> HIDE DEF Good, w
  <2> QED BY <1>4, <2>1
<1> HIDE DEF w
<1>6. Len(w) <= N
  BY <1>5, OnceIsShort
<1>7. \A i \in DOMAIN w : i <= N
  BY <1>0, <1>5, <1>6
<1> QED BY <1>5, <1>6, <1>7 DEF SpreadOf, w

-----------------------------------------------------------------------------
(* Where the reference finds a value.                                      *)
Spot(p) == (DOMAIN p.val) \X Seq(STRING)

FiledIn(p, at, q, h) ==
  \E o \in DOMAIN p.val : \E e \in Range(p.val[o].entries) : e.val = at /\ h = <<o, <<e.key>> \o q>>
ReadOut(p, at, q, h) ==
  \E v \in DOMAIN p.val : /\ p.val[v].kind = "property" /\ p.val[v].base = at /\ IsPrefix(p.val[v].path, q)
                          /\ h = <<v, Beneath(q, p.val[v].path)>>
GivenAway(p, at, q, h) ==
  \E f \in Range(p.fns) : \E e \in Range(f.assigns) : e.from = at /\ h = <<e.to, q>>
Passed(p, at, q, h) ==
  \E f \in Range(p.fns) : \E c \in Range(f.calls) : c.callee # 0 /\ \E a \in Range(c.args) : a.val = at /\
    \E par \in Range(p.fns[c.callee].params) :
      /\ Receives(p, c, a, par) /\ (par.destructured => IsPrefix(par.path, q))
      /\ h = <<par.val, IF par.destructured THEN Beneath(q, par.path) ELSE q>>

LEMMA OnwardIs ==
  ASSUME NEW p, NEW at, NEW q, NEW h
  PROVE  h \in Onward(p, at, q) <=>
           FiledIn(p, at, q, h) \/ ReadOut(p, at, q, h) \/ GivenAway(p, at, q, h) \/ Passed(p, at, q, h)
<1>1. h \in FiledWith(p, at, q) <=> FiledIn(p, at, q, h)
  BY DEF FiledIn, FiledWith
<1>2. h \in ReadFrom(p, at, q) <=> ReadOut(p, at, q, h)
  BY DEF ReadOut, ReadFrom
<1>3. h \in GivenTo(p, at, q) <=> GivenAway(p, at, q, h)
  BY DEF GivenAway, GivenTo
<1>4. h \in CalledWith(p, at, q) <=> Passed(p, at, q, h)
  <2> DEFINE
        Given(c, a, par) == Receives(p, c, a, par) /\ (par.destructured => IsPrefix(par.path, q))
        To(par) == <<par.val, IF par.destructured THEN Beneath(q, par.path) ELSE q>>
        D2(c) == UNION {Filling(p, c, a, q) : a \in {x \in Range(c.args) : x.val = at}}
        D3(f) == UNION {D2(c) : c \in {x \in Range(f.calls) : x.callee # 0}}
  <2>1. CalledWith(p, at, q) = UNION {D3(f) : f \in Range(p.fns)}
    BY DEF CalledWith
  <2>2. \A c, a : h \in Filling(p, c, a, q) <=> \E par \in Range(p.fns[c.callee].params) : Given(c, a, par) /\ h = To(par)
    <3>1. \A c, a : Filling(p, c, a, q) = {To(par) : par \in {x \in Range(p.fns[c.callee].params) : Given(c, a, x)}}
      BY DEF Filling
    <3> HIDE DEF Given, To
    <3> QED BY <3>1
  <2>3. \A c : h \in D2(c) <=> \E a \in Range(c.args) : a.val = at /\ h \in Filling(p, c, a, q)
    OBVIOUS
  <2>4. \A f : h \in D3(f) <=> \E c \in Range(f.calls) : c.callee # 0 /\ h \in D2(c)
    <3> HIDE DEF D2
    <3> QED OBVIOUS
  <2>5. h \in CalledWith(p, at, q) <=> \E f \in Range(p.fns) : h \in D3(f)
    <3> HIDE DEF D3
    <3> QED BY <2>1
  <2>6. Passed(p, at, q, h) <=>
          \E f \in Range(p.fns) : \E c \in Range(f.calls) : c.callee # 0 /\ \E a \in Range(c.args) : a.val = at /\
            \E par \in Range(p.fns[c.callee].params) : Given(c, a, par) /\ h = To(par)
    BY Zenon DEF Passed
  <2> HIDE DEF Given, To, D2, D3
  <2> QED BY <2>2, <2>3, <2>4, <2>5, <2>6
<1> QED BY <1>1, <1>2, <1>3, <1>4 DEF Onward

LEMMA BeneathIs == ASSUME NEW q \in Seq(STRING), NEW path \in Seq(STRING) PROVE Beneath(q, path) \in Seq(STRING)
<1>1. \A i \in Len(path) + 1 .. Len(q) : i \in DOMAIN q
  OBVIOUS
<1> QED BY <1>1 DEF Beneath

LEMMA ParamOfCallee ==
  ASSUME NEW p, HandlerShaped(p), NEW f \in Range(p.fns), NEW c \in Range(f.calls), c.callee # 0
  PROVE  /\ c.callee \in DOMAIN p.fns /\ p.fns[c.callee] \in Range(p.fns)
         /\ p.fns[c.callee].params \in Seq(ParamForms)
         /\ \A par \in Range(p.fns[c.callee].params) : par.val \in DOMAIN p.val /\ par.path \in Seq(STRING)
<1>1. c.callee \in DOMAIN p.fns
  BY DEF HandlerShaped
<1>2. p.fns[c.callee] \in Range(p.fns)
  BY <1>1, ShapeOf
<1>3. p.fns[c.callee].params \in Seq(ParamForms)
  BY <1>2, ShapeOf
<1>4. \A par \in Range(p.fns[c.callee].params) : par.val \in DOMAIN p.val
  BY <1>2 DEF HandlerShaped
<1>5. ASSUME NEW par \in Range(p.fns[c.callee].params) PROVE par.path \in Seq(STRING)
  <2>1. par \in ParamForms
    BY <1>3 DEF Range
  <2> QED BY <2>1 DEF ParamForms
<1> QED BY <1>1, <1>2, <1>3, <1>4, <1>5

LEMMA OnwardTyped ==
  ASSUME NEW p, HandlerShaped(p), NEW at \in DOMAIN p.val, NEW q \in Seq(STRING), NEW h \in Onward(p, at, q)
  PROVE  h \in Spot(p)
<1>1. CASE FiledIn(p, at, q, h)
  <2>0. PICK o \in DOMAIN p.val : \E e \in Range(p.val[o].entries) : h = <<o, <<e.key>> \o q>>
    BY <1>1 DEF FiledIn
  <2>1. PICK e \in Range(p.val[o].entries) : h = <<o, <<e.key>> \o q>>
    BY <2>0
  <2>2. e \in Entry
    BY ShapeOf DEF Range
  <2>3. e.key \in STRING
    BY <2>2 DEF Entry
  <2>4. <<e.key>> \o q \in Seq(STRING)
    BY <2>3
  <2> QED BY <2>1, <2>4 DEF Spot
<1>2. CASE ReadOut(p, at, q, h)
  <2>1. PICK v \in DOMAIN p.val : h = <<v, Beneath(q, p.val[v].path)>>
    BY <1>2 DEF ReadOut
  <2>2. Beneath(q, p.val[v].path) \in Seq(STRING)
    BY ShapeOf, BeneathIs
  <2> QED BY <2>1, <2>2 DEF Spot
<1>3. CASE GivenAway(p, at, q, h)
  <2>0. PICK f \in Range(p.fns) : \E e \in Range(f.assigns) : h = <<e.to, q>>
    BY <1>3 DEF GivenAway
  <2>1. PICK e \in Range(f.assigns) : h = <<e.to, q>>
    BY <2>0
  <2>2. e \in Flow_(p)
    <3>1. f.assigns \in Seq(Flow_(p))
      BY ShapeOf
    <3> QED BY <3>1 DEF Range
  <2> QED BY <2>1, <2>2 DEF Flow_, Spot
<1>4. CASE Passed(p, at, q, h)
  <2> DEFINE To(par) == <<par.val, IF par.destructured THEN Beneath(q, par.path) ELSE q>>
  <2>00. PICK f \in Range(p.fns) : \E c \in Range(f.calls) :
           c.callee # 0 /\ \E par \in Range(p.fns[c.callee].params) : h = To(par)
    BY <1>4 DEF Passed
  <2>0. PICK c \in Range(f.calls) : c.callee # 0 /\ \E par \in Range(p.fns[c.callee].params) : h = To(par)
    BY <2>00
  <2>1. PICK par \in Range(p.fns[c.callee].params) : h = To(par)
    BY <2>0
  <2>2. par.val \in DOMAIN p.val /\ par.path \in Seq(STRING)
    BY <2>0, ParamOfCallee
  <2>3. Beneath(q, par.path) \in Seq(STRING)
    BY <2>2, BeneathIs
  <2> QED BY <2>1, <2>2, <2>3 DEF Spot
<1> QED BY <1>1, <1>2, <1>3, <1>4, OnwardIs

FoundBy(p, s) ==
  CHOOSE held : held = [n \in 0 .. 2 * Len(p.val) |-> IF n = 0 THEN {<<s, <<>>>>} ELSE Further(p, held[n - 1])]

LEMMA FoundIs == \A p, s : FoundIn(p, s) = FoundBy(p, s)[2 * Len(p.val)]
BY DEF FoundIn, FoundBy

LEMMA FurtherHas ==
  ASSUME NEW p, NEW held
  PROVE  \A h : h \in Further(p, held) <=> h \in held \/ \E g \in held : h \in Onward(p, g[1], g[2])
BY DEF Further

(* The first is the value itself, and each holds what the one before did   *)
(* and what follows from it.                                               *)
LEMMA FoundHas ==
  ASSUME NEW p, HandlerShaped(p), NEW s \in DOMAIN p.val
  PROVE  /\ FoundBy(p, s)[0] = {<<s, <<>>>>}
         /\ \A n \in 1 .. 2 * Len(p.val) : FoundBy(p, s)[n] = Further(p, FoundBy(p, s)[n - 1])
         /\ \A n \in 0 .. 2 * Len(p.val) : FoundBy(p, s)[n] \in SUBSET Spot(p)
<1> DEFINE N == 2 * Len(p.val)
           P == SUBSET Spot(p)
           b == {<<s, <<>>>>}
           G == [x \in (1 .. N) \X P |-> Further(p, x[2])]
           Obeys(t) == t = [n \in 0 .. 2 * Len(p.val) |-> IF n = 0 THEN {<<s, <<>>>>} ELSE Further(p, t[n - 1])]
<1>0. N \in Nat
  BY ShapeOf
<1>1. b \in P
  <2>1. <<>> \in Seq(STRING)
    OBVIOUS
  <2>2. <<s, <<>>>> \in Spot(p)
    BY <2>1, Zenon DEF Spot
  <2> QED BY <2>2
<1>2. G \in [(1 .. N) \X P -> P]
  <2>1. ASSUME NEW x \in (1 .. N) \X P PROVE Further(p, x[2]) \in P
    <3> DEFINE H == x[2]
    <3>1. H \in SUBSET Spot(p)
      BY <2>1
    <3> HIDE DEF H
    <3>2. ASSUME NEW h \in Further(p, H) PROVE h \in Spot(p)
      <4>1. CASE h \in H
        BY <3>1, <4>1
      <4>2. CASE h \notin H
        <5>1. PICK g \in H : h \in Onward(p, g[1], g[2])
          BY <3>2, <4>2, FurtherHas
        <5>2. g[1] \in DOMAIN p.val /\ g[2] \in Seq(STRING)
          BY <3>1 DEF Spot
        <5> QED BY <5>1, <5>2, OnwardTyped
      <4> QED BY <4>1, <4>2
    <3> QED BY <3>2 DEF H
  <2> HIDE DEF P
  <2> QED BY <2>1
<1>3. PICK t : Steps(N, P, b, G, t)
  <2> HIDE DEF G, P, b, N
  <2> QED BY <1>0, <1>1, <1>2, StepsExist
<1>4. t \in [0 .. N -> P] /\ t[0] = b /\ \A n \in 1 .. N : t[n] = Further(p, t[n - 1])
  <2>1. ASSUME NEW n \in 1 .. N PROVE t[n] = Further(p, t[n - 1])
    <3>1. t[n] = G[<<n, t[n - 1]>>] /\ n - 1 \in 0 .. N /\ t \in [0 .. N -> P]
      <4> HIDE DEF G, P, b
      <4> QED BY <1>0, <1>3 DEF Steps
    <3>2. <<n, t[n - 1]>> \in (1 .. N) \X P
      <4> HIDE DEF P
      <4> QED BY <3>1
    <3> HIDE DEF P
    <3> QED BY <3>1, <3>2
  <2> HIDE DEF P, b
  <2> QED BY <2>1, <1>3 DEF Steps
<1>5. Obeys(t)
  <2>1. t = [k \in 0 .. N |-> t[k]]
    <3> HIDE DEF P
    <3> QED BY <1>4
  <2>2. \A k \in 0 .. N : k # 0 => k \in 1 .. N
    BY <1>0
  <2> QED BY <2>1, <2>2, <1>4
<1> DEFINE F == FoundBy(p, s)
<1>6. Obeys(F)
  BY <1>5 DEF FoundBy
<1>7. (\A k \in 1 .. N : k \in 0 .. N /\ k # 0) /\ 0 \in 0 .. N
  BY <1>0
<1> HIDE DEF F
<1>8. F[0] = b /\ \A n \in 1 .. N : F[n] = Further(p, F[n - 1])
  BY <1>6, <1>7
<1> DEFINE S == {n \in 0 .. N : F[n] = t[n]}
<1>9. 0 \in S
  BY <1>4, <1>7, <1>8
<1>10. ASSUME NEW n \in 1 .. N, n - 1 \in S PROVE n \in S
  <2>1. F[n] = Further(p, F[n - 1]) /\ t[n] = Further(p, t[n - 1]) /\ n \in 0 .. N
    BY <1>4, <1>7, <1>8
  <2> QED BY <2>1, <1>10
<1>11. \A n \in 0 .. N : n \in S
  <2> HIDE DEF S, N
  <2> QED BY <1>0, <1>9, <1>10, UpTo
<1>12. \A n \in 0 .. N : F[n] \in P
  <2> HIDE DEF P
  <2> QED BY <1>4, <1>11
<1> QED BY <1>8, <1>12 DEF F

LEMMA FoundGrows ==
  ASSUME NEW p, HandlerShaped(p), NEW s \in DOMAIN p.val, NEW m \in 0 .. 2 * Len(p.val),
         NEW n \in 0 .. 2 * Len(p.val), m <= n
  PROVE  FoundBy(p, s)[m] \subseteq FoundBy(p, s)[n]
<1> DEFINE N == 2 * Len(p.val)
           F(k) == FoundBy(p, s)[k]
           S == {k \in 0 .. N : k >= m => F(m) \subseteq F(k)}
<1>0. N \in Nat
  BY ShapeOf
<1>1. \A k \in 1 .. N : F(k - 1) \subseteq F(k)
  <2>1. \A k \in 1 .. N : F(k) = Further(p, F(k - 1))
    BY FoundHas
  <2> HIDE DEF F
  <2> QED BY <2>1, FurtherHas
<1> HIDE DEF F
<1>2. 0 \in S
  BY <1>0
<1>3. ASSUME NEW k \in 1 .. N, k - 1 \in S PROVE k \in S
  <2>1. CASE m = k
    BY <2>1, <1>0
  <2>2. CASE m # k
    <3>1. k >= m => k - 1 >= m
      BY <2>2, <1>0
    <3>2. k \in 0 .. N
      BY <1>0
    <3> QED BY <3>1, <3>2, <1>1, <1>3
  <2> QED BY <2>1, <2>2
<1>4. \A k \in 0 .. N : k \in S
  <2> HIDE DEF S, N
  <2> QED BY <1>0, <1>2, <1>3, UpTo
<1>5. n \in S /\ n >= m
  BY <1>4, <1>0
<1>6. F(m) \subseteq F(n)
  BY <1>5
<1> QED BY <1>6 DEF F

-----------------------------------------------------------------------------
(* What is reached is found there when the program runs.                   *)
LEMMA FoundNext ==
  ASSUME NEW p, HandlerShaped(p), NEW s \in DOMAIN p.val, NEW k \in Nat, k + 1 <= 2 * Len(p.val),
         NEW v, NEW q, <<v, q>> \in FoundBy(p, s)[k], NEW h \in Onward(p, v, q),
         NEW n \in Nat, k + 1 <= n, n <= 2 * Len(p.val)
  PROVE  h \in FoundBy(p, s)[n]
<1>0. 2 * Len(p.val) \in Nat
  BY ShapeOf
<1>1. k + 1 \in 1 .. 2 * Len(p.val) /\ (k + 1) - 1 = k
  BY <1>0
<1>2. FoundBy(p, s)[k + 1] = Further(p, FoundBy(p, s)[k])
  BY <1>1, FoundHas
<1>3. h \in FoundBy(p, s)[k + 1]
  <2> DEFINE g == <<v, q>>
  <2>1. g \in FoundBy(p, s)[k] /\ h \in Onward(p, g[1], g[2])
    OBVIOUS
  <2> HIDE DEF g
  <2> QED BY <1>2, <2>1, FurtherHas
<1>4. k + 1 \in 0 .. 2 * Len(p.val) /\ n \in 0 .. 2 * Len(p.val)
  BY <1>0
<1> QED BY <1>3, <1>4, FoundGrows

Stated(w, i, q) == w[i].key # Nameless => q # <<>> /\ Head(q) = w[i].key
FoundUnder(p, s, w, i, k) == \E q \in Seq(STRING) : <<w[i].carrier, q>> \in FoundBy(p, s)[k] /\ Stated(w, i, q)

LEMMA SpreadIsFound ==
  ASSUME NEW p, HandlerShaped(p), NEW f \in Range(p.fns), NEW s \in DOMAIN p.val, NEW seed \in DOMAIN p.val,
         NEW m \in Nat, NEW q0 \in Seq(STRING), <<seed, q0>> \in FoundBy(p, s)[m],
         NEW w, SpreadOf(p, f, seed, w)
  PROVE  \A i \in DOMAIN w : m + i - 1 <= 2 * Len(p.val) => FoundUnder(p, s, w, i, m + i - 1)
<1> DEFINE N == 2 * Len(p.val)
           Good(i) == m + i - 1 <= N => FoundUnder(p, s, w, i, m + i - 1)
           S == {n \in 0 .. Len(w) : \A i \in 1 .. n : Good(i)}
<1>0. N \in Nat
  BY ShapeOf
<1>1. w \in Seq(Place(p))
  BY DEF SpreadOf
<1>2. /\ Len(w) \in Nat /\ DOMAIN w = 1 .. Len(w)
      /\ \A i \in DOMAIN w : w[i] \in Place(p)
  BY <1>1
<1>3. 0 \in S
  BY <1>2
<1>4. ASSUME NEW n \in 1 .. Len(w), n - 1 \in S PROVE n \in S
  <2>0. n \in DOMAIN w /\ n \in Nat /\ n \in 0 .. Len(w)
    BY <1>2
  <2>1. CASE n = 1
    <3>1. w[1] = [carrier |-> seed, key |-> Nameless]
      BY DEF SpreadOf, Starts
    <3>2. w[1].carrier = seed /\ w[1].key = Nameless
      BY <3>1
    <3>3. Stated(w, 1, q0)
      BY <3>2 DEF Stated
    <3>4. m + 1 - 1 = m
      OBVIOUS
    <3>5. FoundUnder(p, s, w, 1, m)
      BY <3>2, <3>3 DEF FoundUnder
    <3>6. FoundUnder(p, s, w, 1, m + 1 - 1)
      BY <3>4, <3>5
    <3> QED BY <2>1, <3>6
  <2>2. ASSUME n # 1, m + n - 1 <= N PROVE FoundUnder(p, s, w, n, m + n - 1)
    <3>1. m + n - 1 <= N
      BY <2>2
    <3>2. PICK j \in 1 .. n - 1 : w[n] \in Range(MetAt(p, f, w[j]))
      BY <2>0, <2>2 DEF SpreadOf, HasOrigin
    <3>3. Good(j)
      BY <1>4, <3>2
    <3>4. j \in Nat /\ m + j - 1 \in Nat /\ (m + j - 1) + 1 <= N /\ (m + j - 1) + 1 <= m + n - 1 /\ m + n - 1 \in Nat
      <4> HIDE DEF N, S
      <4> QED BY <2>0, <3>1, <3>2, <1>0
    <3>5. PICK q \in Seq(STRING) : <<w[j].carrier, q>> \in FoundBy(p, s)[m + j - 1] /\ Stated(w, j, q)
      <4>1. m + j - 1 <= N
        BY <3>4, <1>0
      <4> QED BY <3>3, <4>1 DEF FoundUnder
    <3>6. \A h \in Onward(p, w[j].carrier, q) : h \in FoundBy(p, s)[m + n - 1]
      BY <3>1, <3>4, <3>5, FoundNext
    <3>7. w[j] \in Place(p) /\ j \in DOMAIN w
      BY <1>2, <3>2, <2>0
    <3>8. \/ \E o \in Range(f.vals) : \E e \in Range(p.val[o].entries) : e.val = w[j].carrier /\ w[n] = Holder(o, e)
          \/ \E e \in Range(f.assigns) : e.from = w[j].carrier /\ w[n] = [carrier |-> e.to, key |-> w[j].key]
      <4>1. Meets(p, f, w[j], w[n])
        BY <3>2, <3>7, MetHas
      <4> QED BY <4>1, Zenon DEF Meets
    <3>9. CASE \E o \in Range(f.vals) : \E e \in Range(p.val[o].entries) : e.val = w[j].carrier /\ w[n] = Holder(o, e)
      <4>0. PICK o \in Range(f.vals) : \E e \in Range(p.val[o].entries) : e.val = w[j].carrier /\ w[n] = Holder(o, e)
        BY <3>9
      <4>1. PICK e \in Range(p.val[o].entries) : e.val = w[j].carrier /\ w[n] = Holder(o, e)
        BY <4>0
      <4>2. o \in DOMAIN p.val
        <5>1. f.vals \in Seq(DOMAIN p.val)
          BY ShapeOf
        <5> QED BY <5>1 DEF Range
      <4>3. e.key \in STRING
        <5>1. p.val[o].entries \in Seq(Entry)
          BY <4>2, ShapeOf
        <5>2. e \in Entry
          BY <5>1 DEF Range
        <5> QED BY <5>2 DEF Entry
      <4> DEFINE r == <<e.key>> \o q
      <4>4. r \in Seq(STRING) /\ r # <<>> /\ Head(r) = e.key
        BY <4>3
      <4>5. w[n].carrier = o /\ w[n].key = e.key
        BY <4>1 DEF Holder
      <4>6. <<o, r>> \in Onward(p, w[j].carrier, q)
        BY <4>1, <4>2, OnwardIs DEF FiledIn
      <4> HIDE DEF r
      <4>7. <<w[n].carrier, r>> \in FoundBy(p, s)[m + n - 1] /\ Stated(w, n, r)
        BY <3>6, <4>4, <4>5, <4>6 DEF Stated
      <4> QED BY <4>4, <4>7 DEF FoundUnder
    <3>10. CASE \E e \in Range(f.assigns) : e.from = w[j].carrier /\ w[n] = [carrier |-> e.to, key |-> w[j].key]
      <4>1. PICK e \in Range(f.assigns) : e.from = w[j].carrier /\ w[n] = [carrier |-> e.to, key |-> w[j].key]
        BY <3>10
      <4>2. w[n].carrier = e.to /\ w[n].key = w[j].key
        BY <4>1
      <4>3. <<e.to, q>> \in Onward(p, w[j].carrier, q)
        BY <4>1, OnwardIs DEF GivenAway
      <4>4. <<w[n].carrier, q>> \in FoundBy(p, s)[m + n - 1] /\ Stated(w, n, q)
        BY <3>5, <3>6, <4>2, <4>3 DEF Stated
      <4> QED BY <4>4 DEF FoundUnder
    <3> QED BY <3>8, <3>9, <3>10
  <2>3. Good(n)
    BY <2>1, <2>2
  <2>4. \A i \in 1 .. n : i = n \/ i \in 1 .. n - 1
    OBVIOUS
  <2> HIDE DEF Good
  <2> QED BY <2>0, <2>3, <2>4, <1>4
<1>5. Len(w) \in S
  <2> HIDE DEF S
  <2>1. \A n \in 0 .. Len(w) : n \in S
    BY <1>2, <1>3, <1>4, UpTo
  <2> QED BY <2>1, <1>2
<1> QED BY <1>5, <1>2

KeyedAt(p, s, w, v, n) ==
  \E q \in Seq(STRING) : /\ <<v, q>> \in FoundBy(p, s)[n]
                         /\ KeyOf(w, v) # Nameless => q # <<>> /\ Head(q) = KeyOf(w, v)

LEMMA CarriedIsFound ==
  ASSUME NEW p, HandlerShaped(p), NEW f \in Range(p.fns), NEW s \in DOMAIN p.val, NEW seed \in DOMAIN p.val,
         NEW m \in 0 .. Len(p.val), NEW q0 \in Seq(STRING), <<seed, q0>> \in FoundBy(p, s)[m],
         NEW v, Carried(Spread(p, f, seed), v)
  PROVE  /\ v \in DOMAIN p.val
         /\ KeyedAt(p, s, Spread(p, f, seed), v, m + Len(p.val) - 1)
<1> DEFINE w == Spread(p, f, seed)
           N == Len(p.val)
<1>0. N \in Nat
  BY ShapeOf
<1>1. SpreadOf(p, f, seed, w)
  BY SpreadHas
<1> HIDE DEF w
<1>2. /\ w \in Seq(Place(p)) /\ Len(w) <= N /\ Once(w)
  BY <1>1 DEF SpreadOf
<1>3. PICK i \in DOMAIN w : w[i].carrier = v
  BY DEF Carried, w
<1>4. i \in 1 .. N /\ w[i] \in Place(p) /\ m + i - 1 <= 2 * N /\ m + i - 1 <= m + N - 1 /\ m + N - 1 <= 2 * N /\ m + i - 1 \in Nat
  <2>1. Len(w) \in Nat /\ DOMAIN w = 1 .. Len(w) /\ w[i] \in Place(p)
    BY <1>2
  <2>2. i \in 1 .. N
    BY <2>1, <1>0, <1>2
  <2> QED BY <2>1, <2>2, <1>0
<1>5. FoundUnder(p, s, w, i, m + i - 1)
  <2>1. m \in Nat
    BY <1>0
  <2> QED BY <2>1, <1>1, <1>4, SpreadIsFound
<1>6. PICK q \in Seq(STRING) : <<v, q>> \in FoundBy(p, s)[m + i - 1] /\ Stated(w, i, q)
  BY <1>3, <1>5 DEF FoundUnder
<1>7. <<v, q>> \in FoundBy(p, s)[m + N - 1]
  <2> DEFINE a == m + i - 1
             b == m + N - 1
  <2>1. a \in 0 .. 2 * N /\ b \in 0 .. 2 * N /\ a <= b
    BY <1>0, <1>4
  <2>2. <<v, q>> \in FoundBy(p, s)[a]
    BY <1>6
  <2> HIDE DEF a, b
  <2>3. <<v, q>> \in FoundBy(p, s)[b]
    BY <2>1, <2>2, FoundGrows
  <2> QED BY <2>3 DEF b
<1>8. KeyOf(w, v) = w[i].key
  <2>1. \A j \in DOMAIN w : w[j].carrier = v => j = i
    BY <1>2, <1>3 DEF Once
  <2>2. (CHOOSE j \in DOMAIN w : w[j].carrier = v) = i
    BY <2>1, <1>3
  <2> QED BY <2>2 DEF KeyOf
<1>9. v \in DOMAIN p.val
  BY <1>3, <1>4 DEF Place
<1>10. KeyedAt(p, s, w, v, m + N - 1)
  BY <1>6, <1>7, <1>8 DEF Stated, KeyedAt
<1> QED BY <1>9, <1>10 DEF w

-----------------------------------------------------------------------------
(* What is handed to a call arrives in a parameter it fills.               *)
LEMMA BoundParamIs ==
  ASSUME NEW a, NEW g, g.params \in Seq(ParamForms)
  PROVE  /\ BoundParam(a, g) \in Seq(ParamForms)
         /\ \A par \in Range(BoundParam(a, g)) :
              /\ par \in Range(g.params) /\ ~par.destructured
              /\ IF a.name # Nameless THEN par.name = a.name ELSE par.index = BindIndex(a)
<1> DEFINE Fits(i) == /\ ~g.params[i].destructured
                      /\ IF a.name # Nameless THEN g.params[i].name = a.name ELSE g.params[i].index = BindIndex(a)
           fits == {i \in DOMAIN g.params : Fits(i)}
           least == CHOOSE i \in fits : \A j \in fits : i <= j
<1>0. BoundParam(a, g) = IF fits = {} THEN <<>> ELSE <<g.params[least]>>
  BY DEF BoundParam
<1>1. CASE fits = {}
  <2>1. BoundParam(a, g) = <<>>
    BY <1>0, <1>1
  <2> HIDE DEF fits
  <2> QED BY <2>1 DEF Range
<1>2. CASE fits # {}
  <2>1. fits \in SUBSET Nat
    OBVIOUS
  <2>2. \E i \in fits : \A j \in fits : i <= j
    <3> HIDE DEF fits
    <3> QED BY <1>2, <2>1, LeastNatural
  <2>3. least \in fits
    <3> HIDE DEF fits
    <3> QED BY <2>2
  <2> HIDE DEF least
  <2>4. BoundParam(a, g) = <<g.params[least]>>
    BY <1>0, <1>2
  <2>5. g.params[least] \in ParamForms /\ g.params[least] \in Range(g.params) /\ Fits(least)
    <3>1. least \in DOMAIN g.params /\ Fits(least)
      BY <2>3
    <3> HIDE DEF Fits, fits
    <3> QED BY <3>1 DEF Range
  <2> DEFINE par == g.params[least]
  <2>6. par \in ParamForms /\ par \in Range(g.params) /\ Fits(least)
    BY <2>5
  <2>7. /\ ~par.destructured
        /\ IF a.name # Nameless THEN par.name = a.name ELSE par.index = BindIndex(a)
    BY <2>6
  <2>8. BoundParam(a, g) = <<par>>
    BY <2>4
  <2> HIDE DEF par, fits, Fits
  <2>9. <<par>> \in Seq(ParamForms) /\ \A x \in Range(<<par>>) : x = par
    BY <2>6 DEF Range
  <2> QED BY <2>6, <2>7, <2>8, <2>9
<1> QED BY <1>1, <1>2

LEMMA BoundParamsAre ==
  ASSUME NEW a, NEW g, g.params \in Seq(ParamForms)
  PROVE  /\ BoundParams(a, g) \in Seq(ParamForms)
         /\ \A par \in Range(BoundParams(a, g)) :
              /\ par \in Range(g.params)
              /\ IF a.name # Nameless THEN ~par.destructured /\ par.name = a.name ELSE par.index = BindIndex(a)
<1> DEFINE Fits(par) == IF a.name # Nameless THEN ~par.destructured /\ par.name = a.name ELSE par.index = BindIndex(a)
           places == {i \in DOMAIN g.params : Fits(g.params[i])}
<1>1. BoundParams(a, g) = StandingAt(g.params, places)
  BY DEF BoundParams
<1>2. \A i \in places : Fits(g.params[i])
  OBVIOUS
<1> HIDE DEF places, Fits
<1>3. /\ BoundParams(a, g) \in Seq(ParamForms)
      /\ \A x : x \in Range(BoundParams(a, g)) <=> \E i \in DOMAIN g.params \cap places : x = g.params[i]
  BY <1>1, StandingHas
<1>4. \A par \in Range(BoundParams(a, g)) : par \in Range(g.params) /\ Fits(par)
  BY <1>2, <1>3 DEF Range
<1> QED BY <1>3, <1>4 DEF Fits

KeyedTo(a, g, k) ==
  StandingAt(BoundParams(a, g), {i \in DOMAIN BoundParams(a, g) :
    BoundParams(a, g)[i].destructured /\ BoundParams(a, g)[i].path = <<k>>})

LEMMA KeyedToIs ==
  ASSUME NEW a, NEW g, g.params \in Seq(ParamForms), NEW k
  PROVE  /\ KeyedTo(a, g, k) \in Seq(ParamForms)
         /\ \A par \in Range(KeyedTo(a, g, k)) :
              par \in Range(g.params) /\ par.destructured /\ par.path = <<k>> /\ a.name = Nameless /\ par.index = BindIndex(a)
<1> DEFINE B == BoundParams(a, g)
           Fits(par) == par.destructured /\ par.path = <<k>>
           places == {i \in DOMAIN B : Fits(B[i])}
<1>1. KeyedTo(a, g, k) = StandingAt(B, places)
  BY DEF KeyedTo
<1>2. \A i \in places : Fits(B[i])
  OBVIOUS
<1>3. /\ B \in Seq(ParamForms)
      /\ \A par \in Range(B) :
              /\ par \in Range(g.params)
              /\ IF a.name # Nameless THEN ~par.destructured /\ par.name = a.name ELSE par.index = BindIndex(a)
  BY BoundParamsAre
<1> HIDE DEF places, Fits, B
<1>4. /\ KeyedTo(a, g, k) \in Seq(ParamForms)
      /\ \A x : x \in Range(KeyedTo(a, g, k)) <=> \E i \in DOMAIN B \cap places : x = B[i]
  BY <1>1, <1>3, StandingHas
<1>5. \A par \in Range(KeyedTo(a, g, k)) : par \in Range(B) /\ Fits(par)
  BY <1>2, <1>4 DEF Range
<1>6. \A par \in Range(KeyedTo(a, g, k)) : par.destructured /\ par.path = <<k>>
  BY <1>5 DEF Fits
<1> QED BY <1>3, <1>4, <1>5, <1>6

LEMMA HandedToIs ==
  ASSUME NEW a, NEW g, NEW carried
  PROVE  HandedTo(a, g, carried) =
           IF ~Carried(carried, a.val) THEN <<>>
           ELSE IF KeyOf(carried, a.val) = Nameless THEN BoundParam(a, g)
           ELSE KeyedTo(a, g, KeyOf(carried, a.val))
BY DEF HandedTo, KeyedTo

LEMMA HeadIsPrefix ==
  ASSUME NEW q \in Seq(STRING), NEW k, q # <<>>, Head(q) = k
  PROVE  IsPrefix(<<k>>, q)
<1>1. q[1] = k /\ Len(q) >= 1 /\ Len(<<k>>) = 1
  OBVIOUS
<1>2. SubSeq(<<k>>, 1, 1) = SubSeq(q, 1, 1)
  BY <1>1
<1> QED BY <1>1, <1>2 DEF IsPrefix

LEMMA HandedToArrives ==
  ASSUME NEW p, HandlerShaped(p), FillsAsStated(p), NEW f \in Range(p.fns), NEW c \in Range(f.calls), c.callee # 0,
         NEW a \in Range(c.args), NEW carried, NEW q \in Seq(STRING),
         KeyOf(carried, a.val) # Nameless => q # <<>> /\ Head(q) = KeyOf(carried, a.val)
  PROVE  /\ HandedTo(a, p.fns[c.callee], carried) \in Seq(ParamForms)
         /\ \A par \in Range(HandedTo(a, p.fns[c.callee], carried)) :
              /\ Carried(carried, a.val)
              /\ \E q1 : <<par.val, q1>> \in Onward(p, a.val, q)
<1> DEFINE g == p.fns[c.callee]
           k == KeyOf(carried, a.val)
           To(par) == IF par.destructured THEN Beneath(q, par.path) ELSE q
<1>0. g.params \in Seq(ParamForms)
  BY ParamOfCallee
<1>1. a.name = Nameless => BindIndex(a) = SlotFilled(p, c, a)
  BY DEF FillsAsStated
<1>2. ASSUME NEW par \in Range(g.params), Receives(p, c, a, par), par.destructured => IsPrefix(par.path, q)
      PROVE  \E q1 : <<par.val, q1>> \in Onward(p, a.val, q)
  <2>1. Passed(p, a.val, q, <<par.val, To(par)>>)
    BY <1>2 DEF Passed
  <2> HIDE DEF To
  <2>2. <<par.val, To(par)>> \in Onward(p, a.val, q)
    BY <2>1, OnwardIs
  <2> QED BY <2>2
<1>3. CASE ~Carried(carried, a.val)
  <2>1. HandedTo(a, g, carried) = <<>>
    BY <1>3, HandedToIs
  <2> QED BY <2>1 DEF Range
<1>4. CASE Carried(carried, a.val) /\ k = Nameless
  <2>1. HandedTo(a, g, carried) = BoundParam(a, g)
    BY <1>4, HandedToIs
  <2> HIDE DEF g
  <2>2. /\ BoundParam(a, g) \in Seq(ParamForms)
        /\ \A par \in Range(BoundParam(a, g)) :
              /\ par \in Range(g.params) /\ ~par.destructured
              /\ IF a.name # Nameless THEN par.name = a.name ELSE par.index = BindIndex(a)
    BY <1>0, BoundParamIs
  <2>3. \A par \in Range(BoundParam(a, g)) : Receives(p, c, a, par)
    BY <2>2, <1>1 DEF Receives
  <2> QED BY <2>1, <2>2, <2>3, <1>2, <1>4 DEF g
<1>5. CASE Carried(carried, a.val) /\ k # Nameless
  <2>1. HandedTo(a, g, carried) = KeyedTo(a, g, k)
    BY <1>5, HandedToIs
  <2>2. IsPrefix(<<k>>, q)
    BY <1>5, HeadIsPrefix
  <2> HIDE DEF g, k
  <2>3. /\ KeyedTo(a, g, k) \in Seq(ParamForms)
        /\ \A par \in Range(KeyedTo(a, g, k)) :
              par \in Range(g.params) /\ par.destructured /\ par.path = <<k>> /\ a.name = Nameless /\ par.index = BindIndex(a)
    BY <1>0, KeyedToIs
  <2>4. \A par \in Range(KeyedTo(a, g, k)) : Receives(p, c, a, par) /\ IsPrefix(par.path, q)
    BY <2>2, <2>3, <1>1 DEF Receives
  <2> QED BY <2>1, <2>3, <2>4, <1>2, <1>5 DEF g
<1> QED BY <1>3, <1>4, <1>5

-----------------------------------------------------------------------------
(* The lookup that is named was handed the secret it is named for.         *)
LEMMA SelectsRecordIs ==
  ASSUME NEW g, g.calls \in Seq(CallForms_), NEW carried
  PROVE  LET r == SelectsRecord(g, carried)
             Chosen(i) == g.calls[i].read /\ \E k \in DOMAIN g.calls[i].args : Carried(carried, g.calls[i].args[k].val)
         IN  /\ r \in Nat
             /\ r # 0 => r \in DOMAIN g.calls /\ Chosen(r)
             /\ (\E i \in DOMAIN g.calls : Chosen(i)) => r # 0
<1> DEFINE Chosen(i) == g.calls[i].read /\ \E k \in DOMAIN g.calls[i].args : Carried(carried, g.calls[i].args[k].val)
           reads == {i \in DOMAIN g.calls : Chosen(i)}
<1>1. SelectsRecord(g, carried) = IF reads = {} THEN 0 ELSE Min(reads)
  BY DEF SelectsRecord
<1>2. reads \in SUBSET Nat /\ 0 \notin reads
  <2>1. DOMAIN g.calls = 1 .. Len(g.calls) /\ Len(g.calls) \in Nat
    OBVIOUS
  <2> HIDE DEF Chosen
  <2> QED BY <2>1
<1>3. \A i : i \in reads <=> i \in DOMAIN g.calls /\ Chosen(i)
  OBVIOUS
<1>4. CASE reads = {}
  <2>1. SelectsRecord(g, carried) = 0
    BY <1>1, <1>4
  <2> HIDE DEF reads
  <2> QED BY <2>1, <1>3, <1>4
<1>5. CASE reads # {}
  <2> HIDE DEF reads
  <2>1. SelectsRecord(g, carried) \in reads
    BY <1>1, <1>2, <1>5, MinIs
  <2>2. SelectsRecord(g, carried) \in Nat /\ SelectsRecord(g, carried) # 0
    BY <2>1, <1>2
  <2> QED BY <2>1, <2>2, <1>3
<1> QED BY <1>4, <1>5

Handed(p, l) ==
  l.call # 0 => \E k \in DOMAIN p.fns[l.fn].calls[l.call].args :
                  Holds(p, l.secret, p.fns[l.fn].calls[l.call].args[k].val)

LEMMA LookupIsHanded ==
  ASSUME NEW p, HandlerShaped(p), NEW g \in DOMAIN p.fns, NEW s \in DOMAIN p.val, NEW seed \in DOMAIN p.val,
         NEW m \in 0 .. Len(p.val), NEW q0 \in Seq(STRING), <<seed, q0>> \in FoundBy(p, s)[m]
  PROVE  Handed(p, LookupWith(p, s, g, seed))
<1> DEFINE f == p.fns[g]
           w == Spread(p, f, seed)
           r == SelectsRecord(f, w)
           l == LookupWith(p, s, g, seed)
           N == Len(p.val)
<1>0. l.secret = s /\ l.fn = g /\ l.call = r
  BY DEF LookupWith, Lookup
<1>1. f \in Range(p.fns) /\ f.calls \in Seq(CallForms_)
  BY ShapeOf
<1>2. SUFFICES ASSUME r # 0 PROVE \E k \in DOMAIN f.calls[r].args : Holds(p, s, f.calls[r].args[k].val)
  <2> HIDE DEF r, l, w
  <2>1. p.fns[l.fn] = f /\ l.call = r /\ l.secret = s
    BY <1>0
  <2> HIDE DEF f
  <2>2. (r # 0 => \E k \in DOMAIN f.calls[r].args : Holds(p, s, f.calls[r].args[k].val)) => Handed(p, l)
    BY <2>1 DEF Handed
  <2> QED BY <2>2 DEF l
<1> HIDE DEF r, l, w, f
<1>3. PICK k \in DOMAIN f.calls[r].args : Carried(w, f.calls[r].args[k].val)
  BY <1>1, <1>2, SelectsRecordIs DEF r
<1> DEFINE v == f.calls[r].args[k].val
<1> HIDE DEF v
<1>4. Carried(Spread(p, f, seed), v)
  BY <1>3 DEF v, w
<1>5. PICK q \in Seq(STRING) : <<v, q>> \in FoundBy(p, s)[m + N - 1]
  BY <1>1, <1>4, CarriedIsFound DEF KeyedAt
<1>6. <<v, q>> \in FoundIn(p, s)
  <2> DEFINE a == m + N - 1
             b == 2 * N
  <2>1. N \in Nat /\ N >= 1
    <3>1. N \in Nat /\ DOMAIN p.val = 1 .. N
      BY ShapeOf
    <3> QED BY <3>1
  <2>2. a \in 0 .. 2 * N /\ b \in 0 .. 2 * N /\ a <= b
    BY <2>1
  <2>3. <<v, q>> \in FoundBy(p, s)[a]
    BY <1>5
  <2> HIDE DEF a, b
  <2>4. <<v, q>> \in FoundBy(p, s)[b]
    BY <2>2, <2>3, FoundGrows DEF N
  <2> QED BY <2>4, FoundIs DEF b, N
<1>7. Holds(p, s, v)
  <2> DEFINE h == <<v, q>>
  <2>1. h \in FoundIn(p, s) /\ h[1] = v
    BY <1>6
  <2> HIDE DEF h
  <2> QED BY <2>1 DEF Holds
<1> QED BY <1>7 DEF v

LEMMA ItselfIsFound ==
  ASSUME NEW p, HandlerShaped(p), NEW s \in DOMAIN p.val
  PROVE  <<s, <<>>>> \in FoundBy(p, s)[0] /\ <<>> \in Seq(STRING) /\ 0 \in 0 .. Len(p.val) /\ Len(p.val) \in Nat \ {0}
<1>1. <<s, <<>>>> \in FoundBy(p, s)[0]
  BY FoundHas
<1>2. Len(p.val) \in Nat /\ DOMAIN p.val = 1 .. Len(p.val)
  BY ShapeOf
<1>3. Len(p.val) # 0
  BY <1>2
<1>4. <<>> \in Seq(STRING)
  OBVIOUS
<1> QED BY <1>1, <1>2, <1>3, <1>4

BoundTo(p, f, s, c) == BoundBelow(c, p.fns[c.callee], Spread(p, f, s))

LEMMA BoundBelowHas ==
  ASSUME NEW p, HandlerShaped(p), FillsAsStated(p), NEW f \in Range(p.fns), NEW s \in DOMAIN p.val,
         NEW c \in Range(f.calls), c.callee # 0
  PROVE  /\ BoundTo(p, f, s, c) \in Seq(ParamForms)
         /\ \A par \in Range(BoundTo(p, f, s, c)) :
              /\ par.val \in DOMAIN p.val
              /\ \E q1 \in Seq(STRING) : <<par.val, q1>> \in FoundBy(p, s)[Len(p.val)]
<1> DEFINE g == p.fns[c.callee]
           w == Spread(p, f, s)
           ss == [k \in DOMAIN c.args |-> HandedTo(c.args[k], g, w)]
           N == Len(p.val)
<1>0. N \in Nat \ {0}
  BY ItselfIsFound
<1>1. c.args \in Seq(ArgForms)
  <2>1. f.calls \in Seq(CallForms_)
    BY ShapeOf
  <2>2. c \in CallForms_
    BY <2>1 DEF Range
  <2> QED BY <2>2 DEF CallForms_
<1>2. DOMAIN c.args = 1 .. Len(c.args) /\ Len(c.args) \in Nat /\ \A k \in DOMAIN c.args : c.args[k] \in Range(c.args)
  BY <1>1 DEF Range
<1>3. ASSUME NEW a \in Range(c.args)
      PROVE  /\ HandedTo(a, g, w) \in Seq(ParamForms)
             /\ \A par \in Range(HandedTo(a, g, w)) :
                  /\ par.val \in DOMAIN p.val
                  /\ \E q1 \in Seq(STRING) : <<par.val, q1>> \in FoundBy(p, s)[N]
  <2>1. CASE ~Carried(w, a.val)
    <3>1. HandedTo(a, g, w) = <<>>
      BY <2>1, HandedToIs
    <3> QED BY <3>1 DEF Range
  <2>2. CASE Carried(w, a.val)
    <3>1. PICK q \in Seq(STRING) :
            /\ <<a.val, q>> \in FoundBy(p, s)[0 + N - 1]
            /\ KeyOf(w, a.val) # Nameless => q # <<>> /\ Head(q) = KeyOf(w, a.val)
      <4>1. Carried(Spread(p, f, s), a.val)
        BY <2>2
      <4> DEFINE z == 0
                 none == <<>>
      <4>2. <<s, none>> \in FoundBy(p, s)[z] /\ none \in Seq(STRING) /\ z \in 0 .. N /\ 0 + N - 1 = z + N - 1
        BY ItselfIsFound
      <4> HIDE DEF z, none
      <4>3. KeyedAt(p, s, Spread(p, f, s), a.val, z + N - 1)
        BY <4>1, <4>2, CarriedIsFound
      <4>4. KeyedAt(p, s, w, a.val, 0 + N - 1)
        BY <4>2, <4>3
      <4> HIDE DEF w
      <4> QED BY <4>4 DEF KeyedAt
    <3> HIDE DEF w, g
    <3>2. /\ HandedTo(a, g, w) \in Seq(ParamForms)
          /\ \A par \in Range(HandedTo(a, g, w)) : \E q1 : <<par.val, q1>> \in Onward(p, a.val, q)
      BY <3>1, HandedToArrives DEF g
    <3>3. ASSUME NEW par \in Range(HandedTo(a, g, w))
          PROVE  /\ par.val \in DOMAIN p.val
                 /\ \E q1 \in Seq(STRING) : <<par.val, q1>> \in FoundBy(p, s)[N]
      <4>1. PICK q1 : <<par.val, q1>> \in Onward(p, a.val, q)
        BY <3>2
      <4> DEFINE k == N - 1
      <4>2. k \in Nat /\ k + 1 <= 2 * N /\ k + 1 <= N /\ N <= 2 * N /\ 0 + N - 1 = k /\ N \in 0 .. 2 * N
        BY <1>0
      <4> HIDE DEF k
      <4>3. <<a.val, q>> \in FoundBy(p, s)[k]
        BY <3>1, <4>2
      <4>4. <<par.val, q1>> \in FoundBy(p, s)[N]
        BY <1>0, <4>1, <4>2, <4>3, FoundNext
      <4>5. <<par.val, q1>> \in Spot(p)
        BY <4>2, <4>4, FoundHas
      <4> QED BY <4>4, <4>5 DEF Spot
    <3> QED BY <3>2, <3>3
  <2> QED BY <2>1, <2>2
<1>4. BoundTo(p, f, s, c) = FlattenSeq(ss)
  BY DEF BoundTo, BoundBelow
<1>5. ss \in Seq(Seq(ParamForms)) /\ DOMAIN ss = DOMAIN c.args
  <2>1. \A k \in DOMAIN c.args : HandedTo(c.args[k], g, w) \in Seq(ParamForms)
    BY <1>2, <1>3
  <2> HIDE DEF g, w
  <2> QED BY <1>2, <2>1
<1>6. \A k \in DOMAIN ss : c.args[k] \in Range(c.args) /\ ss[k] = HandedTo(c.args[k], g, w)
  BY <1>2
<1> HIDE DEF ss, g, w, N
<1>7. /\ FlattenSeq(ss) \in Seq(ParamForms)
      /\ \A x : x \in Range(FlattenSeq(ss)) <=> \E i \in DOMAIN ss : x \in Range(ss[i])
  BY <1>5, FlattenedHas
<1>8. \A par \in Range(FlattenSeq(ss)) :
         /\ par.val \in DOMAIN p.val
         /\ \E q1 \in Seq(STRING) : <<par.val, q1>> \in FoundBy(p, s)[N]
  BY <1>3, <1>6, <1>7
<1> QED BY <1>4, <1>7, <1>8 DEF N

SecretsOf(p) == SecretsPresentedTo(p, p.fns[1])
LookupForm == [secret : Nat, fn : Nat, call : Nat]
OwnLookup(p, x) == \E s \in Range(SecretsOf(p)) : x = LookupWith(p, s, 1, s)
LookupOneBelow(p, x) ==
  \E s \in Range(SecretsOf(p)) : \E c \in Range(p.fns[1].calls) : c.callee \notin {0, 1} /\
    \E par \in Range(BoundTo(p, p.fns[1], s, c)) : x = LookupWith(p, s, c.callee, par.val)

LEMMA SecretsAre ==
  ASSUME NEW p, HandlerShaped(p)
  PROVE  /\ SecretsOf(p) \in Seq(DOMAIN p.val)
         /\ \A s : s \in Range(SecretsOf(p)) <=> s \in Range(p.fns[1].vals) /\ IsSecret(p, p.fns[1], s)
<1> DEFINE f == p.fns[1]
           at == {i \in DOMAIN f.vals : IsSecret(p, f, f.vals[i])}
<1>1. f.vals \in Seq(DOMAIN p.val)
  BY ShapeOf
<1>2. SecretsOf(p) = StandingAt(f.vals, at)
  BY DEF SecretsOf, SecretsPresentedTo
<1>3. \A s : s \in Range(f.vals) /\ IsSecret(p, f, s) <=> \E i \in DOMAIN f.vals \cap at : s = f.vals[i]
  BY DEF Range
<1> HIDE DEF at
<1>4. /\ StandingAt(f.vals, at) \in Seq(DOMAIN p.val)
      /\ \A s : s \in Range(StandingAt(f.vals, at)) <=> \E i \in DOMAIN f.vals \cap at : s = f.vals[i]
  BY <1>1, StandingHas
<1> QED BY <1>2, <1>3, <1>4

LEMMA LookupWithIs ==
  ASSUME NEW p, HandlerShaped(p), NEW s \in Nat, NEW g \in DOMAIN p.fns, NEW v
  PROVE  LookupWith(p, s, g, v) \in LookupForm
<1>1. p.fns[g].calls \in Seq(CallForms_) /\ g \in Nat
  BY ShapeOf
<1>2. SelectsRecord(p.fns[g], Spread(p, p.fns[g], v)) \in Nat
  BY <1>1, SelectsRecordIs
<1> QED BY <1>1, <1>2 DEF LookupWith, Lookup, LookupForm

LEMMA LookupsBelowAre ==
  ASSUME NEW p, HandlerShaped(p), FillsAsStated(p), NEW s \in DOMAIN p.val, NEW c \in Range(p.fns[1].calls)
  PROVE  /\ LookupsBelow(p, s, c) \in Seq(LookupForm)
         /\ \A x \in Range(LookupsBelow(p, s, c)) : c.callee \notin {0, 1} /\
              \E par \in Range(BoundTo(p, p.fns[1], s, c)) : x = LookupWith(p, s, c.callee, par.val)
<1>1. CASE c.callee \in {0, 1}
  <2>1. LookupsBelow(p, s, c) = <<>>
    BY <1>1 DEF LookupsBelow
  <2> QED BY <2>1 DEF Range
<1>2. CASE c.callee \notin {0, 1}
  <2> DEFINE B == BoundTo(p, p.fns[1], s, c)
             L == [b \in DOMAIN B |-> LookupWith(p, s, c.callee, B[b].val)]
  <2>1. LookupsBelow(p, s, c) = L
    BY <1>2 DEF LookupsBelow, BoundTo
  <2>2. p.fns[1] \in Range(p.fns) /\ s \in Nat
    BY ShapeOf
  <2>3. B \in Seq(ParamForms) /\ c.callee \in DOMAIN p.fns
    BY <2>2, <1>2, BoundBelowHas, ParamOfCallee
  <2> HIDE DEF B
  <2>4. DOMAIN B = 1 .. Len(B) /\ Len(B) \in Nat /\ \A b \in DOMAIN B : B[b] \in Range(B)
    BY <2>3 DEF Range
  <2>5. \A b \in DOMAIN B : LookupWith(p, s, c.callee, B[b].val) \in LookupForm
    BY <2>2, <2>3, LookupWithIs
  <2>6. L \in Seq(LookupForm)
    BY <2>4, <2>5
  <2>7. \A x \in Range(L) : \E par \in Range(B) : x = LookupWith(p, s, c.callee, par.val)
    BY <2>4 DEF Range
  <2> HIDE DEF L
  <2> QED BY <2>1, <2>6, <2>7, <1>2 DEF B
<1> QED BY <1>1, <1>2

LEMMA LookupsHave ==
  ASSUME NEW p, HandlerShaped(p), FillsAsStated(p)
  PROVE  /\ Lookups(p) \in Seq(LookupForm)
         /\ \A x \in Range(Lookups(p)) : OwnLookup(p, x) \/ LookupOneBelow(p, x)
         /\ \A s \in Range(SecretsOf(p)) : LookupWith(p, s, 1, s) \in Range(Lookups(p))
<1> DEFINE f == p.fns[1]
           secrets == SecretsOf(p)
           Each(s) == [i \in DOMAIN f.calls |-> LookupsBelow(p, s, f.calls[i])]
           Below(s) == FlattenSeq(Each(s))
           own == [k \in DOMAIN secrets |-> LookupWith(p, secrets[k], 1, secrets[k])]
           ss == [k \in DOMAIN secrets |-> Below(secrets[k])]
<1>1. Lookups(p) = own \o FlattenSeq(ss)
  BY DEF Lookups, SecretsOf
<1>2. secrets \in Seq(DOMAIN p.val) /\ 1 \in DOMAIN p.fns /\ f.calls \in Seq(CallForms_)
  BY ShapeOf, SecretsAre
<1> HIDE DEF secrets
<1>3. /\ DOMAIN secrets = 1 .. Len(secrets) /\ Len(secrets) \in Nat
      /\ \A k \in DOMAIN secrets : secrets[k] \in DOMAIN p.val /\ secrets[k] \in Range(secrets)
  BY <1>2 DEF Range
<1>4. DOMAIN p.val \subseteq Nat
  BY ShapeOf
<1>5. own \in Seq(LookupForm)
  <2>1. \A k \in DOMAIN secrets : LookupWith(p, secrets[k], 1, secrets[k]) \in LookupForm
    BY <1>2, <1>3, <1>4, LookupWithIs
  <2> QED BY <2>1, <1>3
<1>6. \A x : x \in Range(own) <=> \E s \in Range(secrets) : x = LookupWith(p, s, 1, s)
  BY DEF Range
<1>7. ASSUME NEW s \in DOMAIN p.val
      PROVE  /\ Below(s) \in Seq(LookupForm)
             /\ \A x \in Range(Below(s)) : \E c \in Range(f.calls) : c.callee \notin {0, 1} /\
                  \E par \in Range(BoundTo(p, f, s, c)) : x = LookupWith(p, s, c.callee, par.val)
  <2> DEFINE ee == Each(s)
  <2>1. DOMAIN f.calls = 1 .. Len(f.calls) /\ Len(f.calls) \in Nat /\ \A i \in DOMAIN f.calls : f.calls[i] \in Range(f.calls)
    BY <1>2 DEF Range
  <2>2. \A i \in DOMAIN f.calls : LookupsBelow(p, s, f.calls[i]) \in Seq(LookupForm)
    BY <2>1, LookupsBelowAre
  <2>3. ee \in Seq(Seq(LookupForm)) /\ DOMAIN ee = DOMAIN f.calls
    BY <2>1, <2>2
  <2>4. \A i \in DOMAIN ee : ee[i] = LookupsBelow(p, s, f.calls[i])
    OBVIOUS
  <2> HIDE DEF ee
  <2>5. /\ FlattenSeq(ee) \in Seq(LookupForm)
        /\ \A x : x \in Range(FlattenSeq(ee)) <=> \E i \in DOMAIN ee : x \in Range(ee[i])
    BY <2>3, FlattenedHas
  <2>6. ASSUME NEW x \in Range(FlattenSeq(ee))
        PROVE  \E c \in Range(f.calls) : c.callee \notin {0, 1} /\
                 \E par \in Range(BoundTo(p, f, s, c)) : x = LookupWith(p, s, c.callee, par.val)
    <3>1. PICK i \in DOMAIN ee : x \in Range(ee[i])
      BY <2>5
    <3> DEFINE c == f.calls[i]
    <3>2. c \in Range(f.calls) /\ x \in Range(LookupsBelow(p, s, c))
      BY <2>1, <2>3, <2>4, <3>1
    <3> HIDE DEF c
    <3>3. c.callee \notin {0, 1} /\ \E par \in Range(BoundTo(p, f, s, c)) : x = LookupWith(p, s, c.callee, par.val)
      BY <3>2, LookupsBelowAre
    <3> QED BY <3>2, <3>3
  <2> QED BY <2>5, <2>6 DEF ee
<1> HIDE DEF Below, own
<1>8. ss \in Seq(Seq(LookupForm)) /\ DOMAIN ss = DOMAIN secrets
  <2>1. \A k \in DOMAIN secrets : Below(secrets[k]) \in Seq(LookupForm)
    BY <1>3, <1>7
  <2> QED BY <2>1, <1>3
<1>9. \A k \in DOMAIN ss : ss[k] = Below(secrets[k])
  OBVIOUS
<1> HIDE DEF ss
<1>10. /\ FlattenSeq(ss) \in Seq(LookupForm)
       /\ \A x : x \in Range(FlattenSeq(ss)) <=> \E i \in DOMAIN ss : x \in Range(ss[i])
  BY <1>8, FlattenedHas
<1>11. ASSUME NEW x \in Range(FlattenSeq(ss)) PROVE LookupOneBelow(p, x)
  <2>1. PICK k \in DOMAIN ss : x \in Range(ss[k])
    BY <1>10
  <2> DEFINE s == secrets[k]
  <2>2. s \in DOMAIN p.val /\ s \in Range(secrets) /\ x \in Range(Below(s))
    BY <2>1, <1>3, <1>8, <1>9
  <2> HIDE DEF s
  <2>3. \E c \in Range(f.calls) : c.callee \notin {0, 1} /\
          \E par \in Range(BoundTo(p, f, s, c)) : x = LookupWith(p, s, c.callee, par.val)
    BY <2>2, <1>7
  <2> QED BY <2>2, <2>3 DEF LookupOneBelow, secrets
<1>12. /\ Lookups(p) \in Seq(LookupForm)
       /\ \A x : x \in Range(Lookups(p)) <=> x \in Range(own) \/ x \in Range(FlattenSeq(ss))
  BY <1>1, <1>5, <1>10, JoinedHas
<1>13. \A x \in Range(own) : OwnLookup(p, x)
  BY <1>6 DEF OwnLookup, secrets
<1> QED BY <1>6, <1>11, <1>12, <1>13 DEF secrets

LEMMA LookupsAreHanded ==
  ASSUME NEW p, HandlerShaped(p), FillsAsStated(p), NEW x \in Range(Lookups(p))
  PROVE  Handed(p, x)
<1>0. p.fns[1] \in Range(p.fns) /\ 1 \in DOMAIN p.fns
  BY ShapeOf
<1>1. \A s \in Range(SecretsOf(p)) : s \in DOMAIN p.val
  BY SecretsAre DEF Range
<1>2. CASE OwnLookup(p, x)
  <2>1. PICK s \in Range(SecretsOf(p)) : x = LookupWith(p, s, 1, s)
    BY <1>2 DEF OwnLookup
  <2> DEFINE z == 0
             none == <<>>
  <2>2. s \in DOMAIN p.val /\ <<s, none>> \in FoundBy(p, s)[z] /\ none \in Seq(STRING) /\ z \in 0 .. Len(p.val)
    BY <1>1, ItselfIsFound
  <2> HIDE DEF z, none
  <2> QED BY <1>0, <2>1, <2>2, LookupIsHanded
<1>3. CASE LookupOneBelow(p, x)
  <2>1. PICK s \in Range(SecretsOf(p)), c \in Range(p.fns[1].calls) : c.callee \notin {0, 1} /\
          \E par \in Range(BoundTo(p, p.fns[1], s, c)) : x = LookupWith(p, s, c.callee, par.val)
    BY <1>3 DEF LookupOneBelow
  <2>2. PICK par \in Range(BoundTo(p, p.fns[1], s, c)) : x = LookupWith(p, s, c.callee, par.val)
    BY <2>1
  <2>3. s \in DOMAIN p.val /\ c.callee \in DOMAIN p.fns
    BY <1>0, <1>1, <2>1, ParamOfCallee
  <2>4. par.val \in DOMAIN p.val /\ \E q1 \in Seq(STRING) : <<par.val, q1>> \in FoundBy(p, s)[Len(p.val)]
    BY <1>0, <2>1, <2>2, <2>3, BoundBelowHas
  <2>5. Len(p.val) \in 0 .. Len(p.val)
    BY <2>3, ItselfIsFound
  <2> QED BY <2>2, <2>3, <2>4, <2>5, LookupIsHanded
<1> QED BY <1>2, <1>3, LookupsHave

LEMMA CredentialIs ==
  ASSUME NEW p, HandlerShaped(p), FillsAsStated(p)
  PROVE  /\ CredentialOf(p) # NoCredential => CredentialOf(p) \in Range(Lookups(p)) /\ CredentialOf(p).call # 0
         /\ (\E x \in Range(Lookups(p)) : x.call # 0) => CredentialOf(p) # NoCredential
<1> DEFINE looked == Lookups(p)
           found == {k \in DOMAIN looked : looked[k].call # 0}
<1>1. CredentialOf(p) = IF found = {} THEN NoCredential ELSE looked[Min(found)]
  BY DEF CredentialOf
<1>2. looked \in Seq(LookupForm)
  BY LookupsHave
<1> HIDE DEF looked
<1>3. found \in SUBSET Nat
  BY <1>2
<1>4. CASE found = {}
  <2>1. \A x \in Range(looked) : x.call = 0
    BY <1>4 DEF Range
  <2>2. CredentialOf(p) = NoCredential
    BY <1>1, <1>4
  <2> HIDE DEF found
  <2> QED BY <2>1, <2>2 DEF looked
<1>5. CASE found # {}
  <2> DEFINE m == Min(found)
  <2>1. m \in found
    <3> HIDE DEF found
    <3> QED BY <1>3, <1>5, MinIs
  <2>2. CredentialOf(p) = looked[m]
    BY <1>1, <1>5
  <2> HIDE DEF m
  <2>3. looked[m] \in Range(looked) /\ looked[m].call # 0
    BY <2>1 DEF Range
  <2>4. NoCredential.call = 0
    BY DEF NoCredential, Lookup
  <2> HIDE DEF found
  <2>5. CredentialOf(p) # NoCredential
    BY <2>2, <2>3, <2>4
  <2> QED BY <2>2, <2>3, <2>5 DEF looked
<1> QED BY <1>4, <1>5

LEMMA CredentialIsHanded ==
  ASSUME NEW p, HandlerShaped(p), FillsAsStated(p), CredentialOf(p) # NoCredential
  PROVE  LET c == CredentialOf(p)
         IN  \E k \in DOMAIN p.fns[c.fn].calls[c.call].args : Holds(p, c.secret, p.fns[c.fn].calls[c.call].args[k].val)
<1> DEFINE c == CredentialOf(p)
<1>1. c \in Range(Lookups(p)) /\ c.call # 0
  BY CredentialIs
<1> HIDE DEF c
<1>2. Handed(p, c)
  BY <1>1, LookupsAreHanded
<1> QED BY <1>1, <1>2 DEF Handed, c

-----------------------------------------------------------------------------
(* A handler's own keyed lookup is reached (credential.go 269-291).        *)
OwnOf(p) == Range(p.fns[1].vals)
Kept(p, w, h) ==
  h[1] \in OwnOf(p) =>
    /\ Carried(w, h[1])
    /\ h[2] # <<>> => p.val[h[1]].entries # <<>> \/ \E e \in Range(p.fns[1].assigns) : e.to = h[1]

LEMMA OwnAreValues ==
  ASSUME NEW p, HandlerShaped(p)
  PROVE  OwnOf(p) \subseteq DOMAIN p.val /\ 0 \notin DOMAIN p.val /\ p.fns[1] \in Range(p.fns)
<1>1. p.fns[1] \in Range(p.fns) /\ DOMAIN p.val = 1 .. Len(p.val) /\ Len(p.val) \in Nat
  BY ShapeOf
<1>2. p.fns[1].vals \in Seq(DOMAIN p.val)
  BY <1>1, ShapeOf
<1>3. OwnOf(p) \subseteq DOMAIN p.val
  BY <1>2 DEF OwnOf, Range
<1> QED BY <1>1, <1>3

LEMMA OnwardIsKept ==
  ASSUME NEW p, HandlerShaped(p), KeptInHand(p), NEW seed \in DOMAIN p.val, NEW w, SpreadOf(p, p.fns[1], seed, w),
         NEW g \in Spot(p), Kept(p, w, g), NEW h \in Onward(p, g[1], g[2])
  PROVE  Kept(p, w, h)
<1> DEFINE f == p.fns[1]
           at == g[1]
           q == g[2]
<1>0. at \in DOMAIN p.val /\ q \in Seq(STRING) /\ at # 0 /\ f \in Range(p.fns) /\ OwnOf(p) \subseteq DOMAIN p.val
  BY OwnAreValues DEF Spot
<1>1. SUFFICES ASSUME h[1] \in OwnOf(p)
               PROVE  /\ Carried(w, h[1])
                      /\ p.val[h[1]].entries # <<>> \/ \E e \in Range(f.assigns) : e.to = h[1]
  BY DEF Kept
<1>3. ASSUME at \in OwnOf(p)
      PROVE  \E i \in DOMAIN w : w[i].carrier = at /\ w[i] \in Place(p) /\ \A x : Meets(p, f, w[i], x) => Carried(w, x.carrier)
  <2>1. Carried(w, at)
    BY <1>3 DEF Kept
  <2>2. PICK i \in DOMAIN w : w[i].carrier = at
    BY <2>1 DEF Carried
  <2>3. w \in Seq(Place(p)) /\ ClosedAt(p, f, w, i)
    BY <2>2 DEF SpreadOf
  <2>4. w[i] \in Place(p)
    BY <2>2, <2>3
  <2>5. \A x : x \in Range(MetAt(p, f, w[i])) <=> Meets(p, f, w[i], x)
    BY <1>0, <2>4, MetHas
  <2>6. \A x : Meets(p, f, w[i], x) => Carried(w, x.carrier)
    BY <2>3, <2>5 DEF ClosedAt
  <2> QED BY <2>2, <2>4, <2>6
<1>4. CASE FiledIn(p, at, q, h)
  <2>1. PICK o \in DOMAIN p.val : \E e \in Range(p.val[o].entries) : e.val = at /\ h = <<o, <<e.key>> \o q>>
    BY <1>4 DEF FiledIn
  <2>2. PICK e \in Range(p.val[o].entries) : e.val = at /\ h = <<o, <<e.key>> \o q>>
    BY <2>1
  <2>3. h[1] = o
    BY <2>2
  <2>4. o \in OwnOf(p)
    BY <1>1, <2>3
  <2>5. at \in OwnOf(p)
    BY <1>0, <2>2, <2>4 DEF KeptInHand, OwnOf
  <2>6. PICK i \in DOMAIN w : w[i].carrier = at /\ \A x : Meets(p, f, w[i], x) => Carried(w, x.carrier)
    BY <1>3, <2>5
  <2>7. Meets(p, f, w[i], Holder(o, e))
    BY <2>2, <2>4, <2>6 DEF Meets, OwnOf
  <2>8. Carried(w, o)
    BY <2>6, <2>7 DEF Holder
  <2>9. p.val[o].entries # <<>>
    BY <2>2 DEF Range
  <2> QED BY <2>3, <2>8, <2>9
<1>5. CASE ReadOut(p, at, q, h)
  <2>1. PICK v \in DOMAIN p.val : /\ p.val[v].kind = "property" /\ p.val[v].base = at /\ IsPrefix(p.val[v].path, q)
                                  /\ h = <<v, Beneath(q, p.val[v].path)>>
    BY <1>5 DEF ReadOut
  <2>2. v \in OwnOf(p)
    BY <1>1, <2>1
  <2>3. /\ p.val[v].path # <<>> /\ at \in OwnOf(p) /\ p.val[at].entries = <<>>
        /\ \A e \in Range(f.assigns) : e.to # at
    BY <2>1, <2>2 DEF KeptInHand, OwnOf
  <2>4. q # <<>>
    <3>1. p.val[v].path \in Seq(STRING)
      BY ShapeOf
    <3>2. Len(p.val[v].path) # 0 /\ Len(p.val[v].path) \in Nat
      BY <2>3, <3>1
    <3>3. Len(p.val[v].path) <= Len(q)
      BY <2>1 DEF IsPrefix
    <3> QED BY <1>0, <3>2, <3>3
  <2>5. p.val[at].entries # <<>> \/ \E e \in Range(f.assigns) : e.to = at
    BY <2>3, <2>4 DEF Kept
  <2> QED BY <2>3, <2>5
<1>6. CASE GivenAway(p, at, q, h)
  <2>1. PICK b \in Range(p.fns) : \E e \in Range(b.assigns) : e.from = at /\ h = <<e.to, q>>
    BY <1>6 DEF GivenAway
  <2>2. PICK e \in Range(b.assigns) : e.from = at /\ h = <<e.to, q>>
    BY <2>1
  <2>3. h[1] = e.to
    BY <2>2
  <2>4. PICK j \in DOMAIN p.fns : b = p.fns[j]
    BY DEF Range
  <2>5. j = 1
    BY <1>1, <2>2, <2>3, <2>4 DEF KeptInHand, OwnOf
  <2>6. e \in Range(f.assigns) /\ e.to = h[1]
    BY <2>2, <2>3, <2>4, <2>5
  <2>7. at \in OwnOf(p)
    BY <2>2, <2>6 DEF KeptInHand, OwnOf
  <2>8. PICK i \in DOMAIN w : w[i].carrier = at /\ \A x : Meets(p, f, w[i], x) => Carried(w, x.carrier)
    BY <1>3, <2>7
  <2> DEFINE x == [carrier |-> e.to, key |-> w[i].key]
  <2>9. Meets(p, f, w[i], x)
    BY <2>2, <2>6, <2>8 DEF Meets
  <2>10. x.carrier = e.to
    OBVIOUS
  <2> HIDE DEF x
  <2>11. Carried(w, h[1])
    BY <2>3, <2>8, <2>9, <2>10
  <2> QED BY <2>6, <2>11
<1>7. CASE Passed(p, at, q, h)
  <2> DEFINE To(par) == <<par.val, IF par.destructured THEN Beneath(q, par.path) ELSE q>>
  <2>1. PICK b \in Range(p.fns) : \E c \in Range(b.calls) :
          c.callee # 0 /\ \E par \in Range(p.fns[c.callee].params) : h = To(par)
    BY <1>7 DEF Passed
  <2>2. PICK c \in Range(b.calls) : c.callee # 0 /\ \E par \in Range(p.fns[c.callee].params) : h = To(par)
    BY <2>1
  <2>3. PICK par \in Range(p.fns[c.callee].params) : h = To(par)
    BY <2>2
  <2>4. c.callee \in DOMAIN p.fns \ {1}
    BY <2>2, ParamOfCallee DEF KeptInHand
  <2>5. par.val \notin OwnOf(p)
    BY <2>3, <2>4 DEF KeptInHand, OwnOf
  <2>6. h[1] = par.val
    BY <2>3
  <2> QED BY <1>1, <2>5, <2>6
<1> QED BY <1>4, <1>5, <1>6, <1>7, OnwardIs

LEMMA HeldIsCarried ==
  ASSUME NEW p, HandlerShaped(p), KeptInHand(p), NEW s \in OwnOf(p), NEW v \in OwnOf(p), Holds(p, s, v)
  PROVE  Carried(Spread(p, p.fns[1], s), v)
<1> DEFINE N == 2 * Len(p.val)
           w == Spread(p, p.fns[1], s)
           F(n) == FoundBy(p, s)[n]
           S == {n \in 0 .. N : \A h \in F(n) : Kept(p, w, h)}
<1>0. N \in Nat /\ s \in DOMAIN p.val /\ p.fns[1] \in Range(p.fns)
  BY ShapeOf, OwnAreValues
<1>1. SpreadOf(p, p.fns[1], s, w)
  BY <1>0, SpreadHas
<1>2. /\ F(0) = {<<s, <<>>>>}
      /\ \A n \in 1 .. N : F(n) = Further(p, F(n - 1))
      /\ \A n \in 0 .. N : F(n) \in SUBSET Spot(p)
  BY <1>0, FoundHas
<1> HIDE DEF w, F
<1>3. 0 \in S
  <2>1. 1 \in DOMAIN w /\ w[1].carrier = s
    BY <1>1 DEF SpreadOf, Starts
  <2>2. Carried(w, s)
    BY <2>1 DEF Carried
  <2> DEFINE h == <<s, <<>>>>
  <2>3. h[1] = s /\ h[2] = <<>>
    OBVIOUS
  <2> HIDE DEF h
  <2>4. Kept(p, w, h)
    BY <2>2, <2>3 DEF Kept
  <2>5. \A x \in F(0) : x = h
    BY <1>2 DEF h
  <2> QED BY <1>0, <2>4, <2>5
<1>4. ASSUME NEW n \in 1 .. N, n - 1 \in S PROVE n \in S
  <2>1. n \in 0 .. N /\ n - 1 \in 0 .. N
    BY <1>0
  <2>2. ASSUME NEW h \in F(n) PROVE Kept(p, w, h)
    <3>1. CASE h \in F(n - 1)
      BY <1>4, <3>1
    <3>2. CASE h \notin F(n - 1)
      <4>1. PICK g \in F(n - 1) : h \in Onward(p, g[1], g[2])
        <5>1. F(n) = Further(p, F(n - 1))
          BY <1>2
        <5> QED BY <2>2, <3>2, <5>1, FurtherHas
      <4>2. Kept(p, w, g)
        BY <1>4, <4>1
      <4>3. g \in Spot(p)
        BY <1>2, <2>1, <4>1
      <4> QED BY <1>0, <1>1, <4>1, <4>2, <4>3, OnwardIsKept
    <3> QED BY <3>1, <3>2
  <2> QED BY <2>1, <2>2
<1>5. N \in S
  <2> HIDE DEF S, N
  <2>1. \A n \in 0 .. N : n \in S
    BY <1>0, <1>3, <1>4, UpTo
  <2> QED BY <2>1, <1>0
<1>6. PICK h \in FoundIn(p, s) : h[1] = v
  BY DEF Holds
<1>7. h \in F(N)
  BY FoundIs DEF F
<1>8. Kept(p, w, h)
  BY <1>5, <1>7
<1> QED BY <1>6, <1>8 DEF Kept, w

LEMMA OwnLookupIsNamed ==
  ASSUME NEW p, HandlerShaped(p), KeptInHand(p), FillsAsStated(p),
         NEW s \in Range(p.fns[1].vals), NEW c \in {x \in Range(p.fns[1].calls) : x.read}, NEW k \in DOMAIN c.args,
         IsSecret(p, p.fns[1], s), Holds(p, s, c.args[k].val)
  PROVE  CredentialOf(p) # NoCredential
<1> DEFINE f == p.fns[1]
           w == Spread(p, f, s)
           v == c.args[k].val
<1>0. f \in Range(p.fns) /\ f.calls \in Seq(CallForms_) /\ s \in OwnOf(p) /\ s \in DOMAIN p.val /\ 0 \notin DOMAIN p.val
  <2>1. f \in Range(p.fns) /\ s \in OwnOf(p) /\ 0 \notin DOMAIN p.val
    BY OwnAreValues DEF OwnOf
  <2> QED BY <2>1, ShapeOf, OwnAreValues
<1>1. v \in DOMAIN p.val
  <2>1. PICK h \in FoundIn(p, s) : h[1] = v
    BY DEF Holds
  <2>2. FoundIn(p, s) \in SUBSET Spot(p)
    <3>1. 2 * Len(p.val) \in 0 .. 2 * Len(p.val)
      BY ShapeOf
    <3> QED BY <1>0, <3>1, FoundHas, FoundIs
  <2> QED BY <2>1, <2>2 DEF Spot
<1>2. v \in OwnOf(p)
  <2>1. c \in Range(f.calls) /\ c.args[k] \in Range(c.args)
    BY DEF Range
  <2>2. c.args[k].val \in OwnOf(p) \cup {0}
    BY <2>1 DEF KeptInHand, OwnOf
  <2> QED BY <1>0, <1>1, <2>2
<1>3. Carried(w, v)
  BY <1>0, <1>2, HeldIsCarried
<1>4. PICK i \in DOMAIN f.calls : c = f.calls[i]
  BY DEF Range
<1>5. SelectsRecord(f, w) # 0
  <2>1. f.calls[i].read /\ Carried(w, f.calls[i].args[k].val) /\ k \in DOMAIN f.calls[i].args
    BY <1>3, <1>4
  <2> HIDE DEF f, w, v
  <2> QED BY <1>0, <1>4, <2>1, SelectsRecordIs
<1>6. LookupWith(p, s, 1, s).call # 0
  BY <1>5 DEF LookupWith, Lookup
<1>7. LookupWith(p, s, 1, s) \in Range(Lookups(p))
  BY SecretsAre, LookupsHave
<1> QED BY <1>6, <1>7, CredentialIs

LEMMA SecretIsRead ==
  ASSUME NEW p, HandlerShaped(p), KeptInHand(p), SecretsPresentedTo(p, p.fns[1]) # <<>>
  PROVE  ReadsCallerInput(p, p.fns[1])
<1> DEFINE f == p.fns[1]
<1>1. PICK s : s \in Range(f.vals) /\ IsSecret(p, f, s)
  <2>1. SecretsOf(p) \in Seq(DOMAIN p.val) /\ SecretsOf(p) # <<>>
    BY SecretsAre DEF SecretsOf
  <2>2. 1 \in DOMAIN SecretsOf(p)
    BY <2>1
  <2>3. SecretsOf(p)[1] \in Range(SecretsOf(p))
    BY <2>2 DEF Range
  <2> QED BY <2>3, SecretsAre
<1>2. CASE p.val[s].kind \in SourceKinds(p)
  BY <1>1, <1>2 DEF ReadsCallerInput
<1>3. CASE p.val[s].kind \notin SourceKinds(p)
  <2> DEFINE b == p.val[s].base
  <2>1. p.val[s].kind = "property" /\ (p.val[b].kind \in SourceKinds(p) \/ IsSourceGlobal(p, b) \/ AtPosition(p, f, s))
    BY <1>1, <1>3 DEF IsSecret
  <2>2. b \in Range(f.vals)
    BY <1>1, <2>1 DEF KeptInHand
  <2> QED BY <1>1, <2>1, <2>2 DEF ReadsCallerInput
<1> QED BY <1>2, <1>3

-----------------------------------------------------------------------------
Concluded(p) == [done |-> TRUE, reads |-> ReadsCallerInput(p, p.fns[1]), credential |-> CredentialOf(p)]
CrInv == (\E family \in Handlers : handler \in family) /\ resolved \in {Unread, Concluded(handler)}

(* A lookup the report cites was handed the secret it is cited for, a      *)
(* handler's own keyed lookup is not missed, and a handler sent a secret   *)
(* reads input (credential.go 115-155, 332), for every handler whose       *)
(* arguments fill what the frontend says and whose values are its own.     *)
THEOREM CredentialCorrect ==
  CrSpec /\ KeptInHand(handler) /\ FillsAsStated(handler) => []TheSecretsLookupIsKnown
<1> DEFINE Sup == KeptInHand(handler) /\ FillsAsStated(handler)
<1>1. CrInit => CrInv
  BY DEF CrInit, CrInv
<1>2. CrInv /\ [CrNext]_crVars => CrInv'
  <2>1. SUFFICES ASSUME CrInv, [CrNext]_crVars PROVE CrInv'
    OBVIOUS
  <2>2. CASE Resolve
    BY <2>1, <2>2 DEF Resolve, CrInv, Concluded
  <2>3. CASE UNCHANGED crVars
    BY <2>1, <2>3 DEF crVars, CrInv, Concluded
  <2> QED BY <2>1, <2>2, <2>3 DEF CrNext
<1>3. Sup /\ [CrNext]_crVars => Sup'
  BY DEF CrNext, Resolve, crVars
<1>4. CrInv /\ Sup => TheSecretsLookupIsKnown
  <2>1. SUFFICES ASSUME CrInv, Sup PROVE TheSecretsLookupIsKnown
    OBVIOUS
  <2>2. CASE resolved = Unread
    BY <2>2 DEF TheSecretsLookupIsKnown, TheLookupIsKeyedByTheSecret, OwnLookupIsSeen, ASecretIsInput
  <2>3. CASE resolved # Unread
    <3>1. HandlerShaped(handler)
      BY <2>1, HandlersAssumption DEF CrInv
    <3>2. resolved.credential = CredentialOf(handler) /\ resolved.reads = ReadsCallerInput(handler, handler.fns[1])
      BY <2>1, <2>3 DEF CrInv, Concluded
    <3>3. TheLookupIsKeyedByTheSecret
      BY <2>1, <3>1, <3>2, CredentialIsHanded DEF TheLookupIsKeyedByTheSecret
    <3>4. OwnLookupIsSeen
      BY <2>1, <3>1, <3>2, OwnLookupIsNamed DEF OwnLookupIsSeen
    <3>5. ASecretIsInput
      BY <2>1, <3>1, <3>2, SecretIsRead DEF ASecretIsInput
    <3> QED BY <3>3, <3>4, <3>5 DEF TheSecretsLookupIsKnown
  <2> QED BY <2>2, <2>3
<1> HIDE DEF Sup
<1>5. CrSpec /\ Sup => []TheSecretsLookupIsKnown
  BY <1>1, <1>2, <1>3, <1>4, PTL DEF CrSpec
<1> QED BY <1>5 DEF Sup
=============================================================================
