------------------------------- MODULE Regex --------------------------------
(***************************************************************************)
(* core/internal/model: what the core reads off a regular expression.      *)
(* redos.go scans it with a stack of open groups; regexparse.go parses it  *)
(* and asks two things of the tree: whether two repetitions can compete    *)
(* for one input, and whether an anchored pattern, used as a check, keeps  *)
(* a forbidden fragment out of everything it accepts.                      *)
(*                                                                         *)
(* The pattern is read one token a step, by the scanner and by the parser  *)
(* at once, and judged at its end.  What the answers are held against is   *)
(* the matching relation at the end of the module.                         *)
(***************************************************************************)
EXTENDS Integers, Sequences, SequencesExt, FiniteSets

CONSTANTS Profiles,     \* what the patterns of a family are written with
          MaxWord       \* the length of the inputs a pattern is tried on

(* Characters are numbers, as the ranges of a class need them.             *)
LF == 10
CR == 13

ASSUME ProfilesAssumption ==
  \A p \in Profiles :
    /\ p.chars \subseteq Nat
    /\ p.tokens \in Nat
    /\ p.fragments \subseteq Seq(Nat)
ASSUME MaxWordAssumption == MaxWord \in Nat

VARIABLES
  profile,
  open,       \* the open groups, the pattern itself the first: what has been
              \* read of each, and whether the scanner calls it risky
  readable,   \* the parser has not given up
  nested,     \* the scanner has found its shape
  read,       \* how many tokens were read
  stage       \* "read", "judged"

rxVars == <<profile, open, readable, nested, read, stage>>

-----------------------------------------------------------------------------
(* The quantifiers.  What the parser makes of each (readQuantifier), what  *)
(* the scanner does (repeats, quantifierAt), and the counts it stands for. *)
Forever == 1000
Quantifier ==
  [once   |-> [unbounded |-> FALSE, optional |-> FALSE, multiple |-> FALSE, seen |-> "once",       from |-> 1, to |-> 1],
   maybe  |-> [unbounded |-> FALSE, optional |-> TRUE,  multiple |-> FALSE, seen |-> "optional",   from |-> 0, to |-> 1],
   star   |-> [unbounded |-> TRUE,  optional |-> TRUE,  multiple |-> TRUE,  seen |-> "optional",   from |-> 0, to |-> Forever],
   plus   |-> [unbounded |-> TRUE,  optional |-> FALSE, multiple |-> TRUE,  seen |-> "repeatable", from |-> 1, to |-> Forever],
   (* {2} {0,1} {0,2} {1,12} {0,} {2,} *)
   two    |-> [unbounded |-> FALSE, optional |-> FALSE, multiple |-> TRUE,  seen |-> "once",       from |-> 2, to |-> 2],
   upto1  |-> [unbounded |-> FALSE, optional |-> TRUE,  multiple |-> FALSE, seen |-> "once",       from |-> 0, to |-> 1],
   upto2  |-> [unbounded |-> FALSE, optional |-> TRUE,  multiple |-> TRUE,  seen |-> "once",       from |-> 0, to |-> 2],
   dozen  |-> [unbounded |-> TRUE,  optional |-> FALSE, multiple |-> TRUE,  seen |-> "repeatable", from |-> 1, to |-> 12],
   any    |-> [unbounded |-> TRUE,  optional |-> TRUE,  multiple |-> TRUE,  seen |-> "repeatable", from |-> 0, to |-> Forever],
   twice  |-> [unbounded |-> TRUE,  optional |-> FALSE, multiple |-> TRUE,  seen |-> "repeatable", from |-> 2, to |-> Forever]]

Unbounded(n) == Quantifier[n.q].unbounded
Optional(n)  == Quantifier[n.q].optional
Multiple(n)  == Quantifier[n.q].multiple
Repeats(n)   == Unbounded(n)     \* repeats: the scanner's own test agrees

(* The three kinds of node.  `text` is how it is spelled: the scanner      *)
(* compares spellings.                                                     *)
Node(kind, q) == [kind |-> kind, q |-> q, set |-> {}, text |-> <<>>, alts |-> <<>>, zero |-> ""]
CharNode(set, text, q) == [Node("char", q) EXCEPT !.set = set, !.text = text]
AnchorNode(z, q)       == [Node("zero", q) EXCEPT !.zero = z, !.text = <<z>>]
(* A lookaround matches no input; the scanner sees a group all the same.   *)
GroupNode(look, alts, q) ==
  [Node(IF look THEN "zero" ELSE "group", q) EXCEPT !.alts = alts, !.text = <<"(">>]

Group(look) == [look |-> look, alts |-> << <<>> >>, risky |-> FALSE]

Dot == profile.chars \ {LF}

-----------------------------------------------------------------------------
(* anchored: does the body of a group begin with something that matches    *)
(* exactly once?                                                           *)
SingleAtom(seq) == Len(seq) = 1 /\ seq[1].kind = "char" /\ seq[1].q = "once" /\ seq[1].text # <<".">>

DistinctSingleCharacters(alts) ==
  /\ \A i \in DOMAIN alts : SingleAtom(alts[i])
  /\ \A i, j \in DOMAIN alts : i # j => alts[i][1].text # alts[j][1].text

TopLevelAlternation(alts) == Len(alts) > 1

Seen(n) == Quantifier[n.q].seen

(* The first atom that is not optional, if any.                            *)
FirstMandatory(seq) == SelectInSeq(seq, LAMBDA n : Seen(n) # "optional")

Anchored(alts) ==
  IF TopLevelAlternation(alts) THEN DistinctSingleCharacters(alts)
  ELSE LET i == FirstMandatory(alts[1])
       IN  i # 0 /\ Seen(alts[1][i]) = "once" /\ alts[1][i].text # <<"(">>

-----------------------------------------------------------------------------
(* Reading.                                                                *)
Top == open[Len(open)]
Extended(group, n) == [group EXCEPT !.alts[Len(group.alts)] = Append(@, n)]

(* nestedAmbiguity marks the group a quantifier stands in; the pattern     *)
(* itself is no group.                                                     *)
Marked(group, risky) == [group EXCEPT !.risky = @ \/ risky]

RxInit ==
  /\ profile \in Profiles
  /\ open = <<IF profile.framed THEN Extended(Group(FALSE), AnchorNode("^", "once")) ELSE Group(FALSE)>>
  /\ readable = TRUE /\ nested = FALSE /\ read = 0 /\ stage = "read"

MayRead == stage = "read" /\ read < profile.tokens

Take(n) ==
  /\ open' = [open EXCEPT ![Len(open)] = Marked(Extended(@, n), Unbounded(n))]
  /\ read' = read + 1
  /\ UNCHANGED <<profile, nested, stage>>

(* parseAtom: one character, or the dot.                                   *)
ReadChar(c, q) == Take(CharNode({c}, <<"char", c>>, q)) /\ UNCHANGED readable
ReadDot(q)     == Take(CharNode(Dot, <<".">>, q)) /\ UNCHANGED readable

(* parseClass: members are single characters and ranges lo-hi; a range     *)
(* the wrong way round makes the parser give up.                           *)
Members(parts) == UNION {p[1] .. p[2] : p \in parts} \cap profile.chars

ReadClass(parts, negated, q) ==
  /\ Take(CharNode(IF negated THEN profile.chars \ Members(parts) ELSE Members(parts),
                   <<"[", parts, negated>>, q))
  /\ readable' = (readable /\ \A p \in parts : p[1] <= p[2])

ReadAnchor(z, q) == Take(AnchorNode(z, q)) /\ UNCHANGED readable

(* escapeNode refuses numeric escapes and backreferences.                  *)
ReadUnreadable(q) == Take(CharNode({}, <<"\\x">>, q)) /\ readable' = FALSE

Open(look) ==
  /\ open' = Append(open, Group(look))
  /\ read' = read + 1
  /\ UNCHANGED <<profile, readable, nested, stage>>

Bar ==
  /\ open' = [open EXCEPT ![Len(open)] = [Marked(@, TRUE) EXCEPT !.alts = Append(@, <<>>)]]
  /\ read' = read + 1
  /\ UNCHANGED <<profile, readable, nested, stage>>

(* Defect: what a closed group held is forgotten by the group around it.   *)
CloseForgetting(q) ==
  LET closed == GroupNode(Top.look, Top.alts, q)
      rest   == Front(open)
  IN  /\ nested' = (nested \/ (Top.risky /\ Repeats(closed) /\ ~ Anchored(Top.alts)))
      /\ open' = [rest EXCEPT ![Len(rest)] = Marked(Extended(@, closed), Repeats(closed))]
      /\ read' = read + 1
      /\ UNCHANGED <<profile, readable, stage>>

Close(q) ==
  LET closed == GroupNode(Top.look, Top.alts, q)
      rest   == Front(open)
  IN  /\ nested' = (nested \/ (Top.risky /\ Repeats(closed) /\ ~ Anchored(Top.alts)))
      /\ open' = [rest EXCEPT ![Len(rest)] =
                    Marked(Extended(@, closed), Top.risky \/ Repeats(closed))]
      /\ read' = read + 1
      /\ UNCHANGED <<profile, readable, stage>>

(* A group left open: the parser gives up, the scanner keeps what it has.  *)
(* A framed pattern ends with the anchor its first one calls for.          *)
Finish ==
  /\ stage = "read"
  /\ stage' = "judged"
  /\ readable' = (readable /\ Len(open) = 1)
  /\ open' = IF profile.framed
             THEN [open EXCEPT ![Len(open)] = Extended(@, AnchorNode("$", "once"))] ELSE open
  /\ UNCHANGED <<profile, nested, read>>

RxNext ==
  \/ /\ MayRead
     /\ \/ \E q \in profile.quantifiers :
             \/ \E c \in profile.written : ReadChar(c, q)
             \/ profile.dots /\ ReadDot(q)
             \/ \E class \in profile.classes : ReadClass(class[1], class[2], q)
             \/ \E z \in profile.anchors : ReadAnchor(z, q)
             \/ profile.odd /\ ReadUnreadable(q)
             \/ Len(open) > 1 /\ Close(q)
        \/ \E look \in profile.looks : Open(look)
        \/ Bar
  \/ Finish

RxSpec == RxInit /\ [][RxNext]_rxVars

-----------------------------------------------------------------------------
(* adjacentAmbiguity.                                                      *)
RECURSIVE ContainsUnbounded(_)
ContainsUnbounded(alts) ==
  \E a \in Range(alts) : \E n \in Range(a) :
    Unbounded(n) \/ (n.kind = "group" /\ ContainsUnbounded(n.alts))

(* leadingSet: what a repetition must begin with; {} when it need not.     *)
RECURSIVE LeadingSet(_)
LeadingSet(alts) ==
  LET first(seq) == SelectInSeq(seq, LAMBDA n : n.kind # "zero" /\ ~ Optional(n))
      leads(seq) == LET n == seq[first(seq)]
                    IN  IF n.kind = "char" THEN n.set ELSE LeadingSet(n.alts)
      groups == {a \in Range(alts) : first(a) # 0 /\ a[first(a)].kind = "group"}
  IN  IF \/ \E a \in Range(alts) : first(a) = 0
         \/ \E a \in groups : LeadingSet(a[first(a)].alts) = {}
      THEN {} ELSE UNION {leads(a) : a \in Range(alts)}

RECURSIVE AdjacentIn(_)
AdjacentIn(seq) ==
  \/ \E n \in Range(seq) : n.kind = "group" /\ \E a \in Range(n.alts) : AdjacentIn(a)
  \/ \E i \in 1 .. Len(seq) - 1 :
       LET left == seq[i]
           right == seq[i + 1]
       IN  /\ left.kind = "char" /\ Unbounded(left)
           /\ right.kind = "group" /\ Unbounded(right) /\ ContainsUnbounded(right.alts)
           /\ left.set \cap LeadingSet(right.alts) # {}

AdjacentAmbiguity == readable /\ \E a \in Range(open[1].alts) : AdjacentIn(a)

-----------------------------------------------------------------------------
(* AnchoredRegexExcludes.  The summary of a node: can it match nothing,    *)
(* what it begins and ends with, and can the fragment occur inside it.     *)
PlainAnchor(n, z) == n.kind = "zero" /\ n.zero = z /\ n.q = "once"

FullyAnchored(alts) ==
  \A a \in Range(alts) : Len(a) >= 2 /\ PlainAnchor(a[1], "^") /\ PlainAnchor(a[Len(a)], "$")

Joins(left, right, f) == Len(f) = 2 /\ f[1] \in left /\ f[2] \in right

(* Defect: a fixed count is no repetition.                                 *)
MayTouchItselfUnbounded(n) == Unbounded(n)

MayTouchItself(n) == Multiple(n)

Empty == [nullable |-> TRUE, first |-> {}, last |-> {}, contains |-> FALSE]

Then(s, t, f) ==
  [nullable |-> s.nullable /\ t.nullable,
   contains |-> s.contains \/ t.contains \/ Joins(s.last, t.first, f),
   first    |-> s.first \cup (IF s.nullable THEN t.first ELSE {}),
   last     |-> t.last \cup (IF t.nullable THEN s.last ELSE {})]

Or(s, t) ==
  [nullable |-> s.nullable \/ t.nullable, contains |-> s.contains \/ t.contains,
   first |-> s.first \cup t.first, last |-> s.last \cup t.last]

RECURSIVE SummarizeAlts(_, _)
SummarizeNode(n, f) ==
  CASE n.kind = "zero" -> Empty
    [] n.kind = "char" ->
         [nullable |-> Optional(n), first |-> n.set, last |-> n.set,
          contains |-> IF Len(f) = 1 THEN f[1] \in n.set
                       ELSE MayTouchItself(n) /\ Joins(n.set, n.set, f)]
    [] OTHER ->
         LET s == SummarizeAlts(n.alts, f)
         IN  [s EXCEPT !.contains = @ \/ (MayTouchItself(n) /\ Joins(s.last, s.first, f)),
                       !.nullable = @ \/ Optional(n)]

SummarizeSeq(seq, f) == FoldLeft(LAMBDA s, n : Then(s, SummarizeNode(n, f), f), Empty, seq)

SummarizeAlts(alts, f) ==
  FoldLeft(LAMBDA s, seq : Or(s, SummarizeSeq(seq, f)),
           [Empty EXCEPT !.nullable = FALSE], alts)

(* `$` is taken to match before a final line terminator.                   *)
Occurs(f, w) == \E k \in 1 .. Len(w) - Len(f) + 1 : SubSeq(w, k, k + Len(f) - 1) = f

Endings == {<<LF>>, <<CR>>, <<CR, LF>>}
FinalLineTerminatorCanProduce(s, f) ==
  \E ending \in Endings :
    \/ Occurs(f, ending)
    \/ Len(f) = 2 /\ f[1] \in s.last /\ ending[1] = f[2]

AnchoredRegexExcludes(f) ==
  LET s == SummarizeAlts(open[1].alts, f)
  IN  /\ readable /\ FullyAnchored(open[1].alts)
      /\ Len(f) \in {1, 2}
      /\ ~ s.contains /\ ~ FinalLineTerminatorCanProduce(s, f)

-----------------------------------------------------------------------------
(* What matching means: the ends of the matches that begin behind the      *)
(* first i characters of a word.                                           *)
AtTheEnd(w, i) == SubSeq(w, i + 1, Len(w)) \in Endings \cup {<<>>}

RECURSIVE EndsOfAlts(_, _, _)
EndsOfOne(n, w, i) ==
  CASE n.kind = "char"  -> IF i < Len(w) /\ w[i + 1] \in n.set THEN {i + 1} ELSE {}
    [] n.kind = "group" -> EndsOfAlts(n.alts, w, i)
    [] n.zero = "^"     -> IF i = 0 THEN {i} ELSE {}
    [] n.zero = "$"     -> IF AtTheEnd(w, i) THEN {i} ELSE {}
    [] OTHER            -> {i}

EndsOfNode(n, w, i) ==
  LET count == Quantifier[n.q]
      enough == IF count.to < Forever THEN count.to ELSE count.from + Len(w) + 1
      After[k \in 0 .. enough] ==
        IF k = 0 THEN {i} ELSE LET reached == After[k - 1]
                               IN  UNION {EndsOfOne(n, w, j) : j \in reached}
  IN  UNION {After[k] : k \in count.from .. enough}

EndsOfSeq(seq, w, i) ==
  FoldLeft(LAMBDA starts, n : UNION {EndsOfNode(n, w, j) : j \in starts}, {i}, seq)

EndsOfAlts(alts, w, i) == UNION {EndsOfSeq(alts[a], w, i) : a \in DOMAIN alts}

(* A check lets a word pass when the pattern matches somewhere in it.      *)
Accepts(w) == \E i \in 0 .. Len(w) : EndsOfAlts(open[1].alts, w, i) # {}

Words == UNION {[1 .. n -> profile.chars] : n \in 0 .. MaxWord}

(* A pattern that is taken to keep a fragment out accepts nothing that     *)
(* holds it: AnchoredRegexExcludes proves it from first and last           *)
(* characters (regexparse.go:132-243), and the value it clears reaches a   *)
(* sink.                                                                   *)
ExcludedIsAbsent ==
  stage = "judged" =>
    \A f \in profile.fragments :
      AnchoredRegexExcludes(f) => \A w \in Words : Occurs(f, w) => ~ Accepts(w)

(* The shape the scanner looks for, said of the tree: a repeated group     *)
(* that holds a repetition or a choice at any depth, and does not begin    *)
(* with a marker.                                                          *)
RECURSIVE HoldsChoice(_)
HoldsChoice(alts) ==
  \/ Len(alts) > 1
  \/ \E a \in Range(alts) : \E n \in Range(a) : Unbounded(n) \/ (n.text = <<"(">> /\ HoldsChoice(n.alts))

RECURSIVE HasShape(_)
HasShape(alts) ==
  \E a \in Range(alts) : \E n \in Range(a) :
    /\ n.text = <<"(">>
    /\ HasShape(n.alts) \/ (Unbounded(n) /\ HoldsChoice(n.alts) /\ ~ Anchored(n.alts))

(* One pass over the bytes with a stack of flags (redos.go:30-92) finds    *)
(* the shape exactly where the tree has it, however deep: "the nesting     *)
(* that matters can be two levels apart".                                  *)
ScannerFindsTheShape ==
  stage = "judged" /\ Len(open) = 1 => (nested <=> HasShape(open[1].alts))

(* Both verdicts about a pattern hold of the words it matches.             *)
VerdictsHoldOfTheWords == ExcludedIsAbsent /\ ScannerFindsTheShape

-----------------------------------------------------------------------------
(* adjacentAmbiguity's three conditions are said to be "what lets one run  *)
(* of input be divided between them in more than one way"                  *)
(* (regexparse.go:632-634).  How many ways a word is divided:              *)
RECURSIVE WaysOfAlts(_, _, _, _)
WaysOnce(n, w, i, j) ==
  IF n.kind = "group" THEN WaysOfAlts(n.alts, w, i, j)
  ELSE IF j \in EndsOfOne(n, w, i) THEN 1 ELSE 0

SumTo(Ways(_), i, j) == FoldLeft(LAMBDA sum, k : sum + Ways(k), 0, [m \in 1 .. j - i + 1 |-> i + m - 1])

WaysOfNode(n, w, i, j) ==
  LET count == Quantifier[n.q]
      enough == IF count.to < Forever THEN count.to ELSE count.from + Len(w)
      At[k \in 0 .. enough, e \in i .. j] ==
        IF k = 0 THEN IF e = i THEN 1 ELSE 0
        ELSE SumTo(LAMBDA m : At[k - 1, m] * WaysOnce(n, w, m, e), i, e)
  IN  SumTo(LAMBDA k : At[k, j], count.from, enough)

WaysOfSeq(seq, w, i, j) ==
  LET At[k \in 0 .. Len(seq), e \in i .. j] ==
        IF k = 0 THEN IF e = i THEN 1 ELSE 0
        ELSE SumTo(LAMBDA m : At[k - 1, m] * WaysOfNode(seq[k], w, m, e), i, e)
  IN  At[Len(seq), j]

WaysOfAlts(alts, w, i, j) ==
  FoldLeft(LAMBDA sum, seq : sum + WaysOfSeq(seq, w, i, j), 0, alts)

ReportedAdjacentIsAmbiguous ==
  stage = "judged" /\ AdjacentAmbiguity =>
    \E w \in Words : \E j \in 0 .. Len(w) : WaysOfAlts(open[1].alts, w, 0, j) > 1
=============================================================================
