------------------------------- MODULE Guards -------------------------------
(***************************************************************************)
(* core/internal/guard, the rules about one function: what precedes an     *)
(* operation, and what is left undone on one of the ways to it.  Every     *)
(* rule decides from the block graph and the calls placed on it; the       *)
(* specification decides the same way and then runs the function,          *)
(* remembering every statement, so that what a rule said, and what it kept *)
(* quiet about, can be held against what executions do.                    *)
(***************************************************************************)
EXTENDS Runs

CONSTANTS Value,     \* the values of a function
          NoValue    \* an absent receiver, argument or result

(* What a call does to a rule: the reading of its name, status, event or   *)
(* mode by the vocabulary of the model.                                    *)
Role == {"refuse", "delegate", "raise", "work", "decide", "record", "retrieve",
         "append", "open", "write", "chmod", "copy", "remove", "send"}

ASSUME FunctionAssumption ==
  \A f \in LoweredFn :
    LET Own == {f.order[i] : i \in DOMAIN f.order}
    IN  /\ f.calls \in Seq([does : Role, block : Own, line : Nat,
                            recv : Value \cup {NoValue}, args : Seq(Value),
                            result : Value \cup {NoValue},
                            says : STRING, exits : SUBSET {"return", "throw"}])
        /\ f.flows \in Seq([from : Value, to : Value, assigns : BOOLEAN,
                            block : Own, line : Nat])
        /\ f.writes \in Seq([base : Value, fromItself : BOOLEAN,
                             block : Own, line : Nat])
        /\ f.base \in [Value -> Value \cup {NoValue}]  \* what a property is read from
        /\ f.locals \subseteq Value                    \* named by the program
        /\ f.inbound \subseteq Value                   \* the request's own headers
        /\ f.leaves \in [Own -> {"", "return", "throw"}]
        /\ f.anchored \in BOOLEAN                      \* EntryOf finds an entry point
        /\ f.restrictive \in BOOLEAN                   \* named after a restriction
        /\ f.returnsValue \in BOOLEAN

VARIABLES
  said,      \* the reports, once the rules have run
  judged     \* have they?

all == <<vars, said, judged, run>>

-----------------------------------------------------------------------------
Calls  == DOMAIN fn.calls
Call(i) == fn.calls[i]
Doing(roles) == {i \in Calls : Call(i).does \in roles}

ArgsOf(i) == {Call(i).args[k] : k \in DOMAIN Call(i).args}
UsesAny(i, values) == (ArgsOf(i) \cup {Call(i).recv}) \cap values # {}

(* `before` and `earlier`: the call at the first location.                 *)
First(calls) == CHOOSE i \in calls : \A j \in calls : Call(i).line <= Call(j).line

(* Defect: a call in a later block is taken to run later on every way.     *)
OrderedByLine(i, j) == Call(i).line < Call(j).line

(* `ordered`: some way runs the first call and then the second.            *)
Ordered(i, j) ==
  /\ {Call(i).block, Call(j).block} \subseteq reached
  /\ IF Call(i).block = Call(j).block
     THEN Call(i).line < Call(j).line
     ELSE Reaches(Call(i).block, Call(j).block)

(* sameAssignedValue: everything a chain of plain assignments ties to v.   *)
Assigned(v) ==
  LET Tie[n \in 0 .. Cardinality(Value)] ==
        IF n = 0 THEN {v}
        ELSE LET known == Tie[n - 1]
                 Edges == {fn.flows[k] : k \in {j \in DOMAIN fn.flows : fn.flows[j].assigns}}
             IN  known \cup {e.to : e \in {x \in Edges : x.from \in known}}
                       \cup {e.from : e \in {x \in Edges : x.to \in known}}
  IN  IF v = NoValue THEN {} ELSE Tie[Cardinality(Value)]

-----------------------------------------------------------------------------
(* A refusal that does not stop the work.  neverReturns: every exit of the *)
(* callee throws.                                                          *)
NeverReturns(i) == Call(i).exits = {"throw"}
IsDelegation(i) == Call(i).does = "delegate" /\ Call(i).args # <<>>
EndsRequest(i)  == NeverReturns(i) \/ IsDelegation(i) \/ Call(i).does = "raise"

Terminal == {Call(i).block : i \in {j \in Calls : EndsRequest(j)}}

(* Defect: work that may follow counts as work that follows.               *)
WorkAfterSome(b) ==
  {i \in Calls : Call(i).block # b /\ Reaches(b, Call(i).block)}

(* The calls of the blocks every way out passes; the report names the      *)
(* first of them.                                                          *)
WorkAfter(b) ==
  {i \in Calls : Call(i).block # b /\ PostDominates(Call(i).block, b)}

Refused ==
  {<<"refused", r, First(WorkAfter(Call(r).block))>> :
     r \in {i \in Doing({"refuse"}) :
              Call(i).block \notin Terminal /\ WorkAfter(Call(i).block) # {}}}

-----------------------------------------------------------------------------
(* A control asked on one branch only.  variablesOf: the variable a value  *)
(* is a part of, at most six property steps up.                            *)
PropertySteps == 6
Root(v) ==
  LET Up[n \in 0 .. PropertySteps] ==
        IF n = 0 THEN v
        ELSE LET below == Up[n - 1]
             IN  IF below = NoValue \/ below \in fn.locals THEN below ELSE fn.base[below]
      top == Up[PropertySteps]
  IN  IF top \in fn.locals THEN top ELSE NoValue

AssigningBlocks(x) ==
  {fn.flows[k].block : k \in {j \in DOMAIN fn.flows : fn.flows[j].assigns /\ fn.flows[j].to = x}}

(* carries: the variable, its parts, and what they flow into in eight      *)
(* rounds.                                                                 *)
CarryRounds == 8
Carries(x) ==
  LET On[n \in 0 .. CarryRounds] ==
        IF n = 0 THEN {v \in Value : Root(v) = x}
        ELSE LET known == On[n - 1]
             IN  known \cup {fn.flows[k].to :
                               k \in {j \in DOMAIN fn.flows : fn.flows[j].from \in known}}
  IN  On[CarryRounds]

Decides  == Doing({"decide"})
Operates == Doing(Role \ {"decide", "record", "retrieve"})

Siblings(check, x) ==
  {b \in AssigningBlocks(x) \cap reached :
     /\ b # Call(check).block
     /\ ~ Dominates(Call(check).block, b)
     /\ ~ Dominates(b, Call(check).block)}

(* Defect: a decider that some way to the operation passes covers it.      *)
CoveredBySome(check, op) ==
  \E d \in Decides : Call(d).block # Call(check).block /\ Reaches(Call(d).block, Call(op).block)

CoveredBy(check, op) ==
  \E d \in Decides : Call(d).block # Call(check).block /\ Dominates(Call(d).block, Call(op).block)

(* branchFinding: the operations the check can reach but does not stand    *)
(* over, that an assignment beside it reaches as well.                     *)
Unasked(check, x) ==
  {op \in Operates :
     /\ Call(op).block \in reached \ {Call(check).block}
     /\ UsesAny(op, Carries(x))
     /\ ~ Dominates(Call(check).block, Call(op).block)
     /\ Reaches(Call(check).block, Call(op).block)
     /\ ~ CoveredBy(check, op)
     /\ \E b \in Siblings(check, x) : b = Call(op).block \/ Reaches(b, Call(op).block)}

OmittedOnBranch ==
  {<<"unasked", Root(p[2]), First(Unasked(p[1], Root(p[2])))>> :
     p \in {q \in Decides \X Value :
              /\ fn.anchored
              /\ Call(q[1]).block \in reached /\ IsGuard(Call(q[1]).block)
              /\ q[2] \in ArgsOf(q[1]) /\ Root(q[2]) # NoValue
              /\ Unasked(q[1], Root(q[2])) # {}}}

-----------------------------------------------------------------------------
(* A restriction built and then left behind: the exits that complain and   *)
(* return.                                                                 *)
Complaints(b) == {i \in Doing({"record"}) : Call(i).block = b}
ComplainingExits ==
  {b \in Exits \cap reached : fn.leaves[b] = "return" /\ Complaints(b) # {}}

(* applicationOf: the first call the collection is handed to.              *)
Applications(collection) ==
  {i \in Calls : /\ Call(i).block \in reached
                 /\ Call(i).recv # collection
                 /\ collection \in ArgsOf(i)}

(* Defect: the application must come before the exit that abandons it.     *)
AbandonsAfterUse(add, b, apply) ==
  Reaches(Call(add).block, b) /\ Reaches(Call(apply).block, b)

Abandons(add, b, apply) ==
  Reaches(Call(add).block, b) /\ Reaches(Call(add).block, Call(apply).block)

Leaving(add, b) ==
  LET uses == Applications(Call(add).recv)
  IN  /\ Call(add).recv \in fn.locals /\ Call(add).block \in reached
      /\ uses # {}
      /\ b \notin {Call(First(uses)).block, Call(add).block}
      /\ Abandons(add, b, First(uses))

DiscardedRestriction ==
  {<<"abandoned", b>> : b \in
     {x \in ComplainingExits :
        /\ ~ fn.returnsValue /\ fn.anchored /\ fn.restrictive
        /\ \E add \in Doing({"append"}) : Leaving(add, x)}}

-----------------------------------------------------------------------------
(* A file made private after the private data was written: the first write *)
(* through the handle, and a restriction of the same path behind it.       *)
WritesThrough(o) ==
  {w \in Doing({"write"}) : Call(w).recv \in Assigned(Call(o).result) /\ Ordered(o, w)}
FirstWrite(o) == CHOOSE w \in WritesThrough(o) : \A v \in WritesThrough(o) : w <= v

(* Defect: the path must be the very value, not one assigned from it.      *)
RestrictsVeryPath(o, c) == Call(c).args[1] = Call(o).args[1]

RestrictsPath(o, c) == Call(c).args[1] \in Assigned(Call(o).args[1])

LateFileMode ==
  {<<"late", o>> : o \in
     {i \in Doing({"open"}) :
        /\ fn.anchored /\ Call(i).args # <<>> /\ Call(i).result # NoValue
        /\ WritesThrough(i) # {}
        /\ \E c \in Doing({"chmod"}) :
             RestrictsPath(i, c) /\ Ordered(FirstWrite(i), c)}}

-----------------------------------------------------------------------------
(* The request's credentials sent to an authority that was written over.   *)
Credentials == {"cookie", "authorization"}

(* objectEntryBehind and inboundHeadersSource: the collection sent is the  *)
(* result of a copy of the request's own headers.                          *)
InboundCopy(headers) ==
  \E c \in Doing({"copy"}) :
    /\ Call(c).result # NoValue /\ headers \in Assigned(Call(c).result)
    /\ Call(c).args # <<>> /\ Call(c).args[1] \in fn.inbound

(* Defect: a write on one of the ways to the call is enough.               *)
WriteOrderedSomewhere(k, out) ==
  LET w == fn.writes[k]
  IN  IF w.block = Call(out).block THEN w.line < Call(out).line
      ELSE Reaches(w.block, Call(out).block)

WriteOrdered(k, out) ==
  LET w == fn.writes[k]
  IN  /\ Dominates(w.block, Call(out).block)
      /\ w.block = Call(out).block => w.line < Call(out).line

ChangedAuthority(out) ==
  \E k \in DOMAIN fn.writes :
    /\ fn.writes[k].base \in Assigned(Call(out).args[1])
    /\ WriteOrdered(k, out)
    /\ ~ fn.writes[k].fromItself

Removed(out) ==
  {Call(c).says : c \in {i \in Doing({"remove"}) :
     Call(i).recv \in Assigned(Call(out).args[2]) /\ Ordered(i, out)}} \cap Credentials

ForwardedCredentials ==
  {<<"forwarded", out>> : out \in
     {i \in Doing({"send"}) :
        /\ Len(Call(i).args) = 2
        /\ InboundCopy(Call(i).args[2])
        /\ ChangedAuthority(i)
        /\ Removed(i) # Credentials}}

-----------------------------------------------------------------------------
GdInit ==
  /\ Analysed
  /\ said = {} /\ judged = FALSE
  /\ RunInit

(* The iteration of Analyze over this function.                            *)
Judge ==
  /\ ~ judged
  /\ judged' = TRUE
  /\ said' = Refused \cup OmittedOnBranch \cup DiscardedRestriction
               \cup LateFileMode \cup ForwardedCredentials
  /\ UNCHANGED <<vars, run>>

(* The program: a call that throws or never returns ends the run, any      *)
(* other statement hands on to the next one, ...                           *)
Stopped ==
  \E k \in DOMAIN trace : /\ trace[k][1] = "call"
                          /\ Call(trace[k][2]).does = "raise" \/ NeverReturns(trace[k][2])

Execute == judged /\ ~ Stopped /\ RunStatement /\ UNCHANGED <<vars, said, judged>>

(* ... and at the end of a block control moves on.                         *)
Leave == judged /\ ~ Stopped /\ RunBranch /\ UNCHANGED <<vars, said, judged>>

GdNext == Judge \/ Execute \/ Leave
GdSpec == GdInit /\ [][GdNext]_all

-----------------------------------------------------------------------------
Returned == judged /\ ~ Stopped /\ here \in Exits /\ AtEnd

(* A refusal is reported only where "the response said no, the operation   *)
(* said yes" (guard.go:19): a run that refused there and comes to its end  *)
(* has done the work the report names after the refusal.                   *)
RefusedWorkRuns ==
  Returned =>
    \A s \in said : s[1] = "refused" =>
      \A k \in DOMAIN trace : trace[k] = <<"call", s[2]>> =>
        \E j \in k + 1 .. Len(trace) : trace[j] = <<"call", s[3]>>

(* What the rule is for (omitted.go:306): a run that assigned the variable *)
(* beside the branch a guard asks about it on, and operates on it with no  *)
(* control asked on the way, is not passed over in silence.  An operation  *)
(* in the block of the branch itself is left alone (omitted.go:330), and a *)
(* control in the operation's own block counts even behind it (:382).      *)
UnaskedWayIsReported ==
  \A op \in Operates : judged /\ fn.anchored /\ Now(<<"call", op>>) =>
    \A check \in Decides : \A v \in ArgsOf(check) :
      LET x == Root(v)
      IN  (/\ x # NoValue /\ IsGuard(Call(check).block) /\ Call(check).block \in reached
           /\ Call(op).block # Call(check).block
           /\ UsesAny(op, Carries(x))
           /\ \A d \in Decides : ~ Ran(<<"call", d>>) /\ Call(d).block # Call(op).block
           /\ Reaches(Call(check).block, Call(op).block)
           /\ \E k \in DOMAIN trace :
                /\ trace[k][1] = "flow"
                /\ LET f == fn.flows[trace[k][2]]
                   IN  /\ f.assigns /\ f.to = x
                       /\ f.block # Call(check).block
                       /\ Call(check).block \notin CutFromEntry(f.block))
          => \E s \in said : s[1] = "unasked" /\ s[2] = x

(* "Leaving without attaching it does not narrow the query, it widens it"  *)
(* (discarded.go:22): a run that added to the collection and then returned *)
(* from a branch that complains, with the collection still to be handed    *)
(* over to the call that applies it, is reported.                          *)
AbandonedRestrictionIsReported ==
  Returned /\ fn.anchored /\ fn.restrictive /\ ~ fn.returnsValue =>
    \A add \in Doing({"append"}) :
      LET c == Call(add).recv
      IN  (/\ Ran(<<"call", add>>) /\ c \in fn.locals
           /\ here \in ComplainingExits \ {Call(add).block}
           /\ Applications(c) # {}
           /\ \A apply \in Applications(c) :
                /\ ~ Ran(<<"call", apply>>)
                /\ Reaches(Call(add).block, Call(apply).block)
                /\ here # Call(apply).block)
          => \E s \in said : s[1] = "abandoned" /\ s[2] = here

(* "Restricted only later" (guard.go:141): a run that created a file at    *)
(* the process umask, wrote to it and restricted its path afterwards, is   *)
(* reported.                                                               *)
LateRestrictionIsReported ==
  \A c \in Doing({"chmod"}) : judged /\ fn.anchored /\ Now(<<"call", c>>) =>
    \A o \in Doing({"open"}), w \in Doing({"write"}) :
      (/\ Call(w).recv \in Assigned(Call(o).result)
       /\ Call(c).args[1] \in Assigned(Call(o).args[1])
       /\ \E k \in DOMAIN trace : /\ trace[k] = <<"call", w>>
                                  /\ Before(k, {<<"call", o>>}))
      => <<"late", o>> \in said

(* A run that leaves out what the function promises elsewhere is reported: *)
(* the question, the restriction it built, or the one it applied too late  *)
(* (omitted.go:312, discarded.go:22, guard.go:141).                        *)
LeftUndoneIsReported ==
  UnaskedWayIsReported /\ AbandonedRestrictionIsReported /\ LateRestrictionIsReported

(* "The collection reaches the call without both Cookie and Authorization  *)
(* removed", to an authority that was replaced                             *)
(* (forwarded_credentials.go:188): the first time a run sends what is      *)
(* reported, it has written the authority over, and one of the credentials *)
(* is still there.                                                         *)
ForwardCarriesCredentials ==
  \A out \in Doing({"send"}) :
    (/\ judged /\ Now(<<"call", out>>) /\ <<"forwarded", out>> \in said
     /\ ~ Before(Len(trace), {<<"call", out>>}))
    => /\ \E k \in DOMAIN fn.writes : ~ fn.writes[k].fromItself /\ Ran(<<"write", k>>)
       /\ \E name \in Credentials :
            \A i \in Doing({"remove"}) :
              Call(i).says = name /\ Call(i).recv \in Assigned(Call(out).args[2])
                => ~ Ran(<<"call", i>>)
-----------------------------------------------------------------------------
(* What the rules suppose of a function, and its block graph does not say: *)
(* every statement stands where its list places it, and those of a block   *)
(* run in the order of their locations.  A call nested in the arguments of *)
(* another one runs before it and stands after it, so that `before`        *)
(* (guard.go:594) tells the order of calls that are statements.            *)
Statements(f) ==
  ({"call"} \X DOMAIN f.calls) \cup ({"flow"} \X DOMAIN f.flows) \cup ({"write"} \X DOMAIN f.writes)

SiteOf(f, s) == IF s[1] = "call" THEN f.calls[s[2]]
                ELSE IF s[1] = "flow" THEN f.flows[s[2]] ELSE f.writes[s[2]]

StandsWhereListed(f) ==
  /\ \A b \in DOMAIN f.text : \A n \in DOMAIN f.text[b] :
       f.text[b][n] \in Statements(f) /\ SiteOf(f, f.text[b][n]).block = b
  /\ \A s \in Statements(f) :
       \E n \in DOMAIN f.text[SiteOf(f, s).block] : f.text[SiteOf(f, s).block][n] = s

RunsInLocationOrder(f) ==
  \A b \in DOMAIN f.text : \A m, n \in DOMAIN f.text[b] :
    m < n /\ f.text[b][m][1] # "flow" /\ f.text[b][n][1] # "flow"
      => SiteOf(f, f.text[b][m]).line < SiteOf(f, f.text[b][n]).line

RunsAsWritten(f) == StandsWhereListed(f) /\ RunsInLocationOrder(f)

(* A file of the function is opened by its path, written to by one call,   *)
(* and where two of these calls share a block they are listed in that      *)
(* order: the rule asks the first write it finds, whichever one a run came *)
(* by, and in the block of a loop an earlier location may run later.       *)
WritesEachFileOnce ==
  \A o \in Doing({"open"}), w \in Doing({"write"}), c \in Doing({"chmod"}) :
    Call(w).recv \in Assigned(Call(o).result) /\ RestrictsPath(o, c) =>
      /\ Call(o).args # <<>>
      /\ \A v \in Doing({"write"}) : Call(v).recv \in Assigned(Call(o).result) => v = w
      /\ Call(o).block = Call(w).block => Call(o).line < Call(w).line
      /\ Call(w).block = Call(c).block => Call(w).line < Call(c).line

-----------------------------------------------------------------------------
(* What comments of the code say and the code does not do.                 *)

(* discarded.go:113: "The abandoned path leaves AFTER something was added  *)
(* and BEFORE the point that attaches it": no run that adds and comes to a *)
(* reported exit has handed the collection over since.                     *)
AbandonedBeforeAttached ==
  Returned =>
    \A s \in said : s = <<"abandoned", here>> =>
      \A add \in Doing({"append"}), k \in DOMAIN trace :
        trace[k] = <<"call", add>> =>
          \A apply \in Applications(Call(add).recv), j \in k + 1 .. Len(trace) :
            trace[j] # <<"call", apply>>

(* forwarded_credentials.go:16: "those fields are present unless the       *)
(* program mutates the collection to delete them": a run that sends them   *)
(* to an authority it wrote over, with nothing deleted, is reported.       *)
SilentForwardIsStripped ==
  \A out \in Doing({"send"}) :
    (/\ judged /\ Now(<<"call", out>>) /\ <<"forwarded", out>> \notin said
     /\ Len(Call(out).args) = 2 /\ InboundCopy(Call(out).args[2]) /\ ChangedAuthority(out))
    => \E i \in Doing({"remove"}) : Ran(<<"call", i>>)
=============================================================================
