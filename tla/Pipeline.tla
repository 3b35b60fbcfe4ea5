------------------------------ MODULE Pipeline ------------------------------
(***************************************************************************)
(* What a team is promised of `sast` in its pipeline, without how a run    *)
(* comes to it: a run judges the code as it stands in one step, or records *)
(* it, and in between only the code changes.  A recording is either whole  *)
(* or it does not read; a verdict follows from the code, the record and    *)
(* the command line, and a run that stops early leaves no verdict.         *)
(***************************************************************************)
CONSTANTS
  Code,      \* the states the code can be in
  Command,   \* the command lines
  Name,      \* what a finding is recognised by in a later run
  Report     \* for each code, what the analyses have to say of it: one of Says

(* names: of what is reported.  places: for each finding, the names of all *)
(* that may be recorded for it.  grave: the names that can fail a run.     *)
(* sure: for each finding made with certainty, the names of all that may   *)
(* answer for it.  excused: the names some finding of which fails no run.  *)
Says == [names: SUBSET Name, places: SUBSET SUBSET Name, grave: SUBSET Name,
         sure: SUBSET SUBSET Name, excused: SUBSET Name,
         complete: BOOLEAN, deviates: BOOLEAN, violated: BOOLEAN]

VARIABLES
  code,      \* the code now
  command,   \* what the run in progress, or the last one, was asked
  record,    \* the baseline file
  running,   \* whether a run is in progress
  outcome    \* how the last run ended; "none" while there is nothing to say

vars == <<code, command, record, running, outcome>>

Meets(S, T) == S \cap T # {}

Known == IF command.baseline THEN record.names ELSE {}

(* Failing names a finding nobody recorded, or a broken expectation.       *)
MayFail ==
  \/ command.failOn = "any" /\ (Report[code].names # {} \/ Report[code].deviates)
  \/ command.failOn = "gating" /\ (Report[code].violated \/ Report[code].grave \ Known # {})

(* Passing has an answer for every finding made with certainty.            *)
MayPass ==
  /\ command.failOn = "any" => Report[code].names = {} /\ ~ Report[code].deviates
  /\ command.failOn = "gating" =>
       /\ ~ Report[code].violated
       /\ ~ command.scoped =>
            \A G \in Report[code].sure : Meets(G, Known \cup Report[code].excused)
-----------------------------------------------------------------------------
Init ==
  /\ code \in Code
  /\ command \in Command
  /\ record = [state |-> "absent", names |-> {}]
  /\ running = FALSE
  /\ outcome = "none"

Change ==
  /\ ~ running
  /\ code' \in Code /\ outcome' = "none"
  /\ UNCHANGED <<command, record, running>>

Begin ==
  /\ ~ running
  /\ command' \in Command /\ running' = TRUE /\ outcome' = "none"
  /\ UNCHANGED <<code, record>>

Conclude ==
  /\ running /\ running' = FALSE
  /\ ~ command.write
  /\ command.baseline => record.state = "whole"
  /\ \/ ~ Report[code].complete /\ outcome' = "notApplicable"
     \/ Report[code].complete /\ MayFail /\ outcome' = "gating"
     \/ Report[code].complete /\ MayPass /\ outcome' = "clean"
  /\ UNCHANGED <<code, command, record>>

(* While a record is being written the file does not read.                 *)
Truncate ==
  /\ running /\ command.write
  /\ record' = [state |-> "torn", names |-> {}]
  /\ UNCHANGED <<code, command, running, outcome>>

(* What is recorded is reported, and nothing reported goes without.  The   *)
(* run may still be killed behind it.                                      *)
Save ==
  /\ running /\ running' = FALSE
  /\ command.write /\ record.state = "torn"
  /\ \E names \in SUBSET Report[code].names :
       /\ \A G \in Report[code].places : Meets(G, names)
       /\ record' = [state |-> "whole", names |-> names]
  /\ outcome' \in {"clean", "killed"}
  /\ UNCHANGED <<code, command>>

Stop ==
  /\ running /\ running' = FALSE
  /\ outcome' \in {"error", "killed"}
  /\ UNCHANGED <<code, command, record>>

Next == Change \/ Begin \/ Conclude \/ Truncate \/ Save \/ Stop

Spec == Init /\ [][Next]_vars
=============================================================================
