------------------------------- MODULE MCScan -------------------------------
(***************************************************************************)
(* The trees and the command lines Scan is checked on: a few findings at a *)
(* time, in families that each vary what one consolidation or one question *)
(* about a finding turns on.                                               *)
(***************************************************************************)
EXTENDS Scan

CONSTANTS Families, Jobs,
          MaxFindings   \* bound: findings of one kind in one tree

MCOperation == [s \in {"status(503).json", "status(404).json", "exec"} |->
                  IF s = "exec" THEN "exec" ELSE "json"]

Flow ==
  [flow |-> TRUE, rule |-> "exposure", entry |-> "GET /a", file |-> "app",
   line |-> 1, fn |-> "send", symbol |-> "status(503).json",
   source |-> "error", detail |-> "body", path |-> "whole", inner |-> 1, via |-> {"app"},
   conf |-> 2, anchored |-> TRUE, use |-> FALSE, reportable |-> TRUE,
   sites |-> {}]

Shape == [Flow EXCEPT !.flow = FALSE, !.rule = "listing"]

(* One function, two branches: the operation is the same, the symbol, the  *)
(* line and how well the path resolved are not.                            *)
Branches == {[Flow EXCEPT !.line = l, !.inner = l, !.conf = c,
                          !.symbol = IF l = 1 THEN "status(503).json" ELSE "status(404).json"] :
               l \in 1..2, c \in 1..2}

(* One interpolation rendered from two handlers, one through a helper.     *)
Handlers == {[Flow EXCEPT !.entry = e, !.via = v, !.conf = c] :
               e \in {"GET /a", "GET /b"}, v \in {{"app"}, {"app", "helper"}}, c \in 1..2}

(* Both consolidations at once: two handlers that share two lines.         *)
Pages == {[Flow EXCEPT !.entry = e, !.line = l, !.inner = 2, !.conf = c] :
            e \in {"GET /a", "GET /b"}, l \in 1..2, c \in 1..2}

Functions == {[Flow EXCEPT !.fn = g, !.line = l, !.inner = 2] :
                g \in {"send", "other"}, l \in 1..2}

Contexts == {[Flow EXCEPT !.reportable = r, !.anchored = a] : r, a \in BOOLEAN}

(* One line that two channels judge, or two values of one label: the first *)
(* consolidation keeps them apart and the second does not.  Calls at one   *)
(* line that only what was written tells apart.                            *)
Channels == {[Flow EXCEPT !.detail = d, !.conf = c] :
               d \in {"body", "header"}, c \in 1..2}
Written  == {[Shape EXCEPT !.detail = d] : d \in {"body", "header"}}

Shapes == {[Shape EXCEPT !.line = l, !.inner = l, !.use = (l = 2), !.file = f] :
             l \in 1..2, f \in {"app", "helper"}}

Clean == [flows |-> <<>>, others |-> <<>>, declared |-> {}, unreached |-> {},
          lacks |-> {}, expectation |-> "met"]

Some(S) == UNION {[1..n -> S] : n \in 0..MaxFindings}

Trees(family) ==
  CASE family = "branches"  -> {[Clean EXCEPT !.flows = s] : s \in Some(Branches)}
    [] family = "handlers"  -> {[Clean EXCEPT !.flows = s, !.declared = d] :
                                  s \in Some(Handlers),
                                  d \in {{}, {<<"exposure", "GET /b">>}}}
    [] family = "pages"     -> {[Clean EXCEPT !.flows = s, !.declared = {<<"exposure", "GET /b">>}] :
                                  s \in Some(Pages)}
    [] family = "functions" -> {[Clean EXCEPT !.flows = s] : s \in Some(Functions)}
    [] family = "channels"  -> {[Clean EXCEPT !.flows = s] : s \in Some(Channels)}
                                 \cup {[Clean EXCEPT !.others = s] : s \in Some(Written)}
    [] family = "contexts"  -> {[Clean EXCEPT !.flows = s, !.expectation = x] :
                                  s \in {<<c>> : c \in Contexts},
                                  x \in {"met", "deviates", "violated"}}
    [] family = "shapes"    -> {[Clean EXCEPT !.others = s, !.flows = <<Flow>>,
                                              !.unreached = u] :
                                  s \in Some(Shapes), u \in SUBSET {"helper"}}
    [] family = "gaps"      -> {[Clean EXCEPT !.flows = s, !.lacks = g] :
                                  s \in {<<>>, <<Flow>>},
                                  g \in SUBSET {"dataflow", "surface"}}

AllTrees == UNION {Trees(family) : family \in Families}

(* By name, so that TLC computes the set once.                             *)
MCTree == AllTrees

Judging == [write |-> FALSE, baseline |-> FALSE, scoped |-> FALSE,
            changed |-> {}, failOn |-> "gating"]

JobNamed ==
  [record   |-> [Judging EXCEPT !.write = TRUE],
   update   |-> [Judging EXCEPT !.write = TRUE, !.baseline = TRUE],
   judge    |-> Judging,
   compare  |-> [Judging EXCEPT !.baseline = TRUE],
   review   |-> [Judging EXCEPT !.scoped = TRUE, !.changed = {"helper"}],
   any      |-> [Judging EXCEPT !.failOn = "any"],
   never    |-> [Judging EXCEPT !.failOn = "never"]]

AllJobs == {JobNamed[j] : j \in Jobs}

MCJob == AllJobs
=============================================================================
