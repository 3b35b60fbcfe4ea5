------------------------------ MODULE MCInputs ------------------------------
(***************************************************************************)
(* What the analyses are given, on four independent parts of a program:    *)
(* applications for Expectation (a router of five routes with what a team  *)
(* mounts and declares, two routers that answer at one address, call       *)
(* graphs with handlers a request, a clock or nothing starts), pages and   *)
(* helpers for Flow, handlers for Credential, and the programs of          *)
(* SeedIntakes for Seeds.  A behaviour is of one part; the others stand    *)
(* still at an empty program.                                              *)
(***************************************************************************)
EXTENDS Expectation, Flow, Credential, SeedIntakes

CONSTANTS
  ApplicationFamilies,
  SiteFamilies,
  HandlerFamilies

VARIABLE part   \* "expectation", "flow", "credential" or "seeds"

-----------------------------------------------------------------------------
(* Applications.                                                           *)
Fn_(name, module) ==
  [name |-> name, module |-> module, calls |-> <<>>, reads |-> FALSE, secret |-> FALSE, pageParam |-> FALSE]
Call_(kind, to, written, passes) ==
  [kind |-> kind, to |-> to, method |-> "", symbol |-> "", written |-> written, passes |-> passes]
Module_ == [test |-> FALSE, provenance |-> "", page |-> FALSE]
Route_(fn, method, path, mount) ==
  [fn |-> fn, module |-> "routes", kind |-> "http", mount |-> mount, method |-> method, path |-> path,
   trust |-> "", chain |-> <<>>]
Code_(fns, modules, middleware, routes) ==
  [fns |-> fns, modules |-> modules, middleware |-> middleware, routes |-> routes,
   kindOf |-> [requireAuth |-> "authentication", csurf |-> "csrf", limiter |-> "rate-limit"],
   expectationRan |-> TRUE, taintRan |-> TRUE, skipped |-> {}, taintCWEs |-> {"CWE-78"}]
Silent == [rules |-> {}, controls |-> <<>>, drafts |-> {}]
Binding_(ref, scope) == [ref |-> ref, scope |-> scope]
Rule_ == [method |-> "", prefix |-> <<>>, group |-> <<>>, public |-> FALSE, requires |-> {}, reason |-> TRUE]

Gate == Binding_("gate", "route")
Team == [rules |-> {}, controls |-> <<[name |-> "gate", kind |-> "authentication", reason |-> TRUE]>>,
         drafts |-> {[Rule_ EXCEPT !.method = "POST", !.prefix = <<"d">>, !.public = TRUE],
                     [Rule_ EXCEPT !.group = <<"http", "routes", "/">>, !.requires = {"authentication"}],
                     [Rule_ EXCEPT !.group = <<"http", "admin", "/">>, !.public = TRUE]}]

-----------------------------------------------------------------------------
(* Five routes of one router, the second of which resolves a record from a *)
(* secret; the fifth comes and goes.  Beside four of them, a sixth stands  *)
(* on another router of the same module.                                   *)
Five == <<Route_(1, "GET", <<"a">>, "/"), Route_(2, "POST", <<"b">>, "/"), Route_(3, "GET", <<"login">>, "/"),
          Route_(4, "POST", <<"d">>, "/"), Route_(5, "POST", <<"e">>, "/"), Route_(1, "GET", <<"f">>, "/open")>>

RouterCode(middleware, routes) ==
  Code_([i \in 1 .. 5 |-> [Fn_("handler", "routes") EXCEPT !.secret = i = 2]],
        [m \in {"routes"} |-> Module_], middleware, routes)

PopulationFamily ==
  {[code |-> RouterCode({Gate}, {Five[5]}), entries |-> {Five[i] : i \in 1 .. 4}, policy |-> Team],
   [code |-> RouterCode({Binding_("csurf", "route"), Binding_("csurf", "app")}, {}),
    entries |-> {Five[i] : i \in 1 .. 4} \cup {[Five[6] EXCEPT !.chain = <<Binding_("csurf", "route")>>]},
    policy |-> Silent]}

(* Two modules whose routers answer at one address.                        *)
TwinsFamily ==
  {[code |-> Code_([i \in 1 .. 6 |-> Fn_("handler", IF i <= 3 THEN "routes" ELSE "admin")],
                   [m \in {"routes", "admin"} |-> Module_], {Gate}, {}),
    entries |-> {[Route_(i, "GET", <<p>>, "/") EXCEPT !.chain = <<Gate>>] :
                   <<i, p>> \in {<<1, "a">>, <<2, "b">>, <<4, "a">>, <<5, "b">>}}
                \cup {Route_(3, "GET", <<"c">>, "/"), Route_(6, "GET", <<"c">>, "/")},
    policy |-> Team]}

-----------------------------------------------------------------------------
(* What may be enumerated of the programs below.                           *)
Routes ==
  {Route_(1, "GET", <<"list">>, ""), [Route_(2, "", <<>>, "") EXCEPT !.trust = "schedule", !.kind = "job"],
   [Route_(4, "GET", <<"other">>, "") EXCEPT !.module = "more"],
   [Route_(0, "GET", <<"page">>, "") EXCEPT !.module = "page"], Route_(0, "GET", <<"ping">>, "")}

(* 1 a handler, 2 and 3 what it may call or hand over, 4 a handler of      *)
(* another module, 5 a page's.                                             *)
Graph(first, second, fourth, place) ==
  Code_(<<[Fn_("list", "routes") EXCEPT !.calls = first, !.reads = TRUE],
          [Fn_("load", "routes") EXCEPT !.calls = second, !.reads = TRUE],
          [Fn_("clean", "routes") EXCEPT !.reads = TRUE],
          [Fn_("other", "more") EXCEPT !.calls = fourth, !.reads = TRUE],
          [Fn_("show", "page") EXCEPT !.pageParam = TRUE]>>,
        [m \in {"routes", "more", "page"} |->
           CASE m = "routes" -> Module_ [] m = "more" -> place [] m = "page" -> [Module_ EXCEPT !.page = TRUE]],
        {}, Routes)

Calls_ == {<<>>, <<Call_("local", 2, "load", {})>>, <<Call_("local", 3, "clean", {})>>,
           <<Call_("unresolved", 0, "clean", {})>>, <<Call_("external", 0, "on", {3})>>,
           <<Call_("unresolved", 0, "load", {}), Call_("local", 2, "load", {3})>>}

EnumerationFamily ==
  {[code |-> Graph(first, second, fourth, place), entries |-> {}, policy |-> Silent] :
     first \in Calls_, second \in {<<>>, <<Call_("local", 3, "clean", {})>>, <<Call_("unresolved", 0, "other", {})>>},
     fourth \in {<<>>, <<Call_("unresolved", 0, "clean", {})>>, <<Call_("local", 2, "load", {3})>>},
     place \in {[Module_ EXCEPT !.test = TRUE], [Module_ EXCEPT !.provenance = "vendored"],
                [Module_ EXCEPT !.provenance = "generated"]}}

MCApplications ==
  {CASE fam = "population" -> PopulationFamily
     [] fam = "twins" -> TwinsFamily
     [] fam = "enumeration" -> EnumerationFamily : fam \in ApplicationFamilies}

-----------------------------------------------------------------------------
(* Pages that extend and include each other inside loops, helpers that     *)
(* render what their callers name, and contexts filled in along the usual  *)
(* ways.                                                                   *)
Page == <<"templates", "page">>
Base == <<"templates", "base">>
Row  == <<"app", "templates", "row">>
Deep == <<"app", "templates", "deep">>
Copy == <<"lib", "row">>

Loop_(name, over) == [name |-> name, over |-> over]
Read_(loc, path, loops) ==
  [loc |-> loc, path |-> path, loops |-> loops, context |-> "", escaped |-> FALSE, removed |-> FALSE]
Include_(view, loops) == [view |-> view, loops |-> loops]
View_(extends, includes, reads) == [extends |-> extends, includes |-> includes, reads |-> reads]

Do_(op, on, with, made, keys) == [op |-> op, on |-> on, with |-> with, made |-> made, keys |-> keys]
Render_(fn, view, contexts, bindings) ==
  [fn |-> fn, view |-> view, fromParam |-> FALSE, forwards |-> FALSE, contexts |-> contexts, bindings |-> bindings]
Application(views, fns, renders, calls) == [views |-> views, fns |-> fns, renders |-> renders, calls |-> calls]

(* Pages.  A row is included in a loop, once or twice, and includes a view *)
(* of its own that may lead back.                                          *)
RowLoops  == {<<>>, <<Loop_("item", <<"items">>)>>, <<Loop_("item", <<"data", "rows">>)>>,
              <<Loop_("group", <<"data">>), Loop_("item", <<"items">>)>>}
DeepLoops == {<<>>, <<Loop_("cell", <<"item", "cells">>)>>, <<Loop_("cell", <<"title">>)>>}
Backs     == {<<>>, <<Include_(Row, <<>>)>>, <<Include_(Page, <<>>)>>}

PageViews(extends, rows, deep, back) ==
  (Page :> View_(extends, rows,
                 <<Read_(1, <<"title">>, <<>>), Read_(2, <<"item", "name">>, <<Loop_("item", <<"items">>)>>)>>)) @@
  (Base :> View_(<<Page>>, <<>>, <<Read_(3, <<"title">>, <<>>)>>)) @@
  (Row  :> View_(<<>>, <<Include_(Deep, deep)>>, <<Read_(4, <<"item", "name">>, <<>>), Read_(5, <<"group">>, <<>>)>>)) @@
  (Deep :> View_(<<>>, back, <<Read_(6, <<"cell">>, <<>>), Read_(7, <<"item">>, <<>>)>>))

Bindings == {("title" :> "v1") @@ ("items" :> "v2") @@ ("data" :> "v3"), ("items" :> "v2") @@ ("cell" :> "v3")}

PageOf(views, bindings) ==
  Application(views, [f \in {"handler"} |-> <<>>], <<Render_("handler", Page, <<>>, bindings)>>, <<>>)

PageSites ==
  {PageOf(PageViews(extends, rows, deep, back), bindings) :
     extends \in {<<>>, <<Base>>},
     rows \in {<<Include_(Row, l)>> : l \in RowLoops} \cup
              {<<Include_(Row, l), Include_(Row, m)>> : l, m \in RowLoops},
     deep \in DeepLoops, back \in Backs, bindings \in Bindings}

(* A view that includes itself for the elements of what it was given.      *)
TreeSites ==
  {PageOf((Page :> View_(<<>>, <<Include_(Page, <<Loop_("node", <<"node", "children">>)>>)>>,
                         <<Read_(1, <<"node", "name">>, <<>>)>>)), "node" :> "v1")}

(* A loop over the variable of the loop around it, and one of its name.    *)
InnerLoopSites ==
  {PageOf((Page :> View_(<<>>, <<Include_(Row, <<Loop_("a", <<"items">>), inner>>)>>, <<>>)) @@
          (Row :> View_(<<>>, <<>>, <<Read_(1, <<inner.name, "name">>, <<>>)>>)),
          ("items" :> "v1") @@ ("data" :> "v2")) :
     inner \in {Loop_("b", <<"a", "parts">>), Loop_("a", <<"data">>), Loop_("b", <<"data">>)}}

(* Helpers.                                                                *)
HelperViews(rows) ==
  (Page :> View_(<<>>, <<>>, <<Read_(1, <<"title">>, <<>>), Read_(2, <<"q">>, <<>>)>>)) @@
  [r \in rows |-> View_(<<>>, <<>>, <<Read_(IF r = Row THEN 3 ELSE 4, <<"q">>, <<>>)>>)]

Helper(contexts, forwards) ==
  [Render_("helper", <<>>, contexts, "title" :> "v9") EXCEPT !.fromParam = TRUE, !.forwards = forwards]

CallOf(fn, name, keywords) ==
  [fn |-> fn, callee |-> "helper", name |-> name, keywords |-> keywords, enumerated |-> keywords # Nothing]

KeywordSets == {Nothing, "q" :> "v1", ("q" :> "v1") @@ ("title" :> "v2")}

HelperSites ==
  {Application(HelperViews(rows),
               ("helper" :> <<Do_("literal", "ns", "", "e1", ("q" :> "v7")), Do_("write", "ns", "", "", "title" :> "v8")>>)
                 @@ ("one" :> <<>>) @@ ("two" :> <<>>),
               <<Helper(contexts, forwards)>>,
               <<CallOf("one", name, ks), CallOf("two", <<"page">>, ls)>>) :
     rows \in SUBSET {Row, Copy}, contexts \in {<<>>, <<"ns">>}, forwards \in BOOLEAN,
     name \in {<<>>, <<"row">>, <<"lib", "row">>, <<"..", "row">>, <<"page">>}, ks \in KeywordSets, ls \in KeywordSets}

(* Contexts.  The handler's own mapping is built, then updated, then       *)
(* written into; a builder returns one.                                    *)
Made == {<<Do_("literal", "ctx", "", "e1", "q" :> "v1")>>, <<Do_("dict", "ctx", "", "e1", ("q" :> "v1") @@ ("r" :> "v2"))>>,
         <<Do_("literal", "old", "", "e1", "q" :> "v1"), Do_("copy", "ctx", "old", "", Nothing)>>,
         <<Do_("build", "ctx", "builder", "ctx", Nothing)>>}
Other    == <<Do_("literal", "more", "", "e2", ("q" :> "v3") @@ ("s" :> "v4"))>>
Updates  == {<<>>, <<Do_("update", "ctx", "more", "", Nothing)>>}
Writes   == {<<>>, <<Do_("write", "ctx", "", "", "q" :> "v5")>>,
             <<Do_("write", "ctx", "", "", "q" :> "v5"), Do_("write", "ctx", "", "", "q" :> "v6")>>}
Builders == {<<Do_("literal", "ns", "", "e3", "q" :> "v7")>>, <<Do_("dict", "ns", "", "e3", "t" :> "v7")>>}
(* What the builder does is seen only where it is called.                  *)
MadeBy   == {<<made, builder>> \in Made \X Builders :
               Last(made).op = "build" \/ builder = <<Do_("literal", "ns", "", "e3", "q" :> "v7")>>}

ContextOf(made, then, contexts, builder) ==
  Application(Page :> View_(<<>>, <<>>, <<Read_(1, <<"q">>, <<>>), Read_(2, <<"s">>, <<>>), Read_(3, <<"t">>, <<>>)>>),
              ("handler" :> Other \o made \o then) @@
              ("builder" :> builder \o <<Do_("write", "ns", "", "", "u" :> "v8"), Do_("return", "", "ns", "", Nothing)>>),
              <<Render_("handler", Page, contexts, "r" :> "v9")>>, <<>>)

ContextSites ==
  {ContextOf(m[1], update \o write, contexts, m[2]) :
     m \in MadeBy, update \in Updates, write \in Writes,
     contexts \in {<<>>, <<"ctx">>, <<"ctx", "more">>, <<"more", "ctx">>}}

(* A mapping written into and then updated from another.                   *)
OverwrittenSites ==
  {ContextOf(made, write \o update, <<"ctx">>, builder) :
     made \in Made, update \in Updates, write \in Writes, builder \in Builders}

MCSites ==
  {CASE family = "pages"       -> PageSites
     [] family = "tree"        -> TreeSites
     [] family = "innerloop"   -> InnerLoopSites
     [] family = "helpers"     -> HelperSites
     [] family = "contexts"    -> ContextSites
     [] family = "overwritten" -> OverwrittenSites : family \in SiteFamilies}

-----------------------------------------------------------------------------
(* Handlers: a request taken apart in the usual ways, a secret and an      *)
(* ordinary field wrapped, renamed and handed on, and a helper that        *)
(* declares its parameters plainly, by pattern or behind a receiver.       *)
MCSecretNames == {"token"}

Value_(kind, base, path, name) == [kind |-> kind, base |-> base, path |-> path, name |-> name, entries |-> <<>>]
Object_(filed) == [Value_("object", 0, <<>>, "") EXCEPT !.entries = filed]
Param_(val, index, name) == [val |-> val, index |-> index, name |-> name, destructured |-> FALSE, path |-> <<>>]
Bound_(val, index, path) == [val |-> val, index |-> index, name |-> "", destructured |-> TRUE, path |-> path]
Arg_(val, index, name, fills) == [val |-> val, index |-> index, name |-> name, paramIndex |-> fills]
CallTo_(callee, args) == [read |-> FALSE, callee |-> callee, args |-> args]
Lookup_(val) == [read |-> TRUE, callee |-> 0, args |-> <<Arg_(val, 0, "", -1)>>]

Rules == <<[untrusted |-> TRUE, trust |-> "", match |-> "position", index |-> 0, paths |-> {"query"}],
           [untrusted |-> TRUE, trust |-> "operator", match |-> "position", index |-> 0, paths |-> {"ctx"}],
           [untrusted |-> TRUE, trust |-> "remote", match |-> "kind", kind |-> "injected"],
           [untrusted |-> TRUE, trust |-> "", match |-> "global", symbol |-> "request"],
           [untrusted |-> FALSE, trust |-> "", match |-> "global", symbol |-> "session"]>>

(* Values: 1 the request, 2 what may be a secret, 3 the e-mail, 4 an       *)
(* object, 5 an object around it, 6 a local, 7 to 10 the helper's.         *)
Handler(params, vals, assigns, calls, helper, helperVals) ==
  [rules |-> Rules,
   val |-> vals \o helperVals,
   fns |-> <<[params |-> params, vals |-> <<1, 2, 3, 4, 5, 6>>, assigns |-> assigns, calls |-> calls, bound |-> FALSE], helper>>]

HandlerHelper(params, bound, read) ==
  [params |-> params, vals |-> <<7, 8, 9, 10>>, assigns |-> <<>>, calls |-> <<Lookup_(read)>>, bound |-> bound]

(* Where the two fields come from.                                         *)
AllSources ==
  {<<<<Param_(1, 0, "req")>>, Value_("param", 0, <<>>, "req"),
     Value_("property", 1, <<p, leaf>>, ""), Value_("property", 1, <<"query", "email">>, "")>> :
     p \in {"query", "ctx"}, leaf \in {"token", "id"}}
  \cup {<<<<Bound_(1, 0, <<"query">>)>>, Value_("param", 0, <<>>, "query"),
          Value_("property", 1, <<"token">>, ""), Value_("property", 1, <<"email">>, "")>>,
        <<<<Param_(1, 0, "input")>>, Value_("injected", 0, <<>>, "input"),
          Value_("property", 1, <<"token">>, ""), Value_("property", 1, <<"email">>, "")>>,
        <<<<>>, Value_("global", 0, <<>>, "request"),
          Value_("property", 1, <<"form", "token">>, ""), Value_("property", 1, <<"form", "email">>, "")>>,
        <<<<>>, Value_("global", 0, <<>>, "session"),
          Value_("property", 1, <<"form", "token">>, ""), Value_("property", 1, <<"form", "email">>, "")>>,
        <<<<Param_(1, 0, "token")>>, Value_("injected", 0, <<>>, "token"),
          Value_("local", 0, <<>>, ""), Value_("local", 0, <<>>, "")>>}

Sources == {s \in AllSources : s[3].path # <<"id">> /\ s[3].kind # "local" /\ s[2].name # "session"}

Wrappings == {<<>>, <<[key |-> "token", val |-> 2], [key |-> "email", val |-> 3]>>,
              <<[key |-> "email", val |-> 2], [key |-> "token", val |-> 3]>>,
              <<[key |-> "token", val |-> 6]>>}

(* What the helper looks up: a parameter, or an object around one.         *)
Looked(read, filed) ==
  <<Value_("param", 0, <<>>, "self"), Value_("param", 0, <<>>, "a"), Value_("param", 0, <<>>, "b"),
    Object_(<<[key |-> "where", val |-> filed]>>)>>

(* Plain parameters, the same behind a receiver, and a pattern.            *)
Plainly  == <<FALSE, <<Param_(8, 0, "a"), Param_(9, 1, "b")>>>>
Bound    == <<TRUE, <<Param_(7, 0, "self"), Param_(8, 1, "a"), Param_(9, 2, "b")>>>>
Pattern  == <<FALSE, <<Bound_(8, 0, <<"token">>), Bound_(9, 0, <<"email">>)>>>>
Whole    == <<FALSE, <<Bound_(8, 0, <<"opts">>), Bound_(7, 0, <<>>), Param_(9, 1, "b")>>>>

Passed(bound, first, second, name) ==
  <<Arg_(first, 0, "", IF bound THEN 1 ELSE -1),
    IF name = "" THEN Arg_(second, 1, "", IF bound THEN 2 ELSE -1) ELSE Arg_(second, 1, name, -1)>>

HandedFamily ==
  {Handler(src[1], <<src[2], src[3], src[4], Object_(wrap), Object_(<<[key |-> "opts", val |-> 4]>>),
                     Value_("local", 0, <<>>, "kept")>>,
           <<[from |-> from, to |-> 6]>>, <<CallTo_(2, Passed(d[1][1], first, second, d[2]))>>,
           HandlerHelper(d[1][2], d[1][1], read[1]), Looked(read[1], read[2])) :
     src \in Sources, wrap \in Wrappings, from \in {2, 3},
     d \in {<<Plainly, "">>, <<Plainly, "b">>, <<Bound, "">>, <<Bound, "b">>, <<Pattern, "">>, <<Whole, "">>},
     first \in {2, 4, 5, 6}, second \in {2, 3}, read \in {<<8, 8>>, <<9, 9>>, <<10, 8>>, <<10, 9>>}}

(* The handler's own lookup.                                               *)
OwnFamily ==
  {Handler(src[1], <<src[2], src[3], src[4], Object_(wrap), Object_(<<[key |-> "opts", val |-> 4]>>),
                     Value_("local", 0, <<>>, "kept")>>,
           <<[from |-> from, to |-> 6], [from |-> 6, to |-> 6]>>, <<Lookup_(first), Lookup_(second)>>,
           HandlerHelper(<<>>, FALSE, 7), Looked(8, 8)) :
     src \in AllSources, wrap \in Wrappings, from \in {2, 3}, first \in 1 .. 6, second \in {1, 3}}

(* A pattern of two names in front of the request.                         *)
BehindAPatternFamily ==
  {Handler(<<Bound_(3, 0, <<"a">>), Bound_(4, 0, <<"b">>), Param_(1, 1, "req")>>,
           <<Value_("param", 0, <<>>, "req"), Value_("property", 1, <<"query", "token">>, ""),
             Value_("param", 0, <<>>, "a"), Value_("param", 0, <<>>, "b"), Object_(<<>>),
             Value_("local", 0, <<>>, "kept")>>,
           <<>>, <<Lookup_(2)>>, HandlerHelper(<<>>, FALSE, 7), Looked(8, 8))}

MCHandlers ==
  {CASE fam = "handed" -> HandedFamily
     [] fam = "own" -> OwnFamily
     [] fam = "behind" -> BehindAPatternFamily : fam \in HandlerFamilies}

(* Each of them is such a handler as CredentialCorrect is about.           *)
ASSUME SupposedAssumption == \A family \in MCHandlers : \A p \in family : KeptInHand(p) /\ FillsAsStated(p)

-----------------------------------------------------------------------------
(* One part at a time.                                                     *)
NoApplication == Code_(<<>>, [m \in {} |-> Module_], {}, {})
NoSite        == Application(Nothing, Nothing, <<>>, <<>>)
NoHandler     == Handler(<<>>, <<>>, <<>>, <<>>, HandlerHelper(<<>>, FALSE, 7), <<>>)

ExIdle == /\ code = NoApplication /\ entries = {} /\ policy = Silent
          /\ coverage = {}
FlIdle == /\ app = NoSite
          /\ stage = "idle" /\ joined = FALSE /\ scans = 0
          /\ queue = <<>> /\ rendering = Nothing /\ todo = <<>> /\ walked = {}
          /\ seen = {} /\ sinks = <<>>
CrIdle == handler = NoHandler /\ resolved = Unread

inVars == <<exVars, flVars, crVars, sdVars, part>>

InInit ==
  \/ part = "expectation" /\ ExInit /\ FlIdle /\ CrIdle /\ SdIdle
  \/ part = "flow"        /\ ExIdle /\ FlInit /\ CrIdle /\ SdIdle
  \/ part = "credential"  /\ ExIdle /\ FlIdle /\ CrInit /\ SdIdle
  \/ part = "seeds"       /\ ExIdle /\ FlIdle /\ CrIdle /\ SdInit

Apply == part = "expectation" /\ ExNext /\ UNCHANGED <<flVars, crVars, sdVars, part>>
Join  == part = "flow" /\ FlStep /\ UNCHANGED <<exVars, crVars, sdVars, part>>
Again == part = "flow" /\ ScanAgain /\ UNCHANGED <<exVars, crVars, sdVars, part>>
Ask   == part = "credential" /\ CrNext /\ UNCHANGED <<exVars, flVars, sdVars, part>>
Begin == part = "seeds" /\ SdNext /\ UNCHANGED <<exVars, flVars, crVars, part>>

InNext == Apply \/ Join \/ Again \/ Ask \/ Begin

(* The join is one sequential pass, as in Flow.                            *)
InSpec == InInit /\ [][InNext]_inVars /\ WF_inVars(Join)
=============================================================================
