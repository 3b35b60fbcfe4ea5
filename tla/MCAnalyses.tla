----------------------------- MODULE MCAnalyses -----------------------------
(***************************************************************************)
(* What four independent analyses are given: programs for Store (handlers  *)
(* and a helper whose statements stand in every block, call graphs of a    *)
(* module with two routes, ways through values and sanitizers), patterns   *)
(* for Regex, programs for Omissions (two handlers of one module over one  *)
(* resource, a permission check with two arms, a route over a helper, a    *)
(* limiter whose key function reads a header, limiters and the settings    *)
(* around them, a function that registers two listeners, a function that   *)
(* builds two or three answers), and applications for Declared (two views  *)
(* that inherit one method).  A behaviour is of one part; the others stand *)
(* still at an empty program.                                              *)
(***************************************************************************)
EXTENDS Store, Regex, Omissions, Declared, TLC

CONSTANTS
  ProgramFamilies,
  PatternFamilies,
  SourceFamilies,
  ApplicationFamilies

VARIABLE part   \* "store", "regex", "omissions" or "declared"

-----------------------------------------------------------------------------
(* Programs for Store.                                                     *)
MCValue == 1 .. 8

Straight == << {} >>
(* if (a) { 2 } 3, and if (a) { 2: return } 3.                             *)
Diamond  == << {2, 3}, {3}, {} >>
Returns  == << {2, 3}, {}, {} >>

Fn_(entry, succs, params, flows) ==
  [entry |-> entry, top |-> FALSE, test |-> FALSE, succs |-> succs, params |-> params, flows |-> flows]
Flow_(from, to) == [from |-> from, to |-> to, composes |-> FALSE]
Call_(fn, at, name, args, callee) ==
  [does |-> "call", fn |-> fn, at |-> at, block |-> at, name |-> name, on |-> 0, args |-> args,
   callee |-> callee, passes |-> {}, result |-> 0, builtin |-> FALSE,
   stored |-> FALSE, inserts |-> {}, updates |-> {}]
Write_(fn, at, base, key, from) ==
  [does |-> "write", fn |-> fn, at |-> at, block |-> at, base |-> base, key |-> key, from |-> from,
   process |-> FALSE]

Plain == [subject |-> "key", into |-> {}, entryOnly |-> FALSE, notElement |-> FALSE, unprojected |-> TRUE,
          identityCalls |-> {"setuser"}, rotatingMethods |-> {"login"}, absentCall |-> {"regenerate"},
          keyPure |-> {"trim"}, sanitizers |-> {}, sanitizedArg |-> 0, composition |-> "any",
          secretFields |-> {"token"}, subjectFields |-> {"email"}]
Local_(name) == [kind |-> "local", base |-> 0, name |-> name, owner |-> 0]

-----------------------------------------------------------------------------
(* 1 handler, 2 helper, 3 another handler, 4 the module.  Values: 1 and 2  *)
(* the first handler's identifier and what was made of it, 3 the helper's  *)
(* parameter, 4 made of that, 5 the second handler's identifier, 6 the     *)
(* module's container, 7 its size, 8 a value nobody chose.                 *)
KeyVals == <<Local_("id"), Local_("key"), Local_("k"), Local_("k2"), Local_("id"),
             [Local_("cache") EXCEPT !.owner = 4],
             [kind |-> "property", base |-> 6, name |-> "size", owner |-> 0], Local_("own")>>

KeyProgram(shape1, shape2, stmts, flows) ==
  [fns |-> <<Fn_(TRUE, shape1, <<>>, <<Flow_(1, 2)>>), Fn_(FALSE, shape2, <<3>>, flows),
             Fn_(TRUE, Straight, <<>>, <<>>), [Fn_(FALSE, Straight, <<>>, <<>>) EXCEPT !.top = TRUE]>>,
   stmts |-> stmts, val |-> KeyVals, rule |-> Plain, compares |-> <<>>,
   classified |-> 1 .. 5, seeds |-> {1, 5}, projected |-> {}]

Unplaced(stmt) == [stmt EXCEPT !.block = 0]

KeysFamily ==
  UNION {{KeyProgram(way[1], Diamond,
             <<Call_(1, a, name, <<arg>>, 0), site, Call_(2, c, "find", <<look>>, 0),
               Write_(2, w, 6, key, 8), Call_(3, 1, "find", <<5>>, 0), other>>, <<Flow_(3, 4)>>) :
            a \in way[2], site \in {Call_(1, b, "put", <<p>>, 2) : b \in way[3], p \in {1, 2}}
                                     \cup {Unplaced(Call_(1, 3, "put", <<1>>, 2))},
            c \in {1, 2}, w \in {2, 3}, name \in {"find", "trim"}, arg \in {1, 8}, look \in {4, 8},
            key \in {3, 4}, other \in {Call_(3, 1, "put", <<5>>, 0), Call_(3, 1, "put", <<8>>, 2)}} :
    way \in {<<Diamond, {1, 2}, {2, 3}>>, <<Returns, {1, 2}, {2, 3}>>}}

(* A cap, a container of the handler's own, a key of the program's own.    *)
ExcusesFamily ==
  {[KeyProgram(Straight, Straight, <<Call_(1, 1, "put", <<1>>, 2), Write_(2, 1, 6, key, 8)>>, <<>>) EXCEPT
      !.compares = compares, !.val[6].owner = owner, !.projected = projected, !.fns[2].test = test] :
     key \in {3, 8}, compares \in {<<>>, << {7, 8} >>}, owner \in {2, 4}, projected \in {{}, {3}},
     test \in BOOLEAN}

-----------------------------------------------------------------------------
(* 1 the module, which registers the routes 2 and 3; 4 a helper, 5 another.*)
(* The session is written in a route or in the first helper.               *)
RouteVals == [v \in MCValue |-> IF v = 1 THEN Local_("req") ELSE [Local_("session") EXCEPT !.base = IF v = 2 THEN 1 ELSE 0]]

RoutesFamily ==
  {[fns |-> <<[Fn_(FALSE, Straight, <<>>, <<>>) EXCEPT !.top = TRUE],
              Fn_(TRUE, Straight, <<1>>, <<>>), Fn_(TRUE, Straight, <<>>, <<>>),
              Fn_(FALSE, Straight, <<>>, <<>>), Fn_(FALSE, Straight, <<>>, <<>>)>>,
    stmts |-> <<[Call_(1, 1, "use", <<>>, 0) EXCEPT !.passes = {2, 3}]>>
              \o [n \in DOMAIN edges |-> Call_(edges[n][1], 1, "go", <<>>, edges[n][2])]
              \o <<[Call_(rotated, 1, how[1], <<>>, 0) EXCEPT !.on = how[2]],
                   [Write_(writer, 1, 2, 0, 3) EXCEPT !.at = 1],
                   Call_(writer, 1, "setuser", <<1>>, 0)>>,
    val |-> RouteVals, rule |-> [Plain EXCEPT !.subject = "absent", !.into = {"session"}, !.entryOnly = entryOnly],
    compares |-> <<>>, classified |-> {}, seeds |-> {}, projected |-> {}] :
     edges \in {<<<<2, 4>>, <<4, 5>>>>, <<<<2, 4>>, <<3, 4>>, <<4, 5>>>>, <<<<2, 4>>, <<3, 5>>>>,
                <<<<2, 4>>, <<2, 5>>>>, <<<<4, 5>>, <<3, 4>>>>, <<<<2, 5>>, <<5, 4>>, <<4, 5>>>>},
     rotated \in {2, 3, 4, 5}, how \in {<<"regenerate", 0>>, <<"login", 1>>, <<"login", 0>>},
     writer \in {2, 4}, entryOnly \in BOOLEAN}

-----------------------------------------------------------------------------
(* Ways from the seeds 1 and 2 to what is written, 5; 3 and 4 are results  *)
(* of calls, and some of them are sanitizers.                              *)
Edge == <<Flow_(1, 3), Flow_(2, 3), Flow_(3, 4), Flow_(4, 3), Flow_(1, 4), Flow_(3, 5), Flow_(4, 5), Flow_(2, 5)>>

Picked(set) == SelectSeq([n \in DOMAIN Edge |-> IF n \in set THEN Edge[n] ELSE Flow_(8, 8)],
                         LAMBDA k : k.from # 8)

WaysFamily ==
  {[fns |-> <<Fn_(TRUE, Straight, <<>>, Picked(set))>>,
    stmts |-> <<[Call_(1, 1, names[1], <<1, second>>, 0) EXCEPT !.result = 3],
                [Call_(1, 1, names[2], <<3, 8>>, 0) EXCEPT !.result = 4], Write_(1, 1, 6, 0, 5)>>,
    val |-> [v \in MCValue |-> Local_("v")],
    rule |-> [Plain EXCEPT !.subject = "class", !.sanitizers = {"encode"}, !.sanitizedArg = arg],
    compares |-> <<>>, classified |-> 1 .. 5, seeds |-> {1, 2}, projected |-> {}] :
     set \in SUBSET DOMAIN Edge, names \in {<<"encode", "read">>, <<"encode", "encode">>, <<"read", "encode">>},
     second \in {2, 8}, arg \in {0, 1}}

(* Values written down, a half-template, a loop's own element, an upsert.  *)
LiteralFamily ==
  {[fns |-> <<Fn_(TRUE, Straight, <<>>, <<[Flow_(1, 3) EXCEPT !.composes = composes], Flow_(2, 3)>>),
              Fn_(FALSE, Straight, <<4>>, <<>>)>>,
    stmts |-> <<[Call_(1, 1, "env", <<1, 2>>, 0) EXCEPT !.result = 5],
                [Call_(1, 1, "map", <<>>, 0) EXCEPT !.passes = {2}],
                [Call_(1, 1, "upsert", <<>>, 0) EXCEPT !.stored = TRUE, !.inserts = {"token", "email"},
                                                       !.updates = updates],
                Write_(1, 1, 6, 0, from), Write_(2, 1, 4, 0, from)>>,
    val |-> [v \in MCValue |-> [Local_("v") EXCEPT !.kind =
                IF v = 2 THEN kind ELSE IF v = 3 THEN "fallback" ELSE "local"]],
    rule |-> [Plain EXCEPT !.subject = subject, !.composition = composition, !.notElement = composes],
    compares |-> <<>>, classified |-> {1, 3}, seeds |-> {1}, projected |-> {}] :
     from \in {1, 2, 3, 5}, kind \in {"secret", "local"}, composes \in BOOLEAN,
     subject \in {"literal", "class", "insert"}, composition \in {"required", "refused"},
     updates \in {{"email"}, {"email", "token"}}}

MCPrograms ==
  (IF "keys"     \in ProgramFamilies THEN KeysFamily    ELSE {}) \cup
  (IF "excuses"  \in ProgramFamilies THEN ExcusesFamily ELSE {}) \cup
  (IF "routes"   \in ProgramFamilies THEN RoutesFamily  ELSE {}) \cup
  (IF "ways"     \in ProgramFamilies THEN WaysFamily    ELSE {}) \cup
  (IF "literals" \in ProgramFamilies THEN LiteralFamily ELSE {})

-----------------------------------------------------------------------------
(* Patterns: every pattern of a profile's tokens, up to its length.        *)
A == 1
B == 2

Profile(chars, written, quantifiers, tokens) ==
  [chars |-> chars, written |-> written, quantifiers |-> quantifiers, tokens |-> tokens,
   dots |-> FALSE, classes |-> {}, anchors |-> {}, odd |-> FALSE, looks |-> {FALSE},
   framed |-> FALSE, fragments |-> {}]

(* Checks against single characters, doubled ones and pairs.               *)
Excluding(chars, written, quantifiers, tokens, framed) ==
  [Profile(chars, written, quantifiers, tokens) EXCEPT
     !.framed = framed,
     !.anchors = IF framed THEN {} ELSE {"^", "$"},
     !.fragments = {<<A>>, <<LF>>, <<A, A>>, <<A, B>>, <<B, LF>>, <<CR, LF>>, <<A, B, A>>}]

MCProfiles ==
  (IF "excludes" \in PatternFamilies
   THEN {Excluding({A, B, LF}, {A, B}, {"once", "two"}, 4, TRUE),
         Excluding({A, B, LF}, {A, B}, {"once", "maybe", "star", "upto2"}, 3, TRUE),
         Excluding({A, LF}, {A}, {"once", "maybe", "any"}, 4, FALSE),
         [Excluding({A, B, LF, CR}, {}, {"once", "plus"}, 3, TRUE) EXCEPT !.dots = TRUE, !.looks = {TRUE},
            !.classes = {<<{<<A, A>>}, FALSE>>, <<{<<A, B>>}, TRUE>>, <<{<<B, A>>}, FALSE>>,
                         <<{<<A, A>>, <<CR, CR>>}, FALSE>>}]}
   ELSE {}) \cup
  (IF "shapes" \in PatternFamilies
   THEN {Profile({A, LF}, {A}, {"once", "plus"}, 7),
         [Profile({A, LF}, {A}, {"once", "star", "twice"}, 4) EXCEPT !.looks = {FALSE, TRUE}, !.anchors = {"^"},
            !.classes = {<<{<<A, A>>}, FALSE>>}, !.odd = TRUE, !.dots = TRUE]}
   ELSE {}) \cup
  (IF "adjacent" \in PatternFamilies
   THEN {Profile({A, B, LF}, {A, B}, {"once", "plus"}, 5)}
   ELSE {})

-----------------------------------------------------------------------------
(* Programs for Omissions.                                                 *)
MCVocabulary ==
  [retrieves |-> {"get", "find"}, checks |-> {"verify", "permission"}, records |-> {"log"},
   reads |-> {"get"}, mutates |-> {"update"}, establishes |-> {"user"},
   enforces |-> {"check"}, controls |-> {"permission"},
   frameworks |-> {"django"}, safe |-> {"GET", "ANY"}, keys |-> {"key"},
   limits |-> {"limit"}, override |-> "keyGenerator", validation |-> "validate", off |-> {"false"},
   trust |-> "trust proxy", trusted |-> {"true"},
   attaches |-> {"on"}, repeats |-> {"data"}, refuses |-> {"reject", "abort"}, accumulates |-> {"push"},
   detaches |-> {"destroy", "abort"}, constructs |-> {"redirect", "jsonify"}]
MCHeaderNames == <<"forwarded", "client">>

(* Siblings: 1 the parameters, 2 and 3 two of them, 4 the caller, 5 a copy *)
(* of 2, 6 an object holding 2 and 3.                                      *)
Read_(from, field, to) == [op |-> "read", from |-> from, field |-> field, to |-> to]
Into_(op, from, to)    == [op |-> op, from |-> from, to |-> to]
Asked_(name, args)      == [op |-> "call", name |-> name, args |-> args]

Takes(held) ==
  <<Read_(0, "params", 1), Read_(0, "user", 4)>>
  \o (IF "id" \in held THEN <<Read_(1, "id", 2), Into_("copy", 2, 5)>> ELSE <<>>)
  \o (IF "name" \in held THEN <<Read_(1, "name", 3)>> ELSE <<>>)
  \o (IF held = {"id", "name"} THEN <<Into_("wrap", 2, 6), Into_("wrap", 3, 6)>> ELSE <<>>)

AtHand(held) == {<<4>>} \cup (IF "id" \in held THEN {<<2>>, <<5>>, <<2, 4>>} ELSE {})
                        \cup (IF "name" \in held THEN {<<3>>} ELSE {})
                        \cup (IF held = {"id", "name"} THEN {<<6>>} ELSE {})

Handler(name, held, calls, middleware) ==
  [name |-> name, test |-> FALSE, file |-> "a", middleware |-> middleware, steps |-> Takes(held) \o calls]

Asks     == <<"verify", "project">>
Readers  == {Handler(<<"get", "project">>, {"id", "name"}, <<Asked_(Asks, args)>>, <<>>) :
               args \in AtHand({"id", "name"})}
CallNames == {Asks, <<"log">>, <<"save">>, <<"get", "permission">>}
(* A writer may hold two parameters and operate on one of them alone.      *)
Writers == UNION {{Handler(<<"update", "project">>, held, <<Asked_(n, a), Asked_(<<"save">>, b)>>, mw) :
                      n \in CallNames, a \in AtHand(held), b \in AtHand(held), mw \in {<<>>, <<<<"verify">>>>, <<<<"log">>>>}} :
                   held \in SUBSET {"id", "name"}}
Siblings(fns) == [kind |-> "siblings", fns |-> fns]

SiblingSources ==
  {Siblings(<<w, r>>) : w \in Writers, r \in Readers}
  \cup {Siblings(<<w, [r EXCEPT !.file = f, !.test = t, !.name = n]>>) :
          w \in {x \in Writers : x.middleware = <<>>}, r \in {x \in Readers : Len(Last(x.steps).args) = 1},
          f \in {"b"}, t \in {FALSE}, n \in {<<"get", "project">>}}
  \cup {Siblings(<<w, [r EXCEPT !.test = TRUE]>>) : w \in {x \in Writers : x.middleware = <<>>}, r \in Readers}

(* A handler that names its container before it takes it apart.            *)
AliasSources ==
  {Siblings(<<Handler(<<"update", "project">>, {"id"}, <<Asked_(<<"save">>, <<2>>)>>, <<>>),
              [Handler(<<"get", "project">>, {}, <<>>, <<>>) EXCEPT
                 !.steps = <<Read_(0, "params", 1), Into_("copy", 1, 2), Read_(2, "name", 3), Asked_(Asks, <<3>>)>>]>>)}

(* A reader that asks about two values together, and then about one alone. *)
TwoQuestionSources ==
  {Siblings(<<Handler(<<"update", "project">>, {"id"}, <<Asked_(<<"save">>, <<2>>)>>, <<>>),
              Handler(<<"get", "project">>, {"id", "name"}, <<Asked_(Asks, <<6>>), Asked_(Asks, <<2>>)>>, <<>>)>>)}

(* Permissions.                                                            *)
Perm == <<"required", "permission">>
Held_ == <<"held">>
Do_(op, arm, var, to) == [op |-> op, arm |-> arm, var |-> var, to |-> to]

(* A variable is one value (TypeScript) or one per assignment (Python).    *)
Lowered(language, stmts) ==
  LET New(m, var) == IF language = "ts" /\ var \in DOMAIN m.cur THEN m.cur[var] ELSE m.next + 1
      Step(m, s) ==
        CASE s.op = "lookup" ->
               [steps |-> m.steps \o <<[op |-> "lookup", name |-> <<"permission", "map">>, reachable |-> TRUE, to |-> m.next],
                                       [op |-> "bind", from |-> m.next, to |-> New(m, s.var), name |-> s.var]>>,
                cur |-> (s.var :> New(m, s.var)) @@ m.cur, next |-> m.next + 2]
          [] s.op = "copy" ->
               [steps |-> Append(m.steps, [op |-> "copy", from |-> m.cur[s.var], to |-> New(m, s.to), name |-> s.to]),
                cur |-> (s.to :> New(m, s.to)) @@ m.cur, next |-> m.next + 2]
          [] s.op = "test" ->
               [m EXCEPT !.steps = Append(@, [op |-> "compare", from |-> m.cur[s.var], with |-> s.to])]
          [] s.op = "use" ->
               [m EXCEPT !.steps = Append(@,
                  CASE s.to = "call" -> [op |-> "call", args |-> <<m.cur[s.var]>>]
                    [] s.to = "compare" -> [op |-> "compare", from |-> m.cur[s.var], with |-> "something"]
                    [] OTHER -> [op |-> s.to, from |-> m.cur[s.var]])]
  IN FoldLeft(Step, [steps |-> <<>>, cur |-> [x \in {} |-> 0], next |-> 1], stmts).steps

Selections == {<<Do_("lookup", 0, Perm, Perm)>>, <<Do_("lookup", 1, Perm, Perm), Do_("lookup", 2, Perm, Perm)>>}
Tests      == {<<>>, <<Do_("test", 0, Perm, "nothing")>>, <<Do_("test", 0, Perm, "truthy")>>}
Copies     == {<<>>, <<Do_("copy", 0, Perm, Held_)>>, <<Do_("copy", 0, Perm, Held_), Do_("copy", 0, Held_, <<"again">>)>>}
Uses       == {<<>>} \cup {<<Do_("use", 0, var, how)>> : var \in {Perm, Held_, <<"again">>}, how \in {"call", "return", "write", "compare"}}
Bound(copies) == {Perm} \cup {copies[k].to : k \in DOMAIN copies}

PermissionSources ==
  UNION {{[kind |-> "permission", anchored |-> anchored,
           fn |-> [name |-> name, test |-> test, steps |-> Lowered(language, body), source |-> body]] :
            body \in {s \o t \o c \o u : s \in Selections, t \in Tests, u \in {x \in Uses : x = <<>> \/ x[1].var \in Bound(c)}},
            language \in {"ts", "py"}, anchored \in BOOLEAN, test \in BOOLEAN,
            name \in {<<"check", "permission">>, <<"find", "permission">>}} : c \in Copies}

(* Routes.                                                                 *)
Work_(block, writes, enters) == [block |-> block, writes |-> writes, enters |-> enters]
Helpers_ == {<<Work_(block, writes, {})>> : block \in {"entry", "arm", ""}, writes \in {"", "orm", "cache"}}
Works    == {Work_("entry", "", {})} \cup {Work_(block, "orm", {}) : block \in {"entry", "arm"}}
              \cup {Work_(block, "", {"helper"}) : block \in {"entry", "arm"}}
Entry_(exempt, restricted, method) ==
  [route |-> TRUE, framework |-> "django", fn |-> "handler", exempt |-> exempt, restricted |-> restricted, method |-> method]

RouteSources ==
  {[kind |-> "route", entries |-> <<Entry_(exempt, restricted, method)>>,
    fns |-> ("handler" :> <<a, b>>) @@ ("helper" :> helper)] :
     exempt \in BOOLEAN, restricted \in BOOLEAN, method \in {"GET", "POST", "ANY"}, a \in Works, b \in Works, helper \in Helpers_}

(* One of several functions that may be entered writes.                    *)
CandidateSources ==
  {[kind |-> "route", entries |-> <<Entry_(FALSE, FALSE, "GET")>>,
    fns |-> ("handler" :> <<Work_("entry", "", {"one", "two"})>>) @@
            ("one" :> <<Work_("entry", "orm", {})>>) @@ ("two" :> <<Work_("entry", "", {})>>)]}

(* Keys: 1 the argument, 2 a literal, 3 the list a module declares, 4 what *)
(* is in it, 5 a property of the request.                                  *)
Value_(literal, name, path, top, file, from) ==
  [literal |-> literal, name |-> name, path |-> path, top |-> top, file |-> file, from |-> from]
KeyFn(name, file, vals, calls) == [name |-> name, file |-> file, test |-> FALSE, vals |-> vals, calls |-> calls]
KeyCall(limiter, args, enters) == [limiter |-> limiter, args |-> args, enters |-> enters]

KeySource(argument, literal, listed, path, edges, place, where, name, other) ==
  [kind |-> "key", limited |-> "a",
   val |-> <<argument, Value_(literal, "", <<>>, FALSE, "a", "a"), Value_("", "HEADERS", <<>>, TRUE, "c", "c"),
             Value_(listed, "", <<>>, FALSE, "c", "c"), Value_("", "", path, FALSE, "a", "a"),
             Value_("", other, <<>>, TRUE, "d", "d"), Value_("forwarded", "", <<>>, FALSE, "d", "d")>>,
   edges |-> edges \cup {<<4, 3>>, <<7, 6>>},
   fns |-> <<KeyFn(name, where, IF place = "key" THEN {5} ELSE {},
                   <<KeyCall(FALSE, IF place = "key" THEN <<1>> ELSE <<>>, {2})>>),
             KeyFn("clientOf", "b", IF place = "helper" THEN {5} ELSE {},
                   <<KeyCall(FALSE, IF place = "helper" THEN <<1>> ELSE <<>>, {})>>),
             KeyFn("<module>", "a", {}, <<KeyCall(TRUE, <<>>, {})>>)>>]

Arguments == {<<Value_(l, "", <<>>, FALSE, "a", "a"), {}>> : l \in {"forwarded", "accept"}}
               \cup {<<Value_("", "header", <<>>, FALSE, "a", "a"), {<<2, 1>>}>>,
                     <<Value_("", "HEADERS", <<>>, FALSE, "a", "c"), {}>>,
                     <<Value_("", "HEADERS", <<>>, FALSE, "a", "a"), {<<2, 1>>}>>}

KeySourcesOf(other) ==
  {KeySource(a[1], literal, listed, path, a[2], place, where, name, other) :
     a \in Arguments, literal \in {"accept", "client"}, listed \in {"accept", "client"},
     path \in {<<>>, <<"headers", "client">>, <<"headers", "accept">>},
     place \in {"key", "helper", "none"}, where \in {"a", "b"}, name \in {"key", "skip"}}
KeySources == KeySourcesOf("OTHERS")

(* Two modules declare a list of one name.                                 *)
TwinListSources == KeySourcesOf("HEADERS")

(* Limiters and settings, in two functions, one of them perhaps a test.    *)
Made_(called, options, args) == [called |-> called, options |-> options, args |-> args]
Limiters == {Made_(called, own \cup checked, <<>>) : called \in {"limit", "slow"},
               own \in {{}, {<<"keyGenerator", "f">>}}, checked \in {{}, {<<"validate", "true">>}, {<<"validate", "false">>}}}
Settings == {Made_("set", {}, <<key, value>>) : key \in {"trust proxy", "views"}, value \in {"true", "1"}}
SettingsOf(calls1, calls2, test) ==
  [kind |-> "default key", fns |-> <<[test |-> FALSE, calls |-> calls1], [test |-> test, calls |-> calls2]>>]

DefaultKeySources ==
  {SettingsOf(<<a, s>>, <<b>>, test) : a \in Limiters, b \in Limiters, s \in Settings, test \in BOOLEAN}
  \cup {SettingsOf(<<a, b>>, <<s>>, test) : a \in Limiters, b \in Limiters, s \in Settings, test \in BOOLEAN}

(* A second setting takes the first one back.                              *)
ResetSources == {SettingsOf(<<a, s>>, <<t>>, FALSE) : a \in Limiters, s \in Settings, t \in Settings}

(* Listeners: function 1 registers two, functions 2 and 3.  A step is one  *)
(* call: "keep" pushes onto a value of function 1, "own" onto one made     *)
(* here, "stop" and "refuse" call what they are named after.               *)
Does_(do, when) == [do |-> do, when |-> when]
CallOf_(symbol, name, method, event, hands, owner) ==
  [symbol |-> symbol, name |-> name, method |-> method, event |-> event, hands |-> hands, owner |-> owner]

StepCall(do, self) ==
  CASE do = "keep"   -> CallOf_("", "", "push", "", 0, 1)
    [] do = "own"    -> CallOf_("", "", "push", "", 0, self)
    [] do = "refuse" -> CallOf_("", "reject", "", "", 0, 0)
    [] do = "stop"   -> CallOf_("", "", "destroy", "", 0, 0)
    [] do = "leave"  -> CallOf_("return", "", "", "", 0, 0)
    [] OTHER         -> CallOf_("resolve", "resolve", "", "", 0, 0)

Listener_(event, how, body) ==
  [event |-> event, how |-> how, again |-> event = "data" /\ how = "on", body |-> body]

Listeners(listeners, test) ==
  [kind |-> "listener", test |-> test, source |-> listeners,
   fns |-> <<[l \in DOMAIN listeners |-> CallOf_("", "", listeners[l].how, listeners[l].event, l + 1, 1)]>>
           \o [l \in DOMAIN listeners |->
                 [n \in DOMAIN listeners[l].body |-> StepCall(listeners[l].body[n].do, l + 1)]]]

StepsOf(kinds) == {Does_(do, when) : do \in kinds, when \in {"always", "over"}}
(* What follows the limit in one listener is under it.                     *)
Bodies(does) == {<<a, b, c>> : a \in {s \in does : s.when = "always"}, b \in does, c \in does}
Beside == {<<Does_("resolve", "always")>>, <<Does_("stop", "always")>>,
           <<Does_("keep", "always"), Does_("refuse", "over")>>,
           <<Does_("keep", "always"), Does_("refuse", "always")>>}

ListenersOver(does) ==
  {Listeners(<<Listener_(event, how, body), Listener_(event2, "on", beside)>>, test) :
     event \in {"data", "end"}, how \in {"on"}, body \in Bodies(does),
     event2 \in {"end", "data"}, beside \in Beside, test \in {FALSE}}
(* A promise calls back once, and a test module is nobody's surface.       *)
ListenerSources ==
  ListenersOver(StepsOf({"keep", "own", "refuse", "stop", "resolve"}) \ {Does_("own", "over"), Does_("resolve", "over")})
  \cup {Listeners(<<Listener_("data", how, body)>>, how = "on") :
           how \in {"on", "then"}, body \in Bodies(StepsOf({"keep", "refuse"}))}

(* A listener that returns before it keeps anything.                       *)
ReturningSources == ListenersOver(StepsOf({"keep", "refuse", "leave"}))

(* Answers: statement k builds value 10 + k on the framework (value 1) or  *)
(* on a parameter (value 2).                                               *)
Builds_(name, on, fate) == [name |-> name, on |-> on, fate |-> fate]
AnswerCall(symbol, method, on, args, result) ==
  [symbol |-> symbol, method |-> method, on |-> on, args |-> args, result |-> result]

(* With no symbol only the method says what was called.                    *)
Answers(stmts, resolved) ==
  LET made == [k \in DOMAIN stmts |-> AnswerCall(IF resolved THEN stmts[k].name ELSE "", stmts[k].name,
                                                IF stmts[k].on = "parameter" THEN 2 ELSE 1, {3}, 10 + k)]
      Became(fate) == {10 + k : k \in {n \in DOMAIN stmts : stmts[n].fate = fate}}
  IN [kind |-> "answer", source |-> stmts,
      fn |-> [params |-> {2},
              calls |-> made \o <<AnswerCall("log", "log", 1, Became("passed"), 30)>>
                             \o [k \in DOMAIN stmts |-> AnswerCall("header", "header",
                                                  IF stmts[k].fate = "chained" THEN 10 + k ELSE 1, {}, 0)],
              returns |-> Became("returned") \cup {30}, flows |-> {{v, v + 10} : v \in Became("bound")},
              compares |-> {{v, 4} : v \in Became("compared")}, writes |-> {{v, 5} : v \in Became("stored")},
              bases |-> Became("read")]]

Statements == {Builds_(name, on, fate) : name \in {"redirect", "jsonify", "render"}, on \in {"framework", "parameter"},
                 fate \in {"dropped", "returned", "passed", "chained", "bound", "compared", "stored", "read"}}
AnswerSources ==
  {Answers(<<a, b>>, TRUE) : a \in Statements, b \in Statements}
  \cup {Answers(<<a, b, c>>, TRUE) : a \in Statements, b \in Statements,
           c \in {Builds_("redirect", "framework", fate) : fate \in {"dropped", "returned"}}}

(* Two constructors only their methods name.                               *)
UnnamedSources == {Answers(<<a, b>>, FALSE) : a \in Statements, b \in Statements}

MCSources ==
  {CASE family = "siblings"     -> SiblingSources
     [] family = "alias"        -> AliasSources
     [] family = "twoquestions" -> TwoQuestionSources
     [] family = "permission"   -> PermissionSources
     [] family = "route"        -> RouteSources
     [] family = "candidates"   -> CandidateSources
     [] family = "key"          -> KeySources
     [] family = "defaultkey"   -> DefaultKeySources
     [] family = "reset"        -> ResetSources
     [] family = "listeners"    -> ListenerSources
     [] family = "returning"    -> ReturningSources
     [] family = "answers"      -> AnswerSources
     [] family = "unnamed"      -> UnnamedSources
     [] family = "twins"        -> TwinListSources : family \in SourceFamilies}

-----------------------------------------------------------------------------
(* Applications for Declared.  Values of a method: 1 self, 2 the request,  *)
(* 3 a key of the route, 4 a key of the body, 5 the accessor self.project, *)
(* 6 the caller, 7 a query, 8 what is bound, put together or returned.     *)
MCLocal == 1 .. 8

Reads_ == [n \in 1 .. 4 |-> [op |-> "property", from |-> <<1, 2, 1, 2>>[n], to |-> n + 2]]
Asks_(on, args, result, method) ==
  [op |-> "call", on |-> on, args |-> args, result |-> result, method |-> method,
   mutates |-> method \in {"delete", "update"}]

Method(body, leaf) ==
  [kind |-> <<"param", "param", "property", "property", "property", "property", "local", "local">>,
   base |-> <<0, 0, 1, 2, 1, 2, 0, 0>>, self |-> 1, identity |-> {6}, keyed |-> {3, 4},
   leaf |-> <<"", "", "project_id", leaf, "project", "user", "", "">>,
   head |-> <<"", "", "kwargs", "data", "project", "user", "", "">>,
   container |-> <<"", "", "kwargs", "data", "self", "request", "", "">>,
   steps |-> Reads_ \o body]

Binds == {<<[op |-> "enclose", from |-> 4, to |-> 8], [op |-> "enclose", from |-> from, to |-> 8]>> : from \in {3, 4, 6}}
           \cup {<<[op |-> "assign", from |-> 4, to |-> 8]>>, <<Asks_(1, {}, 8, "project")>>}
Methods_(leaf) ==
  {Method(bind \o <<Asks_(0, args, 7, "filter"), Asks_(7, {}, 0, "delete"), then>>, leaf) :
     bind \in Binds, args \in {{3}, {4}, {8}, {4, 5}, {4, 8}},
     then \in {Asks_(8, {}, 0, "update"), Asks_(0, {4}, 0, "update")}}

Key_(key, loc) == [key |-> key, loc |-> loc]
AView(authorizes, resolves, methods) ==
  [framework |-> TRUE, authorizes |-> authorizes, selects |-> <<>>, constrains |-> <<>>,
   resolves |-> resolves, relation |-> FALSE, methods |-> methods]
Resolving == {<<>>, <<[by |-> "project", key |-> "project_id"]>>}

EmptyViewSources ==
  {[views |-> <<[AView(authorizes, <<>>, <<>>) EXCEPT !.framework = framework, !.selects = selects,
                   !.constrains = constrains, !.relation = relation]>>, bodies |-> <<>>] :
     authorizes \in {{}, {"project_id"}, {"project_id", "ids"}}, framework \in BOOLEAN, relation \in BOOLEAN,
     selects \in {<<>>} \cup {<<Key_(key, 1)>> : key \in {"project_id", "label_id"}},
     constrains \in {<<>>} \cup {<<Key_("label_id", 2), Key_(key, 3)>> : key \in {"project_id", "ids"}}}

MethodSources(leaf, authorized) ==
  {[views |-> <<AView(authorizes, resolves, <<1>>), AView({"project_id"}, <<>>, <<1>>)>>, bodies |-> <<body>>] :
     authorizes \in {{}, authorized}, resolves \in Resolving, body \in Methods_(leaf)}

MCApplications ==
  UNION {CASE family = "empty"   -> EmptyViewSources
           [] family = "methods" -> MethodSources("ids", {"project_id"})
           (* A key of the body bears the name of the one the check reads. *)
           [] family = "names"   -> MethodSources("project_id", {"project_id"}) : family \in ApplicationFamilies}

-----------------------------------------------------------------------------
(* One part at a time.                                                     *)
NoProgram == KeyProgram(Straight, Straight, <<>>, <<>>)
NoPattern == Profile({A}, {A}, {"once"}, 0)
NoSource  == [kind |-> "none"]
NoViews   == [views |-> <<>>, bodies |-> <<>>]

StIdle == program = NoProgram /\ reported = {} /\ stack = <<>> /\ steps = -1
RxIdle == /\ profile = NoPattern /\ stage = "read" /\ read = 0
          /\ open = <<>> /\ readable = TRUE /\ nested = FALSE
OmIdle == source = NoSource /\ accused = <<"not judged">>

DeIdle == /\ app = NoViews /\ view_ = 1 /\ method_ = 1 /\ step_ = 1 /\ saidKeys = {} /\ filed = {} /\ atLine = 1
          /\ request = [view |-> 0, method |-> 0, record |-> <<>>] /\ madeOf = <<>>

anVars == <<stVars, rxVars, omVars, deVars, part>>

AnInit ==
  \/ part = "store"     /\ StInit /\ RxIdle /\ OmIdle /\ DeIdle
  \/ part = "regex"     /\ StIdle /\ RxInit /\ OmIdle /\ DeIdle
  \/ part = "omissions" /\ StIdle /\ RxIdle /\ OmInit /\ DeIdle
  \/ part = "declared"  /\ StIdle /\ RxIdle /\ OmIdle /\ DeInit

JudgeWrites       == part = "store"     /\ StNext /\ UNCHANGED <<rxVars, omVars, deVars, part>>
JudgePattern      == part = "regex"     /\ RxNext /\ UNCHANGED <<stVars, omVars, deVars, part>>
JudgeOmission     == part = "omissions" /\ OmNext /\ UNCHANGED <<stVars, rxVars, deVars, part>>
JudgeDeclarations == part = "declared"  /\ DeNext /\ UNCHANGED <<stVars, rxVars, omVars, part>>

AnNext == JudgeWrites \/ JudgePattern \/ JudgeOmission \/ JudgeDeclarations

AnSpec == AnInit /\ [][AnNext]_anVars
=============================================================================
