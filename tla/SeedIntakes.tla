----------------------------- MODULE SeedIntakes -----------------------------
(***************************************************************************)
(* Programs for Seeds to be checked on: handlers whose routes name their   *)
(* parameters, call graphs with what a request can reach in them, views of *)
(* one class, and requests that write and read the rows of two tables.     *)
(***************************************************************************)
EXTENDS Seeds

CONSTANT IntakeFamilies

-----------------------------------------------------------------------------
Words == {"request", "query", "token", "tokens", "csrf_token", "id", "name", "db", "user", "users", "usersRepository",
          "team", "objects", "first", "sessionCache", "text", "", "data", "where", "create", "findOne", "get", "filter"}

MCInside ==
  [w \in Words |-> CASE w \in {"token", "tokens"} -> {"token"}
                     [] w = "csrf_token" -> {"token", "csrf"}
                     [] w = "sessionCache" -> {"cache"}
                     [] OTHER -> {}]

MCFolded ==
  [w \in Words |-> CASE w \in {"users", "usersRepository"} -> "user"
                     [] w = "csrf_token" -> "csrftoken"
                     [] OTHER -> w]

Src_(kind, base, path, name, from) == [kind |-> kind, base |-> base, path |-> path, name |-> name, from |-> from]
Local_ == Src_("local", 0, <<>>, "", 0)
Prop_(base, path) == Src_("property", base, path, "", 0)

Def_(name, class, params, vals, calls) == [name |-> name, class |-> class, params |-> params, vals |-> vals, calls |-> calls]
Par_(val, index, name) == [val |-> val, index |-> index, name |-> name]

At_(symbol, method, args, result) ==
  [symbol |-> symbol, method |-> method, type |-> "", args |-> args, result |-> result, to |-> 0, passes |-> {},
   numbers |-> {}, words |-> {}, options |-> {}]
To_(f)      == [At_(<<>>, "", <<>>, 0) EXCEPT !.to = f]
Handing_(f) == [At_(<<"users", "map">>, "map", <<>>, 0) EXCEPT !.passes = {f}]

Reg_(f, method, path) ==
  [fn |-> f, kind |-> "http", framework |-> "", method |-> method, path |-> path, written |-> <<>>, recorded |-> <<>>,
   word |-> "", trust |-> ""]
Job_(f, word) == [Reg_(f, "", <<>>) EXCEPT !.kind = "job", !.word = word, !.trust = "internal"]

Leaf_ == [holds |-> {}, equals |-> {}, except |-> {}]
AtEntry == [entryKind |-> "http", framework |-> ""]
OnPath_    == [match |-> "route-path-param"] @@ AtEntry
OfParam_(index, paths) == [match |-> "entry-param-property", index |-> index, paths |-> paths] @@ AtEntry @@ Leaf_
OfCall_    == [match |-> "entry-call-property", index |-> 0, paths |-> {<<"query">>, <<"token">>}] @@ AtEntry @@ Leaf_
OfView_    == [match |-> "view-instance-property", paths |-> {<<"request", "query">>}, framework |-> "django"] @@ AtEntry @@ Leaf_
OfGlobal_(exact) == [match |-> "global-property", symbol |-> "request", paths |-> {<<"query">>}, exact |-> exact] @@ Leaf_
OfKind_    == [match |-> "value-kind", kind |-> "caught"]
OfLeaf_    == [match |-> "property", holds |-> {"token"}, equals |-> {"id"}, except |-> {"csrf"}]
OfResult_(leaf) == [match |-> "call-result", symbol |-> <<"db", "first">>, leaf |-> leaf, below |-> {[index |-> 0, than |-> 16]},
                    words |-> {}]
OfWord_    == [match |-> "call-result", symbol |-> <<"db", "first">>, leaf |-> FALSE, below |-> {}, words |-> {"md5"}]
OfMethod_  == [match |-> "call-method-result", method |-> "text"]
OfHook_(paths) == [match |-> "function-param-property", function |-> "hook", index |-> 0, paths |-> paths]
OfStore_   == [match |-> "store-read", writtenClass |-> "untrusted", medium |-> "orm"]

Intake_(fns, val, entries, rules, stores, carried) ==
  [fns |-> fns, val |-> val, entries |-> entries, rules |-> rules, stores |-> stores,
   prior |-> [c \in {"untrusted"} |-> carried]]

-----------------------------------------------------------------------------
(* Two routes of one handler and one of another, each naming a capture in  *)
(* one of the three ways, or recorded apart from the path.                 *)
In_(mark, a, b) == [mark |-> mark, words |-> <<a, b>>]
Ways == {<<<<In_(":", "id", "")>>, <<>>>>, <<<<In_("<", "int", "id")>>, <<>>>>, <<<<In_("{", "id", "int")>>, <<>>>>,
         <<<<In_("{", "id", "path"), In_(":", "name", "")>>, <<>>>>, <<<<In_(":", "name", "")>>, <<>>>>,
         <<<<In_(":", "id", "")>>, <<[converter |-> "int", name |-> "id"]>>>>,
         <<<<>>, <<[converter |-> "slug", name |-> "name"], [converter |-> "", name |-> "id"]>>>>, <<<<>>, <<>>>>}

RegOn(f, path, way, framework) ==
  [Reg_(f, "GET", path) EXCEPT !.written = way[1], !.recorded = way[2], !.framework = framework]

RouteIntakes ==
  {Intake_(<<Def_("show", "", <<Par_(1, 0, "req"), Par_(2, 1, "id"), Par_(3, 2, "name")>>, <<1, 2, 3, 4, 5, 6>>,
                  <<At_(<<"parse">>, "parse", <<[val |-> 1, index |-> 0]>>, 5)>>),
             Def_("list", "", <<Par_(7, 0, "id")>>, <<7>>, <<>>)>>,
           <<Local_, Local_, Local_, Prop_(1, <<"query", "id">>), Local_, Prop_(5, <<"token">>), Local_>>,
           <<RegOn(1, <<"a">>, first, fw), RegOn(1, <<"b">>, second, ""), RegOn(2, <<"c">>, first, "flask")>>,
           rules, <<>>, {}) :
     first \in Ways, second \in Ways, fw \in {"", "django"},
     rules \in {<<OnPath_, OfParam_(0, {<<"query">>}), OfCall_>>, <<OfCall_, [OnPath_ EXCEPT !.framework = "flask"], OnPath_>>}}

-----------------------------------------------------------------------------
(* A handler, a helper, a callback, a hook and a job, that call each other *)
(* or hand each other on.                                                  *)
Graphs == [{1, 2, 3, 5} -> {<<>>, <<To_(2)>>, <<To_(3)>>, <<Handing_(3)>>, <<To_(4), Handing_(2)>>}]

Answer(result, n) == [At_(<<"db", "first">>, "text", <<>>, result) EXCEPT !.numbers = {[index |-> 0, is |-> n]}, !.words = {"md5"}]

GraphIntakes ==
  {Intake_(<<Def_("show", "", <<>>, <<1, 2>>, calls[1]),
             Def_("load", "", <<>>, <<3, 4>>, calls[2] \o <<Answer(4, 8)>>),
             Def_("each", "", <<>>, <<5, 6>>, calls[3] \o <<Answer(6, 16)>>),
             Def_("hook", "", <<Par_(7, 0, "event")>>, <<7, 8>>, <<>>),
             Def_("sweep", "", <<>>, <<9>>, calls[5])>>,
           <<Src_("global", 0, <<>>, "request", 0), Prop_(1, <<"query", "token">>),
             Src_("local", 0, <<>>, "", 1), Local_,
             Prop_(3, <<"query">>), Local_,
             Src_("caught", 0, <<>>, "e", 0), Prop_(7, <<"csrf_token">>),
             Src_("caught", 0, <<>>, "e", 0)>>,
           <<Reg_(1, "GET", <<"a">>), Job_(5, "nightly")>>, rules, <<>>, {}) :
     calls \in {g \in Graphs : g[5] \in {<<>>, <<To_(2)>>, <<To_(4), Handing_(2)>>}},
     rules \in {<<OfKind_, OfGlobal_(FALSE), OfHook_({})>>, <<OfResult_(TRUE), OfMethod_, OfLeaf_>>,
                <<OfGlobal_(TRUE), OfWord_, OfHook_({<<"csrf_token">>})>>}}

-----------------------------------------------------------------------------
(* Views: methods of a class some route reaches, one of them routed.       *)
ViewIntakes ==
  {Intake_(<<Def_("get", class, <<Par_(1, 0, "self")>>, <<1, 2>>, <<>>),
             Def_("form", "View", <<Par_(3, 0, "self")>>, <<3, 4>>, calls),
             Def_("plain", "", <<Par_(5, 0, "self")>>, <<5, 6>>, <<>>)>>,
           <<Local_, Prop_(1, <<"request", "query", "id">>), Local_, Prop_(3, <<"request", "query">>),
             Local_, Prop_(5, <<"request", "query">>)>>,
           entries, <<OfView_, OfLeaf_>>, <<>>, {}) :
     class \in {"View", "Other", ""}, calls \in {<<>>, <<To_(1)>>, <<To_(3)>>},
     entries \in {<<Reg_(1, "GET", <<"a">>)>>, <<Reg_(1, "GET", <<"a">>), Reg_(2, "POST", <<"b">>)>>,
                  <<Reg_(1, "GET", <<"a">>), [Reg_(2, "POST", <<"b">>) EXCEPT !.framework = "drf"]>>,
                  <<Reg_(2, "POST", <<"b">>), Reg_(2, "PUT", <<"c">>), Job_(1, "x")>>, <<Job_(2, "x")>>}}

-----------------------------------------------------------------------------
(* Stores.                                                                 *)
Store_(direction, methods, alone, marks, namedBefore, valueArg) ==
  [direction |-> direction, medium |-> "orm", methods |-> methods, symbols |-> {}, types |-> {}, alone |-> alone,
   marks |-> marks, holds |-> {}, namedBefore |-> namedBefore, valueArg |-> valueArg]

Stores_ == <<Store_("read", {"findOne"}, TRUE, {}, ".", 0),
             Store_("read", {"first", "filter"}, FALSE, {"objects"}, "objects", 0),
             [Store_("read", {"get"}, FALSE, {}, ".", 0) EXCEPT !.medium = "key-value", !.holds = {"cache"}],
             Store_("write", {"create"}, TRUE, {}, ".", -1)>>

Column_(path, literal) == [path |-> path, literal |-> literal]
Options == {{Column_(<<"name">>, FALSE)}, {Column_(<<"data", "name">>, FALSE), Column_(<<"data">>, FALSE)},
            {Column_(<<"where", "id">>, FALSE), Column_(<<"name">>, TRUE)}}

Create(table, options, v) == [At_(<<"db", table, "create">>, "create", <<[val |-> v, index |-> 0]>>, 0) EXCEPT !.options = options]
Find(table, result)       == At_(<<"db", table, "findOne">>, "findOne", <<>>, result)

(* 1 and 2 handlers, 3 what writes for one of them, 4 a job.               *)
StoreIntakes ==
  {Intake_(<<Def_("add", "", <<>>, <<1, 2>>, first \o <<Create("users", options, 1), Find("user", 2)>>),
             Def_("show", "", <<>>, <<3>>, second \o <<read>>),
             Def_("save", "", <<>>, <<4>>, <<Create("usersRepository", {Column_(<<"id">>, FALSE)}, 4)>>),
             Def_("sweep", "", <<>>, <<5>>, <<Find("usersRepository", 5)>>)>>,
           <<Local_, Local_, Local_, Local_, Local_>>,
           entries, <<OfStore_>>, Stores_, carried) :
     first \in {<<>>, <<Handing_(3)>>}, second \in {<<>>, <<To_(3)>>}, options \in Options,
     read \in {Find("user", 3), Find("team", 3), At_(<<"user", "objects", "filter", "first">>, "first", <<>>, 3),
               At_(<<"user", "objects", "filter">>, "filter", <<>>, 3), At_(<<"sessionCache", "get">>, "get", <<>>, 3)},
     entries \in {<<Reg_(1, "POST", <<"a">>), Reg_(2, "GET", <<"b">>)>>, <<Reg_(2, "GET", <<"b">>), Job_(4, "x"), Job_(1, "y")>>,
                  <<Job_(4, "x"), Job_(1, "x"), Reg_(2, "GET", <<"b">>)>>, <<Reg_(2, "GET", <<"b">>)>>},
     carried \in {{1}, {4}, {1, 4}, {}}}

MCIntakes ==
  {CASE fam = "routes" -> RouteIntakes
     [] fam = "graphs" -> GraphIntakes
     [] fam = "views"  -> ViewIntakes
     [] fam = "stores" -> StoreIntakes : fam \in IntakeFamilies}

NoIntake == Intake_(<<>>, <<>>, <<>>, <<>>, <<>>, {})
SdIdle == /\ intake = NoIntake /\ due = <<>> /\ claims = NoClaims
          /\ seeds = <<>> /\ kept = <<>> /\ records = <<>>
=============================================================================
