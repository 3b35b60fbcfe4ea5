-------------------------------- MODULE Flow --------------------------------
(***************************************************************************)
(* The join of the renders with the views (flow/flow.go, flow/context.go). *)
(* A render hands a context to a view, the view extends and includes other *)
(* views, and every interpolation whose name the context binds becomes a   *)
(* sink in the function that rendered.                                     *)
(*                                                                         *)
(* A view is identified by the segments of its path, an access path is a   *)
(* sequence of names, and a template carries, outermost first, the loops   *)
(* around each of its reads and includes (frontends/python, templates.py). *)
(* A function is the sequence of what it does to its mappings: `on` is the *)
(* local, `with` the other mapping or the function called, `made` the      *)
(* value the right-hand side produced, `keys` what was written, by name.   *)
(***************************************************************************)
EXTENDS Integers, Sequences, FiniteSets, SequencesExt, TLC

CONSTANTS
  Sites,        \* families of applications
  MappingHops,  \* how far construction is followed
  MaxWalk,      \* bound: views opened for one render
  MaxDepth,     \* bound: extends and includes from the rendered view, in the reference
  MaxScans      \* bound: scans over one program

VARIABLES
  app,          \* the templates, the functions, the renders, the calls of helpers
  stage,        \* "idle", "joining" or "done"
  joined,       \* this program's views have been joined
  queue,        \* renders whose view is known, still to be written
  rendering,    \* the one being written
  todo,         \* the views still to be opened for it, a stack
  walked,       \* the views opened for it, with what their names stand for
  seen,         \* one key per sink written
  sinks,        \* the sinks written into the program, in order
  scans

flVars == <<app, stage, joined, queue, rendering, todo, walked, seen, sinks, scans>>

Nothing == [x \in {} |-> x]

-----------------------------------------------------------------------------
(* What the frontend says of a template: a read has its loops resolved,    *)
(* innermost first; an include names each loop around it as it stands, and *)
(* an outer loop of the same name is the one that is kept.                 *)

RECURSIVE ReadPath(_, _)
ReadPath(path, loops) ==
  IF loops = <<>> THEN path
  ELSE LET l == Last(loops)
       IN ReadPath(IF Head(path) = l.name THEN l.over \o Tail(path) ELSE path, Front(loops))

IncludeRebind(loops) ==
  [n \in {l.name : l \in Range(loops)} |-> SelectSeq(loops, LAMBDA l : l.name = n)[1].over]

-----------------------------------------------------------------------------
(* Which names a mapping carries, as far as construction is followed.      *)

OwnerOfValue(a, id) ==
  CHOOSE f \in DOMAIN a.fns : \E s \in Range(a.fns[f]) : id \in {s.on, s.made}

(* Defect: the first definition of a name is the one that stays.           *)
MergeKeeping(into, from) == into @@ from

Merge(into, from) == from @@ into
Filled(a, f, Is(_), Names(_)) ==
  FoldLeft(LAMBDA m, s : IF Is(s) THEN Merge(m, Names(s)) ELSE m, Nothing, a.fns[f])

Flows(s)   == s.op \in {"literal", "dict", "build", "copy"}
FromOf(s)  == IF s.op = "copy" THEN s.with ELSE s.made
Returns(a, f) == {s.with : s \in {t \in Range(a.fns[f]) : t.op = "return"}}

(* Construction first, then what was written into it; later entries win.   *)
RECURSIVE Mapping(_, _, _, _)
Mapping(a, id, hops, open) ==
  IF hops <= 0 \/ id \in open THEN Nothing
  ELSE LET f == OwnerOfValue(a, id)
           Of(v) == Mapping(a, v, hops - 1, open \cup {id})
           entries     == Filled(a, f, LAMBDA s : s.op = "literal" /\ s.made = id, LAMBDA s : s.keys)
           flowed      == Filled(a, f, LAMBDA s : Flows(s) /\ s.on = id, LAMBDA s : Of(FromOf(s)))
           \* A call made it, or updates it from another mapping.
           called(s)   == \/ s.op \in {"dict", "build"} /\ s.made = id
                          \/ s.op = "update" /\ s.on = id
           supplied(s) == CASE s.op = "dict" -> s.keys
                            [] s.op = "update" -> Of(s.with)
                            [] s.op = "build" ->
                                 FoldSet(LAMBDA r, m : Merge(m, Of(r)), Nothing, Returns(a, s.with))
           written     == Filled(a, f, LAMBDA s : s.op = "write" /\ s.on = id, LAMBDA s : s.keys)
       IN Merge(Merge(Merge(entries, flowed), Filled(a, f, called, supplied)), written)

Context(a, r) ==
  FoldLeft(LAMBDA m, id : Merge(m, Mapping(a, id, MappingHops, {})), Nothing, r.contexts)

-----------------------------------------------------------------------------
(* Which view a render renders: the one it names, or, in a helper that is  *)
(* handed the name, the one each caller names.                             *)

EndsWith(id, name) == Len(name) <= Len(id) /\ SubSeq(id, Len(id) - Len(name) + 1, Len(id)) = name

(* The name's one view; of several, the one under a directory of templates.*)
ResolveName(ids, name) ==
  LET hits    == IF ".." \in Range(name) THEN {} ELSE {id \in ids : EndsWith(id, name)}
      inViews == {id \in hits : "templates" \in Range(Front(id))}
  IN IF Cardinality(hits) = 1 THEN hits ELSE IF Cardinality(inViews) = 1 THEN inViews ELSE {}

KeywordArgs(c) == IF c.enumerated THEN c.keywords ELSE Nothing

AtCallSites(a, r) ==
  LET own      == Context(a, r)
      named(c) == c.callee = r.fn /\ c.name # <<>> /\ ResolveName(DOMAIN a.views, c.name) # {}
      bound(c) == Merge(Merge(own, r.bindings), IF r.forwards THEN KeywordArgs(c) ELSE Nothing)
      calls    == SelectSeq(a.calls, named)
  IN [k \in DOMAIN calls |->
        [view |-> CHOOSE v \in ResolveName(DOMAIN a.views, calls[k].name) : TRUE,
         fn |-> calls[k].fn, bind |-> bound(calls[k]), given |-> calls[k].keywords, of |-> r]]

ResolveRenders(a) ==
  FoldLeft(LAMBDA out, r :
    out \o IF r.fromParam THEN AtCallSites(a, r)
           ELSE <<[view |-> r.view, fn |-> r.fn, bind |-> Merge(Context(a, r), r.bindings), given |-> Nothing, of |-> r]>>,
    <<>>, a.renders)

-----------------------------------------------------------------------------
(* What a name of an included view stands for in the context.  Only the    *)
(* root of a path can be renamed.                                          *)

RebindPath(path, rebind) ==
  IF Head(path) \in DOMAIN rebind THEN rebind[Head(path)] \o Tail(path) ELSE path

(* Defect: an include that renames forgets what its view was included as.  *)
ComposeInnerOnly(inner, outer) ==
  IF inner = Nothing THEN outer ELSE [n \in DOMAIN inner |-> RebindPath(inner[n], outer)]

Compose(inner, outer) == [n \in DOMAIN inner |-> RebindPath(inner[n], outer)] @@ outer

(* Where the interpolation lands, and how its escaping was decided.        *)
Symbol(read) ==
  CASE read.context \in {"url-target", "url-part"} -> read.context
    [] read.escaped -> "escaped"
    [] read.context = "script" -> "script"
    [] OTHER -> "unescaped"

Key(r, read, src) == <<r.fn, read.loc, src>>

(* The sinks of one opened view, one per interpolation and bound value.    *)
WriteSinks(r, view, rebind, before) ==
  FoldLeft(LAMBDA w, read :
      LET path == RebindPath(ReadPath(read.path, read.loops), rebind)
          root == Head(path)
      IN IF root \notin DOMAIN r.bind \/ Key(r, read, r.bind[root]) \in w.seen THEN w
         ELSE [seen |-> w.seen \cup {Key(r, read, r.bind[root])},
               sinks |-> Append(w.sinks,
                 [fn |-> r.fn, loc |-> read.loc, src |-> r.bind[root], rest |-> Tail(path),
                  symbol |-> Symbol(read), marked |-> read.removed /\ ~read.escaped])],
    before, view.reads)

-----------------------------------------------------------------------------
FlInit ==
  /\ \E family \in Sites : app \in family
  /\ stage = "idle" /\ joined = FALSE /\ scans = 0
  /\ queue = <<>> /\ rendering = Nothing /\ todo = <<>> /\ walked = {}
  /\ seen = {} /\ sinks = <<>>

(* Defect: a program whose views were joined is joined once more.          *)
JoinViewsAgain ==
  /\ stage = "idle"
  /\ joined' = TRUE
  /\ seen' = {}
  /\ queue' = ResolveRenders(app)
  /\ stage' = "joining"
  /\ UNCHANGED <<app, rendering, todo, walked, sinks, scans>>

JoinViews ==
  /\ stage = "idle"
  /\ \/ /\ joined \/ DOMAIN app.views = {} \/ app.renders = <<>>
        /\ stage' = "done"
        /\ UNCHANGED <<joined, seen, queue>>
     \/ /\ ~joined /\ DOMAIN app.views # {} /\ app.renders # <<>>
        /\ joined' = TRUE
        /\ seen' = {}
        /\ queue' = ResolveRenders(app)
        /\ stage' = "joining"
  /\ UNCHANGED <<app, rendering, todo, walked, sinks, scans>>

Render ==
  /\ stage = "joining" /\ todo = <<>> /\ queue # <<>>
  /\ rendering' = Head(queue)
  /\ queue' = Tail(queue)
  /\ todo' = <<[view |-> Head(queue).view, rebind |-> Nothing]>>
  /\ walked' = {}
  /\ UNCHANGED <<app, stage, joined, seen, sinks, scans>>

Opened(v, at) ==
  [k \in DOMAIN v.extends |-> [view |-> v.extends[k], rebind |-> at.rebind]] \o
  [k \in DOMAIN v.includes |->
     [view |-> v.includes[k].view, rebind |-> Compose(IncludeRebind(v.includes[k].loops), at.rebind)]]

(* The view on top was opened already, or is none of the program's.        *)
Close ==
  /\ todo # <<>>
  /\ Head(todo) \in walked \/ Head(todo).view \notin DOMAIN app.views
  /\ todo' = Tail(todo)
  /\ UNCHANGED <<app, stage, joined, queue, rendering, walked, seen, sinks, scans>>

(* Defect: a view is opened wherever it is named, opened before or not.    *)
(* Six is a bound: no stack of the run gets there with a memory.           *)
OpenWithoutMemory ==
  /\ todo # <<>> /\ Len(todo) < 6 /\ Cardinality(walked) < MaxWalk
  /\ Head(todo).view \in DOMAIN app.views
  /\ LET at  == Head(todo)
         v   == app.views[at.view]
         out == WriteSinks(rendering, v, at.rebind, [seen |-> seen, sinks |-> sinks])
     IN /\ walked' = walked \cup {at}
        /\ todo' = Opened(v, at) \o Tail(todo)
        /\ seen' = out.seen /\ sinks' = out.sinks
  /\ UNCHANGED <<app, stage, joined, queue, rendering, scans>>

Open ==
  /\ todo # <<>> /\ Cardinality(walked) < MaxWalk
  /\ Head(todo) \notin walked /\ Head(todo).view \in DOMAIN app.views
  /\ LET at  == Head(todo)
         v   == app.views[at.view]
         out == WriteSinks(rendering, v, at.rebind, [seen |-> seen, sinks |-> sinks])
     IN /\ walked' = walked \cup {at}
        /\ todo' = Opened(v, at) \o Tail(todo)
        /\ seen' = out.seen /\ sinks' = out.sinks
  /\ UNCHANGED <<app, stage, joined, queue, rendering, scans>>

Joined ==
  /\ stage = "joining" /\ todo = <<>> /\ queue = <<>>
  /\ stage' = "done"
  /\ UNCHANGED <<app, joined, queue, rendering, todo, walked, seen, sinks, scans>>

ScanAgain ==
  /\ stage = "done" /\ scans < MaxScans
  /\ scans' = scans + 1
  /\ stage' = "idle"
  /\ UNCHANGED <<app, joined, queue, rendering, todo, walked, seen, sinks>>

FlStep == JoinViews \/ Render \/ Close \/ Open \/ Joined
FlNext == FlStep \/ ScanAgain

(* One sequential pass: as long as it has a step to take, it takes it.     *)
FlSpec == FlInit /\ [][FlNext]_flVars /\ WF_flVars(FlStep)

-----------------------------------------------------------------------------
(* Reference: what the functions really build, mappings being shared by    *)
(* every name they were assigned to.                                       *)

RECURSIVE Run(_, _)
Run(a, f) ==
  LET Bind(m, local, object) == [m EXCEPT !.env = (local :> object) @@ @]
      Fresh(m, local, keys) == Bind([m EXCEPT !.heap = Append(@, keys)], local, Len(m.heap) + 1)
      Put(m, local, keys) == [m EXCEPT !.heap[m.env[local]] = keys @@ @]
      Step(m, s) ==
        CASE s.op \in {"literal", "dict"} -> Fresh(m, s.on, s.keys)
          [] s.op = "copy" -> Bind(m, s.on, m.env[s.with])
          [] s.op = "build" -> Fresh(m, s.on, Run(a, s.with).back)
          [] s.op = "update" -> Put(m, s.on, m.heap[m.env[s.with]])
          [] s.op = "write" -> Put(m, s.on, s.keys)
          [] s.op = "return" -> [m EXCEPT !.back = m.heap[m.env[s.with]]]
  IN FoldLeft(Step, [env |-> Nothing, heap |-> <<>>, back |-> Nothing], a.fns[f])

Handed(a, r) ==
  LET ran == Run(a, r.of.fn)
  IN (IF r.of.forwards THEN r.given ELSE Nothing)
     @@ (r.of.bindings
     @@ FoldLeft(LAMBDA m, id : ran.heap[ran.env[id]] @@ m, Nothing, r.of.contexts))

(* Reference: the pages a view writes, each opened view with all the loops *)
(* around it, and the path of the context an interpolation there writes.   *)
RECURSIVE Pages(_, _, _, _)
Pages(a, view, loops, depth) ==
  IF view \notin DOMAIN a.views \/ depth = 0 THEN {}
  ELSE LET v == a.views[view]
       IN {<<view, loops>>}
          \cup UNION {Pages(a, v.extends[k], loops, depth - 1) : k \in DOMAIN v.extends}
          \cup UNION {Pages(a, v.includes[k].view, loops \o v.includes[k].loops, depth - 1) : k \in DOMAIN v.includes}

RECURSIVE Denotes(_, _)
Denotes(path, loops) ==
  IF loops = <<>> THEN path
  ELSE Denotes(IF Head(path) = Last(loops).name THEN Last(loops).over \o Tail(path) ELSE path, Front(loops))

Written(a, r, depth) ==
  UNION {LET v == a.views[page[1]]
         IN {[loc |-> v.reads[k].loc, path |-> Denotes(v.reads[k].path, page[2] \o v.reads[k].loops)] : k \in DOMAIN v.reads} :
         page \in Pages(a, r.view, <<>>, depth)}

(* What the join supposes of an application, and what the families         *)
(* overwritten, innerloop and tree do without.  A mapping is made once,    *)
(* updated from others, and written into last: context.go 80-99 applies    *)
(* what was written last wherever it stands, so a write that an update     *)
(* replaces still supplies its value.                                      *)
Rank(op) == CASE op = "update" -> 2 [] op = "write" -> 3 [] OTHER -> 1
BuiltThenWritten(a) ==
  \A f \in DOMAIN a.fns : \A i, j \in DOMAIN a.fns[f] :
    i < j /\ a.fns[f][i].on = a.fns[f][j].on /\ a.fns[f][i].op # "return" =>
      LET first == Rank(a.fns[f][i].op)   then == Rank(a.fns[f][j].op)
      IN  first <= then /\ then # 1

(* The loops around one include name different variables, none of them     *)
(* over another's: templates.py 360-366 hands each on as it stands, so     *)
(* what the inner one runs over keeps the outer one's name.                *)
LoopsStandAlone(a) ==
  \A v \in DOMAIN a.views : \A k \in DOMAIN a.views[v].includes :
    LET loops == a.views[v].includes[k].loops
    IN  \A i, j \in DOMAIN loops :
          i # j => loops[i].name \notin {loops[j].name, Head(loops[j].over)}

(* No loop around an include runs over a part of its own variable, however *)
(* many includes lie between: a view that includes itself for the elements *)
(* of what it was given renames its root to an ever longer path, which is  *)
(* a view never opened before (flow.go 318, 341), and reach never returns. *)
NamesAreApart(a) ==
  LET loops == UNION {Range(i.loops) : i \in UNION {Range(a.views[v].includes) : v \in DOMAIN a.views}}
      names == {l.name : l \in loops}
      reach[S \in SUBSET names, n \in 0 .. Cardinality(names)] ==
        IF n = 0 THEN S
        ELSE LET T == reach[S, n - 1]
             IN  T \cup (names \cap {Head(l.over) : l \in {m \in loops : m.name \in T}})
  IN  \A l \in loops :
        l.name \notin (IF Head(l.over) \in names THEN reach[{Head(l.over)}, Cardinality(names)] ELSE {})

(* In an application that builds a mapping before it writes into it, the   *)
(* value the render really hands over under a name, by literal, call,      *)
(* copy, builder, update or write and through a helper's caller, is the    *)
(* value the views' names are joined with (context.go 36, 51).             *)
NamesHandedOverArrive ==
  stage = "joining" /\ rendering # Nothing /\ BuiltThenWritten(app) => rendering.bind = Handed(app, rendering)

(* Once a render's views have all been opened, every interpolation that    *)
(* writes one of its values has a sink for that value in the function that *)
(* rendered, through every view extended and included, and every sink of   *)
(* the render is an interpolation of its own views (flow.go 308, 400), as  *)
(* long as no loop around an include leans on another one.                 *)
PageWritesAreSinks ==
  stage = "joining" /\ rendering # Nothing /\ todo = <<>> /\ LoopsStandAlone(app) =>
    LET r    == rendering
        page == {w \in Written(app, r, MaxDepth) : Head(w.path) \in DOMAIN r.bind}
        out  == {s \in Range(sinks) : s.fn = r.fn}
    IN /\ \A w \in page : \E s \in out : s.loc = w.loc /\ s.src = r.bind[Head(w.path)]
       /\ queue = <<>> /\ r.of.view # <<>> =>
            \A s \in out : \E w \in page : /\ s.loc = w.loc /\ s.src = r.bind[Head(w.path)]
                                           /\ s.rest = Tail(w.path)

(* Scanning one program twice reports each interpolation once per function *)
(* and value: no sink is written a second time (flow.go 71, 416).          *)
NothingIsWrittenTwice ==
  \A i, j \in DOMAIN sinks :
    i # j => <<sinks[i].fn, sinks[i].loc, sinks[i].src>> # <<sinks[j].fn, sinks[j].loc, sinks[j].src>>

(* Together: what a render hands over is a sink wherever a page writes it, *)
(* and once (flow.go 71, 308, context.go 36), where mappings are built     *)
(* before they are written into and no loop around an include leans on     *)
(* another one.                                                            *)
WritesArriveAsSinks == NamesHandedOverArrive /\ PageWritesAreSinks /\ NothingIsWrittenTwice

(* However the views extend and include each other, in circles too, the    *)
(* join ends (flow.go 319), unless a loop around an include runs over a    *)
(* part of its own variable.                                               *)
JoinEnds == [](stage = "joining" /\ NamesAreApart(app) => <>(stage = "done"))
=============================================================================
