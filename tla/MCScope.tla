------------------------------ MODULE MCScope -------------------------------
(***************************************************************************)
(* Handlers for the relations of Scope: the statements a rule looks for,   *)
(* placed in every way on the block graphs of                              *)
(* frontends/typescript/src/lower.ts, and lists of edges in every order.   *)
(***************************************************************************)
EXTENDS Scope, TLC

CONSTANT Families   \* which families to check

MCBlock == 1 .. 6
MCValue == 1 .. 8

Shape == [
  (* if (a) {2} {3} *)
  diamond |-> << <<2, 3>>, <<3>>, <<>> >>,
  (* if (a) { return } {4}; 3 is the orphan behind the return *)
  returns |-> << <<2, 4>>, <<>>, <<4>>, <<>> >>,
  (* if (a) {2: if (b) return 3} else {5} {6}; 4 is the rest of the first arm *)
  guarded |-> << <<2, 5>>, <<3, 4>>, <<>>, <<6>>, <<6>>, <<>> >> ]

-----------------------------------------------------------------------------
Call_(does, recv, args, result, inside) ==
  <<"call", [does |-> does, recv |-> recv, args |-> args, result |-> result, inside |-> inside]>>
Flow_(kind, from, to, inside) ==
  <<"flow", [kind |-> kind, from |-> from, to |-> to, inside |-> inside]>>
Compare_(left, right) == <<"compare", [left |-> left, right |-> right]>>

(* The handler with stmts[k] in block where[k]; 0 leaves a statement out.  *)
Placed(succs, stmts, where, values) ==
  LET Of(kind) == SelectSeq([k \in DOMAIN stmts |-> k],
                            LAMBDA i : stmts[i][1] = kind /\ where[i] # 0)
      picked == [kind \in {"call", "compare"} |-> Of(kind)]
      All(kind) == [n \in DOMAIN picked[kind] |->
                      [block |-> where[picked[kind][n]]] @@ stmts[picked[kind][n]][2]]
      index == [k \in {i \in DOMAIN stmts : where[i] # 0} |->
                  <<stmts[k][1], CHOOSE n \in DOMAIN picked[stmts[k][1]] :
                                   picked[stmts[k][1]][n] = k>>]
      TextOf(b) == LET own == SelectSeq([j \in DOMAIN stmts |-> j], LAMBDA i : where[i] = b)
                   IN  [n \in DOMAIN own |-> index[own[n]]]
  IN  [entry |-> 1, order |-> [b \in DOMAIN succs |-> b], succs |-> succs, loopHeader |-> {},
       calls |-> All("call"), compares |-> All("compare"),
       text |-> [b \in DOMAIN succs |-> TextOf(b)]] @@ values

(* Every placement that puts statement k into one of allowed[k].           *)
Placements(allowed, blocks) ==
  LET Upto[n \in 0 .. Len(allowed)] ==
        IF n = 0 THEN {<<>>}
        ELSE {Append(w, b) : w \in Upto[n - 1], b \in allowed[n] \cap ({0} \cup blocks)}
  IN  Upto[Len(allowed)]

Everywhere(shapes, stmts, allowed, values) ==
  UNION {{Placed(Shape[s], stmts, w, values) : w \in Placements(allowed, DOMAIN Shape[s])} :
           s \in shapes}

-----------------------------------------------------------------------------
(* 1 req, 2 = 1.body or 1.query, 3 = 2.projectId, 4 = 2.strategyId, 5 the  *)
(* session's user, 6 a structure, 7 a record, 8 = 7.ownerId.               *)
Request(container, flows) ==
  [rule |-> "key",
   kind |-> <<"param", "property", "property", "property", "local", "local", "local", "property">>,
   base |-> <<0, 1, 2, 2, 0, 0, 0, 7>>,
   name |-> <<"req", container, "projectId", "strategyId", "user", "where", "row", "ownerId">>,
   keyed |-> {3, 4, 8}, routed |-> {}, identity |-> {5},
   flows |-> flows]

Ask    == Call_({"authorizes"}, 0, <<5, 3>>, 0, 0)
Lookup(args) == Call_({}, 0, args, 7, 0)
Write(args)  == Call_({"mutates"}, 0, args, 0, 0)
Into(from, to)  == [kind |-> "enclose", from |-> from, to |-> to, inside |-> 0]
Gives(from, to) == [kind |-> "assign", from |-> from, to |-> to, inside |-> 0]
Reads(from, to) == [kind |-> "property", from |-> from, to |-> to, inside |-> 0]

(* The reads lowering lists for the request's own fields.                  *)
Opened == <<Reads(1, 2), Reads(2, 3), Reads(2, 4), Reads(7, 8)>>

(* How the two keys are related, what is written, the edges, the container.*)
KeysFamily(shapes) ==
  UNION {Everywhere(shapes, <<Ask, way[1], Write(way[2])>>,
           <<{1, 2}, {0, 1, 2, 3, 4, 5, 6}, {2, 3, 4, 6}>>, Request(way[4], Opened \o way[3])) :
    way \in {<<Lookup(<<3, 4>>), <<4>>, <<>>, "query">>,
            <<Lookup(<<4>>), <<4>>, <<>>, "query">>,
            <<Compare_(8, 5), <<4>>, <<>>, "query">>,
            <<Compare_(3, 4), <<4>>, <<>>, "query">>,
            <<Compare_(4, 7), <<4>>, <<>>, "query">>,
            <<Lookup(<<3, 4>>), <<4>>, <<>>, "body">>,
            <<Lookup(<<3, 4>>), <<6>>, <<Into(4, 6)>>, "query">>,
            <<Lookup(<<4>>), <<6>>, <<Into(4, 6), Into(3, 6)>>, "query">>,
            <<Lookup(<<4>>), <<3, 4>>, <<>>, "query">>,
            <<Lookup(<<4>>), <<3, 6>>, <<Into(4, 6)>>, "query">>}}

(* A key that reaches a value directly and inside structures, the edges in *)
(* every order of the list.                                                *)
Reorderings(seq) == {[i \in DOMAIN seq |-> seq[p[i]]] : p \in Permutations(DOMAIN seq)}

ContainersFamily(shapes) ==
  UNION {{Placed(Shape[shape], <<Write(<<8>>)>>, <<1>>, [Request("body", flows) EXCEPT !.base[8] = 0,
                                                     !.kind[8] = "local", !.keyed = {3, 4}]) :
            flows \in Reorderings(list), shape \in shapes} :
    list \in {<<Gives(3, 5), Into(3, 6), Into(5, 7), Gives(6, 8), Gives(7, 8)>>,
              <<Into(4, 6), Into(6, 7), Gives(7, 5), Gives(5, 8), Gives(3, 8)>>,
              <<Into(4, 7), Gives(7, 6), Gives(4, 6), Into(6, 8)>>,
              <<Gives(3, 5), Into(5, 6), Reads(6, 7), Gives(7, 8), Gives(8, 7)>>}}

(* 1 req, 2 ctx, 3 = 2.repo, 4 = 2.systemRepo, 5 the id of the route, 6 a  *)
(* structure or an alias, 7 = 2.project, 8 a record.                       *)
Context(flows) ==
  [rule |-> "accessor",
   kind |-> <<"param", "local", "property", "property", "param", "local", "property", "local">>,
   base |-> <<0, 0, 2, 2, 0, 0, 2, 0>>,
   name |-> <<"req", "ctx", "repo", "systemRepo", "id", "tmp", "project", "row">>,
   keyed |-> {5}, routed |-> {5}, identity |-> {},
   flows |-> flows]

Beside == <<Reads(2, 3), Reads(2, 4), Reads(2, 7)>>
Check(recv, args) == Call_({"authorizes"}, recv, args, 0, 0)
Fetch(recv, args) == Call_({}, recv, args, 8, 0)
Select(recv, args, inside) == Call_({"selects"}, recv, args, 0, inside)

AccessorsFamily(shapes) ==
  UNION {Everywhere(shapes, <<Check(3, <<>>), way[1], Select(way[2], way[3], 0)>>,
           <<{1, 2}, {0, 1, 2, 3, 4, 6}, {2, 3, 4, 6}>>, Context(Beside \o way[4])) :
    way \in {<<Fetch(3, <<5>>), 4, <<5>>, <<>>>>,
            <<Fetch(4, <<5>>), 4, <<5>>, <<>>>>,
            <<Fetch(3, <<5>>), 4, <<8>>, <<>>>>,
            <<Compare_(5, 7), 4, <<5>>, <<>>>>,
            <<Compare_(5, 8), 4, <<5>>, <<>>>>,
            <<Check(4, <<>>), 4, <<5>>, <<>>>>,
            <<Fetch(3, <<5>>), 4, <<5, 7>>, <<>>>>,
            <<Fetch(3, <<5>>), 6, <<5>>, <<Gives(4, 6)>>>>,
            <<Fetch(3, <<5>>), 6, <<5>>, <<Gives(4, 6), Gives(3, 6)>>>>}}

(* ctx.systemRepo.do(() => { lookup; select }), the check and a lookup     *)
(* before or inside.                                                       *)
CallbacksFamily(shapes) ==
  UNION {Everywhere(shapes,
           <<Check(3, <<>>), Call_({}, 4, <<>>, 0, 0), Call_({}, recv, <<5>>, 8, 2),
             Call_({"selects"}, on, <<5>>, 0, 2)>>,
           <<{1, 2}, {b}, {b}, {b}>>, Context(Beside)) :
    b \in {1, 2, 4, 6}, recv \in {0, 3, 7}, on \in {0, 3, 4}}

MCLoweredFn ==
  (IF "keys"       \in Families THEN KeysFamily({"returns", "guarded"})       ELSE {}) \cup
  (IF "containers" \in Families THEN ContainersFamily({"diamond"})            ELSE {}) \cup
  (IF "accessors"  \in Families THEN AccessorsFamily({"returns", "guarded"})  ELSE {}) \cup
  (IF "callbacks"  \in Families THEN CallbacksFamily({"returns", "guarded"})  ELSE {})

(* The statements of these handlers run as they are listed.                *)
ASSUME ListedAssumption == \A f \in MCLoweredFn : RunsAsListed(f)
=============================================================================
