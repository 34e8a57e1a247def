---------------------------- MODULE BuiltinSteps ----------------------------
(***************************************************************************)
(* What the built-in steps compute: the execute methods of core_steps.py   *)
(* and of steps.ResolveStep, each one call over a whole bucket, from the   *)
(* columns of its dependencies to a column with one value per entry.       *)
(*                                                                         *)
(* A value is a record with a tag: "none", "int", "list", "object", "gid"  *)
(* (a global id's text) or "error" (an exception carried as a value).      *)
(*                                                                         *)
(* A step is a record with its kind, its deps (positions of earlier steps) *)
(* and its parameters.  User callbacks are external: one representative    *)
(* mapper, predicate, resolver and loader each, which reject what is not   *)
(* of their type, the loader by answering None.                            *)
(***************************************************************************)
EXTENDS Integers, Sequences, FiniteSets, SequencesExt

None == [tag |-> "none"]
Number(n) == [tag |-> "int", n |-> n]
List(items) == [tag |-> "list", items |-> items]
Object(fields) == [tag |-> "object", fields |-> fields]
Error(why) == [tag |-> "error", why |-> why]
GlobalId(type, parts) == [tag |-> "gid", type |-> type, parts |-> parts]

IsError(v) == v.tag = "error"

\* Python truth: None, 0 and the empty list are false.
Truthy(v) ==
  CASE v.tag = "none" -> FALSE
    [] v.tag = "int" -> v.n # 0
    [] v.tag = "list" -> v.items # << >>
    [] OTHER -> TRUE

\* Lists and objects are unhashable.
Hashable(v) == v.tag \notin {"list", "object"}

-----------------------------------------------------------------------------
(* User callbacks *)

Mapper(v) == IF v.tag = "int" THEN Number(v.n + 1) ELSE Error("mapper")
Predicate(v) == IF v.tag = "int" THEN v.n > 1 ELSE FALSE
PredicateRaises(v) == v.tag # "int"
Resolver(v) == IF v.tag = "int" THEN Number(v.n) ELSE Error("resolver")
Loader(key) == IF key.tag = "int" THEN Object([n |-> key, pair |-> List(<<key, Number(key.n + 1)>>)])
               ELSE None

-----------------------------------------------------------------------------
(* Value steps *)

\* One segment of a path; a value without it ends the walk in the fallback.
Segment(v, segment) ==
  CASE v.tag = "object" /\ segment \in DOMAIN v.fields -> [found |-> TRUE, value |-> v.fields[segment]]
    [] v.tag = "list" /\ segment = "0" /\ v.items # << >> -> [found |-> TRUE, value |-> v.items[1]]
    [] OTHER -> [found |-> FALSE, value |-> None]

GetIn(v, path, fallback) ==
  LET walk[n \in 0 .. Len(path)] ==
        IF n = 0 THEN [found |-> TRUE, value |-> v]
        ELSE LET at == walk[n - 1] IN IF at.found THEN Segment(at.value, path[n]) ELSE at
      end == walk[Len(path)]
  IN  IF end.found THEN end.value ELSE fallback

ConstantExecute(step, count) == [i \in 1 .. count |-> step.data]

AccessExecute(step, col) ==
  [i \in DOMAIN col |-> IF IsError(col[i]) THEN col[i] ELSE GetIn(col[i], step.path, None)]

LambdaExecute(col) == [i \in DOMAIN col |-> IF IsError(col[i]) THEN col[i] ELSE Mapper(col[i])]

ListExecute(cols, count) == [i \in 1 .. count |-> List([d \in DOMAIN cols |-> cols[d][i]])]

ObjectExecute(step, cols, count) ==
  [i \in 1 .. count |->
     Object([key \in ToSet(step.keys) |-> cols[CHOOSE d \in DOMAIN step.keys : step.keys[d] = key][i]])]

ResolveExecute(step, col) ==
  [i \in DOMAIN col |-> IF step.argsError THEN Error("args") ELSE Resolver(col[i])]

-----------------------------------------------------------------------------
(* List steps *)

FilterEntry(v) ==
  IF v.tag \in {"none", "error"} THEN v
  ELSE IF v.tag # "list" \/ \E i \in DOMAIN v.items : PredicateRaises(v.items[i]) THEN Error("predicate")
  ELSE List(SelectSeq(v.items, Predicate))

FirstEntry(v) ==
  CASE IsError(v) -> v
    [] v.tag = "list" /\ v.items # << >> -> v.items[1]
    [] OTHER -> None

LastEntry(v) ==
  CASE IsError(v) -> v
    [] v.tag = "list" /\ v.items # << >> -> v.items[Len(v.items)]
    [] OTHER -> None

ReverseEntry(v) == IF v.tag = "list" THEN List(Reverse(v.items)) ELSE v

ListOpExecute(step, col) ==
  [i \in DOMAIN col |->
     CASE step.kind = "filter" -> FilterEntry(col[i])
       [] step.kind = "first" -> FirstEntry(col[i])
       [] step.kind = "last" -> LastEntry(col[i])
       [] step.kind = "reverse" -> ReverseEntry(col[i])]

-----------------------------------------------------------------------------
(* Batch loads *)

\* Where i stands among the positions in E, and those positions in order.
Rank(E, i) == Cardinality({j \in E : j <= i})
InOrder(E) == [p \in 1 .. Cardinality(E) |-> CHOOSE i \in E : Rank(E, i) = p]

\* The unique keys of a column in first-seen order and each entry's slot among
\* them; an unhashable key has a slot of its own.
SameKey(col, i, j) == i = j \/ (Hashable(col[i]) /\ col[i] = col[j])
FirstSeen(col) == {i \in DOMAIN col : \A j \in 1 .. i - 1 : ~SameKey(col, i, j)}

Coalesce(col) ==
  LET firsts == FirstSeen(col)
  IN  [keys  |-> [s \in 1 .. Cardinality(firsts) |-> col[InOrder(firsts)[s]]],
       slots |-> [i \in DOMAIN col |-> Rank(firsts, CHOOSE j \in firsts : SameKey(col, i, j))]]

\* LoadStep._scatter: one loaded value per unique key, back to who asked for it.
ScatterByEntry(loaded, slots) ==
  [i \in DOMAIN slots |-> IF i \in DOMAIN loaded THEN loaded[i] ELSE None]

Scatter(loaded, slots) == [i \in DOMAIN slots |-> loaded[slots[i]]]

\* A loader that raises poisons every entry of its one call.
LoadExecute(step, col) ==
  LET batch == Coalesce(col)
  IN  IF step.outcome = "raise" THEN [i \in DOMAIN col |-> Error("loader")]
      ELSE Scatter([s \in DOMAIN batch.keys |-> Loader(batch.keys[s])], batch.slots)

\* NodeStep: the errors of single entries first, then one call per type with the
\* keys of its entries in entry order, and a walk along each type's results.
DecodeGlobalId(v) == IF v.tag \in {"gid", "error"} THEN v ELSE Error("malformed id")

NodeKey(gid) == IF Len(gid.parts) = 1 THEN gid.parts[1] ELSE List(gid.parts)

NodeEntriesOf(step, col, type) ==
  {i \in DOMAIN col : LET gid == DecodeGlobalId(col[i])
                      IN  ~IsError(gid) /\ gid.type = type /\ type \in step.loaders}

NodeExecute(step, col) ==
  [i \in DOMAIN col |->
     LET gid == DecodeGlobalId(col[i])
         mine == NodeEntriesOf(step, col, gid.type)
         batch == InOrder(mine)
         loaded == [p \in DOMAIN batch |-> Loader(NodeKey(DecodeGlobalId(col[batch[p]])))]
     IN  IF IsError(gid) THEN gid
         ELSE IF gid.type \notin step.loaders THEN Error("no loader")
         ELSE IF gid.type \in step.failing THEN Error("loader")
         ELSE loaded[Rank(mine, i)]]

-----------------------------------------------------------------------------
(* EachStep: every parent's list into one flat bucket and back *)

\* Iterating anything but a list raises; what is false counts as no items.
Iterable(v) == v.tag = "list" /\ v.items \in Seq(ToSet(v.items))
EachRaises(col) == \E i \in DOMAIN col : Truthy(col[i]) /\ ~Iterable(col[i])

ItemsOf(v) == IF Truthy(v) THEN v.items ELSE << >>

FlatItems(col) == FlattenSeq([i \in DOMAIN col |-> ItemsOf(col[i])])

Owners(col) == FlattenSeq([i \in DOMAIN col |-> [k \in DOMAIN ItemsOf(col[i]) |-> i]])

Regroup(mapped, owners, count) ==
  [i \in 1 .. count |->
     LET mine == InOrder({k \in DOMAIN owners : owners[k] = i})
     IN  List([k \in DOMAIN mine |-> mapped[mine[k]]])]

EachExecute(step, col) ==
  LET flat   == FlatItems(col)
      mapped == IF step.mapper = "load" THEN LoadExecute(step, flat) ELSE LambdaExecute(flat)
  IN  Regroup(mapped, Owners(col), Len(col))

-----------------------------------------------------------------------------
(* Any step *)

Kinds == {"constant", "access", "lambda", "list", "object", "resolve", "filter", "first", "last",
          "reverse", "load", "node", "each"}

\* execute raises instead of returning a column: on what is no list, and on a
\* loader that does not answer for each of its keys.
Raises(step, cols) ==
  \/ step.kind = "each" /\ EachRaises(cols[1])
  \/ step.kind \in {"first", "last"} /\ \E i \in DOMAIN cols[1] :
       Truthy(cols[1][i]) /\ cols[1][i].tag \notin {"list", "error"}
  \/ step.kind = "reverse" /\ \E i \in DOMAIN cols[1] : cols[1][i].tag = "int"
  \/ step.kind \in {"load", "each", "node"} /\ step.outcome = "short"

Execute(step, cols, count) ==
  CASE step.kind = "constant" -> ConstantExecute(step, count)
    [] step.kind = "access" -> AccessExecute(step, cols[1])
    [] step.kind = "lambda" -> LambdaExecute(cols[1])
    [] step.kind = "list" -> ListExecute(cols, count)
    [] step.kind = "object" -> ObjectExecute(step, cols, count)
    [] step.kind = "resolve" -> ResolveExecute(step, cols[1])
    [] step.kind \in {"filter", "first", "last", "reverse"} -> ListOpExecute(step, cols[1])
    [] step.kind = "load" -> LoadExecute(step, cols[1])
    [] step.kind = "node" -> NodeExecute(step, cols[1])
    [] step.kind = "each" -> EachExecute(step, cols[1])

\* A single entry's value is a function of that entry and of request constants:
\* such a step may run once for its whole bucket.
SyncAndSafe(step) == step.kind \notin {"load", "node", "each", "resolve"}
=============================================================================
