----------------------------- MODULE Execution -----------------------------
(***************************************************************************)
(* The bucket executor (execute.py, completion.py, step_model.run_steps,   *)
(* concurrency.await_limited): one query, run layer by layer over buckets  *)
(* of objects, its awaits interleaved by the event loop and limited by the *)
(* operation's permits.                                                    *)
(*                                                                         *)
(* `op` is the planned operation and what its resolvers return; it never   *)
(* changes:                                                                *)
(*   fields     [bucket -> Seq(field)], in selection order                 *)
(*   owner      the field whose objects a bucket holds (not for "root")    *)
(*   nonNull, list, itemNonNull   the fields typed T!, [T], [T!]           *)
(*   items      the items of each list                                     *)
(*   load       the fields whose step awaits its whole column              *)
(*   outcome    [path -> "ok", "null" or "error"], of field values and     *)
(*              list items                                                 *)
(*   slow       the paths whose value is awaitable                         *)
(*                                                                         *)
(* An object is named by its path.  Code between two awaits is one thread  *)
(* of nested calls: `stack` holds the buckets whose functions are running, *)
(* and the event loop gets a turn only when it is empty.                   *)
(***************************************************************************)
EXTENDS Integers, Sequences, FiniteSets, SequencesExt

CONSTANTS
    Operations,     \* the operations to consider
    Permits         \* max_step_concurrency

\* What the planner and the resolvers make: a tree of buckets, each field in one
\* of them, and a path for every value that comes to be completed and no other.
IsOperation(o) ==
    LET buckets == DOMAIN o.fields
        nested == buckets \ {"root"}
        fields == UNION {ToSet(o.fields[b]) : b \in buckets}
        labels == UNION {ToSet(o.items[f]) : f \in o.list}
        paths == DOMAIN o.outcome
        endsIn(p) == IF p[Len(p)] \in fields THEN p[Len(p)] ELSE p[Len(p) - 1]
        rows(b) == IF b = "root" THEN {<<>>}
                   ELSE {p \in paths : /\ endsIn(p) = o.owner[b] /\ o.outcome[p] = "ok"
                                       /\ p[Len(p)] \notin o.list}
    IN
    /\ "root" \in buckets /\ IsFiniteSet(buckets)
    /\ \A b \in buckets : o.fields[b] \in Seq(fields) /\ IsInjective(o.fields[b])
    /\ \A b, c \in buckets : b # c => ToSet(o.fields[b]) \cap ToSet(o.fields[c]) = {}
    /\ o.owner \in [nested -> fields] /\ IsInjective(o.owner)
    /\ \E depth \in [buckets -> 0..Cardinality(buckets)] :
          \A b \in nested, c \in buckets : o.owner[b] \in ToSet(o.fields[c]) => depth[c] < depth[b]
    /\ o.nonNull \subseteq fields /\ o.load \subseteq fields /\ o.list \subseteq fields
    /\ o.itemNonNull \subseteq o.list /\ DOMAIN o.items = o.list
    /\ \A f \in o.list : o.items[f] \in Seq(labels) /\ IsInjective(o.items[f])
    /\ labels \cap fields = {} /\ "load" \notin fields
    /\ o.outcome \in [paths -> {"ok", "null", "error"}]
    /\ \A p \in paths : /\ p \in Seq(fields \cup labels)
                        /\ Len(p) \in 1..(2 * Cardinality(buckets))
                        /\ p[1] \in fields
    /\ \A b \in buckets : \A p \in rows(b), f \in ToSet(o.fields[b]) :
          /\ Append(p, f) \in paths
          /\ f \in o.list => \A i \in ToSet(o.items[f]) : Append(Append(p, f), i) \in paths
    /\ \A p \in paths : \E b \in buckets : \E r \in rows(b), f \in ToSet(o.fields[b]) :
          p = Append(r, f) \/ (f \in o.list /\ \E i \in ToSet(o.items[f]) : p = Append(Append(r, f), i))

ASSUME ExecutionAssumption ==
    /\ Permits \in Nat \ {0}
    /\ \A o \in Operations : IsOperation(o)

VARIABLES
    op,
    bucket,     \* [bucket -> its FieldCompletion, its rows and where it stands]
    field,      \* [field -> where its completion stands, and live_idx]
    waits,      \* awaitables that have yet to get a permit
    held,       \* awaitables that hold one
    errors,     \* context.errors
    stack,
    response    \* [data, errors] once the operation is over

vars == <<op, bucket, field, waits, held, errors, stack, response>>

Buckets == DOMAIN op.fields
Fields == UNION {ToSet(op.fields[b]) : b \in Buckets}

\* The bucket a field is completed in, and the one its objects go to.
Home(f) == CHOOSE b \in Buckets : f \in ToSet(op.fields[b])
HasChild(f) == \E b \in Buckets \ {"root"} : op.owner[b] = f
Child(f) == CHOOSE b \in Buckets \ {"root"} : op.owner[b] = f

\* The field a path ends in, or whose list it is an item of.
FieldOf(p) == IF p[Len(p)] \in Fields THEN p[Len(p)] ELSE p[Len(p) - 1]

(***************************************************************************)
(* Completed values.                                                       *)
(***************************************************************************)
Leaf == [tag |-> "leaf"]
Null == [tag |-> "null"]
Unset == [tag |-> "unset"]
Bubble(error) == [tag |-> "bubble", error |-> error]
Bubbles(v) == v.tag = "bubble"
Absorb(v) == IF Bubbles(v) THEN Null ELSE v
Object(values) == [tag |-> "object", fields |-> values]
List(values) == [tag |-> "list", items |-> values]

enforce_non_null(v, path) == IF v = Null THEN Bubble(path) ELSE v

LoadOf(f) == <<"load", f>>

NewBucket(rows, b, phase) ==
    [phase |-> phase, cursor |-> 1, rows |-> rows,
     outputs |-> [i \in DOMAIN rows |-> [f \in ToSet(op.fields[b]) |-> Unset]],
     bubble |-> [i \in DOMAIN rows |-> Null]]

Init ==
    /\ op \in Operations
    /\ bucket = [b \in Buckets |->
                   IF b = "root" THEN NewBucket(<<<<>>>>, b, "steps") ELSE NewBucket(<<>>, b, "idle")]
    /\ field = [f \in Fields |-> [state |-> "todo", live |-> <<>>]]
    /\ waits = {} /\ held = {}
    /\ errors = <<>>
    /\ stack = <<"root">>
    /\ response = Null

Top == stack[Len(stack)]
Pop == SubSeq(stack, 1, Len(stack) - 1)

-----------------------------------------------------------------------------
(* run_steps.                                                              *)

\* The steps of bucket b from the cursor on run up to the next one that must
\* be awaited; the caller then gets a coroutine.
RunSteps ==
    LET b == Top
        loads == {i \in DOMAIN op.fields[b] : i >= bucket[b].cursor /\ op.fields[b][i] \in op.load}
    IN
    /\ stack # <<>> /\ bucket[b].phase = "steps"
    /\ IF loads = {}
       THEN /\ bucket' = [bucket EXCEPT ![b].phase = "walk", ![b].cursor = 1]
            /\ UNCHANGED <<waits, stack>>
       ELSE LET next == CHOOSE i \in loads : \A j \in loads : i <= j IN
            /\ bucket' = [bucket EXCEPT ![b].phase = "loading", ![b].cursor = next]
            /\ waits' = waits \cup {LoadOf(op.fields[b][next])}
            /\ stack' = Pop
    /\ UNCHANGED <<op, field, held, errors, response>>

-----------------------------------------------------------------------------
(* complete_field and the completers.                                      *)

IsLive(b, i) == bucket[b].bubble[i] = Null

\* The positions of a sequence that are in S, in their order.
Positions(s, S) == FlattenSeq([i \in DOMAIN s |-> IF i \in S THEN <<i>> ELSE <<>>])

LiveRows(b) == Positions(bucket[b].rows, {i \in DOMAIN bucket[b].rows : IsLive(b, i)})

\* The field's values over the rows `live`, and for a list the items of those
\* that are lists, flattened.
ValuePaths(f, live) == [k \in DOMAIN live |-> Append(bucket[Home(f)].rows[live[k]], f)]

ItemsOf(f, path) ==
    IF op.outcome[path] = "ok" THEN [i \in DOMAIN op.items[f] |-> Append(path, op.items[f][i])] ELSE <<>>

Column(f, live) ==
    IF f \in op.list
    THEN FlattenSeq([k \in DOMAIN live |-> ItemsOf(f, ValuePaths(f, live)[k])])
    ELSE ValuePaths(f, live)

\* keep_origin: the positions of a column that go to the child bucket.
KeepOrigin(column) ==
    Positions(column, {i \in DOMAIN column : op.outcome[column[i]] = "ok"})

\* What the innermost completer makes of a column, `children` being the child
\* bucket's results.
CompleteColumn(f, column, children) ==
    LET origin == KeepOrigin(column)
        Kept(i) == children[CHOOSE k \in DOMAIN origin : origin[k] = i]
    IN [i \in DOMAIN column |->
          CASE op.outcome[column[i]] = "error" -> Bubble(column[i])
            [] op.outcome[column[i]] = "null" -> Null
            [] op.outcome[column[i]] = "ok" /\ ~HasChild(f) -> Leaf
            [] op.outcome[column[i]] = "ok" /\ HasChild(f) -> Kept(i)]

\* collect_lists for the items `done` of one list.
CollectList(f, done) ==
    LET bubbles == {i \in DOMAIN done : Bubbles(done[i])} IN
    IF f \in op.itemNonNull /\ bubbles # {}
    THEN [value |-> done[CHOOSE i \in bubbles : \A j \in bubbles : i <= j], errors |-> <<>>]
    ELSE [value |-> List([i \in DOMAIN done |-> Absorb(done[i])]),
          errors |-> FlattenSeq([i \in DOMAIN done |-> IF i \in bubbles THEN <<done[i].error>> ELSE <<>>])]

\* The completed value of row k of field f, with the errors its list absorbed,
\* from the values of the whole column.
CompleteRow(f, live, k, values) ==
    LET path == ValuePaths(f, live)[k]
        before == Len(Column(f, SubSeq(live, 1, k - 1)))
        Item(i) ==
            LET v == values[before + i] IN
            IF f \in op.itemNonNull THEN enforce_non_null(v, ItemsOf(f, path)[i]) ELSE v
        raw == IF f \notin op.list THEN [value |-> values[k], errors |-> <<>>]
               ELSE CASE op.outcome[path] = "error" -> [value |-> Bubble(path), errors |-> <<>>]
                      [] op.outcome[path] = "null" -> [value |-> Null, errors |-> <<>>]
                      [] op.outcome[path] = "ok" ->
                            CollectList(f, [i \in DOMAIN ItemsOf(f, path) |-> Item(i)])
    IN IF f \in op.nonNull THEN [raw EXCEPT !.value = enforce_non_null(@, path)] ELSE raw

\* Mutant: a bubble is reported where it starts as well as where it is caught.
ReportAtOnce(row, f, v) ==
    [outputs |-> IF row.bubble = Null /\ ~Bubbles(v) THEN [row.outputs EXCEPT ![f] = v] ELSE row.outputs,
     bubble |-> IF Bubbles(v) /\ f \in op.nonNull THEN v ELSE row.bubble,
     errors |-> IF Bubbles(v) THEN <<v.error>> ELSE <<>>]

\* write_value: what becomes of one row, and the error it reports.  It does not
\* look whether the row bubbled while the value was awaited.
WriteValue(row, f, v) ==
    LET fatal == Bubbles(v) /\ f \in op.nonNull IN
    [outputs |-> IF row.bubble = Null /\ ~fatal THEN [row.outputs EXCEPT ![f] = Absorb(v)] ELSE row.outputs,
     bubble |-> IF fatal THEN v ELSE row.bubble,
     errors |-> IF Bubbles(v) /\ ~fatal THEN <<v.error>> ELSE <<>>]

RowOf(b, i) == [outputs |-> bucket[b].outputs[i], bubble |-> bucket[b].bubble[i]]

\* Mutant: the values are handed out last one first.
LastFirst(live, i) == CHOOSE k \in DOMAIN live : live[Len(live) + 1 - k] = i

\* The value of a column over `live` that is row i's.
Slot(live, i) == CHOOSE k \in DOMAIN live : live[k] = i

\* scatter, and the end of the field.
Scatter(f, live, children) ==
    \E values \in {CompleteColumn(f, Column(f, live), children)} :
    \E completed \in {[k \in DOMAIN live |-> CompleteRow(f, live, k, values)]} :
    \E written \in {[i \in ToSet(live) |->
                        WriteValue(RowOf(Home(f), i), f, completed[Slot(live, i)].value)]} :
    LET rows == ToSet(live) IN
    /\ bucket' = [bucket EXCEPT
          ![Home(f)].outputs = [i \in DOMAIN @ |-> IF i \in rows THEN written[i].outputs ELSE @[i]],
          ![Home(f)].bubble = [i \in DOMAIN @ |-> IF i \in rows THEN written[i].bubble ELSE @[i]],
          ![Home(f)].cursor = IF bucket[Home(f)].phase = "walk" THEN @ + 1 ELSE @]
    /\ errors' = errors \o FlattenSeq([k \in DOMAIN live |-> completed[k].errors])
                        \o FlattenSeq([k \in DOMAIN live |-> written[live[k]].errors])
    /\ field' = [field EXCEPT ![f] = [state |-> "done", live |-> live]]

\* The awaitables of the field's values, then of its items: the ones still to
\* be awaited once stage `after` is over.
Awaited(f, live, after) ==
    LET values == ToSet(ValuePaths(f, live)) \cap op.slow
        inner == IF f \in op.list THEN ToSet(Column(f, live)) \cap op.slow ELSE {}
    IN IF after = "start" /\ values # {} THEN [stage |-> "values", paths |-> values]
       ELSE IF after # "items" /\ inner # {} THEN [stage |-> "items", paths |-> inner]
       ELSE [stage |-> "none", paths |-> {}]

Targets(f, live) ==
    IF HasChild(f)
    THEN LET column == Column(f, live) origin == KeepOrigin(column)
         IN [k \in DOMAIN origin |-> column[origin[k]]]
    ELSE <<>>

\* The completer must await something: the walk goes on without the field.
Suspend(f, live, after) ==
    LET next == Awaited(f, live, after) b == Home(f) IN
    /\ next.paths # {}
    /\ field' = [field EXCEPT ![f] = [state |-> next.stage, live |-> live]]
    /\ waits' = waits \cup next.paths
    /\ bucket' = [bucket EXCEPT ![b].cursor = IF bucket[b].phase = "walk" THEN @ + 1 ELSE @]
    /\ UNCHANGED <<errors, stack>>

\* The completer calls execute_object_plan on the child bucket.
Descend(f, live, after) ==
    /\ Awaited(f, live, after).paths = {}
    /\ Targets(f, live) # <<>>
    /\ field' = [field EXCEPT ![f] = [state |-> "child", live |-> live]]
    /\ bucket' = [bucket EXCEPT ![Child(f)] = NewBucket(Targets(f, live), Child(f), "steps")]
    /\ stack' = Append(stack, Child(f))
    /\ UNCHANGED <<errors, waits>>

\* The completer is done.
Settle(f, live, after) ==
    /\ Awaited(f, live, after).paths = {}
    /\ Targets(f, live) = <<>>
    /\ Scatter(f, live, <<>>)
    /\ UNCHANGED <<waits, stack>>

assemble(b) ==
    [i \in DOMAIN bucket[b].rows |->
        IF IsLive(b, i) THEN Object(bucket[b].outputs[i]) ELSE bucket[b].bubble[i]]

-----------------------------------------------------------------------------
(* walk_output.                                                            *)

AtField(b) == stack # <<>> /\ Top = b /\ bucket[b].phase = "walk" /\ bucket[b].cursor <= Len(op.fields[b])
Current(b) == op.fields[b][bucket[b].cursor]

\* complete_field, for the next field of the walk.
CompleteField ==
    /\ stack # <<>> /\ AtField(Top)
    /\ field[Current(Top)].state = "todo"
    /\ LET f == Current(Top) live == LiveRows(Top) IN
       \/ /\ live = <<>>
          /\ field' = [field EXCEPT ![f].state = "done"]
          /\ bucket' = [bucket EXCEPT ![Top].cursor = @ + 1]
          /\ UNCHANGED <<waits, errors, stack>>
       \/ /\ live # <<>>
          /\ Suspend(f, live, "start") \/ Descend(f, live, "start") \/ Settle(f, live, "start")
    /\ UNCHANGED <<op, held, response>>

\* The child bucket's call came back: with its results ...
ChildReturned ==
    /\ stack # <<>> /\ AtField(Top)
    /\ LET f == Current(Top) IN
       /\ field[f].state = "child" /\ bucket[Child(f)].phase = "done"
       /\ Scatter(f, field[f].live, assemble(Child(f)))
    /\ UNCHANGED <<op, waits, held, stack, response>>

\* ... or with a coroutine.
ChildSuspended ==
    /\ stack # <<>> /\ AtField(Top)
    /\ LET f == Current(Top) IN
       /\ field[f].state = "child" /\ bucket[Child(f)].phase \in {"loading", "gather"}
       /\ bucket' = [bucket EXCEPT ![Top].cursor = @ + 1]
    /\ UNCHANGED <<op, field, waits, held, errors, stack, response>>

Pending(b) == {f \in ToSet(op.fields[b]) : field[f].state \notin {"todo", "done"}}

\* Mutant: one bubbled row is enough to abandon what is pending.
AbandonIfAnyBubbled ==
    LET b == Top
        over == Pending(b) = {} \/ \E i \in DOMAIN bucket[b].rows : ~IsLive(b, i)
    IN
    /\ stack # <<>> /\ bucket[b].phase = "walk" /\ bucket[b].cursor > Len(op.fields[b])
    /\ bucket' = [bucket EXCEPT ![b].phase = IF over THEN "done" ELSE "gather"]
    /\ stack' = Pop
    /\ UNCHANGED <<op, field, waits, held, errors, response>>

\* After the last field the bucket is done if nothing is pending, or if every
\* row bubbled: what is pending is then abandoned.  Otherwise gather.
EndWalk ==
    LET b == Top
        over == Pending(b) = {} \/ \A i \in DOMAIN bucket[b].rows : ~IsLive(b, i)
    IN
    /\ stack # <<>> /\ bucket[b].phase = "walk" /\ bucket[b].cursor > Len(op.fields[b])
    /\ bucket' = [bucket EXCEPT ![b].phase = IF over THEN "done" ELSE "gather"]
    /\ stack' = Pop
    /\ UNCHANGED <<op, field, waits, held, errors, response>>

-----------------------------------------------------------------------------
(* The event loop.                                                         *)

\* A coroutine runs only once it and everything around it is awaited.
Started(b) ==
    LET up[c \in Buckets] ==
            /\ bucket[c].phase \in {"loading", "gather"}
            /\ c # "root" => up[Home(op.owner[c])]
    IN up[b]

WaitHome(w) == Home(IF w[1] = "load" THEN w[2] ELSE FieldOf(w))

\* Mutant: a value keeps its permit while its nested fields are completed.
AcquireBehindParents(w) ==
    LET parents == {p \in op.slow : field[FieldOf(p)].state = "child"} IN
    /\ stack = <<>> /\ response = Null
    /\ w \in waits /\ Started(WaitHome(w))
    /\ Cardinality(held \cup parents) < Permits
    /\ waits' = waits \ {w} /\ held' = held \cup {w}
    /\ UNCHANGED <<op, bucket, field, errors, stack, response>>

\* Mutant: the awaitable is left in the queue.
AcquireInPlace(w) ==
    /\ stack = <<>> /\ response = Null
    /\ w \in waits /\ Started(WaitHome(w))
    /\ Cardinality(held) < Permits
    /\ held' = held \cup {w}
    /\ UNCHANGED <<op, bucket, field, waits, errors, stack, response>>

\* await_limited: semaphore.acquire ...
Acquire(w) ==
    /\ stack = <<>> /\ response = Null
    /\ w \in waits /\ Started(WaitHome(w))
    /\ Cardinality(held) < Permits
    /\ waits' = waits \ {w} /\ held' = held \cup {w}
    /\ UNCHANGED <<op, bucket, field, errors, stack, response>>

\* ... and release, when the awaitable answers.
Release(w) ==
    /\ stack = <<>> /\ w \in held
    /\ held' = held \ {w}
    /\ UNCHANGED <<op, bucket, field, waits, errors, stack, response>>

\* The awaited step's column is stored and _run_steps_async goes on.
ResumeSteps(b) ==
    /\ stack = <<>> /\ bucket[b].phase = "loading"
    /\ LoadOf(op.fields[b][bucket[b].cursor]) \notin waits \cup held
    /\ bucket' = [bucket EXCEPT ![b].phase = "steps", ![b].cursor = @ + 1]
    /\ stack' = <<b>>
    /\ UNCHANGED <<op, field, waits, held, errors, response>>

\* Every awaited value of the field arrived: its completer goes on.
ResumeField(f) ==
    LET stage == field[f].state live == field[f].live IN
    /\ stack = <<>> /\ bucket[Home(f)].phase = "gather" /\ stage \in {"values", "items"}
    /\ (ToSet(ValuePaths(f, live)) \cup ToSet(Column(f, live))) \cap (waits \cup held) = {}
    /\ Suspend(f, live, stage) \/ Descend(f, live, stage) \/ Settle(f, live, stage)
    /\ UNCHANGED <<op, held, response>>

\* The child bucket's coroutine finished.
ResumeParent(f) ==
    /\ stack = <<>> /\ bucket[Home(f)].phase = "gather" /\ field[f].state = "child"
    /\ bucket[Child(f)].phase = "done"
    /\ Scatter(f, field[f].live, assemble(Child(f)))
    /\ UNCHANGED <<op, waits, held, stack, response>>

\* Every pending field of the bucket finished.
EndGather(b) ==
    /\ stack = <<>> /\ bucket[b].phase = "gather" /\ Pending(b) = {}
    /\ bucket' = [bucket EXCEPT ![b].phase = "done"]
    /\ UNCHANGED <<op, field, waits, held, errors, stack, response>>

\* root_output and make_result: a bubble at the root leaves no data.
Respond ==
    LET root == assemble("root")[1] IN
    /\ stack = <<>> /\ response = Null /\ bucket["root"].phase = "done"
    /\ response' = IF root.tag = "bubble"
                   THEN [tag |-> "response", data |-> Null, errors |-> Append(errors, root.error)]
                   ELSE [tag |-> "response", data |-> root, errors |-> errors]
    /\ UNCHANGED <<op, bucket, field, waits, held, errors, stack>>

Run == RunSteps \/ CompleteField \/ ChildReturned \/ ChildSuspended \/ EndWalk

Loop ==
    \/ \E b \in Buckets : ResumeSteps(b) \/ EndGather(b)
    \/ \E f \in Fields : ResumeField(f) \/ (HasChild(f) /\ ResumeParent(f))
    \/ Respond

Await == \E w \in waits \cup held : Acquire(w) \/ Release(w)

Next == Run \/ Loop \/ Await

\* The loop runs what is ready and every awaitable answers.
Spec == Init /\ [][Next]_vars /\ WF_vars(Run) /\ WF_vars(Loop) /\ WF_vars(Await)
-----------------------------------------------------------------------------
(***************************************************************************)
(* The reference: one object at a time, depth first, each value at once,   *)
(* as the synchronous path does it.                                        *)
(***************************************************************************)
Prefix(p, q) == Len(p) <= Len(q) /\ SubSeq(q, 1, Len(p)) = p

\* The paths of objects, and the bucket an object is completed in.
Objects ==
    {<<>>} \cup {p \in DOMAIN op.outcome :
                   op.outcome[p] = "ok" /\ HasChild(FieldOf(p)) /\ p[Len(p)] \notin op.list}
BucketOf(p) == IF p = <<>> THEN "root" ELSE Child(FieldOf(p))

\* A bubble, whichever of its object's or list's bubbles it is.
Broken == [tag |-> "bubble"]

Required(v) == IF v = Null THEN Broken ELSE v

\* `sync` gives the value of every object further down.
SingleValue(sync, f, q) ==
    CASE op.outcome[q] = "error" -> Broken
      [] op.outcome[q] = "null" -> Null
      [] op.outcome[q] = "ok" -> IF HasChild(f) THEN sync[q] ELSE Leaf

ItemValue(sync, f, q) ==
    LET v == SingleValue(sync, f, q) IN IF f \in op.itemNonNull THEN Required(v) ELSE Absorb(v)

ListValue(sync, f, q) ==
    LET items == [i \in DOMAIN op.items[f] |-> ItemValue(sync, f, Append(q, op.items[f][i]))]
    IN IF \E i \in DOMAIN items : Bubbles(items[i]) THEN Broken ELSE List(items)

FieldValue(sync, f, q) ==
    LET v == IF f \in op.list /\ op.outcome[q] = "ok" THEN ListValue(sync, f, q) ELSE SingleValue(sync, f, q)
    IN IF f \in op.nonNull THEN Required(v) ELSE Absorb(v)

ObjectValue(sync, p) ==
    LET values == [f \in ToSet(op.fields[BucketOf(p)]) |-> FieldValue(sync, f, Append(p, f))]
    IN IF \E f \in DOMAIN values : Bubbles(values[f]) THEN Broken ELSE Object(values)

Synchronous[p \in Objects] == ObjectValue(Synchronous, p)

SynchronousData == Absorb(Synchronous[<<>>])

\* The value the response has at path p, Null below a null.  Into goes from what
\* is there before the k-th step of p to what is there after it.
Into(v, p, k) ==
    CASE v.tag = "object" -> v.fields[p[k]]
      [] v.tag = "list" -> v.items[CHOOSE i \in DOMAIN op.items[p[k - 1]] : op.items[p[k - 1]][i] = p[k]]
      [] OTHER -> Null

At(data, p) ==
    LET at[k \in 0..Len(p)] == IF k = 0 THEN data ELSE Into(at[k - 1], p, k)
    IN at[Len(p)]

-----------------------------------------------------------------------------
Phases == {"idle", "steps", "loading", "walk", "gather", "done"}
Paths == DOMAIN op.outcome

\* Every variable holds a value of its type, and the rows of a bucket are
\* distinct objects.
TypeOK ==
    /\ \A b \in Buckets :
         LET s == bucket[b] IN
         /\ s.phase \in Phases /\ s.cursor \in 1..(Len(op.fields[b]) + 1)
         /\ s.rows \in Seq(Objects) /\ IsInjective(s.rows)
         /\ \A i \in DOMAIN s.rows : s.bubble[i] = Null \/ s.bubble[i].error \in Paths
    /\ \A f \in Fields : /\ field[f].state \in {"todo", "values", "items", "child", "done"}
                         /\ ToSet(field[f].live) \subseteq DOMAIN bucket[Home(f)].rows
    /\ waits \cup held \subseteq Paths \cup {LoadOf(f) : f \in Fields} /\ waits \cap held = {}
    /\ errors \in Seq(Paths)
    /\ IsInjective(stack) /\ ToSet(stack) \subseteq Buckets

\* execute.py: "the resulting `data`/`errors` are identical to the synchronous
\* path", for the data: in whatever order the awaits end, every object of every
\* bucket gets its own values and every null is where it belongs.
DataIsSynchronous == response # Null => response.data = SynchronousData

\* bubble.py: a bubble's "error is appended exactly once".  No error is reported
\* twice, and every one lies at or below a null of the data.  Every null
\* that no resolver returned has an error to explain it.
ErrorsExplainNulls ==
    response # Null =>
        /\ IsInjective(response.errors)
        /\ \A e \in ToSet(response.errors) : At(response.data, e) = Null
        /\ \A p \in Paths \cup {<<>>} :
             /\ At(response.data, p) = Null
             /\ p = <<>> \/ op.outcome[p] # "null"
             /\ \A q \in Paths \cup {<<>>} : Prefix(q, p) /\ q # p => At(response.data, q) # Null
             => \E e \in ToSet(response.errors) : Prefix(p, e)

\* execute.py: pending fields are abandoned when they "can only write into dead
\* parents".  When the response is made no permit is held, and whatever was
\* never awaited lies below a null.
OnlyTheDeadAreAbandoned ==
    response # Null =>
        /\ held = {}
        /\ \A w \in waits :
             \A p \in IF w[1] = "load" THEN ToSet(bucket[Home(w[2])].rows) ELSE {w} :
                \E q \in Paths \cup {<<>>} : Prefix(q, p) /\ q # w /\ At(response.data, q) = Null

\* README: "A permit is released before completing nested fields, so query depth
\* cannot exhaust the budget with waiting parents."  Every operation responds.
Responds == <>(response # Null)
=============================================================================
