-------------------------- MODULE ExecutionProofs --------------------------
(***************************************************************************)
(* Theorems about Execution, for every operation, whatever its buckets,    *)
(* lists, nullability and outcomes, every timing of its awaitables and     *)
(* every number of permits: the states are typed, the data of the response *)
(* is that of the synchronous path, no permit is held once it is made, what*)
(* it abandons could not have been written to the data, and every null that*)
(* no resolver returned is explained by an error that is reported once.    *)
(*                                                                         *)
(* A bucket's columns are completed when their awaits end, so an object is *)
(* for most of the time half written.  The invariant says of each row what *)
(* it already has: a row that bubbled is null in the synchronous path too, *)
(* and a live row has the synchronous value of every field that is done,   *)
(* and a place in the column of every field that is being completed.       *)
(* A second part, Trail, follows the buckets that are under way up to the  *)
(* root, and their rows with them.  A third, Blame, follows the errors: a  *)
(* row that bubbled holds its error until somebody reports it, and a field *)
(* that is done has accounted for the nulls it left.                       *)
(***************************************************************************)
EXTENDS Execution, SequenceFacts, FiniteSetTheorems

-----------------------------------------------------------------------------
(* The inductive invariant.                                                *)

\* The objects that bucket b may hold.
Rows(b) == {p \in Objects : BucketOf(p) = b}

\* The synchronous value of a field of an object.
Value(f, p) == FieldValue(Synchronous, f, Append(p, f))

Keys == {"phase", "cursor", "rows", "outputs", "bubble"}
IsBucket(s) == DOMAIN s = Keys /\ s = [key \in Keys |-> s[key]]

IsRow(row, fields) == row = [f \in fields |-> row[f]]

Shaped(b) ==
    LET s == bucket[b] IN
    /\ IsBucket(s)
    /\ s.phase \in Phases /\ s.cursor \in 1..(Len(op.fields[b]) + 1)
    /\ s.rows \in Seq(Rows(b)) /\ IsInjective(s.rows)
    /\ DOMAIN s.outputs = DOMAIN s.rows /\ DOMAIN s.bubble = DOMAIN s.rows
    /\ \A i \in DOMAIN s.rows :
          /\ IsRow(s.outputs[i], ToSet(op.fields[b]))
          /\ s.bubble[i] = Null \/ (Bubbles(s.bubble[i]) /\ s.bubble[i].error \in Paths)

\* The fields a walk has passed are begun, the others are not; a bucket that is
\* done has nothing pending, or nobody to write it to.
Progress(b) ==
    LET s == bucket[b] state(k) == field[op.fields[b][k]].state IN
    /\ s.phase \in {"idle", "steps", "loading"} => \A k \in DOMAIN op.fields[b] : state(k) = "todo"
    /\ s.phase = "loading" => s.cursor \in DOMAIN op.fields[b]
    /\ s.phase = "walk" =>
          \A k \in DOMAIN op.fields[b] : /\ k < s.cursor => state(k) # "todo"
                                         /\ k = s.cursor => state(k) \in {"todo", "child"}
                                         /\ k > s.cursor => state(k) = "todo"
    /\ s.phase \in {"gather", "done"} => \A k \in DOMAIN op.fields[b] : state(k) # "todo"
    /\ s.phase = "done" => Pending(b) = {} \/ \A i \in DOMAIN s.rows : ~IsLive(b, i)

Completing(f) ==
    /\ field[f] = [state |-> field[f].state, live |-> field[f].live]
    /\ field[f].state \in {"todo", "values", "items", "child", "done"}
    /\ field[f].live \in Seq(DOMAIN bucket[Home(f)].rows) /\ IsInjective(field[f].live)
    /\ field[f].state = "todo" => field[f].live = <<>>

\* The child bucket is taken up once, with the objects the field's values are.
Below(f) ==
    /\ field[f].state = "child" =>
          HasChild(f) /\ bucket[Child(f)].phase # "idle" /\ bucket[Child(f)].rows = Targets(f, field[f].live)
    /\ HasChild(f) /\ field[f].state \in {"todo", "values", "items"} => bucket[Child(f)].phase = "idle"

Stacked ==
    /\ stack \in Seq(Buckets) /\ IsInjective(stack)
    /\ \A b \in ToSet(stack) : bucket[b].phase \in {"steps", "walk"}

\* Who awaits w.
Asked(w) ==
    \/ \E f \in Fields : w = LoadOf(f) /\ bucket[Home(f)].phase = "loading" /\ Current(Home(f)) = f
    \/ \E f \in Fields : field[f].state = "values" /\ w \in ToSet(ValuePaths(f, field[f].live))
    \/ \E f \in Fields : field[f].state = "items" /\ w \in ToSet(Column(f, field[f].live))

Queued == waits \cap held = {} /\ \A w \in waits \cup held : Asked(w)

\* What the rows of a bucket have so far.
Right(b) ==
    \A i \in DOMAIN bucket[b].rows :
       /\ ~IsLive(b, i) => Synchronous[bucket[b].rows[i]] = Broken
       /\ IsLive(b, i) => \A f \in ToSet(op.fields[b]) :
             /\ field[f].state \in {"values", "items", "child"} => i \in ToSet(field[f].live)
             /\ field[f].state = "done" => /\ ~Bubbles(Value(f, bucket[b].rows[i]))
                                           /\ bucket[b].outputs[i][f] = Value(f, bucket[b].rows[i])

Typed ==
    /\ op \in Operations
    /\ bucket = [b \in Buckets |-> bucket[b]] /\ field = [f \in Fields |-> field[f]]
    /\ bucket["root"].rows = <<<<>>>>
    /\ errors \in Seq(Paths)

IInv ==
    /\ Typed
    /\ \A b \in Buckets : Shaped(b) /\ Progress(b) /\ Right(b)
    /\ \A f \in Fields : Completing(f) /\ Below(f)
    /\ Stacked
    /\ Queued
    /\ DataIsSynchronous

-----------------------------------------------------------------------------
(* The operation.                                                          *)

Labels == UNION {ToSet(op.items[f]) : f \in op.list}

\* The buckets and the fields are a tree.
LEMMA Tree ==
    ASSUME op \in Operations
    PROVE  /\ "root" \in Buckets
           /\ \A b \in Buckets : op.fields[b] \in Seq(Fields) /\ IsInjective(op.fields[b])
           /\ \A b \in Buckets : \A f \in ToSet(op.fields[b]) : f \in Fields /\ Home(f) = b
           /\ \A f \in Fields : Home(f) \in Buckets /\ f \in ToSet(op.fields[Home(f)])
           /\ \A f \in Fields : HasChild(f) => /\ Child(f) \in Buckets \ {"root"}
                                               /\ op.owner[Child(f)] = f /\ Child(f) # Home(f)
           /\ \A b \in Buckets \ {"root"} : /\ op.owner[b] \in Fields /\ HasChild(op.owner[b])
                                            /\ Child(op.owner[b]) = b
  <1>1. IsOperation(op)
    BY ExecutionAssumption
  <1>2. /\ "root" \in Buckets
        /\ \A b \in Buckets : op.fields[b] \in Seq(Fields) /\ IsInjective(op.fields[b])
        /\ \A b, c \in Buckets : b # c => ToSet(op.fields[b]) \cap ToSet(op.fields[c]) = {}
        /\ op.owner \in [Buckets \ {"root"} -> Fields] /\ IsInjective(op.owner)
        /\ \E depth \in [Buckets -> 0..Cardinality(Buckets)] :
              \A b \in Buckets \ {"root"}, c \in Buckets :
                  op.owner[b] \in ToSet(op.fields[c]) => depth[c] < depth[b]
        /\ IsFiniteSet(Buckets)
    BY <1>1 DEF IsOperation, Buckets, Fields
  <1>3. \A f \in Fields : Home(f) \in Buckets /\ f \in ToSet(op.fields[Home(f)])
    <2>1. \A f \in Fields : \E b \in Buckets : f \in ToSet(op.fields[b])
      BY DEF Fields
    <2> QED
      BY <2>1 DEF Home
  <1>4. ASSUME NEW b \in Buckets, NEW f \in ToSet(op.fields[b]) PROVE f \in Fields /\ Home(f) = b
    <2>1. f \in Fields
      BY DEF Fields
    <2> QED
      BY <1>2, <1>3, <2>1
  <1>5. ASSUME NEW f \in Fields, HasChild(f)
        PROVE  Child(f) \in Buckets \ {"root"} /\ op.owner[Child(f)] = f /\ Child(f) # Home(f)
    <2>1. Child(f) \in Buckets \ {"root"} /\ op.owner[Child(f)] = f
      BY <1>5 DEF HasChild, Child
    <2>2. PICK depth \in [Buckets -> 0..Cardinality(Buckets)] : depth[Home(f)] < depth[Child(f)]
      BY <1>2, <1>3, <2>1
    <2>3. Cardinality(Buckets) \in Nat
      BY <1>2, FS_CardinalityType
    <2> QED
      BY <1>3, <2>1, <2>2, <2>3
  <1>6. ASSUME NEW b \in Buckets \ {"root"}
        PROVE  op.owner[b] \in Fields /\ HasChild(op.owner[b]) /\ Child(op.owner[b]) = b
    <2>1. op.owner[b] \in Fields /\ HasChild(op.owner[b])
      BY <1>2 DEF HasChild
    <2>2. Child(op.owner[b]) \in Buckets \ {"root"} /\ op.owner[Child(op.owner[b])] = op.owner[b]
      BY <1>5, <2>1
    <2> QED
      BY <1>2, <2>1, <2>2 DEF IsInjective
  <1> QED
    BY <1>2, <1>3, <1>4, <1>5, <1>6

\* What the lists are, and the paths.
LEMMA PathFacts ==
    ASSUME op \in Operations
    PROVE  /\ op.list \subseteq Fields /\ op.itemNonNull \subseteq op.list
           /\ \A f \in op.list : op.items[f] \in Seq(Labels) /\ IsInjective(op.items[f])
           /\ Labels \cap Fields = {}
           /\ \A p \in Paths : /\ p \in Seq(Fields \cup Labels) /\ p # <<>> /\ p[1] # "load"
                               /\ Len(p) \in 1..(2 * Cardinality(Buckets))
                               /\ op.outcome[p] \in {"ok", "null", "error"}
  <1>1. IsOperation(op)
    BY ExecutionAssumption
  <1>2. /\ op.list \subseteq Fields /\ op.itemNonNull \subseteq op.list
        /\ \A f \in op.list : op.items[f] \in Seq(Labels) /\ IsInjective(op.items[f])
        /\ Labels \cap Fields = {} /\ "load" \notin Fields
        /\ op.outcome \in [Paths -> {"ok", "null", "error"}]
        /\ \A p \in Paths : /\ p \in Seq(Fields \cup Labels)
                            /\ Len(p) \in 1..(2 * Cardinality(Buckets)) /\ p[1] \in Fields
    BY <1>1 DEF IsOperation, Buckets, Fields, Labels, Paths
  <1>3. ASSUME NEW p \in Paths PROVE p # <<>>
    <2>1. Len(p) \in 1..(2 * Cardinality(Buckets))
      BY <1>2
    <2> QED
      BY <2>1
  <1>4. \A p \in Paths : op.outcome[p] \in {"ok", "null", "error"}
    BY <1>2
  <1> QED
    BY <1>2, <1>3, <1>4

\* The last and the last but one of a path that got longer.
LEMMA Longer ==
    ASSUME NEW S, NEW p \in Seq(S), NEW x \in S
    PROVE  /\ Append(p, x) \in Seq(S) /\ Append(p, x) # <<>>
           /\ Len(Append(p, x)) = Len(p) + 1 /\ Len(p) \in Nat
           /\ Append(p, x)[Len(Append(p, x))] = x
           /\ p # <<>> => Append(p, x)[Len(Append(p, x)) - 1] = p[Len(p)]
           /\ \A q \in Seq(S), y \in S : Append(p, x) = Append(q, y) => p = q /\ x = y
  <1>1. /\ Append(p, x) \in Seq(S) /\ Len(Append(p, x)) = Len(p) + 1 /\ Len(p) \in Nat
        /\ \A i \in 1..Len(p) : Append(p, x)[i] = p[i]
        /\ Append(p, x)[Len(p) + 1] = x
    BY AppendProperties
  <1>2. p # <<>> => (Len(p) + 1) - 1 = Len(p) /\ Len(p) \in 1..Len(p)
    BY <1>1
  <1>3. \A q \in Seq(S), y \in S : Append(p, x) = Append(q, y) => p = q /\ x = y
    BY AppendInjective
  <1>4. Append(p, x) # <<>>
    BY <1>1
  <1> QED
    BY <1>1, <1>2, <1>3, <1>4

\* The objects.
LEMMA RowFacts ==
    ASSUME op \in Operations
    PROVE  /\ <<>> \in Objects
           /\ \A p \in Objects : p \in Seq(Fields \cup Labels) /\ (p = <<>> \/ p \in Paths)
           /\ Rows("root") = {<<>>}
           /\ \A p \in Objects : BucketOf(p) \in Buckets
  <1>1. <<>> \in Objects /\ \A p \in Objects : p = <<>> \/ p \in Paths
    BY DEF Objects, Paths
  <1>2. \A p \in Objects : p \in Seq(Fields \cup Labels)
    <2>1. <<>> \in Seq(Fields \cup Labels)
      OBVIOUS
    <2> QED
      BY <1>1, <2>1, PathFacts
  <1>3. BucketOf(<<>>) = "root"
    BY DEF BucketOf
  <1>4. ASSUME NEW p \in Objects, p # <<>> PROVE BucketOf(p) \in Buckets \ {"root"}
    <2>1. HasChild(FieldOf(p))
      BY <1>4 DEF Objects
    <2>2. Child(FieldOf(p)) \in Buckets \ {"root"}
      BY <2>1 DEF HasChild, Child
    <2> QED
      BY <1>4, <2>2 DEF BucketOf
  <1> QED
    BY <1>1, <1>2, <1>3, <1>4, Tree DEF Rows

\* There is a path for every field of a row, and for the items of its lists.
LEMMA Written ==
    ASSUME op \in Operations, NEW b \in Buckets, NEW p \in Rows(b), NEW f \in ToSet(op.fields[b])
    PROVE  /\ Append(p, f) \in Paths
           /\ f \in op.list => \A i \in ToSet(op.items[f]) : Append(Append(p, f), i) \in Paths
  <1>1. IsOperation(op)
    BY ExecutionAssumption
  <1>2. CASE b = "root"
    <2>1. p = <<>>
      BY <1>2, RowFacts
    <2> QED
      BY <1>1, <1>2, <2>1 DEF IsOperation, Buckets, Paths
  <1>3. CASE b # "root"
    <2>1. p # <<>> /\ p \in Objects /\ BucketOf(p) = b
      BY <1>3 DEF Rows, BucketOf
    <2>2. p \in Paths /\ op.outcome[p] = "ok" /\ HasChild(FieldOf(p)) /\ p[Len(p)] \notin op.list
      BY <2>1 DEF Objects, Paths
    <2>3. b = Child(FieldOf(p))
      BY <2>1 DEF BucketOf
    <2>4. op.owner[b] = FieldOf(p)
      BY <2>2, <2>3 DEF HasChild, Child
    <2> QED
      BY <1>1, <1>3, <2>2, <2>4 DEF IsOperation, Buckets, Fields, FieldOf, Paths
  <1> QED
    BY <1>2, <1>3

\* A field's values lie below the rows of its bucket, and those that are objects
\* are what its child bucket may hold.
LEMMA ValueFacts ==
    ASSUME op \in Operations, NEW b \in Buckets, NEW p \in Rows(b), NEW f \in ToSet(op.fields[b])
    PROVE  LET q == Append(p, f) IN
           /\ q \in Paths /\ FieldOf(q) = f /\ Len(q) = Len(p) + 1
           /\ op.outcome[q] = "ok" /\ HasChild(f) /\ f \notin op.list => q \in Rows(Child(f))
  <1> DEFINE q == Append(p, f)
  <1>1. p \in Seq(Fields \cup Labels) /\ f \in Fields
    BY RowFacts, Tree DEF Rows
  <1>2. q \in Paths
    BY Written
  <1>3. Len(q) = Len(p) + 1 /\ q[Len(q)] = f /\ q # <<>>
    BY <1>1, Longer
  <1> HIDE DEF q
  <1>4. FieldOf(q) = f
    BY <1>1, <1>3 DEF FieldOf
  <1>5. ASSUME op.outcome[q] = "ok", HasChild(f), f \notin op.list PROVE q \in Rows(Child(f))
    <2>1. q \in Objects
      BY <1>2, <1>3, <1>4, <1>5 DEF Objects, Paths
    <2> QED
      BY <1>3, <1>4, <2>1 DEF Rows, BucketOf
  <1> QED
    BY <1>2, <1>3, <1>4, <1>5 DEF q

LEMMA ItemFacts ==
    ASSUME op \in Operations, NEW b \in Buckets, NEW p \in Rows(b), NEW f \in ToSet(op.fields[b]),
           f \in op.list, NEW i \in ToSet(op.items[f])
    PROVE  LET q == Append(Append(p, f), i) IN
           /\ q \in Paths /\ FieldOf(q) = f /\ Len(q) = Len(p) + 2 /\ i \in Labels
           /\ op.outcome[q] = "ok" /\ HasChild(f) => q \in Rows(Child(f))
  <1> DEFINE S == Fields \cup Labels
             r == Append(p, f)
             q == Append(r, i)
  <1>1. p \in Seq(S) /\ f \in Fields /\ i \in Labels /\ i \notin Fields /\ i \notin op.list
    <2>1. i \in Labels
      BY DEF Labels
    <2> QED
      BY <2>1, RowFacts, Tree, PathFacts DEF Rows
  <1>2. q \in Paths
    BY Written
  <1>3. f \in S /\ i \in S
    BY <1>1
  <1> HIDE DEF S
  <1>4. /\ r \in Seq(S) /\ r # <<>> /\ Len(r) = Len(p) + 1 /\ Len(p) \in Nat /\ r[Len(r)] = f
    BY <1>1, <1>3, Longer
  <1> HIDE DEF r
  <1>5. Len(q) = Len(r) + 1 /\ q[Len(q)] = i /\ q # <<>> /\ q[Len(q) - 1] = r[Len(r)]
    BY <1>3, <1>4, Longer
  <1> HIDE DEF q
  <1>6. FieldOf(q) = f
    BY <1>1, <1>4, <1>5 DEF FieldOf
  <1>7. ASSUME op.outcome[q] = "ok", HasChild(f) PROVE q \in Rows(Child(f))
    <2>1. q \in Objects
      BY <1>1, <1>2, <1>5, <1>6, <1>7 DEF Objects, Paths
    <2> QED
      BY <1>5, <1>6, <2>1 DEF Rows, BucketOf
  <1>8. Len(q) = Len(p) + 2
    BY <1>4, <1>5
  <1> QED
    BY <1>1, <1>2, <1>6, <1>7, <1>8 DEF q, r

-----------------------------------------------------------------------------
(* The reference.                                                          *)

\* The value of an object depends only on those further down.
LEMMA FurtherDown ==
    ASSUME op \in Operations, NEW p \in Objects, NEW sync, NEW other,
           \A q \in Objects : Len(q) > Len(p) => sync[q] = other[q]
    PROVE  ObjectValue(sync, p) = ObjectValue(other, p)
  <1> DEFINE b == BucketOf(p)
  <1>1. b \in Buckets /\ p \in Rows(b) /\ Len(p) \in Nat
    <2>1. p \in Seq(Fields \cup Labels)
      BY RowFacts
    <2> QED
      BY <2>1, RowFacts DEF Rows
  <1> HIDE DEF b
  <1>2. ASSUME NEW f \in ToSet(op.fields[b])
        PROVE  FieldValue(sync, f, Append(p, f)) = FieldValue(other, f, Append(p, f))
    <2> DEFINE q == Append(p, f)
    <2>1. /\ q \in Paths /\ Len(q) = Len(p) + 1 /\ op.outcome[q] \in {"ok", "null", "error"}
          /\ op.outcome[q] = "ok" /\ HasChild(f) /\ f \notin op.list => q \in Objects
      BY <1>1, ValueFacts, PathFacts DEF Rows
    <2>2. ~ (f \in op.list /\ op.outcome[q] = "ok") => SingleValue(sync, f, q) = SingleValue(other, f, q)
      <3> HIDE DEF q
      <3>1. op.outcome[q] = "ok" /\ HasChild(f) /\ f \notin op.list => sync[q] = other[q]
        BY <1>1, <2>1
      <3> QED
        BY <2>1, <3>1 DEF SingleValue
    <2>3. ASSUME f \in op.list PROVE ListValue(sync, f, q) = ListValue(other, f, q)
      <3>1. ASSUME NEW i \in DOMAIN op.items[f]
            PROVE  ItemValue(sync, f, Append(q, op.items[f][i])) = ItemValue(other, f, Append(q, op.items[f][i]))
        <4> DEFINE r == Append(q, op.items[f][i])
        <4>1. op.items[f][i] \in ToSet(op.items[f])
          BY DEF ToSet
        <4>2. /\ r \in Paths /\ Len(r) = Len(p) + 2
              /\ op.outcome[r] = "ok" /\ HasChild(f) => r \in Rows(Child(f))
          BY <1>1, <2>3, <4>1, ItemFacts
        <4> HIDE DEF r
        <4>3. /\ op.outcome[r] \in {"ok", "null", "error"}
              /\ op.outcome[r] = "ok" /\ HasChild(f) => sync[r] = other[r]
          <5>1. op.outcome[r] \in {"ok", "null", "error"}
            BY <4>2, PathFacts
          <5>2. Len(r) > Len(p)
            BY <1>1, <4>2
          <5>3. op.outcome[r] = "ok" /\ HasChild(f) => r \in Objects
            BY <4>2 DEF Rows
          <5> QED
            BY <5>1, <5>2, <5>3
        <4>4. SingleValue(sync, f, r) = SingleValue(other, f, r)
          BY <4>3 DEF SingleValue
        <4>5. ItemValue(sync, f, r) = ItemValue(other, f, r)
          BY <4>4 DEF ItemValue
        <4> QED
          BY <4>5 DEF r
      <3> HIDE DEF q
      <3>2. [i \in DOMAIN op.items[f] |-> ItemValue(sync, f, Append(q, op.items[f][i]))]
              = [i \in DOMAIN op.items[f] |-> ItemValue(other, f, Append(q, op.items[f][i]))]
        BY <3>1
      <3> QED
        BY <3>2, Zenon DEF ListValue
    <2> HIDE DEF q
    <2>4. FieldValue(sync, f, q) = FieldValue(other, f, q)
      BY <2>2, <2>3 DEF FieldValue
    <2> QED
      BY <2>4 DEF q
  <1>3. [f \in ToSet(op.fields[b]) |-> FieldValue(sync, f, Append(p, f))]
          = [f \in ToSet(op.fields[b]) |-> FieldValue(other, f, Append(p, f))]
    BY <1>2
  <1> QED
    BY <1>3, Zenon DEF ObjectValue, b

\* The recursive function of the reference exists.
LEMMA SynchronousIs ==
    ASSUME op \in Operations
    PROVE  \A p \in Objects : Synchronous[p] = ObjectValue(Synchronous, p)
  <1> DEFINE N == 2 * Cardinality(Buckets) + 1
             Deep(n, p) == Len(p) + n > N
             good == {n \in Nat : \E sync : \A p \in Objects : Deep(n, p) => sync[p] = ObjectValue(sync, p)}
  <1>1. N \in Nat /\ \A p \in Objects : Len(p) \in Nat /\ Len(p) < N
    <2>1. Cardinality(Buckets) \in Nat
      <3>1. IsOperation(op)
        BY ExecutionAssumption
      <3> QED
        BY <3>1, FS_CardinalityType DEF IsOperation, Buckets
    <2>2. \A p \in Paths : Len(p) \in 1..(2 * Cardinality(Buckets))
      BY PathFacts
    <2>3. Len(<<>>) = 0
      OBVIOUS
    <2> QED
      BY <2>1, <2>2, <2>3, RowFacts
  <1> HIDE DEF N
  <1>2. 1 \in good
    <2>1. \A p \in Objects : ~ Deep(1, p)
      BY <1>1
    <2> QED
      BY <2>1
  <1>3. ASSUME NEW n \in 1..(N + 1), n \in good PROVE n + 1 \in good
    <2>1. PICK sync : \A p \in Objects : Deep(n, p) => sync[p] = ObjectValue(sync, p)
      BY <1>3
    <2> DEFINE more == [p \in Objects |-> IF Deep(n, p) THEN sync[p] ELSE ObjectValue(sync, p)]
    <2>2. ASSUME NEW p \in Objects, Deep(n + 1, p) PROVE more[p] = ObjectValue(more, p)
      <3>1. \A q \in Objects : Len(q) > Len(p) => Deep(n, q)
        BY <1>1, <2>2
      <3>2. \A q \in Objects : Len(q) > Len(p) => sync[q] = more[q]
        BY <3>1
      <3>3. more[p] = ObjectValue(sync, p)
        BY <2>1
      <3> HIDE DEF more
      <3> QED
        BY <3>2, <3>3, FurtherDown
    <2> HIDE DEF more
    <2> QED
      BY <2>2
  <1>4. N + 1 \in good
    <2> HIDE DEF good
    <2>1. N + 1 \in Nat /\ N + 1 \in 1..(N + 1)
      BY <1>1
    <2>2. 1..(N + 1) \subseteq good
      BY <1>2, <1>3, <2>1, UpTo
    <2> QED
      BY <2>1, <2>2
  <1>5. PICK sync : \A p \in Objects : sync[p] = ObjectValue(sync, p)
    <2>1. \A p \in Objects : Deep(N + 1, p)
      BY <1>1
    <2> HIDE DEF Deep
    <2> QED
      BY <1>4, <2>1
  <1> DEFINE whole == [p \in Objects |-> sync[p]]
  <1>6. \A p \in Objects : whole[p] = ObjectValue(whole, p)
    <2>1. ASSUME NEW p \in Objects PROVE ObjectValue(sync, p) = ObjectValue(whole, p)
      <3>1. \A q \in Objects : Len(q) > Len(p) => sync[q] = whole[q]
        OBVIOUS
      <3> HIDE DEF whole
      <3> QED
        BY <3>1, FurtherDown
    <2> QED
      BY <1>5, <2>1
  <1>7. whole = [p \in Objects |-> ObjectValue(whole, p)]
    BY <1>6
  <1> HIDE DEF whole
  <1>8. Synchronous = [p \in Objects |-> ObjectValue(Synchronous, p)]
    <2>1. \E fun : fun = [p \in Objects |-> ObjectValue(fun, p)]
      BY <1>7
    <2> QED
      BY <2>1 DEF Synchronous
  <1> QED
    BY <1>8

\* An operation's definitions are the same in the next state.
LEMMA OpStays ==
    ASSUME op' = op
    PROVE  /\ Buckets' = Buckets /\ Fields' = Fields /\ Paths' = Paths /\ Objects' = Objects
           /\ \A f : Home(f)' = Home(f) /\ Child(f)' = Child(f) /\ HasChild(f)' = HasChild(f)
           /\ \A b : Rows(b)' = Rows(b)
           /\ Synchronous' = Synchronous /\ SynchronousData' = SynchronousData
           /\ \A f, p : Value(f, p)' = Value(f, p)
           /\ \A f, p : ItemsOf(f, p)' = ItemsOf(f, p)
           /\ \A s : KeepOrigin(s)' = KeepOrigin(s)
  <1>1. Buckets' = Buckets /\ Fields' = Fields /\ Paths' = Paths
    BY DEF Buckets, Fields, Paths
  <1>2. \A f : Home(f)' = Home(f) /\ Child(f)' = Child(f) /\ HasChild(f)' = HasChild(f)
    BY DEF Home, Child, HasChild, Buckets
  <1>3. Objects' = Objects
    BY DEF Objects, HasChild, FieldOf, Fields, Buckets
  <1>4. \A b : Rows(b)' = Rows(b)
    BY DEF Rows, Objects, BucketOf, Child, HasChild, FieldOf, Fields, Buckets
  <1>5. Synchronous' = Synchronous
    BY DEF Synchronous, ObjectValue, FieldValue, ListValue, ItemValue, SingleValue, Objects, BucketOf,
           HasChild, Child, FieldOf, Fields, Buckets
  <1>6. SynchronousData' = SynchronousData
    BY <1>5 DEF SynchronousData
  <1>7. \A f, p : Value(f, p)' = Value(f, p)
    BY <1>5 DEF Value, FieldValue, ListValue, ItemValue, SingleValue, HasChild, Buckets
  <1>8. \A f, p : ItemsOf(f, p)' = ItemsOf(f, p)
    BY DEF ItemsOf
  <1>9. \A s : KeepOrigin(s)' = KeepOrigin(s)
    BY DEF KeepOrigin
  <1> QED
    BY <1>1, <1>2, <1>3, <1>4, <1>5, <1>6, <1>7, <1>8, <1>9

-----------------------------------------------------------------------------
(* Columns.                                                                *)

\* The positions of a sequence that are in a set.
LEMMA PositionsIs ==
    ASSUME NEW T, NEW s \in Seq(T), NEW S
    PROVE  /\ Positions(s, S) \in Seq(DOMAIN s \cap S)
           /\ ToSet(Positions(s, S)) = DOMAIN s \cap S
           /\ IsInjective(Positions(s, S))
  <1> DEFINE R == DOMAIN s \cap S
             seqs == [i \in DOMAIN s |-> IF i \in S THEN <<i>> ELSE <<>>]
  <1>1. DOMAIN s = 1..Len(s) /\ Len(s) \in Nat
    OBVIOUS
  <1>2. \A i : ToSet(<<i>>) = {i} /\ IsInjective(<<i>>)
    BY DEF ToSet, IsInjective
  <1>3. ToSet(<<>>) = {} /\ IsInjective(<<>>)
    BY DEF ToSet, IsInjective
  <1>4. /\ DOMAIN seqs = DOMAIN s
        /\ \A i \in DOMAIN s : i \in S => seqs[i] = <<i>>
        /\ \A i \in DOMAIN s : i \notin S => seqs[i] = <<>>
    OBVIOUS
  <1>5. seqs \in Seq(Seq(R))
    <2>1. <<>> \in Seq(R) /\ \A x \in R : <<x>> \in Seq(R)
      OBVIOUS
    <2>2. \A i \in DOMAIN s : i \in S => i \in R
      OBVIOUS
    <2> HIDE DEF seqs, R
    <2>3. seqs \in [1..Len(s) -> Seq(R)]
      <3>1. \A i \in 1..Len(s) : seqs[i] \in Seq(R)
        BY <1>1, <1>4, <2>1, <2>2
      <3>2. seqs = [i \in 1..Len(s) |-> seqs[i]]
        BY <1>1 DEF seqs
      <3> QED
        BY <3>1, <3>2
    <2> QED
      BY <1>1, <2>3
  <1>6. Positions(s, S) = FlattenSeq(seqs)
    BY DEF Positions
  <1> HIDE DEF seqs
  <1>7. \A i \in DOMAIN s : /\ IsInjective(seqs[i])
                            /\ \A x : x \in ToSet(seqs[i]) <=> x = i /\ x \in S
    <2>1. ASSUME NEW i \in DOMAIN s, i \in S
          PROVE  IsInjective(seqs[i]) /\ \A x : x \in ToSet(seqs[i]) <=> x = i /\ x \in S
      <3>1. seqs[i] = <<i>>
        BY <1>4, <2>1
      <3>2. IsInjective(seqs[i]) /\ ToSet(seqs[i]) = {i}
        BY ONLY <1>2, <3>1
      <3> QED
        BY <2>1, <3>2
    <2>2. ASSUME NEW i \in DOMAIN s, i \notin S
          PROVE  IsInjective(seqs[i]) /\ \A x : x \in ToSet(seqs[i]) <=> x = i /\ x \in S
      <3>1. seqs[i] = <<>>
        BY <1>4, <2>2
      <3>2. IsInjective(seqs[i]) /\ ToSet(seqs[i]) = {}
        BY ONLY <1>3, <3>1
      <3> QED
        BY <2>2, <3>2
    <2> QED
      BY <2>1, <2>2
  <1>8. \A i, j \in DOMAIN seqs : i # j => ToSet(seqs[i]) \cap ToSet(seqs[j]) = {}
    BY <1>4, <1>7
  <1>9. IsInjective(FlattenSeq(seqs)) /\ FlattenSeq(seqs) \in Seq(R)
    <2>1. \A i \in DOMAIN seqs : IsInjective(seqs[i])
      BY <1>4, <1>7
    <2> HIDE DEF R
    <2> QED
      BY <1>5, <1>8, <2>1, Flattened
  <1>10. \A x : x \in ToSet(FlattenSeq(seqs)) <=> x \in R
    <2>1. \A x : x \in ToSet(FlattenSeq(seqs)) <=> \E i \in DOMAIN seqs : x \in ToSet(seqs[i])
      BY <1>5, Flattened
    <2> QED
      BY <1>4, <1>7, <2>1
  <1> QED
    BY <1>6, <1>9, <1>10

\* The members of a sequence at different positions are a sequence without
\* duplicates, too.
LEMMA Picked ==
    ASSUME NEW S, NEW s \in Seq(S), NEW at \in Seq(DOMAIN s), NEW t,
           t = [k \in DOMAIN at |-> s[at[k]]]
    PROVE  t \in Seq(S) /\ Len(t) = Len(at) /\ (IsInjective(s) /\ IsInjective(at) => IsInjective(t))
  <1>1. Len(at) \in Nat /\ DOMAIN at = 1..Len(at) /\ \A k \in 1..Len(at) : at[k] \in DOMAIN s
    OBVIOUS
  <1>2. \A i \in DOMAIN s : s[i] \in S
    OBVIOUS
  <1>3. t \in [1..Len(at) -> S]
    BY <1>1, <1>2
  <1>4. t \in Seq(S) /\ Len(t) = Len(at)
    BY <1>1, <1>3
  <1>5. IsInjective(s) /\ IsInjective(at) => IsInjective(t)
    BY <1>1 DEF IsInjective
  <1> QED
    BY <1>4, <1>5

\* A completed field's place among the rows.
Settled(f, live) ==
    live \in Seq(DOMAIN bucket[Home(f)].rows) /\ IsInjective(live)

LEMMA ValuesAre ==
    ASSUME op \in Operations, NEW f \in Fields, Shaped(Home(f)), NEW live, Settled(f, live)
    PROVE  /\ ValuePaths(f, live) \in Seq(Paths) /\ IsInjective(ValuePaths(f, live))
           /\ Len(ValuePaths(f, live)) = Len(live)
           /\ \A k \in DOMAIN live :
                 /\ live[k] \in DOMAIN bucket[Home(f)].rows
                 /\ bucket[Home(f)].rows[live[k]] \in Rows(Home(f))
                 /\ ValuePaths(f, live)[k] = Append(bucket[Home(f)].rows[live[k]], f)
           /\ \A x \in ToSet(ValuePaths(f, live)) : FieldOf(x) = f
  <1> DEFINE b == Home(f)
             rows == bucket[b].rows
             values == ValuePaths(f, live)
  <1>1. b \in Buckets /\ f \in ToSet(op.fields[b])
    BY Tree
  <1>2. rows \in Seq(Rows(b)) /\ IsInjective(rows) /\ live \in Seq(DOMAIN rows) /\ IsInjective(live)
    BY DEF Shaped, Settled
  <1>3. values = [k \in DOMAIN live |-> Append(rows[live[k]], f)]
    BY DEF ValuePaths
  <1> HIDE DEF b, rows, values
  <1>4. Len(live) \in Nat /\ DOMAIN live = 1..Len(live) /\ \A k \in DOMAIN live : live[k] \in DOMAIN rows
    BY <1>2
  <1>5. \A k \in DOMAIN live : rows[live[k]] \in Rows(b)
    BY <1>2, <1>4
  <1>6. ASSUME NEW k \in DOMAIN live PROVE values[k] \in Paths /\ FieldOf(values[k]) = f
    BY <1>1, <1>3, <1>5, ValueFacts
  <1>7. values \in Seq(Paths) /\ Len(values) = Len(live) /\ DOMAIN values = DOMAIN live
    <2>1. values \in [1..Len(live) -> Paths]
      BY <1>3, <1>4, <1>6
    <2> QED
      BY <1>4, <2>1
  <1>8. IsInjective(values)
    <2>1. ASSUME NEW k \in DOMAIN live, NEW l \in DOMAIN live, values[k] = values[l] PROVE k = l
      <3>1. Append(rows[live[k]], f) = Append(rows[live[l]], f)
        BY <1>3, <2>1
      <3>2. rows[live[k]] \in Seq(Fields \cup Labels) /\ rows[live[l]] \in Seq(Fields \cup Labels)
        BY <1>5, RowFacts DEF Rows
      <3>3. rows[live[k]] = rows[live[l]]
        <4>1. \A p, q \in Seq(Fields \cup Labels) : Append(p, f) = Append(q, f) => p = q
          BY Longer
        <4> QED
          BY <3>1, <3>2, <4>1
      <3> QED
        BY <1>2, <1>4, <3>3 DEF IsInjective
    <2> QED
      BY <1>7, <2>1 DEF IsInjective
  <1>9. \A x \in ToSet(values) : FieldOf(x) = f
    BY <1>6, <1>7 DEF ToSet
  <1> QED
    BY <1>3, <1>4, <1>5, <1>7, <1>8, <1>9 DEF b, rows, values

\* The items of a list.
LEMMA ItemsAre ==
    ASSUME op \in Operations, NEW f \in Fields, f \in op.list, NEW p \in Rows(Home(f)),
           NEW items, items = ItemsOf(f, Append(p, f))
    PROVE  /\ items \in Seq(Paths) /\ IsInjective(items)
           /\ \A x \in ToSet(items) : /\ FieldOf(x) = f /\ \E i \in Labels : x = Append(Append(p, f), i)
                                      /\ op.outcome[x] = "ok" /\ HasChild(f) => x \in Rows(Child(f))
           /\ op.outcome[Append(p, f)] = "ok" =>
                 DOMAIN items = DOMAIN op.items[f]
                 /\ \A i \in DOMAIN items : items[i] = Append(Append(p, f), op.items[f][i])
  <1> DEFINE q == Append(p, f)
  <1>1. Home(f) \in Buckets /\ f \in ToSet(op.fields[Home(f)])
    BY Tree
  <1>2. CASE op.outcome[q] # "ok"
    <2>1. items = <<>>
      BY <1>2 DEF ItemsOf
    <2>2. <<>> \in Seq(Paths) /\ IsInjective(<<>>) /\ ToSet(<<>>) = {}
      BY DEF IsInjective, ToSet
    <2> QED
      BY <1>2, <2>1, <2>2
  <1>3. CASE op.outcome[q] = "ok"
    <2> DEFINE labels == op.items[f]
    <2>1. labels \in Seq(Labels) /\ IsInjective(labels)
      BY PathFacts
    <2>2. items = [i \in DOMAIN labels |-> Append(q, labels[i])]
      BY <1>3 DEF ItemsOf
    <2>3. q \in Seq(Fields \cup Labels)
      BY <1>1, ValueFacts, PathFacts
    <2> HIDE DEF q
    <2>4. \A i \in DOMAIN labels : labels[i] \in ToSet(labels) /\ labels[i] \in Labels
      BY <2>1 DEF ToSet
    <2>5. \A j \in ToSet(labels) : \A u : u = Append(q, j) =>
             /\ u \in Paths /\ FieldOf(u) = f
             /\ op.outcome[u] = "ok" /\ HasChild(f) => u \in Rows(Child(f))
      <3>1. ASSUME NEW j \in ToSet(labels), NEW u, u = Append(Append(p, f), j)
            PROVE  /\ u \in Paths /\ FieldOf(u) = f
                   /\ op.outcome[u] = "ok" /\ HasChild(f) => u \in Rows(Child(f))
        BY <1>1, <3>1, ItemFacts
      <3> QED
        BY <3>1 DEF q
    <2> HIDE DEF labels
    <2>6. \A i \in DOMAIN labels : items[i] = Append(q, labels[i]) /\ items[i] \in Paths
      BY <2>2, <2>4, <2>5
    <2>7. items \in Seq(Paths) /\ DOMAIN items = DOMAIN labels
      <3>1. DOMAIN labels = 1..Len(labels) /\ Len(labels) \in Nat
        BY <2>1
      <3>2. items \in [1..Len(labels) -> Paths]
        BY <2>2, <2>6, <3>1
      <3> QED
        BY <3>1, <3>2
    <2>8. IsInjective(items)
      <3>1. \A x, y \in Labels : Append(q, x) = Append(q, y) => x = y
        BY <2>3, Longer
      <3> QED
        BY <2>1, <2>4, <2>6, <2>7, <3>1 DEF IsInjective
    <2>9. ASSUME NEW x \in ToSet(items)
          PROVE  /\ FieldOf(x) = f /\ \E i \in Labels : x = Append(q, i)
                 /\ op.outcome[x] = "ok" /\ HasChild(f) => x \in Rows(Child(f))
      <3>1. PICK i \in DOMAIN labels : x = Append(q, labels[i])
        BY <2>6, <2>7 DEF ToSet
      <3> QED
        BY <2>4, <2>5, <3>1
    <2> QED
      BY <2>6, <2>7, <2>8, <2>9 DEF q, labels
  <1> QED
    BY <1>2, <1>3

\* The sequences that a list field's column is put together from.
Parts(f, live) == [k \in DOMAIN live |-> ItemsOf(f, ValuePaths(f, live)[k])]

LEMMA PartsAre ==
    ASSUME op \in Operations, NEW f \in Fields, f \in op.list, Shaped(Home(f)), NEW live, Settled(f, live),
           NEW parts, parts = Parts(f, live)
    PROVE  /\ parts \in Seq(Seq(Paths)) /\ DOMAIN parts = DOMAIN live
           /\ Column(f, live) = FlattenSeq(parts)
           /\ \A k \in DOMAIN live :
                 /\ IsInjective(parts[k]) /\ parts[k] = ItemsOf(f, ValuePaths(f, live)[k])
                 /\ \A x \in ToSet(parts[k]) :
                       /\ FieldOf(x) = f /\ \E i \in Labels : x = Append(ValuePaths(f, live)[k], i)
                       /\ op.outcome[x] = "ok" /\ HasChild(f) => x \in Rows(Child(f))
  <1>1. parts = [k \in DOMAIN live |-> ItemsOf(f, ValuePaths(f, live)[k])]
    BY DEF Parts
  <1>2. Column(f, live) = FlattenSeq(parts)
    BY <1>1 DEF Column
  <1>3. ASSUME NEW k \in DOMAIN live
        PROVE  /\ parts[k] \in Seq(Paths) /\ IsInjective(parts[k])
               /\ \A x \in ToSet(parts[k]) :
                     /\ FieldOf(x) = f /\ \E i \in Labels : x = Append(ValuePaths(f, live)[k], i)
                     /\ op.outcome[x] = "ok" /\ HasChild(f) => x \in Rows(Child(f))
    <2> DEFINE p == bucket[Home(f)].rows[live[k]]
    <2>1. p \in Rows(Home(f)) /\ ValuePaths(f, live)[k] = Append(p, f)
      BY ValuesAre
    <2>2. parts[k] = ItemsOf(f, Append(p, f))
      BY <1>1, <2>1
    <2> HIDE DEF p
    <2> QED
      BY <2>1, <2>2, ItemsAre
  <1>4. parts \in Seq(Seq(Paths)) /\ DOMAIN parts = DOMAIN live
    <2>1. DOMAIN live = 1..Len(live) /\ Len(live) \in Nat
      BY DEF Settled
    <2>2. parts \in [1..Len(live) -> Seq(Paths)]
      BY <1>1, <1>3, <2>1
    <2> QED
      BY <2>1, <2>2
  <1> QED
    BY <1>1, <1>2, <1>3, <1>4

LEMMA ColumnIs ==
    ASSUME op \in Operations, NEW f \in Fields, Shaped(Home(f)), NEW live, Settled(f, live)
    PROVE  /\ Column(f, live) \in Seq(Paths) /\ IsInjective(Column(f, live))
           /\ \A x \in ToSet(Column(f, live)) :
                 /\ FieldOf(x) = f
                 /\ op.outcome[x] = "ok" /\ HasChild(f) => x \in Rows(Child(f))
  <1> DEFINE values == ValuePaths(f, live)
  <1>1. /\ values \in Seq(Paths) /\ IsInjective(values) /\ DOMAIN values = DOMAIN live
        /\ \A x \in ToSet(values) : FieldOf(x) = f
    <2>1. Len(values) = Len(live) /\ live \in Seq(DOMAIN bucket[Home(f)].rows) /\ values \in Seq(Paths)
      BY ValuesAre DEF Settled
    <2>2. DOMAIN values = DOMAIN live
      BY <2>1
    <2> QED
      BY <2>2, ValuesAre
  <1>2. CASE f \notin op.list
    <2>1. Column(f, live) = values
      BY <1>2 DEF Column
    <2>2. ASSUME NEW x \in ToSet(values), op.outcome[x] = "ok", HasChild(f) PROVE x \in Rows(Child(f))
      <3>1. PICK k \in DOMAIN live : x = values[k]
        BY <1>1 DEF ToSet
      <3>2. PICK p \in Rows(Home(f)) : x = Append(p, f)
        BY <3>1, ValuesAre
      <3> QED
        BY <1>2, <2>2, <3>2, ValueFacts, Tree
    <2> QED
      BY <1>1, <2>1, <2>2
  <1>3. CASE f \in op.list
    <2>1. PICK parts : parts = Parts(f, live)
      OBVIOUS
    <2>2. /\ parts \in Seq(Seq(Paths)) /\ DOMAIN parts = DOMAIN live
          /\ Column(f, live) = FlattenSeq(parts)
          /\ \A k \in DOMAIN live :
                /\ IsInjective(parts[k])
                /\ \A x \in ToSet(parts[k]) :
                      /\ FieldOf(x) = f /\ \E i \in Labels : x = Append(values[k], i)
                      /\ op.outcome[x] = "ok" /\ HasChild(f) => x \in Rows(Child(f))
      BY <1>3, <2>1, PartsAre
    <2> HIDE DEF values
    <2>3. ASSUME NEW k \in DOMAIN live, NEW l \in DOMAIN live, k # l
          PROVE  ToSet(parts[k]) \cap ToSet(parts[l]) = {}
      <3>1. ASSUME NEW x \in ToSet(parts[k]), x \in ToSet(parts[l]) PROVE FALSE
        <4>1. PICK i \in Labels : x = Append(values[k], i)
          BY <2>2
        <4>2. PICK j \in Labels : x = Append(values[l], j)
          BY <2>2, <3>1
        <4>3. values[k] \in Paths /\ values[l] \in Paths
          BY <1>1
        <4>4. values[k] \in Seq(Fields \cup Labels) /\ values[l] \in Seq(Fields \cup Labels)
          BY <4>3, PathFacts
        <4>5. values[k] = values[l]
          <5>1. \A p, q \in Seq(Fields \cup Labels) : \A u, v \in Labels : Append(p, u) = Append(q, v) => p = q
            BY Longer
          <5> QED
            BY <4>1, <4>2, <4>4, <5>1
        <4> QED
          BY <1>1, <2>3, <4>5 DEF IsInjective
      <3> QED
        BY <3>1
    <2>4. /\ FlattenSeq(parts) \in Seq(Paths)
          /\ \A x : x \in ToSet(FlattenSeq(parts)) <=> \E k \in DOMAIN parts : x \in ToSet(parts[k])
          /\ IsInjective(FlattenSeq(parts))
      <3>1. /\ \A k \in DOMAIN parts : IsInjective(parts[k])
            /\ \A k, l \in DOMAIN parts : k # l => ToSet(parts[k]) \cap ToSet(parts[l]) = {}
        BY <2>2, <2>3
      <3>2. parts \in Seq(Seq(Paths))
        BY <2>2
      <3> QED
        BY <3>1, <3>2, Flattened
    <2> QED
      BY <2>2, <2>4
  <1> QED
    BY <1>2, <1>3

\* Where the items of one list are in the column.
LEMMA ColumnAt ==
    ASSUME op \in Operations, NEW f \in Fields, f \in op.list, Shaped(Home(f)), NEW live, Settled(f, live),
           NEW k \in DOMAIN live, NEW i \in DOMAIN ItemsOf(f, ValuePaths(f, live)[k])
    PROVE  LET at == Len(Column(f, SubSeq(live, 1, k - 1))) + i IN
           at \in DOMAIN Column(f, live) /\ Column(f, live)[at] = ItemsOf(f, ValuePaths(f, live)[k])[i]
  <1> DEFINE sub == SubSeq(live, 1, k - 1)
  <1>1. PICK parts : parts = Parts(f, live)
    OBVIOUS
  <1>2. /\ parts \in Seq(Seq(Paths)) /\ DOMAIN parts = DOMAIN live
        /\ Column(f, live) = FlattenSeq(parts)
        /\ \A j \in DOMAIN live : parts[j] = ItemsOf(f, ValuePaths(f, live)[j])
    BY <1>1, PartsAre
  <1>3. Len(live) \in Nat /\ DOMAIN live = 1..Len(live) /\ k - 1 \in Nat /\ k - 1 <= Len(live)
    BY DEF Settled
  <1>4. DOMAIN sub = 1..(k - 1) /\ \A j \in 1..(k - 1) : j \in DOMAIN live /\ sub[j] = live[j]
    BY <1>3
  <1> HIDE DEF sub
  <1>5. \A j \in 1..(k - 1) : ItemsOf(f, ValuePaths(f, sub)[j]) = parts[j]
    <2>1. \A j \in 1..(k - 1) : ValuePaths(f, sub)[j] = ValuePaths(f, live)[j]
      BY <1>4 DEF ValuePaths
    <2> QED
      BY <1>2, <1>4, <2>1
  <1>6. [j \in DOMAIN sub |-> ItemsOf(f, ValuePaths(f, sub)[j])] = [j \in 1..(k - 1) |-> parts[j]]
    BY <1>4, <1>5
  <1>7. Column(f, sub) = FlattenSeq([j \in 1..(k - 1) |-> parts[j]])
    BY <1>6, Zenon DEF Column
  <1>8. LET at == Len(Column(f, sub)) + i IN at \in DOMAIN FlattenSeq(parts) /\ FlattenSeq(parts)[at] = parts[k][i]
    <2>1. k \in DOMAIN parts /\ i \in DOMAIN parts[k]
      BY <1>2
    <2>2. PICK before : before = Len(FlattenSeq([j \in 1..(k - 1) |-> parts[j]]))
      OBVIOUS
    <2>3. parts \in Seq(Seq(Paths))
      BY <1>2
    <2>4. before + i \in DOMAIN FlattenSeq(parts) /\ FlattenSeq(parts)[before + i] = parts[k][i]
      BY ONLY <2>1, <2>2, <2>3, FlattenedAt
    <2> QED
      BY <1>7, <2>2, <2>4
  <1> QED
    BY <1>2, <1>8 DEF sub

\* keep_origin.
LEMMA OriginIs ==
    ASSUME NEW S, NEW column \in Seq(S)
    PROVE  /\ KeepOrigin(column) \in Seq(DOMAIN column) /\ IsInjective(KeepOrigin(column))
           /\ \A i : i \in ToSet(KeepOrigin(column)) <=> i \in DOMAIN column /\ op.outcome[column[i]] = "ok"
  <1> DEFINE ok == {i \in DOMAIN column : op.outcome[column[i]] = "ok"}
  <1>1. KeepOrigin(column) = Positions(column, ok)
    BY DEF KeepOrigin
  <1>2. ok \subseteq DOMAIN column
    OBVIOUS
  <1> HIDE DEF ok
  <1>3. /\ Positions(column, ok) \in Seq(DOMAIN column \cap ok)
        /\ ToSet(Positions(column, ok)) = DOMAIN column \cap ok /\ IsInjective(Positions(column, ok))
    BY PositionsIs
  <1>4. DOMAIN column \cap ok = ok
    BY <1>2
  <1>5. Positions(column, ok) \in Seq(DOMAIN column)
    BY <1>2, <1>3
  <1> QED
    BY <1>1, <1>3, <1>4, <1>5 DEF ok

\* What goes to the child bucket.
LEMMA TargetsAre ==
    ASSUME op \in Operations, NEW f \in Fields, HasChild(f), Shaped(Home(f)), NEW live, Settled(f, live)
    PROVE  LET column == Column(f, live) origin == KeepOrigin(column) targets == Targets(f, live) IN
           /\ targets \in Seq(Rows(Child(f))) /\ IsInjective(targets) /\ DOMAIN targets = DOMAIN origin
           /\ \A k \in DOMAIN origin : origin[k] \in DOMAIN column /\ targets[k] = column[origin[k]]
  <1> DEFINE column == Column(f, live)
             origin == KeepOrigin(column)
             targets == Targets(f, live)
  <1>1. /\ column \in Seq(Paths) /\ IsInjective(column)
        /\ \A x \in ToSet(column) : op.outcome[x] = "ok" => x \in Rows(Child(f))
    BY ColumnIs
  <1>2. targets = [k \in DOMAIN origin |-> column[origin[k]]]
    BY DEF Targets
  <1> HIDE DEF column, targets
  <1>3. /\ origin \in Seq(DOMAIN column) /\ IsInjective(origin)
        /\ \A i : i \in ToSet(origin) <=> i \in DOMAIN column /\ op.outcome[column[i]] = "ok"
    BY <1>1, OriginIs
  <1> HIDE DEF origin
  <1>4. targets \in Seq(Paths) /\ Len(targets) = Len(origin) /\ IsInjective(targets)
    BY <1>1, <1>2, <1>3, Picked
  <1>5. /\ Len(origin) \in Nat /\ DOMAIN origin = 1..Len(origin) /\ DOMAIN targets = 1..Len(origin)
        /\ \A k \in DOMAIN origin : origin[k] \in ToSet(origin) /\ origin[k] \in DOMAIN column
    BY <1>2, <1>3 DEF ToSet
  <1>6. ASSUME NEW k \in DOMAIN origin PROVE targets[k] \in Rows(Child(f))
    <2>1. op.outcome[column[origin[k]]] = "ok" /\ column[origin[k]] \in ToSet(column)
      BY <1>3, <1>5 DEF ToSet
    <2> QED
      BY <1>1, <1>2, <2>1
  <1>7. targets \in Seq(Rows(Child(f)))
    <2>1. targets \in [1..Len(origin) -> Rows(Child(f))]
      BY <1>2, <1>5, <1>6
    <2> QED
      BY <1>5, <2>1
  <1> QED
    BY <1>2, <1>4, <1>5, <1>7 DEF column, origin, targets

-----------------------------------------------------------------------------
(* Values.                                                                 *)

\* A completed value is the synchronous one, but for which bubble it is.
Alike(v, w) == IF Bubbles(v) THEN v.error \in Paths /\ w = Broken ELSE w = v

LEMMA Tags ==
    /\ \A e : Bubbles(Bubble(e)) /\ Bubble(e).error = e /\ Bubble(e) # Null
    /\ Bubbles(Broken) /\ ~Bubbles(Null) /\ ~Bubbles(Leaf) /\ Broken # Null /\ Leaf # Null
    /\ \A x : ~Bubbles(List(x)) /\ ~Bubbles(Object(x)) /\ List(x) # Null /\ Object(x) # Null
    /\ \A v : Bubbles(v) => v # Null
  <1>1. /\ \A e : Bubble(e).tag = "bubble" /\ Bubble(e).error = e
        /\ Broken.tag = "bubble" /\ Null.tag = "null" /\ Leaf.tag = "leaf"
        /\ \A x : List(x).tag = "list" /\ Object(x).tag = "object"
    BY DEF Bubble, Broken, Null, Leaf, List, Object
  <1> QED
    BY <1>1 DEF Bubbles

LEMMA Enforced ==
    ASSUME NEW v, NEW w, Alike(v, w)
    PROVE  /\ Bubbles(v) <=> Bubbles(w)
           /\ Absorb(v) = Absorb(w) /\ ~Bubbles(Absorb(w))
           /\ \A path \in Paths : Alike(enforce_non_null(v, path), Required(w))
           /\ Required(w) = IF Bubbles(w) \/ w = Null THEN Broken ELSE w
  <1>1. Bubbles(v) <=> Bubbles(w)
    BY Tags DEF Alike
  <1>2. Absorb(v) = Absorb(w) /\ ~Bubbles(Absorb(w))
    BY <1>1, Tags DEF Alike, Absorb
  <1>3. Required(w) = IF Bubbles(w) \/ w = Null THEN Broken ELSE w
    BY <1>1, Tags DEF Alike, Required
  <1>4. ASSUME NEW path \in Paths PROVE Alike(enforce_non_null(v, path), Required(w))
    <2>1. CASE v = Null
      BY <2>1, Tags DEF Alike, enforce_non_null, Required
    <2>2. CASE v # Null
      BY <2>2, Tags DEF Alike, enforce_non_null, Required
    <2> QED
      BY <2>1, <2>2
  <1> QED
    BY <1>1, <1>2, <1>3, <1>4

\* collect_lists.
LEMMA Collected ==
    ASSUME NEW f, NEW n \in Nat, NEW done, DOMAIN done = 1..n, NEW ws, DOMAIN ws = 1..n,
           \A i \in 1..n : Alike(done[i], ws[i])
    PROVE  LET list == CollectList(f, done) IN
           /\ list.errors \in Seq(Paths)
           /\ Alike(list.value, IF f \in op.itemNonNull /\ \E i \in 1..n : Bubbles(ws[i])
                                THEN Broken ELSE List([i \in 1..n |-> Absorb(ws[i])]))
  <1> DEFINE bubbles == {i \in DOMAIN done : Bubbles(done[i])}
             reports == [i \in DOMAIN done |-> IF i \in bubbles THEN <<done[i].error>> ELSE <<>>]
             first == CHOOSE i \in bubbles : \A j \in bubbles : i <= j
  <1>1. \A i \in 1..n : /\ Bubbles(done[i]) <=> Bubbles(ws[i])
                        /\ Absorb(done[i]) = Absorb(ws[i])
    BY Enforced
  <1>2. \A i \in bubbles : done[i].error \in Paths /\ i \in 1..n
    BY DEF Alike
  <1>3. bubbles # {} => first \in bubbles
    <2>1. bubbles \subseteq Nat
      OBVIOUS
    <2> HIDE DEF bubbles
    <2>2. bubbles # {} => \E i \in bubbles : \A j \in bubbles : i <= j
      BY <2>1, LeastExists
    <2> QED
      BY <2>2
  <1>4. FlattenSeq(reports) \in Seq(Paths)
    <2>1. <<>> \in Seq(Paths) /\ \A x \in Paths : <<x>> \in Seq(Paths)
      OBVIOUS
    <2>2. \A i \in 1..n : IF i \in bubbles THEN reports[i] = <<done[i].error>> ELSE reports[i] = <<>>
      OBVIOUS
    <2>3. DOMAIN reports = 1..n /\ reports = [i \in DOMAIN reports |-> reports[i]]
      OBVIOUS
    <2> HIDE DEF bubbles, reports
    <2>4. \A i \in 1..n : reports[i] \in Seq(Paths)
      BY <1>2, <2>1, <2>2
    <2>5. reports \in [1..n -> Seq(Paths)]
      BY <2>3, <2>4
    <2>6. reports \in Seq(Seq(Paths))
      BY <2>5
    <2> QED
      BY <2>6, Flattened
  <1>5. [i \in DOMAIN done |-> Absorb(done[i])] = [i \in 1..n |-> Absorb(ws[i])]
    BY <1>1
  <1>6. bubbles # {} <=> \E i \in 1..n : Bubbles(ws[i])
    BY <1>1
  <1>7. CollectList(f, done) =
          IF f \in op.itemNonNull /\ bubbles # {} THEN [value |-> done[first], errors |-> <<>>]
          ELSE [value |-> List([i \in 1..n |-> Absorb(ws[i])]), errors |-> FlattenSeq(reports)]
    BY <1>5, Zenon DEF CollectList
  <1>8. <<>> \in Seq(Paths)
    OBVIOUS
  <1>9. CASE f \in op.itemNonNull /\ bubbles # {}
    <2>1. CollectList(f, done).value = done[first] /\ CollectList(f, done).errors = <<>>
      BY <1>7, <1>9
    <2>2. Bubbles(done[first]) /\ done[first].error \in Paths
      BY <1>2, <1>3, <1>9
    <2>3. Alike(done[first], Broken)
      BY <2>2 DEF Alike
    <2> QED
      BY <1>6, <1>8, <1>9, <2>1, <2>3
  <1>10. CASE ~ (f \in op.itemNonNull /\ bubbles # {})
    <2> DEFINE whole == List([i \in 1..n |-> Absorb(ws[i])])
    <2>1. CollectList(f, done).value = whole /\ CollectList(f, done).errors = FlattenSeq(reports)
      BY <1>7, <1>10
    <2>2. ~Bubbles(whole)
      BY Tags
    <2> HIDE DEF whole
    <2>3. Alike(whole, whole)
      BY <2>2 DEF Alike
    <2> HIDE DEF bubbles, reports
    <2> QED
      BY <1>4, <1>6, <1>10, <2>1, <2>3 DEF whole
  <1> QED
    BY <1>9, <1>10

\* What the innermost completer makes of a column.
LEMMA ColumnCompleted ==
    ASSUME op \in Operations, NEW f, NEW column \in Seq(Paths), NEW children,
           HasChild(f) => \A k \in DOMAIN KeepOrigin(column) :
                             Alike(children[k], Synchronous[column[KeepOrigin(column)[k]]]),
           NEW values, values = CompleteColumn(f, column, children)
    PROVE  DOMAIN values = DOMAIN column
           /\ \A i \in DOMAIN column : Alike(values[i], SingleValue(Synchronous, f, column[i]))
  <1> DEFINE origin == KeepOrigin(column)
             Kept(i) == children[CHOOSE k \in DOMAIN origin : origin[k] = i]
  <1>1. values = [i \in DOMAIN column |->
                    CASE op.outcome[column[i]] = "error" -> Bubble(column[i])
                      [] op.outcome[column[i]] = "null" -> Null
                      [] op.outcome[column[i]] = "ok" /\ ~HasChild(f) -> Leaf
                      [] op.outcome[column[i]] = "ok" /\ HasChild(f) -> Kept(i)]
    BY DEF CompleteColumn
  <1>2. ASSUME NEW i \in DOMAIN column PROVE Alike(values[i], SingleValue(Synchronous, f, column[i]))
    <2>1. column[i] \in Paths /\ op.outcome[column[i]] \in {"ok", "null", "error"}
      BY PathFacts
    <2>2. CASE op.outcome[column[i]] = "error"
      <3>1. values[i] = Bubble(column[i])
        BY <1>1, <2>2
      <3>2. SingleValue(Synchronous, f, column[i]) = Broken
        BY <2>2 DEF SingleValue
      <3> QED
        BY <2>1, <3>1, <3>2, Tags DEF Alike
    <2>3. CASE op.outcome[column[i]] = "null"
      <3>1. values[i] = Null
        BY <1>1, <2>3
      <3>2. SingleValue(Synchronous, f, column[i]) = Null
        BY <2>3 DEF SingleValue
      <3> QED
        BY <3>1, <3>2, Tags DEF Alike
    <2>4. CASE op.outcome[column[i]] = "ok" /\ ~HasChild(f)
      <3>1. values[i] = Leaf
        BY <1>1, <2>4
      <3>2. SingleValue(Synchronous, f, column[i]) = Leaf
        BY <2>4 DEF SingleValue
      <3> QED
        BY <3>1, <3>2, Tags DEF Alike
    <2>5. CASE op.outcome[column[i]] = "ok" /\ HasChild(f)
      <3>1. values[i] = Kept(i)
        BY <1>1, <2>5
      <3>2. SingleValue(Synchronous, f, column[i]) = Synchronous[column[i]]
        BY <2>5 DEF SingleValue
      <3> DEFINE k == CHOOSE k \in DOMAIN origin : origin[k] = i
      <3>3. k \in DOMAIN origin /\ origin[k] = i
        <4>1. i \in ToSet(origin)
          BY <2>5, OriginIs
        <4>2. \E m \in DOMAIN origin : origin[m] = i
          BY <4>1 DEF ToSet
        <4> HIDE DEF origin
        <4> QED
          BY <4>2
      <3>4. Kept(i) = children[k]
        OBVIOUS
      <3> HIDE DEF k
      <3> QED
        BY <2>5, <3>1, <3>2, <3>3, <3>4
    <2> QED
      BY <2>1, <2>2, <2>3, <2>4, <2>5
  <1> QED
    BY <1>1, <1>2

\* A list that is there, completed from its items in the column.
LEMMA ListCompleted ==
    ASSUME op \in Operations, NEW f \in Fields, f \in op.list, Shaped(Home(f)), NEW live, Settled(f, live),
           NEW k \in DOMAIN live, NEW path, path = ValuePaths(f, live)[k], op.outcome[path] = "ok",
           NEW values,
           \A i \in DOMAIN Column(f, live) : Alike(values[i], SingleValue(Synchronous, f, Column(f, live)[i])),
           NEW before, before = Len(Column(f, SubSeq(live, 1, k - 1))),
           NEW done, done = [i \in DOMAIN ItemsOf(f, path) |->
                               IF f \in op.itemNonNull
                               THEN enforce_non_null(values[before + i], ItemsOf(f, path)[i])
                               ELSE values[before + i]]
    PROVE  /\ CollectList(f, done).errors \in Seq(Paths)
           /\ Alike(CollectList(f, done).value, ListValue(Synchronous, f, path))
  <1> DEFINE labels == op.items[f]
             n == Len(labels)
             Single(i) == SingleValue(Synchronous, f, Append(path, labels[i]))
             ws == [i \in 1..n |-> IF f \in op.itemNonNull THEN Required(Single(i)) ELSE Single(i)]
  <1>1. n \in Nat /\ DOMAIN labels = 1..n
    <2>1. labels \in Seq(Labels)
      BY PathFacts
    <2> QED
      BY <2>1
  <1>2. /\ DOMAIN ItemsOf(f, path) = 1..n
        /\ \A i \in 1..n : ItemsOf(f, path)[i] = Append(path, labels[i]) /\ ItemsOf(f, path)[i] \in Paths
    <2>1. PICK p \in Rows(Home(f)) : path = Append(p, f)
      BY ValuesAre
    <2>2. ItemsOf(f, path) \in Seq(Paths) /\ DOMAIN ItemsOf(f, path) = DOMAIN labels
      BY <2>1, ItemsAre
    <2>3. \A i \in DOMAIN labels : ItemsOf(f, path)[i] = Append(path, labels[i])
      BY DEF ItemsOf
    <2>4. \A i \in DOMAIN ItemsOf(f, path) : ItemsOf(f, path)[i] \in Paths
      BY <2>2
    <2> QED
      BY <1>1, <2>2, <2>3, <2>4
  <1> HIDE DEF n, labels
  <1>3. ASSUME NEW i \in 1..n PROVE Alike(values[before + i], Single(i))
    <2>1. before + i \in DOMAIN Column(f, live) /\ Column(f, live)[before + i] = ItemsOf(f, path)[i]
      <3>1. \A j \in DOMAIN ItemsOf(f, ValuePaths(f, live)[k]) :
               LET at == Len(Column(f, SubSeq(live, 1, k - 1))) + j IN
               at \in DOMAIN Column(f, live) /\ Column(f, live)[at] = ItemsOf(f, ValuePaths(f, live)[k])[j]
        BY ColumnAt
      <3> HIDE DEF ws, Single
      <3> QED
        BY <1>2, <3>1
    <2> QED
      BY <1>2, <2>1
  <1> HIDE DEF Single
  <1>4. /\ DOMAIN done = 1..n /\ DOMAIN ws = 1..n
        /\ \A i \in 1..n : Alike(done[i], ws[i])
    <2>1. ASSUME NEW i \in 1..n PROVE Alike(done[i], ws[i])
      <3>1. Alike(enforce_non_null(values[before + i], ItemsOf(f, path)[i]), Required(Single(i)))
        BY <1>2, <1>3, Enforced
      <3> QED
        BY <1>2, <1>3, <3>1
    <2> QED
      BY <1>2, <2>1
  <1>5. \A i \in 1..n : /\ ItemValue(Synchronous, f, Append(path, labels[i]))
                             = IF f \in op.itemNonNull THEN ws[i] ELSE Absorb(ws[i])
                        /\ ~Bubbles(Absorb(ws[i]))
    <2>1. \A i \in 1..n : ItemValue(Synchronous, f, Append(path, labels[i]))
                             = IF f \in op.itemNonNull THEN ws[i] ELSE Absorb(ws[i])
      BY DEF ItemValue, Single
    <2> HIDE DEF ws
    <2>2. \A i \in 1..n : ~Bubbles(Absorb(ws[i]))
      BY <1>4, Enforced
    <2> QED
      BY <2>1, <2>2
  <1> HIDE DEF ws
  <1> DEFINE items == [i \in 1..n |-> ItemValue(Synchronous, f, Append(path, labels[i]))]
  <1>6. ListValue(Synchronous, f, path) = IF \E i \in 1..n : Bubbles(items[i]) THEN Broken ELSE List(items)
    <2>1. DOMAIN labels = 1..n
      BY <1>1
    <2> QED
      BY <2>1 DEF ListValue, labels
  <1>7. ListValue(Synchronous, f, path)
          = IF f \in op.itemNonNull /\ \E i \in 1..n : Bubbles(ws[i])
            THEN Broken ELSE List([i \in 1..n |-> Absorb(ws[i])])
    <2>1. CASE f \in op.itemNonNull
      <3>1. \A i \in 1..n : items[i] = ws[i]
        BY <1>5, <2>1
      <3>2. (\A i \in 1..n : ~Bubbles(ws[i])) => items = [i \in 1..n |-> Absorb(ws[i])]
        BY <3>1 DEF Absorb
      <3> HIDE DEF items
      <3> QED
        BY <1>6, <2>1, <3>1, <3>2
    <2>2. CASE f \notin op.itemNonNull
      <3>1. items = [i \in 1..n |-> Absorb(ws[i])] /\ \A i \in 1..n : ~Bubbles(items[i])
        BY <1>5, <2>2
      <3> HIDE DEF items
      <3> QED
        BY <1>6, <2>2, <3>1
    <2> QED
      BY <2>1, <2>2
  <1> HIDE DEF items
  <1>8. /\ CollectList(f, done).errors \in Seq(Paths)
        /\ Alike(CollectList(f, done).value,
                 IF f \in op.itemNonNull /\ \E i \in 1..n : Bubbles(ws[i])
                 THEN Broken ELSE List([i \in 1..n |-> Absorb(ws[i])]))
    <2>1. PICK m, d, v : m \in Nat /\ m = n /\ d = done /\ v = ws
      BY <1>1
    <2> m \in Nat
      BY <2>1
    <2>2. DOMAIN d = 1..m /\ DOMAIN v = 1..m /\ \A i \in 1..m : Alike(d[i], v[i])
      BY <1>4, <2>1
    <2>3. /\ CollectList(f, d).errors \in Seq(Paths)
          /\ Alike(CollectList(f, d).value,
                   IF f \in op.itemNonNull /\ \E i \in 1..m : Bubbles(v[i])
                   THEN Broken ELSE List([i \in 1..m |-> Absorb(v[i])]))
      BY <2>2, Collected
    <2> QED
      BY <2>1, <2>3
  <1> QED
    BY <1>7, <1>8

\* What a row gets for a completed value: nothing if it is a bubble that the
\* object does not survive.
Received(f, v) == IF Bubbles(v) /\ f \in op.nonNull THEN Broken ELSE Absorb(v)

\* One row of a field.
LEMMA RowCompleted ==
    ASSUME op \in Operations, NEW f \in Fields, Shaped(Home(f)), NEW live, Settled(f, live),
           NEW k \in DOMAIN live, NEW values,
           \A i \in DOMAIN Column(f, live) : Alike(values[i], SingleValue(Synchronous, f, Column(f, live)[i]))
    PROVE  LET row == CompleteRow(f, live, k, values) IN
           /\ row.errors \in Seq(Paths)
           /\ Bubbles(row.value) => row.value.error \in Paths
           /\ Value(f, bucket[Home(f)].rows[live[k]]) = Received(f, row.value)
  <1> DEFINE path == ValuePaths(f, live)[k]
             p == bucket[Home(f)].rows[live[k]]
             before == Len(Column(f, SubSeq(live, 1, k - 1)))
             done == [i \in DOMAIN ItemsOf(f, path) |->
                        IF f \in op.itemNonNull
                        THEN enforce_non_null(values[before + i], ItemsOf(f, path)[i])
                        ELSE values[before + i]]
             raw == IF f \notin op.list THEN [value |-> values[k], errors |-> <<>>]
                    ELSE CASE op.outcome[path] = "error" -> [value |-> Bubble(path), errors |-> <<>>]
                           [] op.outcome[path] = "null" -> [value |-> Null, errors |-> <<>>]
                           [] op.outcome[path] = "ok" -> CollectList(f, done)
             sync == IF f \in op.list /\ op.outcome[path] = "ok" THEN ListValue(Synchronous, f, path)
                     ELSE SingleValue(Synchronous, f, path)
             row == CompleteRow(f, live, k, values)
  <1>1. /\ path = Append(p, f) /\ path \in Paths /\ op.outcome[path] \in {"ok", "null", "error"}
        /\ DOMAIN ValuePaths(f, live) = DOMAIN live
    <2>1. /\ ValuePaths(f, live) \in Seq(Paths) /\ Len(ValuePaths(f, live)) = Len(live)
          /\ path = Append(p, f) /\ live \in Seq(DOMAIN bucket[Home(f)].rows)
      BY ValuesAre DEF Settled
    <2>2. DOMAIN ValuePaths(f, live) = DOMAIN live
      BY <2>1
    <2>3. \A i \in DOMAIN ValuePaths(f, live) : ValuePaths(f, live)[i] \in Paths
      BY <2>1
    <2> QED
      BY <2>1, <2>2, <2>3, PathFacts
  <1>2. row = IF f \in op.nonNull THEN [raw EXCEPT !.value = enforce_non_null(@, path)] ELSE raw
    BY DEF CompleteRow
  <1>3. Value(f, p) = IF f \in op.nonNull THEN Required(sync) ELSE Absorb(sync)
    BY <1>1 DEF Value, FieldValue
  <1> HIDE DEF path, p, row
  <1>4. /\ raw = [value |-> raw.value, errors |-> raw.errors]
        /\ raw.errors \in Seq(Paths) /\ Alike(raw.value, sync)
    <2>1. <<>> \in Seq(Paths)
      OBVIOUS
    <2>2. CASE f \notin op.list
      <3>1. Column(f, live)[k] = path /\ k \in DOMAIN Column(f, live)
        BY <1>1, <2>2 DEF Column, path
      <3>2. Alike(values[k], SingleValue(Synchronous, f, path))
        BY <3>1
      <3>3. raw = [value |-> values[k], errors |-> <<>>] /\ sync = SingleValue(Synchronous, f, path)
        BY <2>2
      <3> HIDE DEF raw, sync
      <3> QED
        BY <2>1, <3>2, <3>3
    <2>3. CASE f \in op.list /\ op.outcome[path] = "error"
      <3>1. raw = [value |-> Bubble(path), errors |-> <<>>] /\ sync = Broken
        BY <2>3 DEF SingleValue
      <3> HIDE DEF raw, sync
      <3> QED
        BY <1>1, <2>1, <3>1, Tags DEF Alike
    <2>4. CASE f \in op.list /\ op.outcome[path] = "null"
      <3>1. raw = [value |-> Null, errors |-> <<>>] /\ sync = Null
        BY <2>4 DEF SingleValue
      <3> HIDE DEF raw, sync
      <3> QED
        BY <2>1, <3>1, Tags DEF Alike
    <2>5. CASE f \in op.list /\ op.outcome[path] = "ok"
      <3>1. raw = CollectList(f, done) /\ sync = ListValue(Synchronous, f, path)
        BY <2>5
      <3>2. CollectList(f, done) = [value |-> CollectList(f, done).value, errors |-> CollectList(f, done).errors]
        <4> HIDE DEF done
        <4> QED
          BY DEF CollectList
      <3>3. /\ CollectList(f, done).errors \in Seq(Paths)
            /\ Alike(CollectList(f, done).value, ListValue(Synchronous, f, path))
        BY <2>5, ListCompleted DEF path
      <3> HIDE DEF raw, sync, done
      <3> QED
        BY <3>1, <3>2, <3>3
    <2> QED
      BY <1>1, <2>2, <2>3, <2>4, <2>5
  <1> HIDE DEF raw, sync
  <1>5. CASE f \in op.nonNull
    <2>1. row.value = enforce_non_null(raw.value, path) /\ row.errors = raw.errors
      BY <1>2, <1>4, <1>5
    <2>2. Alike(row.value, Required(sync))
      BY <1>1, <1>4, <2>1, Enforced
    <2>3. ~Bubbles(row.value) => Absorb(row.value) = row.value
      BY DEF Absorb
    <2> QED
      BY <1>3, <1>4, <1>5, <2>1, <2>2, <2>3 DEF Alike, Received, row, p
  <1>6. CASE f \notin op.nonNull
    <2>1. row.value = raw.value /\ row.errors = raw.errors
      BY <1>2, <1>6
    <2>2. Absorb(row.value) = Absorb(sync)
      BY <1>4, <2>1, Enforced
    <2> QED
      BY <1>3, <1>4, <1>6, <2>1, <2>2 DEF Alike, Received, row, p
  <1> QED
    BY <1>5, <1>6

\* The results of a bucket that is done.
LEMMA Assembled ==
    ASSUME op \in Operations, NEW b \in Buckets, Shaped(b), Progress(b), Right(b), bucket[b].phase = "done",
           NEW i \in DOMAIN bucket[b].rows
    PROVE  Alike(assemble(b)[i], Synchronous[bucket[b].rows[i]])
  <1> DEFINE s == bucket[b]
             p == s.rows[i]
             here == ToSet(op.fields[b])
  <1>1. p \in Rows(b) /\ p \in Objects /\ BucketOf(p) = b
    <2>1. s.rows \in Seq(Rows(b))
      BY DEF Shaped
    <2> QED
      BY <2>1 DEF Rows
  <1>2. assemble(b)[i] = IF IsLive(b, i) THEN Object(s.outputs[i]) ELSE s.bubble[i]
    BY DEF assemble
  <1>3. CASE ~IsLive(b, i)
    <2>1. Bubbles(s.bubble[i]) /\ s.bubble[i].error \in Paths
      BY <1>3 DEF Shaped, IsLive
    <2>2. Synchronous[p] = Broken
      BY <1>3 DEF Right
    <2> QED
      BY <1>2, <1>3, <2>1, <2>2 DEF Alike
  <1>4. CASE IsLive(b, i)
    <2>1. Pending(b) = {}
      BY <1>4 DEF Progress
    <2>2. \A f \in here : field[f].state # "todo"
      BY DEF Progress, ToSet
    <2>3. \A f \in here : field[f].state = "done"
      BY <2>1, <2>2 DEF Pending
    <2>4. \A f \in here : ~Bubbles(Value(f, p)) /\ s.outputs[i][f] = Value(f, p)
      BY <1>4, <2>3 DEF Right
    <2>5. s.outputs[i] = [f \in here |-> s.outputs[i][f]]
      BY DEF Shaped, IsRow
    <2>6. Synchronous[p] = ObjectValue(Synchronous, p)
      BY <1>1, SynchronousIs
    <2> DEFINE values == [f \in here |-> FieldValue(Synchronous, f, Append(p, f))]
    <2>7. ObjectValue(Synchronous, p) = IF \E f \in here : Bubbles(values[f]) THEN Broken ELSE Object(values)
      BY <1>1 DEF ObjectValue
    <2>8. values = s.outputs[i] /\ \A f \in here : ~Bubbles(values[f])
      BY <2>4, <2>5 DEF Value
    <2> HIDE DEF values
    <2>9. Synchronous[p] = Object(s.outputs[i])
      BY <2>6, <2>7, <2>8
    <2>10. Alike(Object(s.outputs[i]), Object(s.outputs[i]))
      <3> HIDE DEF s
      <3> QED
        BY Tags DEF Alike
    <2> QED
      BY <1>2, <1>4, <2>9, <2>10
  <1> QED
    BY <1>3, <1>4

\* The rows of a bucket, once a column has been written to them.
Filled(f, live, outputs, bubbles) ==
    LET s == bucket[Home(f)] IN
    /\ DOMAIN outputs = DOMAIN s.rows /\ DOMAIN bubbles = DOMAIN s.rows
    /\ \A i \in DOMAIN s.rows :
          LET v == Value(f, s.rows[i]) IN
          /\ i \notin ToSet(live) \/ Bubbles(v) => outputs[i] = s.outputs[i]
          /\ i \notin ToSet(live) \/ ~Bubbles(v) => bubbles[i] = s.bubble[i]
          /\ i \in ToSet(live) /\ Bubbles(v) => Bubbles(bubbles[i]) /\ bubbles[i].error \in Paths
          /\ i \in ToSet(live) /\ ~Bubbles(v) =>
                outputs[i] = IF s.bubble[i] = Null THEN [s.outputs[i] EXCEPT ![f] = v] ELSE s.outputs[i]

\* write_value: `new` is what becomes of a row that has v written to it.
Wrote(f, new, row, v) ==
    /\ new.errors \in Seq(Paths)
    /\ Bubbles(v) => new.outputs = row.outputs /\ Bubbles(new.bubble) /\ new.bubble.error \in Paths
    /\ ~Bubbles(v) => /\ new.bubble = row.bubble
                      /\ new.outputs = IF row.bubble = Null THEN [row.outputs EXCEPT ![f] = v] ELSE row.outputs

LEMMA WriteValueIs ==
    ASSUME NEW f, NEW v, NEW row, Bubbles(v) => v.error \in Paths
    PROVE  Wrote(f, WriteValue(row, f, v), row, Received(f, v))
  <1> DEFINE fatal == Bubbles(v) /\ f \in op.nonNull
             w == Received(f, v)
             new == WriteValue(row, f, v)
  <1>1. w = (IF fatal THEN Broken ELSE Absorb(v)) /\ (Bubbles(w) <=> fatal)
    BY Tags DEF Absorb, Received
  <1>2. /\ new.outputs = IF row.bubble = Null /\ ~fatal THEN [row.outputs EXCEPT ![f] = Absorb(v)] ELSE row.outputs
        /\ new.bubble = IF fatal THEN v ELSE row.bubble
        /\ new.errors = IF Bubbles(v) /\ ~fatal THEN <<v.error>> ELSE <<>>
    BY DEF WriteValue
  <1> HIDE DEF new, w
  <1>3. new.errors \in Seq(Paths)
    <2>1. <<>> \in Seq(Paths) /\ \A x \in Paths : <<x>> \in Seq(Paths)
      OBVIOUS
    <2> HIDE DEF fatal
    <2> QED
      BY <1>2, <2>1
  <1>4. Wrote(f, new, row, w)
    BY <1>1, <1>2, <1>3 DEF Wrote
  <1> QED
    BY <1>4 DEF new, w

\* Bucket b moves on, and no other does.
Becomes(b, phase, cursor, outputs, bubbles) ==
    /\ bucket' = [x \in Buckets |-> bucket'[x]]
    /\ \A x \in Buckets : x # b => bucket'[x] = bucket[x]
    /\ IsBucket(bucket'[b])
    /\ bucket'[b].phase = phase /\ bucket'[b].cursor = cursor
    /\ bucket'[b].rows = bucket[b].rows
    /\ bucket'[b].outputs = outputs /\ bucket'[b].bubble = bubbles

\* A bucket's record with some of its fields changed.
LEMMA Updated ==
    ASSUME bucket = [x \in Buckets |-> bucket[x]], NEW b \in Buckets, IsBucket(bucket[b]),
           NEW c, NEW outputs, NEW bubbles,
           bucket' = [bucket EXCEPT ![b].outputs = outputs, ![b].bubble = bubbles, ![b].cursor = c]
    PROVE  Becomes(b, bucket[b].phase, c, outputs, bubbles)
  <1>1. bucket'[b] = [bucket[b] EXCEPT !.outputs = outputs, !.bubble = bubbles, !.cursor = c]
    OBVIOUS
  <1>2. \A s : IsBucket(s) =>
           LET t == [s EXCEPT !.outputs = outputs, !.bubble = bubbles, !.cursor = c] IN
           /\ IsBucket(t) /\ t.phase = s.phase /\ t.cursor = c /\ t.rows = s.rows
           /\ t.outputs = outputs /\ t.bubble = bubbles
    BY DEF IsBucket, Keys
  <1>3. bucket' = [x \in Buckets |-> bucket'[x]] /\ \A x \in Buckets : x # b => bucket'[x] = bucket[x]
    OBVIOUS
  <1>4. PICK t : t = bucket'[b]
    OBVIOUS
  <1>5. /\ IsBucket(t) /\ t.phase = bucket[b].phase /\ t.cursor = c /\ t.rows = bucket[b].rows
        /\ t.outputs = outputs /\ t.bubble = bubbles
    BY ONLY IsBucket(bucket[b]), <1>1, <1>2, <1>4
  <1> QED
    BY ONLY <1>3, <1>4, <1>5 DEF Becomes

\* scatter.
LEMMA Scattered ==
    ASSUME op \in Operations, bucket = [b \in Buckets |-> bucket[b]], errors \in Seq(Paths),
           NEW f \in Fields, Shaped(Home(f)), NEW live, Settled(f, live), NEW children,
           HasChild(f) => \A k \in DOMAIN Targets(f, live) : Alike(children[k], Synchronous[Targets(f, live)[k]]),
           Scatter(f, live, children)
    PROVE  LET s == bucket[Home(f)] IN
           /\ errors' \in Seq(Paths)
           /\ field' = [field EXCEPT ![f] = [state |-> "done", live |-> live]]
           /\ \E outputs, bubbles :
                 /\ Filled(f, live, outputs, bubbles)
                 /\ Becomes(Home(f), s.phase, IF s.phase = "walk" THEN s.cursor + 1 ELSE s.cursor,
                            outputs, bubbles)
  <1> DEFINE b == Home(f)
             s == bucket[b]
             column == Column(f, live)
  <1>1. b \in Buckets
    BY Tree
  <1>2. PICK values \in {CompleteColumn(f, Column(f, live), children)} :
        \E completed \in {[k \in DOMAIN live |-> CompleteRow(f, live, k, values)]} :
        \E written \in {[i \in ToSet(live) |->
                            WriteValue(RowOf(Home(f), i), f, completed[Slot(live, i)].value)]} :
        LET rows == ToSet(live) IN
        /\ bucket' = [bucket EXCEPT
              ![Home(f)].outputs = [i \in DOMAIN @ |-> IF i \in rows THEN written[i].outputs ELSE @[i]],
              ![Home(f)].bubble = [i \in DOMAIN @ |-> IF i \in rows THEN written[i].bubble ELSE @[i]],
              ![Home(f)].cursor = IF bucket[Home(f)].phase = "walk" THEN @ + 1 ELSE @]
        /\ errors' = errors \o FlattenSeq([k \in DOMAIN live |-> completed[k].errors])
                            \o FlattenSeq([k \in DOMAIN live |-> written[live[k]].errors])
        /\ field' = [field EXCEPT ![f] = [state |-> "done", live |-> live]]
    BY Zenon DEF Scatter
  <1>3. PICK completed \in {[k \in DOMAIN live |-> CompleteRow(f, live, k, values)]} :
        \E written \in {[i \in ToSet(live) |->
                            WriteValue(RowOf(Home(f), i), f, completed[Slot(live, i)].value)]} :
        LET rows == ToSet(live) IN
        /\ bucket' = [bucket EXCEPT
              ![Home(f)].outputs = [i \in DOMAIN @ |-> IF i \in rows THEN written[i].outputs ELSE @[i]],
              ![Home(f)].bubble = [i \in DOMAIN @ |-> IF i \in rows THEN written[i].bubble ELSE @[i]],
              ![Home(f)].cursor = IF bucket[Home(f)].phase = "walk" THEN @ + 1 ELSE @]
        /\ errors' = errors \o FlattenSeq([k \in DOMAIN live |-> completed[k].errors])
                            \o FlattenSeq([k \in DOMAIN live |-> written[live[k]].errors])
        /\ field' = [field EXCEPT ![f] = [state |-> "done", live |-> live]]
    BY <1>2, Zenon
  <1>4. PICK written \in {[i \in ToSet(live) |->
                              WriteValue(RowOf(Home(f), i), f, completed[Slot(live, i)].value)]} :
        /\ bucket' = [bucket EXCEPT
              ![Home(f)].outputs = [i \in DOMAIN @ |-> IF i \in ToSet(live) THEN written[i].outputs ELSE @[i]],
              ![Home(f)].bubble = [i \in DOMAIN @ |-> IF i \in ToSet(live) THEN written[i].bubble ELSE @[i]],
              ![Home(f)].cursor = IF bucket[Home(f)].phase = "walk" THEN @ + 1 ELSE @]
        /\ errors' = errors \o FlattenSeq([k \in DOMAIN live |-> completed[k].errors])
                            \o FlattenSeq([k \in DOMAIN live |-> written[live[k]].errors])
        /\ field' = [field EXCEPT ![f] = [state |-> "done", live |-> live]]
    BY <1>3, Zenon
  <1>5. \A i \in DOMAIN column : Alike(values[i], SingleValue(Synchronous, f, column[i]))
    <2>1. values = CompleteColumn(f, column, children) /\ column \in Seq(Paths)
      BY ColumnIs
    <2>2. HasChild(f) => \A k \in DOMAIN KeepOrigin(column) :
                            Alike(children[k], Synchronous[column[KeepOrigin(column)[k]]])
      BY TargetsAre
    <2> HIDE DEF column
    <2> QED
      BY <2>1, <2>2, ColumnCompleted
  <1>6. \A k \in DOMAIN live :
           /\ completed[k].errors \in Seq(Paths)
           /\ Bubbles(completed[k].value) => completed[k].value.error \in Paths
           /\ Value(f, s.rows[live[k]]) = Received(f, completed[k].value)
    <2>1. \A k \in DOMAIN live : completed[k] = CompleteRow(f, live, k, values)
      OBVIOUS
    <2> QED
      BY <1>5, <2>1, RowCompleted
  <1>7. ASSUME NEW i \in ToSet(live)
        PROVE  /\ Slot(live, i) \in DOMAIN live /\ live[Slot(live, i)] = i /\ i \in DOMAIN s.rows
               /\ written[i] = WriteValue(RowOf(b, i), f, completed[Slot(live, i)].value)
    <2>1. \E k \in DOMAIN live : live[k] = i
      BY DEF ToSet
    <2>2. Slot(live, i) \in DOMAIN live /\ live[Slot(live, i)] = i
      BY <2>1 DEF Slot
    <2>3. live \in Seq(DOMAIN s.rows)
      BY DEF Settled
    <2>4. i \in DOMAIN s.rows
      BY <2>2, <2>3
    <2> QED
      BY <2>2, <2>4
  <1>8. \A i \in ToSet(live) : Wrote(f, written[i], RowOf(b, i), Value(f, s.rows[i]))
    <2>1. ASSUME NEW i \in ToSet(live) PROVE Wrote(f, written[i], RowOf(b, i), Value(f, s.rows[i]))
      <3> DEFINE k == Slot(live, i)
      <3>1. k \in DOMAIN live /\ live[k] = i /\ written[i] = WriteValue(RowOf(b, i), f, completed[k].value)
        BY <1>7
      <3>2. /\ Bubbles(completed[k].value) => completed[k].value.error \in Paths
            /\ Value(f, s.rows[i]) = Received(f, completed[k].value)
        BY <1>6, <3>1
      <3> HIDE DEF k, s
      <3> QED
        BY <3>1, <3>2, WriteValueIs
    <2> QED
      BY <2>1
  <1> HIDE DEF column
  <1>9. errors' \in Seq(Paths)
    <2>1. DOMAIN live = 1..Len(live) /\ Len(live) \in Nat /\ \A k \in DOMAIN live : live[k] \in ToSet(live)
      BY DEF Settled, ToSet
    <2> DEFINE absorbed == [k \in DOMAIN live |-> completed[k].errors]
               reported == [k \in DOMAIN live |-> written[live[k]].errors]
    <2>2. absorbed \in [1..Len(live) -> Seq(Paths)] /\ reported \in [1..Len(live) -> Seq(Paths)]
      BY <1>6, <1>8, <2>1 DEF Wrote
    <2> HIDE DEF absorbed, reported
    <2>3. absorbed \in Seq(Seq(Paths)) /\ reported \in Seq(Seq(Paths))
      <3>1. \A m \in Nat : \A g \in [1..m -> Seq(Paths)] : g \in Seq(Seq(Paths))
        OBVIOUS
      <3> QED
        BY <2>1, <2>2, <3>1
    <2>4. FlattenSeq(absorbed) \in Seq(Paths) /\ FlattenSeq(reported) \in Seq(Paths)
      BY <2>3, Flattened
    <2>5. errors' = errors \o FlattenSeq(absorbed) \o FlattenSeq(reported)
      BY <1>4 DEF absorbed, reported
    <2> QED
      BY <2>4, <2>5
  <1> DEFINE outputs == [i \in DOMAIN s.outputs |-> IF i \in ToSet(live) THEN written[i].outputs ELSE s.outputs[i]]
             bubbles == [i \in DOMAIN s.bubble |-> IF i \in ToSet(live) THEN written[i].bubble ELSE s.bubble[i]]
  <1>10. Becomes(b, s.phase, IF s.phase = "walk" THEN s.cursor + 1 ELSE s.cursor, outputs, bubbles)
    <2> DEFINE cursor == IF s.phase = "walk" THEN s.cursor + 1 ELSE s.cursor
    <2>1. bucket' = [bucket EXCEPT ![b].outputs = outputs, ![b].bubble = bubbles, ![b].cursor = cursor]
      BY <1>1, <1>4
    <2>2. IsBucket(s)
      BY DEF Shaped
    <2> HIDE DEF outputs, bubbles, cursor
    <2>3. Becomes(b, s.phase, cursor, outputs, bubbles)
      BY <1>1, <2>1, <2>2, Updated
    <2> QED
      BY <2>3 DEF cursor
  <1>11. Filled(f, live, outputs, bubbles)
    <2>1. DOMAIN s.outputs = DOMAIN s.rows /\ DOMAIN s.bubble = DOMAIN s.rows
      BY DEF Shaped
    <2>2. DOMAIN outputs = DOMAIN s.rows /\ DOMAIN bubbles = DOMAIN s.rows
      BY <2>1
    <2>3. \A i \in DOMAIN s.rows : /\ outputs[i] = IF i \in ToSet(live) THEN written[i].outputs ELSE s.outputs[i]
                                   /\ bubbles[i] = IF i \in ToSet(live) THEN written[i].bubble ELSE s.bubble[i]
      BY <2>1
    <2>4. \A i : RowOf(b, i).outputs = s.outputs[i] /\ RowOf(b, i).bubble = s.bubble[i]
      BY DEF RowOf
    <2> HIDE DEF outputs, bubbles
    <2>5. ASSUME NEW i \in DOMAIN s.rows, i \notin ToSet(live)
          PROVE  outputs[i] = s.outputs[i] /\ bubbles[i] = s.bubble[i]
      BY <2>3, <2>5
    <2>6. ASSUME NEW i \in DOMAIN s.rows, i \in ToSet(live), NEW v, v = Value(f, s.rows[i])
          PROVE  /\ Bubbles(v) => /\ outputs[i] = s.outputs[i]
                                  /\ Bubbles(bubbles[i]) /\ bubbles[i].error \in Paths
                 /\ ~Bubbles(v) => /\ bubbles[i] = s.bubble[i]
                                   /\ outputs[i] = IF s.bubble[i] = Null THEN [s.outputs[i] EXCEPT ![f] = v]
                                                                         ELSE s.outputs[i]
      <3>1. Wrote(f, written[i], RowOf(b, i), v)
        BY <1>8, <2>6
      <3>2. outputs[i] = written[i].outputs /\ bubbles[i] = written[i].bubble
        BY <2>3, <2>6
      <3> QED
        BY ONLY <2>4, <3>1, <3>2 DEF Wrote
    <2> QED
      BY <2>2, <2>5, <2>6 DEF Filled
  <1> HIDE DEF outputs, bubbles
  <1> QED
    BY <1>4, <1>9, <1>10, <1>11

-----------------------------------------------------------------------------
(* What a step leaves alone.                                               *)

\* A bucket that did not move, none of whose fields did.
LEMMA Unmoved ==
    ASSUME op' = op, NEW b \in Buckets, bucket'[b] = bucket[b],
           \A f \in ToSet(op.fields[b]) : field'[f] = field[f]
    PROVE  /\ Shaped(b) => Shaped(b)'
           /\ Progress(b) => Progress(b)'
           /\ Right(b) => Right(b)'
  <1>1. /\ Rows(b)' = Rows(b) /\ Paths' = Paths /\ Synchronous' = Synchronous
        /\ \A f, p : Value(f, p)' = Value(f, p)
    BY OpStays
  <1>2. Pending(b)' = Pending(b) /\ \A i : IsLive(b, i)' = IsLive(b, i)
    BY DEF Pending, IsLive
  <1>3. \A k \in DOMAIN op.fields[b] : field'[op.fields[b][k]] = field[op.fields[b][k]]
    BY DEF ToSet
  <1>4. Shaped(b) => Shaped(b)'
    BY <1>1 DEF Shaped
  <1>5. Progress(b) => Progress(b)'
    BY <1>2, <1>3 DEF Progress
  <1>6. Right(b) => Right(b)'
    BY <1>1, <1>2 DEF Right
  <1> QED
    BY <1>4, <1>5, <1>6

\* The columns of a field hang on the rows of its bucket only.
LEMMA RowsStay ==
    ASSUME op' = op, NEW f, bucket'[Home(f)].rows = bucket[Home(f)].rows
    PROVE  \A live : /\ ValuePaths(f, live)' = ValuePaths(f, live) /\ Column(f, live)' = Column(f, live)
                     /\ Targets(f, live)' = Targets(f, live) /\ Settled(f, live)' = Settled(f, live)
  <1>1. /\ Home(f)' = Home(f) /\ HasChild(f)' = HasChild(f)
        /\ \A p : ItemsOf(f, p)' = ItemsOf(f, p)
        /\ \A s : KeepOrigin(s)' = KeepOrigin(s)
    BY OpStays
  <1>2. \A live : ValuePaths(f, live)' = ValuePaths(f, live)
    BY <1>1 DEF ValuePaths
  <1>3. \A live : Column(f, live)' = Column(f, live)
    BY <1>1, <1>2 DEF Column
  <1>4. \A live : Targets(f, live)' = Targets(f, live)
    BY <1>1, <1>3 DEF Targets
  <1>5. \A live : Settled(f, live)' = Settled(f, live)
    BY <1>1 DEF Settled
  <1> QED
    BY <1>2, <1>3, <1>4, <1>5

\* A field that did not move.
LEMMA Waiting ==
    ASSUME op' = op, op \in Operations, NEW f \in Fields, field'[f] = field[f],
           bucket'[Home(f)].rows = bucket[Home(f)].rows
    PROVE  /\ Completing(f) => Completing(f)'
           /\ Below(f) /\ (HasChild(f) => /\ bucket'[Child(f)].rows = bucket[Child(f)].rows
                                          /\ bucket'[Child(f)].phase = "idle" <=> bucket[Child(f)].phase = "idle")
                => Below(f)'
  <1>1. Home(f)' = Home(f) /\ HasChild(f)' = HasChild(f) /\ Child(f)' = Child(f)
    BY OpStays
  <1>2. Targets(f, field[f].live)' = Targets(f, field[f].live)
    <2>1. \A live : Targets(f, live)' = Targets(f, live)
      BY RowsStay
    <2> QED
      BY <2>1
  <1>3. Completing(f) => Completing(f)'
    BY <1>1 DEF Completing
  <1>4. Below(f) /\ (HasChild(f) => /\ bucket'[Child(f)].rows = bucket[Child(f)].rows
                                    /\ bucket'[Child(f)].phase = "idle" <=> bucket[Child(f)].phase = "idle")
           => Below(f)'
    BY <1>1, <1>2 DEF Below
  <1> QED
    BY <1>3, <1>4

\* The response never changes once it is there.
LEMMA SameData ==
    ASSUME op' = op, response' = response
    PROVE  DataIsSynchronous => DataIsSynchronous'
  BY OpStays DEF DataIsSynchronous, Null

-----------------------------------------------------------------------------
(* Who awaits what.                                                        *)

\* What the completion of a field may await.
Wanted(f, live) == ToSet(ValuePaths(f, live)) \cup ToSet(Column(f, live))

\* What the field does await, at the stage it is at.
Awaits(f, w) ==
    \/ field[f].state = "values" /\ w \in ToSet(ValuePaths(f, field[f].live))
    \/ field[f].state = "items" /\ w \in ToSet(Column(f, field[f].live))

Loads(f) == bucket[Home(f)].phase = "loading" /\ Current(Home(f)) = f

LEMMA WantedIs ==
    ASSUME op \in Operations, NEW f \in Fields, Shaped(Home(f)), NEW live, Settled(f, live)
    PROVE  \A w \in Wanted(f, live) : FieldOf(w) = f /\ w \in Paths
  <1>1. /\ ValuePaths(f, live) \in Seq(Paths) /\ \A w \in ToSet(ValuePaths(f, live)) : FieldOf(w) = f
        /\ Column(f, live) \in Seq(Paths) /\ \A w \in ToSet(Column(f, live)) : FieldOf(w) = f
    BY ValuesAre, ColumnIs
  <1>2. \A s \in Seq(Paths) : ToSet(s) \subseteq Paths
    BY DEF ToSet
  <1> QED
    BY <1>1, <1>2 DEF Wanted

\* An awaitable tells the field it belongs to.
LEMMA WhoAsks ==
    ASSUME op \in Operations, \A b \in Buckets : Shaped(b), \A f \in Fields : Completing(f),
           NEW w, Asked(w), NEW f \in Fields
    PROVE  /\ w = LoadOf(f) => Loads(f)
           /\ \A live : Settled(f, live) /\ w \in Wanted(f, live) => Awaits(f, w)
  <1>1. /\ \A g : LoadOf(f) = LoadOf(g) => f = g
        /\ LoadOf(f)[1] = "load" /\ \A p \in Paths : p[1] # "load"
    BY PathFacts DEF LoadOf
  <1>2. ASSUME NEW g \in Fields, Awaits(g, w) PROVE FieldOf(w) = g /\ w \in Paths
    <2>1. Shaped(Home(g)) /\ Settled(g, field[g].live)
      BY Tree DEF Completing, Settled
    <2>2. w \in Wanted(g, field[g].live)
      BY <1>2 DEF Awaits, Wanted
    <2> QED
      BY <2>1, <2>2, WantedIs
  <1>3. \E g \in Fields : (w = LoadOf(g) /\ Loads(g)) \/ Awaits(g, w)
    BY DEF Asked, Awaits, Loads
  <1>4. w = LoadOf(f) => Loads(f)
    BY <1>1, <1>2, <1>3
  <1>5. ASSUME NEW live, Settled(f, live), w \in Wanted(f, live) PROVE Awaits(f, w)
    <2>1. FieldOf(w) = f /\ w \in Paths
      BY <1>5, Tree, WantedIs
    <2>2. \A g : w # LoadOf(g)
      BY <2>1, PathFacts DEF LoadOf
    <2> QED
      BY <1>2, <1>3, <2>1, <2>2
  <1> QED
    BY <1>4, <1>5

\* An awaitable is awaited as long as its field, or its bucket's steps, stay.
LEMMA StillAsked ==
    ASSUME op' = op, NEW w, Asked(w),
           \A f \in Fields : w = LoadOf(f) /\ Loads(f) => bucket'[Home(f)] = bucket[Home(f)],
           \A f \in Fields : Awaits(f, w) => /\ field'[f] = field[f]
                                             /\ bucket'[Home(f)].rows = bucket[Home(f)].rows
    PROVE  Asked(w)'
  <1>1. Fields' = Fields /\ \A f : Home(f)' = Home(f) /\ LoadOf(f)' = LoadOf(f)
    BY OpStays DEF LoadOf
  <1>2. CASE \E f \in Fields : w = LoadOf(f) /\ Loads(f)
    BY <1>1, <1>2 DEF Asked, Loads, Current
  <1>3. ASSUME NEW f \in Fields, Awaits(f, w) PROVE Asked(w)'
    <2>1. field'[f] = field[f] /\ bucket'[Home(f)].rows = bucket[Home(f)].rows
      BY <1>3
    <2>2. /\ ValuePaths(f, field[f].live)' = ValuePaths(f, field[f].live)
          /\ Column(f, field[f].live)' = Column(f, field[f].live)
      <3>1. \A live : ValuePaths(f, live)' = ValuePaths(f, live) /\ Column(f, live)' = Column(f, live)
        BY <2>1, RowsStay
      <3> QED
        BY <2>1, <3>1
    <2> QED
      BY <1>1, <1>3, <2>1, <2>2 DEF Asked, Awaits
  <1>4. \E f \in Fields : (w = LoadOf(f) /\ Loads(f)) \/ Awaits(f, w)
    BY DEF Asked, Awaits, Loads
  <1> QED
    BY <1>2, <1>3, <1>4

-----------------------------------------------------------------------------
(* Steps of a bucket.                                                      *)

\* The caller of the running function.
LEMMA Popped ==
    ASSUME NEW S, NEW s \in Seq(S), IsInjective(s), s # <<>>
    PROVE  LET top == s[Len(s)] rest == SubSeq(s, 1, Len(s) - 1) IN
           /\ top \in ToSet(s) /\ ToSet(s) \subseteq S
           /\ rest \in Seq(S) /\ IsInjective(rest) /\ ToSet(rest) \subseteq ToSet(s) \ {top}
  <1> DEFINE n == Len(s)
             top == s[n]
             rest == SubSeq(s, 1, n - 1)
  <1>1. n \in Nat \ {0} /\ DOMAIN s = 1..n /\ \A i \in 1..n : s[i] \in S
    OBVIOUS
  <1>2. rest \in Seq(S) /\ DOMAIN rest = 1..(n - 1) /\ \A i \in 1..(n - 1) : rest[i] = s[i]
    OBVIOUS
  <1> HIDE DEF rest, n
  <1>3. \A i \in 1..(n - 1) : i \in 1..n /\ i # n
    BY <1>1
  <1>4. n \in 1..n
    BY <1>1
  <1>5. top \in ToSet(s) /\ ToSet(s) \subseteq S
    BY <1>1, <1>4 DEF ToSet
  <1>6. IsInjective(rest)
    BY <1>1, <1>2, <1>3 DEF IsInjective
  <1>7. ToSet(rest) \subseteq ToSet(s) \ {top}
    BY <1>1, <1>2, <1>3, <1>4 DEF IsInjective, ToSet
  <1> QED
    BY <1>2, <1>5, <1>6, <1>7 DEF rest, n

LEMMA Known ==
    ASSUME IInv
    PROVE  /\ op \in Operations /\ bucket = [b \in Buckets |-> bucket[b]] /\ field = [f \in Fields |-> field[f]]
           /\ bucket["root"].rows = <<<<>>>> /\ errors \in Seq(Paths)
           /\ \A b \in Buckets : Shaped(b) /\ Progress(b) /\ Right(b) /\ IsBucket(bucket[b])
           /\ \A f \in Fields : Completing(f) /\ Below(f)
           /\ stack \in Seq(Buckets) /\ IsInjective(stack) /\ ToSet(stack) \subseteq Buckets
           /\ \A b \in ToSet(stack) : bucket[b].phase \in {"steps", "walk"}
           /\ waits \cap held = {} /\ \A w \in waits \cup held : Asked(w)
  <1>1. ToSet(stack) \subseteq Buckets
    BY DEF IInv, Stacked, ToSet
  <1> QED
    BY <1>1 DEF IInv, Typed, Shaped, Stacked, Queued

LEMMA Running ==
    ASSUME IInv, stack # <<>>
    PROVE  /\ Top \in Buckets /\ Top \in ToSet(stack)
           /\ Pop \in Seq(Buckets) /\ IsInjective(Pop) /\ ToSet(Pop) \subseteq ToSet(stack) \ {Top}
  BY Known, Popped DEF Top, Pop

\* The fields of a bucket, in a sequence.
LEMMA Numbers ==
    ASSUME op \in Operations, NEW b \in Buckets
    PROVE  /\ op.fields[b] \in Seq(Fields) /\ IsInjective(op.fields[b])
           /\ Len(op.fields[b]) \in Nat /\ DOMAIN op.fields[b] = 1..Len(op.fields[b])
           /\ \A k \in DOMAIN op.fields[b] : op.fields[b][k] \in Fields /\ Home(op.fields[b][k]) = b
  <1>1. op.fields[b] \in Seq(Fields) /\ IsInjective(op.fields[b])
    BY Tree
  <1>2. \A f \in ToSet(op.fields[b]) : f \in Fields /\ Home(f) = b
    BY Tree
  <1> QED
    BY <1>1, <1>2 DEF ToSet

\* A bucket moves on, with its rows and its fields as they are.
LEMMA PhaseStep ==
    ASSUME IInv, op' = op, field' = field, errors' = errors, response' = response,
           NEW b \in Buckets, NEW phase \in Phases, NEW c \in 1..(Len(op.fields[b]) + 1),
           Becomes(b, phase, c, bucket[b].outputs, bucket[b].bubble),
           bucket[b].phase # "idle", phase # "idle",
           Progress(b)', Stacked', Queued'
    PROVE  IInv'
  <1>1. /\ Buckets' = Buckets /\ Fields' = Fields /\ Paths' = Paths
        /\ Rows(b)' = Rows(b) /\ Synchronous' = Synchronous /\ \A f, p : Value(f, p)' = Value(f, p)
    BY OpStays
  <1>2. /\ bucket' = [x \in Buckets |-> bucket'[x]]
        /\ \A x \in Buckets : x # b => bucket'[x] = bucket[x]
        /\ IsBucket(bucket'[b]) /\ bucket'[b].phase = phase /\ bucket'[b].cursor = c
        /\ bucket'[b].rows = bucket[b].rows /\ bucket'[b].outputs = bucket[b].outputs
        /\ bucket'[b].bubble = bucket[b].bubble
    BY DEF Becomes
  <1>3. op \in Operations /\ Typed
    BY DEF IInv, Typed
  <1>4. Typed'
    BY <1>1, <1>2, <1>3, Tree DEF Typed
  <1>5. ASSUME NEW x \in Buckets PROVE Shaped(x)' /\ Progress(x)' /\ Right(x)'
    <2>1. Shaped(x) /\ Progress(x) /\ Right(x)
      BY DEF IInv
    <2>2. CASE x # b
      BY <1>2, <2>1, <2>2, Unmoved
    <2>3. CASE x = b
      <3>1. Shaped(b)'
        <4>1. /\ IsBucket(bucket'[b]) /\ phase \in Phases /\ c \in 1..(Len(op'.fields[b]) + 1)
              /\ bucket'[b].rows \in Seq(Rows(b)') /\ IsInjective(bucket'[b].rows)
              /\ DOMAIN bucket'[b].outputs = DOMAIN bucket'[b].rows
              /\ DOMAIN bucket'[b].bubble = DOMAIN bucket'[b].rows
          BY <1>1, <1>2, <2>1, <2>3 DEF Shaped
        <4>2. ASSUME NEW i \in DOMAIN bucket'[b].rows
              PROVE  /\ IsRow(bucket'[b].outputs[i], ToSet(op'.fields[b]))
                     /\ \/ bucket'[b].bubble[i] = Null
                        \/ Bubbles(bucket'[b].bubble[i]) /\ bucket'[b].bubble[i].error \in Paths'
          BY <1>1, <1>2, <2>1, <2>3 DEF Shaped
        <4> QED
          BY <1>2, <4>1, <4>2 DEF Shaped, Phases
      <3>2. Right(b)'
        BY <1>1, <1>2, <2>1, <2>3 DEF Right, IsLive
      <3> QED
        BY <2>3, <3>1, <3>2
    <2> QED
      BY <2>2, <2>3
  <1>6. ASSUME NEW f \in Fields PROVE Completing(f)' /\ Below(f)'
    <2>1. Completing(f) /\ Below(f)
      BY DEF IInv
    <2>2. bucket'[Home(f)].rows = bucket[Home(f)].rows
      BY <1>2, <1>3, Tree
    <2>3. HasChild(f) => /\ bucket'[Child(f)].rows = bucket[Child(f)].rows
                         /\ bucket'[Child(f)].phase = "idle" <=> bucket[Child(f)].phase = "idle"
      BY <1>2, <1>3, Tree
    <2> QED
      BY <1>3, <2>1, <2>2, <2>3, Waiting
  <1>7. DataIsSynchronous'
    BY SameData DEF IInv
  <1> QED
    BY <1>1, <1>4, <1>5, <1>6, <1>7 DEF IInv

LEMMA Moved ==
    ASSUME bucket = [x \in Buckets |-> bucket[x]], NEW b \in Buckets, IsBucket(bucket[b]), NEW phase, NEW c,
           \/ bucket' = [bucket EXCEPT ![b].phase = phase, ![b].cursor = c]
           \/ bucket' = [bucket EXCEPT ![b].phase = phase] /\ c = bucket[b].cursor
           \/ bucket' = [bucket EXCEPT ![b].cursor = c] /\ phase = bucket[b].phase
    PROVE  Becomes(b, phase, c, bucket[b].outputs, bucket[b].bubble)
  <1>1. /\ bucket' = [x \in Buckets |-> bucket'[x]] /\ \A x \in Buckets : x # b => bucket'[x] = bucket[x]
        /\ \/ bucket'[b] = [bucket[b] EXCEPT !.phase = phase, !.cursor = c]
           \/ bucket'[b] = [bucket[b] EXCEPT !.phase = phase] /\ c = bucket[b].cursor
           \/ bucket'[b] = [bucket[b] EXCEPT !.cursor = c] /\ phase = bucket[b].phase
    OBVIOUS
  <1>2. \A s, t : IsBucket(s) /\ \/ t = [s EXCEPT !.phase = phase, !.cursor = c]
                                 \/ t = [s EXCEPT !.phase = phase] /\ c = s.cursor
                                 \/ t = [s EXCEPT !.cursor = c] /\ phase = s.phase
           => /\ IsBucket(t) /\ t.phase = phase /\ t.cursor = c /\ t.rows = s.rows
              /\ t.outputs = s.outputs /\ t.bubble = s.bubble
    BY DEF IsBucket, Keys
  <1> QED
    BY <1>1, <1>2 DEF Becomes

\* What is awaited by others than the bucket that moves.
LEMMA StepQueue ==
    ASSUME op \in Operations, op' = op, field' = field, NEW b \in Buckets, NEW phase, NEW c,
           Becomes(b, phase, c, bucket[b].outputs, bucket[b].bubble),
           NEW w, Asked(w), bucket[b].phase = "loading" => w # LoadOf(Current(b))
    PROVE  Asked(w)'
  <1>1. \A x \in Buckets : bucket'[x].rows = bucket[x].rows /\ (x # b => bucket'[x] = bucket[x])
    BY DEF Becomes
  <1>2. \A f \in Fields : Home(f) \in Buckets
    BY Tree
  <1>3. \A f \in Fields : w = LoadOf(f) /\ Loads(f) => bucket'[Home(f)] = bucket[Home(f)]
    BY <1>1, <1>2 DEF Loads
  <1> QED
    BY <1>1, <1>2, <1>3, StillAsked

LEMMA RunStepsKeeps ==
    ASSUME IInv, RunSteps
    PROVE  IInv'
  <1>1. /\ op \in Operations /\ bucket = [x \in Buckets |-> bucket[x]]
        /\ \A x \in Buckets : Shaped(x) /\ Progress(x)
        /\ \A f \in Fields : Completing(f)
        /\ stack \in Seq(Buckets) /\ IsInjective(stack)
        /\ \A x \in ToSet(stack) : bucket[x].phase \in {"steps", "walk"}
        /\ waits \cap held = {} /\ \A w \in waits \cup held : Asked(w)
    BY Known
  <1>2. /\ stack # <<>> /\ bucket[Top].phase = "steps" /\ op' = op /\ field' = field /\ held' = held
        /\ errors' = errors /\ response' = response
    BY DEF RunSteps
  <1>3. PICK b, fields : b \in Buckets /\ b = Top /\ fields = op.fields[b]
    BY <1>2, Running
  <1> b \in Buckets
    BY <1>3
  <1>4. /\ b \in ToSet(stack) /\ ToSet(stack) \subseteq Buckets
        /\ Pop \in Seq(Buckets) /\ IsInjective(Pop) /\ ToSet(Pop) \subseteq ToSet(stack) \ {b}
    BY <1>2, <1>3, Known, Running
  <1>5. fields \in Seq(Fields) /\ Len(fields) \in Nat /\ DOMAIN fields = 1..Len(fields)
    BY <1>1, <1>3, Numbers
  <1>6. IsBucket(bucket[b]) /\ \A k \in DOMAIN fields : field[fields[k]].state = "todo"
    BY <1>1, <1>2, <1>3 DEF Shaped, Progress
  <1>7. Buckets' = Buckets /\ Fields' = Fields
    BY <1>2, OpStays
  <1>8. PICK loads : loads = {i \in DOMAIN fields : i >= bucket[b].cursor /\ fields[i] \in op.load}
    OBVIOUS
  <1>9. CASE loads = {}
    <2>1. bucket' = [bucket EXCEPT ![b].phase = "walk", ![b].cursor = 1] /\ waits' = waits /\ stack' = stack
      BY <1>3, <1>8, <1>9 DEF RunSteps
    <2>2. Becomes(b, "walk", 1, bucket[b].outputs, bucket[b].bubble)
      BY <1>1, <1>6, <2>1, Moved
    <2>3. /\ bucket'[b].phase = "walk" /\ bucket'[b].cursor = 1
          /\ \A x \in Buckets : x # b => bucket'[x] = bucket[x]
      BY <2>2 DEF Becomes
    <2>4. Progress(b)'
      BY <1>2, <1>3, <1>5, <1>6, <2>3 DEF Progress
    <2>5. Stacked'
      BY <1>1, <1>4, <1>7, <2>1, <2>3 DEF Stacked
    <2>6. Queued'
      <3>1. \A w \in waits \cup held : Asked(w)'
        BY <1>1, <1>2, <1>3, <2>2, StepQueue
      <3> QED
        BY <1>1, <1>2, <2>1, <3>1 DEF Queued
    <2>7. /\ "walk" \in Phases /\ "walk" # "idle" /\ 1 \in 1..(Len(op.fields[b]) + 1)
          /\ bucket[b].phase # "idle"
      BY <1>2, <1>3, <1>5 DEF Phases
    <2> QED
      BY <1>2, <2>2, <2>4, <2>5, <2>6, <2>7, PhaseStep
  <1>10. CASE loads # {}
    <2>1. PICK next, f : next = (CHOOSE i \in loads : \A j \in loads : i <= j) /\ f = fields[next]
      OBVIOUS
    <2>2. /\ bucket' = [bucket EXCEPT ![b].phase = "loading", ![b].cursor = next]
          /\ waits' = waits \cup {LoadOf(f)} /\ stack' = Pop
      BY <1>3, <1>8, <1>10, <2>1 DEF RunSteps
    <2>3. next \in DOMAIN fields
      <3>1. loads \subseteq Nat
        BY <1>5, <1>8
      <3>2. \E i \in loads : \A j \in loads : i <= j
        BY <1>10, <3>1, LeastExists
      <3>3. next \in loads
        BY <2>1, <3>2
      <3> QED
        BY <1>8, <3>3
    <2>4. Becomes(b, "loading", next, bucket[b].outputs, bucket[b].bubble)
      BY <1>1, <1>6, <2>2, Moved
    <2>5. /\ bucket'[b].phase = "loading" /\ bucket'[b].cursor = next
          /\ \A x \in Buckets : x # b => bucket'[x] = bucket[x]
      BY <2>4 DEF Becomes
    <2>6. Progress(b)'
      BY <1>2, <1>3, <1>5, <1>6, <2>3, <2>5 DEF Progress
    <2>7. Stacked'
      BY <1>1, <1>4, <1>7, <2>2, <2>5 DEF Stacked
    <2>8. f \in Fields /\ Home(f) = b
      BY <1>1, <1>3, <2>1, <2>3, Tree DEF ToSet
    <2>9. LoadOf(f) \notin held
      BY <1>1, <1>2, <1>3, <2>8, WhoAsks DEF Loads
    <2>10. Asked(LoadOf(f))'
      <3>1. Home(f)' = b /\ LoadOf(f)' = LoadOf(f) /\ \A x : Current(x)' = op.fields[x][bucket'[x].cursor]
        BY <1>2, <2>8, OpStays DEF Current, LoadOf
      <3>2. Current(b)' = f
        BY <1>3, <2>1, <2>5, <3>1
      <3> QED
        BY <1>7, <2>5, <2>8, <3>1, <3>2 DEF Asked
    <2>11. Queued'
      <3>1. \A w \in waits \cup held : Asked(w)'
        BY <1>1, <1>2, <1>3, <2>4, StepQueue
      <3> QED
        BY <1>1, <1>2, <2>2, <2>9, <2>10, <3>1 DEF Queued
    <2> QED
      BY <1>2, <1>3, <1>5, <2>3, <2>4, <2>6, <2>7, <2>11, PhaseStep DEF Phases
  <1> QED
    BY <1>9, <1>10

LEMMA ChildSuspendedKeeps ==
    ASSUME IInv, ChildSuspended
    PROVE  IInv'
  <1>1. /\ stack # <<>> /\ bucket[Top].phase = "walk" /\ bucket[Top].cursor <= Len(op.fields[Top])
        /\ field[Current(Top)].state = "child" /\ bucket' = [bucket EXCEPT ![Top].cursor = @ + 1]
        /\ op' = op /\ field' = field /\ waits' = waits /\ held' = held /\ errors' = errors
        /\ stack' = stack /\ response' = response
    BY DEF ChildSuspended, AtField
  <1>2. PICK b, c : b \in Buckets /\ b = Top /\ c = bucket[b].cursor + 1
    BY <1>1, Running
  <1> b \in Buckets
    BY <1>2
  <1>3. /\ bucket[b].cursor \in 1..(Len(op.fields[b]) + 1) /\ Len(op.fields[b]) \in Nat
        /\ DOMAIN op.fields[b] = 1..Len(op.fields[b]) /\ Progress(b)
    BY Known, Numbers DEF Shaped
  <1>4. Becomes(b, "walk", c, bucket[b].outputs, bucket[b].bubble)
    <2>1. bucket' = [bucket EXCEPT ![b].cursor = c]
      BY <1>1, <1>2, Known
    <2> QED
      BY <1>1, <1>2, <2>1, Known, Moved
  <1>5. /\ bucket'[b].phase = "walk" /\ bucket'[b].cursor = c
        /\ \A x \in Buckets : x # b => bucket'[x] = bucket[x]
    BY <1>4 DEF Becomes
  <1>6. Progress(b)'
    <2>1. \A k \in DOMAIN op.fields[b] :
             /\ k < bucket[b].cursor => field[op.fields[b][k]].state # "todo"
             /\ k = bucket[b].cursor => field[op.fields[b][k]].state = "child"
             /\ k > bucket[b].cursor => field[op.fields[b][k]].state = "todo"
      BY <1>1, <1>2, <1>3 DEF Progress, Current
    <2>2. \A k \in DOMAIN op.fields[b] : /\ k < c => k <= bucket[b].cursor
                                         /\ k >= c => k > bucket[b].cursor
      BY <1>2, <1>3
    <2>3. \A k \in DOMAIN op.fields[b] :
             /\ k < c => field[op.fields[b][k]].state # "todo"
             /\ k = c => field[op.fields[b][k]].state = "todo"
             /\ k > c => field[op.fields[b][k]].state = "todo"
      BY <1>2, <1>3, <2>1, <2>2
    <2> QED
      BY <1>1, <1>5, <2>3 DEF Progress
  <1>7. Stacked'
    BY <1>1, <1>5, Known, OpStays DEF Stacked
  <1>8. Queued'
    BY <1>1, <1>2, <1>4, Known, StepQueue DEF Queued
  <1>9. c \in 1..(Len(op.fields[b]) + 1)
    BY <1>1, <1>2, <1>3
  <1> QED
    BY <1>1, <1>2, <1>4, <1>6, <1>7, <1>8, <1>9, PhaseStep DEF Phases

LEMMA EndWalkKeeps ==
    ASSUME IInv, EndWalk
    PROVE  IInv'
  <1>1. PICK b, over :
           /\ b \in Buckets
           /\ b = Top /\ over = (Pending(b) = {} \/ \A i \in DOMAIN bucket[b].rows : ~IsLive(b, i))
    BY Running DEF EndWalk
  <1> b \in Buckets
    BY <1>1
  <1>2. /\ stack # <<>> /\ bucket[b].phase = "walk" /\ bucket[b].cursor > Len(op.fields[b])
        /\ bucket' = [bucket EXCEPT ![b].phase = IF over THEN "done" ELSE "gather"] /\ stack' = Pop
        /\ op' = op /\ field' = field /\ waits' = waits /\ held' = held /\ errors' = errors
        /\ response' = response
    BY <1>1 DEF EndWalk
  <1>3. PICK phase \in {"done", "gather"} : phase = IF over THEN "done" ELSE "gather"
    OBVIOUS
  <1>4. Becomes(b, phase, bucket[b].cursor, bucket[b].outputs, bucket[b].bubble)
    BY <1>2, <1>3, Known, Moved
  <1>5. /\ bucket'[b].phase = phase /\ bucket'[b].rows = bucket[b].rows /\ bucket'[b].bubble = bucket[b].bubble
        /\ \A x \in Buckets : x # b => bucket'[x] = bucket[x]
    BY <1>4 DEF Becomes
  <1>6. Progress(b)'
    <2>1. \A k \in DOMAIN op.fields[b] : field[op.fields[b][k]].state # "todo"
      <3>1. \A k \in DOMAIN op.fields[b] : k < bucket[b].cursor
        BY <1>2, Known, Numbers DEF Shaped
      <3> QED
        BY <1>2, <3>1, Known DEF Progress
    <2>2. Pending(b)' = Pending(b) /\ \A i : IsLive(b, i)' = IsLive(b, i)
      BY <1>2, <1>5 DEF Pending, IsLive
    <2> QED
      BY <1>1, <1>2, <1>3, <1>5, <2>1, <2>2 DEF Progress
  <1>7. Stacked'
    BY <1>1, <1>2, <1>5, Known, Running, OpStays DEF Stacked
  <1>8. Queued'
    BY <1>2, <1>4, Known, StepQueue DEF Queued
  <1>9. bucket[b].cursor \in 1..(Len(op.fields[b]) + 1)
    BY Known DEF Shaped
  <1> QED
    BY <1>2, <1>3, <1>4, <1>6, <1>7, <1>8, <1>9, PhaseStep DEF Phases

LEMMA ResumeStepsKeeps ==
    ASSUME IInv, NEW b \in Buckets, ResumeSteps(b)
    PROVE  IInv'
  <1>1. /\ bucket[b].phase = "loading" /\ LoadOf(Current(b)) \notin waits \cup held
        /\ bucket' = [bucket EXCEPT ![b].phase = "steps", ![b].cursor = @ + 1] /\ stack' = <<b>>
        /\ op' = op /\ field' = field /\ waits' = waits /\ held' = held /\ errors' = errors
        /\ response' = response
    BY DEF ResumeSteps, Current
  <1>2. PICK c : c = bucket[b].cursor + 1
    OBVIOUS
  <1>3. Becomes(b, "steps", c, bucket[b].outputs, bucket[b].bubble)
    <2>1. bucket' = [bucket EXCEPT ![b].phase = "steps", ![b].cursor = c]
      BY <1>1, <1>2, Known
    <2> QED
      BY <2>1, Known, Moved
  <1>4. /\ bucket'[b].phase = "steps" /\ \A x \in Buckets : x # b => bucket'[x] = bucket[x]
    BY <1>3 DEF Becomes
  <1>5. Progress(b)'
    BY <1>1, <1>4, Known DEF Progress
  <1>6. Stacked'
    <2>1. <<b>> \in Seq(Buckets) /\ IsInjective(<<b>>) /\ ToSet(<<b>>) = {b}
      BY DEF IsInjective, ToSet
    <2> QED
      BY <1>1, <1>4, <2>1, OpStays DEF Stacked
  <1>7. Queued'
    BY <1>1, <1>3, Known, StepQueue DEF Queued
  <1>8. c \in 1..(Len(op.fields[b]) + 1)
    <2>1. op \in Operations /\ Progress(b)
      BY Known
    <2>2. bucket[b].cursor \in DOMAIN op.fields[b]
      BY <1>1, <2>1 DEF Progress
    <2>3. Len(op.fields[b]) \in Nat /\ DOMAIN op.fields[b] = 1..Len(op.fields[b])
      BY <2>1, Numbers
    <2> QED
      BY <1>2, <2>2, <2>3
  <1> QED
    BY <1>1, <1>3, <1>5, <1>6, <1>7, <1>8, PhaseStep DEF Phases

LEMMA EndGatherKeeps ==
    ASSUME IInv, NEW b \in Buckets, EndGather(b)
    PROVE  IInv'
  <1>1. /\ bucket[b].phase = "gather" /\ Pending(b) = {} /\ stack = <<>>
        /\ bucket' = [bucket EXCEPT ![b].phase = "done"]
        /\ op' = op /\ field' = field /\ waits' = waits /\ held' = held /\ errors' = errors
        /\ stack' = stack /\ response' = response
    BY DEF EndGather
  <1>2. Becomes(b, "done", bucket[b].cursor, bucket[b].outputs, bucket[b].bubble)
    BY <1>1, Known, Moved
  <1>3. bucket'[b].phase = "done" /\ \A x \in Buckets : x # b => bucket'[x] = bucket[x]
    BY <1>2 DEF Becomes
  <1>4. Progress(b)'
    <2>1. Pending(b)' = Pending(b)
      BY <1>1 DEF Pending
    <2> QED
      BY <1>1, <1>3, <2>1, Known DEF Progress
  <1>5. Stacked'
    <2>1. ToSet(stack) = {}
      BY <1>1 DEF ToSet
    <2> QED
      BY <1>1, <2>1, Known, OpStays DEF Stacked
  <1>6. Queued'
    BY <1>1, <1>2, Known, StepQueue DEF Queued
  <1>7. bucket[b].cursor \in 1..(Len(op.fields[b]) + 1)
    BY Known DEF Shaped
  <1> QED
    BY <1>1, <1>2, <1>4, <1>5, <1>6, <1>7, PhaseStep DEF Phases

-----------------------------------------------------------------------------
(* Steps of no bucket.                                                     *)

LEMMA Still ==
    ASSUME IInv, op' = op, bucket' = bucket, field' = field, errors' = errors, stack' = stack,
           Queued', DataIsSynchronous'
    PROVE  IInv'
  <1>1. Buckets' = Buckets /\ Fields' = Fields /\ Paths' = Paths
    BY OpStays
  <1>2. Typed' /\ Stacked'
    BY <1>1 DEF IInv, Typed, Stacked
  <1>3. ASSUME NEW b \in Buckets PROVE Shaped(b)' /\ Progress(b)' /\ Right(b)'
    BY Known, Unmoved
  <1>4. ASSUME NEW f \in Fields PROVE Completing(f)' /\ Below(f)'
    BY Known, Waiting
  <1> QED
    BY <1>1, <1>2, <1>3, <1>4 DEF IInv

LEMMA AwaitKeeps ==
    ASSUME IInv, NEW w \in waits \cup held, Acquire(w) \/ Release(w)
    PROVE  IInv'
  <1>1. /\ op' = op /\ bucket' = bucket /\ field' = field /\ errors' = errors /\ stack' = stack
        /\ response' = response /\ waits' \cap held' = {} /\ waits' \cup held' \subseteq waits \cup held
    BY Known DEF Acquire, Release
  <1>2. \A x \in waits \cup held : Asked(x)'
    BY <1>1, Known, StillAsked
  <1>3. Queued'
    BY <1>1, <1>2 DEF Queued
  <1>4. DataIsSynchronous'
    BY <1>1, SameData DEF IInv
  <1> QED
    BY <1>1, <1>3, <1>4, Still

LEMMA RespondKeeps ==
    ASSUME IInv, Respond
    PROVE  IInv'
  <1>1. PICK root : root = assemble("root")[1]
    OBVIOUS
  <1>2. /\ bucket["root"].phase = "done"
        /\ response' = IF root.tag = "bubble"
                       THEN [tag |-> "response", data |-> Null, errors |-> Append(errors, root.error)]
                       ELSE [tag |-> "response", data |-> root, errors |-> errors]
        /\ op' = op /\ bucket' = bucket /\ field' = field /\ errors' = errors /\ stack' = stack
        /\ waits' = waits /\ held' = held
    BY <1>1 DEF Respond
  <1>3. Alike(root, Synchronous[<<>>])
    <2>1. "root" \in Buckets
      BY Known, Tree
    <2>2. bucket["root"].rows = <<<<>>>> /\ 1 \in DOMAIN bucket["root"].rows /\ bucket["root"].rows[1] = <<>>
      BY Known
    <2> QED
      BY <1>1, <1>2, <2>1, <2>2, Known, Assembled
  <1>4. response'.data = Absorb(root)
    BY <1>2 DEF Absorb, Bubbles
  <1>5. Absorb(root) = SynchronousData
    BY <1>3, Enforced DEF SynchronousData
  <1>6. DataIsSynchronous'
    <2>1. SynchronousData' = SynchronousData
      BY <1>2, OpStays
    <2> QED
      BY <1>4, <1>5, <2>1 DEF DataIsSynchronous
  <1>7. Queued'
    BY <1>2, Known, StillAsked DEF Queued
  <1> QED
    BY <1>2, <1>6, <1>7, Still

-----------------------------------------------------------------------------
(* Steps of a field.                                                       *)

\* The walk is at the field, or gathers it.
Turn(f, c) ==
    LET b == Home(f) IN
    \/ /\ bucket[b].phase = "walk" /\ bucket[b].cursor \in DOMAIN op.fields[b] /\ Current(b) = f
       /\ field[f].state \in {"todo", "child"} /\ c = bucket[b].cursor + 1
    \/ bucket[b].phase = "gather" /\ c = bucket[b].cursor

LEMMA FieldProgress ==
    ASSUME op \in Operations, op' = op, NEW f \in Fields, Shaped(Home(f)), Progress(Home(f)),
           field = [g \in Fields |-> field[g]],
           NEW state, NEW live, state # "todo", field' = [field EXCEPT ![f] = [state |-> state, live |-> live]],
           NEW c, NEW outputs, NEW bubbles,
           Turn(f, c), Becomes(Home(f), bucket[Home(f)].phase, c, outputs, bubbles)
    PROVE  Progress(Home(f))' /\ c \in 1..(Len(op.fields[Home(f)]) + 1)
  <1>1. PICK b \in Buckets : b = Home(f) /\ Home(f)' = b
    BY Tree, OpStays
  <1>2. /\ Len(op.fields[b]) \in Nat /\ DOMAIN op.fields[b] = 1..Len(op.fields[b])
        /\ IsInjective(op.fields[b]) /\ \A k \in DOMAIN op.fields[b] : op.fields[b][k] \in Fields
        /\ bucket[b].cursor \in 1..(Len(op.fields[b]) + 1)
    BY <1>1, Numbers DEF Shaped
  <1>3. bucket'[b].phase = bucket[b].phase /\ bucket'[b].cursor = c
    BY <1>1 DEF Becomes
  <1>4. \A g \in Fields : /\ g # f => field'[g] = field[g]
                          /\ g = f => field'[g].state = state
    OBVIOUS
  <1>5. CASE bucket[b].phase = "walk"
    <2>1. /\ bucket[b].cursor \in DOMAIN op.fields[b] /\ op.fields[b][bucket[b].cursor] = f
          /\ c = bucket[b].cursor + 1
      BY <1>1, <1>5 DEF Turn, Current
    <2>2. ASSUME NEW k \in DOMAIN op.fields[b]
          PROVE  /\ k < c => field'[op.fields[b][k]].state # "todo"
                 /\ k >= c => field'[op.fields[b][k]].state = "todo"
      <3>1. CASE k = bucket[b].cursor
        BY <1>2, <1>4, <2>1, <3>1
      <3>2. CASE k < bucket[b].cursor
        <4>1. field[op.fields[b][k]].state # "todo"
          BY <1>1, <1>5, <3>2 DEF Progress
        <4>2. op.fields[b][k] # f /\ k < c
          BY <1>2, <2>1, <3>2 DEF IsInjective
        <4> QED
          BY <1>2, <1>4, <2>1, <3>2, <4>1, <4>2
      <3>3. CASE k > bucket[b].cursor
        <4>1. field[op.fields[b][k]].state = "todo"
          BY <1>1, <1>5, <3>3 DEF Progress
        <4>2. op.fields[b][k] # f /\ ~(k < c)
          BY <1>2, <2>1, <3>3 DEF IsInjective
        <4> QED
          BY <1>2, <1>4, <4>1, <4>2
      <3> QED
        BY <1>2, <3>1, <3>2, <3>3
    <2>3. \A k \in DOMAIN op.fields[b] : (k = c \/ k > c) => k >= c
      BY <1>2, <2>1
    <2>4. Progress(b)'
      BY <1>3, <1>5, <2>2, <2>3 DEF Progress
    <2> QED
      BY <1>1, <1>2, <2>1, <2>4
  <1>6. CASE bucket[b].phase = "gather"
    <2>1. \A k \in DOMAIN op.fields[b] : field'[op.fields[b][k]].state # "todo"
      BY <1>1, <1>2, <1>4, <1>6 DEF Progress
    <2>2. Progress(b)'
      BY <1>3, <1>6, <2>1 DEF Progress
    <2> QED
      BY <1>1, <1>2, <1>6, <2>2 DEF Turn
  <1> QED
    BY <1>1, <1>5, <1>6 DEF Turn

\* What a bucket may have for its rows.
Fits(b, outputs, bubbles) ==
    /\ DOMAIN outputs = DOMAIN bucket[b].rows /\ DOMAIN bubbles = DOMAIN bucket[b].rows
    /\ \A i \in DOMAIN bucket[b].rows :
          /\ IsRow(outputs[i], ToSet(op.fields[b]))
          /\ bubbles[i] = Null \/ (Bubbles(bubbles[i]) /\ bubbles[i].error \in Paths)

\* A field moves on, to wait or to be done.
LEMMA FieldStep ==
    ASSUME IInv, op' = op, errors' \in Seq(Paths), stack' = stack, response' = response,
           NEW f \in Fields, NEW state \in {"values", "items", "done"}, NEW live, Settled(f, live),
           field' = [field EXCEPT ![f] = [state |-> state, live |-> live]],
           NEW c, NEW outputs, NEW bubbles, Fits(Home(f), outputs, bubbles),
           Turn(f, c), Becomes(Home(f), bucket[Home(f)].phase, c, outputs, bubbles),
           state # "done" /\ HasChild(f) => bucket[Child(f)].phase = "idle",
           Right(Home(f))', Queued'
    PROVE  IInv'
  <1>1. /\ Buckets' = Buckets /\ Fields' = Fields /\ Paths' = Paths /\ \A b : Rows(b)' = Rows(b)
        /\ \A g : Home(g)' = Home(g) /\ Child(g)' = Child(g) /\ HasChild(g)' = HasChild(g)
    BY OpStays
  <1>2. PICK b \in Buckets : b = Home(f)
    BY Known, Tree
  <1>3. /\ bucket' = [x \in Buckets |-> bucket'[x]]
        /\ \A x \in Buckets : x # b => bucket'[x] = bucket[x]
        /\ IsBucket(bucket'[b]) /\ bucket'[b].phase = bucket[b].phase /\ bucket'[b].cursor = c
        /\ bucket'[b].rows = bucket[b].rows /\ bucket'[b].outputs = outputs
        /\ bucket'[b].bubble = bubbles
    BY <1>2 DEF Becomes
  <1>4. /\ field' = [g \in Fields |-> field'[g]] /\ \A g \in Fields : g # f => field'[g] = field[g]
        /\ field'[f] = [state |-> state, live |-> live]
    BY Known
  <1>5. \A x \in Buckets : bucket'[x].rows = bucket[x].rows /\ bucket'[x].phase = bucket[x].phase
    BY <1>3
  <1>6. Typed'
    BY <1>1, <1>3, <1>4, <1>5, Known, Tree DEF Typed
  <1>7. ASSUME NEW x \in Buckets PROVE Shaped(x)' /\ Progress(x)' /\ Right(x)'
    <2>1. CASE x # b
      <3>1. \A g \in ToSet(op.fields[x]) : field'[g] = field[g]
        BY <1>2, <1>4, <2>1, Known, Tree
      <3> QED
        BY <1>3, <2>1, <3>1, Known, Unmoved
    <2>2. CASE x = b
      <3>1. Progress(b)' /\ c \in 1..(Len(op.fields[b]) + 1)
        <4>1. Progress(Home(f))' /\ c \in 1..(Len(op.fields[Home(f)]) + 1)
          BY <1>2, Known, FieldProgress
        <4> QED
          BY <1>1, <1>2, <4>1
      <3>2. Right(b)'
        BY <1>1, <1>2
      <3>3. /\ bucket[b].phase \in Phases /\ bucket[b].rows \in Seq(Rows(b)) /\ IsInjective(bucket[b].rows)
        BY Known DEF Shaped
      <3>4. Fits(b, outputs, bubbles)
        BY <1>2
      <3>5. Shaped(b)'
        BY <1>1, <1>3, <3>1, <3>3, <3>4 DEF Shaped, Fits, Phases
      <3> QED
        BY <2>2, <3>1, <3>2, <3>5
    <2> QED
      BY <2>1, <2>2
  <1>8. ASSUME NEW g \in Fields PROVE Completing(g)' /\ Below(g)'
    <2>1. Home(g) \in Buckets /\ (HasChild(g) => Child(g) \in Buckets)
      BY Known, Tree
    <2>2. CASE g # f
      BY <1>4, <1>5, <2>1, <2>2, Known, Waiting
    <2>3. CASE g = f
      <3>1. field'[f].state = state /\ field'[f].live = live
        BY <1>4
      <3>2. live \in Seq(DOMAIN bucket[b].rows) /\ IsInjective(live)
        BY <1>2 DEF Settled
      <3>3. Completing(f)'
        BY <1>1, <1>2, <1>3, <1>4, <3>1, <3>2 DEF Completing
      <3>4. Below(f)'
        BY <1>1, <1>5, <2>1, <2>3, <3>1 DEF Below
      <3> QED
        BY <2>3, <3>3, <3>4
    <2> QED
      BY <2>2, <2>3
  <1>9. Stacked'
    BY <1>1, <1>5, Known DEF Stacked
  <1>10. DataIsSynchronous'
    BY SameData DEF IInv
  <1> QED
    BY <1>1, <1>6, <1>7, <1>8, <1>9, <1>10 DEF IInv

\* Where the walk is once the field is begun.
Passed(f) ==
    LET s == bucket[Home(f)] IN IF s.phase = "walk" THEN s.cursor + 1 ELSE s.cursor

\* The completion of the field may go on, with every row that is live.
Ready(f, live) ==
    /\ Settled(f, live)
    /\ \A i \in DOMAIN bucket[Home(f)].rows : IsLive(Home(f), i) => i \in ToSet(live)
    /\ Turn(f, Passed(f))
    /\ \A w \in waits \cup held : ~Awaits(f, w)

\* An object does not survive a field that bubbles.
LEMMA Fatal ==
    ASSUME op \in Operations, NEW b \in Buckets, NEW p \in Rows(b), NEW f \in ToSet(op.fields[b]),
           Bubbles(Value(f, p))
    PROVE  Synchronous[p] = Broken
  <1>1. p \in Objects /\ BucketOf(p) = b
    BY DEF Rows
  <1>2. Synchronous[p] = ObjectValue(Synchronous, p)
    BY <1>1, SynchronousIs
  <1> DEFINE values == [g \in ToSet(op.fields[BucketOf(p)]) |-> FieldValue(Synchronous, g, Append(p, g))]
  <1>3. f \in DOMAIN values /\ Bubbles(values[f])
    BY <1>1 DEF Value
  <1>4. ObjectValue(Synchronous, p) = IF \E g \in DOMAIN values : Bubbles(values[g]) THEN Broken ELSE Object(values)
    BY DEF ObjectValue
  <1> HIDE DEF values
  <1> QED
    BY <1>2, <1>3, <1>4

\* What is awaited by others than the field that moves.
LEMMA FieldQueue ==
    ASSUME op \in Operations, op' = op, NEW f \in Fields, field = [g \in Fields |-> field[g]],
           NEW new, field' = [field EXCEPT ![f] = new],
           NEW c, NEW outputs, NEW bubbles, Turn(f, c), Becomes(Home(f), bucket[Home(f)].phase, c, outputs, bubbles),
           NEW w, Asked(w), ~Awaits(f, w)
    PROVE  Asked(w)'
  <1>1. \A x \in Buckets : bucket'[x].rows = bucket[x].rows /\ (x # Home(f) => bucket'[x] = bucket[x])
    BY DEF Becomes
  <1>2. \A g \in Fields : Home(g) \in Buckets
    BY Tree
  <1>3. bucket[Home(f)].phase # "loading"
    BY DEF Turn
  <1>4. \A g \in Fields : w = LoadOf(g) /\ Loads(g) => bucket'[Home(g)] = bucket[Home(g)]
    BY <1>1, <1>2, <1>3 DEF Loads
  <1>5. \A g \in Fields : Awaits(g, w) => field'[g] = field[g] /\ bucket'[Home(g)].rows = bucket[Home(g)].rows
    BY <1>1, <1>2
  <1> QED
    BY <1>4, <1>5, StillAsked

\* The column is written: a live row has the field's synchronous value.
LEMMA Filling ==
    ASSUME op \in Operations, op' = op, NEW f \in Fields, NEW b \in Buckets, b = Home(f),
           Shaped(b), Right(b), field = [g \in Fields |-> field[g]],
           NEW live, Settled(f, live), \A i \in DOMAIN bucket[b].rows : IsLive(b, i) => i \in ToSet(live),
           NEW outputs, NEW bubbles, Filled(f, live, outputs, bubbles),
           bucket'[b].rows = bucket[b].rows, bucket'[b].outputs = outputs, bucket'[b].bubble = bubbles,
           field' = [field EXCEPT ![f] = [state |-> "done", live |-> live]]
    PROVE  Fits(b, outputs, bubbles) /\ Right(b)'
  <1> DEFINE V(i) == Value(f, bucket[b].rows[i])
  <1>1. /\ DOMAIN outputs = DOMAIN bucket[b].rows /\ DOMAIN bubbles = DOMAIN bucket[b].rows
        /\ \A i \in DOMAIN bucket[b].rows :
              /\ i \notin ToSet(live) \/ Bubbles(V(i)) => outputs[i] = bucket[b].outputs[i]
              /\ i \notin ToSet(live) \/ ~Bubbles(V(i)) => bubbles[i] = bucket[b].bubble[i]
              /\ i \in ToSet(live) /\ Bubbles(V(i)) => Bubbles(bubbles[i]) /\ bubbles[i].error \in Paths
              /\ i \in ToSet(live) /\ ~Bubbles(V(i)) =>
                    outputs[i] = IF bucket[b].bubble[i] = Null THEN [bucket[b].outputs[i] EXCEPT ![f] = V(i)]
                                 ELSE bucket[b].outputs[i]
    BY DEF Filled
  <1>2. /\ f \in ToSet(op.fields[b]) /\ ToSet(op.fields[b]) \subseteq Fields
        /\ bucket[b].rows \in Seq(Rows(b))
    BY Tree DEF Shaped
  <1>3. \A i \in DOMAIN bucket[b].rows :
           /\ IsRow(bucket[b].outputs[i], ToSet(op.fields[b])) /\ bucket[b].rows[i] \in Rows(b)
           /\ bucket[b].bubble[i] = Null \/ (Bubbles(bucket[b].bubble[i]) /\ bucket[b].bubble[i].error \in Paths)
    BY <1>2 DEF Shaped
  <1>5. ASSUME NEW i \in DOMAIN bucket[b].rows PROVE Bubbles(V(i)) => Synchronous[bucket[b].rows[i]] = Broken
    BY <1>2, <1>3, Fatal
  <1>6. \A i : (IsLive(b, i) <=> bucket[b].bubble[i] = Null) /\ (IsLive(b, i)' <=> bubbles[i] = Null)
    BY DEF IsLive, Null
  <1>7. \A g \in Fields : /\ g # f => field'[g] = field[g]
                          /\ g = f => field'[g].state = "done"
    OBVIOUS
  <1> HIDE DEF V
  <1>8. ASSUME NEW i \in DOMAIN bucket[b].rows
        PROVE  /\ IsRow(outputs[i], ToSet(op.fields[b]))
               /\ bubbles[i] = Null \/ (Bubbles(bubbles[i]) /\ bubbles[i].error \in Paths)
               /\ bubbles[i] # Null => Synchronous[bucket[b].rows[i]] = Broken
               /\ bubbles[i] = Null => /\ IsLive(b, i) /\ ~Bubbles(V(i)) /\ outputs[i][f] = V(i)
                                       /\ \A g \in ToSet(op.fields[b]) : g # f => outputs[i][g] = bucket[b].outputs[i][g]
    <2>1. CASE i \in ToSet(live) /\ Bubbles(V(i))
      BY <1>1, <1>3, <1>5, <2>1, Tags
    <2>2. CASE i \in ToSet(live) /\ ~Bubbles(V(i))
      <3>1. bubbles[i] = bucket[b].bubble[i]
        BY <1>1, <2>2
      <3>2. outputs[i] = IF bucket[b].bubble[i] = Null THEN [bucket[b].outputs[i] EXCEPT ![f] = V(i)]
                         ELSE bucket[b].outputs[i]
        BY <1>1, <2>2
      <3>3. bubbles[i] # Null => Synchronous[bucket[b].rows[i]] = Broken
        BY <1>6, <3>1 DEF Right
      <3>4. CASE bucket[b].bubble[i] = Null
        <4>1. outputs[i] = [bucket[b].outputs[i] EXCEPT ![f] = V(i)]
          BY <3>2, <3>4
        <4>2. /\ IsRow(outputs[i], ToSet(op.fields[b])) /\ outputs[i][f] = V(i)
              /\ \A g \in ToSet(op.fields[b]) : g # f => outputs[i][g] = bucket[b].outputs[i][g]
          <5>1. PICK row, new, v, S : /\ row = bucket[b].outputs[i] /\ new = outputs[i] /\ v = V(i)
                                      /\ S = ToSet(op.fields[b])
            OBVIOUS
          <5>2. IsRow(row, S) /\ f \in S /\ new = [row EXCEPT ![f] = v]
            BY <1>2, <1>3, <4>1, <5>1
          <5>3. IsRow(new, S) /\ new[f] = v /\ \A g \in S : g # f => new[g] = row[g]
            BY <5>2 DEF IsRow
          <5> QED
            BY <5>1, <5>3
        <4> QED
          BY <1>6, <2>2, <3>1, <3>4, <4>2
      <3>5. CASE bucket[b].bubble[i] # Null
        BY <1>3, <3>1, <3>2, <3>3, <3>5
      <3> QED
        BY <3>4, <3>5
    <2>3. CASE i \notin ToSet(live)
      <3>1. bubbles[i] = bucket[b].bubble[i] /\ outputs[i] = bucket[b].outputs[i] /\ ~IsLive(b, i)
        BY <1>1, <2>3
      <3> QED
        BY <1>3, <1>6, <3>1 DEF Right
    <2> QED
      BY <2>1, <2>2, <2>3
  <1>9. Fits(b, outputs, bubbles)
    BY <1>1, <1>8 DEF Fits
  <1>10. Right(b)'
    <2>1. Synchronous' = Synchronous /\ \A g, p : Value(g, p)' = Value(g, p)
      BY OpStays
    <2>2. ASSUME NEW i \in DOMAIN bucket[b].rows, bubbles[i] = Null, NEW g \in ToSet(op.fields[b])
          PROVE  /\ field'[g].state \in {"values", "items", "child"} => i \in ToSet(field'[g].live)
                 /\ field'[g].state = "done" => /\ ~Bubbles(Value(g, bucket[b].rows[i]))
                                                /\ outputs[i][g] = Value(g, bucket[b].rows[i])
      <3>1. CASE g = f
        BY <1>2, <1>7, <1>8, <2>2, <3>1 DEF V
      <3>2. CASE g # f
        <4>1. field'[g] = field[g]
          BY <1>2, <1>7, <3>2
        <4>2. IsLive(b, i) /\ outputs[i][g] = bucket[b].outputs[i][g]
          BY <1>8, <2>2, <3>2
        <4>3. /\ field[g].state \in {"values", "items", "child"} => i \in ToSet(field[g].live)
              /\ field[g].state = "done" => /\ ~Bubbles(Value(g, bucket[b].rows[i]))
                                            /\ bucket[b].outputs[i][g] = Value(g, bucket[b].rows[i])
          BY <4>2 DEF Right
        <4> QED
          BY <4>1, <4>2, <4>3
      <3> QED
        BY <3>1, <3>2
    <2>3. op'.fields[b] = op.fields[b]
      OBVIOUS
    <2> QED
      BY <1>6, <1>8, <2>1, <2>2, <2>3 DEF Right
  <1> QED
    BY <1>9, <1>10

LEMMA ScatterKeeps ==
    ASSUME IInv, NEW f \in Fields, NEW live, Ready(f, live), NEW children,
           HasChild(f) => \A k \in DOMAIN Targets(f, live) : Alike(children[k], Synchronous[Targets(f, live)[k]]),
           Scatter(f, live, children),
           op' = op, waits' = waits, held' = held, stack' = stack, response' = response
    PROVE  IInv'
  <1>1. PICK b, c : b \in Buckets /\ b = Home(f) /\ c = Passed(f) /\ Home(f)' = b
    BY Known, Tree, OpStays
  <1> b \in Buckets
    BY <1>1
  <1>2. Shaped(b) /\ Right(b) /\ Settled(f, live) /\ Turn(f, c)
    BY <1>1, Known DEF Ready
  <1>3. /\ errors' \in Seq(Paths)
        /\ field' = [field EXCEPT ![f] = [state |-> "done", live |-> live]]
        /\ \E outputs, bubbles : /\ Filled(f, live, outputs, bubbles)
                                 /\ Becomes(b, bucket[b].phase, c, outputs, bubbles)
    BY <1>1, <1>2, Known, Scattered DEF Passed
  <1>4. PICK outputs, bubbles : /\ Filled(f, live, outputs, bubbles)
                                /\ Becomes(b, bucket[b].phase, c, outputs, bubbles)
    BY <1>3
  <1>5. /\ bucket'[b].rows = bucket[b].rows /\ bucket'[b].outputs = outputs /\ bucket'[b].bubble = bubbles
    BY <1>4 DEF Becomes
  <1>6. Fits(b, outputs, bubbles) /\ Right(b)'
    BY <1>1, <1>2, <1>3, <1>4, <1>5, Known, Filling DEF Ready
  <1>7. Queued'
    BY <1>1, <1>2, <1>3, <1>4, Known, FieldQueue DEF Queued, Ready
  <1>8. Right(Home(f))'
    BY <1>1, <1>6
  <1> QED
    BY <1>1, <1>2, <1>3, <1>4, <1>6, <1>7, <1>8, FieldStep

\* The nested objects come back in the order of their column.
LEMMA Returned ==
    ASSUME IInv, NEW f \in Fields, field[f].state = "child", bucket[Child(f)].phase = "done", Turn(f, Passed(f)),
           NEW live, live = field[f].live, NEW children, children = assemble(Child(f))
    PROVE  /\ Ready(f, live)
           /\ HasChild(f) => \A k \in DOMAIN Targets(f, live) : Alike(children[k], Synchronous[Targets(f, live)[k]])
  <1>1. Ready(f, live)
    <2>1. Settled(f, live)
      BY Known DEF Completing, Settled
    <2>2. \A i \in DOMAIN bucket[Home(f)].rows : IsLive(Home(f), i) => i \in ToSet(live)
      BY Known, Tree DEF Right
    <2> QED
      BY <2>1, <2>2 DEF Awaits, Ready
  <1>2. HasChild(f) => \A k \in DOMAIN Targets(f, live) : Alike(children[k], Synchronous[Targets(f, live)[k]])
    <2>1. HasChild(f) /\ bucket[Child(f)].rows = Targets(f, live) /\ Child(f) \in Buckets
      BY Known, Tree DEF Below
    <2>2. \A k \in DOMAIN bucket[Child(f)].rows :
             Alike(assemble(Child(f))[k], Synchronous[bucket[Child(f)].rows[k]])
      BY <2>1, Known, Assembled
    <2> QED
      BY <2>1, <2>2
  <1> QED
    BY <1>1, <1>2

LEMMA ReturnKeeps ==
    ASSUME IInv, NEW f \in Fields, field[f].state = "child", bucket[Child(f)].phase = "done",
           Turn(f, Passed(f)), Scatter(f, field[f].live, assemble(Child(f))),
           op' = op, waits' = waits, held' = held, stack' = stack, response' = response
    PROVE  IInv'
  <1>1. PICK live, children : live = field[f].live /\ children = assemble(Child(f))
    OBVIOUS
  <1>2. /\ Ready(f, live)
        /\ HasChild(f) => \A k \in DOMAIN Targets(f, live) : Alike(children[k], Synchronous[Targets(f, live)[k]])
    BY <1>1, Returned
  <1> QED
    BY <1>1, <1>2, ScatterKeeps

\* The rows as they are, and a field that nothing is written of.
LEMMA EnteredRight ==
    ASSUME op' = op, NEW b \in Buckets, Right(b), NEW f, NEW live, NEW state,
           bucket'[b].rows = bucket[b].rows, bucket'[b].outputs = bucket[b].outputs,
           bucket'[b].bubble = bucket[b].bubble,
           \A g \in ToSet(op.fields[b]) : g # f => field'[g] = field[g],
           f \in ToSet(op.fields[b]) => field'[f] = [state |-> state, live |-> live],
           \A i \in DOMAIN bucket[b].rows : IsLive(b, i) => i \in ToSet(live) /\ state # "done"
    PROVE  Right(b)'
  <1>1. Synchronous' = Synchronous /\ \A g, p : Value(g, p)' = Value(g, p)
    BY OpStays
  <1>2. \A i : IsLive(b, i)' <=> IsLive(b, i)
    BY DEF IsLive
  <1>3. ASSUME NEW i \in DOMAIN bucket[b].rows, IsLive(b, i), NEW g \in ToSet(op.fields[b])
        PROVE  /\ field'[g].state \in {"values", "items", "child"} => i \in ToSet(field'[g].live)
               /\ field'[g].state = "done" => /\ ~Bubbles(Value(g, bucket[b].rows[i]))
                                              /\ bucket[b].outputs[i][g] = Value(g, bucket[b].rows[i])
    <2>1. CASE g = f
      BY <1>3, <2>1
    <2>2. CASE g # f
      <3>1. field'[g] = field[g]
        BY <2>2
      <3>2. /\ field[g].state \in {"values", "items", "child"} => i \in ToSet(field[g].live)
            /\ field[g].state = "done" => /\ ~Bubbles(Value(g, bucket[b].rows[i]))
                                          /\ bucket[b].outputs[i][g] = Value(g, bucket[b].rows[i])
        BY <1>3 DEF Right
      <3> QED
        BY <3>1, <3>2
    <2> QED
      BY <2>1, <2>2
  <1>4. \A i \in DOMAIN bucket[b].rows : ~IsLive(b, i) => Synchronous[bucket[b].rows[i]] = Broken
    BY DEF Right
  <1> QED
    BY <1>1, <1>2, <1>3, <1>4 DEF Right

LEMMA StandsFits ==
    ASSUME NEW b \in Buckets, Shaped(b)
    PROVE  Fits(b, bucket[b].outputs, bucket[b].bubble)
  BY DEF Shaped, Fits

\* The cursor of a walk that goes on without the field.
LEMMA Onward ==
    ASSUME IInv, NEW b \in Buckets, NEW c,
           c = IF bucket[b].phase = "walk" THEN bucket[b].cursor + 1 ELSE bucket[b].cursor,
           bucket' = [bucket EXCEPT ![b].cursor = IF bucket[b].phase = "walk" THEN @ + 1 ELSE @]
    PROVE  Becomes(b, bucket[b].phase, c, bucket[b].outputs, bucket[b].bubble)
  <1>1. bucket' = [bucket EXCEPT ![b].cursor = c]
    BY Known
  <1> QED
    BY <1>1, Known, Moved

LEMMA SkipKeeps ==
    ASSUME IInv, NEW f \in Fields, field[f].state = "todo", Turn(f, Passed(f)), bucket[Home(f)].phase = "walk",
           \A i \in DOMAIN bucket[Home(f)].rows : ~IsLive(Home(f), i),
           field' = [field EXCEPT ![f].state = "done"],
           bucket' = [bucket EXCEPT ![Home(f)].cursor = @ + 1],
           op' = op, waits' = waits, held' = held, errors' = errors, stack' = stack, response' = response
    PROVE  IInv'
  <1>1. PICK b, c, live : b \in Buckets /\ b = Home(f) /\ c = Passed(f) /\ live = <<>> /\ Home(f)' = b
    BY Known, Tree, OpStays
  <1> b \in Buckets
    BY <1>1
  <1>2. Becomes(b, bucket[b].phase, c, bucket[b].outputs, bucket[b].bubble)
    BY <1>1, Known, Onward DEF Passed
  <1>3. field' = [field EXCEPT ![f] = [state |-> "done", live |-> live]]
    <2>1. field[f] = [state |-> "todo", live |-> live]
      BY <1>1, Known DEF Completing
    <2>2. [field[f] EXCEPT !.state = "done"] = [state |-> "done", live |-> live]
      BY <2>1
    <2> QED
      BY <2>2
  <1>4. Settled(f, live)
    BY <1>1 DEF Settled, IsInjective
  <1>5. /\ bucket'[b].rows = bucket[b].rows /\ bucket'[b].outputs = bucket[b].outputs
        /\ bucket'[b].bubble = bucket[b].bubble
    BY <1>2 DEF Becomes
  <1>6. /\ \A g \in ToSet(op.fields[b]) : g # f => field'[g] = field[g]
        /\ field'[f] = [state |-> "done", live |-> live]
    BY <1>3, Known, Tree
  <1>7. Right(b)'
    <2>1. PICK state : state = "done"
      OBVIOUS
    <2>2. \A i \in DOMAIN bucket[b].rows : IsLive(b, i) => i \in ToSet(live) /\ state # "done"
      BY <1>1
    <2>3. field'[f] = [state |-> state, live |-> live] /\ Right(b)
      BY <1>6, <2>1, Known
    <2> QED
      BY <1>5, <1>6, <2>2, <2>3, EnteredRight
  <1>8. \A w : ~Awaits(f, w)
    BY DEF Awaits
  <1>9. Turn(f, c) /\ Becomes(Home(f), bucket[Home(f)].phase, c, bucket[b].outputs, bucket[b].bubble)
    BY <1>1, <1>2
  <1>10. Queued'
    <2>1. \A w \in waits \cup held : Asked(w)'
      BY <1>3, <1>8, <1>9, Known, FieldQueue
    <2> QED
      BY <2>1, Known DEF Queued
  <1>11. Fits(Home(f), bucket[b].outputs, bucket[b].bubble) /\ Right(Home(f))'
    BY <1>1, <1>7, Known, StandsFits
  <1>12. errors' \in Seq(Paths)
    BY Known
  <1> QED
    BY <1>3, <1>4, <1>9, <1>10, <1>11, <1>12, FieldStep

\* The completion is about to await values, to descend or to settle.
Begins(f, live) ==
    /\ Ready(f, live)
    /\ field[f].state \in {"todo", "values", "items"}
    /\ Wanted(f, live) \cap (waits \cup held) = {}

LEMMA SuspendKeeps ==
    ASSUME IInv, NEW f \in Fields, NEW live, Begins(f, live), NEW after, Suspend(f, live, after),
           op' = op, held' = held, response' = response
    PROVE  IInv'
  <1>1. PICK b, c, next :
           b \in Buckets /\
           b = Home(f) /\ c = Passed(f) /\ next = Awaited(f, live, after) /\ Home(f)' = b
    BY Known, Tree, OpStays
  <1> b \in Buckets
    BY <1>1
  <1>2. /\ next.paths # {} /\ field' = [field EXCEPT ![f] = [state |-> next.stage, live |-> live]]
        /\ waits' = waits \cup next.paths /\ errors' = errors /\ stack' = stack
        /\ bucket' = [bucket EXCEPT ![b].cursor = IF bucket[b].phase = "walk" THEN @ + 1 ELSE @]
    BY <1>1 DEF Suspend
  <1>3. \/ next.stage = "values" /\ next.paths \subseteq ToSet(ValuePaths(f, live))
        \/ next.stage = "items" /\ next.paths \subseteq ToSet(Column(f, live))
    BY <1>1, <1>2 DEF Awaited
  <1>4. PICK state, paths : state \in {"values", "items"} /\ state = next.stage /\ paths = next.paths
    BY <1>3
  <1> state \in {"values", "items"}
    BY <1>4
  <1>5. field' = [field EXCEPT ![f] = [state |-> state, live |-> live]] /\ waits' = waits \cup paths
    BY <1>2, <1>4
  <1>6. Becomes(b, bucket[b].phase, c, bucket[b].outputs, bucket[b].bubble)
    BY <1>1, <1>2, Onward DEF Passed
  <1>7. bucket'[b].rows = bucket[b].rows /\ bucket'[b].outputs = bucket[b].outputs /\ bucket'[b].bubble = bucket[b].bubble
    BY <1>6 DEF Becomes
  <1>8. /\ \A g \in ToSet(op.fields[b]) : g # f => field'[g] = field[g]
        /\ field'[f] = [state |-> state, live |-> live]
    BY <1>5, Known, Tree
  <1>9. Settled(f, live) /\ Turn(f, c) /\ \A i \in DOMAIN bucket[b].rows : IsLive(b, i) => i \in ToSet(live)
    BY <1>1 DEF Begins, Ready
  <1>10. Right(b)'
    <2>1. \A i \in DOMAIN bucket[b].rows : IsLive(b, i) => i \in ToSet(live) /\ state # "done"
      BY <1>9
    <2>2. Right(b)
      BY Known
    <2> QED
      BY <1>7, <1>8, <2>1, <2>2, EnteredRight
  <1>11. Turn(f, c) /\ Becomes(Home(f), bucket[Home(f)].phase, c, bucket[b].outputs, bucket[b].bubble)
    BY <1>1, <1>6, <1>9
  <1>12. Queued'
    <2>1. \A w \in waits \cup held : Asked(w)'
      BY <1>5, <1>11, Known, FieldQueue DEF Begins, Ready
    <2>2. paths \subseteq Wanted(f, live) /\ paths \cap held = {}
      BY <1>3, <1>4 DEF Wanted, Begins
    <2>3. ASSUME NEW w \in paths PROVE Asked(w)'
      <3>1. ValuePaths(f, live)' = ValuePaths(f, live) /\ Column(f, live)' = Column(f, live)
        BY <1>1, <1>7, RowsStay
      <3>2. \/ field'[f].state = "values" /\ w \in ToSet(ValuePaths(f, live)')
            \/ field'[f].state = "items" /\ w \in ToSet(Column(f, live)')
        BY <1>3, <1>4, <1>8, <3>1
      <3>3. field'[f].live = live
        BY <1>8
      <3>4. Fields' = Fields
        BY OpStays
      <3>5. \A l : l = field'[f].live /\ (\/ field'[f].state = "values" /\ w \in ToSet(ValuePaths(f, l)')
                                          \/ field'[f].state = "items" /\ w \in ToSet(Column(f, l)')) => Asked(w)'
        BY <3>4 DEF Asked
      <3> QED
        BY <3>2, <3>3, <3>5
    <2> QED
      BY <1>5, <2>1, <2>2, <2>3, Known DEF Queued
  <1>13. Fits(Home(f), bucket[b].outputs, bucket[b].bubble) /\ Right(Home(f))'
    BY <1>1, <1>10, Known, StandsFits
  <1>14. errors' \in Seq(Paths) /\ (HasChild(f) => bucket[Child(f)].phase = "idle")
    BY <1>2, Known DEF Below, Begins
  <1> QED
    BY <1>2, <1>5, <1>9, <1>11, <1>12, <1>13, <1>14, FieldStep

LEMMA SettleKeeps ==
    ASSUME IInv, NEW f \in Fields, NEW live, Begins(f, live), NEW after, Settle(f, live, after),
           op' = op, held' = held, response' = response
    PROVE  IInv'
  <1>1. Targets(f, live) = <<>> /\ Scatter(f, live, <<>>) /\ waits' = waits /\ stack' = stack
    BY DEF Settle
  <1>2. PICK none : none = <<>>
    OBVIOUS
  <1>3. \A k \in DOMAIN Targets(f, live) : Alike(none[k], Synchronous[Targets(f, live)[k]])
    BY <1>1
  <1>4. Ready(f, live) /\ Scatter(f, live, none)
    BY <1>1, <1>2 DEF Begins
  <1> QED
    BY <1>1, <1>3, <1>4, ScatterKeeps

\* A bucket that is taken up.
LEMMA NewBucketIs ==
    ASSUME op \in Operations, NEW d \in Buckets, NEW rows \in Seq(Rows(d)), NEW phase, NEW new,
           new = NewBucket(rows, d, phase)
    PROVE  /\ IsBucket(new) /\ new.phase = phase /\ new.cursor = 1 /\ new.rows = rows
           /\ DOMAIN new.outputs = DOMAIN rows /\ DOMAIN new.bubble = DOMAIN rows
           /\ \A i \in DOMAIN rows : IsRow(new.outputs[i], ToSet(op.fields[d])) /\ new.bubble[i] = Null
  <1>1. PICK outputs, bubbles : /\ outputs = [i \in DOMAIN rows |-> [f \in ToSet(op.fields[d]) |-> Unset]]
                                /\ bubbles = [i \in DOMAIN rows |-> Null]
    OBVIOUS
  <1>2. new = [phase |-> phase, cursor |-> 1, rows |-> rows, outputs |-> outputs, bubble |-> bubbles]
    BY <1>1 DEF NewBucket
  <1>3. IsBucket(new)
    BY <1>2 DEF IsBucket, Keys
  <1>4. \A i \in DOMAIN rows : IsRow(outputs[i], ToSet(op.fields[d])) /\ bubbles[i] = Null
    BY <1>1 DEF IsRow
  <1> QED
    BY <1>1, <1>2, <1>3, <1>4

LEMMA Pushed ==
    ASSUME NEW S, NEW s \in Seq(S), IsInjective(s), NEW x \in S, x \notin ToSet(s)
    PROVE  LET t == Append(s, x) IN
           t \in Seq(S) /\ IsInjective(t) /\ ToSet(t) = ToSet(s) \cup {x}
  <1> DEFINE n == Len(s)
             t == Append(s, x)
  <1>1. n \in Nat /\ DOMAIN s = 1..n
    OBVIOUS
  <1>2. t \in Seq(S) /\ DOMAIN t = 1..(n + 1) /\ t[n + 1] = x /\ \A i \in 1..n : t[i] = s[i]
    BY AppendProperties
  <1> HIDE DEF n, t
  <1>3. \A i \in 1..(n + 1) : i = n + 1 \/ i \in 1..n
    BY <1>1
  <1>4. n + 1 \in 1..(n + 1) /\ n + 1 \notin 1..n /\ \A i \in 1..n : i \in 1..(n + 1)
    BY <1>1
  <1>5. IsInjective(t)
    BY <1>1, <1>2, <1>3, <1>4 DEF IsInjective, ToSet
  <1>6. ToSet(t) = ToSet(s) \cup {x}
    BY <1>1, <1>2, <1>3, <1>4 DEF ToSet
  <1> QED
    BY <1>2, <1>5, <1>6 DEF t

LEMMA DescendKeeps ==
    ASSUME IInv, NEW f \in Fields, NEW live, Begins(f, live), NEW after, Descend(f, live, after),
           op' = op, held' = held, response' = response
    PROVE  IInv'
  <1>1. HasChild(f)
    BY DEF Descend, Targets
  <1>2. PICK b, d, rows, new :
           /\ b \in Buckets /\ d \in Buckets
           /\ b = Home(f) /\ d = Child(f) /\ rows = Targets(f, live) /\ new = NewBucket(rows, d, "steps")
    BY <1>1, Known, Tree
  <1> b \in Buckets /\ d \in Buckets
    BY <1>2
  <1>3. /\ d # b /\ d # "root" /\ f \in ToSet(op.fields[b])
        /\ Home(f)' = b /\ Child(f)' = d /\ Buckets' = Buckets /\ Fields' = Fields /\ Paths' = Paths
        /\ \A g : Home(g)' = Home(g) /\ Child(g)' = Child(g) /\ HasChild(g)' = HasChild(g)
        /\ \A x : Rows(x)' = Rows(x)
        /\ \A g \in Fields : Home(g) \in Buckets /\ (HasChild(g) => Child(g) \in Buckets /\ (g # f => Child(g) # d))
    BY <1>1, <1>2, Known, Tree, OpStays
  <1>4. /\ field' = [field EXCEPT ![f] = [state |-> "child", live |-> live]]
        /\ bucket' = [bucket EXCEPT ![d] = new] /\ stack' = Append(stack, d)
        /\ errors' = errors /\ waits' = waits
    BY <1>2 DEF Descend
  <1>5. /\ Settled(f, live) /\ Turn(f, Passed(f))
        /\ \A i \in DOMAIN bucket[b].rows : IsLive(b, i) => i \in ToSet(live)
        /\ \A w \in waits \cup held : ~Awaits(f, w)
    BY <1>2 DEF Begins, Ready
  <1>6. rows \in Seq(Rows(d)) /\ IsInjective(rows)
    BY <1>1, <1>2, <1>5, Known, TargetsAre
  <1>7. /\ IsBucket(new) /\ new.phase = "steps" /\ new.cursor = 1 /\ new.rows = rows
        /\ DOMAIN new.outputs = DOMAIN rows /\ DOMAIN new.bubble = DOMAIN rows
        /\ \A i \in DOMAIN rows : IsRow(new.outputs[i], ToSet(op.fields[d])) /\ new.bubble[i] = Null
    BY <1>2, <1>6, Known, NewBucketIs
  <1>8. /\ bucket' = [x \in Buckets |-> bucket'[x]] /\ bucket'[d] = new
        /\ \A x \in Buckets : x # d => bucket'[x] = bucket[x]
    BY <1>4, Known
  <1>9. /\ field' = [g \in Fields |-> field'[g]] /\ field'[f] = [state |-> "child", live |-> live]
        /\ \A g \in Fields : g # f => field'[g] = field[g]
    BY <1>4, Known
  <1>10. bucket[d].phase = "idle"
    BY <1>1, <1>2, Known DEF Below, Begins
  <1>11. \A g \in Fields : Home(g) = d => g # f /\ field[g].state = "todo" /\ field[g].live = <<>>
    <2>1. \A g \in ToSet(op.fields[d]) : field[g].state = "todo"
      BY <1>10, Known DEF Progress, ToSet
    <2>2. \A g \in Fields : Home(g) = d => g \in ToSet(op.fields[d])
      BY Known, Tree
    <2> QED
      BY <1>2, <1>3, <2>1, <2>2, Known DEF Completing
  <1>12. Typed'
    BY <1>3, <1>4, <1>8, <1>9, Known, Tree DEF Typed
  <1>13. Shaped(d)' /\ Progress(d)' /\ Right(d)'
    <2>1. \A k \in DOMAIN op.fields[d] : field'[op.fields[d][k]].state = "todo"
      BY <1>9, <1>11, Known, Numbers
    <2>2. \A g \in ToSet(op.fields[d]) : field'[g].state = "todo"
      BY <2>1 DEF ToSet
    <2>3. 1 \in 1..(Len(op.fields[d]) + 1)
      BY Known, Numbers
    <2>4. Shaped(d)'
      BY <1>3, <1>6, <1>7, <1>8, <2>3 DEF Shaped, Phases
    <2>5. Progress(d)'
      BY <1>7, <1>8, <2>1 DEF Progress
    <2>6. Right(d)'
      BY <1>7, <1>8, <2>2 DEF Right, IsLive
    <2> QED
      BY <2>4, <2>5, <2>6
  <1>14. Shaped(b)' /\ Progress(b)' /\ Right(b)'
    <2>1. bucket'[b] = bucket[b]
      BY <1>3, <1>8
    <2>2. Shaped(b)'
      BY <1>3, <2>1, Known DEF Shaped
    <2>3. Right(b)'
      <3>1. \A g \in ToSet(op.fields[b]) : g # f => field'[g] = field[g]
        BY <1>9, Known, Tree
      <3>2. PICK state : state = "child"
        OBVIOUS
      <3>3. \A i \in DOMAIN bucket[b].rows : IsLive(b, i) => i \in ToSet(live) /\ state # "done"
        BY <1>5, <3>2
      <3>4. field'[f] = [state |-> state, live |-> live] /\ Right(b)
        BY <1>9, <3>2, Known
      <3> QED
        BY <2>1, <3>1, <3>3, <3>4, EnteredRight
    <2>4. Progress(b)'
      <3>1. \A k \in DOMAIN op.fields[b] :
               field'[op.fields[b][k]].state = IF op.fields[b][k] = f THEN "child" ELSE field[op.fields[b][k]].state
        BY <1>9, Known, Numbers
      <3>2. CASE bucket[b].phase = "walk"
        <4>1. bucket[b].cursor \in DOMAIN op.fields[b] /\ op.fields[b][bucket[b].cursor] = f
          BY <1>2, <1>5, <3>2 DEF Turn, Current
        <4>2. \A k \in DOMAIN op.fields[b] :
                 /\ k < bucket[b].cursor => field[op.fields[b][k]].state # "todo"
                 /\ k > bucket[b].cursor => field[op.fields[b][k]].state = "todo"
          BY <3>2, Known DEF Progress
        <4>3. \A k \in DOMAIN op.fields[b] : op.fields[b][k] = f => k = bucket[b].cursor
          BY <4>1, Known, Numbers DEF IsInjective
        <4>4. \A k \in DOMAIN op.fields[b] : k > bucket[b].cursor => k # bucket[b].cursor
          BY Known, Numbers DEF Shaped
        <4>5. \A k \in DOMAIN op.fields[b] :
                 /\ k < bucket[b].cursor => field'[op.fields[b][k]].state # "todo"
                 /\ k = bucket[b].cursor => field'[op.fields[b][k]].state \in {"todo", "child"}
                 /\ k > bucket[b].cursor => field'[op.fields[b][k]].state = "todo"
          BY <3>1, <4>1, <4>2, <4>3, <4>4
        <4> QED
          BY <2>1, <3>2, <4>5 DEF Progress
      <3>3. CASE bucket[b].phase = "gather"
        <4>1. \A k \in DOMAIN op.fields[b] : field'[op.fields[b][k]].state # "todo"
          BY <3>1, <3>3, Known DEF Progress
        <4> QED
          BY <2>1, <3>3, <4>1 DEF Progress
      <3> QED
        BY <1>2, <1>5, <3>2, <3>3 DEF Turn
    <2> QED
      BY <2>2, <2>3, <2>4
  <1>15. ASSUME NEW x \in Buckets PROVE Shaped(x)' /\ Progress(x)' /\ Right(x)'
    <2>1. CASE x # b /\ x # d
      <3>1. \A g \in ToSet(op.fields[x]) : field'[g] = field[g]
        BY <1>2, <1>9, <2>1, Known, Tree
      <3> QED
        BY <1>8, <2>1, <3>1, Known, Unmoved
    <2> QED
      BY <1>13, <1>14, <2>1
  <1>16. ASSUME NEW g \in Fields PROVE Completing(g)' /\ Below(g)'
    <2>1. CASE g = f
      <3>1. Completing(f)'
        <4>1. live \in Seq(DOMAIN bucket[b].rows) /\ IsInjective(live)
          BY <1>2, <1>5 DEF Settled
        <4> QED
          BY <1>3, <1>8, <1>9, <4>1 DEF Completing
      <3>2. Below(f)'
        <4>1. \A l : Targets(f, l)' = Targets(f, l)
          BY <1>2, <1>3, <1>8, RowsStay
        <4>2. Targets(f, field[f].live)' = rows
          BY <1>2, <1>9, <4>1
        <4> QED
          BY <1>1, <1>3, <1>7, <1>8, <1>9, <4>2 DEF Below
      <3> QED
        BY <2>1, <3>1, <3>2
    <2>2. CASE g # f /\ Home(g) = d
      <3>1. field'[g] = [state |-> "todo", live |-> <<>>]
        BY <1>9, <1>11, <2>2, Known DEF Completing
      <3>2. Completing(g)'
        <4>1. \A S : <<>> \in Seq(S) /\ IsInjective(<<>>)
          BY DEF IsInjective
        <4> QED
          BY <1>3, <3>1, <4>1 DEF Completing
      <3>3. Below(g)'
        <4>1. HasChild(g) => bucket'[Child(g)] = bucket[Child(g)] /\ bucket[Child(g)].phase = "idle"
          BY <1>3, <1>8, <1>11, <2>2, Known DEF Below
        <4> QED
          BY <1>3, <3>1, <4>1 DEF Below
      <3> QED
        BY <3>2, <3>3
    <2>3. CASE g # f /\ Home(g) # d
      <3>1. field'[g] = field[g] /\ bucket'[Home(g)] = bucket[Home(g)]
            /\ (HasChild(g) => bucket'[Child(g)] = bucket[Child(g)])
        BY <1>3, <1>8, <1>9, <2>3
      <3> QED
        BY <3>1, Known, Waiting
    <2> QED
      BY <2>1, <2>2, <2>3
  <1>17. Stacked'
    <2>1. d \notin ToSet(stack)
      BY <1>10, Known
    <2>2. stack' \in Seq(Buckets) /\ IsInjective(stack') /\ ToSet(stack') = ToSet(stack) \cup {d}
      BY <1>4, <2>1, Known, Pushed
    <2> QED
      BY <1>3, <1>7, <1>8, <2>1, <2>2, Known DEF Stacked
  <1>18. Queued'
    <2>1. ASSUME NEW w \in waits \cup held PROVE Asked(w)'
      <3>1. \A g \in Fields : w = LoadOf(g) /\ Loads(g) => bucket'[Home(g)] = bucket[Home(g)]
        BY <1>3, <1>8, <1>10 DEF Loads
      <3>2. \A g \in Fields : Awaits(g, w) => g # f /\ Home(g) # d
        BY <1>5, <1>11 DEF Awaits
      <3>3. \A g \in Fields : Awaits(g, w) => field'[g] = field[g] /\ bucket'[Home(g)].rows = bucket[Home(g)].rows
        BY <1>3, <1>8, <1>9, <3>2
      <3> QED
        BY <3>1, <3>3, Known, StillAsked
    <2> QED
      BY <1>4, <2>1, Known DEF Queued
  <1>19. DataIsSynchronous'
    BY SameData DEF IInv
  <1> QED
    BY <1>3, <1>12, <1>15, <1>16, <1>17, <1>18, <1>19 DEF IInv

-----------------------------------------------------------------------------
(* The walk and the event loop.                                            *)

LEMMA AtTurn ==
    ASSUME IInv, stack # <<>>, AtField(Top), NEW f, f = Current(Top), field[f].state \in {"todo", "child"}
    PROVE  f \in Fields /\ Home(f) = Top /\ bucket[Home(f)].phase = "walk" /\ Turn(f, Passed(f))
  <1>1. PICK b \in Buckets : b = Top
    BY Running
  <1>2. bucket[b].phase = "walk" /\ bucket[b].cursor <= Len(op.fields[b])
    BY <1>1 DEF AtField
  <1>3. bucket[b].cursor \in DOMAIN op.fields[b]
    BY <1>2, Known, Numbers DEF Shaped
  <1>4. f \in Fields /\ Home(f) = b
    BY <1>1, <1>3, Known, Numbers DEF Current
  <1> QED
    BY <1>1, <1>2, <1>3, <1>4 DEF Turn, Passed

LEMMA WalkBegins ==
    ASSUME IInv, stack # <<>>, AtField(Top), NEW f, f = Current(Top), field[f].state = "todo",
           NEW live, live = LiveRows(Top)
    PROVE  Begins(f, live) /\ (live = <<>> => \A i \in DOMAIN bucket[Home(f)].rows : ~IsLive(Home(f), i))
  <1>1. PICK b \in Buckets : b = Top /\ Home(f) = b
    BY AtTurn, Running
  <1>2. f \in Fields /\ bucket[b].phase = "walk" /\ Turn(f, Passed(f))
    BY <1>1, AtTurn
  <1>3. /\ live \in Seq(DOMAIN bucket[b].rows) /\ IsInjective(live)
        /\ ToSet(live) = {i \in DOMAIN bucket[b].rows : IsLive(b, i)}
    <2>1. PICK rows, S : rows = bucket[b].rows /\ S = {i \in DOMAIN rows : IsLive(b, i)}
      OBVIOUS
    <2>2. rows \in Seq(Rows(b)) /\ DOMAIN rows \cap S = S /\ live = Positions(rows, S)
      BY <1>1, <2>1, Known DEF Shaped, LiveRows
    <2>3. live \in Seq(DOMAIN rows \cap S) /\ ToSet(live) = S /\ IsInjective(live)
      BY <2>2, PositionsIs
    <2>4. live \in Seq(DOMAIN rows)
      BY <2>3
    <2> QED
      BY <2>1, <2>3, <2>4
  <1>4. \A w : ~Awaits(f, w)
    BY DEF Awaits
  <1>5. Begins(f, live)
    <2>1. Settled(f, live)
      BY <1>1, <1>3 DEF Settled
    <2>2. Ready(f, live)
      BY <1>1, <1>2, <1>3, <1>4, <2>1 DEF Ready
    <2>3. \A w \in waits \cup held : w \notin Wanted(f, live)
      BY <1>2, <1>4, <2>1, Known, WhoAsks
    <2> QED
      BY <2>2, <2>3 DEF Begins
  <1>6. ASSUME live = <<>> PROVE \A i \in DOMAIN bucket[b].rows : ~IsLive(b, i)
    <2>1. ToSet(live) = {}
      BY <1>6 DEF ToSet
    <2> QED
      BY <1>3, <2>1
  <1> QED
    BY <1>1, <1>5, <1>6

LEMMA CompleteFieldKeeps ==
    ASSUME IInv, CompleteField
    PROVE  IInv'
  <1>1. /\ stack # <<>> /\ AtField(Top) /\ field[Current(Top)].state = "todo"
        /\ op' = op /\ held' = held /\ response' = response
    BY DEF CompleteField
  <1>2. PICK f, b, live :
           f \in Fields /\ b \in Buckets /\
           f = Current(Top) /\ b = Top /\ Home(f) = b /\ live = LiveRows(Top)
    BY <1>1, AtTurn, Running
  <1> f \in Fields /\ b \in Buckets
    BY <1>2
  <1>3. bucket[b].phase = "walk" /\ Turn(f, Passed(f)) /\ field[f].state = "todo"
    BY <1>1, <1>2, AtTurn
  <1>4. \/ /\ live = <<>> /\ field' = [field EXCEPT ![f].state = "done"]
           /\ bucket' = [bucket EXCEPT ![b].cursor = @ + 1]
           /\ waits' = waits /\ errors' = errors /\ stack' = stack
        \/ live # <<>> /\ (Suspend(f, live, "start") \/ Descend(f, live, "start") \/ Settle(f, live, "start"))
    BY <1>2 DEF CompleteField
  <1>5. Begins(f, live) /\ (live = <<>> => \A i \in DOMAIN bucket[b].rows : ~IsLive(b, i))
    BY <1>1, <1>2, <1>3, WalkBegins
  <1>6. CASE live = <<>>
    <2>1. /\ field' = [field EXCEPT ![f].state = "done"] /\ bucket' = [bucket EXCEPT ![b].cursor = @ + 1]
          /\ waits' = waits /\ errors' = errors /\ stack' = stack
      BY <1>4, <1>6
    <2> QED
      BY <1>1, <1>2, <1>3, <1>5, <1>6, <2>1, SkipKeeps
  <1>7. CASE live # <<>>
    <2>1. Suspend(f, live, "start") \/ Descend(f, live, "start") \/ Settle(f, live, "start")
      BY <1>4, <1>7
    <2> QED
      BY <1>1, <1>5, <2>1, SuspendKeeps, DescendKeeps, SettleKeeps
  <1> QED
    BY <1>6, <1>7

LEMMA ChildReturnedKeeps ==
    ASSUME IInv, ChildReturned
    PROVE  IInv'
  <1>1. /\ stack # <<>> /\ AtField(Top) /\ field[Current(Top)].state = "child"
        /\ op' = op /\ waits' = waits /\ held' = held /\ stack' = stack /\ response' = response
    BY DEF ChildReturned
  <1>2. PICK f \in Fields : f = Current(Top)
    BY <1>1, AtTurn
  <1>3. field[f].state = "child" /\ Turn(f, Passed(f))
    BY <1>1, <1>2, AtTurn
  <1>4. bucket[Child(f)].phase = "done" /\ Scatter(f, field[f].live, assemble(Child(f)))
    BY <1>2 DEF ChildReturned
  <1> QED
    BY <1>1, <1>3, <1>4, ReturnKeeps

LEMMA ResumeParentKeeps ==
    ASSUME IInv, NEW f \in Fields, ResumeParent(f)
    PROVE  IInv'
  <1>1. /\ bucket[Home(f)].phase = "gather" /\ field[f].state = "child" /\ bucket[Child(f)].phase = "done"
        /\ Scatter(f, field[f].live, assemble(Child(f)))
        /\ op' = op /\ waits' = waits /\ held' = held /\ stack' = stack /\ response' = response
    BY DEF ResumeParent
  <1>2. Turn(f, Passed(f))
    BY <1>1 DEF Turn, Passed
  <1> QED
    BY <1>1, <1>2, ReturnKeeps

LEMMA LoopBegins ==
    ASSUME IInv, NEW f \in Fields, ResumeField(f), NEW live, live = field[f].live
    PROVE  Begins(f, live)
  <1>1. /\ bucket[Home(f)].phase = "gather" /\ field[f].state \in {"values", "items"}
        /\ Wanted(f, live) \cap (waits \cup held) = {}
    BY DEF ResumeField, Wanted
  <1>2. Settled(f, live)
    BY Known DEF Completing, Settled
  <1>3. \A i \in DOMAIN bucket[Home(f)].rows : IsLive(Home(f), i) => i \in ToSet(live)
    BY <1>1, Known, Tree DEF Right
  <1>4. Turn(f, Passed(f))
    BY <1>1 DEF Turn, Passed
  <1>5. \A w \in waits \cup held : ~Awaits(f, w)
    BY <1>1 DEF Awaits, Wanted
  <1> QED
    BY <1>1, <1>2, <1>3, <1>4, <1>5 DEF Begins, Ready

LEMMA ResumeFieldKeeps ==
    ASSUME IInv, NEW f \in Fields, ResumeField(f)
    PROVE  IInv'
  <1>1. PICK live, stage : live = field[f].live /\ stage = field[f].state
    OBVIOUS
  <1>2. /\ Suspend(f, live, stage) \/ Descend(f, live, stage) \/ Settle(f, live, stage)
        /\ op' = op /\ held' = held /\ response' = response
    BY <1>1 DEF ResumeField
  <1>3. Begins(f, live)
    BY <1>1, LoopBegins
  <1> QED
    BY <1>2, <1>3, SuspendKeeps, DescendKeeps, SettleKeeps

-----------------------------------------------------------------------------
(* The theorems.                                                           *)

LEMMA Starts ==
    ASSUME Init
    PROVE  IInv
  <1>1. op \in Operations /\ "root" \in Buckets
    BY Tree DEF Init
  <1> DEFINE rows(b) == IF b = "root" THEN <<<<>>>> ELSE <<>>
             phase(b) == IF b = "root" THEN "steps" ELSE "idle"
  <1>2. \A b \in Buckets : bucket[b] = NewBucket(rows(b), b, phase(b))
    BY DEF Init
  <1>3. \A b \in Buckets : rows(b) \in Seq(Rows(b)) /\ IsInjective(rows(b))
    <2>1. Rows("root") = {<<>>}
      BY <1>1, RowFacts
    <2>2. <<<<>>>> \in Seq({<<>>}) /\ IsInjective(<<<<>>>>)
      BY DEF IsInjective
    <2>3. \A S : <<>> \in Seq(S) /\ IsInjective(<<>>)
      BY DEF IsInjective
    <2> QED
      BY <2>1, <2>2, <2>3
  <1> HIDE DEF rows, phase
  <1>4. \A b \in Buckets :
           /\ IsBucket(bucket[b]) /\ bucket[b].phase = phase(b) /\ bucket[b].cursor = 1 /\ bucket[b].rows = rows(b)
           /\ DOMAIN bucket[b].outputs = DOMAIN bucket[b].rows /\ DOMAIN bucket[b].bubble = DOMAIN bucket[b].rows
           /\ \A i \in DOMAIN bucket[b].rows : /\ IsRow(bucket[b].outputs[i], ToSet(op.fields[b]))
                                               /\ bucket[b].bubble[i] = Null
    BY <1>1, <1>2, <1>3, NewBucketIs
  <1>5. \A b \in Buckets : phase(b) \in {"steps", "idle"} /\ (b # "root" => phase(b) = "idle")
    BY DEF phase
  <1>6. \A f \in Fields : field[f] = [state |-> "todo", live |-> <<>>]
    BY DEF Init
  <1>7. Typed
    <2>1. bucket = [b \in Buckets |-> bucket[b]] /\ field = [f \in Fields |-> field[f]] /\ errors \in Seq(Paths)
      BY DEF Init
    <2> QED
      BY <1>1, <1>4, <2>1 DEF Typed, rows
  <1>8. ASSUME NEW b \in Buckets PROVE Shaped(b) /\ Progress(b) /\ Right(b)
    <2>1. 1 \in 1..(Len(op.fields[b]) + 1) /\ \A k \in DOMAIN op.fields[b] : field[op.fields[b][k]].state = "todo"
      BY <1>1, <1>6, Numbers
    <2>2. \A f \in ToSet(op.fields[b]) : field[f].state = "todo"
      BY <2>1 DEF ToSet
    <2>3. Shaped(b)
      BY <1>3, <1>4, <1>5, <2>1 DEF Shaped, Phases
    <2>4. Progress(b)
      BY <1>4, <1>5, <2>1 DEF Progress
    <2>5. Right(b)
      BY <1>4, <2>2 DEF Right, IsLive
    <2> QED
      BY <2>3, <2>4, <2>5
  <1>9. ASSUME NEW f \in Fields PROVE Completing(f) /\ Below(f)
    <2>1. \A S : <<>> \in Seq(S) /\ IsInjective(<<>>)
      BY DEF IsInjective
    <2>2. HasChild(f) => bucket[Child(f)].phase = "idle"
      BY <1>1, <1>4, <1>5, Tree
    <2> QED
      <3>1. field[f].state = "todo" /\ field[f].live = <<>> /\ field[f] = [state |-> "todo", live |-> <<>>]
        BY <1>6
      <3>2. Completing(f)
        BY <2>1, <3>1 DEF Completing
      <3>3. Below(f)
        BY <2>2, <3>1 DEF Below
      <3> QED
        BY <3>2, <3>3
  <1>10. Stacked
    <2>1. stack = <<"root">> /\ <<"root">> \in Seq(Buckets) /\ IsInjective(<<"root">>) /\ ToSet(<<"root">>) = {"root"}
      BY <1>1 DEF Init, IsInjective, ToSet
    <2> QED
      BY <1>1, <1>4, <2>1 DEF Stacked, phase
  <1>11. Queued /\ DataIsSynchronous
    BY DEF Init, Queued, DataIsSynchronous
  <1> QED
    BY <1>7, <1>8, <1>9, <1>10, <1>11 DEF IInv

LEMMA Keeps ==
    ASSUME IInv, [Next]_vars
    PROVE  IInv'
  <1>1. CASE Run
    BY <1>1, RunStepsKeeps, CompleteFieldKeeps, ChildReturnedKeeps, ChildSuspendedKeeps, EndWalkKeeps DEF Run
  <1>2. CASE Loop
    BY <1>2, ResumeStepsKeeps, EndGatherKeeps, ResumeFieldKeeps, ResumeParentKeeps, RespondKeeps DEF Loop
  <1>3. CASE Await
    BY <1>3, AwaitKeeps DEF Await
  <1>4. CASE UNCHANGED vars
    <2>1. /\ op' = op /\ bucket' = bucket /\ field' = field /\ errors' = errors /\ stack' = stack
          /\ response' = response /\ waits' = waits /\ held' = held
      BY <1>4 DEF vars
    <2>2. Queued'
      BY <2>1, Known, StillAsked DEF Queued
    <2>3. DataIsSynchronous'
      BY <2>1, SameData DEF IInv
    <2> QED
      BY <2>1, <2>2, <2>3, Still
  <1> QED
    BY <1>1, <1>2, <1>3, <1>4 DEF Next

LEMMA WellTyped ==
    ASSUME IInv
    PROVE  TypeOK
  <1>1. ASSUME NEW b \in Buckets
        PROVE  LET s == bucket[b] IN
               /\ s.phase \in Phases /\ s.cursor \in 1..(Len(op.fields[b]) + 1)
               /\ s.rows \in Seq(Objects) /\ IsInjective(s.rows)
               /\ \A i \in DOMAIN s.rows : s.bubble[i] = Null \/ s.bubble[i].error \in Paths
    <2>1. Rows(b) \subseteq Objects
      BY DEF Rows
    <2>2. \A S, T : S \subseteq T => Seq(S) \subseteq Seq(T)
      OBVIOUS
    <2> QED
      BY <2>1, <2>2, Known DEF Shaped
  <1>2. ASSUME NEW f \in Fields
        PROVE  /\ field[f].state \in {"todo", "values", "items", "child", "done"}
               /\ ToSet(field[f].live) \subseteq DOMAIN bucket[Home(f)].rows
    BY Known DEF Completing, ToSet
  <1>3. ASSUME NEW w \in waits \cup held PROVE w \in Paths \cup {LoadOf(f) : f \in Fields}
    <2>1. Asked(w)
      BY Known
    <2>2. ASSUME NEW f \in Fields, Awaits(f, w) PROVE w \in Paths
      <3>1. Shaped(Home(f)) /\ Settled(f, field[f].live)
        BY Known, Tree DEF Completing, Settled
      <3>2. w \in Wanted(f, field[f].live)
        BY <2>2 DEF Awaits, Wanted
      <3> QED
        BY <3>1, <3>2, Known, WantedIs
    <2> QED
      BY <2>1, <2>2 DEF Asked, Awaits
  <1> QED
    BY <1>1, <1>2, <1>3, Known DEF TypeOK

LEMMA Invariant == Spec => []IInv
  <1>1. Init => IInv
    BY Starts
  <1>2. IInv /\ [Next]_vars => IInv'
    BY Keeps
  <1> QED
    BY <1>1, <1>2, PTL DEF Spec

\* Every variable has its type: a bucket never holds an object twice, what is
\* awaited is a value or a step of the operation, and never both queued for a
\* permit and holding one.
THEOREM TypeCorrect == Spec => []TypeOK
  <1>1. IInv => TypeOK
    BY WellTyped
  <1> QED
    BY <1>1, Invariant, PTL

\* In whatever order the awaits end and the buckets resume, the data of the
\* response is what the synchronous path makes of the operation.
THEOREM Synchronised == Spec => []DataIsSynchronous
  <1>1. IInv => DataIsSynchronous
    BY DEF IInv
  <1> QED
    BY <1>1, Invariant, PTL

-----------------------------------------------------------------------------
(* What is left when the response is made.                                 *)

Paused(b) == bucket[b].phase \in {"loading", "gather"}

\* A set of buckets with the ones around them.
Upward(T) == \A b \in T \ {"root"} : Home(op.owner[b]) \in T

\* The bucket and all around it are paused.
Afoot(b) == \E T \in SUBSET Buckets : b \in T /\ Upward(T) /\ \A c \in T : Paused(c)

\* Object p is the value of field f of object r, or an item of it.
Under(f, r, p) ==
    /\ op.outcome[Append(r, f)] = "ok"
    /\ IF f \in op.list THEN \E i \in ToSet(op.items[f]) : p = Append(Append(r, f), i) ELSE p = Append(r, f)

\* A bucket's objects are those of a field of the bucket around it, which has
\* not gone on without them.
Entered(b) ==
    /\ bucket[b].phase \notin {"idle", "done"} => field[op.owner[b]].state = "child"
    /\ bucket[b].phase = "idle" => bucket[b].rows = <<>>
    /\ \A p \in ToSet(bucket[b].rows) :
          \E r \in ToSet(bucket[Home(op.owner[b])].rows) : Under(op.owner[b], r, p)

\* A permit is held for a bucket that nobody has left.
Trail ==
    /\ \A b \in Buckets \ {"root"} : Entered(b)
    /\ \A w \in held : Afoot(WaitHome(w))
    /\ response # Null => bucket["root"].phase = "done"

\* There is a way up from every bucket to the root.
LEMMA RootIn ==
    ASSUME op \in Operations, NEW T, T \subseteq Buckets, T # {}, Upward(T)
    PROVE  "root" \in T
  <1>1. IsOperation(op)
    BY ExecutionAssumption
  <1>2. PICK depth \in [Buckets -> 0..Cardinality(Buckets)] :
           \A b \in Buckets \ {"root"}, c \in Buckets : op.owner[b] \in ToSet(op.fields[c]) => depth[c] < depth[b]
    BY <1>1 DEF IsOperation, Buckets
  <1> DEFINE depths == {depth[b] : b \in T}
  <1>3. Cardinality(Buckets) \in Nat
    BY <1>1, FS_CardinalityType DEF IsOperation, Buckets
  <1>4. depths \subseteq Nat /\ depths # {}
    BY <1>2, <1>3
  <1>5. PICK n \in depths : \A m \in depths : n <= m
    <2> HIDE DEF depths
    <2> QED
      BY <1>4, LeastExists
  <1>6. PICK b \in T : depth[b] = n
    BY <1>5
  <1>7. CASE b # "root"
    <2>1. Home(op.owner[b]) \in T
      BY <1>7 DEF Upward
    <2>2. op.owner[b] \in Fields /\ Home(op.owner[b]) \in Buckets /\ op.owner[b] \in ToSet(op.fields[Home(op.owner[b])])
      BY <1>7, Tree
    <2>3. depth[Home(op.owner[b])] < depth[b]
      BY <1>2, <1>7, <2>2
    <2>4. depth[b] <= depth[Home(op.owner[b])]
      BY <1>5, <1>6, <2>1
    <2>5. depth[b] \in Nat /\ depth[Home(op.owner[b])] \in Nat
      BY <1>2, <1>3, <2>2
    <2> QED
      BY <2>3, <2>4, <2>5
  <1> QED
    BY <1>6, <1>7

\* What Started looks for.
LEMMA StartedIs ==
    ASSUME op \in Operations, NEW b \in Buckets, Started(b)
    PROVE  Afoot(b)
  <1> DEFINE up == [c \in Buckets |-> Afoot(c)]
             Up(f) == f = [c \in Buckets |-> /\ bucket[c].phase \in {"loading", "gather"}
                                             /\ c # "root" => f[Home(op.owner[c])]]
  <1>1. \A c \in Buckets \ {"root"} : Home(op.owner[c]) \in Buckets
    BY Tree
  <1>2. ASSUME NEW c \in Buckets
        PROVE  Afoot(c) <=> Paused(c) /\ (c # "root" => Afoot(Home(op.owner[c])))
    <2>1. ASSUME Afoot(c) PROVE Paused(c) /\ (c # "root" => Afoot(Home(op.owner[c])))
      BY <2>1 DEF Afoot, Upward
    <2>2. ASSUME Paused(c), c = "root" PROVE Afoot(c)
      <3>1. {c} \in SUBSET Buckets /\ Upward({c})
        BY <2>2 DEF Upward
      <3> QED
        BY <2>2, <3>1 DEF Afoot
    <2>3. ASSUME Paused(c), c # "root", Afoot(Home(op.owner[c])) PROVE Afoot(c)
      <3>1. PICK T \in SUBSET Buckets : Home(op.owner[c]) \in T /\ Upward(T) /\ \A d \in T : Paused(d)
        BY <2>3 DEF Afoot
      <3>2. T \cup {c} \in SUBSET Buckets /\ Upward(T \cup {c})
        BY <3>1 DEF Upward
      <3> QED
        BY <2>3, <3>1, <3>2 DEF Afoot
    <2> QED
      BY <2>1, <2>2, <2>3
  <1>3. Up(up)
    <2>1. ASSUME NEW c \in Buckets
          PROVE  Afoot(c) = (Paused(c) /\ (c # "root" => up[Home(op.owner[c])]))
      <3>1. c # "root" => up[Home(op.owner[c])] = Afoot(Home(op.owner[c]))
        BY <1>1
      <3>2. Afoot(c) \in BOOLEAN /\ Paused(c) \in BOOLEAN
        BY DEF Afoot, Paused
      <3> HIDE DEF up
      <3> QED
        BY <1>2, <3>1, <3>2, Zenon
    <2>2. up = [c \in Buckets |-> Paused(c) /\ (c # "root" => up[Home(op.owner[c])])]
      BY <2>1
    <2> QED
      BY <2>2 DEF Paused
  <1> DEFINE any == CHOOSE f : Up(f)
  <1>4. Up(any)
    BY <1>3
  <1>5. any[b]
    BY DEF Started
  <1> HIDE DEF any
  <1>6. \A c \in Buckets : any[c] <=> Paused(c) /\ (c # "root" => any[Home(op.owner[c])])
    BY <1>4 DEF Paused
  <1> DEFINE T == {c \in Buckets : any[c]}
  <1>7. Upward(T)
    BY <1>1, <1>6 DEF Upward
  <1>8. b \in T /\ \A c \in T : Paused(c)
    BY <1>5, <1>6
  <1> QED
    BY <1>7, <1>8 DEF Afoot

LEMMA AfootStays ==
    ASSUME op' = op, NEW b, Afoot(b), \A c \in Buckets : Paused(c) => Paused(c)'
    PROVE  Afoot(b)'
  <1>1. PICK T \in SUBSET Buckets : b \in T /\ Upward(T) /\ \A c \in T : Paused(c)
    BY DEF Afoot
  <1>2. Buckets' = Buckets /\ Upward(T)' /\ \A c \in T : Paused(c)'
    BY <1>1, OpStays DEF Upward
  <1> QED
    BY <1>1, <1>2 DEF Afoot

\* A bucket goes on with nothing afoot further down.
LEMMA AfootWithout ==
    ASSUME op' = op, NEW b, Afoot(b), NEW d, d # b,
           \A c \in Buckets \ {"root"} : Home(op.owner[c]) = d => ~Paused(c),
           \A c \in Buckets : c # d /\ Paused(c) => Paused(c)'
    PROVE  Afoot(b)'
  <1>1. PICK T \in SUBSET Buckets : b \in T /\ Upward(T) /\ \A c \in T : Paused(c)
    BY DEF Afoot
  <1> DEFINE R == T \ {d}
  <1>2. R \in SUBSET Buckets /\ b \in R /\ Upward(R)
    BY <1>1 DEF Upward
  <1>3. Buckets' = Buckets /\ Upward(R)'
    BY <1>2, OpStays DEF Upward
  <1>4. \A c \in R : Paused(c)'
    BY <1>1
  <1> QED
    BY <1>2, <1>3, <1>4 DEF Afoot

\* The bucket that what is awaited belongs to.
LEMMA AskedIn ==
    ASSUME IInv, NEW w, Asked(w)
    PROVE  /\ WaitHome(w) \in Buckets
           /\ \/ bucket[WaitHome(w)].phase = "loading" /\ w = LoadOf(Current(WaitHome(w)))
              \/ \E f \in ToSet(op.fields[WaitHome(w)]) :
                    /\ field[f].state \in {"values", "items"} /\ Awaits(f, w)
                    /\ w \in Paths /\ FieldOf(w) = f
  <1>1. ASSUME NEW f \in Fields, w = LoadOf(f), bucket[Home(f)].phase = "loading", Current(Home(f)) = f
        PROVE  /\ WaitHome(w) \in Buckets
               /\ bucket[WaitHome(w)].phase = "loading" /\ w = LoadOf(Current(WaitHome(w)))
    <2>1. WaitHome(w) = Home(f)
      BY <1>1 DEF WaitHome, LoadOf
    <2> QED
      BY <1>1, <2>1, Known, Tree
  <1>2. ASSUME NEW f \in Fields, Awaits(f, w)
        PROVE  /\ WaitHome(w) \in Buckets /\ f \in ToSet(op.fields[WaitHome(w)])
               /\ field[f].state \in {"values", "items"} /\ w \in Paths /\ FieldOf(w) = f
    <2>1. w \in Wanted(f, field[f].live) /\ field[f].state \in {"values", "items"}
      BY <1>2 DEF Awaits, Wanted
    <2>2. Shaped(Home(f)) /\ Settled(f, field[f].live)
      BY Known, Tree DEF Completing, Settled
    <2>3. FieldOf(w) = f /\ w \in Paths
      BY <2>1, <2>2, Known, WantedIs
    <2>4. WaitHome(w) = Home(f)
      BY <2>3, Known, PathFacts DEF WaitHome
    <2> QED
      BY <2>1, <2>3, <2>4, Known, Tree
  <1> QED
    BY <1>1, <1>2 DEF Asked, Awaits

\* A bucket that is taken up moves on, with the rows it has.
LEMMA TrailStep ==
    ASSUME IInv, Trail, op' = op, response' = response,
           NEW b \in Buckets, NEW phase, NEW c, NEW outputs, NEW bubbles, Becomes(b, phase, c, outputs, bubbles),
           bucket[b].phase \notin {"idle", "done"}, phase # "idle",
           \A d \in Buckets \ {"root"} : bucket'[d].phase \notin {"idle", "done"} => field'[op.owner[d]].state = "child",
           \A w \in held' : Afoot(WaitHome(w))'
    PROVE  Trail'
  <1>1. /\ Buckets' = Buckets /\ \A f : Home(f)' = Home(f)
        /\ \A d \in Buckets \ {"root"} : Home(op.owner[d]) \in Buckets
    BY Known, OpStays, Tree
  <1>2. \A d \in Buckets : bucket'[d].rows = bucket[d].rows /\ (d # b => bucket'[d] = bucket[d])
    BY DEF Becomes
  <1>3. ASSUME NEW d \in Buckets \ {"root"} PROVE Entered(d)'
    <2>1. \A f, r, p : Under(f, r, p)' <=> Under(f, r, p)
      BY DEF Under
    <2>2. PICK f, h : f = op.owner[d] /\ h = Home(f)
      OBVIOUS
    <2>3. bucket'[d].rows = bucket[d].rows /\ bucket'[h].rows = bucket[h].rows /\ Home(f)' = h
      BY <1>1, <1>2, <2>2
    <2>4. \A p \in ToSet(bucket'[d].rows) : \E r \in ToSet(bucket'[h].rows) : Under(f, r, p)'
      BY <2>1, <2>2, <2>3 DEF Trail, Entered
    <2>5. bucket'[d].phase = "idle" => bucket'[d].rows = <<>>
      BY <1>2 DEF Trail, Entered, Becomes
    <2>6. f = op'.owner[d] /\ (bucket'[d].phase \notin {"idle", "done"} => field'[f].state = "child")
      BY <2>2
    <2> QED
      BY <2>3, <2>4, <2>5, <2>6 DEF Entered
  <1>4. response' # Null => bucket'["root"].phase = "done"
    <2>1. "root" \in Buckets
      BY Known, Tree
    <2> QED
      BY <1>2, <2>1 DEF Trail
  <1> QED
    BY <1>1, <1>3, <1>4 DEF Trail, Null

\* The permits are where they were.
LEMMA HeldStays ==
    ASSUME IInv, Trail, op' = op, held' = held, \A c \in Buckets : Paused(c) => Paused(c)'
    PROVE  \A w \in held' : Afoot(WaitHome(w))'
  <1>1. ASSUME NEW w \in held PROVE Afoot(WaitHome(w))'
    <2>1. WaitHome(w)' = WaitHome(w)
      BY OpStays DEF WaitHome, FieldOf
    <2>2. PICK b : b = WaitHome(w)
      OBVIOUS
    <2>3. Afoot(b)'
      BY <2>2, AfootStays DEF Trail
    <2> QED
      BY <2>1, <2>2, <2>3
  <1> QED
    BY <1>1

\* The buckets' fields are as they were.
LEMMA StillChild ==
    ASSUME IInv, Trail, op' = op, field' = field,
           NEW b \in Buckets, NEW phase, NEW c, NEW outputs, NEW bubbles, Becomes(b, phase, c, outputs, bubbles),
           bucket[b].phase \notin {"idle", "done"}
    PROVE  \A d \in Buckets \ {"root"} :
              bucket'[d].phase \notin {"idle", "done"} => field'[op.owner[d]].state = "child"
  BY DEF Trail, Entered, Becomes

LEMMA RunStepsTrail ==
    ASSUME IInv, Trail, RunSteps
    PROVE  Trail'
  <1>1. /\ stack # <<>> /\ bucket[Top].phase = "steps" /\ op' = op /\ field' = field /\ held' = held
        /\ response' = response
        /\ \E phase \in {"walk", "loading"} : \E c : bucket' = [bucket EXCEPT ![Top].phase = phase, ![Top].cursor = c]
    BY DEF RunSteps
  <1>2. PICK b, phase, c : /\ b \in Buckets /\ b = Top /\ phase \in {"walk", "loading"}
                           /\ bucket' = [bucket EXCEPT ![b].phase = phase, ![b].cursor = c]
    BY <1>1, Running
  <1> b \in Buckets
    BY <1>2
  <1>3. Becomes(b, phase, c, bucket[b].outputs, bucket[b].bubble)
    BY <1>2, Known, Moved
  <1>4. \A x \in Buckets : Paused(x) => Paused(x)'
    BY <1>1, <1>2, <1>3 DEF Paused, Becomes
  <1> QED
    BY <1>1, <1>2, <1>3, <1>4, HeldStays, StillChild, TrailStep

LEMMA ChildSuspendedTrail ==
    ASSUME IInv, Trail, ChildSuspended
    PROVE  Trail'
  <1>1. /\ stack # <<>> /\ bucket[Top].phase = "walk" /\ bucket' = [bucket EXCEPT ![Top].cursor = @ + 1]
        /\ op' = op /\ field' = field /\ held' = held /\ response' = response
    BY DEF ChildSuspended, AtField
  <1>2. PICK b, c : b \in Buckets /\ b = Top /\ c = bucket[b].cursor + 1
    BY <1>1, Running
  <1> b \in Buckets
    BY <1>2
  <1>3. Becomes(b, "walk", c, bucket[b].outputs, bucket[b].bubble)
    <2>1. bucket' = [bucket EXCEPT ![b].cursor = c]
      BY <1>1, <1>2, Known
    <2> QED
      BY <1>1, <1>2, <2>1, Known, Moved
  <1>4. \A x \in Buckets : Paused(x) => Paused(x)'
    BY <1>1, <1>2, <1>3 DEF Paused, Becomes
  <1> QED
    BY <1>1, <1>2, <1>3, <1>4, HeldStays, StillChild, TrailStep

LEMMA EndWalkTrail ==
    ASSUME IInv, Trail, EndWalk
    PROVE  Trail'
  <1>1. /\ stack # <<>> /\ bucket[Top].phase = "walk" /\ op' = op /\ field' = field /\ held' = held
        /\ response' = response
        /\ \E phase \in {"done", "gather"} : bucket' = [bucket EXCEPT ![Top].phase = phase]
    BY DEF EndWalk
  <1>2. PICK b, phase : /\ b \in Buckets /\ b = Top /\ phase \in {"done", "gather"}
                        /\ bucket' = [bucket EXCEPT ![b].phase = phase]
    BY <1>1, Running
  <1> b \in Buckets
    BY <1>2
  <1>3. Becomes(b, phase, bucket[b].cursor, bucket[b].outputs, bucket[b].bubble)
    BY <1>2, Known, Moved
  <1>4. \A x \in Buckets : Paused(x) => Paused(x)'
    BY <1>1, <1>2, <1>3 DEF Paused, Becomes
  <1> QED
    BY <1>1, <1>2, <1>3, <1>4, HeldStays, StillChild, TrailStep

\* A bucket resumes once nothing of it is awaited, nor of any that it waits for.
LEMMA HeldElsewhere ==
    ASSUME IInv, Trail, op' = op, held' = held, NEW b \in Buckets,
           bucket[b].phase = "loading" => LoadOf(Current(b)) \notin held,
           bucket[b].phase = "gather" => Pending(b) = {},
           Paused(b),
           \A c \in Buckets : c # b /\ Paused(c) => Paused(c)'
    PROVE  \A w \in held' : Afoot(WaitHome(w))'
  <1>1. \A f \in ToSet(op.fields[b]) : field[f].state \in {"todo", "done"}
    <2>1. CASE bucket[b].phase = "gather"
      BY <2>1 DEF Pending
    <2>2. CASE bucket[b].phase = "loading"
      BY <2>2, Known DEF Progress, ToSet
    <2> QED
      BY <2>1, <2>2 DEF Paused
  <1>2. ASSUME NEW d \in Buckets \ {"root"}, Home(op.owner[d]) = b PROVE ~Paused(d)
    <2>1. op.owner[d] \in ToSet(op.fields[b])
      BY <1>2, Known, Tree
    <2>2. field[op.owner[d]].state # "child"
      BY <1>1, <2>1
    <2> QED
      BY <2>2 DEF Trail, Entered, Paused
  <1>3. ASSUME NEW w \in held PROVE Afoot(WaitHome(w))'
    <2>1. PICK a : a = WaitHome(w)
      OBVIOUS
    <2>2. a # b
      BY <1>1, <2>1, Known, AskedIn
    <2>3. Afoot(a)
      BY <2>1 DEF Trail
    <2>4. Afoot(a)'
      BY <1>2, <2>2, <2>3, AfootWithout
    <2>5. WaitHome(w)' = a
      BY <2>1, OpStays DEF WaitHome, FieldOf
    <2> QED
      BY <2>4, <2>5
  <1> QED
    BY <1>3

LEMMA ResumeStepsTrail ==
    ASSUME IInv, Trail, NEW b \in Buckets, ResumeSteps(b)
    PROVE  Trail'
  <1>1. /\ bucket[b].phase = "loading" /\ LoadOf(Current(b)) \notin waits \cup held
        /\ bucket' = [bucket EXCEPT ![b].phase = "steps", ![b].cursor = @ + 1]
        /\ op' = op /\ field' = field /\ held' = held /\ response' = response
    BY DEF ResumeSteps, Current
  <1>2. PICK c : c = bucket[b].cursor + 1
    OBVIOUS
  <1>3. Becomes(b, "steps", c, bucket[b].outputs, bucket[b].bubble)
    <2>1. bucket' = [bucket EXCEPT ![b].phase = "steps", ![b].cursor = c]
      BY <1>1, <1>2, Known
    <2> QED
      BY <2>1, Known, Moved
  <1>4. Paused(b) /\ \A x \in Buckets : x # b /\ Paused(x) => Paused(x)'
    BY <1>1, <1>3 DEF Paused, Becomes
  <1>5. \A w \in held' : Afoot(WaitHome(w))'
    BY <1>1, <1>4, HeldElsewhere
  <1> QED
    BY <1>1, <1>3, <1>5, StillChild, TrailStep

LEMMA EndGatherTrail ==
    ASSUME IInv, Trail, NEW b \in Buckets, EndGather(b)
    PROVE  Trail'
  <1>1. /\ bucket[b].phase = "gather" /\ Pending(b) = {} /\ bucket' = [bucket EXCEPT ![b].phase = "done"]
        /\ op' = op /\ field' = field /\ held' = held /\ response' = response
    BY DEF EndGather
  <1>2. Becomes(b, "done", bucket[b].cursor, bucket[b].outputs, bucket[b].bubble)
    BY <1>1, Known, Moved
  <1>3. Paused(b) /\ \A x \in Buckets : x # b /\ Paused(x) => Paused(x)'
    BY <1>1, <1>2 DEF Paused, Becomes
  <1>4. \A w \in held' : Afoot(WaitHome(w))'
    BY <1>1, <1>3, HeldElsewhere
  <1> QED
    BY <1>1, <1>2, <1>4, StillChild, TrailStep

\* A field that goes on has no nested objects, or has them all.
LEMMA FieldTrail ==
    ASSUME IInv, Trail, op' = op, held' = held, response' = response,
           NEW f \in Fields, NEW new, field' = [field EXCEPT ![f] = new],
           HasChild(f) => bucket[Child(f)].phase \in {"idle", "done"},
           NEW c, NEW outputs, NEW bubbles, NEW b \in Buckets, b = Home(f), bucket[b].phase \in {"walk", "gather"},
           Becomes(b, bucket[b].phase, c, outputs, bubbles)
    PROVE  Trail'
  <1>1. \A x \in Buckets : bucket'[x].phase = bucket[x].phase
    BY DEF Becomes
  <1>2. \A w \in held' : Afoot(WaitHome(w))'
    BY <1>1, HeldStays DEF Paused
  <1>3. ASSUME NEW d \in Buckets \ {"root"}, bucket'[d].phase \notin {"idle", "done"}
        PROVE  field'[op.owner[d]].state = "child"
    <2>1. /\ op.owner[d] \in Fields /\ (op.owner[d] = f => HasChild(f) /\ Child(f) = d)
          /\ field[op.owner[d]].state = "child"
      BY <1>1, <1>3, Known, Tree DEF Trail, Entered
    <2>2. field'[op.owner[d]] = field[op.owner[d]]
      BY <1>1, <1>3, <2>1, Known
    <2> QED
      BY <2>1, <2>2
  <1> QED
    BY <1>2, <1>3, TrailStep

LEMMA ScatterTrail ==
    ASSUME IInv, Trail, NEW f \in Fields, NEW live, Ready(f, live), NEW children,
           HasChild(f) => \A k \in DOMAIN Targets(f, live) : Alike(children[k], Synchronous[Targets(f, live)[k]]),
           HasChild(f) => bucket[Child(f)].phase \in {"idle", "done"},
           Scatter(f, live, children), op' = op, held' = held, response' = response
    PROVE  Trail'
  <1>1. PICK b \in Buckets : b = Home(f)
    BY Known, Tree
  <1>2. Shaped(b) /\ Settled(f, live) /\ Turn(f, Passed(f))
    BY Known DEF Ready
  <1>3. bucket[b].phase \in {"walk", "gather"}
    BY <1>1, <1>2 DEF Turn
  <1>4. PICK c, outputs, bubbles : /\ field' = [field EXCEPT ![f] = [state |-> "done", live |-> live]]
                                   /\ Becomes(b, bucket[b].phase, c, outputs, bubbles)
    BY <1>1, <1>2, Known, Scattered
  <1> QED
    BY <1>1, <1>3, <1>4, FieldTrail

LEMMA SettleTrail ==
    ASSUME IInv, Trail, NEW f \in Fields, NEW live, Begins(f, live), NEW after, Settle(f, live, after),
           op' = op, held' = held, response' = response
    PROVE  Trail'
  <1>1. Targets(f, live) = <<>> /\ Scatter(f, live, <<>>) /\ Ready(f, live)
    BY DEF Settle, Begins
  <1>2. PICK none : none = <<>>
    OBVIOUS
  <1>3. \A k \in DOMAIN Targets(f, live) : Alike(none[k], Synchronous[Targets(f, live)[k]])
    BY <1>1
  <1>4. HasChild(f) => bucket[Child(f)].phase \in {"idle", "done"}
    BY Known DEF Below, Begins
  <1> QED
    BY <1>1, <1>2, <1>3, <1>4, ScatterTrail

LEMMA SuspendTrail ==
    ASSUME IInv, Trail, NEW f \in Fields, NEW live, Begins(f, live), NEW after, Suspend(f, live, after),
           op' = op, held' = held, response' = response
    PROVE  Trail'
  <1>1. PICK b, c : b \in Buckets /\ b = Home(f) /\ c = Passed(f)
    BY Known, Tree
  <1>2. PICK new : field' = [field EXCEPT ![f] = new]
    BY DEF Suspend
  <1>3. Becomes(b, bucket[b].phase, c, bucket[b].outputs, bucket[b].bubble)
    BY <1>1, Onward DEF Suspend, Passed
  <1>4. bucket[b].phase \in {"walk", "gather"} /\ (HasChild(f) => bucket[Child(f)].phase \in {"idle", "done"})
    BY <1>1, Known DEF Below, Begins, Ready, Turn
  <1> QED
    BY <1>1, <1>2, <1>3, <1>4, FieldTrail

\* The objects of a field are below those of its bucket.
LEMMA TargetsUnder ==
    ASSUME op \in Operations, NEW f \in Fields, HasChild(f), Shaped(Home(f)), NEW live, Settled(f, live),
           NEW p \in ToSet(Targets(f, live))
    PROVE  \E r \in ToSet(bucket[Home(f)].rows) : Under(f, r, p)
  <1> DEFINE column == Column(f, live)
             origin == KeepOrigin(column)
             rows == bucket[Home(f)].rows
  <1>1. PICK k \in DOMAIN origin : origin[k] \in DOMAIN column /\ p = column[origin[k]]
    BY TargetsAre DEF ToSet
  <1>2. p \in ToSet(column) /\ op.outcome[p] = "ok"
    <2>1. column \in Seq(Paths)
      BY ColumnIs
    <2>2. origin[k] \in ToSet(origin)
      BY DEF ToSet
    <2> HIDE DEF column
    <2> QED
      BY <1>1, <2>1, <2>2, OriginIs DEF ToSet
  <1>3. /\ DOMAIN ValuePaths(f, live) = DOMAIN live
        /\ \A j \in DOMAIN live : /\ live[j] \in DOMAIN rows /\ rows[live[j]] \in Rows(Home(f))
                                  /\ ValuePaths(f, live)[j] = Append(rows[live[j]], f)
    BY ValuesAre DEF ValuePaths
  <1>4. CASE f \notin op.list
    <2>1. column = ValuePaths(f, live)
      BY <1>4 DEF Column
    <2>2. PICK j \in DOMAIN live : p = Append(rows[live[j]], f)
      BY <1>2, <1>3, <2>1 DEF ToSet
    <2> QED
      BY <1>2, <1>3, <1>4, <2>2 DEF Under, ToSet
  <1>5. CASE f \in op.list
    <2>1. PICK parts : parts = Parts(f, live)
      OBVIOUS
    <2>2. /\ parts \in Seq(Seq(Paths)) /\ DOMAIN parts = DOMAIN live /\ column = FlattenSeq(parts)
          /\ \A j \in DOMAIN live : parts[j] = ItemsOf(f, ValuePaths(f, live)[j])
      BY <1>5, <2>1, PartsAre
    <2>3. PICK j \in DOMAIN live : p \in ToSet(parts[j])
      BY <1>2, <2>2, Flattened
    <2>4. PICK r, items : r = rows[live[j]] /\ items = ItemsOf(f, Append(r, f))
      OBVIOUS
    <2>5. r \in Rows(Home(f)) /\ r \in ToSet(rows) /\ p \in ToSet(items)
      BY <1>3, <2>2, <2>3, <2>4 DEF ToSet
    <2>6. op.outcome[Append(r, f)] = "ok"
      <3>1. items # <<>>
        BY <2>5 DEF ToSet
      <3> QED
        BY <2>4, <3>1 DEF ItemsOf
    <2>7. /\ DOMAIN items = DOMAIN op.items[f]
          /\ \A i \in DOMAIN items : items[i] = Append(Append(r, f), op.items[f][i])
      <3> HIDE DEF column, origin, rows
      <3> QED
        BY <1>5, <2>4, <2>5, <2>6, ItemsAre
    <2>8. \E i \in ToSet(op.items[f]) : p = Append(Append(r, f), i)
      BY <2>5, <2>7 DEF ToSet
    <2> QED
      BY <1>5, <2>5, <2>6, <2>8 DEF Under
  <1> QED
    BY <1>4, <1>5

LEMMA DescendTrail ==
    ASSUME IInv, Trail, NEW f \in Fields, NEW live, Begins(f, live), NEW after, Descend(f, live, after),
           op' = op, held' = held, response' = response
    PROVE  Trail'
  <1>1. HasChild(f)
    BY DEF Descend, Targets
  <1>2. PICK b, d, rows, new :
           /\ b \in Buckets /\ d \in Buckets \ {"root"} /\ d # b
           /\ b = Home(f) /\ d = Child(f) /\ rows = Targets(f, live) /\ new = NewBucket(rows, d, "steps")
    BY <1>1, Known, Tree
  <1> b \in Buckets /\ d \in Buckets
    BY <1>2
  <1>3. /\ field' = [field EXCEPT ![f] = [state |-> "child", live |-> live]]
        /\ bucket' = [bucket EXCEPT ![d] = new]
    BY <1>2 DEF Descend
  <1>4. new.phase = "steps" /\ new.rows = rows
    BY <1>2 DEF NewBucket
  <1>5. bucket'[d] = new /\ \A x \in Buckets : x # d => bucket'[x] = bucket[x]
    BY <1>3, Known
  <1>6. field'[f].state = "child" /\ \A g \in Fields : g # f => field'[g] = field[g]
    BY <1>3, Known
  <1>7. bucket[d].phase = "idle"
    BY <1>1, <1>2, Known DEF Below, Begins
  <1>8. \A w \in held' : Afoot(WaitHome(w))'
    <2>1. \A x \in Buckets : Paused(x) => Paused(x)'
      BY <1>5, <1>7 DEF Paused
    <2> QED
      BY <2>1, HeldStays
  <1>9. Buckets' = Buckets /\ (\A g : Home(g)' = Home(g)) /\ (\A g, r, p : Under(g, r, p)' <=> Under(g, r, p))
    BY OpStays DEF Under
  <1>10. op.owner[d] = f
    BY <1>1, <1>2, Known, Tree
  <1>11. ASSUME NEW x \in Buckets \ {"root"} PROVE Entered(x)'
    <2>1. PICK g, h : g = op.owner[x] /\ h = Home(g)
      OBVIOUS
    <2>2. g = op'.owner[x] /\ Home(g)' = h /\ g \in Fields /\ h \in Buckets
      BY <1>9, <2>1, Known, Tree
    <2>3. CASE x = d
      <3>1. g = f /\ h = b /\ bucket'[x].phase # "idle"
        BY <1>2, <1>4, <1>5, <1>10, <2>1, <2>3
      <3>2. \A p \in ToSet(rows) : \E r \in ToSet(bucket[b].rows) : Under(f, r, p)
        BY <1>1, <1>2, Known, TargetsUnder DEF Begins, Ready
      <3>3. \A p \in ToSet(bucket'[x].rows) : \E r \in ToSet(bucket'[h].rows) : Under(g, r, p)'
        BY <1>2, <1>4, <1>5, <1>9, <2>3, <3>1, <3>2
      <3> QED
        BY <1>6, <2>2, <3>1, <3>3 DEF Entered
    <2>4. CASE x # d
      <3>1. Entered(x) /\ bucket'[x] = bucket[x] /\ g # f
        BY <1>2, <1>5, <2>1, <2>4, Known, Tree DEF Trail
      <3>2. CASE h = d
        <4>1. bucket[x].phase \in {"idle", "done"}
          <5>1. g \in ToSet(op.fields[d])
            BY <2>1, <2>2, <3>2, Known, Tree
          <5>2. field[g].state = "todo"
            BY <1>7, <5>1, Known DEF Progress, ToSet
          <5> QED
            BY <2>1, <3>1, <5>2 DEF Entered
        <4>2. ToSet(bucket[x].rows) = {}
          <5>1. bucket[d].rows = <<>> /\ ToSet(<<>>) = {}
            BY <1>2, <1>7 DEF Trail, Entered, ToSet
          <5> QED
            BY <2>1, <3>1, <3>2, <5>1 DEF Entered
        <4> QED
          BY <2>2, <3>1, <4>1, <4>2 DEF Entered
      <3>3. CASE h # d
        <4>1. \A p \in ToSet(bucket'[x].rows) : \E r \in ToSet(bucket'[h].rows) : Under(g, r, p)'
          BY <1>5, <1>9, <2>1, <2>2, <3>1, <3>3 DEF Entered
        <4>2. /\ bucket'[x].phase \notin {"idle", "done"} => field'[g].state = "child"
              /\ bucket'[x].phase = "idle" => bucket'[x].rows = <<>>
          BY <1>6, <2>1, <2>2, <3>1 DEF Entered
        <4> QED
          BY <2>2, <4>1, <4>2 DEF Entered
      <3> QED
        BY <3>2, <3>3
    <2> QED
      BY <2>3, <2>4
  <1>12. response' # Null => bucket'["root"].phase = "done"
    <2>1. "root" \in Buckets /\ "root" # d
      BY <1>2, Known, Tree
    <2> QED
      BY <1>5, <2>1 DEF Trail
  <1> QED
    BY <1>8, <1>9, <1>11, <1>12 DEF Trail, Null

LEMMA SkipTrail ==
    ASSUME IInv, Trail, NEW f \in Fields, field[f].state = "todo", bucket[Home(f)].phase = "walk",
           field' = [field EXCEPT ![f].state = "done"], bucket' = [bucket EXCEPT ![Home(f)].cursor = @ + 1],
           op' = op, held' = held, response' = response
    PROVE  Trail'
  <1>1. PICK b, c, new : /\ b \in Buckets /\ b = Home(f) /\ c = bucket[b].cursor + 1
                         /\ new = [field[f] EXCEPT !.state = "done"]
    BY Known, Tree
  <1>2. field' = [field EXCEPT ![f] = new] /\ bucket' = [bucket EXCEPT ![b].cursor = c]
    BY <1>1, Known
  <1>3. Becomes(b, bucket[b].phase, c, bucket[b].outputs, bucket[b].bubble)
    BY <1>1, <1>2, Known, Moved
  <1>4. HasChild(f) => bucket[Child(f)].phase \in {"idle", "done"}
    BY Known DEF Below
  <1> QED
    BY <1>1, <1>2, <1>3, <1>4, FieldTrail

LEMMA CompleteFieldTrail ==
    ASSUME IInv, Trail, CompleteField
    PROVE  Trail'
  <1>1. /\ stack # <<>> /\ AtField(Top) /\ field[Current(Top)].state = "todo"
        /\ op' = op /\ held' = held /\ response' = response
    BY DEF CompleteField
  <1>2. PICK f, b, live :
           /\ f \in Fields /\ b \in Buckets
           /\ f = Current(Top) /\ b = Top /\ Home(f) = b /\ live = LiveRows(Top)
    BY <1>1, AtTurn, Running
  <1> f \in Fields /\ b \in Buckets
    BY <1>2
  <1>3. bucket[b].phase = "walk" /\ field[f].state = "todo"
    BY <1>1, <1>2, AtTurn
  <1>4. \/ /\ field' = [field EXCEPT ![f].state = "done"] /\ bucket' = [bucket EXCEPT ![b].cursor = @ + 1]
        \/ Suspend(f, live, "start") \/ Descend(f, live, "start") \/ Settle(f, live, "start")
    BY <1>2 DEF CompleteField
  <1>5. Begins(f, live)
    BY <1>1, <1>2, WalkBegins
  <1> QED
    BY <1>1, <1>2, <1>3, <1>4, <1>5, SkipTrail, SuspendTrail, DescendTrail, SettleTrail

\* The nested objects come back.
LEMMA ReturnTrail ==
    ASSUME IInv, Trail, NEW f \in Fields, field[f].state = "child", bucket[Child(f)].phase = "done",
           Turn(f, Passed(f)), Scatter(f, field[f].live, assemble(Child(f))),
           op' = op, held' = held, response' = response
    PROVE  Trail'
  <1>1. PICK live, children : live = field[f].live /\ children = assemble(Child(f))
    OBVIOUS
  <1>2. /\ Ready(f, live)
        /\ HasChild(f) => \A k \in DOMAIN Targets(f, live) : Alike(children[k], Synchronous[Targets(f, live)[k]])
    BY <1>1, Returned
  <1> QED
    BY <1>1, <1>2, ScatterTrail

LEMMA ResumeFieldTrail ==
    ASSUME IInv, Trail, NEW f \in Fields, ResumeField(f)
    PROVE  Trail'
  <1>1. PICK live, stage : live = field[f].live /\ stage = field[f].state
    OBVIOUS
  <1>2. /\ Suspend(f, live, stage) \/ Descend(f, live, stage) \/ Settle(f, live, stage)
        /\ op' = op /\ held' = held /\ response' = response
    BY <1>1 DEF ResumeField
  <1>3. Begins(f, live)
    BY <1>1, LoopBegins
  <1> QED
    BY <1>2, <1>3, SuspendTrail, DescendTrail, SettleTrail

LEMMA RunTrail ==
    ASSUME IInv, Trail, Run
    PROVE  Trail'
  <1>1. ASSUME ChildReturned PROVE Trail'
    <2>1. /\ stack # <<>> /\ AtField(Top) /\ field[Current(Top)].state = "child"
          /\ op' = op /\ held' = held /\ response' = response
      BY <1>1 DEF ChildReturned
    <2>2. PICK f \in Fields : f = Current(Top)
      BY <2>1, AtTurn
    <2>3. field[f].state = "child" /\ Turn(f, Passed(f))
      BY <2>1, <2>2, AtTurn
    <2>4. bucket[Child(f)].phase = "done" /\ Scatter(f, field[f].live, assemble(Child(f)))
      BY <1>1, <2>2 DEF ChildReturned
    <2> QED
      BY <2>1, <2>3, <2>4, ReturnTrail
  <1> QED
    BY <1>1, RunStepsTrail, CompleteFieldTrail, ChildSuspendedTrail, EndWalkTrail DEF Run

LEMMA AwaitTrail ==
    ASSUME IInv, Trail, NEW w \in waits \cup held, Acquire(w) \/ Release(w)
    PROVE  Trail'
  <1>1. op' = op /\ bucket' = bucket /\ field' = field /\ response' = response
    BY DEF Acquire, Release
  <1>2. ASSUME NEW v \in held' PROVE Afoot(WaitHome(v))
    <2>1. CASE v \in held
      BY <2>1 DEF Trail
    <2>2. CASE v \notin held
      <3>1. v = w /\ w \in waits /\ Started(WaitHome(w))
        BY <2>2 DEF Acquire, Release
      <3>2. WaitHome(w) \in Buckets
        BY <3>1, Known, AskedIn
      <3> QED
        BY <3>1, <3>2, Known, StartedIs
    <2> QED
      BY <2>1, <2>2
  <1>3. ASSUME NEW v \in held' PROVE Afoot(WaitHome(v))'
    <2>1. PICK b : b = WaitHome(v)
      OBVIOUS
    <2>2. Afoot(b)'
      BY <1>1, <1>2, <2>1, AfootStays DEF Paused
    <2>3. WaitHome(v)' = b
      BY <1>1, <2>1, OpStays DEF WaitHome, FieldOf
    <2> QED
      BY <2>2, <2>3
  <1>4. \A b \in Buckets \ {"root"} : Entered(b)'
    BY <1>1, OpStays DEF Trail, Entered, Under
  <1> QED
    BY <1>1, <1>3, <1>4, OpStays DEF Trail, Null

\* Nothing happens but the response.
LEMMA StillTrail ==
    ASSUME IInv, Trail, op' = op, bucket' = bucket, field' = field, held' = held,
           response' = response \/ bucket["root"].phase = "done"
    PROVE  Trail'
  <1>1. \A w \in held' : Afoot(WaitHome(w))'
    BY HeldStays DEF Paused
  <1>2. \A b \in Buckets \ {"root"} : Entered(b)'
    BY OpStays DEF Trail, Entered, Under
  <1> QED
    BY <1>1, <1>2, OpStays DEF Trail, Null

LEMMA TrailStarts ==
    ASSUME Init
    PROVE  Trail
  <1>1. ASSUME NEW b \in Buckets \ {"root"} PROVE bucket[b].phase = "idle" /\ bucket[b].rows = <<>>
    BY DEF Init, NewBucket
  <1>2. ToSet(<<>>) = {}
    BY DEF ToSet
  <1> QED
    BY <1>1, <1>2 DEF Trail, Entered, Init

LEMMA TrailKeeps ==
    ASSUME IInv, Trail, [Next]_vars
    PROVE  Trail'
  <1>1. ASSUME NEW f \in Fields, ResumeParent(f) PROVE Trail'
    BY <1>1, ReturnTrail DEF ResumeParent, Turn, Passed
  <1>2. ASSUME Respond PROVE Trail'
    BY <1>2, StillTrail DEF Respond
  <1>3. CASE Run
    BY <1>3, RunTrail
  <1>4. CASE Loop
    BY <1>1, <1>2, <1>4, ResumeStepsTrail, EndGatherTrail, ResumeFieldTrail DEF Loop
  <1>5. CASE Await
    BY <1>5, AwaitTrail DEF Await
  <1>6. CASE UNCHANGED vars
    BY <1>6, StillTrail DEF vars
  <1> QED
    BY <1>3, <1>4, <1>5, <1>6 DEF Next

-----------------------------------------------------------------------------
(* The places in the data.                                                 *)

\* The values on the way down to a path of length n.
IsDescent(at, data, p, n) == at = [k \in 0..n |-> IF k = 0 THEN data ELSE Into(at[k - 1], p, k)]

LEMMA DescentExists ==
    ASSUME NEW data, NEW p, NEW n \in Nat
    PROVE  \E at : IsDescent(at, data, p, n)
  <1> DEFINE good == {m \in Nat : \E at : IsDescent(at, data, p, m - 1)}
  <1>1. 1 \in good
    <2> DEFINE at == [k \in 0..0 |-> data]
    <2>1. at = [k \in 0..(1 - 1) |-> IF k = 0 THEN data ELSE Into(at[k - 1], p, k)]
      OBVIOUS
    <2> HIDE DEF at
    <2>2. IsDescent(at, data, p, 1 - 1)
      BY <2>1 DEF IsDescent
    <2> QED
      BY <2>2
  <1>2. ASSUME NEW m \in 1..(n + 1), m \in good PROVE m + 1 \in good
    <2>1. PICK at : IsDescent(at, data, p, m - 1)
      BY <1>2
    <2>2. DOMAIN at = 0..(m - 1) /\ \A k \in 0..(m - 1) : at[k] = IF k = 0 THEN data ELSE Into(at[k - 1], p, k)
      BY <2>1 DEF IsDescent
    <2> DEFINE more == [k \in 0..m |-> IF k = m THEN Into(at[m - 1], p, m) ELSE at[k]]
    <2>3. \A k \in 0..m : more[k] = IF k = 0 THEN data ELSE Into(more[k - 1], p, k)
      <3>1. more[0] = data
        BY <2>2
      <3>2. ASSUME NEW k \in 1..m PROVE more[k] = Into(more[k - 1], p, k)
        <4>1. k - 1 \in 0..(m - 1) /\ more[k - 1] = at[k - 1]
          OBVIOUS
        <4>2. CASE k = m
          BY <4>1, <4>2
        <4>3. CASE k # m
          <5>1. k \in 0..(m - 1) /\ k # 0
            BY <4>3
          <5> QED
            BY <2>2, <4>1, <4>3, <5>1
        <4> QED
          BY <4>2, <4>3
      <3> HIDE DEF more
      <3> QED
        BY <3>1, <3>2
    <2>4. DOMAIN more = 0..m /\ more = [k \in 0..m |-> more[k]]
      OBVIOUS
    <2> HIDE DEF more
    <2>5. IsDescent(more, data, p, (m + 1) - 1)
      <3>1. (m + 1) - 1 = m
        OBVIOUS
      <3>2. more = [k \in 0..m |-> IF k = 0 THEN data ELSE Into(more[k - 1], p, k)]
        BY <2>3, <2>4
      <3> QED
        BY <3>1, <3>2 DEF IsDescent
    <2> QED
      BY <2>5
  <1>3. n + 1 \in good
    <2> HIDE DEF good
    <2>1. n + 1 \in Nat /\ n + 1 \in 1..(n + 1)
      OBVIOUS
    <2>2. 1..(n + 1) \subseteq good
      BY <1>1, <1>2, <2>1, UpTo
    <2> QED
      BY <2>1, <2>2
  <1>4. (n + 1) - 1 = n
    OBVIOUS
  <1> QED
    BY <1>3, <1>4

\* Two descents are the same as far as the paths are.
LEMMA DescentsAgree ==
    ASSUME NEW data, NEW p, NEW q, NEW n \in Nat, NEW m \in Nat, n <= m, NEW at, NEW other,
           IsDescent(at, data, p, n), IsDescent(other, data, q, m),
           \A k \in 1..n : \A v : k > 1 \/ v = data => Into(v, p, k) = Into(v, q, k)
    PROVE  at[n] = other[n]
  <1>1. /\ \A k \in 0..n : at[k] = IF k = 0 THEN data ELSE Into(at[k - 1], p, k)
        /\ \A k \in 0..m : other[k] = IF k = 0 THEN data ELSE Into(other[k - 1], q, k)
    BY DEF IsDescent
  <1> DEFINE good == {k \in Nat : at[k - 1] = other[k - 1]}
  <1>2. 1 \in good
    BY <1>1
  <1>3. ASSUME NEW k \in 1..(n + 1), k \in good, k < n + 1 PROVE k + 1 \in good
    <2>1. k \in 1..n /\ k \in 0..n /\ k \in 0..m /\ k # 0 /\ (k + 1) - 1 = k
      BY <1>3
    <2>2. at[k] = Into(at[k - 1], p, k) /\ other[k] = Into(other[k - 1], q, k) /\ at[k - 1] = other[k - 1]
      BY <1>1, <1>3, <2>1
    <2>3. k > 1 \/ at[k - 1] = data
      BY <1>1, <2>1
    <2> QED
      BY <2>1, <2>2, <2>3
  <1>4. n + 1 \in good
    <2> HIDE DEF good
    <2>1. n + 1 \in Nat /\ n + 1 \in 1..(n + 1)
      OBVIOUS
    <2>2. 1..(n + 1) \subseteq good
      BY <1>2, <1>3, <2>1, UpTo
    <2> QED
      BY <2>1, <2>2
  <1>5. (n + 1) - 1 = n
    OBVIOUS
  <1> QED
    BY <1>4, <1>5

\* One step further.
LEMMA AtIs ==
    ASSUME NEW data, data.tag # "list"
    PROVE  /\ At(data, <<>>) = data
           /\ \A S : \A p \in Seq(S), x \in S :
                 At(data, Append(p, x)) = Into(At(data, p), Append(p, x), Len(p) + 1)
  <1>1. ASSUME NEW p, Len(p) \in Nat PROVE \E at : IsDescent(at, data, p, Len(p)) /\ At(data, p) = at[Len(p)]
    <2> DEFINE at == CHOOSE f : IsDescent(f, data, p, Len(p))
    <2>1. IsDescent(at, data, p, Len(p))
      BY <1>1, DescentExists
    <2>2. At(data, p) = at[Len(p)]
      BY DEF At, IsDescent
    <2> QED
      BY <2>1, <2>2
  <1>2. At(data, <<>>) = data
    <2>1. Len(<<>>) = 0
      OBVIOUS
    <2>2. PICK at : IsDescent(at, data, <<>>, 0) /\ At(data, <<>>) = at[0]
      BY <1>1, <2>1
    <2>3. at[0] = data
      BY <2>2 DEF IsDescent
    <2> QED
      BY <2>2, <2>3
  <1>3. ASSUME NEW S, NEW p \in Seq(S), NEW x \in S
        PROVE  At(data, Append(p, x)) = Into(At(data, p), Append(p, x), Len(p) + 1)
    <2>1. PICK n, q : n = Len(p) /\ q = Append(p, x)
      OBVIOUS
    <2>2. n \in Nat /\ n + 1 \in Nat /\ Len(q) = n + 1 /\ n <= n + 1 /\ \A i \in 1..n : q[i] = p[i]
      BY <2>1, AppendProperties
    <2>3. PICK at : IsDescent(at, data, p, n) /\ At(data, p) = at[n]
      BY <1>1, <2>1, <2>2
    <2>4. PICK other : IsDescent(other, data, q, n + 1) /\ At(data, q) = other[n + 1]
      BY <1>1, <2>2
    <2>5. ASSUME NEW k \in 1..n, NEW v, k > 1 \/ v = data PROVE Into(v, p, k) = Into(v, q, k)
      <3>1. q[k] = p[k] /\ (k > 1 => q[k - 1] = p[k - 1])
        <4>1. k > 1 => k - 1 \in 1..n
          BY <2>2
        <4> QED
          BY <2>2, <4>1
      <3>2. k > 1 \/ v.tag # "list"
        BY <2>5
      <3> QED
        BY <3>1, <3>2 DEF Into
    <2>6. at[n] = other[n]
      BY <2>2, <2>3, <2>4, <2>5, DescentsAgree
    <2>7. other[n + 1] = Into(other[n], q, n + 1)
      <3>1. n + 1 \in 0..(n + 1) /\ n + 1 # 0 /\ (n + 1) - 1 = n
        BY <2>2
      <3> QED
        BY <2>4, <3>1 DEF IsDescent
    <2> QED
      BY <2>1, <2>3, <2>4, <2>6, <2>7
  <1> QED
    BY <1>2, <1>3

LEMMA PrefixIs ==
    ASSUME NEW S, NEW p \in Seq(S)
    PROVE  /\ Prefix(p, p) /\ \A x \in S : Prefix(p, Append(p, x))
           /\ \A q, r \in Seq(S) : Prefix(q, r) /\ Prefix(r, p) => Prefix(q, p)
           /\ \A q \in Seq(S) : Prefix(q, p) => Len(q) <= Len(p)
  <1>1. \A n \in 0..Len(p) : SubSeq(p, 1, n) \in Seq(S) /\ Len(SubSeq(p, 1, n)) = n
                             /\ \A i \in 1..n : SubSeq(p, 1, n)[i] = p[i]
    OBVIOUS
  <1>2. Prefix(p, p)
    BY DEF Prefix
  <1>3. ASSUME NEW x \in S PROVE Prefix(p, Append(p, x))
    BY DEF Prefix
  <1>4. ASSUME NEW q \in Seq(S), NEW r \in Seq(S), Prefix(q, r), Prefix(r, p) PROVE Prefix(q, p)
    <2>1. /\ Len(q) <= Len(r) /\ Len(r) <= Len(p) /\ Len(q) \in Nat /\ Len(r) \in Nat /\ Len(p) \in Nat
          /\ SubSeq(r, 1, Len(q)) = q /\ SubSeq(p, 1, Len(r)) = r
      BY <1>4 DEF Prefix
    <2>2. SubSeq(SubSeq(p, 1, Len(r)), 1, Len(q)) = SubSeq(p, 1, Len(q))
      BY <2>1
    <2> QED
      BY <2>1, <2>2 DEF Prefix
  <1>5. \A q \in Seq(S) : Prefix(q, p) => Len(q) <= Len(p)
    BY DEF Prefix
  <1> QED
    BY <1>2, <1>3, <1>4, <1>5

-----------------------------------------------------------------------------
(* What the data has of an object.                                         *)

Shown(p) == ~Bubbles(Synchronous[p]) /\ At(SynchronousData, p) = Synchronous[p]

\* The data has a null at the path or above it.
Hidden(p) == \E q \in Paths \cup {<<>>} : Prefix(q, p) /\ At(SynchronousData, q) = Null

\* Where the values of a field are.
LEMMA Beneath ==
    ASSUME op \in Operations, NEW f \in Fields, NEW r \in Rows(Home(f)), NEW p, Under(f, r, p)
    PROVE  /\ r \in Seq(Fields \cup Labels) /\ p \in Seq(Fields \cup Labels) /\ p \in Paths
           /\ Append(r, f) \in Paths /\ Append(r, f) \in Seq(Fields \cup Labels)
           /\ Prefix(r, Append(r, f)) /\ Prefix(Append(r, f), p) /\ Prefix(r, p)
  <1> DEFINE S == Fields \cup Labels
             q == Append(r, f)
  <1>1. Home(f) \in Buckets /\ f \in ToSet(op.fields[Home(f)])
    BY Tree
  <1>2. q \in Paths /\ q \in Seq(S)
    BY <1>1, Written, PathFacts
  <1>3. r \in Seq(S) /\ f \in S
    BY RowFacts DEF Rows
  <1>4. p \in Paths /\ Prefix(q, p)
    <2>1. CASE f \in op.list
      <3>1. PICK i \in ToSet(op.items[f]) : p = Append(q, i)
        BY <2>1 DEF Under
      <3>2. i \in S /\ p \in Paths
        BY <1>1, <2>1, <3>1, ItemFacts
      <3> HIDE DEF q, S
      <3> QED
        BY <1>2, <3>1, <3>2, PrefixIs
    <2>2. CASE f \notin op.list
      <3>1. p = q
        BY <2>2 DEF Under
      <3> HIDE DEF q, S
      <3> QED
        BY <1>2, <3>1, PrefixIs
    <2> QED
      BY <2>1, <2>2
  <1>5. p \in Seq(S)
    BY <1>4, PathFacts
  <1> HIDE DEF S
  <1>6. Prefix(r, q)
    BY <1>3, PrefixIs
  <1>7. Prefix(r, p)
    <2> HIDE DEF q
    <2> QED
      BY <1>2, <1>3, <1>4, <1>5, <1>6, PrefixIs
  <1> QED
    BY <1>2, <1>3, <1>4, <1>5, <1>6, <1>7 DEF S

LEMMA HiddenBelow ==
    ASSUME op \in Operations, NEW r \in Seq(Fields \cup Labels), NEW p \in Seq(Fields \cup Labels),
           Hidden(r), Prefix(r, p)
    PROVE  Hidden(p)
  <1>1. PICK q \in Paths \cup {<<>>} : Prefix(q, r) /\ At(SynchronousData, q) = Null
    BY DEF Hidden
  <1>2. q \in Seq(Fields \cup Labels)
    <2>1. <<>> \in Seq(Fields \cup Labels)
      OBVIOUS
    <2> QED
      BY <2>1, PathFacts
  <1>3. Prefix(q, p)
    BY <1>1, <1>2, PrefixIs
  <1> QED
    BY <1>1, <1>3 DEF Hidden

\* The synchronous values of objects, and what their data is.
LEMMA ObjectIs ==
    ASSUME op \in Operations, NEW p \in Objects
    PROVE  LET values == [f \in ToSet(op.fields[BucketOf(p)]) |-> FieldValue(Synchronous, f, Append(p, f))] IN
           /\ Bubbles(Synchronous[p]) => Absorb(Synchronous[p]) = Null
           /\ ~Bubbles(Synchronous[p]) =>
                 /\ Synchronous[p] = Object(values) /\ Synchronous[p] # Null
                 /\ \A f \in DOMAIN values : ~Bubbles(values[f])
           /\ SynchronousData.tag # "list"
  <1> DEFINE Values(o) == [f \in ToSet(op.fields[BucketOf(o)]) |-> FieldValue(Synchronous, f, Append(o, f))]
  <1>1. ASSUME NEW o \in Objects
        PROVE  Synchronous[o] = IF \E f \in DOMAIN Values(o) : Bubbles(Values(o)[f]) THEN Broken ELSE Object(Values(o))
    BY SynchronousIs DEF ObjectValue
  <1> HIDE DEF Values
  <1>2. SynchronousData.tag # "list"
    <2>1. Broken.tag # "list" /\ Null.tag # "list" /\ \A x : Object(x).tag # "list"
      BY DEF Broken, Null, Object
    <2>2. <<>> \in Objects
      BY RowFacts
    <2>3. Synchronous[<<>>].tag # "list"
      BY <1>1, <2>1, <2>2
    <2> QED
      BY <2>1, <2>3 DEF SynchronousData, Absorb
  <1>3. /\ Bubbles(Synchronous[p]) => Absorb(Synchronous[p]) = Null
        /\ ~Bubbles(Synchronous[p]) => /\ Synchronous[p] = Object(Values(p)) /\ Synchronous[p] # Null
                                       /\ \A f \in DOMAIN Values(p) : ~Bubbles(Values(p)[f])
    BY <1>1, Tags DEF Absorb
  <1> QED
    BY <1>2, <1>3 DEF Values

\* The field of an object that the data shows.
LEMMA FieldShown ==
    ASSUME op \in Operations, NEW f \in Fields, NEW r \in Rows(Home(f)), Shown(r)
    PROVE  /\ ~Bubbles(FieldValue(Synchronous, f, Append(r, f)))
           /\ At(SynchronousData, Append(r, f)) = FieldValue(Synchronous, f, Append(r, f))
  <1>1. r \in Objects /\ BucketOf(r) = Home(f) /\ r \in Seq(Fields \cup Labels) /\ f \in ToSet(op.fields[Home(f)])
    BY RowFacts, Tree DEF Rows
  <1> DEFINE values == [g \in ToSet(op.fields[BucketOf(r)]) |-> FieldValue(Synchronous, g, Append(r, g))]
  <1>2. /\ Synchronous[r] = Object(values) /\ \A g \in DOMAIN values : ~Bubbles(values[g])
        /\ SynchronousData.tag # "list"
    BY <1>1, ObjectIs DEF Shown
  <1>3. f \in DOMAIN values /\ values[f] = FieldValue(Synchronous, f, Append(r, f))
    BY <1>1
  <1> HIDE DEF values
  <1>4. At(SynchronousData, Append(r, f)) = Into(Object(values), Append(r, f), Len(r) + 1)
    BY <1>1, <1>2, AtIs DEF Shown
  <1>5. Append(r, f)[Len(r) + 1] = f
    BY <1>1, AppendProperties
  <1>6. Into(Object(values), Append(r, f), Len(r) + 1) = values[f]
    <2>1. Object(values).tag = "object" /\ Object(values).fields = values
      BY DEF Object
    <2> QED
      BY <1>5, <2>1 DEF Into
  <1> QED
    BY <1>2, <1>3, <1>4, <1>6

\* The items of a list that the data shows.
LEMMA ItemShown ==
    ASSUME op \in Operations, NEW f \in Fields, f \in op.list,
           NEW q \in Seq(Fields \cup Labels), q # <<>>, q[Len(q)] = f,
           NEW n \in DOMAIN op.items[f], NEW items, At(SynchronousData, q) = List(items)
    PROVE  At(SynchronousData, Append(q, op.items[f][n])) = items[n]
  <1>1. PICK i : i = op.items[f][n]
    OBVIOUS
  <1>2. i \in Fields \cup Labels /\ IsInjective(op.items[f])
    BY <1>1, PathFacts
  <1>3. SynchronousData.tag # "list"
    BY ObjectIs, RowFacts
  <1>4. At(SynchronousData, Append(q, i)) = Into(List(items), Append(q, i), Len(q) + 1)
    BY <1>2, <1>3, AtIs
  <1>5. /\ Append(q, i)[Len(q) + 1] = i /\ Append(q, i)[(Len(q) + 1) - 1] = f
    <2>1. Len(Append(q, i)) = Len(q) + 1
      BY <1>2, Longer
    <2> QED
      BY <1>2, <2>1, Longer
  <1>6. (CHOOSE m \in DOMAIN op.items[f] : op.items[f][m] = i) = n
    BY <1>1, <1>2 DEF IsInjective
  <1>7. Into(List(items), Append(q, i), Len(q) + 1) = items[n]
    <2>1. List(items).tag = "list" /\ List(items).items = items
      BY DEF List
    <2> QED
      BY <1>5, <1>6, <2>1 DEF Into
  <1> QED
    BY <1>1, <1>4, <1>7

\* An object that the data does not show is below a null.
LEMMA ShownBelow ==
    ASSUME op \in Operations, NEW f \in Fields, HasChild(f), NEW r \in Rows(Home(f)), NEW p \in Rows(Child(f)),
           Under(f, r, p), Shown(r)
    PROVE  Shown(p) \/ Hidden(p)
  <1>1. PICK q : q = Append(r, f)
    OBVIOUS
  <1>2. PICK v : v = FieldValue(Synchronous, f, q)
    OBVIOUS
  <1>3. ~Bubbles(v) /\ At(SynchronousData, q) = v
    BY <1>1, <1>2, FieldShown
  <1>4. /\ q \in Paths /\ q \in Seq(Fields \cup Labels) /\ Prefix(q, p) /\ op.outcome[q] = "ok"
        /\ p \in Paths /\ p \in Seq(Fields \cup Labels) /\ Prefix(p, p)
    BY <1>1, Beneath, PrefixIs DEF Under
  <1>5. /\ v = Null => Hidden(p)
        /\ At(SynchronousData, p) = Null => Hidden(p)
    BY <1>3, <1>4 DEF Hidden
  <1>6. op.outcome[p] = "ok" /\ SingleValue(Synchronous, f, p) = Synchronous[p]
    <2>1. p \in Objects /\ p # <<>>
      BY <1>4, PathFacts DEF Rows
    <2> QED
      BY <2>1 DEF Objects, SingleValue
  <1>7. Bubbles(Synchronous[p]) => Absorb(Synchronous[p]) = Null
    BY ObjectIs DEF Rows
  <1>8. CASE f \notin op.list
    <2>1. p = q
      BY <1>1, <1>8 DEF Under
    <2>2. v = IF f \in op.nonNull THEN Required(Synchronous[p]) ELSE Absorb(Synchronous[p])
      BY <1>2, <1>6, <1>8, <2>1 DEF FieldValue
    <2>3. v = Null \/ (~Bubbles(Synchronous[p]) /\ v = Synchronous[p])
      BY <1>3, <1>7, <2>2, Tags DEF Required, Absorb
    <2> QED
      BY <1>3, <1>5, <2>1, <2>3 DEF Shown
  <1>9. CASE f \in op.list
    <2>1. PICK i \in ToSet(op.items[f]) : p = Append(q, i)
      BY <1>1, <1>9 DEF Under
    <2>2. PICK n \in DOMAIN op.items[f] : i = op.items[f][n]
      BY <2>1 DEF ToSet
    <2> DEFINE items == [m \in DOMAIN op.items[f] |-> ItemValue(Synchronous, f, Append(q, op.items[f][m]))]
               all == ListValue(Synchronous, f, q)
    <2>3. items[n] = IF f \in op.itemNonNull THEN Required(Synchronous[p]) ELSE Absorb(Synchronous[p])
      BY <1>6, <2>1, <2>2 DEF ItemValue
    <2>4. all = IF \E m \in DOMAIN items : Bubbles(items[m]) THEN Broken ELSE List(items)
      BY DEF ListValue
    <2>5. n \in DOMAIN items
      OBVIOUS
    <2>6. v = IF f \in op.nonNull THEN Required(all) ELSE Absorb(all)
      BY <1>2, <1>4, <1>9 DEF FieldValue
    <2> HIDE DEF items, all
    <2>7. v = Null \/ (v = List(items) /\ ~Bubbles(items[n]))
      BY <1>3, <2>4, <2>5, <2>6, Tags DEF Required, Absorb
    <2>8. CASE v = List(items) /\ ~Bubbles(items[n])
      <3>1. q # <<>> /\ q[Len(q)] = f
        BY <1>1, RowFacts, Longer DEF Rows
      <3>2. At(SynchronousData, p) = items[n]
        <4> f \in op.list /\ q \in Seq(Fields \cup Labels)
          BY <1>4, <1>9
        <4>1. PICK whole : whole = items
          OBVIOUS
        <4>2. At(SynchronousData, q) = List(whole) /\ p = Append(q, op.items[f][n])
          BY <1>3, <2>1, <2>2, <2>8, <4>1
        <4>3. At(SynchronousData, Append(q, op.items[f][n])) = whole[n]
          BY ONLY op \in Operations, f \in Fields, f \in op.list, n \in DOMAIN op.items[f],
                  q \in Seq(Fields \cup Labels), <3>1, <4>2, ItemShown
        <4> QED
          BY <4>1, <4>2, <4>3
      <3>3. items[n] = Null \/ (~Bubbles(Synchronous[p]) /\ items[n] = Synchronous[p])
        BY <1>7, <2>3, <2>8, Tags DEF Required, Absorb
      <3> QED
        BY <1>5, <3>2, <3>3 DEF Shown
    <2> QED
      BY <1>5, <2>7, <2>8
  <1> QED
    BY <1>8, <1>9

\* Every object that was taken up is in the data, or below a null of it.
LEMMA Seen ==
    ASSUME IInv, Trail, NEW b \in Buckets, NEW p \in ToSet(bucket[b].rows)
    PROVE  Shown(p) \/ Hidden(p)
  <1> DEFINE Fine(c) == \A r \in ToSet(bucket[c].rows) : Shown(r) \/ Hidden(r)
             T == {c \in Buckets : ~Fine(c)}
  <1>1. Fine("root")
    <2>1. ToSet(bucket["root"].rows) = {<<>>}
      BY Known DEF ToSet
    <2>2. <<>> \in Objects /\ SynchronousData.tag # "list"
      BY Known, RowFacts, ObjectIs
    <2>3. At(SynchronousData, <<>>) = SynchronousData
      BY <2>2, AtIs
    <2>4. CASE Bubbles(Synchronous[<<>>])
      <3>1. At(SynchronousData, <<>>) = Null
        BY <2>2, <2>3, <2>4, Known, ObjectIs DEF SynchronousData
      <3>2. Prefix(<<>>, <<>>)
        <4>1. <<>> \in Seq({})
          OBVIOUS
        <4> QED
          BY <4>1, PrefixIs
      <3> QED
        BY <2>1, <3>1, <3>2 DEF Hidden
    <2>5. CASE ~Bubbles(Synchronous[<<>>])
      BY <2>1, <2>3, <2>5 DEF SynchronousData, Absorb, Shown
    <2> QED
      BY <2>4, <2>5
  <1>2. ASSUME NEW c \in Buckets \ {"root"}, Fine(Home(op.owner[c])) PROVE Fine(c)
    <2>1. PICK f : f = op.owner[c]
      OBVIOUS
    <2>2. f \in Fields /\ HasChild(f) /\ Child(f) = c /\ Home(f) \in Buckets
      BY <2>1, Known, Tree
    <2>3. ASSUME NEW r \in ToSet(bucket[c].rows) PROVE Shown(r) \/ Hidden(r)
      <3>1. PICK o \in ToSet(bucket[Home(f)].rows) : Under(f, o, r)
        BY <2>1 DEF Trail, Entered
      <3>2. o \in Rows(Home(f)) /\ r \in Rows(Child(f))
        BY <2>2, Known DEF Shaped, ToSet
      <3>3. Shown(o) \/ Hidden(o)
        BY <1>2, <2>1
      <3>4. Hidden(o) => Hidden(r)
        BY <2>2, <3>1, <3>2, Known, Beneath, HiddenBelow
      <3> QED
        BY <2>2, <3>1, <3>2, <3>3, <3>4, Known, ShownBelow
    <2> QED
      BY <2>3
  <1> HIDE DEF Fine
  <1>3. T \subseteq Buckets /\ Upward(T) /\ "root" \notin T
    BY <1>1, <1>2, Known, Tree DEF Upward
  <1> HIDE DEF T
  <1>4. T = {}
    BY <1>3, Known, RootIn
  <1> QED
    BY <1>4 DEF T, Fine

\* Once the root is done, a bucket that goes on or has fields pending has only
\* objects that the data does not show.
LEMMA Abandoned ==
    ASSUME IInv, Trail, bucket["root"].phase = "done",
           NEW b \in Buckets, bucket[b].phase \notin {"idle", "done"} \/ Pending(b) # {},
           NEW p \in ToSet(bucket[b].rows)
    PROVE  Hidden(p)
  <1> DEFINE Left(c) == bucket[c].phase \notin {"idle", "done"} \/ Pending(c) # {}
             Dead(c) == \A r \in ToSet(bucket[c].rows) : Hidden(r)
             T == {c \in Buckets : Left(c) /\ ~Dead(c)}
  <1>1. ASSUME NEW c \in Buckets, bucket[c].phase \in {"idle", "done"}, Left(c) PROVE Dead(c)
    <2>1. bucket[c].phase # "idle"
      <3>1. bucket[c].phase = "idle" => \A f \in ToSet(op.fields[c]) : field[f].state = "todo"
        BY Known DEF Progress, ToSet
      <3> QED
        BY <1>1, <3>1 DEF Pending
    <2>2. \A i \in DOMAIN bucket[c].rows : ~IsLive(c, i)
      BY <1>1, <2>1, Known DEF Progress
    <2>3. \A i \in DOMAIN bucket[c].rows : Synchronous[bucket[c].rows[i]] = Broken
      BY <2>2, Known DEF Right
    <2>4. ASSUME NEW r \in ToSet(bucket[c].rows) PROVE Hidden(r)
      <3>1. Bubbles(Synchronous[r])
        BY <2>3, Tags DEF ToSet
      <3> QED
        BY <3>1, Seen DEF Shown
    <2> QED
      BY <2>4
  <1>2. ASSUME NEW c \in Buckets \ {"root"}, bucket[c].phase \notin {"idle", "done"}, Dead(Home(op.owner[c]))
        PROVE  Dead(c)
    <2>1. PICK f : f = op.owner[c]
      OBVIOUS
    <2>2. f \in Fields /\ HasChild(f) /\ Child(f) = c /\ Home(f) \in Buckets
      BY <2>1, Known, Tree
    <2>3. ASSUME NEW r \in ToSet(bucket[c].rows) PROVE Hidden(r)
      <3>1. PICK o \in ToSet(bucket[Home(f)].rows) : Under(f, o, r)
        BY <2>1 DEF Trail, Entered
      <3>2. o \in Rows(Home(f)) /\ Hidden(o)
        BY <1>2, <2>1, <2>2, Known DEF Shaped, ToSet
      <3> QED
        BY <2>2, <3>1, <3>2, Known, Beneath, HiddenBelow
    <2> QED
      BY <2>3
  <1>3. ASSUME NEW c \in Buckets \ {"root"}, bucket[c].phase \notin {"idle", "done"} PROVE Left(Home(op.owner[c]))
    <2>1. field[op.owner[c]].state = "child"
      BY <1>3 DEF Trail, Entered
    <2>2. op.owner[c] \in ToSet(op.fields[Home(op.owner[c])])
      BY Known, Tree
    <2> QED
      BY <2>1, <2>2 DEF Pending
  <1> HIDE DEF Dead, Left
  <1>4. ASSUME NEW c \in T \ {"root"} PROVE Home(op.owner[c]) \in T
    <2>1. bucket[c].phase \notin {"idle", "done"}
      BY <1>1
    <2>2. Home(op.owner[c]) \in Buckets
      BY Known, Tree
    <2> QED
      BY <1>2, <1>3, <2>1, <2>2
  <1>5. T \subseteq Buckets /\ Upward(T) /\ "root" \notin T
    BY <1>1, <1>4 DEF Upward
  <1>6. b \notin T
    <2> HIDE DEF T
    <2> QED
      BY <1>5, Known, RootIn
  <1> QED
    BY <1>6 DEF Dead, Left

LEMMA NothingHeld ==
    ASSUME IInv, Trail, response # Null
    PROVE  held = {}
  <1>1. ASSUME NEW w \in held PROVE FALSE
    <2>1. PICK T \in SUBSET Buckets : WaitHome(w) \in T /\ Upward(T) /\ \A c \in T : Paused(c)
      BY DEF Trail, Afoot
    <2>2. Paused("root")
      BY <2>1, Known, RootIn
    <2> QED
      BY <2>2 DEF Trail, Paused
  <1> QED
    BY <1>1

\* What a field awaits lies below the rows of its bucket.
LEMMA AwaitedUnder ==
    ASSUME op \in Operations, NEW f \in Fields, Shaped(Home(f)), Completing(f), NEW w, Awaits(f, w)
    PROVE  \E r \in ToSet(bucket[Home(f)].rows) : r \in Rows(Home(f)) /\ Prefix(r, w) /\ Len(r) < Len(w)
  <1> DEFINE S == Fields \cup Labels
             rows == bucket[Home(f)].rows
             live == field[f].live
  <1>1. Settled(f, live)
    BY DEF Completing, Settled
  <1>2. /\ DOMAIN ValuePaths(f, live) = DOMAIN live
        /\ \A j \in DOMAIN live : /\ live[j] \in DOMAIN rows /\ rows[live[j]] \in Rows(Home(f))
                                  /\ ValuePaths(f, live)[j] = Append(rows[live[j]], f)
    BY <1>1, ValuesAre DEF ValuePaths
  <1>3. \A r \in Rows(Home(f)) : r \in Seq(S)
    BY RowFacts DEF Rows
  <1>4. f \in S /\ \A i \in Labels : i \in S
    OBVIOUS
  <1>5. \E j \in DOMAIN live : w = ValuePaths(f, live)[j] \/ \E i \in Labels : w = Append(ValuePaths(f, live)[j], i)
    <2>1. ASSUME w \in ToSet(ValuePaths(f, live)) PROVE \E j \in DOMAIN live : w = ValuePaths(f, live)[j]
      BY <1>2, <2>1 DEF ToSet
    <2>2. ASSUME w \in ToSet(Column(f, live)), f \in op.list
          PROVE  \E j \in DOMAIN live : \E i \in Labels : w = Append(ValuePaths(f, live)[j], i)
      <3>1. PICK parts : parts = Parts(f, live)
        OBVIOUS
      <3>2. /\ parts \in Seq(Seq(Paths)) /\ DOMAIN parts = DOMAIN live /\ Column(f, live) = FlattenSeq(parts)
            /\ \A j \in DOMAIN live : \A x \in ToSet(parts[j]) : \E i \in Labels : x = Append(ValuePaths(f, live)[j], i)
        BY <1>1, <2>2, <3>1, PartsAre
      <3>3. PICK j \in DOMAIN live : w \in ToSet(parts[j])
        BY <2>2, <3>2, Flattened
      <3> QED
        BY <3>2, <3>3
    <2>3. f \notin op.list => Column(f, live) = ValuePaths(f, live)
      BY DEF Column
    <2> QED
      BY <2>1, <2>2, <2>3 DEF Awaits
  <1> HIDE DEF S
  <1>6. PICK j \in DOMAIN live : w = ValuePaths(f, live)[j] \/ \E i \in Labels : w = Append(ValuePaths(f, live)[j], i)
    BY <1>5
  <1>7. PICK r, q : r = rows[live[j]] /\ q = Append(r, f)
    OBVIOUS
  <1>8. /\ r \in ToSet(rows) /\ r \in Rows(Home(f)) /\ r \in Seq(S)
        /\ w = q \/ \E i \in S : w = Append(q, i)
    BY <1>2, <1>3, <1>4, <1>6, <1>7 DEF ToSet
  <1>9. q \in Seq(S) /\ Len(q) = Len(r) + 1 /\ Len(r) \in Nat /\ Prefix(r, q)
    <2>1. q \in Seq(S) /\ Len(q) = Len(r) + 1 /\ Len(r) \in Nat
      <3>1. f \in S /\ r \in Seq(S) /\ q = Append(r, f)
        BY <1>4, <1>7, <1>8
      <3> QED
        BY ONLY <3>1, Longer
    <2>2. Prefix(r, q)
      BY <1>4, <1>7, <1>8, PrefixIs
    <2> QED
      BY <2>1, <2>2
  <1>10. Prefix(r, w) /\ Len(r) < Len(w)
    <2>1. CASE w = q
      BY <1>9, <2>1
    <2>2. CASE \E i \in S : w = Append(q, i)
      <3>1. PICK i \in S : w = Append(q, i)
        BY <2>2
      <3>2. w \in Seq(S) /\ Len(w) = Len(q) + 1 /\ Prefix(q, w)
        BY <1>9, <3>1, Longer, PrefixIs
      <3>3. Prefix(r, w)
        BY <1>8, <1>9, <3>2, PrefixIs
      <3> QED
        BY <1>9, <3>2, <3>3
    <2> QED
      BY <1>8, <2>1, <2>2
  <1> QED
    BY <1>8, <1>10

\* Who still waits for a permit waits for an object that the data does not show.
LEMMA WaitsForNobody ==
    ASSUME IInv, Trail, response # Null, NEW w \in waits,
           NEW p \in IF w[1] = "load" THEN ToSet(bucket[Home(w[2])].rows) ELSE {w}
    PROVE  \E q \in Paths \cup {<<>>} : Prefix(q, p) /\ q # w /\ At(SynchronousData, q) = Null
  <1>1. PICK b : b = WaitHome(w)
    OBVIOUS
  <1>2. b \in Buckets /\ bucket["root"].phase = "done" /\ Asked(w)
    BY <1>1, Known, AskedIn DEF Trail
  <1>3. CASE bucket[b].phase = "loading" /\ w = LoadOf(Current(b))
    <2>1. w[1] = "load" /\ w[2] = Current(b)
      BY <1>3 DEF LoadOf
    <2>2. p \in ToSet(bucket[b].rows)
      BY <1>1, <2>1 DEF WaitHome
    <2>3. Hidden(p)
      BY <1>2, <1>3, <2>2, Abandoned
    <2>4. w \notin Paths \cup {<<>>}
      BY <2>1, <1>3, Known, PathFacts DEF LoadOf
    <2> QED
      BY <2>3, <2>4 DEF Hidden
  <1>4. CASE \E f \in ToSet(op.fields[b]) :
                /\ field[f].state \in {"values", "items"} /\ Awaits(f, w)
                /\ w \in Paths /\ FieldOf(w) = f
    <2>1. PICK f \in ToSet(op.fields[b]) : field[f].state \in {"values", "items"} /\ Awaits(f, w) /\ w \in Paths
      BY <1>4
    <2>2. p = w /\ f \in Fields /\ Home(f) = b
      BY <1>2, <2>1, Known, Tree, PathFacts
    <2>3. Pending(b) # {}
      BY <2>1 DEF Pending
    <2>4. PICK r \in ToSet(bucket[b].rows) : r \in Rows(b) /\ Prefix(r, w) /\ Len(r) < Len(w)
      <3>1. Shaped(Home(f)) /\ Completing(f)
        BY <2>2, Known, Tree
      <3>2. \E r \in ToSet(bucket[Home(f)].rows) : r \in Rows(Home(f)) /\ Prefix(r, w) /\ Len(r) < Len(w)
        BY <2>1, <2>2, <3>1, Known, AwaitedUnder
      <3> QED
        BY <2>2, <3>2
    <2>5. PICK q \in Paths \cup {<<>>} : Prefix(q, r) /\ At(SynchronousData, q) = Null
      BY <1>2, <2>3, Abandoned DEF Hidden
    <2>6. q \in Seq(Fields \cup Labels) /\ r \in Seq(Fields \cup Labels) /\ w \in Seq(Fields \cup Labels)
      <3>1. <<>> \in Seq(Fields \cup Labels)
        OBVIOUS
      <3> QED
        BY <2>1, <2>4, <3>1, Known, PathFacts, RowFacts DEF Rows
    <2>7. Prefix(q, w) /\ Len(q) <= Len(r)
      BY <2>4, <2>5, <2>6, PrefixIs
    <2>8. q # w
      BY <2>4, <2>6, <2>7
    <2> QED
      BY <2>2, <2>5, <2>7, <2>8
  <1> QED
    BY <1>1, <1>2, <1>3, <1>4, AskedIn

LEMMA TrailInvariant == Spec => [](IInv /\ Trail)
  <1>1. Init => IInv /\ Trail
    BY Starts, TrailStarts
  <1>2. (IInv /\ Trail) /\ [Next]_vars => (IInv /\ Trail)'
    BY Keeps, TrailKeeps
  <1> QED
    BY <1>1, <1>2, PTL DEF Spec

\* When the response is made no permit is held, and whatever was never awaited
\* lies below a null of the data: what a bucket abandons could only have been
\* written into dead parents.
THEOREM AbandonsTheDead == Spec => []OnlyTheDeadAreAbandoned
  <1>1. ASSUME IInv, Trail PROVE OnlyTheDeadAreAbandoned
    <2>1. response # Null => response.data = SynchronousData
      BY <1>1 DEF IInv, DataIsSynchronous
    <2> QED
      BY <1>1, <2>1, NothingHeld, WaitsForNobody DEF OnlyTheDeadAreAbandoned
  <1> QED
    BY <1>1, TrailInvariant, PTL

-----------------------------------------------------------------------------
(* Who is to blame for a null.                                             *)

\* Field f of object r, or an item of it, raised error e.
Fault(f, r, e) ==
    \/ e = Append(r, f) /\ (op.outcome[e] = "error" \/ (op.outcome[e] = "null" /\ f \in op.nonNull))
    \/ /\ f \in op.list /\ Under(f, r, e)
       /\ op.outcome[e] = "error" \/ (op.outcome[e] = "null" /\ f \in op.itemNonNull)

\* The value of a field, and the items of its list.
Place(f, r, x) == x = Append(r, f) \/ Under(f, r, x)

\* The nested object at x bubbled with error e.
Carried(f, x, e) ==
    /\ HasChild(f) /\ op.outcome[x] = "ok"
    /\ \E j \in DOMAIN bucket[Child(f)].rows :
          bucket[Child(f)].rows[j] = x /\ ~IsLive(Child(f), j) /\ e = bucket[Child(f)].bubble[j].error

Caused(f, r, x, e) == (e = x /\ Fault(f, r, e)) \/ Carried(f, x, e)

\* The data has a null at q, the field's value or an item of it.
Nulled(f, r, q) ==
    \/ q = Append(r, f) /\ Value(f, r) = Null
    \/ \E items : /\ f \in op.list /\ op.outcome[Append(r, f)] = "ok" /\ Value(f, r) = List(items)
                  /\ \E n \in DOMAIN op.items[f] :
                        q = Append(Append(r, f), op.items[f][n]) /\ items[n] = Null

\* What is below a nested object's path that bubbled has that path.
Nested(f) ==
    HasChild(f) => \A j \in DOMAIN bucket[Child(f)].rows :
                      ~IsLive(Child(f), j) =>
                         /\ bucket[Child(f)].bubble[j].error \in Paths
                         /\ Prefix(bucket[Child(f)].rows[j], bucket[Child(f)].bubble[j].error)

\* The nested objects' values that a completion is given.
Given(f, live, children) ==
    HasChild(f) /\ Targets(f, live) # <<>> =>
        bucket[Child(f)].rows = Targets(f, live) /\ children = assemble(Child(f))

\* An innermost value that bubbles, or that is null.
LEMMA ColumnBlames ==
    ASSUME op \in Operations, NEW f \in Fields, Shaped(Home(f)), NEW live, Settled(f, live),
           NEW children, Given(f, live, children),
           NEW values, values = CompleteColumn(f, Column(f, live), children),
           NEW i \in DOMAIN Column(f, live), NEW x, x = Column(f, live)[i]
    PROVE  /\ Bubbles(values[i]) => \/ op.outcome[x] = "error" /\ values[i].error = x
                                    \/ Carried(f, x, values[i].error)
           /\ values[i] = Null => op.outcome[x] = "null"
           /\ op.outcome[x] \in {"error", "null"} => Bubbles(values[i]) \/ values[i] = Null
  <1> DEFINE column == Column(f, live)
             origin == KeepOrigin(column)
             Kept(j) == children[CHOOSE k \in DOMAIN origin : origin[k] = j]
  <1>1. values[i] = CASE op.outcome[column[i]] = "error" -> Bubble(column[i])
                      [] op.outcome[column[i]] = "null" -> Null
                      [] op.outcome[column[i]] = "ok" /\ ~HasChild(f) -> Leaf
                      [] op.outcome[column[i]] = "ok" /\ HasChild(f) -> Kept(i)
    BY DEF CompleteColumn
  <1>2. column \in Seq(Paths)
    BY ColumnIs
  <1>3. x \in Paths /\ op.outcome[x] \in {"ok", "null", "error"} /\ x = column[i] /\ i \in DOMAIN column
    BY <1>2, PathFacts
  <1>4. CASE op.outcome[x] = "error"
    BY <1>1, <1>4, Tags
  <1>5. CASE op.outcome[x] = "null"
    BY <1>1, <1>5, Tags
  <1>6. CASE op.outcome[x] = "ok" /\ ~HasChild(f)
    BY <1>1, <1>6, Tags
  <1>7. CASE op.outcome[x] = "ok" /\ HasChild(f)
    <2>1. values[i] = Kept(i)
      BY <1>1, <1>7
    <2>2. /\ DOMAIN Targets(f, live) = DOMAIN origin
          /\ \A k \in DOMAIN origin : Targets(f, live)[k] = column[origin[k]]
      BY <1>7, TargetsAre
    <2> HIDE DEF column
    <2>3. \E k \in DOMAIN origin : origin[k] = i
      <3>1. i \in ToSet(origin)
        BY <1>2, <1>3, <1>7, OriginIs
      <3> QED
        BY <3>1 DEF ToSet
    <2> HIDE DEF origin
    <2>4. PICK k \in DOMAIN origin : origin[k] = i /\ Kept(i) = children[k]
      BY <2>3
    <2> HIDE DEF Kept
    <2>5. k \in DOMAIN Targets(f, live) /\ Targets(f, live)[k] = x
      BY <1>3, <2>2, <2>4
    <2>6. Targets(f, live) # <<>>
      BY <2>5
    <2>7. bucket[Child(f)].rows = Targets(f, live) /\ children = assemble(Child(f))
      BY <1>7, <2>6 DEF Given
    <2>8. values[i] = IF IsLive(Child(f), k) THEN Object(bucket[Child(f)].outputs[k]) ELSE bucket[Child(f)].bubble[k]
      BY <2>1, <2>4, <2>5, <2>7 DEF assemble
    <2>9. CASE IsLive(Child(f), k)
      BY <1>7, <2>8, <2>9, Tags
    <2>10. CASE ~IsLive(Child(f), k)
      <3>1. values[i] = bucket[Child(f)].bubble[k] /\ values[i] # Null
        BY <2>8, <2>10 DEF IsLive
      <3>2. k \in DOMAIN bucket[Child(f)].rows /\ bucket[Child(f)].rows[k] = x
        BY <2>5, <2>7
      <3> QED
        BY <1>7, <2>10, <3>1, <3>2 DEF Carried
    <2> QED
      BY <2>9, <2>10
  <1> QED
    BY <1>3, <1>4, <1>5, <1>6, <1>7

\* A bubble that is no object's bears the error's own path.
LEMMA CausedBelow ==
    ASSUME op \in Operations, NEW f, NEW r, NEW x \in Paths, Nested(f), NEW e, Caused(f, r, x, e)
    PROVE  Prefix(x, e) /\ e \in Paths
  <1>1. CASE e = x
    <2>1. x \in Seq(Fields \cup Labels)
      BY PathFacts
    <2> QED
      BY <1>1, <2>1, PrefixIs
  <1>2. CASE Carried(f, x, e)
    BY <1>2 DEF Carried, Nested
  <1> QED
    BY <1>1, <1>2 DEF Caused

\* Two paths of one length do not lead to the same error.
LEMMA Apart ==
    ASSUME NEW S, NEW p \in Seq(S), NEW q \in Seq(S), NEW e \in Seq(S), Prefix(p, e), Prefix(q, e), Len(p) = Len(q)
    PROVE  p = q
  BY DEF Prefix

\* The list that `done` makes, and the errors that it absorbs.
Listed(done, n, list) ==
    /\ list.errors \in Seq(Paths) /\ IsInjective(list.errors)
    /\ \A e \in ToSet(list.errors) : \E i \in 1..n : Bubbles(done[i]) /\ e = done[i].error
    /\ Bubbles(list.value) => /\ list.errors = <<>>
                              /\ \E i \in 1..n : Bubbles(done[i]) /\ list.value = done[i]
    /\ ~Bubbles(list.value) => /\ list.value = List([i \in 1..n |-> Absorb(done[i])])
                               /\ \A i \in 1..n : Bubbles(done[i]) => done[i].error \in ToSet(list.errors)
    /\ list = [value |-> list.value, errors |-> list.errors] /\ list.value # Null

\* collect_lists.
LEMMA ListBlames ==
    ASSUME NEW f, NEW n \in Nat, NEW done, DOMAIN done = 1..n,
           \A i \in 1..n : Bubbles(done[i]) => done[i].error \in Paths,
           \A i, j \in 1..n : i # j /\ Bubbles(done[i]) /\ Bubbles(done[j]) => done[i].error # done[j].error,
           NEW list, list = CollectList(f, done)
    PROVE  Listed(done, n, list)
  <1> DEFINE bubbles == {i \in DOMAIN done : Bubbles(done[i])}
             reports == [i \in DOMAIN done |-> IF i \in bubbles THEN <<done[i].error>> ELSE <<>>]
             first == done[CHOOSE i \in bubbles : \A j \in bubbles : i <= j]
             whole == [i \in DOMAIN done |-> Absorb(done[i])]
  <1>1. list = IF f \in op.itemNonNull /\ bubbles # {}
               THEN [value |-> first, errors |-> <<>>] ELSE [value |-> List(whole), errors |-> FlattenSeq(reports)]
    BY DEF CollectList
  <1>2. bubbles \subseteq 1..n /\ \A i : i \in bubbles <=> i \in 1..n /\ Bubbles(done[i])
    OBVIOUS
  <1>3. whole = [i \in 1..n |-> Absorb(done[i])]
    OBVIOUS
  <1>4. DOMAIN reports = 1..n /\ \A i \in 1..n : reports[i] = IF i \in bubbles THEN <<done[i].error>> ELSE <<>>
    OBVIOUS
  <1>5. reports = [i \in 1..n |-> reports[i]]
    OBVIOUS
  <1>6. bubbles # {} => \E i \in bubbles : first = done[i]
    <2>1. bubbles # {} => \E i \in bubbles : \A j \in bubbles : i <= j
      <3>1. bubbles \subseteq Nat
        BY <1>2
      <3> HIDE DEF bubbles
      <3> QED
        BY <3>1, LeastExists
    <2> HIDE DEF bubbles
    <2> QED
      BY <2>1
  <1> HIDE DEF bubbles, reports, first, whole
  <1>7. CASE f \in op.itemNonNull /\ bubbles # {}
    <2>1. list.value = first /\ list.errors = <<>> /\ list = [value |-> first, errors |-> <<>>]
      BY <1>1, <1>7
    <2>2. PICK i \in 1..n : Bubbles(done[i]) /\ first = done[i]
      BY <1>2, <1>6, <1>7
    <2>3. <<>> \in Seq(Paths) /\ IsInjective(<<>>) /\ ToSet(<<>>) = {}
      BY DEF IsInjective, ToSet
    <2> QED
      BY <2>1, <2>2, <2>3, Tags DEF Listed
  <1>8. CASE ~ (f \in op.itemNonNull /\ bubbles # {})
    <2>1. list.value = List(whole) /\ list.errors = FlattenSeq(reports) /\ list = [value |-> List(whole), errors |-> FlattenSeq(reports)]
      BY <1>1, <1>8
    <2>2. \A e : ToSet(<<e>>) = {e} /\ IsInjective(<<e>>)
      BY DEF ToSet, IsInjective
    <2>3. ToSet(<<>>) = {} /\ IsInjective(<<>>)
      BY DEF ToSet, IsInjective
    <2>4. \A i \in 1..n : /\ IsInjective(reports[i])
                          /\ \A e : e \in ToSet(reports[i]) <=> i \in bubbles /\ e = done[i].error
      BY <1>4, <2>2, <2>3
    <2>5. reports \in Seq(Seq(Paths))
      <3>1. <<>> \in Seq(Paths) /\ \A x \in Paths : <<x>> \in Seq(Paths)
        OBVIOUS
      <3>2. \A i \in 1..n : reports[i] \in Seq(Paths)
        BY <1>2, <1>4, <3>1
      <3>3. reports \in [1..n -> Seq(Paths)]
        BY <1>5, <3>2
      <3> QED
        BY <3>3
    <2>6. ASSUME NEW i \in 1..n, NEW j \in 1..n, i # j PROVE ToSet(reports[i]) \cap ToSet(reports[j]) = {}
      <3>1. ASSUME NEW e \in ToSet(reports[i]), e \in ToSet(reports[j]) PROVE FALSE
        <4>1. Bubbles(done[i]) /\ Bubbles(done[j]) /\ done[i].error = done[j].error
          BY <1>2, <2>4, <3>1
        <4> QED
          BY <2>6, <4>1
      <3> QED
        BY <3>1
    <2>7. /\ FlattenSeq(reports) \in Seq(Paths) /\ IsInjective(FlattenSeq(reports))
          /\ \A e : e \in ToSet(FlattenSeq(reports)) <=> \E i \in 1..n : e \in ToSet(reports[i])
      <3>1. DOMAIN reports = 1..n
        BY <1>4
      <3> QED
        BY <2>4, <2>5, <2>6, <3>1, Flattened
    <2>8. \A e : e \in ToSet(list.errors) <=> \E i \in 1..n : Bubbles(done[i]) /\ e = done[i].error
      BY <1>2, <2>1, <2>4, <2>7
    <2>9. ~Bubbles(list.value) /\ list.value # Null /\ list.value = List([i \in 1..n |-> Absorb(done[i])])
      BY <1>3, <2>1, Tags
    <2> QED
      BY <2>1, <2>7, <2>8, <2>9 DEF Listed
  <1> QED
    BY <1>7, <1>8

\* Who is to blame for the items `done` of the list at `path`.
Itemised(f, r, path, done, n) ==
    /\ DOMAIN done = 1..n /\ DOMAIN op.items[f] = 1..n
    /\ \A i \in 1..n : LET x == Append(path, op.items[f][i]) IN
          /\ x \in Paths /\ Under(f, r, x) /\ Len(x) = Len(path) + 1
          /\ Bubbles(done[i]) => Caused(f, r, x, done[i].error)
          /\ done[i] = Null => op.outcome[x] = "null"
    /\ \A i, j \in 1..n : Append(path, op.items[f][i]) = Append(path, op.items[f][j]) => i = j

\* The items of one list.
LEMMA ItemBlames ==
    ASSUME op \in Operations, NEW f \in Fields, f \in op.list, Shaped(Home(f)), NEW live, Settled(f, live),
           NEW children, Given(f, live, children),
           NEW values, values = CompleteColumn(f, Column(f, live), children),
           NEW k \in DOMAIN live, NEW r, r = bucket[Home(f)].rows[live[k]],
           NEW path, path = ValuePaths(f, live)[k], op.outcome[path] = "ok",
           NEW before, before = Len(Column(f, SubSeq(live, 1, k - 1))),
           NEW done, done = [i \in DOMAIN ItemsOf(f, path) |->
                               IF f \in op.itemNonNull
                               THEN enforce_non_null(values[before + i], ItemsOf(f, path)[i])
                               ELSE values[before + i]]
    PROVE  \E n \in Nat : Itemised(f, r, path, done, n)
  <1>1. PICK labels, items, n : labels = op.items[f] /\ items = ItemsOf(f, path) /\ n = Len(labels)
    OBVIOUS
  <1>2. n \in Nat /\ DOMAIN labels = 1..n /\ IsInjective(labels) /\ \A i \in 1..n : labels[i] \in Labels
    <2>1. labels \in Seq(Labels) /\ IsInjective(labels)
      BY <1>1, PathFacts
    <2> QED
      BY <1>1, <2>1
  <1>3. r \in Rows(Home(f)) /\ path = Append(r, f)
    BY ValuesAre
  <1>4. path \in Paths /\ path \in Seq(Fields \cup Labels)
    <2>1. Home(f) \in Buckets /\ f \in ToSet(op.fields[Home(f)])
      BY Tree
    <2>2. path \in Paths
      BY ONLY op \in Operations, <1>3, <2>1, Written
    <2> QED
      BY ONLY op \in Operations, <2>2, PathFacts
  <1>5. /\ DOMAIN items = 1..n /\ \A i \in 1..n : items[i] = Append(path, labels[i])
    <2>1. items = ItemsOf(f, Append(r, f)) /\ op.outcome[Append(r, f)] = "ok" /\ r \in Rows(Home(f))
      BY <1>1, <1>3
    <2>2. /\ DOMAIN items = DOMAIN op.items[f]
          /\ \A i \in DOMAIN items : items[i] = Append(Append(r, f), op.items[f][i])
      BY ONLY op \in Operations, f \in Fields, f \in op.list, <2>1, ItemsAre
    <2> QED
      BY ONLY <1>1, <1>2, <1>3, <2>2
  <1>6. ASSUME NEW i \in 1..n, NEW x, x = Append(path, labels[i])
        PROVE  /\ x \in Paths /\ Under(f, r, x) /\ Len(x) = Len(path) + 1
               /\ Bubbles(done[i]) => Caused(f, r, x, done[i].error)
               /\ done[i] = Null => op.outcome[x] = "null"
    <2>1. labels[i] \in ToSet(op.items[f])
      BY <1>1, <1>2 DEF ToSet
    <2>2. x \in Paths /\ Under(f, r, x)
      <3>1. x \in Paths
        BY <1>3, <1>6, <2>1, Tree, ItemFacts
      <3> QED
        BY <1>3, <1>6, <2>1, <3>1 DEF Under
    <2>3. Len(x) = Len(path) + 1
      BY <1>2, <1>4, <1>6, Longer
    <2>4. PICK at : at = before + i
      OBVIOUS
    <2>5. at \in DOMAIN Column(f, live) /\ Column(f, live)[at] = x
      <3>1. i \in DOMAIN ItemsOf(f, ValuePaths(f, live)[k]) /\ ItemsOf(f, ValuePaths(f, live)[k])[i] = x
        BY <1>1, <1>5, <1>6
      <3>2. \A j \in DOMAIN ItemsOf(f, ValuePaths(f, live)[k]) :
               LET a == Len(Column(f, SubSeq(live, 1, k - 1))) + j IN
               a \in DOMAIN Column(f, live) /\ Column(f, live)[a] = ItemsOf(f, ValuePaths(f, live)[k])[j]
        BY ColumnAt
      <3> QED
        BY <2>4, <3>1, <3>2
    <2>6. /\ Bubbles(values[at]) => \/ op.outcome[x] = "error" /\ values[at].error = x
                                    \/ Carried(f, x, values[at].error)
          /\ values[at] = Null => op.outcome[x] = "null"
      BY <2>5, ColumnBlames
    <2>7. done[i] = IF f \in op.itemNonNull /\ values[at] = Null THEN Bubble(x) ELSE values[at]
      BY <1>1, <1>5, <1>6, <2>4 DEF enforce_non_null
    <2>8. CASE f \in op.itemNonNull /\ values[at] = Null
      <3>1. done[i] = Bubble(x) /\ op.outcome[x] = "null"
        BY <2>6, <2>7, <2>8
      <3>2. Fault(f, r, x)
        BY <2>2, <2>8, <3>1 DEF Fault
      <3> QED
        BY <2>2, <2>3, <3>1, <3>2, Tags DEF Caused
    <2>9. CASE ~ (f \in op.itemNonNull /\ values[at] = Null)
      <3>1. done[i] = values[at]
        BY <2>7, <2>9
      <3>2. op.outcome[x] = "error" => Fault(f, r, x)
        BY <2>2 DEF Fault
      <3> QED
        BY <2>2, <2>3, <2>6, <3>1, <3>2 DEF Caused
    <2> QED
      BY <2>8, <2>9
  <1>7. ASSUME NEW i \in 1..n, NEW j \in 1..n, Append(path, labels[i]) = Append(path, labels[j]) PROVE i = j
    <2>1. labels[i] = labels[j]
      BY <1>2, <1>4, <1>7, Longer
    <2> QED
      BY <1>2, <2>1 DEF IsInjective
  <1>8. DOMAIN done = 1..n
    BY <1>1, <1>5
  <1>9. labels = op.items[f] /\ n \in Nat /\ DOMAIN labels = 1..n
    BY <1>1, <1>2
  <1>10. \A i \in 1..n : LET x == Append(path, labels[i]) IN
            /\ x \in Paths /\ Under(f, r, x) /\ Len(x) = Len(path) + 1
            /\ Bubbles(done[i]) => Caused(f, r, x, done[i].error)
            /\ done[i] = Null => op.outcome[x] = "null"
    BY <1>6
  <1>11. \A i, j \in 1..n : Append(path, labels[i]) = Append(path, labels[j]) => i = j
    BY <1>7
  <1> QED
    BY ONLY <1>8, <1>9, <1>10, <1>11 DEF Itemised

\* What a bubble, or a null, of the row's list or single value comes from.
Blamed(f, r, path, raw) ==
    /\ raw = [value |-> raw.value, errors |-> raw.errors]
    /\ raw.errors \in Seq(Paths) /\ IsInjective(raw.errors)
    /\ Bubbles(raw.value) => raw.errors = <<>> /\ \E x \in Paths : Place(f, r, x) /\ Caused(f, r, x, raw.value.error)
    /\ \A e \in ToSet(raw.errors) : \E x \in Paths : Place(f, r, x) /\ Caused(f, r, x, e)
    /\ raw.value = Null => op.outcome[path] = "null" /\ raw.errors = <<>>
    /\ \A items : f \in op.list /\ op.outcome[path] = "ok" /\ raw.value = List(items) =>
          \A n \in DOMAIN op.items[f] :
             items[n] = Null => \/ op.outcome[Append(path, op.items[f][n])] = "null"
                                \/ \E e \in ToSet(raw.errors) : Prefix(Append(path, op.items[f][n]), e)

LEMMA ListRowBlames ==
    ASSUME op \in Operations, NEW f \in Fields, f \in op.list, Shaped(Home(f)), Nested(f), NEW live, Settled(f, live),
           NEW children, Given(f, live, children),
           NEW values, values = CompleteColumn(f, Column(f, live), children),
           NEW k \in DOMAIN live, NEW r, r = bucket[Home(f)].rows[live[k]],
           NEW path, path = ValuePaths(f, live)[k], op.outcome[path] = "ok",
           NEW before, before = Len(Column(f, SubSeq(live, 1, k - 1))),
           NEW done, done = [i \in DOMAIN ItemsOf(f, path) |->
                               IF f \in op.itemNonNull
                               THEN enforce_non_null(values[before + i], ItemsOf(f, path)[i])
                               ELSE values[before + i]],
           NEW raw, raw = CollectList(f, done)
    PROVE  Blamed(f, r, path, raw)
  <1>1. PICK n \in Nat : Itemised(f, r, path, done, n)
    BY ItemBlames
  <1> DEFINE X(i) == Append(path, op.items[f][i])
  <1>2. \A i \in 1..n : /\ X(i) \in Paths /\ Under(f, r, X(i)) /\ Len(X(i)) = Len(path) + 1
                        /\ Bubbles(done[i]) => Caused(f, r, X(i), done[i].error)
                        /\ done[i] = Null => op.outcome[X(i)] = "null"
    BY <1>1 DEF Itemised
  <1>3. \A i, j \in 1..n : X(i) = X(j) => i = j
    BY <1>1 DEF Itemised
  <1> HIDE DEF X
  <1>4. \A i \in 1..n : Bubbles(done[i]) => Prefix(X(i), done[i].error) /\ done[i].error \in Paths
    BY <1>2, CausedBelow
  <1>5. ASSUME NEW i \in 1..n, NEW j \in 1..n, i # j, Bubbles(done[i]), Bubbles(done[j])
        PROVE  done[i].error # done[j].error
    <2>1. SUFFICES ASSUME done[i].error = done[j].error PROVE FALSE
      OBVIOUS
    <2>2. PICK e : e = done[i].error
      OBVIOUS
    <2>3. /\ Prefix(X(i), e) /\ Prefix(X(j), e) /\ Len(X(i)) = Len(X(j))
      BY <1>2, <1>4, <1>5, <2>1, <2>2
    <2>4. X(i) \in Seq(Fields \cup Labels) /\ X(j) \in Seq(Fields \cup Labels) /\ e \in Seq(Fields \cup Labels)
      BY <1>2, <1>4, <1>5, <2>2, PathFacts
    <2>5. X(i) = X(j)
      BY <2>3, <2>4, Apart
    <2> QED
      BY <1>3, <1>5, <2>5
  <1>6. /\ raw.errors \in Seq(Paths) /\ IsInjective(raw.errors)
        /\ \A e \in ToSet(raw.errors) : \E i \in 1..n : Bubbles(done[i]) /\ e = done[i].error
        /\ Bubbles(raw.value) => /\ raw.errors = <<>>
                                 /\ \E i \in 1..n : Bubbles(done[i]) /\ raw.value = done[i]
        /\ ~Bubbles(raw.value) => /\ raw.value = List([i \in 1..n |-> Absorb(done[i])])
                                  /\ \A i \in 1..n : Bubbles(done[i]) => done[i].error \in ToSet(raw.errors)
        /\ raw = [value |-> raw.value, errors |-> raw.errors] /\ raw.value # Null
    <2>1. DOMAIN done = 1..n
      BY <1>1 DEF Itemised
    <2>2. Listed(done, n, raw)
      BY ONLY n \in Nat, raw = CollectList(f, done), <1>4, <1>5, <2>1, ListBlames
    <2> QED
      BY <2>2 DEF Listed
  <1>7. \A i \in 1..n : Bubbles(done[i]) => \E x \in Paths : Place(f, r, x) /\ Caused(f, r, x, done[i].error)
    BY <1>2 DEF Place
  <1>8. ASSUME NEW items, raw.value = List(items), NEW i \in DOMAIN op.items[f], items[i] = Null
        PROVE  \/ op.outcome[X(i)] = "null"
               \/ \E e \in ToSet(raw.errors) : Prefix(X(i), e)
    <2>1. i \in 1..n /\ ~Bubbles(raw.value)
      BY <1>1, <1>8, Tags DEF Itemised
    <2>2. items = [j \in 1..n |-> Absorb(done[j])]
      <3>1. \A x : List(x).items = x
        BY DEF List
      <3>2. PICK whole : whole = [j \in 1..n |-> Absorb(done[j])]
        OBVIOUS
      <3>3. List(items) = List(whole)
        BY ONLY <1>6, <1>8, <2>1, <3>2
      <3>4. List(items).items = items /\ List(whole).items = whole
        BY <3>1
      <3> QED
        BY ONLY <3>2, <3>3, <3>4
    <2>3. Absorb(done[i]) = Null
      BY <1>8, <2>1, <2>2
    <2> QED
      BY <1>2, <1>4, <1>6, <2>1, <2>3 DEF Absorb
  <1>9. /\ Bubbles(raw.value) => raw.errors = <<>> /\ \E x \in Paths : Place(f, r, x) /\ Caused(f, r, x, raw.value.error)
        /\ \A e \in ToSet(raw.errors) : \E x \in Paths : Place(f, r, x) /\ Caused(f, r, x, e)
    BY ONLY <1>6, <1>7
  <1> QED
    BY <1>6, <1>8, <1>9 DEF Blamed, X

\* What one completed row reports, and hands on.
LEMMA RowBlames ==
    ASSUME op \in Operations, NEW f \in Fields, Shaped(Home(f)), Nested(f), NEW live, Settled(f, live),
           NEW children, Given(f, live, children),
           NEW values, values = CompleteColumn(f, Column(f, live), children),
           NEW k \in DOMAIN live, NEW r, r = bucket[Home(f)].rows[live[k]],
           NEW row, row = CompleteRow(f, live, k, values), Value(f, r) = Received(f, row.value)
    PROVE  /\ row.errors \in Seq(Paths) /\ IsInjective(row.errors)
           /\ Bubbles(row.value) => /\ row.errors = <<>>
                                    /\ \E x \in Paths : Place(f, r, x) /\ Caused(f, r, x, row.value.error)
           /\ \A e \in ToSet(row.errors) : \E x \in Paths : Place(f, r, x) /\ Caused(f, r, x, e)
           /\ \A q \in Paths : Nulled(f, r, q) /\ op.outcome[q] # "null" =>
                 \/ \E e \in ToSet(row.errors) : Prefix(q, e)
                 \/ Bubbles(row.value) /\ f \notin op.nonNull /\ Prefix(q, row.value.error)
  <1> DEFINE path == ValuePaths(f, live)[k]
             before == Len(Column(f, SubSeq(live, 1, k - 1)))
             done == [i \in DOMAIN ItemsOf(f, path) |->
                        IF f \in op.itemNonNull
                        THEN enforce_non_null(values[before + i], ItemsOf(f, path)[i])
                        ELSE values[before + i]]
             raw == IF f \notin op.list THEN [value |-> values[k], errors |-> <<>>]
                    ELSE CASE op.outcome[path] = "error" -> [value |-> Bubble(path), errors |-> <<>>]
                           [] op.outcome[path] = "null" -> [value |-> Null, errors |-> <<>>]
                           [] op.outcome[path] = "ok" -> CollectList(f, done)
  <1>1. row = IF f \in op.nonNull THEN [raw EXCEPT !.value = enforce_non_null(@, path)] ELSE raw
    BY DEF CompleteRow
  <1>2. r \in Rows(Home(f)) /\ path = Append(r, f) /\ path \in Paths /\ op.outcome[path] \in {"ok", "null", "error"}
    <2>1. r \in Rows(Home(f)) /\ path = Append(r, f)
      BY ValuesAre
    <2> HIDE DEF path
    <2> QED
      BY <2>1, Tree, Written, PathFacts
  <1>3. Blamed(f, r, path, raw)
    <2>1. <<>> \in Seq(Paths) /\ IsInjective(<<>>) /\ ToSet(<<>>) = {}
      BY DEF IsInjective, ToSet
    <2>2. \A v : LET t == [value |-> v, errors |-> <<>>] IN
             /\ t.value = v /\ t.errors = <<>>
             /\ t = [value |-> t.value, errors |-> t.errors]
      OBVIOUS
    <2>3. ASSUME NEW v, raw = [value |-> v, errors |-> <<>>],
                 Bubbles(v) => \E x \in Paths : Place(f, r, x) /\ Caused(f, r, x, v.error),
                 v = Null => op.outcome[path] = "null", f \notin op.list \/ op.outcome[path] # "ok"
          PROVE  Blamed(f, r, path, raw)
      <3> HIDE DEF raw, path
      <3>1. raw.value = v /\ raw.errors = <<>> /\ raw = [value |-> raw.value, errors |-> raw.errors]
        BY <2>2, <2>3
      <3> QED
        BY <2>1, <2>3, <3>1 DEF Blamed
    <2>4. CASE f \notin op.list
      <3>1. Column(f, live) = ValuePaths(f, live) /\ DOMAIN ValuePaths(f, live) = DOMAIN live
        BY <2>4 DEF Column, ValuePaths
      <3>2. k \in DOMAIN Column(f, live) /\ Column(f, live)[k] = path
        BY <3>1
      <3> HIDE DEF path
      <3>3. /\ Bubbles(values[k]) => \/ op.outcome[path] = "error" /\ values[k].error = path
                                     \/ Carried(f, path, values[k].error)
            /\ values[k] = Null => op.outcome[path] = "null"
        BY <3>2, ColumnBlames
      <3>4. Place(f, r, path) /\ (op.outcome[path] = "error" => Fault(f, r, path))
        BY <1>2 DEF Place, Fault
      <3>5. Bubbles(values[k]) => \E x \in Paths : Place(f, r, x) /\ Caused(f, r, x, values[k].error)
        BY <1>2, <3>3, <3>4 DEF Caused
      <3>6. raw = [value |-> values[k], errors |-> <<>>]
        BY <2>4
      <3> HIDE DEF raw
      <3> QED
        BY <2>3, <2>4, <3>3, <3>5, <3>6
    <2>5. CASE f \in op.list /\ op.outcome[path] = "error"
      <3>1. raw = [value |-> Bubble(path), errors |-> <<>>]
        BY <2>5
      <3> HIDE DEF raw, path
      <3>2. Place(f, r, path) /\ Fault(f, r, path)
        BY <1>2, <2>5 DEF Place, Fault
      <3>3. \E x \in Paths : Place(f, r, x) /\ Caused(f, r, x, Bubble(path).error)
        BY <1>2, <3>2, Tags DEF Caused
      <3> QED
        BY <2>3, <2>5, <3>1, <3>3, Tags
    <2>6. CASE f \in op.list /\ op.outcome[path] = "null"
      <3>1. raw = [value |-> Null, errors |-> <<>>]
        BY <2>6
      <3> HIDE DEF raw, path
      <3> QED
        BY <2>3, <2>6, <3>1, Tags
    <2>7. CASE f \in op.list /\ op.outcome[path] = "ok"
      <3>1. PICK list, d, p, a : list = CollectList(f, done) /\ d = done /\ p = path /\ a = before
        OBVIOUS
      <3>2. d = [i \in DOMAIN ItemsOf(f, p) |->
                        IF f \in op.itemNonNull
                        THEN enforce_non_null(values[a + i], ItemsOf(f, p)[i])
                        ELSE values[a + i]]
        BY <3>1
      <3>3. raw = list /\ list = CollectList(f, d) /\ p = ValuePaths(f, live)[k] /\ op.outcome[p] = "ok"
            /\ a = Len(Column(f, SubSeq(live, 1, k - 1)))
        BY <2>7, <3>1
      <3> HIDE DEF raw, done, before
      <3>4. Blamed(f, r, p, list)
        BY <2>7, <3>2, <3>3, ListRowBlames
      <3> QED
        BY <3>1, <3>3, <3>4
    <2> HIDE DEF path, raw
    <2> QED
      BY <1>2, <2>4, <2>5, <2>6, <2>7
  <1> HIDE DEF raw, path
  <1>4. CASE f \in op.nonNull /\ raw.value = Null
    <2>1. row.value = Bubble(path) /\ row.errors = <<>> /\ op.outcome[path] = "null"
      BY <1>1, <1>3, <1>4 DEF Blamed, enforce_non_null
    <2>2. Fault(f, r, path) /\ Place(f, r, path)
      BY <1>2, <1>4, <2>1 DEF Fault, Place
    <2>3. <<>> \in Seq(Paths) /\ IsInjective(<<>>) /\ ToSet(<<>>) = {}
      BY DEF IsInjective, ToSet
    <2>4. \E x \in Paths : Place(f, r, x) /\ Caused(f, r, x, row.value.error)
      BY <1>2, <2>1, <2>2, Tags DEF Caused
    <2>5. Value(f, r) = Broken
      BY <1>4, <2>1, Tags DEF Received
    <2>6. \A q : ~Nulled(f, r, q)
      BY <2>5, Tags DEF Nulled
    <2> QED
      BY <2>1, <2>3, <2>4, <2>6
  <1>5. CASE ~ (f \in op.nonNull /\ raw.value = Null)
    <2>1. row.value = raw.value /\ row.errors = raw.errors
      BY <1>1, <1>3, <1>5 DEF Blamed, enforce_non_null
    <2>2. ASSUME NEW q \in Paths, Nulled(f, r, q), op.outcome[q] # "null"
          PROVE  \/ \E e \in ToSet(row.errors) : Prefix(q, e)
                 \/ Bubbles(row.value) /\ f \notin op.nonNull /\ Prefix(q, row.value.error)
      <3>1. CASE Bubbles(row.value)
        <4>1. f \notin op.nonNull /\ Value(f, r) = Null
          <5>1. f \in op.nonNull => Value(f, r) = Broken
            BY <3>1 DEF Received
          <5>2. f \notin op.nonNull => Value(f, r) = Null
            BY <3>1 DEF Received, Absorb
          <5> QED
            BY <2>2, <5>1, <5>2, Tags DEF Nulled
        <4>2. q = path
          BY <1>2, <2>2, <4>1, Tags DEF Nulled
        <4>3. PICK x \in Paths : Place(f, r, x) /\ Caused(f, r, x, row.value.error)
          BY <1>3, <2>1, <3>1 DEF Blamed
        <4>4. PICK e : e = row.value.error
          OBVIOUS
        <4>5. Prefix(x, e) /\ e \in Paths
          BY <4>3, <4>4, CausedBelow
        <4>6. Prefix(q, x)
          <5>1. CASE x = path
            BY <1>2, <4>2, <5>1, PathFacts, PrefixIs
          <5>2. CASE Under(f, r, x)
            BY <1>2, <4>2, <5>2, Beneath
          <5> QED
            BY <1>2, <4>3, <5>1, <5>2 DEF Place
        <4>7. \A y \in Paths : y \in Seq(Fields \cup Labels)
          BY PathFacts
        <4>8. Prefix(q, e)
          BY <4>5, <4>6, <4>7, PrefixIs
        <4> QED
          BY <3>1, <4>1, <4>4, <4>8
      <3>2. CASE ~Bubbles(row.value)
        <4>1. Value(f, r) = raw.value
          BY <2>1, <3>2 DEF Received, Absorb
        <4>2. q # path \/ raw.value # Null
          BY <1>3, <2>2 DEF Blamed
        <4>3. PICK items : /\ f \in op.list /\ op.outcome[path] = "ok" /\ raw.value = List(items)
                           /\ \E n \in DOMAIN op.items[f] : q = Append(path, op.items[f][n]) /\ items[n] = Null
          BY <1>2, <2>2, <4>1, <4>2 DEF Nulled
        <4>4. PICK n \in DOMAIN op.items[f] : q = Append(path, op.items[f][n]) /\ items[n] = Null
          BY <4>3
        <4>5. op.outcome[q] = "null" \/ \E e \in ToSet(raw.errors) : Prefix(q, e)
          BY <1>3, <4>3, <4>4 DEF Blamed
        <4> QED
          BY <2>1, <2>2, <4>5
      <3> QED
        BY <3>1, <3>2
    <2> QED
      BY <1>3, <2>1, <2>2 DEF Blamed
  <1> QED
    BY <1>4, <1>5

\* A path ends in a field of an object of that field's bucket, or in an item of
\* its list.
LEMMA PathEnds ==
    ASSUME op \in Operations, NEW p \in Paths
    PROVE  \E f \in Fields : \E r \in Rows(Home(f)) :
              /\ FieldOf(p) = f
              /\ p = Append(r, f) \/ (f \in op.list /\ \E i \in ToSet(op.items[f]) : p = Append(Append(r, f), i))
  <1>1. \A b \in Buckets : \A r \in (IF b = "root" THEN {<<>>}
                 ELSE {q \in Paths : /\ FieldOf(q) = op.owner[b] /\ op.outcome[q] = "ok"
                                     /\ q[Len(q)] \notin op.list}) : r \in Rows(b)
    <2>1. ASSUME NEW b \in Buckets \ {"root"}, NEW q \in Paths, FieldOf(q) = op.owner[b], op.outcome[q] = "ok",
                 q[Len(q)] \notin op.list
          PROVE  q \in Rows(b)
      <3>1. HasChild(op.owner[b]) /\ Child(op.owner[b]) = b /\ q # <<>>
        BY <2>1, Tree, PathFacts
      <3> QED
        BY <2>1, <3>1 DEF Rows, Objects, BucketOf, Paths
    <2>2. <<>> \in Rows("root")
      BY RowFacts
    <2> QED
      BY <2>1, <2>2
  <1>2. PICK b \in Buckets : \E r \in (IF b = "root" THEN {<<>>}
                 ELSE {q \in Paths : /\ FieldOf(q) = op.owner[b] /\ op.outcome[q] = "ok"
                                     /\ q[Len(q)] \notin op.list}), f \in ToSet(op.fields[b]) :
           p = Append(r, f) \/ (f \in op.list /\ \E i \in ToSet(op.items[f]) : p = Append(Append(r, f), i))
    <2>1. IsOperation(op)
      BY ExecutionAssumption
    <2> QED
      BY <2>1 DEF IsOperation, Buckets, Fields, FieldOf, Paths
  <1>3. PICK r \in Rows(b), f \in ToSet(op.fields[b]) :
           p = Append(r, f) \/ (f \in op.list /\ \E i \in ToSet(op.items[f]) : p = Append(Append(r, f), i))
    BY <1>1, <1>2
  <1>4. f \in Fields /\ Home(f) = b
    BY Tree
  <1>5. FieldOf(p) = f
    <2>1. FieldOf(Append(r, f)) = f
      BY ValueFacts
    <2>2. f \in op.list => \A i \in ToSet(op.items[f]) : FieldOf(Append(Append(r, f), i)) = f
      BY ItemFacts
    <2> QED
      BY <1>3, <2>1, <2>2
  <1> QED
    BY <1>3, <1>4, <1>5

-----------------------------------------------------------------------------
(* Where the errors come from, and where they go.                          *)

\* Error e was raised by a field that is done.
Traced(e) ==
    /\ e \in Paths
    /\ \E f \in Fields : field[f].state = "done" /\ \E r \in ToSet(bucket[Home(f)].rows) : Fault(f, r, e)

\* It bubbled from where it was raised up to object o.
Risen(o, e) ==
    /\ Prefix(o, e) /\ Len(o) < Len(e)
    /\ \A q \in Paths : Prefix(q, e) /\ Len(o) < Len(q) => field[FieldOf(q)].state = "done"

\* The bucket's results have yet to be used.
Open(b) == b = "root" \/ field[op.owner[b]].state # "done"

\* A row that bubbled holds its error until somebody reports it.
Holds(b, i) ==
    LET e == bucket[b].bubble[i].error IN
    Traced(e) /\ Risen(bucket[b].rows[i], e) /\ (Open(b) => e \notin ToSet(errors))

\* The nulls of field f of object r that no resolver returned have their errors.
Explained(f, r) ==
    \A q \in Paths : Nulled(f, r, q) /\ op.outcome[q] # "null" => \E e \in ToSet(errors) : Prefix(q, e)

\* The field's nested objects are complete.
Finished(f, r) ==
    HasChild(f) => \A q \in Paths : Under(f, r, q) /\ op.outcome[q] = "ok" =>
                      q \in ToSet(bucket[Child(f)].rows) /\ bucket[Child(f)].phase = "done"

\* What a field that is done has left behind.
Accounted(f) ==
    \A i \in DOMAIN bucket[Home(f)].rows :
       IsLive(Home(f), i) => Explained(f, bucket[Home(f)].rows[i]) /\ Finished(f, bucket[Home(f)].rows[i])

Blame ==
    /\ IsInjective(errors)
    /\ \A e \in ToSet(errors) : Traced(e)
    /\ \A b \in Buckets : \A i \in DOMAIN bucket[b].rows : ~IsLive(b, i) => Holds(b, i)
    /\ \A f \in Fields : field[f].state = "done" => Accounted(f)

\* What is done stays done, and what was there stays there.
Grows ==
    /\ op' = op
    /\ \A f \in Fields : field[f].state = "done" => field'[f].state = "done"
    /\ \A b \in Buckets : /\ bucket[b].phase = "done" => bucket'[b].phase = "done"
                          /\ ToSet(bucket[b].rows) \subseteq ToSet(bucket'[b].rows)
    /\ ToSet(errors) \subseteq ToSet(errors')

LEMMA Growing ==
    ASSUME op \in Operations, Grows
    PROVE  /\ \A e : Traced(e) => Traced(e)'
           /\ \A o, e : Risen(o, e) => Risen(o, e)'
           /\ \A b \in Buckets : Open(b)' => Open(b)
           /\ \A f, r : Explained(f, r) => Explained(f, r)'
           /\ \A f, r : Finished(f, r) => Finished(f, r)'
  <1>1. /\ op' = op /\ Buckets' = Buckets /\ Fields' = Fields /\ Paths' = Paths
        /\ \A f : Home(f)' = Home(f) /\ Child(f)' = Child(f) /\ HasChild(f)' = HasChild(f)
        /\ \A f, p : Value(f, p)' = Value(f, p)
    BY OpStays DEF Grows
  <1>2. /\ \A f, r, p : Under(f, r, p)' <=> Under(f, r, p)
        /\ \A p : FieldOf(p)' = FieldOf(p)
    BY <1>1 DEF Under, FieldOf
  <1>3. /\ \A f, r, e : Fault(f, r, e)' <=> Fault(f, r, e)
    BY <1>1, <1>2 DEF Fault
  <1>4. \A f, r, q : Nulled(f, r, q)' <=> Nulled(f, r, q)
    BY <1>1 DEF Nulled, Null, List
  <1>5. ASSUME NEW e, Traced(e) PROVE Traced(e)'
    <2>1. PICK f \in Fields : field[f].state = "done" /\ \E r \in ToSet(bucket[Home(f)].rows) : Fault(f, r, e)
      BY <1>5 DEF Traced
    <2>2. PICK r \in ToSet(bucket[Home(f)].rows) : Fault(f, r, e)
      BY <2>1
    <2>3. field'[f].state = "done" /\ r \in ToSet(bucket'[Home(f)].rows) /\ Home(f)' = Home(f)
      <3>1. Home(f) \in Buckets
        BY Tree
      <3> QED
        BY <1>1, <2>1, <3>1 DEF Grows
    <2>4. Fault(f, r, e)' /\ f \in Fields' /\ e \in Paths'
      BY <1>1, <1>3, <1>5, <2>2 DEF Traced
    <2> QED
      BY <2>3, <2>4 DEF Traced
  <1>6. ASSUME NEW o, NEW e, Risen(o, e) PROVE Risen(o, e)'
    <2>1. ASSUME NEW q \in Paths, Prefix(q, e), Len(o) < Len(q) PROVE field'[FieldOf(q)].state = "done"
      <3>1. field[FieldOf(q)].state = "done"
        BY <1>6, <2>1 DEF Risen
      <3>2. FieldOf(q) \in Fields
        BY <2>1, PathEnds
      <3> QED
        BY <3>1, <3>2 DEF Grows
    <2>2. \A q \in Paths' : Prefix(q, e) /\ Len(o) < Len(q) => field'[FieldOf(q)'].state = "done"
      BY <1>1, <1>2, <2>1
    <2> QED
      BY <1>6, <2>2 DEF Risen
  <1>7. ASSUME NEW b \in Buckets, Open(b)' PROVE Open(b)
    <2>1. b # "root" => op.owner[b] \in Fields
      BY Tree
    <2> QED
      BY <1>1, <1>7, <2>1 DEF Open, Grows
  <1>8. ASSUME NEW f, NEW r, Explained(f, r) PROVE Explained(f, r)'
    <2>1. ASSUME NEW q \in Paths, Nulled(f, r, q), op.outcome[q] # "null" PROVE \E e \in ToSet(errors') : Prefix(q, e)
      BY <1>8, <2>1 DEF Explained, Grows
    <2>2. \A q \in Paths' : Nulled(f, r, q)' /\ op'.outcome[q] # "null" => \E e \in ToSet(errors') : Prefix(q, e)
      BY <1>1, <1>4, <2>1
    <2> QED
      BY <2>2 DEF Explained
  <1>9. ASSUME NEW f, NEW r, Finished(f, r) PROVE Finished(f, r)'
    <2>1. ASSUME HasChild(f), NEW q \in Paths, Under(f, r, q), op.outcome[q] = "ok"
          PROVE  q \in ToSet(bucket'[Child(f)].rows) /\ bucket'[Child(f)].phase = "done"
      <3>1. q \in ToSet(bucket[Child(f)].rows) /\ bucket[Child(f)].phase = "done"
        BY <1>9, <2>1 DEF Finished
      <3>2. Child(f) \in Buckets
        BY <2>1 DEF HasChild, Child
      <3> QED
        BY <3>1, <3>2 DEF Grows
    <2>2. HasChild(f)' => \A q \in Paths' : Under(f, r, q)' /\ op'.outcome[q] = "ok" =>
                             q \in ToSet(bucket'[Child(f)'].rows) /\ bucket'[Child(f)'].phase = "done"
      BY <1>1, <1>2, <2>1
    <2> QED
      BY <2>2 DEF Finished
  <1> QED
    BY <1>5, <1>6, <1>7, <1>8, <1>9

\* Nothing is written: no error is reported and no row bubbles.
LEMMA Later ==
    ASSUME IInv, Blame, op' = op, errors' = errors,
           \A f \in Fields : field[f].state = "done" => field'[f].state = "done",
           \A b \in Buckets : bucket[b].phase = "done" => bucket'[b].phase = "done",
           \A b \in Buckets :
              \/ bucket'[b].rows = bucket[b].rows /\ bucket'[b].bubble = bucket[b].bubble
              \/ /\ bucket[b].rows = <<>> /\ \A i \in DOMAIN bucket'[b].rows : bucket'[b].bubble[i] = Null
                 /\ \A f \in ToSet(op.fields[b]) : field'[f].state # "done",
           \A f \in Fields : field'[f].state = "done" /\ field[f].state # "done" =>
                                \A i \in DOMAIN bucket[Home(f)].rows : ~IsLive(Home(f), i)
    PROVE  Blame'
  <1>1. /\ op \in Operations /\ Buckets' = Buckets /\ Fields' = Fields /\ \A f : Home(f)' = Home(f)
        /\ \A f \in Fields : Home(f) \in Buckets /\ f \in ToSet(op.fields[Home(f)])
    BY Known, OpStays, Tree
  <1>2. Grows
    <2>1. ToSet(<<>>) = {}
      BY DEF ToSet
    <2> QED
      BY <2>1 DEF Grows
  <1>3. \A e \in ToSet(errors') : Traced(e)'
    BY <1>1, <1>2, Growing DEF Blame
  <1>4. ASSUME NEW b \in Buckets, NEW i \in DOMAIN bucket'[b].rows, ~(bucket'[b].bubble[i] = Null) PROVE Holds(b, i)'
    <2>1. bucket'[b].rows = bucket[b].rows /\ bucket'[b].bubble = bucket[b].bubble
      BY <1>4
    <2>2. Holds(b, i)
      BY <1>4, <2>1 DEF Blame, IsLive
    <2>3. PICK o, e : o = bucket[b].rows[i] /\ e = bucket[b].bubble[i].error
      OBVIOUS
    <2>4. Traced(e)' /\ Risen(o, e)' /\ (Open(b)' => Open(b))
      BY <1>1, <1>2, <2>2, <2>3, Growing DEF Holds
    <2>5. Open(b)' => e \notin ToSet(errors')
      BY <2>2, <2>3, <2>4 DEF Holds
    <2>6. o = bucket'[b].rows[i] /\ e = bucket'[b].bubble[i].error
      BY <2>1, <2>3
    <2> QED
      BY <2>4, <2>5, <2>6 DEF Holds
  <1>5. ASSUME NEW f \in Fields, field'[f].state = "done" PROVE Accounted(f)'
    <2>1. ASSUME NEW i \in DOMAIN bucket'[Home(f)].rows, bucket'[Home(f)].bubble[i] = Null, NEW r, r = bucket'[Home(f)].rows[i]
          PROVE  Explained(f, r)' /\ Finished(f, r)'
      <3>1. bucket'[Home(f)].rows = bucket[Home(f)].rows /\ bucket'[Home(f)].bubble = bucket[Home(f)].bubble
        BY <1>1, <1>5
      <3>2. field[f].state = "done" /\ IsLive(Home(f), i) /\ i \in DOMAIN bucket[Home(f)].rows /\ r = bucket[Home(f)].rows[i]
        BY <1>5, <2>1, <3>1 DEF IsLive
      <3>3. Explained(f, r) /\ Finished(f, r)
        BY <3>2 DEF Blame, Accounted
      <3> QED
        BY <1>1, <1>2, <3>3, Growing
    <2> QED
      BY <1>1, <2>1 DEF Accounted, IsLive, Null
  <1>6. \A b \in Buckets' : \A i \in DOMAIN bucket'[b].rows : ~IsLive(b, i)' => Holds(b, i)'
    BY <1>1, <1>4 DEF IsLive, Null
  <1>7. \A f \in Fields' : field'[f].state = "done" => Accounted(f)'
    BY <1>1, <1>5
  <1>8. IsInjective(errors')
    BY DEF Blame
  <1> QED
    BY <1>3, <1>6, <1>7, <1>8 DEF Blame

-----------------------------------------------------------------------------
(* Every error is one object's, or reported.                               *)

\* The places of a field lead back to it.
LEMMA Placed ==
    ASSUME op \in Operations, NEW f \in Fields, NEW r \in Rows(Home(f)), NEW x, Place(f, r, x)
    PROVE  /\ x \in Paths /\ FieldOf(x) = f /\ Prefix(r, x) /\ Len(r) < Len(x)
           /\ \A q \in Paths : Prefix(q, x) /\ Len(r) < Len(q) => FieldOf(q) = f
  <1>1. /\ Home(f) \in Buckets /\ f \in ToSet(op.fields[Home(f)])
        /\ r \in Seq(Fields \cup Labels) /\ Append(r, f) \in Paths /\ FieldOf(Append(r, f)) = f
    <2>1. Home(f) \in Buckets /\ f \in ToSet(op.fields[Home(f)])
      BY Tree
    <2>2. r \in Seq(Fields \cup Labels)
      BY RowFacts DEF Rows
    <2> QED
      BY <2>1, <2>2, ValueFacts
  <1>2. \A p \in Paths : p \in Seq(Fields \cup Labels) /\ Len(p) \in Nat
    BY PathFacts
  <1>3. CASE x = Append(r, f)
    <2>1. Len(x) = Len(r) + 1 /\ Len(r) \in Nat /\ Prefix(r, x) /\ x \in Paths /\ FieldOf(x) = f
      BY <1>1, <1>3, Longer, PrefixIs
    <2>2. ASSUME NEW q \in Paths, Prefix(q, x), Len(r) < Len(q) PROVE FieldOf(q) = f
      <3>1. q \in Seq(Fields \cup Labels) /\ x \in Seq(Fields \cup Labels) /\ Len(q) \in Nat
        BY <1>2, <2>1
      <3>2. Len(q) <= Len(x) /\ SubSeq(x, 1, Len(q)) = q
        BY <2>2 DEF Prefix
      <3>3. Len(q) = Len(x)
        <4>1. \A l, m, n : l \in Nat /\ m \in Nat /\ n = l + 1 /\ m <= n /\ l < m => m = n
          OBVIOUS
        <4>2. Len(r) < Len(q) /\ Len(q) <= Len(x) /\ Len(r) \in Nat /\ Len(x) = Len(r) + 1 /\ Len(q) \in Nat
          BY <2>1, <2>2, <3>1, <3>2
        <4> QED
          BY ONLY <4>1, <4>2
      <3>4. q = x
        BY <3>1, <3>2, <3>3
      <3> QED
        BY <2>1, <3>4
    <2>3. Len(r) < Len(x)
      BY <2>1
    <2> QED
      BY <2>1, <2>2, <2>3
  <1>4. CASE Under(f, r, x) /\ x # Append(r, f)
    <2>1. f \in op.list /\ \E i \in ToSet(op.items[f]) : x = Append(Append(r, f), i)
      BY <1>4 DEF Under
    <2>2. PICK i \in ToSet(op.items[f]) : x = Append(Append(r, f), i)
      BY <2>1
    <2>3. x \in Paths /\ FieldOf(x) = f /\ Len(x) = Len(r) + 2 /\ i \in Labels
      BY <1>1, <2>1, <2>2, ItemFacts
    <2>4. PICK p : p = Append(r, f)
      OBVIOUS
    <2>5. /\ p \in Seq(Fields \cup Labels) /\ Len(p) = Len(r) + 1 /\ Len(r) \in Nat /\ FieldOf(p) = f
          /\ Prefix(r, p) /\ Prefix(p, x) /\ Prefix(r, x)
      <3>1. p \in Seq(Fields \cup Labels) /\ Len(p) = Len(r) + 1 /\ Len(r) \in Nat
        BY <1>1, <2>4, Longer
      <3> QED
        BY <1>1, <1>4, <2>4, <3>1, Beneath
    <2>6. ASSUME NEW q \in Paths, Prefix(q, x), Len(r) < Len(q) PROVE FieldOf(q) = f
      <3>1. q \in Seq(Fields \cup Labels) /\ x \in Seq(Fields \cup Labels) /\ Len(q) \in Nat
        BY <1>2, <2>3
      <3>2. Len(q) <= Len(x) /\ SubSeq(x, 1, Len(q)) = q
        BY <2>6 DEF Prefix
      <3>3. SubSeq(x, 1, Len(p)) = p
        BY <2>5 DEF Prefix
      <3>4. Len(q) = Len(x) \/ Len(q) = Len(p)
        <4>1. \A k, l, m, n : l \in Nat /\ m \in Nat /\ n = l + 2 /\ k = l + 1 /\ m <= n /\ l < m => m = n \/ m = k
          OBVIOUS
        <4>2. Len(r) < Len(q) /\ Len(q) <= Len(x) /\ Len(r) \in Nat /\ Len(x) = Len(r) + 2 /\ Len(q) \in Nat /\ Len(p) = Len(r) + 1
          BY <2>3, <2>5, <2>6, <3>1, <3>2
        <4> QED
          BY ONLY <4>1, <4>2
      <3>5. Len(q) = Len(x) => q = x
        BY <3>1, <3>2
      <3> QED
        BY <2>3, <2>5, <3>2, <3>3, <3>4, <3>5
    <2>7. Len(r) < Len(x)
      BY <2>3, <2>5
    <2> QED
      BY <2>3, <2>5, <2>6, <2>7
  <1> QED
    BY <1>3, <1>4 DEF Place

\* Which field raised an error.
LEMMA Culprit ==
    ASSUME op \in Operations, NEW f \in Fields, NEW r \in Rows(Home(f)), NEW e, Fault(f, r, e)
    PROVE  FieldOf(e) = f /\ Place(f, r, e)
  <1>1. Place(f, r, e)
    BY DEF Fault, Place
  <1> QED
    BY <1>1, Placed

\* The objects of a bucket are at one depth.
LEMMA SameLength ==
    ASSUME IInv, Trail, NEW b \in Buckets, NEW p \in ToSet(bucket[b].rows), NEW q \in ToSet(bucket[b].rows)
    PROVE  Len(p) = Len(q)
  <1> DEFINE T == {c \in Buckets : \E x, y \in ToSet(bucket[c].rows) : Len(x) # Len(y)}
  <1>1. op \in Operations /\ bucket["root"].rows = <<<<>>>> /\ \A c \in Buckets : Shaped(c)
    BY Known
  <1>2. ASSUME NEW c \in T \ {"root"} PROVE Home(op.owner[c]) \in T
    <2>1. PICK x \in ToSet(bucket[c].rows), y \in ToSet(bucket[c].rows) : Len(x) # Len(y)
      OBVIOUS
    <2>2. PICK f : f = op.owner[c]
      OBVIOUS
    <2>3. f \in Fields /\ Home(f) \in Buckets /\ Entered(c)
      BY <1>1, <2>2, Tree DEF Trail
    <2>4. PICK r \in ToSet(bucket[Home(f)].rows) : Under(f, r, x)
      BY <2>2, <2>3 DEF Entered
    <2>5. PICK s \in ToSet(bucket[Home(f)].rows) : Under(f, s, y)
      BY <2>2, <2>3 DEF Entered
    <2>6. r \in Rows(Home(f)) /\ s \in Rows(Home(f))
      BY <1>1, <2>3 DEF Shaped, ToSet
    <2>7. ASSUME NEW o \in Rows(Home(f)), NEW z, Under(f, o, z)
          PROVE  Len(z) = Len(o) + (IF f \in op.list THEN 2 ELSE 1) /\ Len(o) \in Nat
      <3>1. f \in ToSet(op.fields[Home(f)])
        BY <1>1, <2>3, Tree
      <3>2. Len(o) \in Nat
        BY <1>1, RowFacts DEF Rows
      <3>3. CASE f \in op.list
        <4>1. PICK i \in ToSet(op.items[f]) : z = Append(Append(o, f), i)
          BY <2>7, <3>3 DEF Under
        <4> QED
          BY <1>1, <2>3, <3>1, <3>2, <3>3, <4>1, ItemFacts
      <3>4. CASE f \notin op.list
        <4>1. z = Append(o, f)
          BY <2>7, <3>4 DEF Under
        <4> QED
          BY <1>1, <2>3, <3>1, <3>2, <3>4, <4>1, ValueFacts
      <3> QED
        BY <3>3, <3>4
    <2>8. Len(r) # Len(s)
      BY <2>1, <2>4, <2>5, <2>6, <2>7
    <2> QED
      BY <2>2, <2>3, <2>8
  <1>3. "root" \notin T
    BY <1>1 DEF ToSet
  <1>4. T \subseteq Buckets /\ Upward(T)
    BY <1>2 DEF Upward
  <1>5. T = {}
    <2> HIDE DEF T
    <2> QED
      BY <1>1, <1>3, <1>4, RootIn
  <1> QED
    BY <1>5

\* Rows of two buckets that are still to be used do not hold one error.
LEMMA Once ==
    ASSUME IInv, Trail, Blame, NEW b \in Buckets, NEW i \in DOMAIN bucket[b].rows, ~IsLive(b, i), Open(b),
           NEW c \in Buckets, NEW j \in DOMAIN bucket[c].rows, ~IsLive(c, j), Open(c),
           bucket[b].bubble[i].error = bucket[c].bubble[j].error
    PROVE  b = c
  <1>1. op \in Operations /\ \A d \in Buckets : Shaped(d)
    BY Known
  <1>2. PICK o, p, e : o = bucket[b].rows[i] /\ p = bucket[c].rows[j] /\ e = bucket[b].bubble[i].error
    OBVIOUS
  <1>3. Risen(o, e) /\ Risen(p, e) /\ e \in Paths
    BY <1>2 DEF Blame, Holds, Traced
  <1>4. o \in Rows(b) /\ p \in Rows(c)
    BY <1>1, <1>2 DEF Shaped
  <1>5. o \in Seq(Fields \cup Labels) /\ p \in Seq(Fields \cup Labels) /\ e \in Seq(Fields \cup Labels)
    <2>1. o \in Objects /\ p \in Objects
      BY <1>4 DEF Rows
    <2> QED
      BY <1>1, <1>3, <2>1, RowFacts, PathFacts
  <1>6. ASSUME NEW d \in Buckets, NEW x \in Rows(d), NEW y \in Seq(Fields \cup Labels), Len(y) < Len(x),
               Risen(y, e), Prefix(x, e)
        PROVE  ~Open(d)
    <2>1. x # <<>> /\ x \in Objects /\ BucketOf(x) = d
      BY <1>6 DEF Rows
    <2>2. x \in Paths /\ HasChild(FieldOf(x)) /\ d = Child(FieldOf(x))
      BY <2>1 DEF Objects, BucketOf, Paths
    <2>3. field[FieldOf(x)].state = "done" /\ FieldOf(x) \in Fields
      BY <1>1, <1>6, <2>2, PathEnds DEF Risen
    <2> QED
      BY <1>1, <2>2, <2>3, Tree DEF Open
  <1>7. Prefix(o, e) /\ Prefix(p, e)
    BY <1>3 DEF Risen
  <1>8. ~ (Len(o) < Len(p)) /\ ~ (Len(p) < Len(o))
    BY <1>3, <1>4, <1>5, <1>6, <1>7
  <1>9. o = p
    <2>1. Len(o) = Len(p)
      BY <1>5, <1>8
    <2> QED
      BY <1>5, <1>7, <2>1, Apart
  <1> QED
    BY <1>4, <1>9 DEF Rows

\* The nested objects of a field are the values that make one.
LEMMA TargetsAll ==
    ASSUME op \in Operations, NEW f \in Fields, HasChild(f), Shaped(Home(f)), NEW live, Settled(f, live),
           NEW k \in DOMAIN live, NEW r, r = bucket[Home(f)].rows[live[k]],
           NEW q, Under(f, r, q), op.outcome[q] = "ok"
    PROVE  q \in ToSet(Targets(f, live))
  <1>1. r \in Rows(Home(f)) /\ ValuePaths(f, live)[k] = Append(r, f) /\ DOMAIN ValuePaths(f, live) = DOMAIN live
    BY ValuesAre DEF ValuePaths
  <1>2. \E at \in DOMAIN Column(f, live) : Column(f, live)[at] = q
    <2>1. CASE f \in op.list
      <3>1. PICK i \in ToSet(op.items[f]) : q = Append(Append(r, f), i)
        BY <2>1 DEF Under
      <3>2. PICK n \in DOMAIN op.items[f] : i = op.items[f][n]
        BY DEF ToSet
      <3>3. /\ DOMAIN ItemsOf(f, Append(r, f)) = DOMAIN op.items[f]
            /\ ItemsOf(f, Append(r, f))[n] = q
        <4>1. op.outcome[Append(r, f)] = "ok"
          BY DEF Under
        <4>2. PICK items : items = ItemsOf(f, Append(r, f))
          OBVIOUS
        <4>3. /\ DOMAIN items = DOMAIN op.items[f]
              /\ \A m \in DOMAIN items : items[m] = Append(Append(r, f), op.items[f][m])
          BY <1>1, <2>1, <4>1, <4>2, ItemsAre
        <4> QED
          BY <3>1, <3>2, <4>2, <4>3
      <3>4. n \in DOMAIN ItemsOf(f, ValuePaths(f, live)[k])
        BY <1>1, <3>3
      <3>5. PICK at : at = Len(Column(f, SubSeq(live, 1, k - 1))) + n
        OBVIOUS
      <3>6. at \in DOMAIN Column(f, live) /\ Column(f, live)[at] = ItemsOf(f, ValuePaths(f, live)[k])[n]
        <4>1. \A m \in DOMAIN ItemsOf(f, ValuePaths(f, live)[k]) :
                 LET a == Len(Column(f, SubSeq(live, 1, k - 1))) + m IN
                 a \in DOMAIN Column(f, live) /\ Column(f, live)[a] = ItemsOf(f, ValuePaths(f, live)[k])[m]
          BY <2>1, ColumnAt
        <4> QED
          BY <3>4, <3>5, <4>1
      <3> QED
        BY <1>1, <3>3, <3>6
    <2>2. CASE f \notin op.list
      BY <1>1, <2>2 DEF Under, Column
    <2> QED
      BY <2>1, <2>2
  <1>3. PICK at \in DOMAIN Column(f, live) : Column(f, live)[at] = q
    BY <1>2
  <1>4. PICK column : column = Column(f, live)
    OBVIOUS
  <1>5. column \in Seq(Paths) /\ at \in DOMAIN column /\ column[at] = q
    BY <1>3, <1>4, ColumnIs
  <1>6. at \in ToSet(KeepOrigin(column))
    BY <1>5, OriginIs
  <1>7. PICK n \in DOMAIN KeepOrigin(column) : KeepOrigin(column)[n] = at
    BY <1>6 DEF ToSet
  <1>8. n \in DOMAIN Targets(f, live) /\ Targets(f, live)[n] = q
    BY <1>4, <1>5, <1>7, TargetsAre
  <1> QED
    BY <1>8 DEF ToSet

\* The value of field f of object r has error e in it.
Brings(f, r, e) == \E x \in Paths : Place(f, r, x) /\ Caused(f, r, x, e)

\* The rows of a nested bucket hold errors from below them.
LEMMA NestedIs ==
    ASSUME op \in Operations, NEW f, Blame
    PROVE  Nested(f)
  <1>1. ASSUME HasChild(f), NEW j \in DOMAIN bucket[Child(f)].rows, ~IsLive(Child(f), j)
        PROVE  /\ bucket[Child(f)].bubble[j].error \in Paths
               /\ Prefix(bucket[Child(f)].rows[j], bucket[Child(f)].bubble[j].error)
    <2>1. Child(f) \in Buckets
      BY <1>1 DEF HasChild, Child
    <2>2. Holds(Child(f), j)
      BY <1>1, <2>1 DEF Blame
    <2> QED
      BY <2>2 DEF Holds, Traced, Risen
  <1> QED
    BY <1>1 DEF Nested

\* An error that a completion brings was not reported before, and nobody else
\* has it.
LEMMA Brought ==
    ASSUME IInv, Trail, Blame, NEW f \in Fields, field[f].state # "done",
           NEW r \in ToSet(bucket[Home(f)].rows), NEW e, Brings(f, r, e)
    PROVE  /\ e \in Paths /\ Prefix(r, e) /\ Len(r) < Len(e) /\ e \notin ToSet(errors)
           /\ \A b \in Buckets : \A i \in DOMAIN bucket[b].rows :
                 ~IsLive(b, i) /\ Open(b) /\ (HasChild(f) => b # Child(f)) => bucket[b].bubble[i].error # e
           /\ \A q \in Paths : Prefix(q, e) /\ Len(r) < Len(q) => FieldOf(q) = f \/ field[FieldOf(q)].state = "done"
           /\ Fault(f, r, e) \/ Traced(e)
           /\ \A s \in ToSet(bucket[Home(f)].rows) : Brings(f, s, e) => s = r
  <1>1. /\ op \in Operations /\ Home(f) \in Buckets /\ \A b \in Buckets : Shaped(b)
        /\ \A s \in ToSet(bucket[Home(f)].rows) : s \in Rows(Home(f)) /\ s \in Seq(Fields \cup Labels)
    <2>1. op \in Operations /\ Home(f) \in Buckets /\ \A b \in Buckets : Shaped(b)
      BY Known, Tree
    <2>2. \A s \in ToSet(bucket[Home(f)].rows) : s \in Rows(Home(f))
      BY <2>1 DEF Shaped, ToSet
    <2>3. \A s \in Rows(Home(f)) : s \in Seq(Fields \cup Labels)
      BY <2>1, RowFacts DEF Rows
    <2> QED
      BY <2>1, <2>2, <2>3
  <1>2. PICK x \in Paths : Place(f, r, x) /\ Caused(f, r, x, e)
    BY DEF Brings
  <1>3. /\ \A p \in Paths : p \in Seq(Fields \cup Labels) /\ Len(p) \in Nat
        /\ r \in Rows(Home(f)) /\ r \in Seq(Fields \cup Labels) /\ Len(r) \in Nat
    BY <1>1, PathFacts
  <1>4. Prefix(x, e) /\ e \in Paths
    BY <1>1, <1>2, NestedIs, CausedBelow
  <1>5. /\ Prefix(r, x) /\ Len(r) < Len(x)
        /\ \A q \in Paths : Prefix(q, x) /\ Len(r) < Len(q) => FieldOf(q) = f
    BY <1>1, <1>2, <1>3, Placed
  <1>6. Prefix(r, e) /\ Len(x) <= Len(e) /\ Len(r) < Len(e)
    <2>1. Prefix(r, e) /\ Len(x) <= Len(e)
      BY <1>3, <1>4, <1>5, PrefixIs
    <2>2. \A k, l, m \in Nat : k < l /\ l <= m => k < m
      OBVIOUS
    <2> QED
      BY <1>3, <1>4, <1>5, <2>1, <2>2
  <1>7. \A s \in ToSet(bucket[Home(f)].rows) : Brings(f, s, e) => s = r
    <2>1. ASSUME NEW s \in ToSet(bucket[Home(f)].rows), Brings(f, s, e) PROVE s = r
      <3>1. PICK y \in Paths : Place(f, s, y) /\ Caused(f, s, y, e)
        BY <2>1 DEF Brings
      <3>2. Prefix(y, e)
        BY <1>1, <3>1, NestedIs, CausedBelow
      <3>3. Prefix(s, y)
        BY <1>1, <3>1, Placed
      <3>4. Prefix(s, e)
        BY <1>1, <1>3, <1>4, <3>2, <3>3, PrefixIs
      <3>5. Len(s) = Len(r)
        BY <1>1, SameLength
      <3> QED
        BY <1>1, <1>3, <1>4, <1>6, <3>4, <3>5, Apart
    <2> QED
      BY <2>1
  <1>8. CASE Fault(f, r, e)
    <2>1. FieldOf(e) = f /\ Place(f, r, e)
      BY <1>1, <1>8, Culprit
    <2>2. ~Traced(e)
      <3>1. ASSUME NEW g \in Fields, field[g].state = "done", NEW s \in ToSet(bucket[Home(g)].rows), Fault(g, s, e)
            PROVE  FALSE
        <4>1. Home(g) \in Buckets
          BY <1>1, Tree
        <4>2. s \in Rows(Home(g))
          BY <1>1, <4>1 DEF Shaped, ToSet
        <4>3. FieldOf(e) = g
          BY <1>1, <3>1, <4>2, Culprit
        <4> QED
          BY <2>1, <3>1, <4>3
      <3> QED
        BY <3>1 DEF Traced
    <2>3. e \notin ToSet(errors)
      BY <2>2 DEF Blame
    <2>4. \A b \in Buckets : \A i \in DOMAIN bucket[b].rows : ~IsLive(b, i) => bucket[b].bubble[i].error # e
      BY <2>2 DEF Blame, Holds
    <2>5. \A q \in Paths : Prefix(q, e) /\ Len(r) < Len(q) => FieldOf(q) = f
      BY <1>3, <1>1, <2>1, Placed
    <2> QED
      BY <1>4, <1>6, <1>7, <1>8, <2>3, <2>4, <2>5
  <1>9. CASE Carried(f, x, e)
    <2>1. PICK c, j : /\ HasChild(f) /\ c = Child(f) /\ j \in DOMAIN bucket[c].rows
                      /\ bucket[c].rows[j] = x /\ ~IsLive(c, j) /\ e = bucket[c].bubble[j].error
      BY <1>9 DEF Carried
    <2>2. c \in Buckets /\ op.owner[c] = f /\ Open(c)
      BY <1>1, <2>1, Tree DEF Open
    <2>3. Traced(e) /\ Risen(x, e) /\ e \notin ToSet(errors)
      BY <2>1, <2>2 DEF Blame, Holds
    <2>4. ASSUME NEW b \in Buckets, NEW i \in DOMAIN bucket[b].rows, ~IsLive(b, i), Open(b), b # c
          PROVE  bucket[b].bubble[i].error # e
      BY <2>1, <2>2, <2>4, Once
    <2>5. ASSUME NEW q \in Paths, Prefix(q, e), Len(r) < Len(q)
          PROVE  FieldOf(q) = f \/ field[FieldOf(q)].state = "done"
      <3>1. CASE Len(x) < Len(q)
        BY <2>3, <2>5, <3>1 DEF Risen
      <3>2. CASE ~ (Len(x) < Len(q))
        <4>1. q \in Seq(Fields \cup Labels) /\ x \in Seq(Fields \cup Labels) /\ e \in Seq(Fields \cup Labels)
          BY <1>3, <1>4
        <4>2. SubSeq(e, 1, Len(q)) = q /\ SubSeq(e, 1, Len(x)) = x /\ Len(x) <= Len(e)
          BY <1>4, <1>6, <2>5 DEF Prefix
        <4>3. Len(q) <= Len(x)
          BY <1>3, <3>2
        <4>4. Prefix(q, x)
          BY <4>1, <4>2, <4>3 DEF Prefix
        <4> QED
          BY <1>5, <2>5, <4>4
      <3> QED
        BY <3>1, <3>2
    <2> QED
      BY <1>4, <1>6, <1>7, <2>1, <2>3, <2>4, <2>5
  <1> QED
    BY <1>2, <1>8, <1>9 DEF Caused

\* What the completion of field f does to one row: the errors its list absorbed,
\* those of the write, and the row's bubble before and after.
RowReports(f, r, old, new, list, end) ==
    /\ list \in Seq(Paths) /\ end \in Seq(Paths)
    /\ IsInjective(list) /\ IsInjective(end) /\ (list = <<>> \/ end = <<>>)
    /\ \A e \in ToSet(list) \cup ToSet(end) : Brings(f, r, e)
    /\ new = old \/ (list = <<>> /\ end = <<>> /\ Bubbles(new) /\ Brings(f, r, new.error))
    /\ new = Null => \A q \in Paths : Nulled(f, r, q) /\ op.outcome[q] # "null" =>
                        \E e \in ToSet(list) \cup ToSet(end) : Prefix(q, e)

LEMMA RowReported ==
    ASSUME op \in Operations, NEW f \in Fields, Shaped(Home(f)), Nested(f), NEW live, Settled(f, live),
           NEW children, Given(f, live, children),
           NEW values, values = CompleteColumn(f, Column(f, live), children),
           NEW k \in DOMAIN live, NEW r, r = bucket[Home(f)].rows[live[k]],
           NEW row, row = CompleteRow(f, live, k, values), Value(f, r) = Received(f, row.value),
           NEW old, NEW new, new = WriteValue(old, f, row.value)
    PROVE  RowReports(f, r, old.bubble, new.bubble, row.errors, new.errors)
  <1>1. /\ row.errors \in Seq(Paths) /\ IsInjective(row.errors)
        /\ Bubbles(row.value) => row.errors = <<>> /\ Brings(f, r, row.value.error)
        /\ \A e \in ToSet(row.errors) : Brings(f, r, e)
        /\ \A q \in Paths : Nulled(f, r, q) /\ op.outcome[q] # "null" =>
              \/ \E e \in ToSet(row.errors) : Prefix(q, e)
              \/ Bubbles(row.value) /\ f \notin op.nonNull /\ Prefix(q, row.value.error)
    BY RowBlames DEF Brings
  <1>2. PICK v : v = row.value
    OBVIOUS
  <1>3. \A e : e \in Paths => <<e>> \in Seq(Paths) /\ IsInjective(<<e>>) /\ ToSet(<<e>>) = {e}
    BY DEF IsInjective, ToSet
  <1>4. <<>> \in Seq(Paths) /\ IsInjective(<<>>) /\ ToSet(<<>>) = {}
    BY DEF IsInjective, ToSet
  <1>5. CASE Bubbles(v) /\ f \in op.nonNull
    <2>1. new.bubble = v /\ new.errors = <<>>
      BY <1>2, <1>5 DEF WriteValue
    <2>2. v # Null
      BY <1>5, Tags
    <2> QED
      BY <1>1, <1>2, <1>4, <1>5, <2>1, <2>2 DEF RowReports
  <1>6. CASE Bubbles(v) /\ f \notin op.nonNull
    <2>1. new.bubble = old.bubble /\ new.errors = <<v.error>>
      BY <1>2, <1>6 DEF WriteValue
    <2>2. v.error \in Paths
      BY <1>1, <1>2, <1>6, CausedBelow DEF Brings
    <2>3. ToSet(new.errors) = {v.error} /\ new.errors \in Seq(Paths) /\ IsInjective(new.errors)
      BY <1>3, <2>1, <2>2
    <2> QED
      BY <1>1, <1>2, <1>4, <1>6, <2>1, <2>3 DEF RowReports
  <1>7. CASE ~Bubbles(v)
    <2>1. new.bubble = old.bubble /\ new.errors = <<>>
      BY <1>2, <1>7 DEF WriteValue
    <2> QED
      BY <1>1, <1>2, <1>4, <1>7, <2>1 DEF RowReports
  <1> QED
    BY <1>5, <1>6, <1>7

\* scatter, as far as errors go.
Reports(f, live, lists, ends, bubbles) ==
    LET s == bucket[Home(f)] IN
    /\ errors' = errors \o FlattenSeq(lists) \o FlattenSeq(ends)
    /\ DOMAIN lists = DOMAIN live /\ DOMAIN ends = DOMAIN live
    /\ lists \in Seq(Seq(Paths)) /\ ends \in Seq(Seq(Paths))
    /\ \A k \in DOMAIN live :
          RowReports(f, s.rows[live[k]], s.bubble[live[k]], bubbles[live[k]], lists[k], ends[k])
    /\ \A i \in DOMAIN s.rows : i \notin ToSet(live) => bubbles[i] = s.bubble[i]
    /\ field' = [field EXCEPT ![f] = [state |-> "done", live |-> live]]
    /\ \E c, outputs : Becomes(Home(f), s.phase, c, outputs, bubbles)

LEMMA ScatterReports ==
    ASSUME op \in Operations, bucket = [b \in Buckets |-> bucket[b]],
           NEW f \in Fields, Shaped(Home(f)), Nested(f), NEW live, Settled(f, live), NEW children,
           HasChild(f) => \A k \in DOMAIN Targets(f, live) : Alike(children[k], Synchronous[Targets(f, live)[k]]),
           Given(f, live, children), Scatter(f, live, children)
    PROVE  \E lists, ends, bubbles : Reports(f, live, lists, ends, bubbles)
  <1> DEFINE b == Home(f)
             s == bucket[b]
             column == Column(f, live)
  <1>1. b \in Buckets
    BY Tree
  <1>2. PICK values \in {CompleteColumn(f, Column(f, live), children)} :
        \E completed \in {[k \in DOMAIN live |-> CompleteRow(f, live, k, values)]} :
        \E written \in {[i \in ToSet(live) |->
                            WriteValue(RowOf(Home(f), i), f, completed[Slot(live, i)].value)]} :
        LET rows == ToSet(live) IN
        /\ bucket' = [bucket EXCEPT
              ![Home(f)].outputs = [i \in DOMAIN @ |-> IF i \in rows THEN written[i].outputs ELSE @[i]],
              ![Home(f)].bubble = [i \in DOMAIN @ |-> IF i \in rows THEN written[i].bubble ELSE @[i]],
              ![Home(f)].cursor = IF bucket[Home(f)].phase = "walk" THEN @ + 1 ELSE @]
        /\ errors' = errors \o FlattenSeq([k \in DOMAIN live |-> completed[k].errors])
                            \o FlattenSeq([k \in DOMAIN live |-> written[live[k]].errors])
        /\ field' = [field EXCEPT ![f] = [state |-> "done", live |-> live]]
    BY Zenon DEF Scatter
  <1>3. PICK completed \in {[k \in DOMAIN live |-> CompleteRow(f, live, k, values)]} :
        \E written \in {[i \in ToSet(live) |->
                            WriteValue(RowOf(Home(f), i), f, completed[Slot(live, i)].value)]} :
        LET rows == ToSet(live) IN
        /\ bucket' = [bucket EXCEPT
              ![Home(f)].outputs = [i \in DOMAIN @ |-> IF i \in rows THEN written[i].outputs ELSE @[i]],
              ![Home(f)].bubble = [i \in DOMAIN @ |-> IF i \in rows THEN written[i].bubble ELSE @[i]],
              ![Home(f)].cursor = IF bucket[Home(f)].phase = "walk" THEN @ + 1 ELSE @]
        /\ errors' = errors \o FlattenSeq([k \in DOMAIN live |-> completed[k].errors])
                            \o FlattenSeq([k \in DOMAIN live |-> written[live[k]].errors])
        /\ field' = [field EXCEPT ![f] = [state |-> "done", live |-> live]]
    BY <1>2, Zenon
  <1>4. PICK written \in {[i \in ToSet(live) |->
                              WriteValue(RowOf(Home(f), i), f, completed[Slot(live, i)].value)]} :
        /\ bucket' = [bucket EXCEPT
              ![Home(f)].outputs = [i \in DOMAIN @ |-> IF i \in ToSet(live) THEN written[i].outputs ELSE @[i]],
              ![Home(f)].bubble = [i \in DOMAIN @ |-> IF i \in ToSet(live) THEN written[i].bubble ELSE @[i]],
              ![Home(f)].cursor = IF bucket[Home(f)].phase = "walk" THEN @ + 1 ELSE @]
        /\ errors' = errors \o FlattenSeq([k \in DOMAIN live |-> completed[k].errors])
                            \o FlattenSeq([k \in DOMAIN live |-> written[live[k]].errors])
        /\ field' = [field EXCEPT ![f] = [state |-> "done", live |-> live]]
    BY <1>3, Zenon
  <1>5. \A i \in DOMAIN column : Alike(values[i], SingleValue(Synchronous, f, column[i]))
    <2>1. values = CompleteColumn(f, column, children) /\ column \in Seq(Paths)
      BY ColumnIs
    <2>2. HasChild(f) => \A k \in DOMAIN KeepOrigin(column) :
                            Alike(children[k], Synchronous[column[KeepOrigin(column)[k]]])
      BY TargetsAre
    <2> HIDE DEF column
    <2> QED
      BY <2>1, <2>2, ColumnCompleted
  <1>6. \A k \in DOMAIN live : completed[k] = CompleteRow(f, live, k, values)
    OBVIOUS
  <1>7. \A k \in DOMAIN live : Value(f, s.rows[live[k]]) = Received(f, completed[k].value)
    BY <1>5, <1>6, RowCompleted
  <1>8. ASSUME NEW k \in DOMAIN live
        PROVE  /\ live[k] \in ToSet(live) /\ live[k] \in DOMAIN s.rows
               /\ written[live[k]] = WriteValue(RowOf(b, live[k]), f, completed[k].value)
    <2>1. live[k] \in ToSet(live)
      BY DEF ToSet
    <2>2. \A j \in DOMAIN live : live[j] = live[k] => j = k
      BY DEF Settled, IsInjective
    <2>3. Slot(live, live[k]) = k
      BY <2>2 DEF Slot
    <2>4. live \in Seq(DOMAIN s.rows)
      BY DEF Settled
    <2>5. live[k] \in DOMAIN s.rows
      BY <2>4
    <2> QED
      BY <2>1, <2>3, <2>5
  <1>9. ASSUME NEW k \in DOMAIN live
        PROVE  RowReports(f, s.rows[live[k]], s.bubble[live[k]], written[live[k]].bubble,
                          completed[k].errors, written[live[k]].errors)
    <2>1. values = CompleteColumn(f, Column(f, live), children)
      OBVIOUS
    <2>2. PICK r, row, old, new : r = s.rows[live[k]] /\ row = completed[k] /\ old = RowOf(b, live[k]) /\ new = written[live[k]]
      OBVIOUS
    <2>3. /\ row = CompleteRow(f, live, k, values) /\ Value(f, r) = Received(f, row.value)
          /\ new = WriteValue(old, f, row.value) /\ r = bucket[Home(f)].rows[live[k]]
      BY <1>6, <1>7, <1>8, <2>2
    <2>4. old.bubble = s.bubble[live[k]]
      BY <2>2 DEF RowOf
    <2>5. RowReports(f, r, old.bubble, new.bubble, row.errors, new.errors)
      BY ONLY op \in Operations, f \in Fields, Shaped(Home(f)), Nested(f), Settled(f, live), Given(f, live, children),
              k \in DOMAIN live, <2>1, <2>3, RowReported
    <2> QED
      BY <2>2, <2>4, <2>5
  <1> HIDE DEF column
  <1> DEFINE lists == [k \in DOMAIN live |-> completed[k].errors]
             ends == [k \in DOMAIN live |-> written[live[k]].errors]
             outputs == [i \in DOMAIN s.outputs |-> IF i \in ToSet(live) THEN written[i].outputs ELSE s.outputs[i]]
             bubbles == [i \in DOMAIN s.bubble |-> IF i \in ToSet(live) THEN written[i].bubble ELSE s.bubble[i]]
             cursor == IF s.phase = "walk" THEN s.cursor + 1 ELSE s.cursor
  <1>10. Becomes(b, s.phase, cursor, outputs, bubbles)
    <2>1. bucket' = [bucket EXCEPT ![b].outputs = outputs, ![b].bubble = bubbles, ![b].cursor = cursor]
      BY <1>1, <1>4
    <2>2. IsBucket(s)
      BY DEF Shaped
    <2> HIDE DEF outputs, bubbles, cursor
    <2> QED
      BY <1>1, <2>1, <2>2, Updated
  <1>11. lists \in Seq(Seq(Paths)) /\ ends \in Seq(Seq(Paths)) /\ DOMAIN lists = DOMAIN live /\ DOMAIN ends = DOMAIN live
    <2>1. DOMAIN live = 1..Len(live) /\ Len(live) \in Nat
      BY DEF Settled
    <2>2. lists \in [1..Len(live) -> Seq(Paths)] /\ ends \in [1..Len(live) -> Seq(Paths)]
      BY <1>9, <2>1 DEF RowReports
    <2> HIDE DEF lists, ends
    <2>3. \A m \in Nat : \A g \in [1..m -> Seq(Paths)] : g \in Seq(Seq(Paths))
      OBVIOUS
    <2> QED
      BY <2>1, <2>2, <2>3
  <1>12. \A i \in DOMAIN s.rows : bubbles[i] = IF i \in ToSet(live) THEN written[i].bubble ELSE s.bubble[i]
    BY DEF Shaped
  <1>13. ASSUME NEW k \in DOMAIN live
         PROVE  RowReports(f, s.rows[live[k]], s.bubble[live[k]], bubbles[live[k]], lists[k], ends[k])
    <2>1. bubbles[live[k]] = written[live[k]].bubble
      BY <1>8, <1>12
    <2>2. lists[k] = completed[k].errors /\ ends[k] = written[live[k]].errors
      OBVIOUS
    <2> HIDE DEF bubbles, lists, ends
    <2> QED
      BY <1>9, <2>1, <2>2
  <1>14. errors' = errors \o FlattenSeq(lists) \o FlattenSeq(ends)
    BY <1>4
  <1>15. field' = [field EXCEPT ![f] = [state |-> "done", live |-> live]]
    BY <1>4
  <1> HIDE DEF bubbles, lists, ends, outputs, cursor
  <1>16. Reports(f, live, lists, ends, bubbles)
    BY ONLY <1>10, <1>11, <1>12, <1>13, <1>14, <1>15 DEF Reports
  <1> QED
    BY ONLY <1>16

\* A completion that scatters its values.
LEMMA ScatterBlame ==
    ASSUME IInv, Trail, Blame, NEW f \in Fields, NEW live, Ready(f, live), field[f].state # "done", NEW children,
           HasChild(f) => \A k \in DOMAIN Targets(f, live) : Alike(children[k], Synchronous[Targets(f, live)[k]]),
           Given(f, live, children),
           HasChild(f) /\ Targets(f, live) # <<>> => bucket[Child(f)].phase = "done",
           Scatter(f, live, children), op' = op
    PROVE  Blame'
  <1>1. PICK b, s : b = Home(f) /\ s = bucket[b]
    OBVIOUS
  <1>2. /\ op \in Operations /\ b \in Buckets /\ \A d \in Buckets : Shaped(d)
        /\ bucket = [d \in Buckets |-> bucket[d]] /\ field = [g \in Fields |-> field[g]]
        /\ errors \in Seq(Paths) /\ Nested(f) /\ Settled(f, live) /\ Shaped(b)
    <2>1. op \in Operations /\ b \in Buckets
      BY <1>1, Known, Tree
    <2>2. Nested(f)
      BY <2>1, NestedIs
    <2> QED
      BY <2>1, <2>2, Known DEF Ready
  <1>3. PICK lists, ends, bubbles : Reports(f, live, lists, ends, bubbles)
    BY <1>1, <1>2, ScatterReports
  <1>4. PICK c, outputs : Becomes(b, s.phase, c, outputs, bubbles)
    BY <1>1, <1>3 DEF Reports
  <1> DEFINE Own(k) == s.rows[live[k]]
             Told(k) == ToSet(lists[k]) \cup ToSet(ends[k])
  <1>5. /\ errors' = errors \o FlattenSeq(lists) \o FlattenSeq(ends)
        /\ DOMAIN lists = DOMAIN live /\ DOMAIN ends = DOMAIN live
        /\ lists \in Seq(Seq(Paths)) /\ ends \in Seq(Seq(Paths))
        /\ \A k \in DOMAIN live : RowReports(f, Own(k), s.bubble[live[k]], bubbles[live[k]], lists[k], ends[k])
        /\ \A i \in DOMAIN s.rows : i \notin ToSet(live) => bubbles[i] = s.bubble[i]
        /\ field' = [field EXCEPT ![f] = [state |-> "done", live |-> live]]
    BY <1>1, <1>3 DEF Reports
  <1>6. /\ \A k \in DOMAIN live : live[k] \in DOMAIN s.rows /\ Own(k) \in ToSet(s.rows)
        /\ \A j, k \in DOMAIN live : Own(j) = Own(k) => j = k
    <2>1. live \in Seq(DOMAIN s.rows) /\ IsInjective(live) /\ IsInjective(s.rows)
      BY <1>1, <1>2 DEF Settled, Shaped
    <2>2. \A k \in DOMAIN live : live[k] \in DOMAIN s.rows
      BY <2>1
    <2> QED
      BY <2>1, <2>2 DEF IsInjective, ToSet
  <1>7. /\ Buckets' = Buckets /\ Fields' = Fields /\ Paths' = Paths
        /\ \A g : Home(g)' = Home(g) /\ Child(g)' = Child(g) /\ HasChild(g)' = HasChild(g)
    BY OpStays
  <1>8. /\ bucket'[b].rows = s.rows /\ bucket'[b].bubble = bubbles /\ bucket'[b].phase = s.phase
        /\ \A d \in Buckets : d # b => bucket'[d] = bucket[d]
    BY <1>4, <1>1 DEF Becomes
  <1>9. field'[f].state = "done" /\ \A g \in Fields : g # f => field'[g] = field[g]
    BY <1>2, <1>5
  <1>10. ASSUME NEW k \in DOMAIN live
         PROVE  /\ lists[k] \in Seq(Paths) /\ ends[k] \in Seq(Paths)
                /\ IsInjective(lists[k]) /\ IsInjective(ends[k]) /\ (lists[k] = <<>> \/ ends[k] = <<>>)
                /\ \A e \in Told(k) : Brings(f, Own(k), e)
                /\ \/ bubbles[live[k]] = s.bubble[live[k]]
                   \/ lists[k] = <<>> /\ ends[k] = <<>> /\ Brings(f, Own(k), bubbles[live[k]].error)
    BY <1>5 DEF RowReports
  <1>11. ASSUME NEW k \in DOMAIN live, NEW e, Brings(f, Own(k), e)
         PROVE  /\ e \in Paths /\ Prefix(Own(k), e) /\ Len(Own(k)) < Len(e) /\ e \notin ToSet(errors)
                /\ \A d \in Buckets : \A i \in DOMAIN bucket[d].rows :
                      ~IsLive(d, i) /\ Open(d) /\ (HasChild(f) => d # Child(f)) => bucket[d].bubble[i].error # e
                /\ \A q \in Paths : Prefix(q, e) /\ Len(Own(k)) < Len(q) => FieldOf(q) = f \/ field[FieldOf(q)].state = "done"
                /\ Fault(f, Own(k), e) \/ Traced(e)
                /\ \A j \in DOMAIN live : Brings(f, Own(j), e) => j = k
    <2>1. PICK r : r = Own(k)
      OBVIOUS
    <2>2. r \in ToSet(bucket[Home(f)].rows) /\ Brings(f, r, e)
      BY <1>1, <1>6, <1>11, <2>1
    <2>3. /\ e \in Paths /\ Prefix(r, e) /\ Len(r) < Len(e) /\ e \notin ToSet(errors)
          /\ \A d \in Buckets : \A i \in DOMAIN bucket[d].rows :
                ~IsLive(d, i) /\ Open(d) /\ (HasChild(f) => d # Child(f)) => bucket[d].bubble[i].error # e
          /\ \A q \in Paths : Prefix(q, e) /\ Len(r) < Len(q) => FieldOf(q) = f \/ field[FieldOf(q)].state = "done"
          /\ Fault(f, r, e) \/ Traced(e)
          /\ \A t \in ToSet(bucket[Home(f)].rows) : Brings(f, t, e) => t = r
      BY <2>2, Brought
    <2>4. \A j \in DOMAIN live : Brings(f, Own(j), e) => Own(j) = Own(k)
      BY <1>1, <1>6, <2>1, <2>3
    <2> HIDE DEF Own
    <2>5. \A j \in DOMAIN live : Brings(f, Own(j), e) => j = k
      BY <1>6, <2>4
    <2> QED
      BY <2>1, <2>3, <2>5
  <1> HIDE DEF Own, Told
  <1>12. /\ ToSet(errors') = ToSet(errors) \cup {e \in Paths : \E k \in DOMAIN live : e \in Told(k)}
         /\ IsInjective(errors')
    <2>1. PICK absorbed, reported : absorbed = FlattenSeq(lists) /\ reported = FlattenSeq(ends)
      OBVIOUS
    <2>2. /\ absorbed \in Seq(Paths)
          /\ \A e : e \in ToSet(absorbed) <=> \E k \in DOMAIN live : e \in ToSet(lists[k])
          /\ IsInjective(absorbed)
      <3>1. ASSUME NEW j \in DOMAIN live, NEW k \in DOMAIN live, j # k, NEW e \in ToSet(lists[j]), e \in ToSet(lists[k])
            PROVE  FALSE
        BY <1>10, <1>11, <3>1 DEF Told
      <3>2. \A j, k \in DOMAIN lists : j # k => ToSet(lists[j]) \cap ToSet(lists[k]) = {}
        BY <1>5, <3>1
      <3>3. \A k \in DOMAIN lists : IsInjective(lists[k])
        BY <1>5, <1>10
      <3> QED
        BY <1>5, <2>1, <3>2, <3>3, Flattened
    <2>3. /\ reported \in Seq(Paths)
          /\ \A e : e \in ToSet(reported) <=> \E k \in DOMAIN live : e \in ToSet(ends[k])
          /\ IsInjective(reported)
      <3>1. ASSUME NEW j \in DOMAIN live, NEW k \in DOMAIN live, j # k, NEW e \in ToSet(ends[j]), e \in ToSet(ends[k])
            PROVE  FALSE
        BY <1>10, <1>11, <3>1 DEF Told
      <3>2. \A j, k \in DOMAIN ends : j # k => ToSet(ends[j]) \cap ToSet(ends[k]) = {}
        BY <1>5, <3>1
      <3>3. \A k \in DOMAIN ends : IsInjective(ends[k])
        BY <1>5, <1>10
      <3> QED
        BY <1>5, <2>1, <3>2, <3>3, Flattened
    <2>4. ASSUME NEW e, e \in ToSet(absorbed) \cup ToSet(reported) PROVE e \notin ToSet(errors)
      BY <1>10, <1>11, <2>2, <2>3, <2>4 DEF Told
    <2>5. ASSUME NEW e, e \in ToSet(absorbed), e \in ToSet(reported) PROVE FALSE
      <3>1. PICK j \in DOMAIN live : e \in ToSet(lists[j])
        BY <2>2, <2>5
      <3>2. PICK k \in DOMAIN live : e \in ToSet(ends[k])
        BY <2>3, <2>5
      <3>3. j = k
        <4>1. e \in Told(j) /\ e \in Told(k)
          BY <3>1, <3>2 DEF Told
        <4>2. Brings(f, Own(j), e) /\ Brings(f, Own(k), e)
          BY <1>10, <4>1
        <4> QED
          BY ONLY <1>11, <4>2, j \in DOMAIN live, k \in DOMAIN live
      <3>4. ToSet(<<>>) = {}
        BY DEF ToSet
      <3> QED
        BY <1>10, <3>1, <3>2, <3>3, <3>4
    <2>6. PICK first : first = errors \o absorbed
      OBVIOUS
    <2>7. first \in Seq(Paths) /\ ToSet(first) = ToSet(errors) \cup ToSet(absorbed) /\ IsInjective(first)
      <3>1. IsInjective(errors) /\ ToSet(errors) \cap ToSet(absorbed) = {}
        BY <2>4 DEF Blame
      <3> QED
        BY <1>2, <2>2, <2>6, <3>1, Concatenated
    <2>8. errors' = first \o reported
      BY <1>5, <2>1, <2>6
    <2>9. ToSet(first \o reported) = ToSet(first) \cup ToSet(reported) /\ IsInjective(first \o reported)
      <3>1. ToSet(first) \cap ToSet(reported) = {}
        BY <2>4, <2>5, <2>7
      <3> QED
        BY <2>3, <2>7, <3>1, Concatenated
    <2>10. \A e \in ToSet(absorbed) \cup ToSet(reported) : e \in Paths
      BY <1>10, <1>11, <2>2, <2>3 DEF Told
    <2> QED
      BY <2>2, <2>3, <2>7, <2>8, <2>9, <2>10 DEF Told
  <1>13. Grows
    <2>1. \A d \in Buckets : bucket'[d].rows = bucket[d].rows /\ bucket'[d].phase = bucket[d].phase
      BY <1>1, <1>8
    <2>2. \A g \in Fields : field[g].state = "done" => field'[g].state = "done"
      BY <1>9
    <2> QED
      BY <1>12, <2>1, <2>2 DEF Grows
  <1>14. ASSUME NEW k \in DOMAIN live, NEW e, Brings(f, Own(k), e) PROVE Traced(e)'
    <2>1. CASE Traced(e)
      BY <1>2, <1>13, <2>1, Growing
    <2>2. CASE Fault(f, Own(k), e)
      <3>1. Fault(f, Own(k), e)' <=> Fault(f, Own(k), e)
        BY <1>7 DEF Fault, Under
      <3>2. Own(k) \in ToSet(bucket'[Home(f)'].rows)
        BY <1>1, <1>6, <1>7, <1>8
      <3>3. e \in Paths' /\ f \in Fields'
        BY <1>7, <1>11, <1>14
      <3> QED
        BY <1>9, <2>2, <3>1, <3>2, <3>3 DEF Traced
    <2> QED
      BY <1>11, <1>14, <2>1, <2>2
  <1>15. \A e \in ToSet(errors') : Traced(e)'
    <2>1. ASSUME NEW e \in ToSet(errors') PROVE Traced(e)'
      <3>1. CASE e \in ToSet(errors)
        BY <1>2, <1>13, <3>1, Growing DEF Blame
      <3>2. CASE e \notin ToSet(errors)
        BY <1>10, <1>12, <1>14, <3>2
      <3> QED
        BY <3>1, <3>2
    <2> QED
      BY <2>1
  <1>16. ~ (Open(Child(f))' /\ HasChild(f))
    <2>1. HasChild(f) => op.owner[Child(f)] = f /\ Child(f) # "root"
      BY <1>2, Tree
    <2> QED
      BY <1>7, <1>9, <2>1 DEF Open
  <1>17. ASSUME NEW d \in Buckets, NEW i \in DOMAIN bucket[d].rows, ~IsLive(d, i), bucket'[d].bubble[i] = bucket[d].bubble[i]
         PROVE  Holds(d, i)'
    <2>1. PICK o, e : o = bucket[d].rows[i] /\ e = bucket[d].bubble[i].error
      OBVIOUS
    <2>2. Traced(e) /\ Risen(o, e) /\ (Open(d) => e \notin ToSet(errors))
      BY <1>17, <2>1 DEF Blame, Holds
    <2>3. Traced(e)' /\ Risen(o, e)' /\ (Open(d)' => Open(d))
      BY <1>2, <1>13, <2>2, Growing
    <2>4. Open(d)' => e \notin ToSet(errors')
      <3>1. SUFFICES ASSUME Open(d)', e \in ToSet(errors') PROVE FALSE
        OBVIOUS
      <3>2. PICK k \in DOMAIN live : e \in Told(k)
        BY <1>12, <2>2, <2>3, <3>1
      <3>3. HasChild(f) => d # Child(f)
        BY <1>7, <1>16, <3>1
      <3> QED
        BY <1>10, <1>11, <1>17, <2>1, <2>3, <3>1, <3>2, <3>3
    <2>5. o = bucket'[d].rows[i] /\ e = bucket'[d].bubble[i].error
      BY <1>1, <1>8, <1>17, <2>1
    <2> QED
      BY <2>3, <2>4, <2>5 DEF Holds
  <1>18. ASSUME NEW k \in DOMAIN live, lists[k] = <<>>, ends[k] = <<>>, Brings(f, Own(k), bubbles[live[k]].error)
         PROVE  Holds(b, live[k])'
    <2>1. PICK o, e : o = Own(k) /\ e = bubbles[live[k]].error
      OBVIOUS
    <2>2. Traced(e)'
      BY <1>14, <1>18, <2>1
    <2>3. Risen(o, e)'
      <3>1. ASSUME NEW q \in Paths, Prefix(q, e), Len(o) < Len(q) PROVE field'[FieldOf(q)].state = "done"
        <4>1. FieldOf(q) = f \/ field[FieldOf(q)].state = "done"
          BY <1>11, <1>18, <2>1, <3>1
        <4>2. FieldOf(q) \in Fields
          BY <1>2, PathEnds
        <4> QED
          BY <1>9, <4>1, <4>2
      <3>2. \A q : FieldOf(q)' = FieldOf(q)
        BY <1>7 DEF FieldOf
      <3>3. Prefix(o, e) /\ Len(o) < Len(e)
        BY <1>11, <1>18, <2>1
      <3> QED
        BY <1>7, <3>1, <3>2, <3>3 DEF Risen
    <2>4. e \notin ToSet(errors')
      <3>1. SUFFICES ASSUME e \in ToSet(errors') PROVE FALSE
        OBVIOUS
      <3>2. e \notin ToSet(errors)
        BY <1>11, <1>18, <2>1
      <3>3. PICK j \in DOMAIN live : e \in Told(j)
        BY <1>12, <3>1, <3>2
      <3>4. j = k
        BY <1>10, <1>11, <1>18, <2>1, <3>3
      <3>5. ToSet(<<>>) = {}
        BY DEF ToSet
      <3> QED
        BY <1>18, <3>3, <3>4, <3>5 DEF Told
    <2>5. o = bucket'[b].rows[live[k]] /\ e = bucket'[b].bubble[live[k]].error
      BY <1>8, <2>1 DEF Own
    <2> QED
      BY <2>2, <2>3, <2>4, <2>5 DEF Holds
  <1>19. ASSUME NEW d \in Buckets, NEW i \in DOMAIN bucket'[d].rows, ~(bucket'[d].bubble[i] = Null) PROVE Holds(d, i)'
    <2>1. i \in DOMAIN bucket[d].rows
      BY <1>1, <1>8
    <2>2. CASE bucket'[d].bubble[i] = bucket[d].bubble[i]
      BY <1>17, <1>19, <2>1, <2>2 DEF IsLive
    <2>3. CASE bucket'[d].bubble[i] # bucket[d].bubble[i]
      <3>1. d = b /\ bubbles[i] # s.bubble[i]
        BY <1>1, <1>8, <2>3
      <3>2. i \in ToSet(live)
        BY <1>1, <1>5, <2>1, <3>1
      <3>3. PICK k \in DOMAIN live : live[k] = i
        BY <3>2 DEF ToSet
      <3> QED
        BY <1>10, <1>18, <3>1, <3>3
    <2> QED
      BY <2>2, <2>3
  <1>20. ASSUME NEW i \in DOMAIN bucket'[b].rows, bucket'[b].bubble[i] = Null, NEW r, r = bucket'[b].rows[i]
         PROVE  Explained(f, r)' /\ Finished(f, r)'
    <2>1. i \in DOMAIN s.rows /\ bubbles[i] = Null /\ r = s.rows[i]
      BY <1>8, <1>20
    <2>2. i \in ToSet(live)
      <3>1. bubbles[i] # s.bubble[i] => i \in ToSet(live)
        BY <1>5, <2>1
      <3>2. s.bubble[i] = Null => i \in ToSet(live)
        BY <1>1, <2>1 DEF Ready, IsLive
      <3> QED
        BY <2>1, <3>1, <3>2
    <2>3. PICK k \in DOMAIN live : live[k] = i
      BY <2>2 DEF ToSet
    <2>4. r = Own(k)
      BY <2>1, <2>3 DEF Own
    <2>5. \A q \in Paths : Nulled(f, r, q) /\ op.outcome[q] # "null" => \E e \in Told(k) : Prefix(q, e)
      BY <1>5, <2>1, <2>3, <2>4 DEF RowReports, Told
    <2>6. \A e \in Told(k) : e \in ToSet(errors')
      BY <1>10, <1>11, <1>12
    <2>7. \A q : Nulled(f, r, q)' <=> Nulled(f, r, q)
      <3>1. Value(f, r)' = Value(f, r)
        BY OpStays
      <3> QED
        BY <3>1 DEF Nulled, Null, List
    <2>8. Explained(f, r)'
      BY <1>7, <2>5, <2>6, <2>7 DEF Explained
    <2>9. ASSUME HasChild(f), NEW q \in Paths, Under(f, r, q), op.outcome[q] = "ok"
          PROVE  q \in ToSet(bucket[Child(f)].rows) /\ bucket[Child(f)].phase = "done"
      <3>1. r = bucket[Home(f)].rows[live[k]]
        BY <1>1, <2>1, <2>3
      <3>2. q \in ToSet(Targets(f, live))
        BY <1>1, <1>2, <2>9, <3>1, TargetsAll
      <3>3. Targets(f, live) # <<>>
        BY <3>2 DEF ToSet
      <3> QED
        BY <2>9, <3>2, <3>3 DEF Given
    <2>10. Finished(f, r)
      BY <2>9 DEF Finished
    <2> QED
      BY <1>2, <1>13, <2>8, <2>10, Growing
  <1>21. ASSUME NEW g \in Fields, field'[g].state = "done" PROVE Accounted(g)'
    <2>1. ASSUME NEW i \in DOMAIN bucket'[Home(g)].rows, bucket'[Home(g)].bubble[i] = Null, NEW r, r = bucket'[Home(g)].rows[i]
          PROVE  Explained(g, r)' /\ Finished(g, r)'
      <3>1. CASE g = f
        BY <1>1, <1>20, <2>1, <3>1
      <3>2. CASE g # f
        <4>1. field[g].state = "done" /\ Home(g) \in Buckets
          BY <1>2, <1>9, <1>21, <3>2, Tree
        <4>2. i \in DOMAIN bucket[Home(g)].rows /\ r = bucket[Home(g)].rows[i]
          BY <1>1, <1>8, <2>1, <4>1
        <4>3. IsLive(Home(g), i)
          <5>1. CASE Home(g) = b
            <6>1. bubbles[i] = Null
              BY <1>8, <2>1, <5>1
            <6>2. i \in ToSet(live) => \E k \in DOMAIN live : live[k] = i
              BY DEF ToSet
            <6>3. \A k \in DOMAIN live : bubbles[live[k]] = s.bubble[live[k]] \/ Bubbles(bubbles[live[k]])
              BY <1>5 DEF RowReports
            <6>4. ~Bubbles(Null)
              BY Tags
            <6>5. s.bubble[i] = Null
              BY <1>1, <1>5, <4>2, <5>1, <6>1, <6>2, <6>3, <6>4
            <6> QED
              BY <1>1, <5>1, <6>5 DEF IsLive
          <5>2. CASE Home(g) # b
            BY <1>8, <2>1, <4>1, <5>2 DEF IsLive
          <5> QED
            BY <5>1, <5>2
        <4>4. Explained(g, r) /\ Finished(g, r)
          BY <4>1, <4>2, <4>3 DEF Blame, Accounted
        <4> QED
          BY <1>2, <1>13, <4>4, Growing
      <3> QED
        BY <3>1, <3>2
    <2> QED
      BY <1>7, <2>1 DEF Accounted, IsLive, Null
  <1>22. \A d \in Buckets' : \A i \in DOMAIN bucket'[d].rows : ~IsLive(d, i)' => Holds(d, i)'
    BY <1>7, <1>19 DEF IsLive, Null
  <1>23. \A g \in Fields' : field'[g].state = "done" => Accounted(g)'
    BY <1>7, <1>21
  <1> QED
    BY <1>12, <1>15, <1>22, <1>23 DEF Blame

LEMMA SettleBlame ==
    ASSUME IInv, Trail, Blame, NEW f \in Fields, NEW live, Begins(f, live), NEW after, Settle(f, live, after), op' = op
    PROVE  Blame'
  <1>1. Targets(f, live) = <<>> /\ Scatter(f, live, <<>>) /\ Ready(f, live) /\ field[f].state # "done"
    BY DEF Settle, Begins
  <1>2. PICK none : none = <<>>
    OBVIOUS
  <1>3. \A k \in DOMAIN Targets(f, live) : Alike(none[k], Synchronous[Targets(f, live)[k]])
    BY <1>1
  <1>4. Given(f, live, none)
    BY <1>1 DEF Given
  <1> QED
    BY <1>1, <1>2, <1>3, <1>4, ScatterBlame

LEMMA ReturnBlame ==
    ASSUME IInv, Trail, Blame, NEW f \in Fields, field[f].state = "child", bucket[Child(f)].phase = "done",
           Turn(f, Passed(f)), Scatter(f, field[f].live, assemble(Child(f))), op' = op
    PROVE  Blame'
  <1>1. PICK live, children : live = field[f].live /\ children = assemble(Child(f))
    OBVIOUS
  <1>2. /\ Ready(f, live)
        /\ HasChild(f) => \A k \in DOMAIN Targets(f, live) : Alike(children[k], Synchronous[Targets(f, live)[k]])
    BY <1>1, Returned
  <1>3. Given(f, live, children)
    BY <1>1, Known DEF Given, Below
  <1> QED
    BY <1>1, <1>2, <1>3, ScatterBlame

\* A bucket moves on, and nothing is written.
LEMMA PhaseBlame ==
    ASSUME IInv, Blame, op' = op, errors' = errors,
           NEW b \in Buckets, NEW phase, NEW c, Becomes(b, phase, c, bucket[b].outputs, bucket[b].bubble),
           bucket[b].phase = "done" => phase = "done",
           \A f \in Fields : field[f].state = "done" => field'[f].state = "done",
           \A f \in Fields : field'[f].state = "done" /\ field[f].state # "done" =>
                                \A i \in DOMAIN bucket[Home(f)].rows : ~IsLive(Home(f), i)
    PROVE  Blame'
  <1>1. \A d \in Buckets : bucket'[d].rows = bucket[d].rows /\ bucket'[d].bubble = bucket[d].bubble
    BY DEF Becomes
  <1>2. \A d \in Buckets : bucket[d].phase = "done" => bucket'[d].phase = "done"
    BY DEF Becomes
  <1> QED
    BY <1>1, <1>2, Later

LEMMA RunStepsBlame ==
    ASSUME IInv, Blame, RunSteps
    PROVE  Blame'
  <1>1. /\ stack # <<>> /\ bucket[Top].phase = "steps" /\ op' = op /\ field' = field /\ errors' = errors
        /\ \E phase \in {"walk", "loading"} : \E c : bucket' = [bucket EXCEPT ![Top].phase = phase, ![Top].cursor = c]
    BY DEF RunSteps
  <1>2. PICK b, phase, c : /\ b \in Buckets /\ b = Top
                           /\ bucket' = [bucket EXCEPT ![b].phase = phase, ![b].cursor = c]
    BY <1>1, Running
  <1>3. Becomes(b, phase, c, bucket[b].outputs, bucket[b].bubble)
    BY <1>2, Known, Moved
  <1> QED
    BY <1>1, <1>2, <1>3, PhaseBlame

LEMMA ChildSuspendedBlame ==
    ASSUME IInv, Blame, ChildSuspended
    PROVE  Blame'
  <1>1. /\ stack # <<>> /\ bucket[Top].phase = "walk" /\ bucket' = [bucket EXCEPT ![Top].cursor = @ + 1]
        /\ op' = op /\ field' = field /\ errors' = errors
    BY DEF ChildSuspended, AtField
  <1>2. PICK b, c : b \in Buckets /\ b = Top /\ c = bucket[b].cursor + 1
    BY <1>1, Running
  <1>3. Becomes(b, "walk", c, bucket[b].outputs, bucket[b].bubble)
    <2>1. bucket' = [bucket EXCEPT ![b].cursor = c]
      BY <1>1, <1>2, Known
    <2> QED
      BY <1>1, <1>2, <2>1, Known, Moved
  <1> QED
    BY <1>1, <1>2, <1>3, PhaseBlame

LEMMA EndWalkBlame ==
    ASSUME IInv, Blame, EndWalk
    PROVE  Blame'
  <1>1. /\ stack # <<>> /\ bucket[Top].phase = "walk" /\ op' = op /\ field' = field /\ errors' = errors
        /\ \E phase \in {"done", "gather"} : bucket' = [bucket EXCEPT ![Top].phase = phase]
    BY DEF EndWalk
  <1>2. PICK b, phase : b \in Buckets /\ b = Top /\ bucket' = [bucket EXCEPT ![b].phase = phase]
    BY <1>1, Running
  <1>3. Becomes(b, phase, bucket[b].cursor, bucket[b].outputs, bucket[b].bubble)
    BY <1>2, Known, Moved
  <1> QED
    BY <1>1, <1>2, <1>3, PhaseBlame

LEMMA ResumeStepsBlame ==
    ASSUME IInv, Blame, NEW b \in Buckets, ResumeSteps(b)
    PROVE  Blame'
  <1>1. /\ bucket[b].phase = "loading" /\ bucket' = [bucket EXCEPT ![b].phase = "steps", ![b].cursor = @ + 1]
        /\ op' = op /\ field' = field /\ errors' = errors
    BY DEF ResumeSteps
  <1>2. PICK c : c = bucket[b].cursor + 1
    OBVIOUS
  <1>3. Becomes(b, "steps", c, bucket[b].outputs, bucket[b].bubble)
    <2>1. bucket' = [bucket EXCEPT ![b].phase = "steps", ![b].cursor = c]
      BY <1>1, <1>2, Known
    <2> QED
      BY <2>1, Known, Moved
  <1> QED
    BY <1>1, <1>3, PhaseBlame

LEMMA EndGatherBlame ==
    ASSUME IInv, Blame, NEW b \in Buckets, EndGather(b)
    PROVE  Blame'
  <1>1. /\ bucket' = [bucket EXCEPT ![b].phase = "done"] /\ op' = op /\ field' = field /\ errors' = errors
    BY DEF EndGather
  <1>2. Becomes(b, "done", bucket[b].cursor, bucket[b].outputs, bucket[b].bubble)
    BY <1>1, Known, Moved
  <1> QED
    BY <1>1, <1>2, PhaseBlame

LEMMA SuspendBlame ==
    ASSUME IInv, Blame, NEW f \in Fields, NEW live, Begins(f, live), NEW after, Suspend(f, live, after), op' = op
    PROVE  Blame'
  <1>1. PICK b, c, next : b \in Buckets /\ b = Home(f) /\ c = Passed(f) /\ next = Awaited(f, live, after)
    BY Known, Tree
  <1>2. field' = [field EXCEPT ![f] = [state |-> next.stage, live |-> live]] /\ errors' = errors
    BY <1>1 DEF Suspend
  <1>3. next.stage # "done"
    BY <1>1 DEF Awaited
  <1>4. Becomes(b, bucket[b].phase, c, bucket[b].outputs, bucket[b].bubble)
    BY <1>1, Onward DEF Suspend, Passed
  <1>5. \A g \in Fields : field'[g] = field[g] \/ (field'[g].state # "done" /\ field[g].state # "done")
    BY <1>2, <1>3, Known DEF Begins
  <1> QED
    BY <1>1, <1>2, <1>4, <1>5, PhaseBlame

LEMMA SkipBlame ==
    ASSUME IInv, Blame, NEW f \in Fields, field[f].state = "todo",
           \A i \in DOMAIN bucket[Home(f)].rows : ~IsLive(Home(f), i),
           field' = [field EXCEPT ![f].state = "done"], bucket' = [bucket EXCEPT ![Home(f)].cursor = @ + 1],
           op' = op, errors' = errors
    PROVE  Blame'
  <1>1. PICK b, c : b \in Buckets /\ b = Home(f) /\ c = bucket[b].cursor + 1
    BY Known, Tree
  <1>2. bucket' = [bucket EXCEPT ![b].cursor = c]
    BY <1>1, Known
  <1>3. Becomes(b, bucket[b].phase, c, bucket[b].outputs, bucket[b].bubble)
    BY <1>1, <1>2, Known, Moved
  <1>4. field'[f].state = "done" /\ \A g \in Fields : g # f => field'[g] = field[g]
    BY Known
  <1> QED
    BY <1>1, <1>3, <1>4, PhaseBlame

LEMMA DescendBlame ==
    ASSUME IInv, Trail, Blame, NEW f \in Fields, NEW live, Begins(f, live), NEW after, Descend(f, live, after), op' = op
    PROVE  Blame'
  <1>1. HasChild(f)
    BY DEF Descend, Targets
  <1>2. PICK d, rows, new :
           d \in Buckets \ {"root"} /\ d = Child(f) /\ rows = Targets(f, live) /\ new = NewBucket(rows, d, "steps")
    BY <1>1, Known, Tree
  <1>3. /\ field' = [field EXCEPT ![f] = [state |-> "child", live |-> live]]
        /\ bucket' = [bucket EXCEPT ![d] = new] /\ errors' = errors
    BY <1>2 DEF Descend
  <1>4. new.rows = rows /\ \A i \in DOMAIN rows : new.bubble[i] = Null
    BY <1>2 DEF NewBucket
  <1>5. bucket'[d] = new /\ \A x \in Buckets : x # d => bucket'[x] = bucket[x]
    BY <1>2, <1>3, Known
  <1>6. \A g \in Fields : field'[g] = field[g] \/ (field'[g].state # "done" /\ field[g].state # "done")
    BY <1>3, Known DEF Begins
  <1>7. bucket[d].phase = "idle"
    BY <1>1, <1>2, Known DEF Below, Begins
  <1>8. bucket[d].rows = <<>>
    BY <1>2, <1>7 DEF Trail, Entered
  <1>9. \A g \in ToSet(op.fields[d]) : g \in Fields /\ field[g].state = "todo"
    BY <1>2, <1>7, Known, Tree DEF Progress, ToSet
  <1>10. \A x \in Buckets :
            \/ bucket'[x].rows = bucket[x].rows /\ bucket'[x].bubble = bucket[x].bubble
            \/ /\ bucket[x].rows = <<>> /\ \A i \in DOMAIN bucket'[x].rows : bucket'[x].bubble[i] = Null
               /\ \A g \in ToSet(op.fields[x]) : field'[g].state # "done"
    BY <1>4, <1>5, <1>6, <1>8, <1>9
  <1>11. \A x \in Buckets : bucket[x].phase = "done" => bucket'[x].phase = "done"
    BY <1>5, <1>7
  <1> QED
    BY <1>3, <1>6, <1>10, <1>11, Later

LEMMA CompleteFieldBlame ==
    ASSUME IInv, Trail, Blame, CompleteField
    PROVE  Blame'
  <1>1. stack # <<>> /\ AtField(Top) /\ field[Current(Top)].state = "todo" /\ op' = op
    BY DEF CompleteField
  <1>2. PICK f, b, live :
           /\ f \in Fields /\ b \in Buckets
           /\ f = Current(Top) /\ b = Top /\ Home(f) = b /\ live = LiveRows(Top)
    BY <1>1, AtTurn, Running
  <1> f \in Fields /\ b \in Buckets
    BY <1>2
  <1>3. \/ /\ live = <<>> /\ errors' = errors
           /\ field' = [field EXCEPT ![f].state = "done"] /\ bucket' = [bucket EXCEPT ![b].cursor = @ + 1]
        \/ Suspend(f, live, "start") \/ Descend(f, live, "start") \/ Settle(f, live, "start")
    BY <1>2 DEF CompleteField
  <1>4. Begins(f, live) /\ (live = <<>> => \A i \in DOMAIN bucket[Home(f)].rows : ~IsLive(Home(f), i))
    BY <1>1, <1>2, WalkBegins
  <1> QED
    BY <1>1, <1>2, <1>3, <1>4, SkipBlame, SuspendBlame, DescendBlame, SettleBlame

LEMMA ResumeFieldBlame ==
    ASSUME IInv, Trail, Blame, NEW f \in Fields, ResumeField(f)
    PROVE  Blame'
  <1>1. PICK live, stage : live = field[f].live /\ stage = field[f].state
    OBVIOUS
  <1>2. (Suspend(f, live, stage) \/ Descend(f, live, stage) \/ Settle(f, live, stage)) /\ op' = op
    BY <1>1 DEF ResumeField
  <1>3. Begins(f, live)
    BY <1>1, LoopBegins
  <1> QED
    BY <1>2, <1>3, SuspendBlame, DescendBlame, SettleBlame

LEMMA RunBlame ==
    ASSUME IInv, Trail, Blame, Run
    PROVE  Blame'
  <1>1. ASSUME ChildReturned PROVE Blame'
    <2>1. stack # <<>> /\ AtField(Top) /\ field[Current(Top)].state = "child" /\ op' = op
      BY <1>1 DEF ChildReturned
    <2>2. PICK f \in Fields : f = Current(Top)
      BY <2>1, AtTurn
    <2>3. field[f].state = "child" /\ Turn(f, Passed(f))
      BY <2>1, <2>2, AtTurn
    <2>4. bucket[Child(f)].phase = "done" /\ Scatter(f, field[f].live, assemble(Child(f)))
      BY <1>1, <2>2 DEF ChildReturned
    <2> QED
      BY <2>1, <2>3, <2>4, ReturnBlame
  <1> QED
    BY <1>1, RunStepsBlame, CompleteFieldBlame, ChildSuspendedBlame, EndWalkBlame DEF Run

LEMMA StillBlame ==
    ASSUME IInv, Blame, op' = op, bucket' = bucket, field' = field, errors' = errors
    PROVE  Blame'
  BY Later

LEMMA BlameStarts ==
    ASSUME Init
    PROVE  Blame
  <1>1. errors = <<>> /\ \A f \in Fields : field[f].state # "done"
    BY DEF Init
  <1>2. ASSUME NEW b \in Buckets, NEW i \in DOMAIN bucket[b].rows PROVE IsLive(b, i)
    BY <1>2 DEF Init, NewBucket, IsLive
  <1>3. IsInjective(<<>>) /\ ToSet(<<>>) = {}
    BY DEF IsInjective, ToSet
  <1> QED
    BY <1>1, <1>2, <1>3 DEF Blame

LEMMA BlameKeeps ==
    ASSUME IInv, Trail, Blame, [Next]_vars
    PROVE  Blame'
  <1>1. ASSUME NEW f \in Fields, ResumeParent(f) PROVE Blame'
    BY <1>1, ReturnBlame DEF ResumeParent, Turn, Passed
  <1>2. ASSUME Respond PROVE Blame'
    BY <1>2, StillBlame DEF Respond
  <1>3. CASE Run
    BY <1>3, RunBlame
  <1>4. CASE Loop
    BY <1>1, <1>2, <1>4, ResumeStepsBlame, EndGatherBlame, ResumeFieldBlame DEF Loop
  <1>5. CASE Await
    BY <1>5, StillBlame DEF Await, Acquire, Release
  <1>6. CASE UNCHANGED vars
    BY <1>6, StillBlame DEF vars
  <1> QED
    BY <1>3, <1>4, <1>5, <1>6 DEF Next

-----------------------------------------------------------------------------
(* The response.                                                           *)

\* What is below a null is null.
LEMMA NullBelow ==
    ASSUME op \in Operations, NEW q \in Seq(Fields \cup Labels), NEW e \in Seq(Fields \cup Labels), Prefix(q, e),
           At(SynchronousData, q) = Null
    PROVE  At(SynchronousData, e) = Null
  <1>1. SynchronousData.tag # "list"
    BY ObjectIs, RowFacts
  <1>2. PICK m, n : m = Len(q) /\ n = Len(e) - Len(q)
    OBVIOUS
  <1>3. m \in Nat /\ n \in Nat /\ Len(e) = m + n /\ SubSeq(e, 1, m) = q
    BY <1>2 DEF Prefix
  <1> DEFINE good == {k \in 1..n : At(SynchronousData, SubSeq(e, 1, m + k)) = Null}
  <1>4. ASSUME NEW k \in 0..(n - 1), At(SynchronousData, SubSeq(e, 1, m + k)) = Null
        PROVE  At(SynchronousData, SubSeq(e, 1, m + (k + 1))) = Null
    <2>1. PICK p, x : p = SubSeq(e, 1, m + k) /\ x = e[m + (k + 1)]
      OBVIOUS
    <2>2. p \in Seq(Fields \cup Labels) /\ x \in Fields \cup Labels /\ SubSeq(e, 1, m + (k + 1)) = Append(p, x)
      <3>1. m + k \in 0..Len(e) /\ m + (k + 1) \in 1..Len(e) /\ m + (k + 1) = (m + k) + 1
        BY <1>3
      <3>2. \A j \in 0..(Len(e) - 1) : SubSeq(e, 1, j + 1) = Append(SubSeq(e, 1, j), e[j + 1])
        OBVIOUS
      <3>3. m + k \in 0..(Len(e) - 1)
        BY <1>3
      <3> QED
        BY <2>1, <3>1, <3>2, <3>3
    <2>3. At(SynchronousData, Append(p, x)) = Into(At(SynchronousData, p), Append(p, x), Len(p) + 1)
      BY <1>1, <2>2, AtIs
    <2>4. At(SynchronousData, p) = Null
      BY <1>4, <2>1
    <2>5. \A s, j : Into(Null, s, j) = Null
      BY DEF Into, Null
    <2> QED
      BY <2>2, <2>3, <2>4, <2>5
  <1>5. 1 \in good \/ n = 0
    <2>1. CASE n # 0
      <3>1. 0 \in 0..(n - 1) /\ 1 \in 1..n /\ m + 0 = m /\ 0 + 1 = 1
        BY <1>3, <2>1
      <3>2. At(SynchronousData, SubSeq(e, 1, m + 0)) = Null
        BY <1>3, <3>1
      <3>3. At(SynchronousData, SubSeq(e, 1, m + (0 + 1))) = Null
        BY <1>4, <3>1, <3>2
      <3> QED
        BY <3>1, <3>3
    <2> QED
      BY <2>1
  <1>6. \A k \in 1..n : k \in good /\ k < n => k + 1 \in good
    <2>1. ASSUME NEW k \in 1..n, k \in good, k < n PROVE k + 1 \in good
      <3>1. k \in 0..(n - 1) /\ k + 1 \in 1..n
        BY <1>3, <2>1
      <3> QED
        BY <1>4, <2>1, <3>1
    <2> QED
      BY <2>1
  <1>7. 1..n \subseteq good
    <2> HIDE DEF good
    <2> QED
      BY <1>3, <1>5, <1>6, UpTo
  <1>8. CASE n = 0
    BY <1>3, <1>8
  <1>9. CASE n # 0
    <2>1. n \in 1..n
      BY <1>3, <1>9
    <2>2. At(SynchronousData, SubSeq(e, 1, m + n)) = Null
      BY <1>7, <2>1
    <2>3. SubSeq(e, 1, m + n) = e
      BY <1>3
    <2> QED
      BY <2>2, <2>3
  <1> QED
    BY <1>8, <1>9

Items(f, path) == [n \in DOMAIN op.items[f] |-> ItemValue(Synchronous, f, Append(path, op.items[f][n]))]

\* The value of a field whose object does not bubble.
LEMMA ValueIs ==
    ASSUME op \in Operations, NEW f, NEW r, NEW path, path = Append(r, f), ~Bubbles(Value(f, r))
    PROVE  /\ op.outcome[path] = "error" => Value(f, r) = Null
           /\ op.outcome[path] = "null" => Value(f, r) = Null /\ f \notin op.nonNull
           /\ f \in op.list /\ op.outcome[path] = "ok" =>
                 \/ Value(f, r) = Null
                 \/ /\ Value(f, r) = List(Items(f, path))
                    /\ \A n \in DOMAIN op.items[f] : ~Bubbles(Items(f, path)[n])
  <1>1. PICK v, w : /\ v = Value(f, r)
                    /\ w = IF f \in op.list /\ op.outcome[path] = "ok" THEN ListValue(Synchronous, f, path)
                           ELSE SingleValue(Synchronous, f, path)
    OBVIOUS
  <1>2. v = IF f \in op.nonNull THEN Required(w) ELSE Absorb(w)
    BY <1>1 DEF Value, FieldValue
  <1>3. op.outcome[path] = "error" => v = Null
    <2>1. op.outcome[path] = "error" => w = Broken
      BY <1>1 DEF SingleValue
    <2> QED
      BY <1>1, <1>2, <2>1, Tags DEF Required, Absorb
  <1>4. op.outcome[path] = "null" => v = Null /\ f \notin op.nonNull
    <2>1. op.outcome[path] = "null" => w = Null
      BY <1>1 DEF SingleValue
    <2> QED
      BY <1>1, <1>2, <2>1, Tags DEF Required, Absorb
  <1>5. ASSUME f \in op.list, op.outcome[path] = "ok", v # Null
        PROVE  v = List(Items(f, path)) /\ \A n \in DOMAIN op.items[f] : ~Bubbles(Items(f, path)[n])
    <2>1. PICK items : items = Items(f, path)
      OBVIOUS
    <2>2. w = IF \E n \in DOMAIN op.items[f] : Bubbles(items[n]) THEN Broken ELSE List(items)
      BY <1>1, <1>5, <2>1 DEF ListValue, Items
    <2>3. w # Broken
      BY <1>1, <1>2, <1>5, Tags DEF Required, Absorb
    <2>4. w = List(items) /\ \A n \in DOMAIN op.items[f] : ~Bubbles(items[n])
      BY <2>2, <2>3
    <2>5. v = w
      BY <1>2, <2>4, Tags DEF Required, Absorb
    <2> QED
      BY <2>1, <2>4, <2>5
  <1> QED
    BY <1>1, <1>3, <1>4, <1>5

\* An item that is an error, or that is null and may not be, is null in the data.
LEMMA ItemNull ==
    ASSUME op \in Operations, NEW f, NEW path, NEW n \in DOMAIN op.items[f], NEW e, e = Append(path, op.items[f][n]),
           op.outcome[e] = "error" \/ (op.outcome[e] = "null" /\ f \in op.itemNonNull),
           ~Bubbles(Items(f, path)[n])
    PROVE  Items(f, path)[n] = Null
  <1>1. Items(f, path)[n] = ItemValue(Synchronous, f, e)
    BY DEF Items
  <1>2. CASE op.outcome[e] = "error"
    <2>1. SingleValue(Synchronous, f, e) = Broken
      BY <1>2 DEF SingleValue
    <2> QED
      BY <1>1, <2>1, Tags DEF ItemValue, Required, Absorb
  <1>3. CASE op.outcome[e] = "null" /\ f \in op.itemNonNull
    <2>1. SingleValue(Synchronous, f, e) = Null
      BY <1>3 DEF SingleValue
    <2> QED
      BY <1>1, <1>3, <2>1, Tags DEF ItemValue, Required, Absorb
  <1> QED
    BY <1>2, <1>3

\* The data has a null where an error was raised, or above.
LEMMA FaultNull ==
    ASSUME op \in Operations, NEW f \in Fields, NEW r \in Rows(Home(f)), Shown(r) \/ Hidden(r), NEW e, Fault(f, r, e)
    PROVE  At(SynchronousData, e) = Null
  <1>1. Place(f, r, e)
    BY Culprit
  <1>2. e \in Paths /\ e \in Seq(Fields \cup Labels) /\ r \in Seq(Fields \cup Labels) /\ Prefix(r, e)
    <2>1. e \in Paths /\ Prefix(r, e)
      BY <1>1, Placed
    <2>2. e \in Seq(Fields \cup Labels)
      BY <2>1, PathFacts
    <2>3. r \in Seq(Fields \cup Labels)
      BY RowFacts DEF Rows
    <2> QED
      BY <2>1, <2>2, <2>3
  <1>3. \A q \in Paths \cup {<<>>} : q \in Seq(Fields \cup Labels)
    <2>1. <<>> \in Seq(Fields \cup Labels)
      OBVIOUS
    <2> QED
      BY <2>1, PathFacts
  <1>4. CASE Hidden(r)
    <2>1. PICK q \in Paths \cup {<<>>} : Prefix(q, r) /\ At(SynchronousData, q) = Null
      BY <1>4 DEF Hidden
    <2>2. Prefix(q, e)
      BY <1>2, <1>3, <2>1, PrefixIs
    <2> QED
      BY <1>2, <1>3, <2>1, <2>2, NullBelow
  <1>5. CASE Shown(r)
    <2>1. PICK path : path = Append(r, f)
      OBVIOUS
    <2>2. ~Bubbles(Value(f, r)) /\ At(SynchronousData, path) = Value(f, r)
      BY <1>5, <2>1, FieldShown DEF Value
    <2>3. CASE e = path
      BY <2>1, <2>2, <2>3, Tags, Beneath, ValueIs DEF Fault
    <2>4. CASE e # path
      <3>1. /\ f \in op.list /\ Under(f, r, e)
            /\ op.outcome[e] = "error" \/ (op.outcome[e] = "null" /\ f \in op.itemNonNull)
        BY <2>1, <2>4 DEF Fault
      <3>2. op.outcome[path] = "ok" /\ \E i \in ToSet(op.items[f]) : e = Append(path, i)
        BY <2>1, <3>1 DEF Under
      <3>3. PICK n \in DOMAIN op.items[f] : e = Append(path, op.items[f][n])
        BY <3>2 DEF ToSet
      <3>4. path \in Seq(Fields \cup Labels) /\ Prefix(path, e) /\ path # <<>> /\ path[Len(path)] = f
        <4>1. path \in Seq(Fields \cup Labels) /\ Prefix(path, e)
          BY <2>1, <3>1, Beneath
        <4> QED
          BY <1>2, <2>1, <4>1, Longer
      <3>5. CASE Value(f, r) = Null
        BY <1>2, <2>2, <3>4, <3>5, NullBelow
      <3>6. CASE Value(f, r) # Null
        <4>1. PICK items : items = Items(f, path)
          OBVIOUS
        <4>2. At(SynchronousData, path) = List(items) /\ ~Bubbles(items[n])
          BY <2>1, <2>2, <3>1, <3>2, <3>6, <4>1, ValueIs
        <4>3. items[n] = Null
          BY <3>1, <3>3, <4>1, <4>2, ItemNull
        <4>4. At(SynchronousData, Append(path, op.items[f][n])) = items[n]
          BY <3>1, <3>4, <4>2, ItemShown
        <4> QED
          BY <3>3, <4>3, <4>4
      <3> QED
        BY <3>5, <3>6
    <2> QED
      BY <2>3, <2>4
  <1> QED
    BY <1>4, <1>5

\* An object of a finished bucket, that the data shows.
LEMMA Complete ==
    ASSUME IInv, Trail, Blame, NEW f \in Fields, NEW r \in ToSet(bucket[Home(f)].rows), ~Hidden(r),
           bucket[Home(f)].phase = "done"
    PROVE  r \in Rows(Home(f)) /\ Shown(r) /\ Explained(f, r) /\ Finished(f, r)
  <1>1. PICK b \in Buckets : b = Home(f)
    BY Known, Tree
  <1>2. PICK i \in DOMAIN bucket[b].rows : bucket[b].rows[i] = r
    BY <1>1 DEF ToSet
  <1>3. Shown(r) /\ r \in Rows(b)
    <2>1. Shown(r)
      BY <1>1, Seen
    <2>2. bucket[b].rows \in Seq(Rows(b))
      BY Known DEF Shaped
    <2> QED
      BY <1>2, <2>1, <2>2
  <1>4. IsLive(b, i)
    <2>1. ~IsLive(b, i) => Synchronous[r] = Broken
      BY <1>2, Known DEF Right
    <2> QED
      BY <1>3, <2>1, Tags DEF Shown
  <1>5. Pending(b) = {} /\ \A k \in DOMAIN op.fields[b] : field[op.fields[b][k]].state # "todo"
    BY <1>1, <1>2, <1>4, Known DEF Progress
  <1>6. field[f].state = "done"
    <2>1. f \in ToSet(op.fields[b])
      BY <1>1, Known, Tree
    <2>2. field[f].state # "todo"
      BY <1>5, <2>1 DEF ToSet
    <2> QED
      BY <1>5, <2>1, <2>2 DEF Pending
  <1>7. Accounted(f)
    BY <1>6 DEF Blame
  <1> QED
    BY <1>1, <1>2, <1>3, <1>4, <1>7 DEF Accounted

\* Every object that no null hides was completed.
LEMMA Arrived ==
    ASSUME IInv, Trail, Blame, bucket["root"].phase = "done", NEW b \in Buckets, NEW p \in Rows(b), ~Hidden(p)
    PROVE  p \in ToSet(bucket[b].rows) /\ bucket[b].phase = "done"
  <1> DEFINE T == {c \in Buckets : \E x \in Rows(c) : ~Hidden(x) /\ ~ (x \in ToSet(bucket[c].rows) /\ bucket[c].phase = "done")}
  <1>1. op \in Operations /\ bucket["root"].rows = <<<<>>>>
    BY Known
  <1>2. ASSUME NEW c \in T \ {"root"} PROVE Home(op.owner[c]) \in T
    <2>1. PICK x \in Rows(c) : ~Hidden(x) /\ ~ (x \in ToSet(bucket[c].rows) /\ bucket[c].phase = "done")
      OBVIOUS
    <2>2. PICK f : f = op.owner[c]
      OBVIOUS
    <2>3. f \in Fields /\ HasChild(f) /\ Child(f) = c /\ Home(f) \in Buckets
      BY <1>1, <2>2, Tree
    <2>4. x # <<>>
      <3>1. BucketOf(x) = c
        BY DEF Rows
      <3> QED
        BY <3>1 DEF BucketOf
    <2>5. x \in Paths /\ HasChild(FieldOf(x)) /\ Child(FieldOf(x)) = c /\ op.outcome[x] = "ok" /\ x[Len(x)] \notin op.list
      BY <2>4 DEF Rows, Objects, BucketOf, Paths
    <2>6. FieldOf(x) = f
      <3>1. FieldOf(x) \in Fields
        BY <1>1, <2>5, PathEnds
      <3> QED
        BY <1>1, <2>2, <2>5, <3>1, Tree
    <2>7. PICK r \in Rows(Home(f)) :
             x = Append(r, f) \/ (f \in op.list /\ \E i \in ToSet(op.items[f]) : x = Append(Append(r, f), i))
      BY <1>1, <2>5, <2>6, PathEnds
    <2>8. PICK path : path = Append(r, f)
      OBVIOUS
    <2>9. /\ r \in Seq(Fields \cup Labels) /\ path \in Paths /\ path \in Seq(Fields \cup Labels) /\ x \in Seq(Fields \cup Labels)
          /\ Prefix(r, path) /\ Prefix(path, x) /\ Prefix(r, x)
      <3>1. r \in Seq(Fields \cup Labels)
        BY <1>1, RowFacts DEF Rows
      <3>2. f \in ToSet(op.fields[Home(f)])
        BY <1>1, <2>3, Tree
      <3>3. path \in Paths
        BY <1>1, <2>3, <2>8, <3>2, Written
      <3>4. path \in Seq(Fields \cup Labels) /\ x \in Seq(Fields \cup Labels)
        BY <1>1, <2>5, <3>3, PathFacts
      <3>5. Prefix(r, path)
        BY <2>3, <2>8, <3>1, PrefixIs
      <3>6. Prefix(path, x)
        <4>1. CASE x = path
          BY <3>4, <4>1, PrefixIs
        <4>2. CASE x # path
          <5>1. PICK i \in ToSet(op.items[f]) : x = Append(path, i) /\ f \in op.list
            BY <2>7, <2>8, <4>2
          <5>2. i \in Labels
            BY <5>1 DEF Labels
          <5> QED
            BY <3>4, <5>1, <5>2, PrefixIs
        <4> QED
          BY <4>1, <4>2
      <3>7. Prefix(r, x)
        BY <3>1, <3>4, <3>5, <3>6, PrefixIs
      <3> QED
        BY <3>1, <3>3, <3>4, <3>5, <3>6, <3>7
    <2>10. ~Hidden(r)
      BY <1>1, <2>1, <2>9, HiddenBelow
    <2>11. ~ (r \in ToSet(bucket[Home(f)].rows) /\ bucket[Home(f)].phase = "done")
      <3>1. SUFFICES ASSUME r \in ToSet(bucket[Home(f)].rows), bucket[Home(f)].phase = "done" PROVE FALSE
        OBVIOUS
      <3>2. Shown(r) /\ Finished(f, r)
        BY <2>3, <2>10, <3>1, Complete
      <3>3. ~Bubbles(Value(f, r)) /\ At(SynchronousData, path) = Value(f, r)
        BY <1>1, <2>3, <2>8, <3>2, FieldShown DEF Value
      <3>4. Value(f, r) # Null
        BY <2>1, <2>9, <3>3 DEF Hidden
      <3>5. op.outcome[path] = "ok"
        <4>1. op.outcome[path] \in {"ok", "null", "error"}
          BY <1>1, <2>9, PathFacts
        <4> QED
          BY <1>1, <2>8, <3>3, <3>4, <4>1, ValueIs
      <3>6. Under(f, r, x)
        <4>1. CASE f \in op.list
          <5>1. x # path
            <6>1. path[Len(path)] = f
              BY <2>3, <2>8, <2>9, Longer
            <6> QED
              BY <2>5, <4>1, <6>1
          <5> QED
            BY <2>7, <2>8, <3>5, <4>1, <5>1 DEF Under
        <4>2. CASE f \notin op.list
          BY <2>7, <2>8, <3>5, <4>2 DEF Under
        <4> QED
          BY <4>1, <4>2
      <3> QED
        BY <2>1, <2>3, <2>5, <3>2, <3>6 DEF Finished
    <2> QED
      BY <2>2, <2>3, <2>10, <2>11
  <1>3. "root" \notin T
    BY <1>1, RowFacts DEF ToSet
  <1>4. T \subseteq Buckets /\ Upward(T)
    BY <1>2 DEF Upward
  <1>5. T = {}
    <2> HIDE DEF T
    <2> QED
      BY <1>1, <1>3, <1>4, RootIn
  <1> QED
    BY <1>5

\* A null that no resolver returned, with none above it.
LEMMA NullExplained ==
    ASSUME IInv, Trail, Blame, bucket["root"].phase = "done", NEW p \in Paths, At(SynchronousData, p) = Null,
           op.outcome[p] # "null",
           \A q \in Paths \cup {<<>>} : Prefix(q, p) /\ q # p => At(SynchronousData, q) # Null
    PROVE  \E e \in ToSet(errors) : Prefix(p, e)
  <1>1. op \in Operations
    BY Known
  <1>0. PICK f \in Fields : \E r \in Rows(Home(f)) :
           p = Append(r, f) \/ (f \in op.list /\ \E i \in ToSet(op.items[f]) : p = Append(Append(r, f), i))
    BY <1>1, PathEnds
  <1>2. PICK r \in Rows(Home(f)) :
           p = Append(r, f) \/ (f \in op.list /\ \E i \in ToSet(op.items[f]) : p = Append(Append(r, f), i))
    BY <1>0
  <1>3. PICK path : path = Append(r, f)
    OBVIOUS
  <1>4. /\ Home(f) \in Buckets /\ f \in ToSet(op.fields[Home(f)])
        /\ r \in Seq(Fields \cup Labels) /\ path \in Paths /\ path \in Seq(Fields \cup Labels) /\ p \in Seq(Fields \cup Labels)
        /\ Prefix(r, path) /\ Len(path) = Len(r) + 1 /\ Len(r) \in Nat /\ path # <<>> /\ path[Len(path)] = f
    <2>1. Home(f) \in Buckets /\ f \in ToSet(op.fields[Home(f)])
      BY <1>1, Tree
    <2>2. r \in Seq(Fields \cup Labels)
      BY <1>1, RowFacts DEF Rows
    <2>3. path \in Paths
      BY <1>1, <1>3, <2>1, Written
    <2>4. path \in Seq(Fields \cup Labels) /\ p \in Seq(Fields \cup Labels)
      BY <1>1, <2>3, PathFacts
    <2> QED
      BY <1>3, <2>1, <2>2, <2>3, <2>4, Longer, PrefixIs
  <1>5. CASE p = path
    <2>1. ~Hidden(r)
      <3>1. ASSUME NEW q \in Paths \cup {<<>>}, Prefix(q, r), At(SynchronousData, q) = Null PROVE FALSE
        <4>1. q \in Seq(Fields \cup Labels)
          <5>1. <<>> \in Seq(Fields \cup Labels)
            OBVIOUS
          <5> QED
            BY <1>1, <5>1, PathFacts
        <4>2. Prefix(q, p) /\ Len(q) <= Len(r)
          BY <1>4, <1>5, <3>1, <4>1, PrefixIs
        <4>3. q # p
          <5>1. \A k, n \in Nat : n = k + 1 => ~ (n <= k)
            OBVIOUS
          <5>2. Len(q) <= Len(r) /\ Len(p) = Len(r) + 1 /\ Len(r) \in Nat /\ Len(p) \in Nat
            BY <1>4, <1>5, <4>2
          <5> QED
            BY <5>1, <5>2
        <4> QED
          BY <3>1, <4>2, <4>3
      <3> QED
        BY <3>1 DEF Hidden
    <2>2. r \in ToSet(bucket[Home(f)].rows) /\ bucket[Home(f)].phase = "done"
      BY <1>4, <2>1, Arrived
    <2>3. Shown(r) /\ Explained(f, r)
      BY <2>1, <2>2, Complete
    <2>4. Value(f, r) = Null
      BY <1>1, <1>3, <1>5, <2>3, FieldShown DEF Value
    <2>5. Nulled(f, r, p)
      BY <1>3, <1>5, <2>4 DEF Nulled
    <2> QED
      BY <2>3, <2>5 DEF Explained
  <1>6. CASE p # path
    <2>1. PICK n \in DOMAIN op.items[f] : p = Append(path, op.items[f][n]) /\ f \in op.list
      BY <1>2, <1>3, <1>6 DEF ToSet
    <2>2. Prefix(path, p)
      <3>1. op.items[f][n] \in Labels
        BY <2>1 DEF Labels, ToSet
      <3> QED
        BY <1>4, <2>1, <3>1, PrefixIs
    <2>3. At(SynchronousData, path) # Null
      BY <1>4, <1>6, <2>2
    <2>4. ~Hidden(r)
      <3>1. ASSUME Hidden(r) PROVE FALSE
        <4>1. PICK q \in Paths \cup {<<>>} : Prefix(q, r) /\ At(SynchronousData, q) = Null
          BY <3>1 DEF Hidden
        <4>2. q \in Seq(Fields \cup Labels)
          <5>1. <<>> \in Seq(Fields \cup Labels)
            OBVIOUS
          <5> QED
            BY <1>1, <5>1, PathFacts
        <4>3. At(SynchronousData, path) = Null
          BY <1>1, <1>4, <4>1, <4>2, PrefixIs, NullBelow
        <4> QED
          BY <2>3, <4>3
      <3> QED
        BY <3>1
    <2>5. r \in ToSet(bucket[Home(f)].rows) /\ bucket[Home(f)].phase = "done"
      BY <1>4, <2>4, Arrived
    <2>6. Shown(r) /\ Explained(f, r)
      BY <2>4, <2>5, Complete
    <2>7. ~Bubbles(Value(f, r)) /\ At(SynchronousData, path) = Value(f, r)
      BY <1>1, <1>3, <2>6, FieldShown DEF Value
    <2>8. op.outcome[path] = "ok"
      <3>1. op.outcome[path] \in {"ok", "null", "error"}
        BY <1>1, <1>4, PathFacts
      <3> QED
        BY <1>1, <1>3, <2>3, <2>7, <3>1, ValueIs
    <2>9. PICK items : items = Items(f, path)
      OBVIOUS
    <2>10. Value(f, r) = List(items)
      BY <1>1, <1>3, <2>1, <2>3, <2>7, <2>8, <2>9, ValueIs
    <2>11. At(SynchronousData, Append(path, op.items[f][n])) = items[n]
      <3>1. At(SynchronousData, path) = List(items)
        BY <2>7, <2>10
      <3> QED
        BY <1>1, <1>4, <2>1, <3>1, ItemShown
    <2>12. items[n] = Null
      BY <2>1, <2>11
    <2>13. Nulled(f, r, p)
      BY <1>3, <2>1, <2>8, <2>10, <2>12 DEF Nulled
    <2> QED
      BY <2>6, <2>13 DEF Explained
  <1> QED
    BY <1>5, <1>6

\* The errors of `list` explain the nulls of `data`.
Explains(data, list) ==
    /\ IsInjective(list)
    /\ \A e \in ToSet(list) : At(data, e) = Null
    /\ \A p \in Paths \cup {<<>>} :
         /\ At(data, p) = Null
         /\ p = <<>> \/ op.outcome[p] # "null"
         /\ \A q \in Paths \cup {<<>>} : Prefix(q, p) /\ q # p => At(data, q) # Null
         => \E e \in ToSet(list) : Prefix(p, e)

LEMMA TracedNull ==
    ASSUME IInv, Trail, NEW e, Traced(e)
    PROVE  At(SynchronousData, e) = Null
  <1>1. PICK f \in Fields : \E r \in ToSet(bucket[Home(f)].rows) : Fault(f, r, e)
    BY DEF Traced
  <1>2. PICK r \in ToSet(bucket[Home(f)].rows) : Fault(f, r, e)
    BY <1>1
  <1>3. op \in Operations /\ Home(f) \in Buckets
    BY Known, Tree
  <1>4. r \in Rows(Home(f)) /\ (Shown(r) \/ Hidden(r))
    <2>1. bucket[Home(f)].rows \in Seq(Rows(Home(f)))
      BY <1>3, Known DEF Shaped
    <2>2. r \in Rows(Home(f))
      BY <2>1 DEF ToSet
    <2> QED
      BY <1>3, <2>2, Seen
  <1> QED
    BY <1>2, <1>3, <1>4, FaultNull

\* The errors once the root is done, with the root's own bubble.
LEMMA AllExplained ==
    ASSUME IInv, Trail, Blame, bucket["root"].phase = "done",
           NEW list, list = IF IsLive("root", 1) THEN errors ELSE Append(errors, bucket["root"].bubble[1].error)
    PROVE  Explains(SynchronousData, list)
  <1>1. /\ op \in Operations /\ "root" \in Buckets /\ bucket["root"].rows = <<<<>>>> /\ errors \in Seq(Paths)
        /\ Shaped("root") /\ Progress("root") /\ Right("root")
    BY Known, Tree
  <1>2. 1 \in DOMAIN bucket["root"].rows /\ bucket["root"].rows[1] = <<>>
    BY <1>1
  <1>3. PICK e : e = bucket["root"].bubble[1].error
    OBVIOUS
  <1>4. ~IsLive("root", 1) => Traced(e) /\ Prefix(<<>>, e) /\ e \notin ToSet(errors) /\ e \in Paths
    <2>1. ~IsLive("root", 1) => Holds("root", 1)
      BY <1>1, <1>2 DEF Blame
    <2> QED
      BY <1>2, <1>3, <2>1 DEF Holds, Open, Risen, Traced
  <1>5. /\ ToSet(list) = ToSet(errors) \cup (IF IsLive("root", 1) THEN {} ELSE {e})
        /\ IsInjective(list)
    <2>1. CASE IsLive("root", 1)
      BY <2>1 DEF Blame
    <2>2. CASE ~IsLive("root", 1)
      <3>1. list = Append(errors, e) /\ IsInjective(errors)
        BY <1>3, <2>2 DEF Blame
      <3> QED
        BY <1>1, <1>4, <2>2, <3>1, Pushed
    <2> QED
      BY <2>1, <2>2
  <1>6. ASSUME NEW x \in ToSet(list) PROVE At(SynchronousData, x) = Null
    <2>1. Traced(x)
      BY <1>4, <1>5 DEF Blame
    <2> QED
      BY <2>1, TracedNull
  <1>7. ASSUME At(SynchronousData, <<>>) = Null PROVE \E x \in ToSet(list) : Prefix(<<>>, x)
    <2>1. <<>> \in Objects /\ SynchronousData.tag # "list"
      BY <1>1, RowFacts, ObjectIs
    <2>2. SynchronousData = Null
      BY <1>7, <2>1, AtIs
    <2>3. Bubbles(Synchronous[<<>>])
      <3>1. ~Bubbles(Synchronous[<<>>]) => Synchronous[<<>>] # Null
        BY <1>1, <2>1, ObjectIs
      <3> QED
        BY <2>2, <3>1 DEF SynchronousData, Absorb
    <2>4. ~IsLive("root", 1)
      <3>1. Alike(assemble("root")[1], Synchronous[<<>>])
        <4>1. 1 \in DOMAIN bucket["root"].rows
          BY <1>2
        <4>2. Alike(assemble("root")[1], Synchronous[bucket["root"].rows[1]])
          BY <1>1, <4>1, Assembled
        <4> QED
          BY <1>2, <4>2
      <3>2. IsLive("root", 1) => assemble("root")[1] = Object(bucket["root"].outputs[1])
        BY <1>2 DEF assemble
      <3> QED
        BY <2>3, <3>1, <3>2, Tags DEF Alike
    <2> QED
      BY <1>4, <1>5, <2>4
  <1>8. ASSUME NEW p \in Paths, At(SynchronousData, p) = Null, op.outcome[p] # "null",
               \A q \in Paths \cup {<<>>} : Prefix(q, p) /\ q # p => At(SynchronousData, q) # Null
        PROVE  \E x \in ToSet(list) : Prefix(p, x)
    BY <1>5, <1>8, NullExplained
  <1>9. ASSUME NEW p \in Paths \cup {<<>>}, At(SynchronousData, p) = Null, p = <<>> \/ op.outcome[p] # "null",
               \A q \in Paths \cup {<<>>} : Prefix(q, p) /\ q # p => At(SynchronousData, q) # Null
        PROVE  \E x \in ToSet(list) : Prefix(p, x)
    <2>1. CASE p = <<>>
      BY <1>7, <1>9, <2>1
    <2>2. CASE p # <<>>
      BY <1>8, <1>9, <2>2
    <2> QED
      BY <2>1, <2>2
  <1> QED
    BY <1>5, <1>6, <1>9 DEF Explains

LEMMA ExplainsStays ==
    ASSUME op' = op
    PROVE  \A data, list : Explains(data, list)' <=> Explains(data, list)
  <1>1. \A data, p : At(data, p)' = At(data, p)
    BY DEF At, Into, Null
  <1> QED
    BY <1>1, OpStays DEF Explains, Null

LEMMA RespondExplains ==
    ASSUME IInv, Trail, Blame, Respond
    PROVE  ErrorsExplainNulls'
  <1>1. op' = op /\ bucket["root"].phase = "done"
    BY DEF Respond
  <1>2. PICK root, live, list :
           /\ root = assemble("root")[1] /\ live = IsLive("root", 1)
           /\ list = IF live THEN errors ELSE Append(errors, bucket["root"].bubble[1].error)
    OBVIOUS
  <1>3. root = IF live THEN Object(bucket["root"].outputs[1]) ELSE bucket["root"].bubble[1]
    <2>1. 1 \in DOMAIN bucket["root"].rows
      BY Known
    <2> QED
      BY <1>2, <2>1 DEF assemble
  <1>4. root.tag = "bubble" <=> ~live
    <2>1. Shaped("root") /\ 1 \in DOMAIN bucket["root"].rows
      BY Known, Tree
    <2>2. ~live => Bubbles(bucket["root"].bubble[1])
      BY <1>2, <2>1 DEF Shaped, IsLive
    <2> QED
      BY <1>3, <2>2 DEF Bubbles, Object
  <1>5. response'.errors = list /\ response' # Null
    BY <1>2, <1>3, <1>4 DEF Respond, Null
  <1>6. response'.data = SynchronousData
    <2>1. IInv'
      BY RespondKeeps
    <2> QED
      BY <1>1, <1>5, <2>1, OpStays DEF IInv, DataIsSynchronous, Null
  <1>7. Explains(SynchronousData, list)
    BY <1>1, <1>2, AllExplained
  <1>8. PICK data : data = SynchronousData
    OBVIOUS
  <1>9. Explains(data, list)'
    BY <1>1, <1>7, <1>8, ExplainsStays
  <1>10. response'.data = data
    BY <1>6, <1>8
  <1> QED
    BY <1>5, <1>9, <1>10 DEF ErrorsExplainNulls, Explains

LEMMA SameErrors ==
    ASSUME op' = op, response' = response, ErrorsExplainNulls
    PROVE  ErrorsExplainNulls'
  <1>1. PICK data, list : data = response.data /\ list = response.errors
    OBVIOUS
  <1>2. response # Null => Explains(data, list)
    BY <1>1 DEF ErrorsExplainNulls, Explains
  <1>3. response' # Null => Explains(data, list)'
    BY <1>2, ExplainsStays
  <1> QED
    BY <1>1, <1>3 DEF ErrorsExplainNulls, Explains, Null

LEMMA BlameInvariant == Spec => [](IInv /\ Trail /\ Blame)
  <1>1. Init => IInv /\ Trail /\ Blame
    BY Starts, TrailStarts, BlameStarts
  <1>2. (IInv /\ Trail /\ Blame) /\ [Next]_vars => (IInv /\ Trail /\ Blame)'
    BY Keeps, TrailKeeps, BlameKeeps
  <1> QED
    BY <1>1, <1>2, PTL DEF Spec

\* No error is reported twice, every one lies at or below a null of the data, and
\* every null that no resolver returned has an error at or below it: a bubble's
\* error "is appended exactly once" (bubble.py), in whatever order the awaits end
\* and whatever is abandoned.
THEOREM ExplainsTheNulls == Spec => []ErrorsExplainNulls
  <1>1. Init => ErrorsExplainNulls
    BY DEF Init, ErrorsExplainNulls
  <1>2. ASSUME IInv, Trail, Blame, ErrorsExplainNulls, [Next]_vars PROVE ErrorsExplainNulls'
    <2>1. CASE Respond
      BY <1>2, <2>1, RespondExplains
    <2>2. CASE Run
      BY <1>2, <2>2, SameErrors DEF Run, RunSteps, CompleteField, ChildReturned, ChildSuspended, EndWalk
    <2>3. CASE Loop /\ ~Respond
      BY <1>2, <2>3, SameErrors DEF Loop, ResumeSteps, EndGather, ResumeField, ResumeParent
    <2>4. CASE Await
      BY <1>2, <2>4, SameErrors DEF Await, Acquire, Release
    <2>5. CASE UNCHANGED vars
      BY <1>2, <2>5, SameErrors DEF vars
    <2> QED
      BY <1>2, <2>1, <2>2, <2>3, <2>4, <2>5 DEF Next
  <1> QED
    BY <1>1, <1>2, BlameInvariant, PTL DEF Spec
=============================================================================
