--------------------------- MODULE OperationProofs ---------------------------
(***************************************************************************)
(* Theorems about Operation, for every set of operations, of permits and   *)
(* of layers: the states are typed and the permits add up; an operation    *)
(* that is over left nothing open; the values of an entry are those it has *)
(* in a bucket of its own.                                                 *)
(***************************************************************************)
EXTENDS Operation, BatchingProofs

-----------------------------------------------------------------------------
(* The inductive invariant.                                                *)

States == {"idle", "running", "resumed", "unstarted", "waiting", "holding"} \cup Ended

\* A layer stands before the step whose column it has not stored.
LayerTyped(l) ==
  /\ layer[l] = [state |-> layer[l].state, index |-> layer[l].index, results |-> layer[l].results]
  /\ layer[l].state \in States
  /\ layer[l].results \in Seq(ToSet(layer[l].results))
  /\ layer[l].index = Len(layer[l].results) + 1
  /\ layer[l].index <= Len(Plan(l)) + 1
  /\ layer[l].state \in {"unstarted", "waiting", "holding"} => layer[l].index <= Len(Plan(l))
  /\ \A s \in DOMAIN layer[l].results : IsColumn(layer[l].results[s], Count(l))

Types ==
  /\ op \in Operations
  /\ phase \in {"prepare", "planning", "executing", "answered", "cancelled"}
  /\ DOMAIN layer = Layers /\ layer = [l \in Layers |-> layer[l]]
  /\ \A l \in Layers : LayerTyped(l)
  /\ loop \in Layers \cup {NULL}
  /\ answers \in Seq({"data", "error", "timeout", "raised"})
  /\ Len(answers) <= op.events
  /\ phase \in {"prepare", "planning", "executing"} => Len(answers) < op.events

Holding == {l \in Layers : layer[l].state = "holding"}

Counted == permits \in Nat /\ permits + Cardinality(Holding) = Permits

\* What has become of the coroutine of a layer's latest load.
Coroutines ==
  /\ coro = [l \in Layers |-> coro[l]]
  /\ \A l \in Layers :
       /\ layer[l].state \in {"idle", "running"} => coro[l] = "none"
       /\ layer[l].state \in {"unstarted", "waiting", "dropped"} => coro[l] = "fresh"
       /\ layer[l].state = "holding" => coro[l] = "open"
       /\ layer[l].state = "cancelled" => coro[l] = "closed"
       /\ layer[l].state \in {"resumed", "done", "raised"} => coro[l] \in {"none", "done"}

\* One layer at a time has the event loop; the children begin after the root and,
\* while their synchronous prefixes run, nothing else does.
Threaded ==
  /\ \A l \in Layers : layer[l].state \in {"running", "resumed"} => loop = l
  /\ loop # NULL => layer[loop].state \in {"idle", "running", "resumed"}
  /\ loop # NULL /\ layer[loop].state \in {"idle", "running"} =>
       /\ phase = "executing"
       /\ \A l \in Layers \ {loop} : layer[l].state \in {"idle", "unstarted", "done"}
  /\ layer[1].state # "done" => \A l \in Children : layer[l].state = "idle" /\ loop # l

Closed(l) == layer[l].state \in Ended \cup {"idle"}

\* Nothing has begun before planning is over; nothing is under way after an answer
\* or a cancellation, unless an exception went to the host.
Phased ==
  /\ phase \in {"prepare", "planning"} => loop = NULL /\ \A l \in Layers : layer[l] = Idle
  /\ phase = "cancelled" \/ (phase = "answered" /\ "raised" \notin ToSet(answers)) =>
       loop = NULL /\ \A l \in Layers : Closed(l)
  /\ "raised" \in ToSet(answers) =>
       phase = "answered" /\ Last(answers) = "raised" /\ \E l \in Layers : layer[l].state = "raised"

\* A layer is dropped by an exception on its way to the host, or by a cancellation
\* that came early.
Dropped ==
  (\E l \in Layers : layer[l].state = "dropped") =>
    \/ EarlyCancel /\ phase = "cancelled"
    \/ /\ phase = "executing" \/ "raised" \in ToSet(answers)
       /\ loop = NULL
       /\ ~InFlight

Flying == {l \in Layers : layer[l].state \in {"unstarted", "waiting", "holding"}}

Base ==
  CASE phase = "planning" -> OpSpan \cup PlanSpan
    [] phase = "executing" -> OpSpan
    [] OTHER -> {}

\* The open spans are the operation's and those of the steps in flight.
Spanned ==
  op.planning = "ok" /\ "raised" \notin ToSet(answers) /\ (\A l \in Layers : layer[l].state # "dropped")
    => spans = Base \cup {StepSpan(l, layer[l].index) : l \in Flying}

\* What a layer in flight awaits is what its step returned instead of a column.
Awaits(l, s) ==
  LET step == Plan(l)[s]
  IN  step.async /\ ~(step.kind = "each" /\ EachRaises(GatherCols(l, s)[1]))

Awaiting == \A l \in Flying : \A s : s = layer[l].index => Awaits(l, s)

\* A column that ran once holds one value.
Broadcast ==
  \A l \in Layers : \A s \in DOMAIN layer[l].results :
    UnaryHere(l, s) => \A i \in 1 .. Count(l) : layer[l].results[s][i] = layer[l].results[s][1]

IInv == Types /\ Counted /\ Coroutines /\ Threaded /\ Phased /\ Dropped /\ Spanned

-----------------------------------------------------------------------------
(* The shape of an operation and of a layer.                               *)

\* What the assumptions say of an operation, of its layers and of their steps.
LEMMA OpShape ==
    ASSUME op \in Operations
    PROVE  /\ 1 \in Layers /\ Layers \subseteq Nat /\ IsFiniteSet(Layers) /\ NULL \notin Layers
           /\ op.events \in Nat \ {0}
           /\ \A l \in Layers :
                /\ Count(l) \in Nat /\ IsColumn(op.layers[l].seed, Count(l))
                /\ Len(Plan(l)) \in Nat /\ DOMAIN Plan(l) = 1..Len(Plan(l))
                /\ \A s \in 1..Len(Plan(l)) : IsStep(Plan(l)[s], s)
  <1>1. PICK n \in 1..MaxLayers : Layers = 1..n
    BY OperationsAssumption DEF Layers
  <1>2. 1 \in Layers /\ Layers \subseteq Nat /\ IsFiniteSet(Layers)
    <2>1. n \in Int /\ 1 <= n
      BY LimitsAssumption
    <2> QED
      BY <1>1, <2>1, FS_Interval
  <1>3. NULL \notin Layers
    BY <1>2, NullAssumption
  <1>4. ASSUME NEW l \in Layers
        PROVE  /\ Count(l) \in Nat /\ IsColumn(op.layers[l].seed, Count(l))
               /\ Len(Plan(l)) \in Nat /\ DOMAIN Plan(l) = 1..Len(Plan(l))
               /\ \A s \in 1..Len(Plan(l)) : IsStep(Plan(l)[s], s)
    <2>1. IsLayer(op.layers[l])
      BY OperationsAssumption DEF Layers
    <2>2. Plan(l) \in Seq(ToSet(Plan(l))) /\ op.layers[l].seed \in Seq(ToSet(op.layers[l].seed))
      BY <2>1 DEF IsLayer, Plan
    <2>3. Len(Plan(l)) \in Nat /\ DOMAIN Plan(l) = 1..Len(Plan(l))
      BY <2>2, LenProperties
    <2> QED
      BY <2>1, <2>2, <2>3, LenProperties DEF IsLayer, Plan, Count, IsColumn
  <1> QED
    BY <1>2, <1>3, <1>4, OperationsAssumption

\* A column appended to a layer's results.
LEMMA AppendColumn ==
    ASSUME NEW r, r \in Seq(ToSet(r)), NEW out
    PROVE  LET a == Append(r, out)
           IN  /\ a \in Seq(ToSet(a)) /\ Len(a) = Len(r) + 1
               /\ DOMAIN r = 1..Len(r) /\ DOMAIN a = 1..(Len(r) + 1) /\ Len(r) \in Nat
               /\ \A s \in 1..Len(r) : a[s] = r[s]
               /\ a[Len(r) + 1] = out
  <1> DEFINE S == ToSet(r) \cup {out}
             a == Append(r, out)
  <1>1. r \in Seq(S) /\ out \in S
    BY SeqMonotonic
  <1>2. Len(r) \in Nat /\ DOMAIN r = 1..Len(r)
    BY LenProperties
  <1> HIDE DEF S
  <1>3. /\ a \in Seq(S) /\ Len(a) = Len(r) + 1
        /\ \A s \in 1..Len(r) : a[s] = r[s]
        /\ a[Len(r) + 1] = out
    BY <1>1, AppendProperties
  <1> HIDE DEF a
  <1>4. DOMAIN a = 1..(Len(r) + 1) /\ a = [i \in 1..(Len(r) + 1) |-> a[i]]
    BY <1>3, LenProperties
  <1>5. a \in Seq(ToSet(a))
    BY <1>2, <1>4, ColumnIntro DEF IsColumn
  <1> QED
    BY <1>2, <1>3, <1>4, <1>5 DEF a

\* Of the columns a step reads, each has a value per entry.
LEMMA ColumnsAreColumns ==
    ASSUME op \in Operations, NEW l \in Layers, LayerTyped(l), NEW s \in 1..Len(Plan(l)),
           s <= layer[l].index
    PROVE  /\ IsStep(Plan(l)[s], s)
           /\ \A d \in DOMAIN Plan(l)[s].deps :
                /\ Plan(l)[s].deps[d] \in 0..(s - 1)
                /\ Plan(l)[s].deps[d] # 0 => Plan(l)[s].deps[d] \in DOMAIN layer[l].results
                /\ IsColumn(Column(l, Plan(l)[s].deps[d]), Count(l))
  <1>1. IsStep(Plan(l)[s], s)
    BY OpShape
  <1>2. DOMAIN layer[l].results = 1..Len(layer[l].results) /\ Len(layer[l].results) \in Nat
    BY LenProperties DEF LayerTyped
  <1>3. s \in Nat /\ s <= Len(layer[l].results) + 1
    BY OpShape DEF LayerTyped
  <1>4. ASSUME NEW d \in DOMAIN Plan(l)[s].deps
        PROVE  /\ Plan(l)[s].deps[d] \in 0..(s - 1)
               /\ Plan(l)[s].deps[d] # 0 => Plan(l)[s].deps[d] \in DOMAIN layer[l].results
               /\ IsColumn(Column(l, Plan(l)[s].deps[d]), Count(l))
    <2>1. Plan(l)[s].deps[d] \in 0..(s - 1)
      <3>1. Plan(l)[s].deps \in Seq(0..(s - 1))
        BY <1>1 DEF IsStep
      <3> QED
        BY <3>1, LenProperties
    <2>2. Plan(l)[s].deps[d] # 0 => Plan(l)[s].deps[d] \in DOMAIN layer[l].results
      BY <1>2, <1>3, <2>1
    <2> QED
      BY <2>1, <2>2, OpShape DEF Column, LayerTyped
  <1> QED
    BY <1>1, <1>4

\* The column a step yields has one value per entry of the bucket.
LEMMA OutputIsColumn ==
    ASSUME op \in Operations, NEW l \in Layers, LayerTyped(l), layer[l].index <= Len(Plan(l))
    PROVE  IsColumn(Output(l, layer[l].index), Count(l))
  <1> DEFINE s == layer[l].index
             step == Plan(l)[s]
             cols == GatherCols(l, s)
  <1>1. s \in 1..Len(Plan(l)) /\ Count(l) \in Nat
    BY OpShape, LenProperties DEF LayerTyped
  <1>2. CASE UnaryHere(l, s)
    <2>1. Output(l, s) = [i \in 1..Count(l) |-> Output(l, s)[i]]
      BY <1>2 DEF Output
    <2> QED
      BY <1>1, <2>1, ColumnIntro
  <1>3. CASE ~UnaryHere(l, s)
    <2>1. cols = [d \in DOMAIN step.deps |-> Column(l, step.deps[d])]
      BY <1>3 DEF GatherCols
    <2>2. \A d \in DOMAIN cols : IsColumn(cols[d], Count(l))
      BY <1>1, <2>1, ColumnsAreColumns
    <2>3. step.kind \in Kinds
      BY <1>1, ColumnsAreColumns DEF IsStep
    <2>4. step.kind \notin {"constant", "list", "object"} => 1 \in DOMAIN cols
      <3>1. IsStep(step, s)
        BY <1>1, ColumnsAreColumns
      <3>2. step.deps # << >> => 1 \in DOMAIN step.deps
        BY <1>1, <3>1, EmptySeq, LenProperties DEF IsStep
      <3> QED
        BY <2>1, <3>1, <3>2 DEF IsStep
    <2>5. Output(l, s) = Execute(step, cols, Count(l))
      BY <1>3 DEF Output
    <2> HIDE DEF step, cols
    <2> QED
      BY <1>1, <2>2, <2>3, <2>4, <2>5, ExecuteFills
  <1> QED
    BY <1>2, <1>3

-----------------------------------------------------------------------------
(* What a step does to a layer.                                            *)

InFlightStates == {"unstarted", "waiting", "holding"}

\* A layer that keeps its place keeps its type.
LEMMA UntouchedLayer ==
    ASSUME op' = op, NEW l \in Layers, LayerTyped(l), layer'[l] = layer[l]
    PROVE  LayerTyped(l)'
  BY DEF LayerTyped, Plan, Count

\* A layer that changes its state only.
LEMMA MovedLayer ==
    ASSUME op' = op, NEW l \in Layers, LayerTyped(l), NEW x \in States,
           layer'[l] = [layer[l] EXCEPT !.state = x],
           x \in InFlightStates => layer[l].index <= Len(Plan(l))
    PROVE  /\ LayerTyped(l)'
           /\ layer'[l].state = x
           /\ layer'[l].index = layer[l].index /\ layer'[l].results = layer[l].results
  <1>1. layer'[l] = [state |-> x, index |-> layer[l].index, results |-> layer[l].results]
    BY DEF LayerTyped
  <1>2. /\ layer'[l].state = x
        /\ layer'[l].index = layer[l].index /\ layer'[l].results = layer[l].results
    BY <1>1
  <1> QED
    BY <1>1, <1>2 DEF LayerTyped, Plan, Count, InFlightStates, States

\* A layer that stores its step's column.
LEMMA StoredLayer ==
    ASSUME op \in Operations, op' = op, NEW l \in Layers, LayerTyped(l),
           layer[l].index <= Len(Plan(l)),
           NEW x \in States \ InFlightStates,
           layer'[l] = [state |-> x, index |-> layer[l].index + 1,
                        results |-> Append(layer[l].results, Output(l, layer[l].index))]
    PROVE  LayerTyped(l)' /\ layer'[l].state = x
  <1> DEFINE out == Output(l, layer[l].index)
             r == layer[l].results
             a == Append(r, out)
  <1>1. IsColumn(out, Count(l))
    BY OutputIsColumn
  <1>2. r \in Seq(ToSet(r)) /\ layer[l].index = Len(r) + 1
        /\ \A s \in DOMAIN r : IsColumn(r[s], Count(l))
    BY DEF LayerTyped
  <1>3. /\ a \in Seq(ToSet(a)) /\ Len(a) = Len(r) + 1
        /\ DOMAIN r = 1..Len(r) /\ DOMAIN a = 1..(Len(r) + 1) /\ Len(r) \in Nat
        /\ \A s \in 1..Len(r) : a[s] = r[s]
        /\ a[Len(r) + 1] = out
    <2> HIDE DEF out, r
    <2> QED
      BY <1>2, AppendColumn
  <1>4. layer'[l].state = x /\ layer'[l].index = Len(r) + 2 /\ layer'[l].results = a
    BY <1>2, <1>3
  <1>5. Plan(l)' = Plan(l) /\ Count(l)' = Count(l) /\ Len(Plan(l)) \in Nat
    BY OpShape DEF Plan, Count
  <1> HIDE DEF out, a
  <1>6. \A s \in DOMAIN a : IsColumn(a[s], Count(l))
    BY <1>1, <1>2, <1>3
  <1>7. layer'[l] = [state |-> layer'[l].state, index |-> layer'[l].index, results |-> layer'[l].results]
    BY <1>4
  <1>8. Len(r) + 2 <= Len(Plan(l)) + 1
    BY <1>2, <1>3, <1>5
  <1>9. x \in States /\ x \notin {"unstarted", "waiting", "holding"}
    BY DEF InFlightStates
  <1> HIDE DEF r
  <1>10. /\ layer'[l].state \in States
         /\ layer'[l].results \in Seq(ToSet(layer'[l].results))
         /\ layer'[l].index = Len(layer'[l].results) + 1
         /\ layer'[l].index <= Len(Plan(l)') + 1
         /\ layer'[l].state \notin {"unstarted", "waiting", "holding"}
         /\ \A s \in DOMAIN layer'[l].results : IsColumn(layer'[l].results[s], Count(l)')
    <2>1. layer'[l].state \in States /\ layer'[l].state \notin {"unstarted", "waiting", "holding"}
      BY <1>4, <1>9
    <2>2. /\ layer'[l].index = Len(layer'[l].results) + 1
          /\ layer'[l].index <= Len(Plan(l)') + 1
      BY <1>3, <1>4, <1>5, <1>8
    <2>3. /\ layer'[l].results \in Seq(ToSet(layer'[l].results))
          /\ \A s \in DOMAIN layer'[l].results : IsColumn(layer'[l].results[s], Count(l)')
      BY <1>3, <1>4, <1>5, <1>6, Zenon
    <2> QED
      BY <2>1, <2>2, <2>3
  <1> QED
    BY <1>4, <1>7, <1>10 DEF LayerTyped

\* The layers counted as holding a permit are finitely many.
LEMMA HoldingFinite ==
    ASSUME op \in Operations
    PROVE  IsFiniteSet(Holding) /\ Cardinality(Holding) \in Nat
  <1>1. Holding \in SUBSET Layers
    BY DEF Holding
  <1> QED
    BY <1>1, OpShape, FS_Subset, FS_CardinalityType

\* The child whose turn it is has not begun.
LEMMA NextChildIsIdle ==
    ASSUME op \in Operations
    PROVE  NextChild = NULL \/ (NextChild \in Layers /\ layer[NextChild].state = "idle")
  <1> DEFINE rest == Layers \ Started
  <1>1. CASE Started = Layers
    BY <1>1 DEF NextChild
  <1>2. CASE Started # Layers
    <2>1. rest # {} /\ rest \subseteq Nat
      BY <1>2, OpShape DEF Started
    <2>2. \E i \in rest : \A j \in rest : i <= j
      <3> HIDE DEF rest
      <3> QED
        BY <2>1, LeastExists
    <2>3. NextChild \in rest
      BY <1>2, <2>2 DEF NextChild
    <2> QED
      BY <2>3 DEF Started
  <1> QED
    BY <1>1, <1>2

-----------------------------------------------------------------------------
(* Each action keeps the invariant.                                        *)

AnswerKinds == {"data", "error", "timeout", "raised"}

\* The answers after one more.
LEMMA AnswerAppended ==
    ASSUME answers \in Seq(AnswerKinds), NEW kind \in AnswerKinds, answers' = Append(answers, kind)
    PROVE  /\ answers' \in Seq(AnswerKinds) /\ Len(answers) \in Nat /\ Len(answers') = Len(answers) + 1
           /\ Last(answers') = kind
           /\ ToSet(answers') = ToSet(answers) \cup {kind}
  <1>1. /\ answers' \in Seq(AnswerKinds) /\ Len(answers') = Len(answers) + 1
        /\ \A i \in 1..Len(answers) : answers'[i] = answers[i]
        /\ answers'[Len(answers) + 1] = kind
    BY AppendProperties
  <1>2. Len(answers) \in Nat /\ DOMAIN answers = 1..Len(answers) /\ DOMAIN answers' = 1..(Len(answers) + 1)
    BY <1>1, LenProperties
  <1>3. ToSet(answers') = ToSet(answers) \cup {kind}
    BY <1>1, <1>2 DEF ToSet
  <1> QED
    BY <1>1, <1>2, <1>3 DEF Last

\* The layers and what they hold are left alone.
LayersAlone == op' = op /\ layer' = layer /\ loop' = loop /\ permits' = permits /\ coro' = coro

\* An action of the entry point that leaves the layers alone keeps what is said of them.
LEMMA LayersAloneKeep ==
    ASSUME Types, Counted, Coroutines, LayersAlone
    PROVE  /\ Layers' = Layers /\ Flying' = Flying /\ Closed(1)' = Closed(1)
           /\ \A l \in Layers : LayerTyped(l)' /\ (Closed(l)' <=> Closed(l))
           /\ Counted' /\ Coroutines'
  <1>1. /\ Layers' = Layers /\ Flying' = Flying /\ Holding' = Holding
        /\ \A l : Closed(l)' = Closed(l)
    BY DEF LayersAlone, Layers, Flying, Holding, Closed
  <1>2. \A l \in Layers : LayerTyped(l)'
    BY UntouchedLayer DEF Types, LayersAlone
  <1>3. Counted' /\ Coroutines'
    BY <1>1 DEF Counted, Coroutines, LayersAlone
  <1> QED
    BY <1>1, <1>2, <1>3

\* _prepare_request.
LEMMA PrepareKeeps == IInv /\ Prepare => IInv'
  <1> SUFFICES ASSUME IInv, Prepare PROVE IInv'
    OBVIOUS
  <1>1. /\ Types /\ Counted /\ Coroutines /\ Threaded /\ Phased /\ Dropped /\ Spanned
        /\ phase = "prepare" /\ LayersAlone
    BY DEF IInv, Prepare, LayersAlone
  <1>2. /\ Layers' = Layers /\ Flying' = Flying
        /\ \A l \in Layers : LayerTyped(l)' /\ (Closed(l)' <=> Closed(l))
        /\ Counted' /\ Coroutines'
    BY <1>1, LayersAloneKeep
  <1>3. /\ loop = NULL /\ "raised" \notin ToSet(answers)
        /\ \A l \in Layers : layer[l].state = "idle" /\ Closed(l)
        /\ Flying = {}
    BY <1>1 DEF Phased, Idle, Closed, Flying
  <1>4. answers \in Seq(AnswerKinds) /\ Len(answers) < op.events /\ op.events \in Nat
    BY <1>1, OpShape DEF Types, AnswerKinds
  <1>5. CASE phase' = "planning" /\ spans' = spans \cup OpSpan \cup PlanSpan /\ answers' = answers
    <2>1. Types'
      BY <1>1, <1>2, <1>5 DEF Types, LayersAlone
    <2>2. Threaded' /\ Phased' /\ Dropped'
      BY <1>1, <1>2, <1>3, <1>5 DEF Threaded, Phased, Dropped, LayersAlone, Idle, Children, Layers
    <2>3. Spanned'
      BY <1>1, <1>2, <1>3, <1>5 DEF Spanned, Base, LayersAlone, OpSpan, PlanSpan
    <2> QED
      BY <1>2, <2>1, <2>2, <2>3 DEF IInv
  <1>6. CASE answers' = Append(answers, "error") /\ phase' = "answered" /\ spans' = spans
    <2>1. /\ answers' \in Seq(AnswerKinds) /\ Len(answers') <= op.events
          /\ ToSet(answers') = ToSet(answers) \cup {"error"}
      BY <1>4, <1>6, AnswerAppended DEF AnswerKinds
    <2>2. Types'
      BY <1>1, <1>2, <1>6, <2>1 DEF Types, LayersAlone, AnswerKinds
    <2>3. Threaded' /\ Phased' /\ Dropped'
      BY <1>1, <1>2, <1>3, <1>6, <2>1 DEF Threaded, Phased, Dropped, LayersAlone, Idle, Children
    <2>4. Spanned'
      BY <1>1, <1>2, <1>3, <1>6, <2>1 DEF Spanned, Base, LayersAlone
    <2> QED
      BY <1>2, <2>2, <2>3, <2>4 DEF IInv
  <1> QED
    BY <1>5, <1>6 DEF Prepare, Answer

\* One layer changes its state.
LEMMA Moved ==
    ASSUME Types, op' = op, NEW l \in Layers, NEW x \in States,
           layer' = [layer EXCEPT ![l].state = x],
           x \in InFlightStates => layer[l].index <= Len(Plan(l))
    PROVE  /\ Layers' = Layers /\ DOMAIN layer' = Layers /\ layer' = [k \in Layers |-> layer'[k]]
           /\ \A k \in Layers : LayerTyped(k)'
           /\ layer'[l].state = x
           /\ layer'[l].index = layer[l].index /\ layer'[l].results = layer[l].results
           /\ \A k \in Layers \ {l} : layer'[k] = layer[k]
  <1>1. /\ layer'[l] = [layer[l] EXCEPT !.state = x]
        /\ DOMAIN layer' = Layers /\ layer' = [k \in Layers |-> layer'[k]]
        /\ \A k \in Layers \ {l} : layer'[k] = layer[k]
        /\ Layers' = Layers
    BY DEF Types, Layers
  <1>2. /\ LayerTyped(l)' /\ layer'[l].state = x
        /\ layer'[l].index = layer[l].index /\ layer'[l].results = layer[l].results
    BY <1>1, MovedLayer DEF Types
  <1>3. \A k \in Layers \ {l} : LayerTyped(k)'
    BY <1>1, UntouchedLayer DEF Types
  <1> QED
    BY <1>1, <1>2, <1>3

\* Planning ends: an error is answered, or the root layer begins.
LEMMA PlanOperationKeeps == IInv /\ PlanOperation => IInv'
  <1> SUFFICES ASSUME IInv, PlanOperation PROVE IInv'
    OBVIOUS
  <1>1. /\ Types /\ Counted /\ Coroutines /\ Threaded /\ Phased /\ Dropped /\ Spanned
        /\ phase = "planning" /\ op' = op /\ permits' = permits /\ coro' = coro
    BY DEF IInv, PlanOperation
  <1>2. /\ loop = NULL /\ "raised" \notin ToSet(answers)
        /\ \A l \in Layers : layer[l].state = "idle" /\ Closed(l)
        /\ Flying = {} /\ Holding = {}
    BY <1>1 DEF Phased, Idle, Closed, Flying, Holding
  <1>3. /\ answers \in Seq(AnswerKinds) /\ Len(answers) < op.events /\ op.events \in Nat
        /\ 1 \in Layers /\ NULL \notin Layers
    BY <1>1, OpShape DEF Types, AnswerKinds
  <1>4. CASE op.planning = "error" /\ Answer("error", spans) /\ UNCHANGED <<layer, loop>>
    <2>1. LayersAlone
      BY <1>1, <1>4 DEF LayersAlone
    <2>2. /\ Layers' = Layers /\ Flying' = Flying
          /\ \A l \in Layers : LayerTyped(l)' /\ (Closed(l)' <=> Closed(l))
          /\ Counted' /\ Coroutines'
      BY <1>1, <2>1, LayersAloneKeep
    <2>3. answers' = Append(answers, "error") /\ phase' = "answered" /\ spans' = spans
      BY <1>4 DEF Answer
    <2>4. /\ answers' \in Seq(AnswerKinds) /\ Len(answers') <= op.events
          /\ ToSet(answers') = ToSet(answers) \cup {"error"}
      BY <1>3, <2>3, AnswerAppended DEF AnswerKinds
    <2>5. Types'
      BY <1>1, <2>1, <2>2, <2>3, <2>4 DEF Types, LayersAlone, AnswerKinds
    <2>6. Threaded' /\ Phased' /\ Dropped'
      BY <1>1, <1>2, <2>1, <2>2, <2>3, <2>4 DEF Threaded, Phased, Dropped, LayersAlone, Children
    <2>7. Spanned'
      BY <1>1, <1>4 DEF Spanned
    <2> QED
      BY <2>2, <2>5, <2>6, <2>7 DEF IInv
  <1>5. CASE /\ phase' = "executing" /\ spans' = spans \ PlanSpan
             /\ layer' = [layer EXCEPT ![1].state = "running"] /\ loop' = 1
             /\ answers' = answers
    <2>1. /\ Layers' = Layers /\ DOMAIN layer' = Layers /\ layer' = [k \in Layers |-> layer'[k]]
          /\ \A k \in Layers : LayerTyped(k)'
          /\ layer'[1].state = "running"
          /\ \A k \in Layers \ {1} : layer'[k] = layer[k]
      BY <1>1, <1>3, <1>5, Moved DEF States, InFlightStates
    <2>2. Types'
      BY <1>1, <1>3, <1>5, <2>1 DEF Types
    <2>3. Flying' = {} /\ Holding' = {}
      BY <1>2, <2>1 DEF Flying, Holding
    <2>4. Counted' /\ Coroutines'
      BY <1>1, <1>2, <1>5, <2>1, <2>3 DEF Counted, Coroutines
    <2>5. Threaded'
      BY <1>2, <1>3, <1>5, <2>1 DEF Threaded, Children
    <2>6. Phased' /\ Dropped'
      BY <1>1, <1>2, <1>5, <2>1 DEF Phased, Dropped
    <2>7. Spanned'
      <3>1. OpSpan \cap PlanSpan = {} /\ OpSpan' = OpSpan
        BY <1>1 DEF OpSpan, PlanSpan
      <3> QED
        BY <1>1, <1>2, <1>5, <2>1, <2>3, <3>1 DEF Spanned, Base
    <2> QED
      BY <2>2, <2>4, <2>5, <2>6, <2>7 DEF IInv
  <1> QED
    BY <1>4, <1>5 DEF PlanOperation

\* A subscription's next event begins with every layer idle.
LEMMA NextEventKeeps == IInv /\ NextEvent => IInv'
  <1> SUFFICES ASSUME IInv, NextEvent PROVE IInv'
    OBVIOUS
  <1>1. /\ Types /\ Counted /\ Coroutines /\ Threaded /\ Phased /\ Dropped /\ Spanned
        /\ phase = "answered" /\ Len(answers) < op.events /\ Last(answers) # "raised"
        /\ phase' = "prepare" /\ op' = op /\ permits' = Permits
        /\ layer' = [l \in Layers |-> Idle] /\ coro' = [l \in Layers |-> "none"]
        /\ loop' = loop /\ spans' = spans /\ answers' = answers
    BY DEF IInv, NextEvent
  <1>2. /\ loop = NULL /\ "raised" \notin ToSet(answers)
        /\ \A l \in Layers : Closed(l)
    BY <1>1 DEF Phased
  <1>3. Layers' = Layers /\ \A l \in Layers : layer'[l] = Idle
    BY <1>1 DEF Layers
  <1>4. \A l \in Layers : LayerTyped(l)'
    <2>1. << >> \in Seq(ToSet(<< >>)) /\ Len(<< >>) = 0 /\ DOMAIN << >> = {}
      BY EmptySeq
    <2>2. \A l \in Layers : Len(Plan(l)) \in Nat /\ Plan(l)' = Plan(l)
      BY <1>1, OpShape DEF Types, Plan
    <2>3. \A l \in Layers : /\ layer'[l].state = "idle" /\ layer'[l].index = 1
                            /\ layer'[l].results = << >>
                            /\ layer'[l] = [state |-> "idle", index |-> 1, results |-> << >>]
      BY <1>3 DEF Idle
    <2>4. ASSUME NEW l \in Layers PROVE LayerTyped(l)'
      <3> DEFINE none == << >>
      <3>1. none \in Seq(ToSet(none)) /\ Len(none) = 0 /\ DOMAIN none = {}
        BY <2>1
      <3>2. layer'[l].results = none /\ layer'[l] = [state |-> "idle", index |-> 1, results |-> none]
        BY <2>3
      <3> HIDE DEF none
      <3> QED
        BY <2>2, <2>3, <3>1, <3>2 DEF LayerTyped, States
    <2> QED
      BY <2>4
  <1>5. Types'
    BY <1>1, <1>3, <1>4 DEF Types
  <1>6. Flying = {} /\ Flying' = {} /\ Holding' = {}
    BY <1>2, <1>3 DEF Closed, Flying, Holding, Idle, Ended
  <1>7. Counted' /\ Coroutines' /\ Threaded' /\ Phased' /\ Dropped'
    <2>1. Counted'
      BY <1>1, <1>6, LimitsAssumption, FS_EmptySet DEF Counted
    <2>2. Coroutines'
      BY <1>1, <1>3 DEF Coroutines, Idle
    <2>3. Threaded' /\ Phased' /\ Dropped'
      BY <1>1, <1>2, <1>3, OpShape DEF Types, Threaded, Phased, Dropped, Idle, Children
    <2> QED
      BY <2>1, <2>2, <2>3
  <1>8. Spanned'
    <2>1. \A l \in Layers : layer[l].state # "dropped"
      BY <1>1, <1>2 DEF Dropped
    <2> QED
      BY <1>1, <1>2, <1>6, <2>1 DEF Spanned, Base
  <1> QED
    BY <1>5, <1>7, <1>8 DEF IInv

\* What holds when the event loop is in the code of a layer.
LEMMA AtWork ==
    ASSUME IInv, loop # NULL, layer[loop].state \in {"running", "resumed"}
    PROVE  /\ Types /\ Counted /\ Coroutines /\ Threaded /\ Phased /\ Dropped /\ Spanned
           /\ loop \in Layers /\ 1 \in Layers /\ NULL \notin Layers /\ LayerTyped(loop)
           /\ phase \in {"executing", "answered"}
           /\ phase = "answered" => "raised" \in ToSet(answers)
           /\ loop # 1 => layer[1].state = "done"
           /\ \A l \in Layers : layer[l].state # "dropped"
           /\ \A l \in Layers \ {loop} : layer[l].state \notin {"running", "resumed"}
  <1>1. Types /\ Counted /\ Coroutines /\ Threaded /\ Phased /\ Dropped /\ Spanned
    BY DEF IInv
  <1>2. loop \in Layers /\ 1 \in Layers /\ NULL \notin Layers /\ LayerTyped(loop)
    BY <1>1, OpShape DEF Types
  <1>3. phase \in {"executing", "answered"} /\ (phase = "answered" => "raised" \in ToSet(answers))
    BY <1>1 DEF Types, Phased
  <1>4. loop # 1 => layer[1].state = "done"
    BY <1>1, <1>2 DEF Threaded, Children
  <1>5. \A l \in Layers : layer[l].state # "dropped"
    BY <1>1, <1>3 DEF Dropped
  <1>6. \A l \in Layers \ {loop} : layer[l].state \notin {"running", "resumed"}
    BY <1>1 DEF Threaded
  <1> QED
    BY <1>1, <1>2, <1>3, <1>4, <1>5, <1>6

\* The step returned an awaitable.
LEMMA AwaitKeeps ==
    ASSUME IInv, NEW l \in Layers, l = loop, layer[l].state \in {"running", "resumed"},
           layer[l].index <= Len(Plan(l)),
           layer' = [layer EXCEPT ![l].state = IF @ = "running" THEN "unstarted" ELSE "waiting"],
           coro' = [coro EXCEPT ![l] = "fresh"],
           spans' = spans \cup {StepSpan(l, layer[l].index)},
           loop' = IF l = 1 \/ layer[l].state = "resumed" THEN NULL ELSE NextChild,
           UNCHANGED <<op, phase, answers, awaited, permits>>
    PROVE  IInv'
  <1>1. /\ Types /\ Counted /\ Coroutines /\ Threaded /\ Phased /\ Dropped /\ Spanned
        /\ l \in Layers /\ 1 \in Layers /\ NULL \notin Layers /\ LayerTyped(l)
        /\ phase \in {"executing", "answered"}
        /\ phase = "answered" => "raised" \in ToSet(answers)
        /\ l # 1 => layer[1].state = "done"
        /\ \A k \in Layers : layer[k].state # "dropped"
        /\ \A k \in Layers \ {l} : layer[k].state \notin {"running", "resumed"}
    <2>1. loop # NULL
      BY OpShape DEF IInv, Types
    <2> QED
      BY <2>1, AtWork
  <1>2. PICK x \in {"unstarted", "waiting"} :
          x = IF layer[l].state = "running" THEN "unstarted" ELSE "waiting"
    OBVIOUS
  <1>3. /\ Layers' = Layers /\ DOMAIN layer' = Layers /\ layer' = [k \in Layers |-> layer'[k]]
        /\ \A k \in Layers : LayerTyped(k)'
        /\ layer'[l].state = x /\ layer'[l].index = layer[l].index
        /\ \A k \in Layers \ {l} : layer'[k] = layer[k]
    <2>1. op' = op /\ x \in States /\ l \in Layers /\ Types
      BY <1>1 DEF States
    <2>2. layer' = [layer EXCEPT ![l].state = x]
      BY <1>1, <1>2 DEF Types
    <2>3. layer[l].index <= Len(Plan(l))
      OBVIOUS
    <2> QED
      BY <2>1, <2>2, <2>3, Moved
  <1>4. NextChild = NULL \/ (NextChild \in Layers /\ layer[NextChild].state = "idle")
    BY <1>1, NextChildIsIdle DEF Types
  <1>5. Types'
    BY <1>1, <1>3, <1>4 DEF Types
  <1>6. Holding' = Holding
    BY <1>2, <1>3 DEF Holding
  <1>7. Counted' /\ Coroutines'
    <2>1. Counted'
      BY <1>1, <1>6 DEF Counted
    <2>2. coro' = [k \in Layers |-> coro'[k]] /\ coro'[l] = "fresh"
          /\ \A k \in Layers \ {l} : coro'[k] = coro[k]
      BY <1>1 DEF Coroutines
    <2>3. Coroutines'
      BY <1>1, <1>2, <1>3, <2>2 DEF Coroutines
    <2> QED
      BY <2>1, <2>3
  <1>8. Threaded'
    <2>1. CASE loop' = NULL
      BY <1>1, <1>2, <1>3, <2>1 DEF Threaded, Children
    <2>2. CASE loop' # NULL
      <3>1. loop' = NextChild /\ loop' \in Layers /\ layer[loop'].state = "idle"
            /\ l # 1 /\ layer[l].state = "running" /\ x = "unstarted" /\ loop' # l
        BY <1>1, <1>2, <1>4, <2>2
      <3>2. phase = "executing" /\ \A k \in Layers \ {l} : layer[k].state \in {"idle", "unstarted", "done"}
        BY <1>1, <3>1 DEF Threaded
      <3>3. layer'[1].state = "done" /\ layer'[loop'].state = "idle"
        BY <1>1, <1>3, <3>1
      <3> QED
        BY <1>1, <1>3, <3>1, <3>2, <3>3 DEF Threaded, Children
    <2> QED
      BY <2>1, <2>2
  <1>9. Phased' /\ Dropped'
    BY <1>1, <1>2, <1>3 DEF Phased, Dropped
  <1>10. Spanned'
    <2>1. l \notin Flying /\ Flying' = Flying \cup {l}
      BY <1>1, <1>2, <1>3 DEF Flying
    <2>2. {StepSpan(k, layer'[k].index) : k \in Flying'}
            = {StepSpan(k, layer[k].index) : k \in Flying} \cup {StepSpan(l, layer[l].index)}
      BY <1>3, <2>1 DEF Flying
    <2>3. Base' = Base
      BY DEF Base, OpSpan, PlanSpan
    <2>4. op.planning = "ok" /\ "raised" \notin ToSet(answers)
            => spans = Base \cup {StepSpan(k, layer[k].index) : k \in Flying}
      BY <1>1 DEF Spanned
    <2>5. {StepSpan(k, layer[k].index) : k \in Flying}' = {StepSpan(k, layer'[k].index) : k \in Flying'}
      BY DEF StepSpan
    <2> QED
      BY <2>2, <2>3, <2>4, <2>5 DEF Spanned
  <1> QED
    BY <1>5, <1>7, <1>8, <1>9, <1>10 DEF IInv

\* The step raised; in the synchronous prefix its siblings' awaitables are dropped.
LEMMA StepRaiseKeeps ==
    ASSUME IInv, NEW l \in Layers, l = loop, layer[l].state \in {"running", "resumed"},
           layer' = [k \in Layers |->
                       IF k = l THEN [layer[k] EXCEPT !.state = "raised"]
                       ELSE IF layer[l].state = "running" /\ layer[k].state = "unstarted"
                       THEN [layer[k] EXCEPT !.state = "dropped"] ELSE layer[k]],
           loop' = NULL,
           UNCHANGED <<op, phase, answers, awaited, permits, coro, spans>>
    PROVE  IInv'
  <1> DEFINE drops(k) == layer[l].state = "running" /\ layer[k].state = "unstarted"
  <1>1. /\ Types /\ Counted /\ Coroutines /\ Threaded /\ Phased /\ Dropped /\ Spanned
        /\ 1 \in Layers /\ NULL \notin Layers
        /\ phase \in {"executing", "answered"}
        /\ phase = "answered" => "raised" \in ToSet(answers)
        /\ l # 1 => layer[1].state = "done"
        /\ \A k \in Layers : layer[k].state # "dropped"
        /\ \A k \in Layers \ {l} : layer[k].state \notin {"running", "resumed"}
    <2>1. loop # NULL
      BY OpShape DEF IInv, Types
    <2> QED
      BY <2>1, AtWork
  <1>2. /\ Layers' = Layers /\ DOMAIN layer' = Layers /\ layer' = [k \in Layers |-> layer'[k]]
        /\ layer'[l] = [layer[l] EXCEPT !.state = "raised"]
        /\ \A k \in Layers \ {l} :
             /\ drops(k) => layer'[k] = [layer[k] EXCEPT !.state = "dropped"]
             /\ ~drops(k) => layer'[k] = layer[k]
    BY DEF Layers
  <1>3. "raised" \in States /\ "dropped" \in States /\ op' = op
        /\ "raised" \notin InFlightStates /\ "dropped" \notin InFlightStates
    BY DEF States, Ended, InFlightStates
  <1>4. LayerTyped(l)' /\ layer'[l].state = "raised" /\ layer'[l].index = layer[l].index
    <2>1. l \in Layers /\ LayerTyped(l) /\ op' = op
      BY <1>1, OpShape DEF Types
    <2>2. layer'[l] = [layer[l] EXCEPT !.state = "raised"]
      BY <1>2
    <2> QED
      BY <1>3, <2>1, <2>2, MovedLayer
  <1>5. ASSUME NEW k \in Layers \ {l}
        PROVE  /\ LayerTyped(k)' /\ layer'[k].index = layer[k].index
               /\ layer'[k].state = IF drops(k) THEN "dropped" ELSE layer[k].state
    <2>1. CASE drops(k)
      <3>1. k \in Layers /\ LayerTyped(k) /\ op' = op
        BY <1>1 DEF Types
      <3>2. layer'[k] = [layer[k] EXCEPT !.state = "dropped"]
        BY <1>2, <2>1
      <3>3. LayerTyped(k)' /\ layer'[k].state = "dropped" /\ layer'[k].index = layer[k].index
        BY <1>3, <3>1, <3>2, MovedLayer
      <3> QED
        BY <2>1, <3>3
    <2>2. CASE ~drops(k)
      BY <1>1, <1>2, <1>3, <2>2, UntouchedLayer DEF Types
    <2> QED
      BY <2>1, <2>2
  <1>6. Types'
    BY <1>1, <1>2, <1>4, <1>5 DEF Types
  <1>7. Holding' = Holding
    BY <1>2, <1>4, <1>5 DEF Holding
  <1>8. Counted' /\ Coroutines'
    <2>1. Counted'
      BY <1>1, <1>7 DEF Counted
    <2>2. Coroutines'
      BY <1>1, <1>2, <1>4, <1>5 DEF Coroutines
    <2> QED
      BY <2>1, <2>2
  <1>9. Threaded' /\ Phased'
    BY <1>1, <1>2, <1>4, <1>5 DEF Threaded, Phased, Children
  <1>10. Dropped'
    <2>1. SUFFICES ASSUME NEW k \in Layers, layer'[k].state = "dropped"
                   PROVE  phase' = "executing" /\ loop' = NULL /\ ~InFlight'
      BY <1>2 DEF Dropped
    <2>2. k # l /\ drops(k)
      BY <1>1, <1>4, <1>5, <2>1
    <2>3. phase = "executing" /\ \A j \in Layers \ {l} : layer[j].state \in {"idle", "unstarted", "done"}
      BY <1>1, <2>2 DEF Threaded
    <2>4. \A j \in Layers : layer'[j].state \notin {"unstarted", "waiting", "holding"}
      BY <1>4, <1>5, <2>2, <2>3
    <2> QED
      BY <1>2, <2>3, <2>4 DEF InFlight
  <1>11. Spanned'
    <2>1. SUFFICES ASSUME op.planning = "ok", "raised" \notin ToSet(answers),
                          \A k \in Layers : layer'[k].state # "dropped"
                   PROVE  spans = Base' \cup {StepSpan(k, layer'[k].index) : k \in Flying'}
      BY <1>2 DEF Spanned, StepSpan
    <2>2. Flying' = Flying /\ \A k \in Flying : layer'[k].index = layer[k].index
      BY <1>1, <1>2, <1>4, <1>5, <2>1 DEF Flying
    <2>3. Base' = Base
      BY DEF Base, OpSpan, PlanSpan
    <2>4. spans = Base \cup {StepSpan(k, layer[k].index) : k \in Flying}
      BY <1>1, <2>1 DEF Spanned
    <2>5. {StepSpan(k, layer'[k].index) : k \in Flying'} = {StepSpan(k, layer[k].index) : k \in Flying}
      BY <2>2
    <2> QED
      BY <2>3, <2>4, <2>5
  <1> QED
    BY <1>6, <1>8, <1>9, <1>10, <1>11 DEF IInv

\* The step returned its column.
LEMMA StepStoreKeeps ==
    ASSUME IInv, NEW l \in Layers, l = loop, layer[l].state \in {"running", "resumed"},
           layer[l].index <= Len(Plan(l)),
           layer' = Stored(l),
           UNCHANGED <<op, phase, loop, answers, awaited, permits, coro, spans>>
    PROVE  IInv'
  <1>1. /\ Types /\ Counted /\ Coroutines /\ Threaded /\ Phased /\ Dropped /\ Spanned
        /\ LayerTyped(l) /\ loop # NULL
        /\ phase \in {"executing", "answered"}
        /\ phase = "answered" => "raised" \in ToSet(answers)
    <2>1. loop # NULL
      BY OpShape DEF IInv, Types
    <2> QED
      BY <2>1, AtWork
  <1>2. PICK x \in States \ InFlightStates : x = layer[l].state
    BY DEF States, InFlightStates
  <1>3. /\ Layers' = Layers /\ DOMAIN layer' = Layers /\ layer' = [k \in Layers |-> layer'[k]]
        /\ layer'[l] = [state |-> x, index |-> layer[l].index + 1,
                        results |-> Append(layer[l].results, Output(l, layer[l].index))]
        /\ \A k \in Layers \ {l} : layer'[k] = layer[k]
    <2>1. layer[l] = [state |-> x, index |-> layer[l].index, results |-> layer[l].results]
      BY <1>1, <1>2 DEF LayerTyped
    <2>2. layer'[l] = [layer[l] EXCEPT !.results = Append(@, Output(l, layer[l].index)), !.index = @ + 1]
      BY <1>1 DEF Stored, Types
    <2>3. layer'[l] = [state |-> x, index |-> layer[l].index + 1,
                       results |-> Append(layer[l].results, Output(l, layer[l].index))]
      <3> DEFINE old == layer[l]
                 i == layer[l].index
                 r == layer[l].results
                 j == layer[l].index + 1
                 q == Append(layer[l].results, Output(l, layer[l].index))
      <3>1. layer'[l] = [old EXCEPT !.results = q, !.index = j]
        BY <2>2
      <3>2. old = [state |-> x, index |-> i, results |-> r]
        BY <2>1
      <3> HIDE DEF old, i, r, j, q
      <3>3. layer'[l] = [state |-> x, index |-> j, results |-> q]
        BY <3>1, <3>2
      <3> QED
        BY <3>3 DEF j, q
    <2> QED
      BY <1>1, <2>3 DEF Stored, Types, Layers
  <1>4. LayerTyped(l)' /\ layer'[l].state = x
    BY <1>1, <1>3, StoredLayer DEF Types
  <1>5. \A k \in Layers : LayerTyped(k)' /\ layer'[k].state = layer[k].state
    BY <1>1, <1>2, <1>3, <1>4, UntouchedLayer DEF Types
  <1>6. Types'
    BY <1>1, <1>3, <1>5 DEF Types
  <1>7. Holding' = Holding /\ Flying' = Flying /\ InFlight' = InFlight
    BY <1>3, <1>5 DEF Holding, Flying, InFlight
  <1>8. Counted' /\ Coroutines' /\ Threaded'
    <2>1. Counted'
      BY <1>1, <1>7 DEF Counted
    <2>2. Coroutines'
      BY <1>1, <1>3, <1>5 DEF Coroutines
    <2>3. Threaded'
      <3>1. loop' = loop /\ phase' = phase /\ Layers' = Layers /\ Children' = Children /\ 1 \in Layers
        BY <1>1, <1>3, OpShape DEF Types, Children
      <3>2. loop \in Layers /\ layer'[loop].state = layer[loop].state /\ layer'[1].state = layer[1].state
        BY <1>5, <3>1
      <3>3. \A k \in Layers : layer'[k].state = layer[k].state
        BY <1>5
      <3> QED
        BY <1>1, <3>1, <3>2, <3>3 DEF Threaded, Children
    <2> QED
      BY <2>1, <2>2, <2>3
  <1>9. Phased' /\ Dropped'
    BY <1>1, <1>3, <1>5, <1>7 DEF Phased, Dropped
  <1>10. Spanned'
    <2>1. l \notin Flying
      BY <1>2 DEF Flying, InFlightStates
    <2>2. \A k \in Flying : layer'[k].index = layer[k].index
      BY <1>3, <2>1 DEF Flying
    <2>3. {StepSpan(k, layer'[k].index) : k \in Flying'} = {StepSpan(k, layer[k].index) : k \in Flying}
      BY <1>7, <2>2
    <2>4. Base' = Base
      BY DEF Base, OpSpan, PlanSpan
    <2>5. {StepSpan(k, layer[k].index) : k \in Flying}' = {StepSpan(k, layer'[k].index) : k \in Flying'}
      BY DEF StepSpan
    <2>6. op' = op /\ answers' = answers /\ spans' = spans
      BY <1>1
    <2>7. (\A k \in Layers : layer[k].state # "dropped")' <=> \A k \in Layers : layer[k].state # "dropped"
      BY ONLY <1>3, <1>5
    <2>8. Spanned
      BY <1>1
    <2> QED
      BY ONLY <2>3, <2>4, <2>5, <2>6, <2>7, <2>8 DEF Spanned
  <1> QED
    BY <1>6, <1>8, <1>9, <1>10 DEF IInv

\* One step of the layer the event loop runs.
LEMMA RunStepKeeps == IInv /\ RunStep => IInv'
  <1> SUFFICES ASSUME IInv, RunStep PROVE IInv'
    OBVIOUS
  <1>1. PICK l \in Layers : l = loop
    BY DEF RunStep, IInv, Types
  <1>2. /\ layer[l].state \in {"running", "resumed"} /\ layer[l].index <= Len(Plan(l))
        /\ op' = op /\ phase' = phase /\ awaited' = awaited /\ permits' = permits
    BY <1>1 DEF RunStep
  <1>3. \/ /\ layer' = [layer EXCEPT ![l].state = IF @ = "running" THEN "unstarted" ELSE "waiting"]
           /\ coro' = [coro EXCEPT ![l] = "fresh"]
           /\ spans' = spans \cup {StepSpan(l, layer[l].index)}
           /\ loop' = IF l = 1 \/ layer[l].state = "resumed" THEN NULL ELSE NextChild
           /\ answers' = answers
        \/ /\ layer' = [k \in Layers |->
                          IF k = l THEN [layer[k] EXCEPT !.state = "raised"]
                          ELSE IF layer[l].state = "running" /\ layer[k].state = "unstarted"
                          THEN [layer[k] EXCEPT !.state = "dropped"] ELSE layer[k]]
           /\ loop' = NULL
           /\ UNCHANGED <<coro, spans, answers>>
        \/ layer' = Stored(l) /\ UNCHANGED <<loop, coro, spans, answers>>
    BY <1>1 DEF RunStep
  <1> QED
    BY <1>1, <1>2, <1>3, AwaitKeeps, StepRaiseKeeps, StepStoreKeeps

\* The layer's steps are over.
LEMMA LayerDoneKeeps == IInv /\ LayerDone => IInv'
  <1> SUFFICES ASSUME IInv, LayerDone PROVE IInv'
    OBVIOUS
  <1>1. /\ Types /\ Counted /\ Coroutines /\ Threaded /\ Phased /\ Dropped /\ Spanned
        /\ loop \in Layers /\ 1 \in Layers /\ NULL \notin Layers
        /\ phase \in {"executing", "answered"}
        /\ phase = "answered" => "raised" \in ToSet(answers)
        /\ loop # 1 => layer[1].state = "done"
        /\ \A k \in Layers : layer[k].state # "dropped"
        /\ \A k \in Layers \ {loop} : layer[k].state \notin {"running", "resumed"}
    BY AtWork DEF LayerDone
  <1>2. PICK l \in Layers : l = loop
    BY <1>1
  <1>3. /\ layer[l].state \in {"running", "resumed"}
        /\ layer' = [layer EXCEPT ![l].state = "done"]
        /\ loop' = IF l = 1 \/ layer[l].state = "running" THEN NextChild ELSE NULL
        /\ op' = op /\ phase' = phase /\ permits' = permits /\ coro' = coro
        /\ spans' = spans /\ answers' = answers
    BY <1>2 DEF LayerDone
  <1>4. /\ Layers' = Layers /\ DOMAIN layer' = Layers /\ layer' = [k \in Layers |-> layer'[k]]
        /\ \A k \in Layers : LayerTyped(k)'
        /\ layer'[l].state = "done"
        /\ \A k \in Layers \ {l} : layer'[k] = layer[k]
    BY <1>1, <1>3, Moved DEF States, Ended, InFlightStates
  <1>5. NextChild = NULL \/ (NextChild \in Layers /\ layer[NextChild].state = "idle")
    BY <1>1, NextChildIsIdle DEF Types
  <1>6. Types'
    BY <1>1, <1>3, <1>4, <1>5 DEF Types
  <1>7. Holding' = Holding /\ Flying' = Flying /\ l \notin Flying
    BY <1>3, <1>4 DEF Holding, Flying
  <1>8. Counted' /\ Coroutines'
    BY <1>1, <1>3, <1>4, <1>7 DEF Counted, Coroutines
  <1>9. Threaded'
    <2>1. CASE loop' = NULL
      BY <1>1, <1>2, <1>3, <1>4, <2>1 DEF Threaded, Children
    <2>2. CASE loop' # NULL
      <3>1. loop' = NextChild /\ loop' \in Layers /\ layer[loop'].state = "idle" /\ loop' # l
            /\ (l = 1 \/ layer[l].state = "running")
        BY <1>3, <1>5, <2>2
      <3>2. phase = "executing" /\ \A k \in Layers \ {l} : layer[k].state \in {"idle", "unstarted", "done"}
        <4>1. CASE layer[l].state = "running"
          BY <1>1, <1>2, <4>1 DEF Threaded
        <4>2. CASE l = 1 /\ layer[l].state = "resumed"
          <5>1. \A k \in Layers \ {l} : layer[k].state = "idle"
            BY <1>1, <4>2 DEF Threaded, Children
          <5>2. \A k \in Layers : layer[k].state # "raised"
            BY <1>3, <5>1
          <5> QED
            BY <1>1, <5>1, <5>2 DEF Phased
        <4> QED
          BY <1>3, <3>1, <4>1, <4>2
      <3>3. layer'[1].state = "done" /\ layer'[loop'].state = "idle"
        BY <1>1, <1>2, <1>4, <3>1
      <3> QED
        BY <1>1, <1>3, <1>4, <3>1, <3>2, <3>3 DEF Threaded, Children
    <2> QED
      BY <2>1, <2>2
  <1>10. Phased' /\ Dropped'
    BY <1>1, <1>2, <1>3, <1>4 DEF Phased, Dropped
  <1>11. Spanned'
    <2>1. {StepSpan(k, layer'[k].index) : k \in Flying'} = {StepSpan(k, layer[k].index) : k \in Flying}
      <3>1. \A k \in Flying : layer'[k].index = layer[k].index
        BY <1>4, <1>7 DEF Flying
      <3> QED
        BY <1>7, <3>1
    <2>2. Base' = Base
      BY <1>3 DEF Base, OpSpan, PlanSpan
    <2> QED
      BY <1>1, <1>3, <1>4, <2>1, <2>2 DEF Spanned, StepSpan
  <1> QED
    BY <1>6, <1>8, <1>9, <1>10, <1>11 DEF IInv

\* A child layer begins.
LEMMA BeginChildKeeps == IInv /\ BeginChild => IInv'
  <1> SUFFICES ASSUME IInv, BeginChild PROVE IInv'
    OBVIOUS
  <1>1. /\ Types /\ Counted /\ Coroutines /\ Threaded /\ Phased /\ Dropped /\ Spanned
        /\ loop \in Layers /\ 1 \in Layers /\ NULL \notin Layers
    BY OpShape DEF IInv, Types, BeginChild
  <1>2. PICK l \in Layers : l = loop
    BY <1>1
  <1>3. /\ layer[l].state = "idle"
        /\ layer' = [layer EXCEPT ![l].state = "running"]
        /\ op' = op /\ phase' = phase /\ permits' = permits /\ coro' = coro
        /\ spans' = spans /\ answers' = answers /\ loop' = loop
    BY <1>2 DEF BeginChild
  <1>4. /\ Layers' = Layers /\ DOMAIN layer' = Layers /\ layer' = [k \in Layers |-> layer'[k]]
        /\ \A k \in Layers : LayerTyped(k)'
        /\ layer'[l].state = "running"
        /\ \A k \in Layers \ {l} : layer'[k] = layer[k]
    BY <1>1, <1>3, Moved DEF States, InFlightStates
  <1>5. phase = "executing" /\ \A k \in Layers \ {l} : layer[k].state \in {"idle", "unstarted", "done"}
    BY <1>1, <1>2, <1>3 DEF Threaded
  <1>6. Types'
    BY <1>1, <1>3, <1>4 DEF Types
  <1>7. Holding' = Holding /\ Flying' = Flying /\ l \notin Flying
    BY <1>3, <1>4 DEF Holding, Flying
  <1>8. Counted' /\ Coroutines'
    BY <1>1, <1>3, <1>4, <1>7 DEF Counted, Coroutines
  <1>9. Threaded'
    <2>1. l # 1 => layer[1].state = "done"
      BY <1>1, <1>2 DEF Threaded, Children
    <2>2. \A k \in Layers \ {l} : layer'[k].state \in {"idle", "unstarted", "done"}
      BY <1>4, <1>5
    <2>3. layer'[1].state # "done" => \A k \in Layers \ {1} : layer'[k].state = "idle" /\ loop # k
      BY <1>1, <1>2, <1>4, <1>3, <2>1 DEF Threaded, Children
    <2> QED
      BY <1>2, <1>3, <1>4, <1>5, <2>2, <2>3 DEF Threaded, Children
  <1>10. Phased' /\ Dropped'
    BY <1>1, <1>2, <1>3, <1>4, <1>5 DEF Phased, Dropped
  <1>11. Spanned'
    <2>1. {StepSpan(k, layer'[k].index) : k \in Flying'} = {StepSpan(k, layer[k].index) : k \in Flying}
      <3>1. \A k \in Flying : layer'[k].index = layer[k].index
        BY <1>4, <1>7 DEF Flying
      <3> QED
        BY <1>7, <3>1
    <2>2. Base' = Base
      BY <1>3 DEF Base, OpSpan, PlanSpan
    <2> QED
      BY <1>1, <1>3, <1>4, <2>1, <2>2 DEF Spanned, StepSpan
  <1> QED
    BY <1>6, <1>8, <1>9, <1>10, <1>11 DEF IInv

\* What holds when the event loop is idle and a layer is in flight.
LEMMA AtRest ==
    ASSUME IInv, loop = NULL, NEW l \in Layers, layer[l].state \in InFlightStates
    PROVE  /\ Types /\ Counted /\ Coroutines /\ Threaded /\ Phased /\ Dropped /\ Spanned
           /\ LayerTyped(l) /\ layer[l].index <= Len(Plan(l))
           /\ 1 \in Layers /\ NULL \notin Layers
           /\ phase \in {"executing", "answered"}
           /\ phase = "answered" => "raised" \in ToSet(answers)
           /\ l # 1 => layer[1].state = "done"
           /\ \A k \in Layers : layer[k].state \notin {"dropped", "running", "resumed"}
  <1>1. /\ Types /\ Counted /\ Coroutines /\ Threaded /\ Phased /\ Dropped /\ Spanned
        /\ 1 \in Layers /\ NULL \notin Layers /\ InFlight
    BY OpShape DEF IInv, Types, InFlight, InFlightStates
  <1>2. LayerTyped(l) /\ layer[l].index <= Len(Plan(l))
    BY <1>1 DEF Types, LayerTyped, InFlightStates
  <1>3. phase \in {"executing", "answered"} /\ (phase = "answered" => "raised" \in ToSet(answers))
    BY <1>1 DEF Types, Phased, Closed, Ended, Idle, InFlightStates
  <1>4. l # 1 => layer[1].state = "done"
    BY <1>1 DEF Threaded, Children, InFlightStates
  <1>5. \A k \in Layers : layer[k].state \notin {"dropped", "running", "resumed"}
    BY <1>1, <1>3 DEF Dropped, Threaded
  <1> QED
    BY <1>1, <1>2, <1>3, <1>4, <1>5

\* A layer in flight stays in flight: it takes its first step, or its permit.
LEMMA FlightGoesOn ==
    ASSUME IInv, loop = NULL, NEW l \in Layers, layer[l].state \in InFlightStates,
           NEW x \in InFlightStates, layer' = [layer EXCEPT ![l].state = x],
           UNCHANGED <<op, phase, loop, answers, spans>>
    PROVE  /\ Types' /\ Threaded' /\ Phased' /\ Dropped' /\ Spanned'
           /\ Layers' = Layers /\ layer'[l].state = x
           /\ \A k \in Layers \ {l} : layer'[k] = layer[k]
  <1>1. /\ Types /\ Counted /\ Coroutines /\ Threaded /\ Phased /\ Dropped /\ Spanned
        /\ layer[l].index <= Len(Plan(l))
        /\ 1 \in Layers /\ NULL \notin Layers
        /\ phase \in {"executing", "answered"}
        /\ phase = "answered" => "raised" \in ToSet(answers)
        /\ l # 1 => layer[1].state = "done"
        /\ \A k \in Layers : layer[k].state \notin {"dropped", "running", "resumed"}
    BY AtRest
  <1>2. /\ Layers' = Layers /\ DOMAIN layer' = Layers /\ layer' = [k \in Layers |-> layer'[k]]
        /\ \A k \in Layers : LayerTyped(k)'
        /\ layer'[l].state = x /\ layer'[l].index = layer[l].index
        /\ \A k \in Layers \ {l} : layer'[k] = layer[k]
    <2>1. x \in States /\ op' = op
      BY DEF States, InFlightStates
    <2> QED
      BY <1>1, <2>1, Moved
  <1>3. x \in {"unstarted", "waiting", "holding"} /\ layer[l].state \in {"unstarted", "waiting", "holding"}
    BY DEF InFlightStates
  <1>4. Types'
    BY <1>1, <1>2 DEF Types
  <1>5. Threaded' /\ Phased' /\ Dropped'
    BY <1>1, <1>2, <1>3 DEF Threaded, Phased, Dropped, Children
  <1>6. Spanned'
    <2>1. Flying' = Flying
      BY <1>2, <1>3 DEF Flying
    <2>2. \A k \in Flying : layer'[k].index = layer[k].index
      BY <1>2 DEF Flying
    <2>3. {StepSpan(k, layer'[k].index) : k \in Flying'} = {StepSpan(k, layer[k].index) : k \in Flying}
      BY <2>1, <2>2
    <2>4. Base' = Base
      BY DEF Base, OpSpan, PlanSpan
    <2> QED
      BY <1>1, <2>3, <2>4 DEF Spanned, StepSpan
  <1> QED
    BY <1>2, <1>4, <1>5, <1>6

\* A layer takes its first step.
LEMMA FirstStepKeeps ==
    ASSUME IInv, loop = NULL, NEW l \in Layers, layer[l].state = "unstarted",
           layer' = [layer EXCEPT ![l].state = "waiting"],
           UNCHANGED <<op, phase, loop, permits, coro, spans, answers>>
    PROVE  IInv'
  <1>1. /\ Types' /\ Threaded' /\ Phased' /\ Dropped' /\ Spanned'
        /\ Layers' = Layers /\ layer'[l].state = "waiting"
        /\ \A k \in Layers \ {l} : layer'[k] = layer[k]
    BY FlightGoesOn DEF InFlightStates
  <1>2. Holding' = Holding
    BY <1>1 DEF Holding
  <1>3. Counted' /\ Coroutines'
    BY <1>1, <1>2 DEF IInv, Counted, Coroutines
  <1> QED
    BY <1>1, <1>3 DEF IInv

\* A task takes its first step.
LEMMA StartKeeps == ASSUME IInv, NEW l \in Layers, Start(l) PROVE IInv'
  BY FirstStepKeeps DEF Start

\* Nothing of what the invariant speaks of changes.
LEMMA StutterKeeps ==
    ASSUME IInv, UNCHANGED <<op, phase, layer, loop, permits, coro, spans, answers>>
    PROVE  IInv'
  <1>1. Types /\ Counted /\ Coroutines /\ Threaded /\ Phased /\ Dropped /\ Spanned
    BY DEF IInv
  <1>2. Layers' = Layers /\ Flying' = Flying /\ Holding' = Holding /\ InFlight' = InFlight /\ Base' = Base
    BY DEF Layers, Flying, Holding, InFlight, Base, OpSpan, PlanSpan
  <1>3. (\A l \in Layers : LayerTyped(l)') /\ Counted' /\ Coroutines'
    <2>1. LayersAlone
      BY DEF LayersAlone
    <2> QED
      BY <1>1, <2>1, LayersAloneKeep
  <1>4. Types' /\ Threaded' /\ Phased' /\ Dropped'
    BY <1>1, <1>2, <1>3 DEF Types, Threaded, Children, Phased, Closed, Dropped
  <1>5. Spanned'
    BY <1>1, <1>2 DEF Spanned, StepSpan
  <1> QED
    BY <1>3, <1>4, <1>5 DEF IInv

\* The host awaits the entry point's coroutine.
LEMMA HostAwaitsKeeps == IInv /\ HostAwaits => IInv'
  <1> SUFFICES ASSUME IInv, HostAwaits PROVE IInv'
    OBVIOUS
  <1>1. /\ loop = NULL
        /\ UNCHANGED <<op, phase, loop, permits, coro, spans, answers>>
        /\ layer' = layer \/ (layer[1].state = "unstarted" /\ layer' = [layer EXCEPT ![1].state = "waiting"])
    BY DEF HostAwaits
  <1>2. 1 \in Layers
    BY OpShape DEF IInv, Types
  <1> QED
    BY <1>1, <1>2, FirstStepKeeps, StutterKeeps

\* A waiting layer takes a permit.
LEMMA AcquireKeeps == ASSUME IInv, NEW l \in Layers, Acquire(l) PROVE IInv'
  <1>1. /\ loop = NULL /\ layer[l].state = "waiting" /\ permits > 0 /\ permits' = permits - 1
        /\ layer' = [layer EXCEPT ![l].state = "holding"]
        /\ coro' = [coro EXCEPT ![l] = "open"]
        /\ UNCHANGED <<op, phase, loop, spans, answers>>
    BY DEF Acquire
  <1>2. /\ Types' /\ Threaded' /\ Phased' /\ Dropped' /\ Spanned'
        /\ Layers' = Layers /\ layer'[l].state = "holding"
        /\ \A k \in Layers \ {l} : layer'[k] = layer[k]
    BY <1>1, FlightGoesOn DEF InFlightStates
  <1>3. Counted'
    <2>1. Holding' = Holding \cup {l} /\ l \notin Holding
      BY <1>1, <1>2 DEF Holding
    <2>2. IsFiniteSet(Holding) /\ Cardinality(Holding) \in Nat /\ permits \in Nat
          /\ permits + Cardinality(Holding) = Permits
      BY HoldingFinite DEF IInv, Types, Counted
    <2>3. Cardinality(Holding') = Cardinality(Holding) + 1
      BY <2>1, <2>2, FS_AddElement
    <2>4. permits' + Cardinality(Holding') = Permits /\ permits' \in Nat
      BY <1>1, <2>2, <2>3
    <2>5. Cardinality(Holding)' = Cardinality(Holding')
      OBVIOUS
    <2> QED
      BY <2>4, <2>5 DEF Counted
  <1>4. Coroutines'
    <2>1. coro'[l] = "open" /\ coro' = [k \in Layers |-> coro'[k]] /\ \A k \in Layers \ {l} : coro'[k] = coro[k]
      BY <1>1 DEF IInv, Coroutines
    <2> QED
      BY <1>2, <2>1 DEF IInv, Coroutines
  <1> QED
    BY <1>2, <1>3, <1>4 DEF IInv

\* The spans of two layers differ, and from the operation's.
LEMMA SpansDiffer ==
    ASSUME phase = "executing" \/ phase = "answered", NEW l, NEW s
    PROVE  /\ StepSpan(l, s) \notin Base
           /\ \A k, t : k # l => StepSpan(k, t) # StepSpan(l, s)
  <1>1. \A k, t : StepSpan(k, t)[1] = "step" /\ StepSpan(k, t)[2] = k
    BY DEF StepSpan
  <1>2. \A x \in Base : x[1] = "op"
    BY DEF Base, OpSpan
  <1> QED
    BY <1>1, <1>2

\* The loader answers and its permit is returned; what the layer then does is
\* either its code or an exception.
LEMMA LandingKeeps ==
    ASSUME IInv, loop = NULL, NEW l \in Layers, layer[l].state = "holding",
           permits' = permits + 1,
           coro' = [coro EXCEPT ![l] = "done"],
           spans' = spans \ {StepSpan(l, layer[l].index)},
           UNCHANGED <<op, phase, answers>>,
           DOMAIN layer' = Layers, layer' = [k \in Layers |-> layer'[k]], LayerTyped(l)',
           \A k \in Layers \ {l} : layer'[k] = layer[k],
           \/ layer'[l].state = "raised" /\ loop' = NULL
           \/ layer'[l].state = "resumed" /\ loop' = l
    PROVE  IInv'
  <1>1. /\ Types /\ Counted /\ Coroutines /\ Threaded /\ Phased /\ Dropped /\ Spanned
        /\ 1 \in Layers /\ NULL \notin Layers
        /\ phase \in {"executing", "answered"}
        /\ phase = "answered" => "raised" \in ToSet(answers)
        /\ l # 1 => layer[1].state = "done"
        /\ \A k \in Layers : layer[k].state \notin {"dropped", "running", "resumed"}
    BY AtRest DEF InFlightStates
  <1>2. Layers' = Layers /\ \A k \in Layers : LayerTyped(k)'
    <2>1. op' = op /\ \A k \in Layers : LayerTyped(k)
      BY <1>1 DEF Types
    <2>2. ASSUME NEW k \in Layers, k # l PROVE LayerTyped(k)'
      BY <2>1, <2>2, UntouchedLayer
    <2> QED
      BY <2>2 DEF Layers
  <1>3. layer'[l].state \in {"raised", "resumed"} /\ loop' \in {NULL, l}
    OBVIOUS
  <1>4. Types'
    BY <1>1, <1>2, <1>3 DEF Types
  <1>5. Counted'
    <2>1. Holding' = Holding \ {l} /\ l \in Holding
      BY <1>2, <1>3 DEF Holding
    <2>2. IsFiniteSet(Holding) /\ Cardinality(Holding) \in Nat /\ permits \in Nat
          /\ permits + Cardinality(Holding) = Permits
      BY <1>1, HoldingFinite DEF Types, Counted
    <2>3. Cardinality(Holding') = Cardinality(Holding) - 1
      BY <2>1, <2>2, FS_RemoveElement
    <2>4. permits' + Cardinality(Holding') = Permits /\ permits' \in Nat
      BY <2>2, <2>3
    <2>5. Cardinality(Holding)' = Cardinality(Holding')
      OBVIOUS
    <2> QED
      BY <2>4, <2>5 DEF Counted
  <1>6. Coroutines'
    <2>1. coro'[l] = "done" /\ coro' = [k \in Layers |-> coro'[k]] /\ \A k \in Layers \ {l} : coro'[k] = coro[k]
      BY <1>1 DEF Coroutines
    <2> QED
      BY <1>1, <1>2, <1>3, <2>1 DEF Coroutines
  <1>7. Threaded'
    <2>1. \A k \in Layers : layer'[k].state \in {"running", "resumed"} => loop' = k
      BY <1>1, <1>3
    <2>2. loop' # NULL => layer'[loop'].state = "resumed"
      BY <1>1
    <2>3. layer'[1].state # "done" => \A k \in Children : layer'[k].state = "idle" /\ loop' # k
      BY <1>1, <1>3 DEF Threaded, Children
    <2> QED
      BY <1>2, <2>1, <2>2, <2>3 DEF Threaded, Children
  <1>8. Phased' /\ Dropped'
    BY <1>1, <1>2, <1>3 DEF Phased, Dropped
  <1>9. Spanned'
    <2>1. Flying' = Flying \ {l} /\ l \in Flying
      BY <1>2, <1>3 DEF Flying
    <2>2. \A k \in Flying' : layer'[k].index = layer[k].index
      BY <2>1 DEF Flying
    <2>3. {StepSpan(k, layer'[k].index) : k \in Flying'}
            = {StepSpan(k, layer[k].index) : k \in Flying} \ {StepSpan(l, layer[l].index)}
      BY <1>1, <2>1, <2>2, SpansDiffer
    <2>4. Base' = Base /\ StepSpan(l, layer[l].index) \notin Base
      BY <1>1, SpansDiffer DEF Base, OpSpan, PlanSpan
    <2>5. op.planning = "ok" /\ "raised" \notin ToSet(answers)
            => spans' = Base \cup {StepSpan(k, layer'[k].index) : k \in Flying'}
      BY <1>1, <2>3, <2>4 DEF Spanned
    <2> QED
      BY <2>4, <2>5 DEF Spanned, StepSpan
  <1> QED
    BY <1>4, <1>5, <1>6, <1>7, <1>8, <1>9 DEF IInv

\* A loader answers: in full, or short.
LEMMA ResolveKeeps == ASSUME IInv, NEW l \in Layers, Resolve(l) PROVE IInv'
  <1>1. /\ loop = NULL /\ layer[l].state = "holding" /\ permits' = permits + 1
        /\ coro' = [coro EXCEPT ![l] = "done"]
        /\ spans' = spans \ {StepSpan(l, layer[l].index)}
        /\ UNCHANGED <<op, phase, answers>>
        /\ \/ layer' = [layer EXCEPT ![l].state = "raised"] /\ loop' = NULL
           \/ layer' = [Stored(l) EXCEPT ![l].state = "resumed"] /\ loop' = l
    BY DEF Resolve, Release
  <1>2. Types /\ LayerTyped(l) /\ layer[l].index <= Len(Plan(l))
    BY <1>1, AtRest DEF InFlightStates
  <1>3. CASE layer' = [layer EXCEPT ![l].state = "raised"] /\ loop' = NULL
    <2>1. /\ DOMAIN layer' = Layers /\ layer' = [k \in Layers |-> layer'[k]]
          /\ LayerTyped(l)' /\ layer'[l].state = "raised"
          /\ \A k \in Layers \ {l} : layer'[k] = layer[k]
      BY <1>1, <1>2, <1>3, Moved DEF States, Ended, InFlightStates
    <2> QED
      BY <1>1, <1>3, <2>1, LandingKeeps
  <1>4. CASE layer' = [Stored(l) EXCEPT ![l].state = "resumed"] /\ loop' = l
    <2>1. /\ DOMAIN layer' = Layers /\ layer' = [k \in Layers |-> layer'[k]]
          /\ \A k \in Layers \ {l} : layer'[k] = layer[k]
          /\ layer'[l] = [[layer[l] EXCEPT !.results = Append(@, Output(l, layer[l].index)), !.index = @ + 1]
                            EXCEPT !.state = "resumed"]
      BY <1>2, <1>4 DEF Stored, Types
    <2>2. layer'[l] = [state |-> "resumed", index |-> layer[l].index + 1,
                       results |-> Append(layer[l].results, Output(l, layer[l].index))]
      <3> DEFINE old == layer[l]
                 x == layer[l].state
                 i == layer[l].index
                 r == layer[l].results
                 j == layer[l].index + 1
                 q == Append(layer[l].results, Output(l, layer[l].index))
      <3>1. layer'[l] = [[old EXCEPT !.results = q, !.index = j] EXCEPT !.state = "resumed"]
        BY <2>1
      <3>2. old = [state |-> x, index |-> i, results |-> r]
        BY <1>2 DEF LayerTyped
      <3> HIDE DEF old, x, i, r, j, q
      <3>3. layer'[l] = [state |-> "resumed", index |-> j, results |-> q]
        BY <3>1, <3>2
      <3> QED
        BY <3>3 DEF j, q
    <2>3. LayerTyped(l)' /\ layer'[l].state = "resumed"
      <3>1. "resumed" \in States \ InFlightStates /\ op' = op /\ op \in Operations
        BY <1>1, <1>2 DEF States, InFlightStates, Types
      <3> QED
        BY <1>2, <2>2, <3>1, StoredLayer
    <2> QED
      BY <1>1, <1>4, <2>1, <2>3, LandingKeeps
  <1> QED
    BY <1>1, <1>3, <1>4

\* An answer that leaves the layers as they are.
LEMMA AnswerKeeps ==
    ASSUME IInv, LayersAlone, phase = "executing", loop = NULL,
           NEW kind \in AnswerKinds, answers' = Append(answers, kind), phase' = "answered",
           kind # "raised" => (op.planning = "ok" => spans' = {}) /\ \A l \in Layers : layer[l].state = "done",
           kind = "raised" => \E l \in Layers : layer[l].state = "raised"
    PROVE  IInv'
  <1>1. /\ Types /\ Counted /\ Coroutines /\ Threaded /\ Phased /\ Dropped /\ Spanned
        /\ "raised" \notin ToSet(answers)
    BY DEF IInv, Phased
  <1>2. /\ Layers' = Layers /\ Flying' = Flying
        /\ \A l \in Layers : LayerTyped(l)' /\ (Closed(l)' <=> Closed(l))
        /\ Counted' /\ Coroutines'
    BY <1>1, LayersAloneKeep
  <1>3. answers \in Seq(AnswerKinds) /\ Len(answers) < op.events /\ op.events \in Nat
    BY <1>1, OpShape DEF Types, AnswerKinds
  <1>4. /\ answers' \in Seq(AnswerKinds) /\ Len(answers') <= op.events
        /\ ToSet(answers') = ToSet(answers) \cup {kind} /\ Last(answers') = kind
    BY <1>3, AnswerAppended
  <1>5. Types'
    BY <1>1, <1>2, <1>4 DEF Types, LayersAlone, AnswerKinds
  <1>6. Threaded'
    BY <1>1, <1>2 DEF Threaded, LayersAlone, Children
  <1>7. kind # "raised" => \A l \in Layers : Closed(l)'
    BY <1>2 DEF Closed, Ended
  <1>8. "raised" \in ToSet(answers') <=> kind = "raised"
    BY <1>1, <1>4
  <1>9. Phased'
    <2>1. loop' = NULL
      BY DEF LayersAlone
    <2>2. kind = "raised" => \E l \in Layers : layer'[l].state = "raised"
      BY DEF LayersAlone
    <2> QED
      BY <1>2, <1>4, <1>7, <1>8, <2>1, <2>2 DEF Phased
  <1>10. Dropped'
    <2>1. (\E l \in Layers : layer[l].state = "dropped") => loop = NULL /\ ~InFlight /\ kind = "raised"
      BY <1>1 DEF Dropped
    <2>2. InFlight' = InFlight
      BY DEF InFlight, LayersAlone, Layers
    <2> QED
      BY <1>2, <1>8, <2>1, <2>2 DEF Dropped, LayersAlone
  <1>11. Spanned'
    <2>1. kind # "raised" => Flying' = {}
      BY <1>2 DEF Flying
    <2> QED
      BY <1>8, <2>1 DEF Spanned, Base, LayersAlone
  <1> QED
    BY <1>2, <1>5, <1>6, <1>9, <1>10, <1>11 DEF IInv

\* Every layer is over.
LEMMA FinishKeeps == IInv /\ Finish => IInv'
  <1> SUFFICES ASSUME IInv, Finish PROVE IInv'
    OBVIOUS
  <1>1. /\ Types /\ Phased /\ Dropped /\ Spanned /\ LayersAlone
        /\ phase = "executing" /\ loop = NULL /\ phase' = "answered"
        /\ \A l \in Layers : layer[l].state = "done"
    BY DEF IInv, Finish, Answer, LayersAlone
  <1>2. PICK kind \in {"error", "data"} : answers' = Append(answers, kind)
    BY DEF Finish, Answer
  <1>3. op.planning = "ok" => spans' = {}
    <2>1. spans' = spans \ OpSpan
      BY DEF Finish, Answer
    <2>2. Flying = {} /\ "raised" \notin ToSet(answers) /\ \A l \in Layers : layer[l].state # "dropped"
      BY <1>1 DEF Flying, Phased
    <2>3. op.planning = "ok" => spans = OpSpan
      BY <1>1, <2>2 DEF Spanned, Base
    <2> QED
      BY <2>1, <2>3
  <1> QED
    BY <1>1, <1>2, <1>3, AnswerKeeps DEF AnswerKinds

\* An exception goes to the host.
LEMMA RaiseKeeps == IInv /\ Raise => IInv'
  <1> SUFFICES ASSUME IInv, Raise PROVE IInv'
    OBVIOUS
  <1>1. /\ LayersAlone /\ phase = "executing" /\ loop = NULL /\ phase' = "answered"
        /\ answers' = Append(answers, "raised")
        /\ \E l \in Layers : layer[l].state = "raised"
    BY DEF Raise, Answer, LayersAlone
  <1> QED
    BY <1>1, AnswerKeeps DEF AnswerKinds

\* Every layer in flight is cancelled where it stands, or dropped before its first
\* step when the host may cancel that early.
LEMMA CancelKeeps ==
    ASSUME IInv, phase = "executing", loop = NULL, InFlight, CancelLayers,
           UNCHANGED <<op, loop>>,
           \/ AllStarted /\ phase' = "answered" /\ answers' = Append(answers, "timeout")
           \/ (EarlyCancel \/ AllStarted) /\ phase' = "cancelled" /\ answers' = answers
    PROVE  IInv'
  <1> DEFINE hit == {l \in Layers : layer[l].state \in {"waiting", "holding"}}
  <1>1. /\ Types /\ Counted /\ Coroutines /\ Threaded /\ Phased /\ Spanned
        /\ 1 \in Layers /\ NULL \notin Layers /\ "raised" \notin ToSet(answers)
        /\ \A k \in Layers : layer[k].state \notin {"dropped", "running", "resumed"}
    <2>1. PICK l \in Layers : layer[l].state \in InFlightStates
      BY DEF InFlight, InFlightStates
    <2>2. Phased
      BY DEF IInv
    <2> QED
      BY <2>1, <2>2, AtRest DEF Phased
  <1>2. /\ Layers' = Layers /\ DOMAIN layer' = Layers /\ layer' = [k \in Layers |-> layer'[k]]
        /\ \A k \in hit : layer'[k] = [layer[k] EXCEPT !.state = "cancelled"]
        /\ \A k \in Layers \ hit :
             /\ layer[k].state = "unstarted" => layer'[k] = [layer[k] EXCEPT !.state = "dropped"]
             /\ layer[k].state # "unstarted" => layer'[k] = layer[k]
    BY DEF CancelLayers, Layers
  <1>3. ASSUME NEW k \in Layers
        PROVE  /\ LayerTyped(k)'
               /\ k \in hit => layer'[k].state = "cancelled"
               /\ layer[k].state = "unstarted" => layer'[k].state = "dropped"
               /\ k \notin hit /\ layer[k].state # "unstarted" => layer'[k].state = layer[k].state
    <2>1. LayerTyped(k) /\ op' = op
      BY <1>1 DEF Types
    <2>2. /\ "cancelled" \in States /\ "cancelled" \notin InFlightStates
          /\ "dropped" \in States /\ "dropped" \notin InFlightStates
      BY DEF States, Ended, InFlightStates
    <2>3. CASE k \in hit
      <3>1. layer'[k] = [layer[k] EXCEPT !.state = "cancelled"]
        BY <1>2, <2>3
      <3>2. LayerTyped(k)' /\ layer'[k].state = "cancelled"
        BY <2>1, <2>2, <3>1, MovedLayer
      <3> QED
        BY <2>3, <3>2
    <2>4. CASE k \notin hit /\ layer[k].state = "unstarted"
      <3>1. layer'[k] = [layer[k] EXCEPT !.state = "dropped"]
        BY <1>2, <2>4
      <3>2. LayerTyped(k)' /\ layer'[k].state = "dropped"
        BY <2>1, <2>2, <3>1, MovedLayer
      <3> QED
        BY <2>4, <3>2
    <2>5. CASE k \notin hit /\ layer[k].state # "unstarted"
      <3>1. layer'[k] = layer[k]
        BY <1>2, <2>5
      <3>2. LayerTyped(k)'
        BY <2>1, <3>1, UntouchedLayer
      <3> QED
        BY <2>5, <3>1, <3>2
    <2> QED
      BY <2>3, <2>4, <2>5
  <1>4. /\ \A k \in Layers : Closed(k)'
        /\ \A k \in Layers : layer'[k].state \notin {"unstarted", "waiting", "holding", "running", "resumed"}
    <2>1. ASSUME NEW k \in Layers PROVE layer'[k].state \in Ended \cup {"idle"}
      <3>1. layer[k].state \in States
        BY <1>1 DEF Types, LayerTyped
      <3> QED
        BY <1>1, <1>3, <3>1 DEF States, Ended
    <2> QED
      BY <2>1 DEF Closed, Ended
  <1>5. /\ answers' \in Seq(AnswerKinds) /\ Len(answers') <= op.events /\ "raised" \notin ToSet(answers')
        /\ phase' \in {"answered", "cancelled"}
    <2>1. answers \in Seq(AnswerKinds) /\ Len(answers) < op.events /\ op.events \in Nat
      BY <1>1, OpShape DEF Types, AnswerKinds
    <2>2. CASE phase' = "answered" /\ answers' = Append(answers, "timeout")
      <3>1. /\ answers' \in Seq(AnswerKinds) /\ Len(answers) \in Nat /\ Len(answers') = Len(answers) + 1
            /\ ToSet(answers') = ToSet(answers) \cup {"timeout"}
        BY <2>1, <2>2, AnswerAppended DEF AnswerKinds
      <3> QED
        BY <1>1, <2>1, <2>2, <3>1
    <2>3. CASE phase' = "cancelled" /\ answers' = answers
      BY <1>1, <2>1, <2>3, LenProperties
    <2> QED
      BY <2>2, <2>3
  <1>6. Types'
    BY <1>1, <1>2, <1>3, <1>5 DEF Types, AnswerKinds
  <1>7. Counted'
    <2>1. Holding' = {}
      BY <1>2, <1>4 DEF Holding
    <2>2. permits' = permits + Cardinality(Holding)
      <3>1. Holders(hit) = Holding
        BY DEF Holders, Holding
      <3> QED
        BY <3>1 DEF CancelLayers
    <2>3. Cardinality(Holding)' = 0
      BY <2>1, FS_EmptySet
    <2> QED
      BY <1>1, <2>2, <2>3, LimitsAssumption DEF Counted
  <1>8. Coroutines'
    <2>1. coro' = [k \in Layers |-> CancelledCoro(k)]
      BY DEF CancelLayers
    <2>2. \A k \in Layers : coro'[k] = IF k \in hit THEN "closed" ELSE coro[k]
      BY <2>1 DEF CancelledCoro
    <2> QED
      BY <1>1, <1>2, <1>3, <1>4, <2>1, <2>2 DEF Coroutines
  <1>9. Threaded'
    <2>1. layer'[1].state # "done" => \A k \in Children : layer'[k].state = "idle"
      <3>1. layer[1].state = "done" => layer'[1].state = "done"
        BY <1>1, <1>3
      <3>2. \A k \in Children : layer[k].state = "idle" => layer'[k].state = "idle"
        BY <1>3 DEF Children
      <3> QED
        BY <1>1, <3>1, <3>2 DEF Threaded
    <2> QED
      BY <1>1, <1>2, <1>4, <2>1 DEF Threaded, Children
  <1>10. Phased' /\ Dropped'
    <2>1. Phased'
      BY <1>2, <1>4, <1>5 DEF Phased
    <2>2. AllStarted => \A k \in Layers : layer'[k].state # "dropped"
      BY <1>1, <1>3 DEF AllStarted
    <2>3. Dropped'
      BY <1>2, <2>2 DEF Dropped
    <2> QED
      BY <2>1, <2>3
  <1>11. Spanned'
    <2>1. Flying' = {} /\ Base' = {}
      BY <1>2, <1>4, <1>5 DEF Flying, Base
    <2>2. SUFFICES ASSUME op.planning = "ok", \A k \in Layers : layer'[k].state # "dropped"
                   PROVE  spans' = {}
      BY <1>2, <2>1 DEF Spanned
    <2>3. Flying = hit
      BY <1>3, <2>2 DEF Flying
    <2>4. spans = OpSpan \cup {StepSpan(k, layer[k].index) : k \in hit}
      BY <1>1, <2>2, <2>3 DEF Spanned, Base
    <2>5. spans' = (spans \ {StepSpan(k, layer[k].index) : k \in hit}) \ OpSpan
      BY DEF CancelLayers
    <2> QED
      BY <2>4, <2>5
  <1> QED
    BY <1>6, <1>7, <1>8, <1>9, <1>10, <1>11 DEF IInv

-----------------------------------------------------------------------------
(* The theorems.                                                           *)

\* The invariant holds at the start.
LEMMA InitIInv == Init => IInv
  <1> SUFFICES ASSUME Init PROVE IInv
    OBVIOUS
  <1>1. /\ op \in Operations /\ phase = "prepare" /\ layer = [l \in Layers |-> Idle]
        /\ loop = NULL /\ permits = Permits /\ coro = [l \in Layers |-> "none"]
        /\ spans = {} /\ answers = << >>
    BY DEF Init
  <1>2. /\ 1 \in Layers /\ NULL \notin Layers /\ op.events \in Nat \ {0}
        /\ \A l \in Layers : Len(Plan(l)) \in Nat
    BY <1>1, OpShape
  <1>3. ASSUME NEW l \in Layers PROVE LayerTyped(l) /\ layer[l].state = "idle"
    <2> DEFINE none == << >>
    <2>1. layer[l] = [state |-> "idle", index |-> 1, results |-> none]
      BY <1>1 DEF Idle
    <2>2. none \in Seq(ToSet(none)) /\ Len(none) = 0 /\ DOMAIN none = {}
      BY EmptySeq
    <2> HIDE DEF none
    <2> QED
      BY <1>2, <2>1, <2>2 DEF LayerTyped, States
  <1>4. answers \in Seq(AnswerKinds) /\ Len(answers) = 0 /\ ToSet(answers) = {}
    BY <1>1, EmptySeq DEF ToSet
  <1>5. Types
    BY <1>1, <1>2, <1>3, <1>4 DEF Types, AnswerKinds
  <1>6. Flying = {} /\ Holding = {}
    BY <1>3 DEF Flying, Holding
  <1>7. Counted
    BY <1>1, <1>6, LimitsAssumption, FS_EmptySet DEF Counted
  <1>8. Coroutines /\ Threaded
    BY <1>1, <1>2, <1>3 DEF Coroutines, Threaded, Children
  <1>9. Phased /\ Dropped /\ Spanned
    BY <1>1, <1>3, <1>4, <1>6 DEF Phased, Dropped, Spanned, Base
  <1> QED
    BY <1>5, <1>7, <1>8, <1>9 DEF IInv

\* Every step keeps the invariant.
LEMMA NextKeeps == IInv /\ [Next]_vars => IInv'
  <1> SUFFICES ASSUME IInv, [Next]_vars PROVE IInv'
    OBVIOUS
  <1>1. CASE Prepare
    BY <1>1, PrepareKeeps
  <1>2. CASE PlanOperation
    BY <1>2, PlanOperationKeeps
  <1>3. CASE NextEvent
    BY <1>3, NextEventKeeps
  <1>4. CASE RunStep
    BY <1>4, RunStepKeeps
  <1>5. CASE LayerDone
    BY <1>5, LayerDoneKeeps
  <1>6. CASE BeginChild
    BY <1>6, BeginChildKeeps
  <1>7. CASE HostAwaits
    BY <1>7, HostAwaitsKeeps
  <1>8. CASE \E l \in Layers : Start(l)
    BY <1>8, StartKeeps
  <1>9. CASE \E l \in Layers : Acquire(l)
    BY <1>9, AcquireKeeps
  <1>10. CASE \E l \in Layers : Resolve(l)
    BY <1>10, ResolveKeeps
  <1>11. CASE Finish
    BY <1>11, FinishKeeps
  <1>12. CASE Raise
    BY <1>12, RaiseKeeps
  <1>13. CASE Timeout
    BY <1>13, CancelKeeps DEF Timeout
  <1>14. CASE HostCancels
    BY <1>14, CancelKeeps DEF HostCancels
  <1>15. CASE UNCHANGED vars
    BY <1>15, StutterKeeps DEF vars
  <1> QED
    BY <1>1, <1>2, <1>3, <1>4, <1>5, <1>6, <1>7, <1>8, <1>9, <1>10, <1>11, <1>12, <1>13, <1>14, <1>15
    DEF Next, Over

\* The reachable states satisfy the invariant.
THEOREM InvariantHolds == Spec => []IInv
  BY InitIInv, NextKeeps, PTL DEF Spec

\* TypeOK: every column a layer has stored has one value per entry of its bucket,
\* and the permits out are those of the layers that hold one (run_steps,
\* await_limited).
THEOREM TypeCorrect == Spec => []TypeOK
  <1>1. IInv => TypeOK
    <2> SUFFICES ASSUME IInv PROVE TypeOK
      OBVIOUS
    <2>1. Types /\ Counted /\ Coroutines
      BY DEF IInv
    <2>2. ASSUME NEW l \in Layers
          PROVE  /\ layer[l].state \in {"idle", "running", "resumed", "unstarted", "waiting", "holding"} \cup Ended
                 /\ layer[l].index \in 1..Len(Plan(l)) + 1
                 /\ \A s \in DOMAIN layer[l].results : Len(layer[l].results[s]) = Count(l)
                 /\ coro[l] \in {"none", "fresh", "open", "closed", "done"}
      <3>1. LayerTyped(l)
        BY <2>1 DEF Types
      <3>2. layer[l].index \in 1..Len(Plan(l)) + 1
        <4>1. Len(layer[l].results) \in Nat /\ Len(Plan(l)) \in Nat
          BY <2>1, <3>1, OpShape, LenProperties DEF LayerTyped, Types
        <4> QED
          BY <3>1, <4>1 DEF LayerTyped
      <3>3. \A s \in DOMAIN layer[l].results : Len(layer[l].results[s]) = Count(l)
        BY <3>1 DEF LayerTyped, IsColumn
      <3>4. layer[l].state \in States
        BY <3>1 DEF LayerTyped
      <3>5. coro[l] \in {"none", "fresh", "open", "closed", "done"}
        BY <2>1, <3>4 DEF Coroutines, States, Ended
      <3> QED
        BY <3>2, <3>3, <3>4, <3>5 DEF States
    <2>3. permits \in 0..Permits /\ permits + Cardinality(Holding) = Permits
      BY <2>1, HoldingFinite, LimitsAssumption DEF Counted, Types
    <2> QED
      BY <2>1, <2>2, <2>3 DEF TypeOK, Types, Holding
  <1> QED
    BY <1>1, InvariantHolds, PTL

\* NothingLeftOpen: an operation that is over, answered, timed out or cancelled,
\* has returned its permits, awaited or closed its loaders' coroutines and exited
\* its spans, when the host cancels no task before its first step (await_limited,
\* OwnedAwaitable, await_root).  A host that cancels earlier leaves coroutines
\* open, as the run of CancelledLeavesNothing shows.
THEOREM NothingIsLeftOpen == ~EarlyCancel => (Spec => []NothingLeftOpen)
  <1>1. ~EarlyCancel /\ IInv => NothingLeftOpen
    <2> SUFFICES ASSUME ~EarlyCancel, IInv, Answered, loop = NULL,
                        \A l \in Layers : layer[l].state \in Ended \cup {"idle"}
                 PROVE  /\ permits = Permits
                        /\ op.planning = "ok" /\ "raised" \notin ToSet(answers) =>
                             /\ spans = {}
                             /\ \A l \in Layers : coro[l] \in {"none", "closed", "done"}
      BY DEF NothingLeftOpen
    <2>1. Holding = {} /\ Flying = {}
      BY DEF Holding, Flying, Ended
    <2>2. permits = Permits
      BY <2>1, FS_EmptySet, LimitsAssumption DEF IInv, Counted
    <2>3. ASSUME op.planning = "ok", "raised" \notin ToSet(answers)
          PROVE  spans = {} /\ \A l \in Layers : coro[l] \in {"none", "closed", "done"}
      <3>1. phase \in {"cancelled", "answered"}
        BY DEF Answered
      <3>2. \A l \in Layers : layer[l].state # "dropped"
        BY <2>3, <3>1 DEF IInv, Dropped
      <3>3. spans = {}
        BY <2>1, <2>3, <3>1, <3>2 DEF IInv, Spanned, Base
      <3>4. \A l \in Layers : coro[l] \in {"none", "closed", "done"}
        BY <3>2 DEF IInv, Coroutines, Ended
      <3> QED
        BY <3>3, <3>4
    <2> QED
      BY <2>2, <2>3
  <1>2. CASE EarlyCancel
    BY <1>2, PTL
  <1>3. CASE ~EarlyCancel
    <2>1. IInv => NothingLeftOpen
      BY <1>1, <1>3
    <2> QED
      BY <2>1, InvariantHolds, PTL
  <1> QED
    BY <1>2, <1>3

-----------------------------------------------------------------------------
(* Batching is invisible.                                                  *)

\* What UnaryHere's function says of a step, of what it says of its dependencies.
LEMMA UnaryEquation ==
    ASSUME op \in Operations, NEW l \in Layers, NEW s \in 1..Len(Plan(l))
    PROVE  UnaryHere(l, s) <=>
             /\ Count(l) > 0
             /\ SyncAndSafe(Plan(l)[s])
             /\ \A d \in DOMAIN Plan(l)[s].deps :
                  Plan(l)[s].deps[d] # 0 /\ UnaryHere(l, Plan(l)[s].deps[d])
  <1> DEFINE n == Len(Plan(l))
             Body(t, f) == /\ Count(l) > 0
                           /\ SyncAndSafe(Plan(l)[t])
                           /\ \A i \in DOMAIN Plan(l)[t].deps :
                                Plan(l)[t].deps[i] # 0 /\ f[Plan(l)[t].deps[i]]
             Upto(m, f) == f = [t \in 1..m |-> Body(t, f)]
             bad == {m \in 0..n : ~ \E f : Upto(m, f)}
  <1>1. n \in Nat /\ DOMAIN Plan(l) = 1..n
        /\ \A t \in 1..n : \A i \in DOMAIN Plan(l)[t].deps : Plan(l)[t].deps[i] \in 0..(t - 1)
    <2>1. n \in Nat /\ DOMAIN Plan(l) = 1..n /\ \A t \in 1..n : IsStep(Plan(l)[t], t)
      BY OpShape
    <2>2. ASSUME NEW t \in 1..n, NEW i \in DOMAIN Plan(l)[t].deps
          PROVE  Plan(l)[t].deps[i] \in 0..(t - 1)
      <3>1. Plan(l)[t].deps \in Seq(0..(t - 1))
        BY <2>1 DEF IsStep
      <3> QED
        BY <3>1, LenProperties
    <2> QED
      BY <2>1, <2>2
  <1>2. ASSUME NEW t \in 1..n, NEW f, NEW g, \A k \in 1..(t - 1) : f[k] = g[k]
        PROVE  Body(t, f) = Body(t, g)
    <2>1. \A i \in DOMAIN Plan(l)[t].deps :
            Plan(l)[t].deps[i] # 0 => f[Plan(l)[t].deps[i]] = g[Plan(l)[t].deps[i]]
      BY <1>1, <1>2
    <2> QED
      BY <2>1
  <1> HIDE DEF Body
  <1>3. ASSUME bad # {} PROVE FALSE
    <2>0. bad \subseteq Nat
      BY <1>1
    <2>1. PICK m \in bad : \A k \in bad : m <= k
      <3> HIDE DEF bad
      <3> QED
        BY <1>3, <2>0, LeastExists
    <2>2. CASE m = 0
      <3>1. Upto(0, << >>)
        OBVIOUS
      <3> QED
        BY <2>1, <2>2, <3>1
    <2>3. CASE m # 0
      <3>1. m - 1 \in 0..n /\ m \in 1..n /\ m - 1 \notin bad
        <4>1. m \in 0..n /\ n \in Nat
          BY <1>1, <2>1
        <4> HIDE DEF bad, n
        <4> QED
          BY <2>1, <2>3, <4>1
      <3>2. PICK f : Upto(m - 1, f)
        BY <3>1
      <3> DEFINE g == [t \in 1..m |-> IF t = m THEN Body(m, f) ELSE f[t]]
      <3>3. \A k \in 1..(m - 1) : g[k] = f[k]
        OBVIOUS
      <3>4. \A t \in 1..m : g[t] = Body(t, g)
        <4>1. ASSUME NEW t \in 1..m PROVE Body(t, g) = Body(t, f)
          <5>1. t \in 1..n /\ \A k \in 1..(t - 1) : g[k] = f[k]
            <6> HIDE DEF g, n
            <6> QED
              BY <1>1, <3>1, <3>3
          <5> HIDE DEF g
          <5> QED
            BY <1>2, <5>1
        <4>2. ASSUME NEW t \in 1..m PROVE g[t] = Body(t, f)
          <5>1. t # m => f[t] = Body(t, f)
            BY <3>1, <3>2
          <5> QED
            BY <5>1
        <4> QED
          BY <4>1, <4>2
      <3>5. g = [t \in 1..m |-> g[t]]
        OBVIOUS
      <3>6. Upto(m, g)
        <4> HIDE DEF g
        <4> QED
          BY <3>4, <3>5
      <3> QED
        BY <2>1, <3>6
    <2> QED
      BY <2>2, <2>3
  <1>4. PICK f : Upto(n, f)
    <2>1. n \in 0..n /\ bad = {}
      BY <1>1, <1>3
    <2> QED
      BY <2>1
  <1> DEFINE u == CHOOSE f1 : f1 = [t \in DOMAIN Plan(l) |-> Body(t, f1)]
  <1>5. u = [t \in 1..n |-> Body(t, u)]
    BY <1>1, <1>4
  <1>6. \A t \in 1..n : UnaryHere(l, t) = u[t]
    BY DEF UnaryHere, Body
  <1> HIDE DEF u
  <1>7. UnaryHere(l, s) = Body(s, u)
    BY <1>5, <1>6
  <1>8. \A i \in DOMAIN Plan(l)[s].deps :
          Plan(l)[s].deps[i] # 0 => u[Plan(l)[s].deps[i]] = UnaryHere(l, Plan(l)[s].deps[i])
    BY <1>1, <1>6
  <1> QED
    BY <1>7, <1>8 DEF Body

\* Each entry's value is its own, what is broadcast is one value, and a layer in
\* flight awaits what its step returned instead of a column.
Values == Awaiting /\ Broadcast /\ EntriesAlone

\* No layer stores a column.
ValuesKept ==
  /\ op' = op
  /\ \A l \in Layers : layer'[l].results = layer[l].results /\ layer'[l].index = layer[l].index

\* Whether a step runs once depends on the operation alone.
LEMMA UnaryHereStays == ASSUME op' = op PROVE \A l, s : UnaryHere(l, s)' = UnaryHere(l, s)
  BY DEF UnaryHere, Plan, Count

\* The columns a layer reads are those it has stored.
LEMMA ColumnStays ==
    ASSUME op' = op, NEW l, layer'[l].results = layer[l].results
    PROVE  \A d : Column(l, d)' = Column(l, d)
  BY DEF Column

\* A step's input stays as long as its layer stores nothing.
LEMMA GatherStays ==
    ASSUME op' = op, NEW l, layer'[l].results = layer[l].results, NEW s
    PROVE  GatherCols(l, s)' = GatherCols(l, s)
  <1>1. Plan(l)' = Plan(l) /\ \A d : Column(l, d)' = Column(l, d)
    BY ColumnStays DEF Plan
  <1>2. UnaryHere(l, s)' = UnaryHere(l, s)
    BY UnaryHereStays
  <1> QED
    BY <1>1, <1>2 DEF GatherCols

\* What is said of the values holds on while no layer stores a column.
LEMMA KeptValues ==
    ASSUME Values, ValuesKept,
           \A k \in Flying' : k \in Flying \/ (k \in Layers /\ \A s : s = layer[k].index => Awaits(k, s))
    PROVE  Values'
  <1>1. Layers' = Layers /\ \A l \in Layers : Plan(l)' = Plan(l) /\ Count(l)' = Count(l)
    BY DEF ValuesKept, Layers, Plan, Count
  <1>2. ASSUME NEW l \in Layers, NEW s
        PROVE  /\ UnaryHere(l, s)' = UnaryHere(l, s)
               /\ GatherCols(l, s)' = GatherCols(l, s)
               /\ \A d : Column(l, d)' = Column(l, d)
               /\ \A i : Alone(l, i, s)' = Alone(l, i, s)
    <2>1. op' = op /\ layer'[l].results = layer[l].results
      BY DEF ValuesKept
    <2>2. \A d : Column(l, d)' = Column(l, d)
      BY <2>1, ColumnStays
    <2>3. \A i : Alone(l, i, s)' = Alone(l, i, s)
      BY <1>1, <2>2 DEF Alone
    <2> QED
      BY <2>1, <2>2, <2>3, UnaryHereStays, GatherStays
  <1>3. Awaiting'
    <2> SUFFICES ASSUME NEW l \in Flying', NEW s, s = layer'[l].index PROVE Awaits(l, s)'
      BY DEF Awaiting
    <2>1. l \in Layers /\ layer'[l].index = layer[l].index
      BY DEF Flying, ValuesKept
    <2>2. Plan(l)' = Plan(l) /\ GatherCols(l, s)' = GatherCols(l, s)
      BY <1>1, <1>2, <2>1
    <2>3. Awaits(l, s)
      BY <2>1 DEF Values, Awaiting
    <2> QED
      BY <2>2, <2>3 DEF Awaits
  <1>4. Broadcast'
    BY <1>1, <1>2 DEF Values, Broadcast, ValuesKept
  <1>5. EntriesAlone'
    <2> SUFFICES ASSUME NEW l \in Layers, NEW i \in 1..Count(l), NEW s \in DOMAIN layer'[l].results
                 PROVE  layer'[l].results[s][i] = Alone(l, i, s)'
      BY <1>1 DEF EntriesAlone
    <2>1. layer'[l].results = layer[l].results
      BY DEF ValuesKept
    <2>2. layer[l].results[s][i] = Alone(l, i, s)
      BY <2>1 DEF Values, EntriesAlone
    <2>3. Alone(l, i, s)' = Alone(l, i, s)
      BY <1>2
    <2> QED
      BY <2>1, <2>2, <2>3
  <1> QED
    BY <1>3, <1>4, <1>5 DEF Values

\* The column a step yields holds each entry's own value: its dependencies' columns
\* do, a step that runs once reads columns of one value each.
LEMMA OutputIsOwn ==
    ASSUME op \in Operations, NEW l \in Layers, LayerTyped(l), Broadcast,
           NEW s \in 1..Len(Plan(l)), s = layer[l].index,
           Plan(l)[s].kind = "each" => ~EachRaises(GatherCols(l, s)[1]),
           NEW i \in 1..Count(l)
    PROVE  Output(l, s)[i] = Alone(l, i, s) /\ (UnaryHere(l, s) => Output(l, s)[i] = Output(l, s)[1])
  <1> DEFINE step == Plan(l)[s]
             deps == Plan(l)[s].deps
             own == [d \in DOMAIN deps |-> <<Column(l, deps[d])[i]>>]
             cols == GatherCols(l, s)
  <1>1. /\ IsStep(step, s)
        /\ \A d \in DOMAIN deps :
             /\ deps[d] # 0 => deps[d] \in DOMAIN layer[l].results
             /\ IsColumn(Column(l, deps[d]), Count(l))
    BY ColumnsAreColumns
  <1>2. Count(l) \in Nat /\ 1 \in 1..Count(l)
    BY OpShape
  <1>3. CASE UnaryHere(l, s)
    <2>1. \A d \in DOMAIN deps : Column(l, deps[d])[i] = Column(l, deps[d])[1]
      <3> SUFFICES ASSUME NEW d \in DOMAIN deps
                   PROVE  Column(l, deps[d])[i] = Column(l, deps[d])[1]
        OBVIOUS
      <3>1. deps[d] # 0 /\ UnaryHere(l, deps[d])
        BY <1>3, UnaryEquation
      <3>2. deps[d] \in DOMAIN layer[l].results
        BY <1>1, <3>1
      <3> QED
        BY <3>1, <3>2 DEF Broadcast, Column
    <2>2. cols = [d \in DOMAIN deps |-> <<Column(l, deps[d])[1]>>]
      BY <1>3 DEF GatherCols
    <2>3. cols = own
      BY <2>1, <2>2
    <2>4. \A j \in 1..Count(l) : Output(l, s)[j] = Execute(step, cols, 1)[1]
      BY <1>3 DEF Output
    <2>5. Alone(l, i, s) = Execute(step, own, 1)[1]
      BY DEF Alone
    <2> HIDE DEF cols, own, step
    <2> QED
      BY <1>2, <2>3, <2>4, <2>5
  <1>4. CASE ~UnaryHere(l, s)
    <2>1. cols = [d \in DOMAIN deps |-> Column(l, deps[d])]
      BY <1>4 DEF GatherCols
    <2>2. /\ DOMAIN cols = DOMAIN deps
          /\ \A d \in DOMAIN cols : cols[d] = Column(l, deps[d]) /\ IsColumn(cols[d], Count(l))
      BY <1>1, <2>1
    <2>3. /\ step.kind \in Kinds
          /\ step.kind \notin {"constant", "list", "object"} => 1 \in DOMAIN cols
          /\ step.kind = "object" => DOMAIN step.keys = DOMAIN cols
      <3>1. deps # << >> => 1 \in DOMAIN deps
        <4>1. deps \in Seq(0..(s - 1))
          BY <1>1 DEF IsStep
        <4> HIDE DEF deps
        <4> QED
          BY <4>1, EmptySeq, LenProperties
      <3> QED
        BY <1>1, <2>2, <3>1 DEF IsStep
    <2>4. own = [d \in DOMAIN cols |-> <<cols[d][i]>>]
      BY <2>2
    <2>5. Output(l, s) = Execute(step, cols, Count(l)) /\ Alone(l, i, s) = Execute(step, own, 1)[1]
      BY <1>4 DEF Output, Alone
    <2>6. step.kind = "each" => ~EachRaises(cols[1])
      OBVIOUS
    <2> HIDE DEF cols, own, step, deps
    <2>7. Execute(step, cols, Count(l))[i] = Execute(step, [d \in DOMAIN cols |-> <<cols[d][i]>>], 1)[1]
      <3> DEFINE n == Count(l)
      <3>1. /\ n \in Nat /\ i \in 1..n /\ step.kind \in Kinds
            /\ \A d \in DOMAIN cols : IsColumn(cols[d], n)
            /\ step.kind \notin {"constant", "list", "object"} => 1 \in DOMAIN cols
            /\ step.kind = "object" => DOMAIN step.keys = DOMAIN cols
            /\ step.kind = "each" => ~EachRaises(cols[1])
        BY <1>2, <2>2, <2>3, <2>6
      <3> HIDE DEF n
      <3>2. Execute(step, cols, n)[i] = Execute(step, [d \in DOMAIN cols |-> <<cols[d][i]>>], 1)[1]
        BY <3>1, ExecuteIsOwn
      <3> QED
        BY <3>2 DEF n
    <2> QED
      BY <1>4, <2>4, <2>5, <2>7
  <1> QED
    BY <1>3, <1>4

\* What is said of the values holds on when a layer stores its step's column.
LEMMA StoredValues ==
    ASSUME IInv, Values, op' = op,
           NEW l \in Layers, NEW s \in 1..Len(Plan(l)), s = layer[l].index,
           layer'[l].results = Append(layer[l].results, Output(l, s)),
           layer'[l].state \notin InFlightStates,
           \A k \in Layers \ {l} : layer'[k] = layer[k],
           Plan(l)[s].kind = "each" => ~EachRaises(GatherCols(l, s)[1])
    PROVE  Values'
  <1>1. /\ op \in Operations /\ LayerTyped(l) /\ Awaiting /\ Broadcast /\ EntriesAlone
        /\ Layers' = Layers /\ \A k \in Layers : Plan(k)' = Plan(k) /\ Count(k)' = Count(k)
    BY DEF IInv, Types, Values, Layers, Plan, Count
  <1>2. /\ Len(layer[l].results) \in Nat /\ s = Len(layer[l].results) + 1
        /\ DOMAIN layer[l].results = 1..(s - 1) /\ DOMAIN layer'[l].results = 1..s
        /\ \A t \in 1..(s - 1) : layer'[l].results[t] = layer[l].results[t]
        /\ layer'[l].results[s] = Output(l, s)
    <2> DEFINE r == layer[l].results
               out == Output(l, s)
    <2>1. r \in Seq(ToSet(r)) /\ s = Len(r) + 1 /\ layer'[l].results = Append(r, out)
      BY <1>1 DEF LayerTyped
    <2> HIDE DEF r, out
    <2>2. /\ Len(r) \in Nat /\ DOMAIN r = 1..Len(r)
          /\ DOMAIN layer'[l].results = 1..(Len(r) + 1)
          /\ \A t \in 1..Len(r) : layer'[l].results[t] = r[t]
          /\ layer'[l].results[Len(r) + 1] = out
      BY <2>1, AppendColumn
    <2>3. Len(r) \in Nat /\ s = Len(r) + 1 /\ s - 1 = Len(r)
      BY <2>1, <2>2
    <2> QED
      BY <2>2, <2>3 DEF r, out
  <1>3. \A k, t : UnaryHere(k, t)' = UnaryHere(k, t)
    BY UnaryHereStays
  <1>4. Awaiting'
    <2> SUFFICES ASSUME NEW k \in Flying', NEW t, t = layer'[k].index PROVE Awaits(k, t)'
      BY DEF Awaiting
    <2>1. k \in Layers /\ k # l /\ layer'[k] = layer[k] /\ k \in Flying
      BY <1>1 DEF Flying, InFlightStates
    <2>2. GatherCols(k, t)' = GatherCols(k, t)
      BY <2>1, GatherStays
    <2>3. Awaits(k, t)
      BY <1>1, <2>1 DEF Awaiting
    <2> QED
      BY <1>1, <2>1, <2>2, <2>3 DEF Awaits
  <1>5. \A i \in 1..Count(l) :
          Output(l, s)[i] = Alone(l, i, s) /\ (UnaryHere(l, s) => Output(l, s)[i] = Output(l, s)[1])
    BY <1>1, OutputIsOwn
  <1>6. ASSUME NEW k \in Layers, NEW t \in DOMAIN layer'[k].results, NEW i \in 1..Count(k)
        PROVE  /\ UnaryHere(k, t) => layer'[k].results[t][i] = layer'[k].results[t][1]
               /\ layer'[k].results[t][i] = Alone(k, i, t)'
    <2>1. CASE k # l
      <3>1. layer'[k].results = layer[k].results
        BY <2>1
      <3>2. \A d : Column(k, d)' = Column(k, d)
        BY <3>1, ColumnStays
      <3>3. Alone(k, i, t)' = Alone(k, i, t)
        BY <1>1, <3>2 DEF Alone
      <3> QED
        BY <1>1, <3>1, <3>3 DEF Broadcast, EntriesAlone
    <2>2. CASE k = l
      <3>1. t \in 1..s /\ t \in 1..Len(Plan(l)) /\ t <= layer[l].index
        <4>1. Len(Plan(l)) \in Nat
          BY <1>1, OpShape
        <4>2. t \in 1..s
          <5>1. t \in DOMAIN layer'[l].results
            BY <2>2
          <5> QED
            BY <1>2, <5>1
        <4> QED
          BY <4>1, <4>2
      <3>2. \A d \in DOMAIN Plan(l)[t].deps : Column(l, Plan(l)[t].deps[d])' = Column(l, Plan(l)[t].deps[d])
        <4> SUFFICES ASSUME NEW d \in DOMAIN Plan(l)[t].deps
                     PROVE  Column(l, Plan(l)[t].deps[d])' = Column(l, Plan(l)[t].deps[d])
          OBVIOUS
        <4>0. PICK e : e = Plan(l)[t].deps[d]
          OBVIOUS
        <4>1. e # 0 => e \in 1..(s - 1)
          BY <1>1, <1>2, <3>1, <4>0, ColumnsAreColumns
        <4>2. Column(l, e)' = Column(l, e)
          BY <1>2, <4>1 DEF Column
        <4> QED
          BY <1>1, <4>0, <4>2 DEF Column
      <3>3. Alone(l, i, t)' = Alone(l, i, t)
        BY <1>1, <3>2 DEF Alone
      <3>4. CASE t = s
        BY <1>2, <1>5, <2>2, <3>3, <3>4
      <3>5. CASE t # s
        <4>1. t \in 1..(s - 1) /\ layer'[l].results[t] = layer[l].results[t]
          BY <1>2, <3>1, <3>5
        <4>2. t \in DOMAIN layer[l].results /\ i \in 1..Count(l)
          BY <1>2, <2>2, <4>1
        <4>3. layer[l].results[t][i] = Alone(l, i, t)
          BY <1>1, <4>2 DEF EntriesAlone
        <4>4. UnaryHere(l, t) => layer[l].results[t][i] = layer[l].results[t][1]
          BY <1>1, <4>2 DEF Broadcast
        <4> QED
          BY <2>2, <3>3, <4>1, <4>3, <4>4
      <3> QED
        BY <3>4, <3>5
    <2> QED
      BY <2>1, <2>2
  <1>7. Broadcast'
    BY <1>1, <1>3, <1>6 DEF Broadcast
  <1>8. EntriesAlone'
    BY <1>1, <1>6 DEF EntriesAlone
  <1> QED
    BY <1>4, <1>7, <1>8 DEF Values

\* One layer changes its state, and is in flight only if it was.
LEMMA MoveKeepsValues ==
    ASSUME Types, Values, op' = op, NEW l \in Layers, NEW x, layer' = [layer EXCEPT ![l].state = x],
           x \in InFlightStates => l \in Flying \/ \A s : s = layer[l].index => Awaits(l, s)
    PROVE  Values'
  <1>1. layer'[l] = [layer[l] EXCEPT !.state = x] /\ \A k \in Layers \ {l} : layer'[k] = layer[k]
    BY DEF Types
  <1>2. layer'[l].state = x /\ layer'[l].results = layer[l].results /\ layer'[l].index = layer[l].index
    <2>1. layer[l] = [state |-> layer[l].state, index |-> layer[l].index, results |-> layer[l].results]
      BY DEF Types, LayerTyped
    <2>2. layer'[l] = [state |-> x, index |-> layer[l].index, results |-> layer[l].results]
      BY <1>1, <2>1
    <2> QED
      BY <2>2
  <1>3. ValuesKept
    BY <1>1, <1>2 DEF ValuesKept
  <1>4. \A k \in Flying' : k \in Flying \/ (k \in Layers /\ \A s : s = layer[k].index => Awaits(k, s))
    <2> SUFFICES ASSUME NEW k \in Flying'
                 PROVE  k \in Flying \/ (k \in Layers /\ \A s : s = layer[k].index => Awaits(k, s))
      OBVIOUS
    <2>1. k \in Layers
      BY DEF Flying, Layers
    <2>2. CASE k = l
      BY <1>2, <2>1, <2>2 DEF Flying, InFlightStates
    <2>3. CASE k # l
      BY <1>1, <2>1, <2>3 DEF Flying
    <2> QED
      BY <2>2, <2>3
  <1> QED
    BY <1>3, <1>4, KeptValues

\* The layers stay as they are.
LEMMA SameLayersKeepValues == ASSUME Values, op' = op, layer' = layer PROVE Values'
  <1>1. ValuesKept /\ Flying' = Flying
    BY DEF ValuesKept, Flying, Layers
  <1> QED
    BY <1>1, KeptValues

\* The layers begin anew.
LEMMA NextEventKeepsValues == ASSUME op' = op, layer' = [l \in Layers |-> Idle] PROVE Values'
  <1>1. Layers' = Layers /\ \A l \in Layers : layer'[l].state = "idle" /\ layer'[l].results = << >>
    BY DEF Layers, Idle
  <1>2. Flying' = {}
    BY <1>1 DEF Flying
  <1>3. \A l \in Layers' : DOMAIN layer'[l].results = {}
    BY <1>1
  <1> QED
    BY <1>2, <1>3 DEF Values, Awaiting, Broadcast, EntriesAlone

\* One step of the layer the event loop runs.
LEMMA RunStepKeepsValues == IInv /\ Values /\ RunStep => Values'
  <1> SUFFICES ASSUME IInv, Values, RunStep PROVE Values'
    OBVIOUS
  <1>1. PICK l \in Layers : l = loop
    BY DEF RunStep, IInv, Types
  <1>2. /\ Types /\ layer[l].state \in {"running", "resumed"} /\ op' = op
        /\ layer[l].index \in 1..Len(Plan(l))
    <2>1. Types /\ layer[l].state \in {"running", "resumed"} /\ op' = op /\ layer[l].index <= Len(Plan(l))
      BY <1>1 DEF RunStep, IInv
    <2>2. Len(Plan(l)) \in Nat /\ Len(layer[l].results) \in Nat
      BY <2>1, OpShape, LenProperties DEF Types, LayerTyped
    <2> QED
      BY <2>1, <2>2 DEF Types, LayerTyped
  <1>3. PICK s \in 1..Len(Plan(l)) : s = layer[l].index
    BY <1>2
  <1>4. \/ /\ Awaits(l, s)
           /\ layer' = [layer EXCEPT ![l].state = IF @ = "running" THEN "unstarted" ELSE "waiting"]
        \/ layer' = [k \in Layers |->
                       IF k = l THEN [layer[k] EXCEPT !.state = "raised"]
                       ELSE IF layer[l].state = "running" /\ layer[k].state = "unstarted"
                       THEN [layer[k] EXCEPT !.state = "dropped"] ELSE layer[k]]
        \/ ~Raises(Plan(l)[s], GatherCols(l, s)) /\ layer' = Stored(l)
    BY <1>1, <1>3 DEF RunStep, Awaits
  <1>5. CASE /\ Awaits(l, s)
             /\ layer' = [layer EXCEPT ![l].state = IF @ = "running" THEN "unstarted" ELSE "waiting"]
    <2>1. PICK x : layer' = [layer EXCEPT ![l].state = x]
      BY <1>2, <1>5 DEF Types
    <2> QED
      BY <1>2, <1>3, <1>5, <2>1, MoveKeepsValues
  <1>6. CASE layer' = [k \in Layers |->
                         IF k = l THEN [layer[k] EXCEPT !.state = "raised"]
                         ELSE IF layer[l].state = "running" /\ layer[k].state = "unstarted"
                         THEN [layer[k] EXCEPT !.state = "dropped"] ELSE layer[k]]
    <2>1. ASSUME NEW k \in Layers
          PROVE  /\ layer'[k].results = layer[k].results /\ layer'[k].index = layer[k].index
                 /\ layer'[k].state \in {layer[k].state, "raised", "dropped"}
      <3>1. PICK x \in {layer[k].state, "raised", "dropped"} : layer'[k] = [layer[k] EXCEPT !.state = x]
        <4>1. layer[k] = [layer[k] EXCEPT !.state = layer[k].state]
          BY <1>2 DEF Types, LayerTyped
        <4> QED
          BY <1>6, <4>1
      <3>2. layer'[k] = [state |-> x, index |-> layer[k].index, results |-> layer[k].results]
        BY <1>2, <3>1 DEF Types, LayerTyped
      <3> QED
        BY <3>2
    <2>2. ValuesKept
      BY <1>2, <2>1 DEF ValuesKept
    <2>3. Flying' \subseteq Flying
      BY <1>2, <2>1 DEF Flying, Layers
    <2> QED
      BY <2>2, <2>3, KeptValues
  <1>7. CASE ~Raises(Plan(l)[s], GatherCols(l, s)) /\ layer' = Stored(l)
    <2>1. Plan(l)[s].kind = "each" => ~EachRaises(GatherCols(l, s)[1])
      BY <1>7 DEF Raises
    <2>2. /\ layer'[l] = [layer[l] EXCEPT !.results = Append(@, Output(l, s)), !.index = @ + 1]
          /\ \A k \in Layers \ {l} : layer'[k] = layer[k]
      BY <1>2, <1>3, <1>7 DEF Stored, Types
    <2>3. layer'[l].results = Append(layer[l].results, Output(l, s)) /\ layer'[l].state = layer[l].state
      <3> DEFINE q == Append(layer[l].results, Output(l, s))
                 j == layer[l].index + 1
      <3>1. layer[l] = [state |-> layer[l].state, index |-> layer[l].index, results |-> layer[l].results]
        BY <1>2 DEF Types, LayerTyped
      <3>2. layer'[l] = [layer[l] EXCEPT !.results = q, !.index = j]
        BY <2>2
      <3> HIDE DEF q, j
      <3> QED
        BY <3>1, <3>2 DEF q
    <2>4. layer'[l].state \notin InFlightStates
      BY <1>2, <2>3 DEF InFlightStates
    <2> QED
      BY <1>2, <1>3, <2>1, <2>2, <2>3, <2>4, StoredValues
  <1> QED
    BY <1>4, <1>5, <1>6, <1>7

\* A loader answers.
LEMMA ResolveKeepsValues == ASSUME IInv, Values, NEW l \in Layers, Resolve(l) PROVE Values'
  <1>1. /\ Types /\ LayerTyped(l) /\ layer[l].index <= Len(Plan(l))
        /\ layer[l].state = "holding" /\ op' = op
    BY AtRest DEF Resolve, InFlightStates
  <1>2. PICK s \in 1..Len(Plan(l)) : s = layer[l].index
    <2>1. Len(Plan(l)) \in Nat /\ Len(layer[l].results) \in Nat
      BY <1>1, OpShape, LenProperties DEF Types, LayerTyped
    <2> QED
      BY <1>1, <2>1 DEF LayerTyped
  <1>3. CASE layer' = [layer EXCEPT ![l].state = "raised"]
    <2>1. "raised" \notin InFlightStates
      BY DEF InFlightStates
    <2> QED
      BY <1>1, <1>3, <2>1, MoveKeepsValues
  <1>4. CASE layer' = [Stored(l) EXCEPT ![l].state = "resumed"]
    <2>1. Awaits(l, s)
      BY <1>1, <1>2 DEF Values, Awaiting, Flying
    <2>2. /\ layer'[l] = [[layer[l] EXCEPT !.results = Append(@, Output(l, s)), !.index = @ + 1]
                            EXCEPT !.state = "resumed"]
          /\ \A k \in Layers \ {l} : layer'[k] = layer[k]
      BY <1>1, <1>2, <1>4 DEF Stored, Types
    <2>3. layer'[l].results = Append(layer[l].results, Output(l, s)) /\ layer'[l].state = "resumed"
      <3> DEFINE q == Append(layer[l].results, Output(l, s))
                 j == layer[l].index + 1
      <3>1. layer[l] = [state |-> layer[l].state, index |-> layer[l].index, results |-> layer[l].results]
        BY <1>1 DEF LayerTyped
      <3>2. layer'[l] = [[layer[l] EXCEPT !.results = q, !.index = j] EXCEPT !.state = "resumed"]
        BY <2>2
      <3> HIDE DEF q, j
      <3> QED
        BY <3>1, <3>2 DEF q
    <2>4. layer'[l].state \notin InFlightStates
      BY <2>3 DEF InFlightStates
    <2>5. Plan(l)[s].kind = "each" => ~EachRaises(GatherCols(l, s)[1])
      BY <2>1 DEF Awaits
    <2> QED
      BY <1>1, <1>2, <2>2, <2>3, <2>4, <2>5, StoredValues
  <1> QED
    BY <1>3, <1>4 DEF Resolve

\* A cancellation stores nothing.
LEMMA CancelKeepsValues == ASSUME IInv, Values, CancelLayers, op' = op PROVE Values'
  <1>1. Types
    BY DEF IInv
  <1>2. ASSUME NEW k \in Layers
        PROVE  /\ layer'[k].results = layer[k].results /\ layer'[k].index = layer[k].index
               /\ layer'[k].state \in {layer[k].state, "cancelled", "dropped"}
    <2>1. PICK x \in {layer[k].state, "cancelled", "dropped"} : layer'[k] = [layer[k] EXCEPT !.state = x]
      <3>1. layer[k] = [layer[k] EXCEPT !.state = layer[k].state]
        BY <1>1 DEF Types, LayerTyped
      <3> QED
        BY <3>1 DEF CancelLayers
    <2>2. layer'[k] = [state |-> x, index |-> layer[k].index, results |-> layer[k].results]
      BY <1>1, <2>1 DEF Types, LayerTyped
    <2> QED
      BY <2>2
  <1>3. ValuesKept
    BY <1>2 DEF ValuesKept
  <1>4. Flying' \subseteq Flying
    BY <1>2 DEF Flying, Layers
  <1> QED
    BY <1>3, <1>4, KeptValues

\* Every step keeps what is said of the values.
LEMMA NextKeepsValues == IInv /\ Values /\ [Next]_vars => Values'
  <1> SUFFICES ASSUME IInv, Values, [Next]_vars PROVE Values'
    OBVIOUS
  <1>1. Types
    BY DEF IInv
  <1>2. \A x : x \in {"running", "done"} => x \notin InFlightStates
    BY DEF InFlightStates
  <1>3. CASE Prepare \/ Finish \/ Raise \/ UNCHANGED vars
    BY <1>3, SameLayersKeepValues DEF Prepare, Finish, Raise, vars
  <1>4. CASE PlanOperation
    <2>1. op' = op /\ (layer' = layer \/ layer' = [layer EXCEPT ![1].state = "running"])
      BY <1>4 DEF PlanOperation
    <2>2. 1 \in Layers
      BY <1>1, OpShape DEF Types
    <2> QED
      BY <1>1, <1>2, <2>1, <2>2, SameLayersKeepValues, MoveKeepsValues
  <1>5. CASE NextEvent
    BY <1>5, NextEventKeepsValues DEF NextEvent
  <1>6. CASE RunStep
    BY <1>6, RunStepKeepsValues
  <1>7. CASE LayerDone \/ BeginChild
    <2>1. PICK l \in Layers : l = loop
      BY <1>1, <1>7 DEF Types, LayerDone, BeginChild
    <2>2. PICK x \in {"running", "done"} : layer' = [layer EXCEPT ![l].state = x]
      BY <1>7, <2>1 DEF LayerDone, BeginChild
    <2> QED
      BY <1>1, <1>2, <1>7, <2>2, MoveKeepsValues DEF LayerDone, BeginChild
  <1>8. CASE HostAwaits
    <2>1. /\ op' = op
          /\ \/ layer' = layer
             \/ layer[1].state = "unstarted" /\ layer' = [layer EXCEPT ![1].state = "waiting"]
      BY <1>8 DEF HostAwaits
    <2>2. 1 \in Layers /\ (layer[1].state = "unstarted" => 1 \in Flying)
      BY <1>1, OpShape DEF Types, Flying
    <2> QED
      BY <1>1, <2>1, <2>2, SameLayersKeepValues, MoveKeepsValues
  <1>9. CASE \E l \in Layers : Start(l) \/ Acquire(l)
    <2>1. PICK l \in Layers : Start(l) \/ Acquire(l)
      BY <1>9
    <2>2. l \in Flying /\ op' = op /\ \E x : layer' = [layer EXCEPT ![l].state = x]
      BY <2>1 DEF Start, Acquire, Flying
    <2> QED
      BY <1>1, <2>2, MoveKeepsValues
  <1>10. CASE \E l \in Layers : Resolve(l)
    BY <1>10, ResolveKeepsValues
  <1>11. CASE Timeout \/ HostCancels
    BY <1>11, CancelKeepsValues DEF Timeout, HostCancels
  <1> QED
    BY <1>3, <1>4, <1>5, <1>6, <1>7, <1>8, <1>9, <1>10, <1>11 DEF Next, Over

\* EntriesAlone: whatever shares a bucket with an entry, the columns hold what each
\* step makes of the entry on its own (the contract of Step.execute, and of the
\* steps _bucket_unariness runs once for the bucket).
THEOREM BatchingIsInvisible == Spec => []EntriesAlone
  <1>1. Init => Values
    <2> SUFFICES ASSUME Init PROVE Values
      OBVIOUS
    <2>1. \A l \in Layers : layer[l].state = "idle" /\ layer[l].results = << >>
      BY DEF Init, Idle
    <2>2. Flying = {} /\ \A l \in Layers : DOMAIN layer[l].results = {}
      BY <2>1 DEF Flying
    <2> QED
      BY <2>2 DEF Values, Awaiting, Broadcast, EntriesAlone
  <1>2. Values => EntriesAlone
    BY DEF Values
  <1> QED
    BY <1>1, <1>2, InitIInv, NextKeeps, NextKeepsValues, PTL DEF Spec
=============================================================================
