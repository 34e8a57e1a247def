------------------------------ MODULE Finalize ------------------------------
(***************************************************************************)
(* From the fields of an operation to the layers the executor runs         *)
(* (grafast_py/plan.py, finalize_plan): the planner builds a step DAG and  *)
(* a tree of layers (one per object plan), finalize_plan optimizes,        *)
(* deduplicates and shakes the DAG, remaps the tree to the survivors,      *)
(* attaches orphaned writes, hoists steps that are constant across a child *)
(* bucket, and materialises what each layer runs.  The last step runs the  *)
(* layers the way run_layer and the serial mutation path do.               *)
(*                                                                         *)
(* Layers are numbered in the order the planner opens them, so a layer's   *)
(* number is larger than its parent's.  One entry stands for a bucket:     *)
(* values are terms over the entry (StepDag!Apply), and an entry of a list *)
(* field's child bucket is an item of the parent's value.                  *)
(***************************************************************************)
EXTENDS StepDag, FiniteSets

CONSTANTS
    Families,       \* each a set of [steps, kinds]: what plan resolvers may return
    Modes,          \* a set of [inline, hoist, mutation]: configuration and operation
    MaxFields,      \* bound: fields of an operation
    MaxLayers,      \* bound: object plans of an operation
    MaxLoops        \* MAX_OPTIMIZATION_LOOPS

ASSUME FinalizeAssumption ==
    /\ Modes \subseteq [inline : BOOLEAN, hoist : BOOLEAN, mutation : BOOLEAN]
    /\ MaxFields \in Nat \ {0}
    /\ MaxLayers \in Nat \ {0}
    /\ MaxLoops \in Nat \ {0}

VARIABLES
    plan,           \* the Plan (StepDag)
    layers,         \* Seq of LayerPlan with the fields of its ObjectPlan
    open,           \* the layers the planner is inside of, outermost first
    flags,          \* the plan-level decisions, and the family of plan resolvers
    pc,             \* the next pass of finalize_plan
    loops,          \* iterations of the running fixpoint
    remap,          \* old id -> survivor, composed over the passes
    naive,          \* what the plan as built defines: field values and write inputs
    answer,         \* per layer, the field values the executor computes
    log             \* the side-effecting steps the executor ran, with their inputs

vars == <<plan, layers, open, flags, pc, loops, remap, naive, answer, log>>

Layer(parent, up) ==
    [parent |-> parent, up |-> up, fields |-> <<>>, effects |-> <<>>,
     hoistedIn |-> <<>>, hoistedOut |-> {}, run |-> <<>>, ordered |-> <<>>]

FieldSteps(l) == [k \in DOMAIN l.fields |-> l.fields[k].step]

Children(ls, i) == {c \in DOMAIN ls : ls[c].up = i}

Depth(ls, i) ==
    LET d[j \in DOMAIN ls] == IF ls[j].up = 0 THEN 0 ELSE 1 + d[ls[j].up] IN d[i]

\* The value that seeds a layer: the root value, or what the field yields.
FieldOf(ls, i) ==
    CHOOSE f \in ToSet(ls[ls[i].up].fields) : f.child = i

BoundaryTerm(ls, i, stores) ==
    IF i = 1 THEN Term("rootValue", "", <<>>)
    ELSE LET f == FieldOf(ls, i)
             v == IF f.step \in DOMAIN stores[ls[i].up] THEN stores[ls[i].up][f.step] ELSE Missing
         IN  IF f.list THEN Term("item", "", <<v>>) ELSE v

FieldValues(l, store) ==
    [k \in DOMAIN l.fields |->
        IF l.fields[k].step \in DOMAIN store THEN store[l.fields[k].step] ELSE Missing]

-----------------------------------------------------------------------------
Init ==
    /\ plan = Register(EmptyPlan, MkStep("root", "", <<>>, {}, {}))
    /\ layers = <<Layer(1, 0)>>
    /\ open = <<1>>
    /\ \E m \in Modes, r \in Families :
          flags = [inline |-> m.inline, hoist |-> m.hoist, mutation |-> m.mutation, resolvers |-> r]
    /\ pc = "plan"
    /\ loops = 0
    /\ remap = <<>>
    /\ naive = <<>>
    /\ answer = <<>>
    /\ log = <<>>

FieldCount == FoldLeft(LAMBDA n, l : n + Len(l.fields), 0, layers)

(***************************************************************************)
(* The planner visits one field of a layer it is inside of: the plan       *)
(* resolver builds fresh steps on the layer's parent step (reference 0 in  *)
(* a template) or on each other, the last one is the field's step, and a   *)
(* composite field opens a child layer seeded by it.                       *)
(***************************************************************************)
PlanField(d, t, kind) ==
    LET i     == open[d]
        base  == Len(plan.steps)
        ref(r) == IF r = 0 THEN layers[i].parent ELSE base + r
        step(s) == MkStep(s.cls, s.arg, [k \in DOMAIN s.deps |-> ref(s.deps[k])], {}, s.guards)
        last  == base + Len(t.steps)
        child == IF kind = "leaf" THEN 0 ELSE Len(layers) + 1
        field == [step |-> last, child |-> child, list |-> kind = "list"]
        grown == [layers EXCEPT ![i].fields = Append(@, field)]
    IN  /\ pc = "plan"
        /\ d = Len(open) \/ layers[Last(open)].fields # <<>>
        /\ FieldCount + (IF kind = "leaf" THEN 0 ELSE 1) < MaxFields
        /\ kind # "leaf" => Len(layers) < MaxLayers
        /\ plan' = FoldLeft(LAMBDA q, s : Register(q, step(s)), plan, t.steps)
        /\ layers' = IF child = 0 THEN grown ELSE Append(grown, Layer(last, i))
        /\ open' = SubSeq(open, 1, d) \o (IF child = 0 THEN <<>> ELSE <<child>>)
        /\ UNCHANGED <<flags, pc, loops, remap, naive, answer, log>>

\* The values of the fields if every layer just ran what its fields need.
NaiveStores ==
    LET store[i \in DOMAIN layers] ==
            RunSteps(plan, OrderWithin(plan, FieldSteps(layers[i]), {layers[i].parent}),
                     layers[i].parent :> BoundaryTerm(layers, i, store))
    IN  store

Writes == {i \in Ids(plan) : plan.steps[i].cls = "write"}

\* plan_operation calls finalize_plan once every object plan has its fields.
StartFinalize ==
    /\ pc = "plan"
    /\ \A i \in DOMAIN layers : layers[i].fields # <<>>
    /\ naive' = [fields |-> [i \in DOMAIN layers |-> FieldValues(layers[i], NaiveStores[i])],
                 inputs |-> [w \in Writes |->
                               Inputs(plan, NaiveStores[CHOOSE i \in DOMAIN layers :
                                                           w \in DOMAIN NaiveStores[i]], w)]]
    /\ pc' = "optimize"
    /\ UNCHANGED <<plan, layers, open, flags, loops, remap, answer, log>>

-----------------------------------------------------------------------------
(* Optimize and deduplicate, one action per iteration of their loops.      *)

Optimize ==
    LET next == OptimizeLoop(plan, flags.inline)
    IN  /\ pc = "optimize"
        /\ IF next.changed /\ loops < MaxLoops
           THEN /\ plan' = next
                /\ loops' = loops + 1
                /\ UNCHANGED <<pc, remap>>
           ELSE LET last == IF loops < MaxLoops THEN next ELSE plan
                IN  /\ plan' = [SweepDead(last) EXCEPT !.merged = <<>>]
                    /\ remap' = [i \in DOMAIN last.merged |-> Resolve(last.merged, i)]
                    /\ loops' = 0
                    /\ pc' = "dedup"
        /\ UNCHANGED <<layers, open, flags, naive, answer, log>>

\* ids optimize replaced go on through dedup's survivors (_compose_remaps).
ComposeRemaps(first, second) ==
    [i \in DOMAIN first \cup DOMAIN second |->
        IF i \in DOMAIN first
        THEN IF first[i] \in DOMAIN second THEN second[first[i]] ELSE first[i]
        ELSE second[i]]

Deduplicate ==
    LET next == DedupLoop(plan)
    IN  /\ pc = "dedup"
        /\ IF next.changed
           THEN plan' = next /\ UNCHANGED <<pc, remap>>
           ELSE /\ plan' = [SweepDead(next) EXCEPT !.merged = <<>>]
                /\ remap' = ComposeRemaps(remap, [i \in DOMAIN next.merged |-> Resolve(next.merged, i)])
                /\ pc' = "shake"
        /\ UNCHANGED <<layers, open, flags, loops, naive, answer, log>>

-----------------------------------------------------------------------------
(* Remap, shake, attach.                                                   *)

Survivor(i) == IF i \in DOMAIN remap THEN remap[i] ELSE i

RemapObjectPlan(ls) ==
    [i \in DOMAIN ls |->
        [ls[i] EXCEPT !.parent = Survivor(@),
                      !.fields = [k \in DOMAIN @ |-> [@[k] EXCEPT !.step = Survivor(@)]]]]

ConsumptionRoots(ls) ==
    UNION {{ls[i].parent} \cup ToSet(FieldSteps(ls[i])) : i \in DOMAIN ls}

DeepestOwner(p, ls, effect) ==
    LET above   == Reachable(p, {effect})
        deepest == {i \in DOMAIN ls : /\ ls[i].parent \in above
                                      /\ \A j \in DOMAIN ls :
                                            ls[j].parent \in above => Depth(ls, j) <= Depth(ls, i)}
    IN  IF deepest = {} THEN ls[1].parent
        ELSE ls[CHOOSE i \in deepest : \A j \in deepest : i <= j].parent

AttachToRoot(p, ls, orphans) ==
    [ls EXCEPT ![1].effects = @ \o Ascending(p, orphans)]

AttachEffectSteps(p, ls, orphans) ==
    [i \in DOMAIN ls |->
        [ls[i] EXCEPT !.effects =
            @ \o Ascending(p, {e \in orphans : DeepestOwner(p, ls, e) = ls[i].parent})]]

ShakeAndAttach ==
    LET ls    == RemapObjectPlan(layers)
        roots == ConsumptionRoots(ls)
    IN  /\ pc = "shake"
        /\ plan' = TreeShake(plan, roots)
        /\ layers' = AttachEffectSteps(plan', ls, OrphanedEffects(plan, roots))
        /\ pc' = IF flags.hoist /\ ~flags.mutation THEN "hoist" ELSE "populate"
        /\ UNCHANGED <<open, flags, loops, remap, naive, answer, log>>

-----------------------------------------------------------------------------
(* Hoisting.                                                               *)

IsHoistable(s, above) ==
    /\ Dedupable(s)
    /\ Hoistable(s)
    /\ s.cls # "root"
    /\ \A k \in DOMAIN s.deps : s.deps[k] \in above

AvailableWithParent(here, own, parent) == here \cup own

\* What a layer may see above it: not the column that seeds the layer itself.
AvailableToChild(here, own, parent) == (here \cup own) \ {parent}

HoistSteps(p, ls) ==
    LET targets(i) == FieldSteps(ls[i]) \o ls[i].effects
        \* top-down: <<available above the layer, the layer's own steps>>
        view[i \in DOMAIN ls] ==
            LET above == IF i = 1 THEN {}
                         ELSE LET up == view[ls[i].up]
                              IN  AvailableToChild(up.above \cup {ls[ls[i].up].parent}, up.own, ls[i].parent)
            IN  [above |-> above,
                 own |-> ToSet(OrderWithin(p, targets(i), above \cup {ls[i].parent}))]
        \* bottom-up: the steps that leave a layer for its parent
        lifted[i \in DOMAIN ls] ==
            LET own == view[i].own \cup UNION {lifted[c] : c \in Children(ls, i)}
                lift[n \in Nat] ==
                    IF n = 0 THEN {}
                    ELSE {s \in own : IsHoistable(p.steps[s], view[i].above \cup lift[n - 1])}
            IN  IF i = 1 THEN {} ELSE lift[Cardinality(own)]
    IN  [i \in DOMAIN ls |->
            [ls[i] EXCEPT
                !.hoistedIn = Ascending(p, (UNION {lifted[c] : c \in Children(ls, i)} \ view[i].own)
                                           \ lifted[i]),
                !.hoistedOut = lifted[i]]]

Hoist ==
    /\ pc = "hoist"
    /\ layers' = HoistSteps(plan, layers)
    /\ pc' = "populate"
    /\ UNCHANGED <<plan, open, flags, loops, remap, naive, answer, log>>

PopulateLayers(p, ls) ==
    [i \in DOMAIN ls |->
        LET run == FieldSteps(ls[i]) \o ls[i].effects \o ls[i].hoistedIn
        IN  [ls[i] EXCEPT !.run = run,
                          !.ordered = OrderWithin(p, run, {ls[i].parent} \cup ls[i].hoistedOut)]]

Populate ==
    /\ pc = "populate"
    /\ layers' = PopulateLayers(plan, layers)
    /\ pc' = "execute"
    /\ UNCHANGED <<plan, open, flags, loops, remap, naive, answer, log>>

-----------------------------------------------------------------------------
(* Execution.                                                              *)

(***************************************************************************)
(* run_layer over the finalized layers: a layer is seeded with its         *)
(* boundary and, through the hoist bridge, with the hoisted columns read   *)
(* from its parent's store.  Under a mutation a root field runs just its   *)
(* own sub-DAG (run_serial_plan_field), after the orphaned writes.         *)
(***************************************************************************)
Runs(i) ==
    LET l == layers[i]
    IN  IF flags.mutation /\ i = 1
        THEN <<OrderWithin(plan, l.effects, {l.parent})>>
             \o [k \in DOMAIN l.fields |-> OrderWithin(plan, <<l.fields[k].step>>, {l.parent})]
        ELSE <<l.ordered>>

ExecutedStores ==
    LET store[i \in DOMAIN layers] ==
            LET l == layers[i]
                bridge == [h \in l.hoistedOut |->
                              IF h \in DOMAIN store[l.up] THEN store[l.up][h] ELSE Missing]
                seed == (l.parent :> BoundaryTerm(layers, i, store)) @@ bridge
            IN  FoldLeft(LAMBDA st, ordered : RunSteps(plan, ordered, seed) @@ st, seed, Runs(i))
    IN  store

LogOf(store, ordered) ==
    LET effects == SelectSeq(ordered, LAMBDA s : ~Dedupable(plan.steps[s]))
    IN  [n \in DOMAIN effects |-> [step |-> effects[n], input |-> Inputs(plan, store, effects[n])]]

(***************************************************************************)
(* The side effects of a layer and the layers below it, in the order       *)
(* completion reaches them: the serial path completes each root field,     *)
(* its child layers included, before it runs the next.                     *)
(***************************************************************************)
ExecutedLog ==
    LET log_[i \in DOMAIN layers] ==
            LET kids(fields) == FlattenSeq([k \in DOMAIN fields |->
                                              IF fields[k].child = 0 THEN <<>> ELSE log_[fields[k].child]])
                own == [n \in DOMAIN Runs(i) |-> LogOf(ExecutedStores[i], Runs(i)[n])]
            IN  IF flags.mutation /\ i = 1
                THEN FlattenSeq([n \in DOMAIN own |->
                                   own[n] \o (IF n = 1 THEN <<>> ELSE kids(<<layers[1].fields[n - 1]>>))])
                ELSE own[1] \o kids(layers[i].fields)
    IN  log_[1]

Execute ==
    /\ pc = "execute"
    /\ answer' = [i \in DOMAIN layers |-> FieldValues(layers[i], ExecutedStores[i])]
    /\ log' = ExecutedLog
    /\ pc' = "done"
    /\ UNCHANGED <<plan, layers, open, flags, loops, remap, naive>>

Done == pc = "done" /\ UNCHANGED vars

Next ==
    \/ \E d \in DOMAIN open, t \in flags.resolvers : \E kind \in t.kinds : PlanField(d, t, kind)
    \/ StartFinalize
    \/ Optimize
    \/ Deduplicate
    \/ ShakeAndAttach
    \/ Hoist
    \/ Populate
    \/ Execute
    \/ Done

Spec == Init /\ [][Next]_vars

-----------------------------------------------------------------------------
(* Properties.                                                             *)

(***************************************************************************)
(* Every id a plan or a layer holds is a registered step, live steps only  *)
(* depend on registered steps, and the passes run in finalize_plan's order.*)
(***************************************************************************)
TypeOK ==
    /\ pc \in {"plan", "optimize", "dedup", "shake", "hoist", "populate", "execute", "done"}
    /\ plan.live \subseteq Ids(plan) /\ plan.dead \subseteq plan.live
    /\ \A i \in Ids(plan) : ToSet(plan.steps[i].deps) \subseteq Ids(plan)
    /\ DOMAIN plan.dependents = Ids(plan)
    /\ \A i \in DOMAIN layers :
          /\ layers[i].up < i
          /\ {layers[i].parent} \cup ToSet(FieldSteps(layers[i])) \subseteq Ids(plan)
          /\ layers[i].hoistedOut \subseteq Ids(plan)
    /\ loops \in 0 .. MaxLoops

Alive == plan.live \ plan.dead

(***************************************************************************)
(* The reverse index the inliner reads is the inverse of the live edges    *)
(* after every registration, merge, replacement and shake: an absorbed     *)
(* child is never seen again and no dependent is missed (dag.py            *)
(* dependents_of, eradicate, tree_shake).                                  *)
(***************************************************************************)
IndexIsInverse ==
    \A d \in Alive :
        plan.dependents[d] =
            {<<s, k>> \in Alive \X (1 .. 2) :
                k \in DOMAIN plan.steps[s].deps /\ plan.steps[s].deps[k] = d}

(***************************************************************************)
(* No live step, field or layer is left pointing at a step that has been   *)
(* merged, replaced or shaken away, once the tree has been remapped.       *)
(***************************************************************************)
NothingDangles ==
    pc \in {"hoist", "populate", "execute", "done"} =>
        /\ ConsumptionRoots(layers) \subseteq plan.live
        /\ \A s \in plan.live : ToSet(plan.steps[s].deps) \subseteq plan.live

(***************************************************************************)
(* Whatever finalize_plan rewrote, merged, absorbed or moved, the executor *)
(* computes for every field the value the plan as built defines ("Data is  *)
(* byte-identical to the naive plan", hoist_steps).                        *)
(***************************************************************************)
SameAnswer == pc = "done" => answer = naive.fields

RunsOf(w) == Cardinality({n \in DOMAIN log : log[n].step = w})

(***************************************************************************)
(* A write the optimizer orphaned by inlining its value is still run, and  *)
(* runs on the input the plan as built gives it; it runs once per bucket   *)
(* that shares the boundary it was planned under (tree_shake,              *)
(* attach_effect_steps, run_effect_steps).                                 *)
(***************************************************************************)
WritesHappen ==
    pc = "done" =>
        \A w \in Writes :
            /\ RunsOf(w) >= 1
            /\ \A n \in DOMAIN log : log[n].step = w => log[n].input = naive.inputs[w]
            /\ RunsOf(w) <= Cardinality({i \in DOMAIN layers : layers[i].parent = DeepestOwner(plan, layers, w)})

=============================================================================
