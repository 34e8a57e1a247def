------------------------------- MODULE StepDag -------------------------------
(***************************************************************************)
(* The step DAG of one operation (grafast_py/dag.py) and the rewrites that *)
(* finalize_plan runs over it: the optimize hooks (among them the LATERAL  *)
(* inliner of pg/inline.py), deduplication and tree shaking.               *)
(*                                                                         *)
(* A plan is a record                                                      *)
(*   steps       every step ever registered; a step's id is its position   *)
(*   live, dead  the ids in Plan.steps and in Plan._dead_ids               *)
(*   dependents  the maintained reverse index: dependents[d] is a set of   *)
(*               <<step, index>>                                           *)
(*   merged      old id -> immediate replacement, of the running pass      *)
(*   changed     whether the running sweep rewrote anything                *)
(* A step is a record: its class, its argument (the data, path, function   *)
(* or table that dedup compares), its dependencies, the child selects a pg *)
(* select has absorbed (inline specs) and the reasons, if any, for which a *)
(* pg select may not be inlined.                                           *)
(***************************************************************************)
EXTENDS Integers, Sequences, SequencesExt, TLC

MkStep(cls, arg, deps, specs, guards) ==
    [cls |-> cls, arg |-> arg, deps |-> deps, specs |-> specs, guards |-> guards]

EmptyPlan ==
    [steps |-> <<>>, live |-> {}, dead |-> {}, dependents |-> <<>>,
     merged |-> <<>>, changed |-> FALSE]

Ids(p) == DOMAIN p.steps

\* Side-effecting steps are never merged and never shaken away.
Dedupable(s) == s.cls \notin {"write", "resolve"}

Hoistable(s) == s.cls \notin {"resolve", "async"}

Selects == {"all", "select", "single"}

-----------------------------------------------------------------------------
(* Ordering.                                                               *)

\* The ids of a set in registration order.
Ascending(p, ids) == SelectSeq([i \in Ids(p) |-> i], LAMBDA i : i \in ids)

Once(ids) ==
    FoldLeft(LAMBDA seen, i : IF Contains(seen, i) THEN seen ELSE Append(seen, i),
             <<>>, ids)

(***************************************************************************)
(* Depth-first post-order below the targets, stopping at (and leaving out) *)
(* the boundary.  A node already visited has all its descendants visited,  *)
(* so the shared visited set amounts to dropping repeated ids.             *)
(***************************************************************************)
OrderWithin(p, targets, boundary) ==
    LET post[i \in Ids(p)] ==
            IF i \in boundary THEN <<>>
            ELSE Once(FlattenSeq([k \in DOMAIN p.steps[i].deps |-> post[p.steps[i].deps[k]]])
                      \o <<i>>)
    IN  Once(FlattenSeq([k \in DOMAIN targets |-> post[targets[k]]]))

OrderSteps(p, targets) == OrderWithin(p, targets, {})

\* Plan.steps: registration order, eradicated steps trimmed at the pass's end.
PlanSteps(p) == Ascending(p, p.live)

Reachable(p, roots) == ToSet(OrderSteps(p, Ascending(p, roots)))

-----------------------------------------------------------------------------
(* Registration, the reverse index, and eradication.                       *)

\* add_step of a step whose dependencies are registered.
Register(p, step) ==
    LET id == Len(p.steps) + 1
    IN  [p EXCEPT !.steps = Append(@, step),
                  !.live = @ \cup {id},
                  !.dependents =
                      [d \in 1 .. id |->
                          IF d = id THEN {}
                          ELSE @[d] \cup {<<id, k>> : k \in {j \in DOMAIN step.deps : step.deps[j] = d}}]]

NewId(p) == Len(p.steps) + 1

DependentsOf(p, id) == {e[1] : e \in p.dependents[id]}

(***************************************************************************)
(* Remove dead: its dependents are repointed to the survivor (forward edge *)
(* and reverse edge), its own edges leave its dependencies' entries, and   *)
(* it leaves the index; the step list itself is trimmed by SweepDead.      *)
(***************************************************************************)
EradicateKeepingEdges(p, dead, survivor) ==
    IF dead = survivor THEN p
    ELSE LET moved == p.dependents[dead]
         IN  [p EXCEPT
               !.steps = [i \in DOMAIN @ |->
                            [@[i] EXCEPT !.deps =
                                [k \in DOMAIN @ |-> IF <<i, k>> \in moved THEN survivor ELSE @[k]]]],
               !.dependents = [d \in DOMAIN @ |->
                                 IF d = dead THEN {}
                                 ELSE IF d = survivor THEN @[d] \cup moved ELSE @[d]],
               !.dead = @ \cup {dead}]

Eradicate(p, dead, survivor) ==
    IF dead = survivor THEN p
    ELSE LET moved == p.dependents[dead]
         IN  [p EXCEPT
               !.steps = [i \in DOMAIN @ |->
                            [@[i] EXCEPT !.deps =
                                [k \in DOMAIN @ |-> IF <<i, k>> \in moved THEN survivor ELSE @[k]]]],
               !.dependents = [d \in DOMAIN @ |->
                                 IF d = dead THEN {}
                                 ELSE {e \in @[d] \cup (IF d = survivor THEN moved ELSE {}) : e[1] # dead}],
               !.dead = @ \cup {dead}]

Replace(p, old, new) ==
    [Eradicate(p, old, new) EXCEPT !.merged = (old :> new) @@ @, !.changed = TRUE]

SweepKeepingMarks(p) == [p EXCEPT !.live = @ \ p.dead]

SweepDead(p) == [p EXCEPT !.live = @ \ p.dead, !.dead = {}]

Resolve(merged, id) ==
    LET final[i \in Nat] == IF i \in DOMAIN merged /\ merged[i] # i THEN final[merged[i]] ELSE i
    IN  final[id]

-----------------------------------------------------------------------------
(* The LATERAL inliner: PgSelectStep.optimize / PgSelectAllStep.optimize.  *)

MayAbsorb(parent) ==
    /\ parent.cls \in Selects
    /\ parent.guards \cap {"opt_out"} = {}
    /\ parent.cls # "all" => "limited" \notin parent.guards

(***************************************************************************)
(* A child select keyed by one column of the parent.  The reasons that     *)
(* keep a child standalone (a connection, a composite key, another schema, *)
(* opted out, limited, customized, filtered, unsafe as JSON) are its       *)
(* guards; a relation to the parent's own table is never inlined.          *)
(***************************************************************************)
InlineCandidate(p, parent, key, child) ==
    /\ p.steps[key].cls = "pure"
    /\ p.steps[child].cls \in {"select", "single"}
    /\ p.steps[child].deps[1] = key
    /\ p.steps[child].guards = {}
    /\ p.steps[child].arg # p.steps[parent].arg

FindInlineCandidates(p, parent) ==
    {c \in UNION {{<<k, d>> : d \in DependentsOf(p, k)} : k \in DependentsOf(p, parent)} :
        InlineCandidate(p, parent, c[1], c[2])}

\* The nested alias is the child's table and column, numbered when it is taken.
InlineSpec(p, c, n) ==
    [alias |-> n, table |-> p.steps[c[2]].arg, kind |-> p.steps[c[2]].cls, local |-> p.steps[c[1]].arg]

FoldInlineCandidates(p, parent, candidates) ==
    LET kids  == Ascending(p, {c[2] : c \in candidates})
        cs    == [n \in DOMAIN kids |-> <<p.steps[kids[n]].deps[1], kids[n]>>]
        specs == {InlineSpec(p, cs[n], n) : n \in DOMAIN cs}
        clone == NewId(p)
        fold(q, n) ==
            LET extract == NewId(q)
            IN  Replace(Register(q, MkStep("extract", ToString(n), <<clone>>, {}, {})), cs[n][2], extract)
    IN  Replace(FoldLeft(fold, Register(p, [p.steps[parent] EXCEPT !.specs = specs]), [n \in DOMAIN cs |-> n]),
                parent, clone)

OptimizeSelect(p, id) ==
    LET candidates == FindInlineCandidates(p, id)
    IN  IF candidates = {} THEN p ELSE FoldInlineCandidates(p, id, candidates)

(***************************************************************************)
(* The optimize hook of one step.  Besides the inliner, host steps may     *)
(* rewrite themselves: "absorb" inlines the value of the write it depends  *)
(* on as a constant, "restless" returns a fresh copy of itself every time  *)
(* it is asked.                                                            *)
(***************************************************************************)
OptimizeStep(p, inline, id) ==
    LET s == p.steps[id]
    IN  CASE inline /\ MayAbsorb(s) -> OptimizeSelect(p, id)
          [] s.cls = "absorb" ->
                Replace(Register(p, MkStep("const", p.steps[s.deps[1]].arg, <<>>, {}, {})), id, NewId(p))
          [] s.cls = "restless" -> Replace(Register(p, s), id, NewId(p))
          [] OTHER -> p

\* One iteration of optimize's while loop: every live step, dependencies first.
OptimizeLoop(p, inline) ==
    FoldLeft(LAMBDA q, id : IF id \in q.dead THEN q ELSE OptimizeStep(q, inline, id),
             [p EXCEPT !.changed = FALSE],
             OrderSteps(p, PlanSteps(p)))

-----------------------------------------------------------------------------
(* Deduplication.                                                          *)

StructuralKey(s) == <<s.cls, s.arg, s.specs, s.guards, s.deps>>

(***************************************************************************)
(* One iteration of deduplicate's while loop: the first live step, in      *)
(* dependency order, of every structural key wins; the others are merged   *)
(* into it.                                                                *)
(***************************************************************************)
DedupLoop(p) ==
    LET visit(acc, id) ==
            LET q == acc.plan
                s == q.steps[id]
                winners == {w \in acc.kept : StructuralKey(q.steps[w]) = StructuralKey(s)}
            IN  IF id \in q.dead \/ ~Dedupable(s) THEN acc
                ELSE IF winners = {} THEN [acc EXCEPT !.kept = @ \cup {id}]
                ELSE [acc EXCEPT !.plan = Replace(q, id, CHOOSE w \in winners : TRUE)]
    IN  FoldLeft(visit, [plan |-> [p EXCEPT !.changed = FALSE], kept |-> {}],
                 OrderSteps(p, PlanSteps(p))).plan

-----------------------------------------------------------------------------
(* Tree shaking.                                                           *)

SideEffecting(p) == {i \in p.live : ~Dedupable(p.steps[i])}

KeptWritesOnly(p, roots) == Reachable(p, roots) \cup SideEffecting(p)

Kept(p, roots) == Reachable(p, roots) \cup Reachable(p, SideEffecting(p))

TreeShake(p, roots) ==
    LET keep == Kept(p, roots)
    IN  [p EXCEPT !.live = @ \cap keep,
                  !.dependents = [d \in DOMAIN @ |->
                                    IF d \in keep THEN {e \in @[d] : e[1] \in keep} ELSE {}]]

OrphanedEffects(p, roots) == SideEffecting(p) \ Reachable(p, roots)

-----------------------------------------------------------------------------
(***************************************************************************)
(* What a step computes for one bucket entry, as a term over the values of *)
(* its dependencies.  A select's term does not depend on what it has       *)
(* absorbed; an extract reads the nested column its dependency's spec      *)
(* fills, which is the child select keyed by the parent row's column.      *)
(***************************************************************************)
Term(op, arg, args) == <<op, arg, args>>
Missing == Term("missing", "", <<>>)

Apply(p, id, args) ==
    LET s == p.steps[id]
    IN  CASE s.cls \in {"write", "const"} -> Term("const", s.arg, <<>>)
          [] s.cls \in {"absorb", "restless"} -> args[1]
          [] s.cls = "extract" ->
                LET specs == {sp \in p.steps[s.deps[1]].specs : ToString(sp.alias) = s.arg}
                IN  IF specs = {} THEN Missing
                    ELSE LET sp == CHOOSE sp \in specs : TRUE
                         IN  Term(sp.kind, sp.table, <<Term("pure", sp.local, args)>>)
          [] s.cls = "root" -> Missing    \* RootStep.execute raises: it is only ever seeded
          [] OTHER -> Term(s.cls, s.arg, args)

Inputs(p, store, id) ==
    [k \in DOMAIN p.steps[id].deps |->
        IF p.steps[id].deps[k] \in DOMAIN store THEN store[p.steps[id].deps[k]] ELSE Missing]

\* Run steps in order over a bucket whose seeded columns are given.
RunSteps(p, ordered, seed) ==
    FoldLeft(LAMBDA store, id : (id :> Apply(p, id, Inputs(p, store, id))) @@ store,
             seed, ordered)

=============================================================================
