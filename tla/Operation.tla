------------------------------ MODULE Operation ------------------------------
(***************************************************************************)
(* One operation from its entry point to its answer: entry.py's front end, *)
(* its spans, its deadline and its subscriptions, around the layers that   *)
(* step_model.run_steps runs over buckets of values with the built-in      *)
(* steps, its awaits limited by concurrency.await_limited.                 *)
(*                                                                         *)
(* `op` is what is asked and what its callbacks do; it never changes:      *)
(*   layers    [1 .. n -> [plan, seed]]: layer 1 is the root's, the others *)
(*             are its fields' children, run together by gather            *)
(*   prepare   "ok" or "invalid" (no valid document, operation, variables) *)
(*   planning  "ok" or "error" (plan_operation raises a GraphQLError)      *)
(*   bubbles   a non-null error reaches the root                           *)
(*   entry     "plain" (grafast_execute) or "incremental"                  *)
(*   events    payloads of the source stream; 1 for a query                *)
(*   timeout   execution_timeout_s is set                                  *)
(* A step that awaits has async TRUE and an outcome: "ok", "raise",        *)
(* "short" or "hang", a loader that never answers.                         *)
(***************************************************************************)
EXTENDS BuiltinSteps

CONSTANTS
  NULL,
  Operations,     \* the operations to consider
  MaxLayers,      \* layers of an operation
  Permits,        \* max_step_concurrency
  EarlyCancel     \* the host may cancel before every task took its first step

\* What Plan.add builds: a step reads the column the bucket is seeded with (0) or
\* those of earlier steps; only constants and empty lists and objects read none.
IsStep(step, s) ==
  /\ step.kind \in Kinds
  /\ step.deps \in Seq(0 .. s - 1)
  /\ step.kind \notin {"constant", "list", "object"} => step.deps # << >>
  /\ step.kind = "object" => DOMAIN step.keys = DOMAIN step.deps

IsLayer(l) ==
  /\ l.plan \in Seq(ToSet(l.plan)) /\ l.seed \in Seq(ToSet(l.seed))
  /\ \A s \in DOMAIN l.plan : IsStep(l.plan[s], s)

ASSUME OperationsAssumption ==
  \A o \in Operations :
    /\ \E n \in 1 .. MaxLayers : DOMAIN o.layers = 1 .. n
    /\ \A l \in DOMAIN o.layers : IsLayer(o.layers[l])
    /\ o.events \in Nat \ {0}
ASSUME LimitsAssumption == Permits \in Nat \ {0} /\ MaxLayers \in Nat
ASSUME EarlyCancelAssumption == EarlyCancel \in BOOLEAN
ASSUME NullAssumption == NULL \notin Nat

VARIABLES
  op,
  phase,      \* "prepare", "planning", "executing", "answered" or "cancelled"
  layer,      \* [layer -> [state, index, results]]
  loop,       \* the layer whose code the event loop is running, NULL for none
  awaited,    \* the entry point has returned a coroutine and the host awaits it
  permits,    \* permits free
  coro,       \* [layer -> "none", "fresh", "open", "closed" or "done"]: its loader's coroutine
  spans,      \* spans entered and not exited
  answers     \* one answer for each event so far

vars == <<op, phase, layer, loop, awaited, permits, coro, spans, answers>>

Layers == DOMAIN op.layers
Children == Layers \ {1}
Plan(l) == op.layers[l].plan
Count(l) == Len(op.layers[l].seed)

Ended == {"done", "raised", "cancelled", "dropped"}
Idle == [state |-> "idle", index |-> 1, results |-> << >>]

Init ==
  /\ op \in Operations
  /\ phase = "prepare"
  /\ layer = [l \in Layers |-> Idle]
  /\ loop = NULL /\ awaited = FALSE
  /\ permits = Permits
  /\ coro = [l \in Layers |-> "none"]
  /\ spans = {}
  /\ answers = << >>

-----------------------------------------------------------------------------
(* run_steps *)

\* _bucket_unariness: a step runs once for the bucket when nothing it reads is
\* seeded with the bucket's rows.
UnaryHere(l, s) ==
  LET unary[t \in DOMAIN Plan(l)] ==
        /\ Count(l) > 0
        /\ SyncAndSafe(Plan(l)[t])
        /\ \A i \in DOMAIN Plan(l)[t].deps : Plan(l)[t].deps[i] # 0 /\ unary[Plan(l)[t].deps[i]]
  IN  unary[s]

Column(l, dep) == IF dep = 0 THEN op.layers[l].seed ELSE layer[l].results[dep]

GatherCols(l, s) ==
  LET deps == Plan(l)[s].deps
  IN  [d \in DOMAIN deps |->
         IF UnaryHere(l, s) THEN <<Column(l, deps[d])[1]>> ELSE Column(l, deps[d])]

\* The column step s yields, broadcast to the bucket when it ran once.
Output(l, s) ==
  LET out == Execute(Plan(l)[s], GatherCols(l, s), IF UnaryHere(l, s) THEN 1 ELSE Count(l))
  IN  IF UnaryHere(l, s) THEN [i \in 1 .. Count(l) |-> out[1]] ELSE out

StepSpan(l, s) == <<"step", l, s>>

Stored(l) ==
  [layer EXCEPT ![l].results = Append(@, Output(l, layer[l].index)), ![l].index = @ + 1]

\* The layer whose code goes on when layer l's steps are over: a root's children
\* run their own synchronous prefix one after another, in field order.
Started == {l \in Layers : layer[l].state # "idle"}
NextChild == IF Started = Layers THEN NULL ELSE CHOOSE l \in Layers \ Started : \A k \in Layers \ Started : l <= k

-----------------------------------------------------------------------------
(* Answers *)

\* An answer ends its event; the next one starts the operation anew.
Answer(kind, open) ==
  /\ answers' = Append(answers, kind)
  /\ spans' = open
  /\ phase' = "answered"

OpSpan == IF op.entry = "plain" THEN {<<"op", 0, 0>>} ELSE {}
PlanSpan == IF op.entry = "plain" THEN {<<"plan", 0, 0>>} ELSE {}

-----------------------------------------------------------------------------
(* entry.py *)

\* _prepare_request, and the spans run_planned_operation enters before planning.
Prepare ==
  /\ phase = "prepare"
  /\ IF op.prepare = "invalid"
     THEN Answer("error", spans)
     ELSE /\ phase' = "planning"
          /\ spans' = spans \cup OpSpan \cup PlanSpan
          /\ UNCHANGED answers
  /\ UNCHANGED <<op, layer, loop, awaited, permits, coro>>

\* A GraphQLError of planning is answered; nothing exits the spans it passes.
PlanOperation ==
  /\ phase = "planning"
  /\ IF op.planning = "error"
     THEN /\ Answer("error", spans)
          /\ UNCHANGED <<layer, loop>>
     ELSE /\ phase' = "executing"
          /\ spans' = spans \ PlanSpan
          /\ layer' = [layer EXCEPT ![1].state = "running"]
          /\ loop' = 1
          /\ UNCHANGED answers
  /\ UNCHANGED <<op, awaited, permits, coro>>

\* The next event of a subscription; an exception ends the stream.
NextEvent ==
  /\ phase = "answered" /\ Len(answers) < op.events /\ Last(answers) # "raised"
  /\ phase' = "prepare"
  /\ layer' = [l \in Layers |-> Idle]
  /\ coro' = [l \in Layers |-> "none"]
  /\ permits' = Permits
  /\ awaited' = FALSE
  /\ UNCHANGED <<op, loop, spans, answers>>

-----------------------------------------------------------------------------
(* The layers *)

\* One step of the layer the event loop is running: its span, its execute and,
\* unless that returned an awaitable, its column.
RunStep ==
  LET l == loop
      s == layer[l].index
      step == Plan(l)[s]
  IN
  /\ phase = "executing" \/ phase = "answered"
  /\ loop # NULL
  /\ layer[l].state \in {"running", "resumed"}
  /\ s <= Len(Plan(l))
  /\ IF step.async /\ ~(step.kind = "each" /\ EachRaises(GatherCols(l, s)[1]))
     THEN \* run_steps hands the rest to an OwnedAwaitable; once that runs, it awaits here
          /\ layer' = [layer EXCEPT ![l].state = IF @ = "running" THEN "unstarted" ELSE "waiting"]
          /\ coro' = [coro EXCEPT ![l] = "fresh"]
          /\ spans' = spans \cup {StepSpan(l, s)}
          /\ loop' = IF l = 1 \/ layer[l].state = "resumed" THEN NULL ELSE NextChild
          /\ UNCHANGED answers
     ELSE IF Raises(step, GatherCols(l, s))
     THEN \* a raise while the root's fields are walked leaves their awaitables unawaited
          /\ layer' = [k \in Layers |->
                         IF k = l THEN [layer[k] EXCEPT !.state = "raised"]
                         ELSE IF layer[l].state = "running" /\ layer[k].state = "unstarted"
                         THEN [layer[k] EXCEPT !.state = "dropped"] ELSE layer[k]]
          /\ loop' = NULL
          /\ UNCHANGED <<coro, spans, answers>>
     ELSE /\ layer' = Stored(l)
          /\ UNCHANGED <<loop, coro, spans, answers>>
  /\ UNCHANGED <<op, phase, awaited, permits>>

\* The layer's steps are over; while the root's fields are walked, the next of
\* their child layers gets its turn.
LayerDone ==
  LET l == loop IN
  /\ loop # NULL
  /\ layer[l].state \in {"running", "resumed"}
  /\ layer[l].index > Len(Plan(l))
  /\ layer' = [layer EXCEPT ![l].state = "done"]
  /\ loop' = IF l = 1 \/ layer[l].state = "running" THEN NextChild ELSE NULL
  /\ UNCHANGED <<op, phase, awaited, permits, coro, spans, answers>>

\* A child layer begins: execute_object_plan runs its steps up to the first await.
BeginChild ==
  /\ loop # NULL /\ layer[loop].state = "idle"
  /\ layer' = [layer EXCEPT ![loop].state = "running"]
  /\ UNCHANGED <<op, phase, loop, awaited, permits, coro, spans, answers>>

\* The entry point returns a coroutine, which the host awaits: await_root, and
\* under it the deadline.  Without one the root's own await starts at once; a
\* deadline makes it a task.
HostAwaits ==
  /\ phase = "executing" /\ ~awaited /\ loop = NULL
  /\ \A l \in Layers : layer[l].state # "raised"
  /\ \E l \in Layers : layer[l].state = "unstarted"
  /\ awaited' = TRUE
  /\ layer' = IF op.timeout \/ layer[1].state # "unstarted" THEN layer
              ELSE [layer EXCEPT ![1].state = "waiting"]
  /\ UNCHANGED <<op, phase, loop, permits, coro, spans, answers>>

\* A task takes its first step and gets to the semaphore.
Start(l) ==
  /\ loop = NULL /\ awaited
  /\ layer[l].state = "unstarted"
  /\ layer' = [layer EXCEPT ![l].state = "waiting"]
  /\ UNCHANGED <<op, phase, loop, awaited, permits, coro, spans, answers>>

Acquire(l) ==
  /\ loop = NULL
  /\ layer[l].state = "waiting"
  /\ permits > 0
  /\ permits' = permits - 1
  /\ layer' = [layer EXCEPT ![l].state = "holding"]
  /\ coro' = [coro EXCEPT ![l] = "open"]
  /\ UNCHANGED <<op, phase, loop, awaited, spans, answers>>

\* The loader answers: the permit is returned before anything else happens.
ReleaseLate(l) == permits

Release(l) == permits + 1

Resolve(l) ==
  LET s == layer[l].index
      step == Plan(l)[s]
  IN
  /\ loop = NULL
  /\ layer[l].state = "holding"
  /\ step.outcome # "hang"
  /\ permits' = Release(l)
  /\ coro' = [coro EXCEPT ![l] = "done"]
  /\ spans' = spans \ {StepSpan(l, s)}
  /\ IF step.outcome = "short"
     THEN /\ layer' = [layer EXCEPT ![l].state = "raised"]
          /\ UNCHANGED loop
     ELSE /\ layer' = [Stored(l) EXCEPT ![l].state = "resumed"]
          /\ loop' = l
  /\ UNCHANGED <<op, phase, awaited, answers>>

-----------------------------------------------------------------------------
(* The end of an event *)

\* Every layer is over: root_output, or a Bubble's error in its place.
Finish ==
  /\ phase = "executing" /\ loop = NULL
  /\ \A l \in Layers : layer[l].state = "done"
  /\ Answer(IF op.bubbles THEN "error" ELSE "data", spans \ OpSpan)
  /\ UNCHANGED <<op, layer, loop, awaited, permits, coro>>

\* An exception that is no GraphQLError goes to the host.  gather leaves the
\* failed child's siblings running; a synchronous raise passes the operation's
\* span by.
Raise ==
  /\ phase = "executing" /\ loop = NULL
  /\ \E l \in Layers : layer[l].state = "raised"
  /\ Answer("raised", IF awaited THEN spans \ OpSpan ELSE spans)
  /\ UNCHANGED <<op, layer, loop, awaited, permits, coro>>

\* Cancelling a layer where it stands: await_limited closes a coroutine it never
\* started or throws into the one it awaits and returns its permit; run_steps
\* exits the span.  A task that has not taken a step runs none of this.
CancelledWithoutClosing(l) ==
  IF layer[l].state = "waiting" THEN "fresh"
  ELSE IF layer[l].state = "holding" THEN "closed" ELSE coro[l]

CancelledCoro(l) ==
  IF layer[l].state \in {"waiting", "holding"} THEN "closed" ELSE coro[l]

\* The cancelled layers that hand a permit back: those that had one.
EveryWaiter(hit) == hit

Holders(hit) == {l \in hit : layer[l].state = "holding"}

CancelLayers ==
  LET hit == {l \in Layers : layer[l].state \in {"waiting", "holding"}}
  IN  /\ layer' = [l \in Layers |->
                     CASE l \in hit -> [layer[l] EXCEPT !.state = "cancelled"]
                       [] layer[l].state = "unstarted" -> [layer[l] EXCEPT !.state = "dropped"]
                       [] OTHER -> layer[l]]
      /\ coro' = [l \in Layers |-> CancelledCoro(l)]
      /\ permits' = permits + Cardinality(Holders(hit))
      /\ spans' = (spans \ {StepSpan(l, layer[l].index) : l \in hit}) \ OpSpan

InFlight == \E l \in Layers : layer[l].state \in {"unstarted", "waiting", "holding"}

\* Every task has taken its first step.
AllStarted == \A l \in Layers : layer[l].state # "unstarted"

\* wait_for's timer: callbacks queued earlier, the tasks' first steps, run first.
Timeout ==
  /\ phase = "executing" /\ awaited /\ loop = NULL
  /\ op.timeout /\ InFlight /\ AllStarted
  /\ CancelLayers
  /\ answers' = Append(answers, "timeout")
  /\ phase' = "answered"
  /\ UNCHANGED <<op, loop, awaited>>

\* The host cancels the task that awaits the operation.
HostCancels ==
  /\ phase = "executing" /\ awaited /\ loop = NULL
  /\ InFlight
  /\ EarlyCancel \/ AllStarted
  /\ CancelLayers
  /\ phase' = "cancelled"
  /\ UNCHANGED <<op, loop, awaited, answers>>

\* Nothing is left to do.
Answered ==
  \/ phase = "cancelled"
  \/ phase = "answered" /\ (Len(answers) = op.events \/ Last(answers) = "raised")

Over ==
  /\ Answered /\ loop = NULL
  /\ UNCHANGED vars

Next ==
  \/ Prepare
  \/ PlanOperation
  \/ NextEvent
  \/ RunStep
  \/ LayerDone
  \/ BeginChild
  \/ HostAwaits
  \/ \E l \in Layers : Start(l)
  \/ \E l \in Layers : Acquire(l)
  \/ \E l \in Layers : Resolve(l)
  \/ Finish
  \/ Raise
  \/ Timeout
  \/ HostCancels
  \/ Over

\* asyncio runs every callback that is ready and fires every timer; a Semaphore
\* serves its waiters in order; the host awaits what it was given.
Fairness ==
  /\ WF_vars(Prepare \/ PlanOperation \/ NextEvent)
  /\ WF_vars(RunStep \/ LayerDone \/ BeginChild)
  /\ WF_vars(HostAwaits \/ Finish \/ Raise)
  /\ WF_vars(Timeout)
  /\ \A l \in 1 .. MaxLayers : SF_vars(l \in Layers /\ (Start(l) \/ Acquire(l) \/ Resolve(l)))

Spec == Init /\ [][Next]_vars /\ Fairness

-----------------------------------------------------------------------------
(* Properties *)

TypeOK ==
  /\ op \in Operations
  /\ phase \in {"prepare", "planning", "executing", "answered", "cancelled"}
  /\ \A l \in Layers :
       /\ layer[l].state \in {"idle", "running", "resumed", "unstarted", "waiting", "holding"} \cup Ended
       /\ layer[l].index \in 1 .. Len(Plan(l)) + 1
       /\ \A s \in DOMAIN layer[l].results : Len(layer[l].results[s]) = Count(l)
       /\ coro[l] \in {"none", "fresh", "open", "closed", "done"}
  /\ loop \in Layers \cup {NULL}
  /\ permits \in 0 .. Permits
  /\ permits + Cardinality({l \in Layers : layer[l].state = "holding"}) = Permits
  /\ Len(answers) <= op.events

\* What step s makes of entry i in a bucket of its own, from the entry's values of
\* the steps it depends on.
Alone(l, i, s) ==
  LET deps == Plan(l)[s].deps
  IN  Execute(Plan(l)[s], [d \in DOMAIN deps |-> <<Column(l, deps[d])[i]>>], 1)[1]

\* Batching is invisible: whatever rows, duplicates, nulls and failures share its
\* bucket, an entry's values are those it has on its own (the contract of
\* Step.execute, run-once steps and their broadcast included).
EntriesAlone ==
  \A l \in Layers : \A i \in 1 .. Count(l) :
    \A s \in DOMAIN layer[l].results : layer[l].results[s][i] = Alone(l, i, s)

\* An operation that is over has returned its permits, has awaited or closed every
\* coroutine its loaders made and has exited its spans, however it ended:
\* answered, timed out or cancelled (await_limited, OwnedAwaitable, await_root).
\* A raise on the way out of planning or of the synchronous path is only held to
\* the permits: it passes the spans by.
NothingLeftOpen ==
  Answered /\ loop = NULL /\ (\A l \in Layers : layer[l].state \in Ended \cup {"idle"}) =>
    /\ permits = Permits
    /\ op.planning = "ok" /\ "raised" \notin ToSet(answers) =>
         /\ spans = {}
         /\ \A l \in Layers : coro[l] \in {"none", "closed", "done"}

CanHang == \E l \in Layers : \E s \in DOMAIN Plan(l) : Plan(l)[s].async /\ Plan(l)[s].outcome = "hang"

\* Every event of an operation is answered, or the operation cancelled, when its
\* loaders answer; with a deadline even when they do not (_with_timeout).
AlwaysAnswers == (op.timeout \/ ~CanHang) => <>Answered

\* concurrency.py: "Close it so a cancelled operation does not leave unawaited
\* resolver/load work."
CancelledLeavesNothing ==
  phase = "cancelled" => \A l \in Layers : coro[l] \notin {"fresh", "open"}
=============================================================================
