# A verification project for grafast-py

grafast-py executes GraphQL operations the Grafast way: an operation is planned
once into a tree of object plans over a DAG of steps, and each object plan is
run over a whole *bucket* of parent objects. This directory holds TLA+ models
of the parts of `src/src/grafast_py` whose correctness depends on interleaving,
ordering, batching or partial failure, the TLC configurations that check them,
and proofs that TLAPS checks.

    tlc -workers 2 -config MCPlanCache.cfg MCPlanCache
    tlapm PlanCacheProofs.tla      # likewise every other *Proofs.tla

`PROJECT.json` maps every definition to the lines it models and lists runs,
mutants, findings, hazards and theorems.

## Inventory

| Component | State | Operations | What makes it correct |
|---|---|---|---|
| request constraints (`constraints.py`, `schema.FieldArgs`) | the constraint list of the plan being built | every plan-time read: `eval`, `eval_is`, `eval_has`, `get`, iteration, `source` | what a read observed is re-checkable from what it recorded |
| plan cache (`cache.py`, `plan.lookup_cached_plan`, `store_cached_plan`) | LRU of keys, a bucket of variants per key | `get`, `put`, `clear`, from many threads | a hit is what fresh planning would give; the caps hold; variants do not thrash |
| planning (`plan.plan_operation`, `plan_object`) | the plan being built | one per field | a function of the request |
| optimizer (`dag.py`, `plan.finalize_plan`, hoisting, `pg/inline.py`) | the step DAG, its reverse index, the layers | register, optimize, deduplicate, shake, attach, hoist, populate | the optimized plan computes what the plain one does, and no write is lost |
| built-in steps (`core_steps.py`, `steps.py`) | none | one `execute` each, over a bucket | an entry's value does not depend on its neighbours |
| executor (`execute.py`, `completion.py`, `step_model.py`, `concurrency.py`) | per bucket: outputs and bubbles; the error list; the permits | run steps, complete a field, await, write back | data as if resolved object by object; errors once; no deadlock on permits |
| entry (`entry.py`, `context.py`) | spans, the timeout, the event of a subscription | prepare, plan, run, time out, be cancelled | every event is answered; an end leaves nothing behind |
| incremental graph (`incremental.IncGraph`) | records, which are root, completed queue | add, promote, complete, remove | a nested fragment follows its parent; nothing is lost |
| incremental publisher (`incremental.Publisher`, producers) | the generator's position, ids, the payload | build, handle, yield, await | the payloads add up to the result, and the response ends |
| pg executor (`pg/executor.py`, `pg/engine.py`) | one shared transaction per request, its lock | open, run, commit, close | one connection per request, always returned; one snapshot; writes committed |
| pg cursors and pages (`pg/cursor.py`, `pg/ordering.py`, `pg/pagination.py`, `pg/connection.py`, `pg/union.py`, `pg/steps.py`) | none | encode, decode, seek, window, count, scatter | a page holds exactly the rows after the cursor, of its own parent |
| resources, codecs, schema helpers, configuration | declarations | | |

How they interact: an entry point plans the operation (through the cache if
`cache_plans` is on), finalizes the plan, and calls the executor on the root
bucket. The executor runs a layer's steps, calls the completers, which call it
back for the child bucket. With `@defer`/`@stream` the executor also hands
records to the incremental graph, whose runners call the executor again later;
the publisher drains the graph's queue into payloads. pg steps are steps like
any other, whose `execute` awaits statements on the request's executor. Threads
share only the plan cache and the plans in it; everything else is one event
loop per request.

What is hard: the cache validates outside its lock and plans between two
critical sections; the optimizer merges, replaces and moves steps that a tree
and an index also refer to; the executor, the publisher and the shared
transaction hold state across awaits; fragments share groups, and one may fail
while another waits; permits are taken at every depth of one query, and a
deadline may strike at any await; one statement pages many parents at once.

## Modules

| Module | Models |
|---|---|
| `Constraints` | plan-time reads, what they observe and record, and the re-check |
| `Planning` | `plan_operation` as a function of the request |
| `PlanCache` | the cache under threads; `MCPlanCache` instantiates it |
| `PlanService` | abstract: an uncached planner, which `PlanCache` implements |
| `PlanCacheProofs` | theorems about `PlanCache`: types, caps, transparency; variants, eviction, the refinement of `PlanService` |
| `StepDag` | `dag.Plan` and the passes over it, the pg inliner's rewrite, what a step computes |
| `Finalize` | the planner's layers and `finalize_plan` pass by pass, then the run of the layers; `MCFinalize` |
| `BuiltinSteps` | the `execute` of every built-in step, as a function from columns to a column |
| `BatchingProofs` | theorems about `BuiltinSteps`: what a step makes of a column |
| `Operation` | an operation from entry to answer, over `BuiltinSteps`; `MCOperation` |
| `OperationProofs` | theorems about `Operation` |
| `Execution` | the bucket executor and the completers; `MCExecution` |
| `ExecutionProofs` | theorems about `Execution` |
| `SequenceFacts` | lemmas about sequences and `FlattenSeq` that the proof modules share |
| `IncGraph` | the methods of `IncGraph`, each a function from graph to graph |
| `Publisher` | the generator, the tasks and the client over `IncGraph`; `MCPublisher` |
| `PublisherProofs` | theorems about `Publisher` |
| `PgRequest` | the statements of one request on the pg executors; `MCPgRequest` |
| `PgSnapshots` | abstract: which database version a request's reads see, which `PgRequest` implements |
| `PgRequestProofs` | theorems about `PgRequest`, and the refinement of `PgSnapshots` |
| `Keyset` | orders, cursors and the three-valued seek predicate |
| `Paging` | clients walking connections, unions and slices over `Keyset`; `MCPaging` |
| `PagingProofs` | theorems about `Keyset`, and the cursors, totals, pages and walks of `Paging` |

**Constraints, Planning, PlanCache.** A request is a schema, a document, a
configuration and its *facts* (variables and context entries). Values keep
their Python type, because `values_equal` pins it and `==` does not. A document
is a set of fields, each with an `@include` variable, its argument variables
and the reads its plan resolver makes. `FreshPlan(r)` is all that plan
resolvers could have branched on. In `PlanCache` each critical section of
`get`, `put` and `clear` is an action; `validate` runs on the snapshot, and
planning happens between the `get` and the `put`. A candidate is named by the
request it was built for; its identity, which the hoist compares with `is`, by
the thread and call that built it. The hit and miss counters are left out.

**StepDag, Finalize.** A plan is the list of registered steps with the sets
`live` and `dead` and the reverse index `dependents`; a step has a class, an
argument (what deduplication compares), dependencies, and for a pg select the
children it absorbed and the reasons that forbid inlining. `Finalize` builds a
plan field by field from templates (what a plan resolver returns), in every
order and nesting the bounds allow, and then takes one action per pass of
`finalize_plan` (per iteration, for the two fixpoint loops). A step's value is a
term over the values of its dependencies, so two columns are equal exactly when
they were computed alike; an item layer's parent step stands for the item, not
the list. `naive` records the terms of the plan as built; `Execute` runs the
finalized layers with the hoist bridge, or root field by root field for a
mutation.

**BuiltinSteps, Operation.** A value is tagged (none, int, list, object, global
id, carried exception); user callbacks are representatives that reject what is
not of their type. `Operation` runs a root layer and its children: `run_steps`
one step at a time, the run-once steps of `_bucket_unariness`, the spans, the
hand-over to `OwnedAwaitable` at the first await, `gather`, the semaphore, and
around them preparation, planning, `wait_for`, host cancellation and the events
of a subscription. `layer[l].state` is where a layer's coroutine stands:
*unstarted* (made, its task has not taken a step), *waiting* for a permit,
*holding* one, *resumed*, or ended.

**Execution.** `op` fixes the plan (buckets, fields, nullability, lists) and
what each resolver returns and when. `bucket[b]` is the `FieldCompletion` of a
bucket with its rows; `field[f]` says where a field's completion stands; `waits`
and `held` are the awaitables before and after they got their permit. Code
between two awaits is one thread of nested calls, kept in `stack`; the event
loop gets its turn when `stack` is empty. A coroutine starts only when
everything around it has been awaited, which is how a bucket whose rows all
bubbled abandons its pending fields. Abstracted: each field has one step, in
selection order; a raising resolver raises one of the types the code catches;
lists do not nest. The reference, `Synchronous`, resolves object by object.

**IncGraph, Publisher.** `response` fixes what the operation captures and how its
resolvers behave: the fragments and their parents, the groups and the fragments
they serve, the streams and their items, what each reveals, which fail, which
are awaitable, early execution, and whether the client is *prompt* (pulls again
without awaiting anything else) or *slow*. `graph` is the `IncGraph`, `pub`
says where the generator stands, `payload` is the payload under assembly,
`client` is what the client has been told. The publisher loses control only at
its awaits and yields, so tasks run exactly there.

**PgRequest, PgSnapshots.** A task is one pg step: a read is one statement, a
write one committing statement per entry. `pc[t]` names the await a task is at;
what the code does between two awaits is one action. `held`, `txn` and `lock`
are the fields of `PgRequestContext`. The database is external: a transaction's
snapshot is the number of commits when its first statement ran, a failed
statement aborts its transaction, closing rolls back. A fault or the deadline
may strike at any await; a commit that is interrupted may or may not have
landed. In `PgSnapshots` an isolated request reads one version until one of its
writes commits; the refinement maps its `view` to the held connection's
snapshot.

**Keyset, Paging.** SQL predicates have three truth values, ordered so that OR
is a maximum and AND a minimum. `Keyset` has the predicate on one side and the
database's ORDER BY on the other; `Paging` has the statements as sets and
sequences of rows, the page built from them, and a client that follows it while
rows come and go. The expected page (`ExpectedNodes`) is said without a window
or a seek predicate: the rows of the entry's own key beyond the cursor, sorted.
Cursor text is a record; a value that becomes text can only be compared through
its column's cast, as in the code.

## Runs

| Run | Result | Shows |
|---|---|---|
| `plan_cache` | pass | what is served is what fresh planning would give (`ServedIsFresh`); caps, LRU and variants (`CapsHold`, `EvictsOldest`, `OneVariantPerRequest`, `StoredStaysServed`); `PlanCache` implements `PlanService`, safety and liveness |
| `plan_cache_placeholder` | violation | an explicit null in a required, placeholdered argument is served from a warm plan (`plan.py:299`) |
| `finalize` | pass | the executor computes for every field the value of the plan as built (`SameAnswer`); every write runs, on its own input (`WritesHappen`); the reverse index is the inverse of the live edges in every state (`IndexIsInverse`); nothing refers to a removed step (`NothingDangles`) |
| `finalize_collision` | violation | a constant inside a list's items is merged with the equal constant that feeds the list (`dag.py:340`) |
| `operation` | pass | batching, coalescing and run-once steps are invisible (`EntriesAlone`); an operation that is over left no permit, span or coroutine behind (`NothingLeftOpen`); every event is answered, with a deadline even if a loader hangs (`AlwaysAnswers`) |
| `operation_early_cancel` | violation | a cancellation before the gathered tasks' first step leaves loader coroutines unawaited and spans open (`step_model.py:240`) |
| `execution` | pass | the data is the synchronous path's (`DataIsSynchronous`); nulls and errors explain each other (`ErrorsExplainNulls`); only what lies under a null is abandoned; one permit suffices (`Responds`) |
| `publisher` | pass | payloads obey the wire protocol (`IdsWellFormed`, `NestedAfterParent`, `HasNextIsHonest`), can be placed and add up to the result (`Reassembled`), and end (`PromptClientsFinish`) |
| `publisher_slow_client` | violation | a wake-up is lost between a yield and the next await (`incremental.py:529`) |
| `pg_request` | pass | racing first statements open one transaction (`OneTransaction`); no statement uses a connection taken away under it (`NeverStale`); acknowledged writes, and only those or writes in doubt, are committed (`WritesPersist`); every statement has the request's settings and the pool none (`SettingsAreLocal`); connections come back (`ConnectionsReturn`); `PgSnapshots` is implemented |
| `pg_request_failed_open` | violation | an open that fails half way leaves its connection out, and the next statement takes another (`pg/executor.py:291`) |
| `paging` | pass | every entry gets the page its key has alone (`EntriesIndependent`); the flags and totals are honest (`MoreIsHonest`, `TotalsAgree`); a walk misses and repeats no stable row (`SeesStableRows`, `InOrder`); a cursor is accepted only under its ordering (`CursorsOfTheirOrder`) |

Every passing property has a mutant in `PROJECT.json`: the definition it changes,
the plausible bug it puts in, and TLC's violation under the run's own
configuration.

### Known limits of the code

Met while modelling, and either left out of the passing runs' operations or
allowed for by their properties:

- `cache.py:356`: `put` replaces by `==`, and `True == 1`, while a lookup pins
  the type; requests whose observed values are 1 and True replan each other. No
  run has both values.
- `incremental.py:278`: a group shared with a failed fragment reveals a group of
  that fragment and the generator raises `TypeError`. `publisher` contains it
  (`BrokenSharer`, the state `crashed`).
- `incremental.py:252`: a nested fragment whose shared group completed before
  the other sharer failed is never announced. Not in `publisher`.
- `incremental.py:280`: a `@defer` inside a `@stream` inside a `@defer` announces
  finished streams again. Not in `publisher`.
- `incremental.py:266`: two overlapping fragments whose shared group reveals a
  stream are both its parents. Each promotes it when it completes, so it is
  announced twice, and its first id is never completed. Not in `publisher`
  (`Confined` excludes it).
- `incremental.py:593`: the data of a group is addressed to the sharer with the
  longest path that ever had an id, also when that one has failed and its id is
  completed. Not in `publisher`: the sharers of `BrokenSharer` have equal paths.
- `execute.py:957`: a nullable field that fails while its non-null sibling is
  awaited reports an error the synchronous path does not. `execution` compares
  data, and asks of errors only that they and the nulls explain each other.
- `plan.py:1230`: two aliased object fields share one deduplicated boundary, and
  an orphaned write attached to it runs in each of their buckets. `WritesHappen`
  bounds the runs by the buckets that share it.
- `pagination.py:116`: a per-parent slice whose offset is a variable the request
  left out compares with NULL and returns nothing. `paging` contains it
  (`ExpectedNodes` says so).
- `entry.py:145`: a planning error passes the exits of two spans; a synchronous
  raise passes the operation's. `NothingLeftOpen` holds these paths to their
  permits.
- `pg/executor.py:167`: a rollback that fails in `aclose` keeps the connection.
  `ConnectionsReturn` excuses exactly the connections in `lost`.

### Bounds

- `plan_cache`: two threads, three calls in all (`MaxCalls`), caps of two keys
  and two variants, seven requests over four documents that between them use
  every kind of read. Three calls reach both caps, a race of two misses, and a
  candidate that is evicted or cleared between snapshot and hoist.
- `finalize`: three families of plan resolvers (values and lists; writes,
  absorbing and never-settling steps; pg selects), three modes (nothing on;
  inlining and hoisting; the same for a mutation), at most three fields
  (`MaxFields`) in three nested or sibling layers (`MaxLayers`), three
  optimization loops (`MaxLoops`). Three fields are a boundary, a
  field below it and a competitor for either to merge with; the templates build
  up to three steps each.
- `operation`: every bucket of at most three of four kinds of rows for two plans
  that use every step between them; a root and three children with two loads
  each on two permits; loaders that answer, raise, answer short and hang; with
  and without a deadline; two events. Four layers on two permits leave a task
  waiting whenever two hold.
- `execution`: a list of two objects with a non-null leaf and a nested object,
  one permit (the tightest), every subset of three awaitable leaves and two
  timings with the list or an item awaited, four sets of failures, two sets of
  nullability, with and without batched loads.
- `publisher`: seven shapes with at most two fragments deep or three wide, at
  most four groups, two streams of at most two items (`MaxItems`); every subset
  of the groups may be awaitable, the ones marked `mayFail` fail, early
  execution is on and off, both clients occur.
- `pg_request`: a query of two siblings with a child each, and a mutation of a
  two-entry write, two layers below it and a second write; two pooled
  connections, so that a leak exhausts the pool; two faults (`MaxFaults`), of
  any kind, and two foreign commits (`MaxCommits`), enough for a commit between
  any two reads and a fault during the recovery from another.
- `paging`: seven rows of two parents and two member types, with ties, nulls, an
  id shared by both members and a row without a parent; pages of one, two or
  all; walks of four requests (`MaxRequests`) and one insert or delete
  (`MaxChanges`) at any point; five orders forwards and backwards, three
  spellings of one order, composite keys, filters, counts, aggregates.

`CHECK_DEADLOCK FALSE` is set where responses, walks and a bounded number of calls
end; the other models end in a stuttering action (`Done`, `Closed`, `Over`), so
that any other stop is a deadlock.

### Fairness

- `PlanCache`: a thread that entered `plan_operation` is scheduled until it
  returns; nothing in it waits but the lock, which is never held across a call.
  Clients need not send requests.
- `Publisher`: the event loop runs what is ready, resolvers and iterators
  eventually answer (without that no response ends), and a client that has not
  closed pulls again.
- `Execution`: the same of the event loop and the awaitables. Which waiting
  task gets a free permit is left open, a superset of asyncio's queue.
- `Operation`: the event loop runs every ready callback and fires every timer
  (weak); a layer that can again and again get a permit gets one (strong),
  because `asyncio.Semaphore` serves its waiters in order. A loader that hangs
  is not fair; the deadline is what ends its operation. Host cancellation is
  never assumed.
- `PgRequest`: an await that is over is resumed, an exhausted pool gives up
  (`pool_timeout`), a cancellation reaches every await of the operation, the
  block's exit runs. Faults and foreign commits are never assumed.

## Proofs

Every theorem is for all values of the constants: any threads, operations, pools,
orders and limits that satisfy the named assumptions.

### The plan cache

`PlanCacheProofs`:

- `TypeCorrect`: `Spec => []TypeOK`;
- `CapsAreHeld`: `Spec => []CapsHold`;
- `CacheIsTransparent`: if every document is `Pinned`, `Spec => []ServedIsFresh`.

`Pinned` says of every field with a plan resolver that it makes no `bound` read
(taking an argument's source and its value, which records nothing and raises
if the variable is absent), and that it reads by value every argument whose
coercion may fail. A classic resolver's field is pinned by the code itself. The
hypothesis is needed: `plan_cache_placeholder` runs a document that is not
`Pinned` and violates the conclusion.

`TypeOK` and `ServedIsFresh` are not inductive. The invariant `Inv` adds to
`TypeOK` that a thread at work has a request (`ThreadsOK`), and that every
candidate in a bucket, in a snapshot or about to be stored was built for a
request of the key it is filed under, by planning that did not raise and
allowed caching (`Sound`, `SoundCache`). The lemma `ReadPinned` says of one read:
if its recorded constraints match other facts, the other facts are observed
alike. `MatchServes` lifts it
to plans: a candidate that validates for a request is what fresh planning would
build (directives pin which fields are planned; a classic field and a failed
coercion pin all argument values). `ServedNext` is then one case for `Accept`
and one for `Store`. `CapsNext` rests on what `move_to_end`, dropping a prefix
and trimming do to a list of distinct keys (`ToEndProperties`,
`SuffixProperties`, `BucketProperties`).

The second half is about the variants of a bucket:

- `VariantsAreExclusive`: with `Pinned` documents, no request is matched by two
  variants of a bucket. Two that match one request record the same constraints
  (`TwinsAreEqual`), and `put` keeps one candidate per constraint set (`NoTwins`).
- `NoVariantIsLost`: a plan that was stored is still served until it is evicted or
  the cache is cleared. It also needs `Unconfused`: no two values of an input are
  `==` and differ in type (`True` and 1), because `put` compares with `==` and a
  lookup does not (`cache.py:356` under the known limits).
- `OldestGoFirst`: what a step evicts is what was used longest ago.
- `CacheImplementsService`: every step of `PlanCache` is a step of `PlanService` or
  stutters. Its fairness is left to the run.

### A request on its database

`PgRequestProofs` proves `TypeCorrect`, `TransactionIsOne`, `NothingIsStale`,
`WritesAreKept` and `SettingsStayLocal` for the invariants of the run,
`NothingLeaks` (when the block is closed its lock is free and only a dropped
connection is out, the safety half of `ConnectionsReturn`) and
`SnapshotsImplemented` (every step maps to a step of `PgSnapshots` or a stutter).

They rest on one invariant, `IInv`. What is in whose hands: a task holds a
connection exactly between connect and close (`Hands`), the pool's are as new
(`Pooled`), without the shared executor nobody shares (`Separate`), and with it
the lock is held exactly while the transaction is opened and everything else out
is dropped, held or with the lock's holder (`Shared`). In what order: a task
starts when those before it ended (`Ordered`), and an opening transaction has no
snapshot (`Fresh`). How it ends: the block is left after its tasks (`Block`). The
settings hold wherever a statement may still run (`Scoping`), which is subtle
because a commit clears them; what a transaction has written is the statement
whose commit is under way (`Ledger`), without which `WritesPersist` is not
inductive. `WritesAreSerial` is assumed of the operations, since a mutation's root
fields run one after another; `OperationsAssumption` says a task record is well
formed and lists every task before it.

### The payloads of a response

`PublisherProofs`, for every set of responses that satisfies `IsResponse`:

- `TypeCorrect`: `Spec => []TypeOK`, which includes that no method leaves a group
  in `_pending_runs`;
- `OneIdEach`, `HasNext`, `ParentsFirst`: if every response is `Confined`,
  `IdsWellFormed`, `HasNextIsHonest` and `NestedAfterParent`.

`Confined` leaves out two of the known limits above, under which a node is
announced twice: a fragment belongs to one *pass* (the initial one, or that of one
streamed item; `incremental.py:280`), and a group that reveals a stream serves one
fragment (`incremental.py:266`). `home` names the pass of every record.
`MCPublisher` evaluates the hypothesis on the responses of the run.

`graph` is a value and every method maps one graph to another, so the invariant of
the graph, `Sound`, is a predicate with a graph as its argument, and each method has
a lemma that says what it makes of a sound one: wiring records (`AddKeeps`),
promoting (`PromoteKeeps`), a wave of groups (`FlushKeeps`), a group that succeeds
(`CompletedGroupKeeps`), a fragment that completes (`FragmentCompletes`), nodes that
leave (`RemovalKeeps`). `Sound(g, live)` also has the set `live` of
passes the client has been told of. It says that an id is given once and to every
root node (`Numbered`); that nothing a pending fragment encloses has an id, and what
is enclosed hangs below it (`Nested`, `Linked`); that groups, streams, pumps and
queued results stand where their fragments and items do (`Fits`, `Streaming`); and
that the nodes of a pass that is not live have not been touched (`Waiting`), so that
what `get_new_root_nodes` promotes has no id. `Told` compares the graph with the
client: the ids it holds, with those of the payload under assembly, are those of the
announced nodes, and the completed ones are of those that left the root. `Flow` says
what the payload is at each point of the generator. The climb of
`_add_deferred_fragment_node` and the descent of `_promote_non_empty_to_root` are
least sets closed under links (`Reachable`), reasoned about with the closed sets
that bound them; the loop over the fragments of a group is a recursive function
whose value is found by a least counterexample (`RunExists`, `RecordsComplete`).

### Batching and operations

`BatchingProofs` proves `ExecuteIsOwn`: for every step of `BuiltinSteps`, every
bucket and every entry, `execute` over the bucket makes of the entry what it makes
of it in a bucket of its own. The arguments are about positions: the slot of an
entry holds its own key (`SlotsHoldKeys`), a rank in a set of positions finds the
position again (`InOrderOfRank`), and a regrouped flat bucket gives every parent
its items back (`EachExecute`). What flattening yields is reached without
induction, from a least counterexample.

`OperationProofs` proves `TypeCorrect`, `NothingIsLeftOpen` and
`BatchingIsInvisible`. The invariant is that free and held permits add up
(`Counted`), that what became of a loader's coroutine follows from where its layer
stands (`Coroutines`), that one layer at a time has the event loop and children
begin after the root (`Threaded`), that nothing is under way before planning or
after an answer (`Phased`, which has to say that behind a raised answer some layer
raised), when a layer can have been dropped (`Dropped`) and which spans are open
(`Spanned`). For the values it adds that a layer in flight awaits the step it is at
(`Awaiting`) and that a column that ran once holds one value (`Broadcast`).
`NothingIsLeftOpen` has the hypothesis `~EarlyCancel`; the run
`operation_early_cancel` shows that it is needed. `OperationsAssumption` says that a
step depends on earlier steps of its layer, as the planner builds them.

### Cursors and pages

`PagingProofs` proves `SeekIsExact`: over any order, `keyset_where` applied to what
`encode_keyset_cursor` wrote is true of a row exactly when ORDER BY puts the row
beyond the cursor's, forwards and backwards, NULLs and directions included. The
nested predicate is compared with the closed form of its recursion
(`NestingExists`, `NestingIsUnique`), one column at a time (`ColumnAfterIsLater`);
`ReverseTurnsAround` says what reading backwards does to an order.
`AcceptedCursorsAreOfTheirOrder` proves `CursorsOfTheirOrder`: the client's cursor
carries the digest of the order it was minted under, and equal digests order rows
alike (`DigestFixesOrder`). `TotalsAreOfTheirKeys` proves `TotalsAgree`: a key's
count and aggregates, taken from statements grouped by key, are those of the
entry's own rows (`CountsAreRight`, `AggregatesAreRight`), the answer without a
statement included (`NoKeyNoRows`); `Counting` carries them from the statements to
the result.

The second half compares the page statements with `ExpectedNodes`:

- `PagesAreOfTheirKeys`: `Spec => []EntriesIndependent`, for every kind of field;
- `FlagsAreHonest`: `Spec => []MoreIsHonest`;
- `WalksAreInOrder` and `WalksAreComplete`: `InOrder` and `SeesStableRows` for
  connections and unions.

The argument goes from the order to the walk. ORDER BY, ties by heap position, is a
strict total order of a set of rows (`ComesIsStrict`, from `RowsCompare` and
`PrecedesIsTransitive`); the sequence it returns lists that order and is the only
one that does (`OrderByLists`, `OnlyOrderByLists`), so whatever is shown to list
the same rows in the same order is equal to it: a part of it (`OrderBySlice`), or
its reverse where no two rows tie (`OrderByReversed`), which the primary key and
the type tag at the end of every order see to (`OrdersAreTotal`). Every page
statement returns the rows whose places in their partitions the request asks for,
each partition in order (`Windowed`; `StatementsAreWindows`); what `scatter` makes
of them for an entry is a slice of the entry's own rows (`GroupsAreSlices`), and
cutting and turning it gives the expected page, its length the flag (`RelayPage`,
`SelectPage`). The invariant `Paged` adds to the properties that the rows in hand are
such a window (`Queried`), that slices are natural (`Slicing`), and that the client's
cursor is that of a row (`Marked`), without which the seek predicate says nothing.

`Walked`, the invariant of a walk, says that what the client was given rises in
the order of its bookmark, that the cursor is that of the last row given
(`Followed`), and that a row which stayed in the table is given or lies past that
row (`Remaining`). A page goes on from there (`PageGoesOn`, `PageIsNearest`), also
when the next request writes the same order in other words.

The assumptions are the schema's and the constructors': a table has a primary key,
so a row is identified by its id and member type (`RowsAreIdentified`); a term's
placement of NULLs is one the constructor accepts and its column exists
(`OrdersAreTerms`, from `OrderTerm.__post_init__`); keys have a component for every
matched column (`ShapesMatchColumns`); sizes and offsets are natural
(`SlicesAreNatural`); only connections aggregate; cursor text is never `None`
(`CursorsAreText`).

### Buckets and their columns

`ExecutionProofs`, for every tree of buckets, every nullability, every list and
outcome, every timing and any number of permits:

- `TypeCorrect`: `Spec => []TypeOK`;
- `Synchronised`: `Spec => []DataIsSynchronous`: the data of the response is
  what `Synchronous` makes of the root object, one object after the other and
  awaiting nothing;
- `AbandonsTheDead`: `Spec => []OnlyTheDeadAreAbandoned`: once the response is
  made no permit is held, and every await nobody took the result of lies below a
  null of the data;
- `ExplainsTheNulls`: `Spec => []ErrorsExplainNulls`: no error is reported twice,
  every one lies at or below a null, and every outermost null that no resolver
  returned has an error at or below it.

The final data says nothing of how an object looks while it is half written, so
the invariant `IInv` speaks of every row of every bucket (`Right`): a row that
bubbled is null on the synchronous path too; a live row has the synchronous value
of every field that is done, and is among the rows of every field whose completion
is under way. The rest is what that needs. `Progress`: which fields a walk has
passed, and that a bucket is done only with nothing pending or nobody left to write
to. `Below`: a child bucket is entered once, with the objects its field's values
are. `Completing`, `Shaped`, `Stacked`: the live positions, rows and call stack
hold nothing twice. `Queued`: an await belongs to a field or step that still wants
it (`Asked`), so a value that comes late finds its field where it left it.

The argument follows the data down and up again. A column of values or list items
holds no path twice (`ColumnIs`), the k-th list's items are where `CollectList`
looks for them (`ColumnAt`), and a child bucket's rows are the objects of the column
(`TargetsAre`), so that what comes back can be given to its origin (`OriginIs`).
`RowCompleted` says that a completed row is the synchronous value of its field, up
to which of several bubbles it is (`Alike`): the paths race for the first error, and
the data does not show it. `Scattered` writes the rows, `Filling` restores `Right`.
`Synchronous` descends along the fields, so its value at an object is what
`ObjectValue` says of it (`SynchronousIs`, from `FurtherDown`); a bucket that is
assembled has exactly these values (`Assembled`). One lemma per action
(`...Keeps`) ends the proof; `DescendKeeps`, which takes up a child bucket, and
`SuspendKeeps`, which leaves a field to the event loop, are the long ones.

What is abandoned needs a second invariant, `Trail`, proved beside `IInv`: a bucket
that is under way is the child its field waits for, every row lies under a row of
the bucket around it (`Entered`), a held permit's bucket is paused with every bucket
around it (`Afoot`), and there is no response before the root bucket is done. A
bucket resumes only when nothing of its own and nothing below it is awaited, so a
held permit's bucket stays afoot; every bucket has a way up to the root (`RootIn`),
so once the root is done no permit is held (`NothingHeld`). For the data, `AtIs`
follows a path step by step from the root: each row of a bucket is either `Shown`,
with all that its bucket made of it, or `Hidden` below a null (`Seen`); when the
response is there, the rows of a bucket that is not done or has fields pending are
all hidden, since they bubbled or hang from an object that is hidden itself
(`Abandoned`), and an await lies below a row of its bucket (`AwaitedUnder`,
`WaitsForNobody`).

The errors need a third, `Blame`, which looks at them before they are reported. A
reported error, and one a bubble carries, was raised by a field that is done
(`Traced`). A row that bubbled holds the error it bubbled with, which has risen to it
from below through fields that are done, and which nobody has reported as long as
the results of its bucket are still to be used (`Holds`, `Risen`, `Open`); so rows
of two such buckets do not hold one error (`Once`), and it is appended once, by the
field that absorbs it. A field that is done has accounted for
its nulls: each one that no resolver returned has an error at or below it
(`Explained`), and its nested objects are complete (`Finished`). What a completer
makes of a row is blamed on the places under it (`ColumnBlames`, `ListBlames`,
`RowBlames`), `ScatterBlame` carries this into the bucket, and at the response the
walk down from the root meets each outermost null in a field that is done
(`AllExplained`) and finds a null at or above each error.

`IsOperation`, the assumption on operations, is what `plan_object` builds: each
field in one bucket, a bucket for the objects of one field, no cycles, and an
outcome for every value that comes to be completed, and for no other path, since a
path that nobody completes has no place in the data.

### Assumptions, and what is only model-checked

The assumptions on constants are those named `ASSUME` in the modules: inputs have
distinct names, values are determined by type and content, caps and permits are
positive, operations and orders are well formed as the code's constructors make
them. TLC evaluates them in every run.

Only model-checked: every liveness property (`ConnectionsReturn`,
`AlwaysAnswers`, `PromptClientsFinish`, `Responds`) and the fairness of the
refinement of `PlanService`, which are out of the prover's reach; how the slices of
a select add up (`InOrder` and `SeesStableRows` for tables at rest: with a choice of
orders or a starting offset they would be false, the run's selects have neither),
what `Publisher` delivers (`Reassembled`
speaks of the results still held for each fragment, and needs that a group is
captured once, which `IsResponse` does not say); and everything about `Finalize`. Recursive functions can be
reasoned about, from a least counterexample, where their definition descends along
a sequence or a tree of bounded depth; the traversal of a rewritten DAG has not
been.

## Not modelled

- Resources, codecs, schema helpers, configuration and the graphql-core adapters
  (`pg/resource.py`, `pg/codecs.py`, `pg/from_sqlalchemy.py`, `config.py`,
  `_compat.py`): declarations and conversions without state.
- SQL text: a statement is modelled by the rows it selects. The LATERAL text of
  the inliner and the JSON of its nested rows are not modelled, so `SameAnswer`
  takes it that a nested column holds what the child select would return.
- In `Execution`: abstract types, `is_type_of` guards, stream heads.
- In `Publisher`: closing abandoned iterators, tasks that outlive a closed
  generator, exceptions of types the code does not catch.
- In `Paging`: orders declared unique (`order_is_unique=True`, which leaves out the
  tie-breaker), an update of an order column in the middle of a walk, the page flag
  for the direction that is not walked (the code answers whether a cursor was
  given), and negative sizes and offsets.
- In `Operation`: completion (that is `Execution`), and the incremental entry
  after its first result (that is `Publisher`).
- Logging and counters.

## Plan

1. Done: the plan cache with its abstract specification and proofs, the
   incremental graph and publisher, the bucket executor.
2. Done: the step DAG and `finalize_plan`, the built-in steps and whole
   operations with deadlines and cancellation, the pg request with its abstract
   specification, cursors and paging.
3. Done: theorems about the plan cache and its refinement, the pg request and its
   refinement, the built-in steps, operations, cursors, pages and walks, the
   ids of an incremental response, the data and the errors of the bucket executor
   and what it abandons. Left to prove, in order: `Reassembled`,
   with an account of the results held for each fragment; `IndexIsInverse` and
   `NothingDangles` in `Finalize`, which need that the rewrites keep the DAG
   acyclic.
4. Abstract types, guards and stream heads in `Execution`; tasks after close
   and uncaught exceptions in `Publisher`.
