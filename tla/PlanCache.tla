----------------------------- MODULE PlanCache -----------------------------
(***************************************************************************)
(* The cross-request plan cache (cache.PlanCache) under the threads that   *)
(* share it, each running plan.plan_operation with cache_plans on.         *)
(*                                                                         *)
(* The lock makes each critical section of get, put and clear one action;  *)
(* what happens between two of them is interleaved freely: get validates   *)
(* its snapshot of the bucket outside the lock, and planning runs between  *)
(* the get that missed and the put that stores.                            *)
(***************************************************************************)
EXTENDS Planning, Sequences, SequencesExt

CONSTANTS
    Threads,
    NoRequest, NoPlan,
    MaxEntries,     \* PlanCache.max_entries
    MaxVariants,    \* MAX_VARIANTS_PER_KEY
    MaxCalls        \* bound: how many requests the clients send in all

ASSUME CapsAssumption ==
    /\ MaxEntries \in Nat \ {0}
    /\ MaxVariants \in Nat \ {0}
    /\ MaxCalls \in Nat

ASSUME SentinelAssumption ==
    /\ NoRequest \notin Requests
    /\ \A r \in Requests : FreshPlan(r) # NoPlan

VARIABLES
    order,      \* the keys of _entries, least recently used first
    buckets,    \* [Keys -> Seq(candidate)], freshest first
    evictions,  \* the counter; hits and misses are observability only and left out
    pc,         \* where each thread stands
    asked,      \* the request a thread serves
    snapshot,   \* get's `candidates`
    candidate,  \* the CachedPlan a thread built and has yet to store
    answer,     \* the plan a thread's request runs with
    calls,      \* requests sent so far
    stored      \* history: the requests whose plans were put since the last clear

cacheVars == <<order, buckets, evictions>>
threadVars == <<pc, asked, snapshot, candidate, answer>>
vars == <<cacheVars, threadVars, calls, stored>>

\* CachedPlan, by the request it was planned for: a candidate is immutable, so
\* its schema, its plan and its constraints are functions of that request.
\* `id` is the object's identity, which get's hoist compares: the thread that
\* built it and the number of requests sent by then.
Candidates == [id : Threads \X (1..MaxCalls), built : Requests]

NoCandidate == [id |-> <<>>, built |-> NoRequest]

\* Mutant: the CachedPlan itself is handed out for its plan.
WholeCandidate(c) == c

plan(c) == FreshPlan(c.built)
constraints(c) == AllConstraints(c.built)

\* The process state a fresh PlanCache and idle threads make.
Init ==
    /\ order = <<>>
    /\ buckets = [k \in Keys |-> <<>>]
    /\ evictions = 0
    /\ pc = [t \in Threads |-> "idle"]
    /\ asked = [t \in Threads |-> NoRequest]
    /\ snapshot = [t \in Threads |-> <<>>]
    /\ candidate = [t \in Threads |-> NoCandidate]
    /\ answer = [t \in Threads |-> NoPlan]
    /\ calls = 0
    /\ stored = {}

Key(t) == compute_cache_key(asked[t])

\* Positions of s that hold x.
At(s, x) == {i \in DOMAIN s : s[i] = x}

Cached(k) == At(order, k) # {}

\* OrderedDict.move_to_end, and inserting a key that is not there.
ToEnd(s, k) ==
    IF At(s, k) = {} THEN Append(s, k)
    ELSE Append(RemoveAt(s, CHOOSE i \in At(s, k) : TRUE), k)

\* lookup_cached_plan's validate.
validate(c, r) ==
    c.built.schema = r.schema /\ constraints_match(constraints(c), r.facts)

\* The first position of the candidates cs that validates for r, or 0.
FirstValid(cs, r) ==
    LET ok == {i \in DOMAIN cs : validate(cs[i], r)} IN
    IF ok = {} THEN 0 ELSE CHOOSE i \in ok : \A j \in ok : i <= j

Begin(t) ==
    /\ pc[t] = "idle"
    /\ calls < MaxCalls
    /\ \E r \in Requests : asked' = [asked EXCEPT ![t] = r]
    /\ pc' = [pc EXCEPT ![t] = "lookup"]
    /\ calls' = calls + 1
    /\ UNCHANGED <<cacheVars, snapshot, candidate, answer, stored>>

\* get's first critical section, when the key is absent ...
LookupAbsent(t) ==
    /\ pc[t] = "lookup"
    /\ ~Cached(Key(t))
    /\ pc' = [pc EXCEPT ![t] = "plan"]
    /\ UNCHANGED <<cacheVars, asked, snapshot, candidate, answer, calls, stored>>

\* ... and when it is there: touch it and copy its bucket.
LookupPresent(t) ==
    /\ pc[t] = "lookup"
    /\ Cached(Key(t))
    /\ order' = ToEnd(order, Key(t))
    /\ snapshot' = [snapshot EXCEPT ![t] = buckets[Key(t)]]
    /\ pc' = [pc EXCEPT ![t] = "validate"]
    /\ UNCHANGED <<buckets, evictions, asked, candidate, answer,
                   calls, stored>>

\* Move the accepted candidate to the front of its bucket, if it is still there.
Hoisted(bucket, c) ==
    IF At(bucket, c) = {} THEN bucket
    ELSE <<c>> \o RemoveAt(bucket, CHOOSE i \in At(bucket, c) : TRUE)

\* A candidate of the snapshot validated: get's second critical section.
Accept(t) ==
    LET i == FirstValid(snapshot[t], asked[t]) IN
    /\ pc[t] = "validate"
    /\ i # 0
    /\ buckets' = [buckets EXCEPT ![Key(t)] = Hoisted(@, snapshot[t][i])]
    /\ answer' = [answer EXCEPT ![t] = plan(snapshot[t][i])]
    /\ snapshot' = [snapshot EXCEPT ![t] = <<>>]
    /\ pc' = [pc EXCEPT ![t] = "done"]
    /\ UNCHANGED <<order, evictions, asked, candidate, calls, stored>>

\* Mutant: a miss looks the key up again before it plans.
RejectRetries(t) ==
    /\ pc[t] = "validate"
    /\ FirstValid(snapshot[t], asked[t]) = 0
    /\ snapshot' = [snapshot EXCEPT ![t] = <<>>]
    /\ pc' = [pc EXCEPT ![t] = "lookup"]
    /\ UNCHANGED <<cacheVars, asked, candidate, answer, calls, stored>>

\* None did: get's other second critical section.
Reject(t) ==
    /\ pc[t] = "validate"
    /\ FirstValid(snapshot[t], asked[t]) = 0
    /\ snapshot' = [snapshot EXCEPT ![t] = <<>>]
    /\ pc' = [pc EXCEPT ![t] = "plan"]
    /\ UNCHANGED <<cacheVars, asked, candidate, answer, calls, stored>>

\* Planning raises, or builds a plan that must not be cached.
PlanOnly(t) ==
    /\ pc[t] = "plan"
    /\ FreshPlan(asked[t]).raised \/ ~Cacheable(asked[t])
    /\ answer' = [answer EXCEPT ![t] = FreshPlan(asked[t])]
    /\ pc' = [pc EXCEPT ![t] = "done"]
    /\ UNCHANGED <<cacheVars, asked, snapshot, candidate, calls, stored>>

\* Planning builds a cacheable plan.
PlanFresh(t) ==
    /\ pc[t] = "plan"
    /\ ~FreshPlan(asked[t]).raised /\ Cacheable(asked[t])
    /\ candidate' = [candidate EXCEPT ![t] = [id |-> <<t, calls>>, built |-> asked[t]]]
    /\ pc' = [pc EXCEPT ![t] = "store"]
    /\ UNCHANGED <<cacheVars, asked, snapshot, answer, calls, stored>>

\* Mutant: put never replaces an equal candidate.
ReplacesNothing(bucket, c) == 0

\* Mutant: put replaces whatever candidate the same schema has.
ReplacesBySchema(bucket, c) ==
    LET same == {i \in DOMAIN bucket : bucket[i].built.schema = c.built.schema}
    IN IF same = {} THEN 0 ELSE CHOOSE i \in same : \A j \in same : i <= j

\* The position of the first candidate of the bucket that put replaces, or 0.
Replaced(bucket, c) ==
    LET same == {i \in DOMAIN bucket :
                    /\ bucket[i].built.schema = c.built.schema
                    /\ SameConstraints(constraints(bucket[i]), constraints(c))}
    IN IF same = {} THEN 0 ELSE CHOOSE i \in same : \A j \in same : i <= j

Prepended(bucket, c) ==
    LET i == Replaced(bucket, c) IN
    <<c>> \o (IF i = 0 THEN bucket ELSE RemoveAt(bucket, i))

\* `del bucket[MAX_VARIANTS_PER_KEY:]`
Trimmed(bucket) ==
    IF Len(bucket) > MaxVariants THEN SubSeq(bucket, 1, MaxVariants) ELSE bucket

\* Mutant: the entry cap is one too high.
OverflowOffByOne(s) == IF Len(s) > MaxEntries + 1 THEN Len(s) - MaxEntries - 1 ELSE 0

\* The keys popitem(last=False) drops from s.
Overflow(s) == IF Len(s) > MaxEntries THEN Len(s) - MaxEntries ELSE 0

\* Mutant: popitem() without last=False, run before the key is inserted.
PutEvictingNewest(k, c) ==
    LET bucket == Prepended(buckets[k], c)
        touched == ToEnd(order, k)
        dropped == Overflow(touched)
        kept == Append(SubSeq(touched, 1, Len(touched) - 1 - dropped), k)
    IN
    /\ order' = kept
    /\ buckets' = [q \in Keys |->
                     IF q = k THEN Trimmed(bucket)
                     ELSE IF At(kept, q) = {} THEN <<>> ELSE buckets[q]]
    /\ evictions' = evictions + dropped + (IF Len(bucket) > MaxVariants THEN 1 ELSE 0)

Put(k, c) ==
    LET bucket == Prepended(buckets[k], c)
        touched == ToEnd(order, k)
        dropped == Overflow(touched)
        kept == SubSeq(touched, dropped + 1, Len(touched))
    IN
    /\ order' = kept
    /\ buckets' = [q \in Keys |->
                     IF q = k THEN Trimmed(bucket)
                     ELSE IF At(kept, q) = {} THEN <<>> ELSE buckets[q]]
    /\ evictions' = evictions + dropped + (IF Len(bucket) > MaxVariants THEN 1 ELSE 0)

\* put, and the request goes on with the plan it built.
Store(t) ==
    /\ pc[t] = "store"
    /\ Put(Key(t), candidate[t])
    /\ stored' = stored \cup {asked[t]}
    /\ answer' = [answer EXCEPT ![t] = plan(candidate[t])]
    /\ candidate' = [candidate EXCEPT ![t] = NoCandidate]
    /\ pc' = [pc EXCEPT ![t] = "done"]
    /\ UNCHANGED <<asked, snapshot, calls>>

\* The request is over.
Leave(t) ==
    /\ pc[t] = "done"
    /\ pc' = [pc EXCEPT ![t] = "idle"]
    /\ asked' = [asked EXCEPT ![t] = NoRequest]
    /\ answer' = [answer EXCEPT ![t] = NoPlan]
    /\ UNCHANGED <<cacheVars, snapshot, candidate, calls, stored>>

\* The host empties the cache whenever it likes.
clear ==
    /\ order # <<>>
    /\ order' = <<>>
    /\ buckets' = [k \in Keys |-> <<>>]
    /\ stored' = {}
    /\ UNCHANGED <<evictions, threadVars, calls>>

Step(t) ==
    \/ LookupAbsent(t) \/ LookupPresent(t) \/ Accept(t) \/ Reject(t)
    \/ PlanOnly(t) \/ PlanFresh(t) \/ Store(t)

Next == clear \/ \E t \in Threads : Begin(t) \/ Step(t) \/ Leave(t)

\* A thread that entered plan_operation is scheduled until it returns.
Spec == Init /\ [][Next]_vars /\ \A t \in Threads : WF_vars(Step(t))
-----------------------------------------------------------------------------
Pcs == {"idle", "lookup", "validate", "plan", "store", "done"}

\* Every variable holds a value of its type.
TypeOK ==
    /\ order \in Seq(Keys)
    /\ buckets \in [Keys -> Seq(Candidates)]
    /\ evictions \in Nat
    /\ pc \in [Threads -> Pcs]
    /\ asked \in [Threads -> Requests \cup {NoRequest}]
    /\ snapshot \in [Threads -> Seq(Candidates)]
    /\ candidate \in [Threads -> Candidates \cup {NoCandidate}]
    /\ answer \in [Threads -> {FreshPlan(r) : r \in Requests} \cup {NoPlan}]
    /\ calls \in 0..MaxCalls
    /\ stored \subseteq Requests

\* The cache never grows past its two caps, and the LRU list and the buckets
\* name the same keys, each once: what put's trimming and popitem leave behind.
CapsHold ==
    /\ Len(order) <= MaxEntries
    /\ \A i, j \in DOMAIN order : order[i] = order[j] => i = j
    /\ \A k \in Keys : Cached(k) <=> buckets[k] # <<>>
    /\ \A k \in Keys : Len(buckets[k]) <= MaxVariants

\* README: "It is a pure optimization: a hit changes only whether planning
\* re-runs".  Whatever plan a request runs with, freshly built or another
\* thread's, is the plan planning this very request would have produced, and
\* planning that would have raised has raised.
ServedIsFresh ==
    \A t \in Threads : pc[t] = "done" => answer[t] = FreshPlan(asked[t])

\* cache.py, put: "equal constraints over one schema = one behaviour".  A
\* bucket never offers two variants that validate for one request, so which
\* variant is served does not depend on the order the bucket happens to be in.
OneVariantPerRequest ==
    \A r \in Requests : \A i, j \in DOMAIN buckets[compute_cache_key(r)] :
        LET b == buckets[compute_cache_key(r)] IN
        validate(b[i], r) /\ validate(b[j], r) => i = j

\* lookup_cached_plan: "the fresh plan joins the bucket as a new variant (no
\* thrash between variants)".  While nothing has been evicted, every request
\* whose plan was ever put still finds a variant that serves it.
StoredStaysServed ==
    evictions = 0 =>
        \A r \in stored : \E i \in DOMAIN buckets[compute_cache_key(r)] :
            validate(buckets[compute_cache_key(r)][i], r)

\* A step that drops whole keys drops the least recently used ones, never the
\* key it just stored or looked up: what survives keeps its order.
EvictsOldest ==
    [][\A k \in Keys : Cached(k) /\ At(order', k) = {} /\ order' # <<>> =>
         \A i \in DOMAIN order : \A j \in At(order, k) : i < j => At(order', order[i]) = {}
                \/ \E t \in Threads : pc[t] = "store" /\ order[i] = Key(t)]_vars

\* The cache implements the uncached planner.
Service == INSTANCE PlanService
ImplementsPlanService == Service!ServiceSpec
=============================================================================
