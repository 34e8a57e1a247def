------------------------------ MODULE Publisher ------------------------------
(***************************************************************************)
(* incremental.Publisher over the record graph: the async generator that   *)
(* turns completed records into the payloads of one incremental response,  *)
(* the tasks that complete them, and the client that pulls.                *)
(*                                                                         *)
(* One event loop runs all of it.  The publisher gives up control only     *)
(* where it awaits or yields, so `pub` says where it stands:               *)
(*   initial   run_incremental has yet to run                              *)
(*   start     the client has the initial payload and has not pulled       *)
(*   handling  draining the completed queue                                *)
(*   tick      awaiting inside _handle_stream_batch                        *)
(*   yielded   the client holds a payload                                  *)
(*   waiting   awaiting next_completed_batch, its future unresolved        *)
(*   woken     its future resolved                                         *)
(*   finished, closed, crashed, plain    over                              *)
(***************************************************************************)
EXTENDS IncGraph

CONSTANTS
    Responses,      \* the responses to consider
    MaxItems        \* bound: the items of a stream

\* What an operation and its resolvers determine: the records are of distinct
\* kinds, a record's parents come to an end, a group serves a record once, and a
\* stream is captured where its list is completed and nowhere else.
IsResponse(r) ==
    LET captures == r.groups \cup r.streams IN
    /\ r.defers \cap r.streams = {} /\ r.groups \cap (r.defers \cup r.streams) = {}
    /\ NoParent \notin r.defers
    /\ r.parent \in [r.defers -> r.defers \cup {NoParent}] /\ r.depth \in [r.defers -> Nat]
    /\ \A S \in SUBSET r.defers : S # {} => \E d \in S : r.parent[d] \notin S
    /\ r.records \in [r.groups -> Seq(r.defers)]
    /\ \A g \in r.groups : IsInjective(r.records[g])
    /\ r.items \in [r.streams -> 0..MaxItems]
    /\ r.order \in Seq(captures) /\ r.initial \in Seq(captures)
    /\ r.reveals \in [r.groups -> Seq(captures)]
    /\ DOMAIN r.yields = r.streams
    /\ \A s \in r.streams : r.yields[s] \in [1..r.items[s] -> Seq(captures)]
    /\ \A g \in r.groups : \A s \in ToSet(r.reveals[g]) \cap r.streams :
          /\ s \notin ToSet(r.initial)
          /\ \A t \in r.streams : \A i \in 1..r.items[t] : s \notin ToSet(r.yields[t][i])
          /\ \A h \in r.groups : s \in ToSet(r.reveals[h]) => h = g

ASSUME PublisherAssumption ==
    /\ MaxItems \in Nat
    /\ \A r \in Responses : IsResponse(r)

VARIABLES
    graph,      \* the IncGraph
    pub,
    payload,    \* the payload under assembly
    client      \* what the payloads it has seen told the client

vars == <<response, graph, pub, payload, client>>

EmptyPayload == [pending |-> {}, incremental |-> <<>>, completed |-> <<>>]

Ends == {"finished", "closed", "crashed", "plain"}

Init ==
    /\ response \in Responses
    /\ graph = EmptyGraph
    /\ pub = "initial"
    /\ payload = EmptyPayload
    /\ client = [announced |-> {}, completed |-> {}, data |-> <<>>, has_next |-> TRUE]

\* filter_nulled_records and filter_group_children.
Surviving(records) == Among(records, ToSet(records) \ response.nulled)

\* Nothing survives the initial pass: the response is an ordinary one.
RunPlain ==
    /\ pub = "initial"
    /\ Surviving(response.initial) = <<>>
    /\ pub' = "plain"
    /\ UNCHANGED <<response, graph, payload, client>>

\* The ids the nodes hold, and those to_pending gave out between two graphs.
Id(g, node) == <<node, g.ids[node]>>
Fresh(before, after) == {Id(after, n) : n \in {n \in Nodes : after.ids[n] # before.ids[n]}}

\* run_incremental and build_response.
BuildResponse ==
    /\ pub = "initial"
    /\ Surviving(response.initial) # <<>>
    /\ graph' = get_new_root_nodes(graph, Surviving(response.initial))
    /\ client' = [client EXCEPT !.announced = Fresh(graph, graph')]
    /\ pub' = "start"
    /\ UNCHANGED <<response, payload>>

\* The record the data of group g is addressed to when `record` completes: the
\* announced one with the longest path.
_best_id(g, record, ids) ==
    LET announced == {record} \cup {d \in Records(g) : ids[d] > 0}
        longest == {d \in announced : \A e \in announced : response.depth[e] <= response.depth[d]}
    IN IF record \in longest THEN record ELSE Among(response.records[g], longest)[1]

\* complete_deferred_fragment and the payload entries it makes, for one record.
CompleteRecord(state, record) ==
    LET results == state.graph.successful[record]
        Completed(next) ==
            [graph |-> next,
             payload |-> [
                pending |-> state.payload.pending \cup Fresh(state.graph, next),
                incremental |-> state.payload.incremental \o
                    [i \in DOMAIN results |->
                        [to |-> Id(next, _best_id(results[i], record, next.ids)), of |-> results[i], items |-> {}]],
                completed |-> Append(state.payload.completed, Id(next, record))]]
    IN IF Ready(state.graph, record)
       THEN Then(complete_deferred_fragment(state.graph, record), Completed)
       ELSE state

\* The records of the group, one after the other.
CompleteRecords(state, records) ==
    LET after[n \in 0..Len(records)] ==
            IF n = 0 THEN state
            ELSE LET Next_(before) == CompleteRecord(before, records[n]) IN Then(after[n - 1], Next_)
    IN after[Len(records)]

\* Mutant: every record of the group is completed, pending or not.
FailEveryRecord(result) ==
    /\ result.of \in response.groups \cap response.fails
    /\ graph' = [remove_deferred_fragments(graph, Records(result.of)) EXCEPT !.queue = Tail(@)]
    /\ payload' = [payload EXCEPT !.completed = @ \o
            LET gone == response.records[result.of] IN [i \in DOMAIN gone |-> Id(graph, gone[i])]]
    /\ UNCHANGED pub

\* _handle_execution_group of a group that bubbled: every record it serves
\* that is still pending completes with its errors.
HandleFailedGroup(result) ==
    LET broken == {d \in Records(result.of) : d \in graph.root} IN
    /\ result.of \in response.groups \cap response.fails
    /\ graph' = [remove_deferred_fragments(graph, broken) EXCEPT !.queue = Tail(@)]
    /\ payload' = [payload EXCEPT !.completed = @ \o
            LET gone == Among(response.records[result.of], broken)
            IN [i \in DOMAIN gone |-> Id(graph, gone[i])]]
    /\ UNCHANGED pub

\* _handle_execution_group of a group that succeeded.
HandleGroup(result) ==
    LET g == result.of
        children == Surviving(response.reveals[g])
        added == add_completed_group([graph EXCEPT !.queue = Tail(@)], g, children)
        done == CompleteRecords([graph |-> added, payload |-> payload], response.records[g])
    IN
    /\ g \in response.groups \ response.fails
    /\ Topmost(graph, children, Records(g)) = {}
    /\ graph' = done.graph
    /\ payload' = done.payload
    /\ UNCHANGED pub

\* A revealed record climbs past the top: TypeError out of the generator.
HandleGroupRaises(result) ==
    /\ result.of \in response.groups \ response.fails
    /\ Topmost(graph, Surviving(response.reveals[result.of]), Records(result.of)) # {}
    /\ pub' = "crashed"
    /\ UNCHANGED <<graph, payload>>

\* _handle_stream_batch of a batch of items; then `await sleep(0)`.
HandleItems(batch) ==
    LET s == batch.of
        children == FlattenSeq([i \in 1..response.items[s] |->
                                  IF i \in batch.items THEN response.yields[s][i] ELSE <<>>])
        popped == [graph EXCEPT !.queue = Tail(@)]
    IN
    /\ s \in response.streams /\ ~batch.done
    /\ graph' = IF children = <<>> THEN popped ELSE get_new_root_nodes(popped, children)
    /\ payload' = [payload EXCEPT
                     !.pending = @ \cup Fresh(graph, graph'),
                     !.incremental = Append(@, [to |-> Id(graph, s), of |-> s, items |-> batch.items])]
    /\ pub' = "tick"

\* _handle_stream_batch of the terminal batch; closing an iterator that failed
\* is awaited.
HandleStreamEnd(batch) ==
    LET s == batch.of IN
    /\ s \in response.streams /\ batch.done
    /\ graph' = [remove_stream(graph, s) EXCEPT !.queue = Tail(@)]
    /\ payload' = [payload EXCEPT !.completed = Append(@, Id(graph, s))]
    /\ pub' = IF s \in response.fails \cap response.iterator THEN "tick" ELSE pub

\* The generator pops the next completed record.
Handle ==
    /\ pub = "handling"
    /\ graph.queue # <<>>
    /\ LET record == Head(graph.queue) IN
       \/ HandleFailedGroup(record) \/ HandleGroup(record) \/ HandleGroupRaises(record)
       \/ HandleItems(record) \/ HandleStreamEnd(record)
    /\ UNCHANGED <<response, client>>

Tick ==
    /\ pub = "tick"
    /\ pub' = "handling"
    /\ UNCHANGED <<response, graph, payload, client>>

\* The queue is drained and the payload has something to say: it is yielded.
YieldPayload ==
    /\ pub = "handling"
    /\ graph.queue = <<>>
    /\ payload.incremental # <<>> \/ payload.completed # <<>>
    /\ client' = [announced |-> client.announced \cup payload.pending,
                  completed |-> client.completed \cup ToSet(payload.completed),
                  data |-> client.data \o payload.incremental,
                  has_next |-> has_next(graph)]
    /\ payload' = EmptyPayload
    /\ pub' = "yielded"
    /\ UNCHANGED <<response, graph>>

\* The queue is drained and there is nothing to say: wait for the next record.
Await ==
    /\ pub = "handling"
    /\ graph.queue = <<>>
    /\ payload.incremental = <<>> /\ payload.completed = <<>>
    /\ payload' = EmptyPayload
    /\ pub' = "waiting"
    /\ UNCHANGED <<response, graph, client>>

\* The client pulls for the first time: the generator drains what is there.
FirstPull ==
    /\ pub = "start"
    /\ pub' = "handling"
    /\ UNCHANGED <<response, graph, payload, client>>

\* The client pulls again: the generator goes on after its yield, and unless
\* that was the last payload registers a future, without looking at the queue.
Pull ==
    /\ pub = "yielded"
    /\ pub' = IF client.has_next THEN "waiting" ELSE "finished"
    /\ UNCHANGED <<response, graph, payload, client>>

\* The resolved future hands the publisher a batch to drain.
Wake ==
    /\ pub = "woken"
    /\ pub' = "handling"
    /\ UNCHANGED <<response, graph, payload, client>>

\* The client closes the generator, or its pull is cancelled.
Close ==
    /\ pub \in {"start", "yielded", "waiting", "woken", "tick"}
    /\ pub' = "closed"
    /\ UNCHANGED <<response, graph, payload, client>>

\* Tasks run while the publisher awaits, and while the client holds a payload
\* if it does anything asynchronous with it.
TasksMayRun ==
    \/ pub \in {"start", "tick", "waiting", "woken"}
    \/ pub = "yielded" /\ response.consumer = "slow"

\* Mutant: the future is never resolved.
EnqueueSilently(where) == where

\* Resolving the future, if one is registered.
_enqueue(where) == IF where = "waiting" THEN "woken" ELSE where

\* An awaited batch of groups completes.
FinishTask ==
    /\ TasksMayRun
    /\ \E i \in DOMAIN graph.tasks :
         LET batch == graph.tasks[i] IN
         graph' = [graph EXCEPT !.tasks = RemoveAt(@, i),
                                !.queue = @ \o Results(batch)]
    /\ pub' = _enqueue(pub)
    /\ UNCHANGED <<response, payload, client>>

\* What _on_stream_items enqueues when it got items p+1..q, and the end if q
\* is past the last one.
Flushed(s, p, q) ==
    LET got == (p + 1)..(IF q > response.items[s] THEN response.items[s] ELSE q) IN
    (IF got = {} THEN <<>> ELSE <<StreamBatch(s, got, FALSE)>>)
        \o (IF q > response.items[s] THEN <<StreamBatch(s, {}, TRUE)>> ELSE <<>>)

\* The item a pump awaits arrives; it takes it and every item already there,
\* and flushes them before the next await.
Pump(s) ==
    /\ TasksMayRun
    /\ graph.pumps[s] >= 0
    /\ \E q \in (graph.pumps[s] + 1)..(response.items[s] + 1) :
         graph' = [graph EXCEPT !.pumps[s] = IF q > response.items[s] THEN Exhausted ELSE q,
                                !.queue = @ \o Flushed(s, graph.pumps[s], q)]
    /\ pub' = _enqueue(pub)
    /\ UNCHANGED <<response, payload, client>>

Publish ==
    \/ RunPlain \/ BuildResponse \/ Handle \/ Tick \/ YieldPayload \/ Await \/ Wake

Work == FinishTask \/ \E s \in response.streams : Pump(s)

Next == Publish \/ FirstPull \/ Pull \/ Close \/ Work

\* The loop runs what is ready, resolvers and iterators eventually answer, and
\* the client that does not close pulls again.
Spec ==
    /\ Init /\ [][Next]_vars
    /\ WF_vars(Publish) /\ WF_vars(Work) /\ WF_vars(FirstPull \/ Pull)
-----------------------------------------------------------------------------
Pubs == {"initial", "start", "handling", "tick", "yielded", "waiting", "woken"} \cup Ends

Deliverables == response.groups \cup response.streams
Ids == Nodes \X Nat
Entries == [to : Ids, of : Deliverables, items : SUBSET (1..MaxItems)]

Graphs ==
    [root : SUBSET Nodes, ids : [Nodes -> Nat],
     pending : [response.defers -> SUBSET response.groups],
     successful : [response.defers -> Seq(response.groups)],
     children : [response.defers -> SUBSET Nodes],
     runs : Seq(response.groups),
     queue : Seq([of : Deliverables, items : SUBSET (1..MaxItems), done : BOOLEAN]),
     tasks : Seq(Seq(response.groups)),
     pumps : [response.streams -> {NotStarted, Exhausted} \cup 0..MaxItems]]
Payloads == [pending : SUBSET Ids, incremental : Seq(Entries), completed : Seq(Ids)]

\* Every variable holds a value of its type, and no group is left to be started.
TypeOK ==
    /\ graph \in Graphs /\ graph.runs = <<>>
    /\ pub \in Pubs
    /\ payload \in Payloads
    /\ client \in [announced : SUBSET Ids, completed : SUBSET Ids, data : Seq(Entries), has_next : BOOLEAN]

\* The passes of a response: the initial one, <<>>, and one for each streamed item.
Passes(r) == {<<>>} \cup UNION {{<<s, i>> : i \in 1..r.items[s]} : s \in r.streams}

\* home says which pass captures each record: a record belongs to the pass of
\* the one it hangs off, and of the group that reveals it.
IsHome(r, home) ==
    /\ \A d \in r.defers : r.parent[d] # NoParent => home[r.parent[d]] = home[d]
    /\ \A g \in r.groups : \A d \in ToSet(r.records[g]) : home[d] = home[g]
    /\ \A c \in ToSet(r.initial) : home[c] = <<>>
    /\ \A g \in r.groups : \A c \in ToSet(r.reveals[g]) : home[c] = home[g]
    /\ \A s \in r.streams : \A i \in 1..r.items[s] :
          \A c \in ToSet(r.yields[s][i]) : home[c] = <<s, i>>

HomeSpace(r) == [r.defers \cup r.streams \cup r.groups -> Passes(r)]

\* The responses outside the known limits of the code: no fragment spans two
\* passes, and a stream is revealed by a group of one fragment.
Confined(r) ==
    /\ \E home \in HomeSpace(r) : IsHome(r, home)
    /\ \A g \in r.groups : ToSet(r.reveals[g]) \cap r.streams # {} =>
          \A d, e \in ToSet(r.records[g]) : d = e

\* The wire protocol.  A node is announced under one id only, and an id is
\* completed once, and not before it is announced.
IdsWellFormed ==
    LET known == client.announced \cup payload.pending IN
    /\ \A a, b \in known : a[1] = b[1] => a = b
    /\ IsInjective(payload.completed)
    /\ ToSet(payload.completed) \subseteq known \ client.completed

(***************************************************************************)
(* What the client should end up with: the data of every group that serves *)
(* a fragment nothing broke, revealed by something it was itself sent.     *)
(***************************************************************************)
RevealedBy(S) ==
    ToSet(Surviving(response.initial))
      \cup (UNION {ToSet(Surviving(response.reveals[g])) : g \in S \cap response.groups})
      \cup UNION {UNION {ToSet(response.yields[s][i]) : i \in 1..response.items[s]} :
                    s \in S \cap response.streams}

\* Everything that comes to be executed.
Occurring ==
    LET seen[n \in 0..Len(response.order)] ==
            IF n = 0 THEN {} ELSE RevealedBy(seen[n - 1] \ (response.groups \cap response.fails))
    IN seen[Len(response.order)]

\* Neither d nor a fragment it hangs off has a group that bubbled.
Unbroken(d) ==
    \A e \in Lineage(d) : \A g \in Occurring \cap response.groups \cap response.fails : e \notin Records(g)

Expected ==
    LET sent[n \in 0..Len(response.order)] ==
            IF n = 0 THEN {}
            ELSE {r \in RevealedBy(sent[n - 1]) \ (response.groups \cap response.fails) :
                    r \in response.streams \/ \E d \in Records(r) : Unbroken(d)}
    IN sent[Len(response.order)]

\* A response that says it is over has completed every id it announced and
\* delivered, once, every group and every streamed item it owed, and nothing else.
NothingMissing ==
    pub = "finished" =>
        LET data == client.data
            delivered(r) == {i \in DOMAIN data : data[i].of = r}
        IN
        /\ client.completed = client.announced
        /\ {data[i].of : i \in DOMAIN data} =
               {r \in Expected : r \in response.streams => response.items[r] > 0}
        /\ \A g \in Expected \cap response.groups : Cardinality(delivered(g)) = 1
        /\ \A s \in Expected \cap response.streams :
              /\ UNION {data[i].items : i \in delivered(s)} = 1..response.items[s]
              /\ \A i, j \in delivered(s) : i < j =>
                    \A a \in data[i].items, b \in data[j].items : a < b

\* README: "After client reassembly the result is identical."  Data is addressed
\* to an id the client still holds as pending, no fragment is announced when one
\* it hangs off broke, and in the end nothing is missing.
Reassembled ==
    /\ \A i \in DOMAIN payload.incremental :
          payload.incremental[i].to \in (client.announced \cup payload.pending) \ client.completed
    /\ \A d \in response.defers : graph.ids[d] > 0 => \A e \in Lineage(d) \ {d} : Unbroken(e)
    /\ NothingMissing

\* incremental.py: "a nested @defer's pending is released only when its parent
\* fragment completes".  No fragment is announced while one it hangs off is
\* pending.
NestedAfterParent ==
    \A d \in response.defers : graph.ids[d] > 0 => (Lineage(d) \ {d}) \cap graph.root = {}

\* hasNext is FALSE exactly on the payload that leaves nothing pending.
HasNextIsHonest ==
    pub = "yielded" => (client.has_next <=> client.completed # client.announced)

\* A response whose client pulls without awaiting anything else ends.
PromptClientsFinish == response.consumer = "prompt" => <>(pub \in Ends)

\* A response whose client keeps pulling ends.
EveryClientFinishes == <>(pub \in Ends)
=============================================================================
