------------------------------ MODULE IncGraph ------------------------------
(***************************************************************************)
(* incremental.IncGraph: the records of one @defer/@stream response, which *)
(* of them are pending on the client's side (the root nodes), and the      *)
(* completed results waiting for the publisher.                            *)
(*                                                                         *)
(* `response` is what the operation and its resolvers determine; it never  *)
(* changes:                                                                *)
(*   defers, parent, depth   the DeferRecords, the record each one hangs   *)
(*                           off (or NoParent), the length of its path     *)
(*   groups, records, spec   the ExecGroups, the defer records each one    *)
(*                           serves, and the plan it shares with others    *)
(*   streams, items, iterator  the StreamRecs, how many items each yields, *)
(*                           and which of them drain an async iterator     *)
(*   order       groups and streams in the order they are captured, which  *)
(*               is the insertion order of the code's dicts                *)
(*   initial     what the initial pass captures                            *)
(*   reveals     what each group captures when it runs                     *)
(*   yields      what each item of each stream captures                    *)
(*   fails       the groups that bubble and the streams that end in error  *)
(*   nulled      the records whose path a bubble nulled                    *)
(*   slow        the groups that are awaitable                             *)
(*   early       enable_early_execution                                    *)
(*   consumer    "prompt" if it asks for the next payload without awaiting *)
(*               anything else first, otherwise "slow"                     *)
(*                                                                         *)
(* The code's methods run without an await, so each is a function from     *)
(* graph to graph; `runs` is _pending_runs, empty between methods.         *)
(***************************************************************************)
EXTENDS Integers, Sequences, FiniteSets, SequencesExt

CONSTANT NoParent

VARIABLE response

NotStarted == -1
Exhausted == -2

Nodes == response.defers \cup response.streams

EmptyGraph ==
    [root |-> {},
     ids |-> [n \in Nodes |-> 0],    \* how many ids to_pending gave each node
     pending |-> [d \in response.defers |-> {}],
     successful |-> [d \in response.defers |-> <<>>],
     children |-> [d \in response.defers |-> {}],
     runs |-> <<>>,
     queue |-> <<>>,     \* _completed_queue
     tasks |-> <<>>,     \* the batches of groups being awaited
     pumps |-> [s \in response.streams |-> NotStarted]]  \* the item each pump awaits

Records(g) == ToSet(response.records[g])

\* The members of s that are in S, in their order.
Among(s, S) == FlattenSeq([i \in DOMAIN s |-> IF s[i] \in S THEN <<s[i]>> ELSE <<>>])

\* S in insertion order.
Ordered(S) == Among(response.order, S)

\* The nodes that links lead to from a set of them: all but the largest set
\* that no link enters.
Reachable(links, from) ==
    LET Apart(S) == S \cap from = {} /\ \A link \in links : link[2] \in S => link[1] \in S
    IN Nodes \ UNION {S \in SUBSET Nodes : Apart(S)}

\* F(value); TLC evaluates a function's argument once, an operator's at each use.
Then(value, F(_)) == [v \in {value} |-> F(v)][value]

GroupResult(g) == [of |-> g, items |-> {}, done |-> TRUE]
StreamBatch(s, items, done) == [of |-> s, items |-> items, done |-> done]

_completes_root_node(graph, g) == Records(g) \cap graph.root # {}

\* record, its parent, its parent's parent ...
Lineage(record) ==
    Reachable({<<d, response.parent[d]>> : d \in {d \in response.defers : response.parent[d] # NoParent}},
              {record})

\* The records _add_deferred_fragment_node(record) links to their parents: it
\* climbs until it meets a root node.
Climbed(graph, record) ==
    {d \in Lineage(record) : \A e \in Lineage(record) : d \in Lineage(e) => e \notin graph.root}

\* Every record _add_incremental_records climbs over.
Touched(graph, records, parents) ==
    LET groups == ToSet(records) \cap response.groups
        streams == ToSet(records) \cap response.streams
    IN UNION {Climbed(graph, d) :
                d \in (UNION {Records(g) : g \in groups}) \cup (IF streams = {} THEN {} ELSE parents)}

\* Mutant: nested records are promoted with the outermost ones.
TopmostAll(graph, records, parents) == Touched(graph, records, parents)

\* The records that climb past the top: they go to initial_children, and where
\* the caller has none to give (add_completed_group) the code raises TypeError.
Topmost(graph, records, parents) ==
    {d \in Touched(graph, records, parents) : response.parent[d] = NoParent}

_add_incremental_records(graph, records, parents) ==
    LET groups == ToSet(records) \cap response.groups
        streams == ToSet(records) \cap response.streams
        touched == Touched(graph, records, parents)
    IN [graph EXCEPT
          !.children = [d \in response.defers |-> @[d]
                          \cup {e \in touched : response.parent[e] = d}
                          \cup IF d \in parents THEN streams ELSE {}],
          !.pending = [d \in response.defers |-> @[d] \cup {g \in groups : d \in Records(g)}],
          !.runs = @ \o Among(records, {g \in groups : _completes_root_node(graph, g)})]

\* Mutant: a record without a group hides the records below it.
ShallowRootNodes(graph, maybe_empty) ==
    {node \in maybe_empty : node \in response.streams \/ graph.pending[node] # {}}

\* What _promote_non_empty_to_root makes root: it descends through the defer
\* records that have no pending group.
NewRootNodes(graph, maybe_empty) ==
    LET empty == {d \in response.defers : graph.pending[d] = {}}
        links == UNION {{<<d, node>> : node \in graph.children[d]} : d \in empty}
    IN Reachable(links, maybe_empty) \ empty

\* Each promoted record starts the groups no root node has started already,
\* each promoted stream its pump; to_pending then gives them their ids.  A stream
\* promoted again would get a second pump, which shares the producer's queue with
\* the first; a response that is Confined promotes each of its streams once.
_promote_non_empty_to_root(graph, maybe_empty) ==
    LET new == NewRootNodes(graph, maybe_empty)
        groups == UNION {graph.pending[d] : d \in new \cap response.defers}
    IN [graph EXCEPT
          !.root = @ \cup new,
          !.ids = [n \in Nodes |-> IF n \in new THEN @[n] + 1 ELSE @[n]],
          !.runs = @ \o Ordered({g \in groups : ~_completes_root_node(graph, g)}),
          !.pumps = [s \in response.streams |-> IF s \in new /\ @[s] = NotStarted THEN 0 ELSE @[s]]]

\* Groups with one plan run as one batch, in the order their plans come up; a
\* group executed early runs alone.
Batches(runs) ==
    IF response.early THEN [i \in DOMAIN runs |-> <<runs[i]>>]
    ELSE LET mates(i) == {g \in ToSet(runs) : response.spec[g] = response.spec[runs[i]]}
             leads == Among([i \in DOMAIN runs |-> i],
                            {i \in DOMAIN runs : \A j \in 1..(i - 1) : runs[j] \notin mates(i)})
         IN [i \in DOMAIN leads |-> Among(runs, mates(leads[i]))]

Results(batch) == [i \in DOMAIN batch |-> GroupResult(batch[i])]

\* An awaitable batch becomes a task, any other is completed on the spot.
_flush_runs(graph) ==
    LET awaitable(batches) == {batch \in ToSet(batches) : ToSet(batch) \cap response.slow # {}}
        Started(batches) ==
            [graph EXCEPT
               !.runs = <<>>,
               !.tasks = @ \o Among(batches, awaitable(batches)),
               !.queue = @ \o FlattenSeq([i \in DOMAIN batches |->
                                 IF batches[i] \in awaitable(batches) THEN <<>> ELSE Results(batches[i])])]
    IN Then(Batches(graph.runs), Started)

get_new_root_nodes(graph, records) ==
    LET initial_children == Topmost(graph, records, {}) \cup (ToSet(records) \cap response.streams)
        Promoted(added) == _promote_non_empty_to_root(added, initial_children)
    IN Then(Then(_add_incremental_records(graph, records, {}), Promoted), _flush_runs)

\* The bookkeeping of a group that succeeded.  A group that ran twice has two
\* results, unless both are the one it was given by early execution.
Succeeded(graph, g) ==
    LET again(d) == response.early /\ g \in ToSet(graph.successful[d]) IN
    [graph EXCEPT
       !.pending = [d \in response.defers |-> @[d] \ {g}],
       !.successful = [d \in response.defers |->
                         IF d \in Records(g) /\ ~again(d) THEN Append(@[d], g) ELSE @[d]]]

\* Mutant: the groups a result reveals for a root record are not flushed.
AddWithoutFlush(graph, g, children) ==
    _add_incremental_records(Succeeded(graph, g), children, Records(g))

add_completed_group(graph, g, children) ==
    LET Added(after) == _add_incremental_records(after, children, Records(g))
    IN Then(Then(Succeeded(graph, g), Added), _flush_runs)

Ready(graph, record) == record \in graph.root /\ graph.pending[record] = {}

complete_deferred_fragment(graph, record) ==
    LET results == ToSet(graph.successful[record])
        removed == [graph EXCEPT
            !.root = @ \ {record},
            !.successful = [d \in response.defers |-> Among(@[d], response.groups \ results)]]
    IN Then(_promote_non_empty_to_root(removed, graph.children[record]), _flush_runs)

\* Mutant: only running tasks count as something to come.
HasRunningTasks(graph) == graph.tasks # <<>>

has_next(graph) == graph.root # {}

remove_deferred_fragments(graph, records) == [graph EXCEPT !.root = @ \ records]
remove_stream(graph, stream) == [graph EXCEPT !.root = @ \ {stream}]
=============================================================================
