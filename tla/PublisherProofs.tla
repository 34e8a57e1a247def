--------------------------- MODULE PublisherProofs ---------------------------
(***************************************************************************)
(* Theorems about Publisher, for every set of responses, whatever their    *)
(* fragments, groups and streams, and every order in which the groups and  *)
(* the items end: the states are typed; a node gets one id and an id       *)
(* completes once; hasNext is honest; a fragment waits for those around it.*)
(*                                                                         *)
(* The graph is a value that methods map to another, so the invariant is a *)
(* predicate of a graph, Sound, and each method has a lemma that says what *)
(* it makes of a sound one.  `live` is the set of passes, the initial one  *)
(* and those of streamed items, that the client has been told of: what the *)
(* others captured is not in the graph yet, which is why the nodes that    *)
(* get_new_root_nodes promotes have no id.                                 *)
(***************************************************************************)
EXTENDS Publisher, SequenceFacts, FiniteSetTheorems

-----------------------------------------------------------------------------
(* The responses the theorems are about, and the inductive invariant.      *)

HomeOf(r) == CHOOSE home \in HomeSpace(r) : IsHome(r, home)
Home == HomeOf(response)

Names(S) == {<<n, 1>> : n \in S}
Announced(g) == {n \in Nodes : g.ids[n] = 1}

\* The fragment whose group reveals the stream.
Owns(d, s) == \E h \in response.groups : s \in ToSet(response.reveals[h]) /\ d \in Records(h)

\* The items a pump has taken.
Got(g, s) ==
    IF g.pumps[s] = NotStarted THEN {} ELSE IF g.pumps[s] = Exhausted THEN 1..response.items[s] ELSE 1..g.pumps[s]

\* A node has one id at most, and the nodes that are pending have one.
Numbered(g) ==
    /\ g \in Graphs
    /\ g.ids \in [Nodes -> {0, 1}] /\ g.root \subseteq Announced(g)

\* Nothing a fragment encloses has an id while the fragment is pending.
Nested(g) ==
    /\ \A d \in response.defers : g.ids[d] = 1 => (Lineage(d) \ {d}) \cap g.root = {}
    /\ \A d \in response.defers, s \in response.streams :
          g.ids[s] = 1 /\ Owns(d, s) => Lineage(d) \cap g.root = {}

\* What hangs off a record: its groups, the records below it, its streams.
Linked(g) ==
    \A d \in response.defers :
      /\ \A h \in g.pending[d] : d \in Records(h)
      /\ \A n \in g.children[d] : \/ n \in response.defers /\ response.parent[n] = d
                                  \/ n \in response.streams /\ Owns(d, n)

\* Only the passes in live have left anything in the graph.
Fits(g, live) ==
    /\ \A n \in Nodes : g.ids[n] = 1 => Home[n] \in live
    /\ \A d \in response.defers : Home[d] \notin live => g.pending[d] = {} /\ g.children[d] = {}
    /\ \A h \in ToSet(g.runs) : Home[h] \in live
    /\ \A i \in DOMAIN g.tasks : \A h \in ToSet(g.tasks[i]) : Home[h] \in live

\* A stream with an id has a pump, and is pending until the pump has ended.
Streaming(g, live) ==
    \A s \in response.streams :
      /\ g.ids[s] = 0 <=> g.pumps[s] = NotStarted
      /\ g.pumps[s] >= 0 => s \in g.root
      /\ \A i \in 1..response.items[s] : <<s, i>> \in live => i \in Got(g, s)

\* A batch in the queue is of a pending stream and its items are new.
Waiting(queue, g, live) ==
    /\ \A p \in DOMAIN queue : queue[p].of \in response.groups => Home[queue[p].of] \in live
    /\ \A p \in DOMAIN queue : queue[p].of \in response.streams =>
         /\ queue[p].of \in g.root
         /\ queue[p].items \subseteq Got(g, queue[p].of)
         /\ \A i \in queue[p].items : <<queue[p].of, i>> \notin live
         /\ queue[p].done => g.pumps[queue[p].of] = Exhausted
         /\ \A q \in DOMAIN queue : p < q /\ queue[q].of = queue[p].of =>
               ~queue[p].done /\ queue[p].items \cap queue[q].items = {}

Sound(g, live) ==
    Numbered(g) /\ Nested(g) /\ Linked(g) /\ Fits(g, live) /\ Streaming(g, live) /\ Waiting(g.queue, g, live)

\* What the client has been told, and what the payload in the making adds.
Told(g, p, c) ==
    /\ c.announced \cup p.pending = Names(Announced(g))
    /\ c.completed \cup ToSet(p.completed) = Names(Announced(g) \ g.root)
    /\ c.completed \cap ToSet(p.completed) = {}
    /\ IsInjective(p.completed)

\* The passes whose records the client knows, or is about to.
Live(p, c) == {<<>>} \cup UNION {{<<e.of, i>> : i \in e.items} : e \in ToSet(c.data) \cup ToSet(p.incremental)}

Flow ==
    /\ pub = "initial" => /\ graph = EmptyGraph /\ payload = EmptyPayload
                          /\ client.announced = {} /\ client.completed = {} /\ client.data = <<>>
    /\ pub \in {"start", "yielded", "waiting", "woken"} => payload = EmptyPayload
    /\ payload.incremental = <<>> /\ payload.completed = <<>> => payload.pending = {}
    /\ pub = "yielded" => (client.has_next <=> graph.root # {})

IInv ==
    /\ response \in Responses /\ TypeOK
    /\ Sound(graph, Live(payload, client))
    /\ Told(graph, payload, client)
    /\ Flow

-----------------------------------------------------------------------------
(* Sequences put together, and sublists.                                   *)

\* The members of a sequence that are in a set.
LEMMA AmongIs ==
    ASSUME NEW S, NEW s \in Seq(S), NEW T
    PROVE  /\ Among(s, T) \in Seq(S) /\ Among(s, T) \in Seq(ToSet(s) \cap T)
           /\ ToSet(Among(s, T)) = ToSet(s) \cap T
           /\ IsInjective(s) => IsInjective(Among(s, T))
  <1> DEFINE R == ToSet(s) \cap T
             seqs == [i \in DOMAIN s |-> IF s[i] \in T THEN <<s[i]>> ELSE <<>>]
  <1>1. DOMAIN s = 1..Len(s) /\ Len(s) \in Nat /\ R \subseteq S /\ \A i \in DOMAIN s : s[i] \in ToSet(s)
    BY DEF ToSet
  <1>2. /\ \A i \in DOMAIN s : s[i] \in T => seqs[i] = <<s[i]>> /\ s[i] \in R
        /\ \A i \in DOMAIN s : s[i] \notin T => seqs[i] = <<>>
    BY <1>1
  <1>3. ASSUME NEW i \in DOMAIN s
        PROVE  /\ s[i] \in T => ToSet(seqs[i]) = {s[i]}
               /\ s[i] \notin T => ToSet(seqs[i]) = {}
               /\ IsInjective(seqs[i])
    <2>1. CASE s[i] \in T
      <3>1. seqs[i] = <<s[i]>>
        BY <1>2, <2>1
      <3>2. ToSet(<<s[i]>>) = {s[i]} /\ IsInjective(<<s[i]>>)
        BY DEF ToSet, IsInjective
      <3> HIDE DEF seqs
      <3> QED
        BY <2>1, <3>1, <3>2
    <2>2. CASE s[i] \notin T
      <3>1. seqs[i] = <<>>
        BY <1>2, <2>2
      <3>2. ToSet(<<>>) = {} /\ IsInjective(<<>>)
        BY DEF ToSet, IsInjective
      <3> HIDE DEF seqs
      <3> QED
        BY <2>2, <3>1, <3>2
    <2> QED
      BY <2>1, <2>2
  <1>5. seqs \in Seq(Seq(R)) /\ DOMAIN seqs = DOMAIN s
    <2>1. ASSUME NEW i \in 1..Len(s) PROVE seqs[i] \in Seq(R)
      <3> HIDE DEF seqs, R
      <3>1. <<>> \in Seq(R) /\ \A x \in R : <<x>> \in Seq(R)
        OBVIOUS
      <3> QED
        BY <1>1, <1>2, <3>1
    <2>2. seqs \in [1..Len(s) -> Seq(R)]
      BY <1>1, <2>1
    <2> QED
      BY <1>1, <2>2
  <1>6. Among(s, T) = FlattenSeq(seqs)
    BY DEF Among
  <1> HIDE DEF seqs
  <1>7. \A x, i : i \in DOMAIN s => (x \in ToSet(seqs[i]) <=> x = s[i] /\ x \in T)
    BY <1>3
  <1>8. ToSet(FlattenSeq(seqs)) = R
    <2>1. \A x : x \in R <=> \E i \in DOMAIN s : x = s[i] /\ x \in T
      BY DEF ToSet
    <2>2. \A x : x \in ToSet(FlattenSeq(seqs)) <=> x \in R
      BY <1>5, <1>7, <2>1, Flattened
    <2> QED
      BY <2>2
  <1>9. ASSUME IsInjective(s) PROVE IsInjective(FlattenSeq(seqs))
    <2>1. \A i \in DOMAIN seqs : IsInjective(seqs[i])
      BY <1>3, <1>5
    <2>2. \A i, j \in DOMAIN seqs : i # j => ToSet(seqs[i]) \cap ToSet(seqs[j]) = {}
      BY <1>5, <1>7, <1>9 DEF IsInjective
    <2> QED
      BY <1>5, <2>1, <2>2, Flattened
  <1>10. FlattenSeq(seqs) \in Seq(R)
    BY <1>5, Flattened
  <1>11. FlattenSeq(seqs) \in Seq(S)
    BY <1>1, <1>10
  <1> QED
    BY <1>6, <1>8, <1>9, <1>10, <1>11
-----------------------------------------------------------------------------
(* The records and what they hang off.                                     *)

\* What the proofs use of a response, in terms of the model's operators.
LEMMA ResponseFacts ==
    ASSUME response \in Responses
    PROVE  /\ MaxItems \in Nat
           /\ response.defers \cap response.streams = {} /\ response.groups \cap Nodes = {}
           /\ NoParent \notin response.defers
           /\ \A d \in response.defers : response.parent[d] \in response.defers \cup {NoParent}
           /\ \A d \in response.defers : response.depth[d] \in Nat
           /\ \A S \in SUBSET response.defers : S # {} => \E d \in S : response.parent[d] \notin S
           /\ \A g \in response.groups : /\ response.records[g] \in Seq(response.defers)
                                         /\ IsInjective(response.records[g])
                                         /\ response.reveals[g] \in Seq(Deliverables)
           /\ response.order \in Seq(Deliverables) /\ response.initial \in Seq(Deliverables)
           /\ \A s \in response.streams : /\ response.items[s] \in 0..MaxItems
                                          /\ response.yields[s] \in [1..response.items[s] -> Seq(Deliverables)]
  <1>1. IsResponse(response) /\ MaxItems \in Nat
    BY PublisherAssumption
  <1> QED
    BY <1>1 DEF IsResponse, Nodes, Deliverables

\* A stream a group reveals is captured by no pass and by no other group.
LEMMA RevealedOnce ==
    ASSUME response \in Responses, NEW g \in response.groups,
           NEW s \in ToSet(response.reveals[g]) \cap response.streams
    PROVE  /\ s \notin ToSet(response.initial)
           /\ \A t \in response.streams : \A i \in 1..response.items[t] : s \notin ToSet(response.yields[t][i])
           /\ \A h \in response.groups : s \in ToSet(response.reveals[h]) => h = g
  <1>1. IsResponse(response)
    BY PublisherAssumption
  <1> QED
    BY <1>1 DEF IsResponse

\* What links lead to is closed under them, and nothing smaller is.
LEMMA ReachableIs ==
    ASSUME NEW links, NEW from \in SUBSET Nodes, links \subseteq Nodes \X Nodes
    PROVE  /\ Reachable(links, from) \subseteq Nodes
           /\ from \subseteq Reachable(links, from)
           /\ \A a, b : a \in Reachable(links, from) /\ <<a, b>> \in links => b \in Reachable(links, from)
           /\ \A good : /\ from \subseteq good
                        /\ \A a \in Reachable(links, from), b \in Nodes :
                              a \in good /\ <<a, b>> \in links => b \in good
                        => Reachable(links, from) \subseteq good
  <1> DEFINE R == Reachable(links, from)
             Apart(S) == S \cap from = {} /\ \A link \in links : link[2] \in S => link[1] \in S
  <1>1. \A n : n \in R <=> n \in Nodes /\ \A S \in SUBSET Nodes : Apart(S) => n \notin S
    BY DEF Reachable
  <1> HIDE DEF R
  <1>2. R \subseteq Nodes /\ from \subseteq R
    BY <1>1
  <1>3. ASSUME NEW a, NEW b, a \in R, <<a, b>> \in links PROVE b \in R
    <2>1. b \in Nodes /\ \A S : Apart(S) /\ b \in S => a \in S
      BY <1>3
    <2> HIDE DEF Apart
    <2> QED
      BY <1>1, <1>3, <2>1
  <1>4. ASSUME NEW good, from \subseteq good,
               \A a \in R, b \in Nodes : a \in good /\ <<a, b>> \in links => b \in good
        PROVE  R \subseteq good
    <2> DEFINE S == {n \in Nodes : n \notin R \/ n \notin good}
    <2>1. ASSUME NEW link \in links, link[2] \in S PROVE link[1] \in S
      <3>1. PICK a \in Nodes, b \in Nodes : link = <<a, b>>
        OBVIOUS
      <3>2. CASE a \in R /\ a \in good
        BY <1>3, <1>4, <2>1, <3>1, <3>2
      <3>3. CASE a \notin R \/ a \notin good
        BY <3>1, <3>3
      <3> QED
        BY <3>2, <3>3
    <2>2. S \in SUBSET Nodes /\ Apart(S)
      BY <1>2, <1>4, <2>1
    <2> HIDE DEF Apart
    <2> QED
      BY <1>1, <1>2, <2>2
  <1> QED
    BY <1>2, <1>3, <1>4 DEF R

\* A record, the one it hangs off, and so on to the top.
LEMMA LineageIs ==
    ASSUME response \in Responses, NEW d \in response.defers
    PROVE  /\ Lineage(d) \subseteq response.defers
           /\ d \in Lineage(d)
           /\ \A e \in Lineage(d) : response.parent[e] # NoParent => response.parent[e] \in Lineage(d)
           /\ \A good : /\ d \in good
                        /\ \A e \in Lineage(d) :
                              e \in good /\ response.parent[e] # NoParent => response.parent[e] \in good
                        => Lineage(d) \subseteq good
  <1> DEFINE D == {e \in response.defers : response.parent[e] # NoParent}
             links == {<<e, response.parent[e]>> : e \in D}
  <1>1. \A e \in D : e \in response.defers /\ response.parent[e] \in response.defers
    BY ResponseFacts
  <1>2. links \subseteq Nodes \X Nodes /\ {d} \in SUBSET Nodes
    BY <1>1 DEF Nodes
  <1>3. Lineage(d) = Reachable(links, {d})
    BY DEF Lineage
  <1>4. \A a, b : <<a, b>> \in links <=> a \in D /\ b = response.parent[a]
    OBVIOUS
  <1> HIDE DEF links
  <1>5. Lineage(d) \subseteq response.defers
    <2>1. \A a, b : a \in response.defers /\ <<a, b>> \in links => b \in response.defers
      BY <1>1, <1>4
    <2>2. {d} \subseteq response.defers
      OBVIOUS
    <2> QED
      BY <1>2, <1>3, <2>1, <2>2, ReachableIs
  <1>6. d \in Lineage(d)
    BY <1>2, <1>3, ReachableIs
  <1>7. ASSUME NEW e \in Lineage(d), response.parent[e] # NoParent PROVE response.parent[e] \in Lineage(d)
    <2>1. <<e, response.parent[e]>> \in links
      BY <1>4, <1>5, <1>7
    <2> QED
      BY <1>2, <1>3, <2>1, ReachableIs
  <1>8. ASSUME NEW good, d \in good,
               \A e \in Lineage(d) : e \in good /\ response.parent[e] # NoParent => response.parent[e] \in good
        PROVE  Lineage(d) \subseteq good
    <2>1. \A a \in Lineage(d), b \in Nodes : a \in good /\ <<a, b>> \in links => b \in good
      BY <1>4, <1>8
    <2>2. {d} \subseteq good
      BY <1>8
    <2> QED
      BY <1>2, <1>3, <2>1, <2>2, ReachableIs
  <1> QED
    BY <1>5, <1>6, <1>7, <1>8

\* A lineage, one record at a time.
LEMMA LineageSteps ==
    ASSUME response \in Responses, NEW d \in response.defers
    PROVE  /\ \A e \in Lineage(d) : Lineage(e) \subseteq Lineage(d)
           /\ response.parent[d] = NoParent => Lineage(d) = {d}
           /\ response.parent[d] # NoParent =>
                 Lineage(d) = {d} \cup Lineage(response.parent[d]) /\ d \notin Lineage(response.parent[d])
  <1> DEFINE up == response.parent[d]
  <1>1. ASSUME NEW b \in response.defers, NEW e \in Lineage(b) PROVE Lineage(e) \subseteq Lineage(b)
    <2>1. e \in response.defers
      BY LineageIs
    <2>2. \A x \in Lineage(e) : x \in Lineage(b) /\ response.parent[x] # NoParent => response.parent[x] \in Lineage(b)
      BY LineageIs
    <2> QED
      BY <2>1, <2>2, LineageIs
  <1>2. up = NoParent => Lineage(d) = {d}
    <2>1. up = NoParent => Lineage(d) \subseteq {d}
      BY LineageIs
    <2> QED
      BY <2>1, LineageIs
  <1>3. ASSUME up # NoParent PROVE Lineage(d) = {d} \cup Lineage(up) /\ d \notin Lineage(up)
    <2>1. up \in response.defers /\ up \in Lineage(d)
      BY <1>3, ResponseFacts, LineageIs
    <2>2. Lineage(up) \subseteq Lineage(d) /\ d \in Lineage(d)
      BY <1>1, <2>1, LineageIs
    <2>3. Lineage(d) \subseteq {d} \cup Lineage(up)
      <3> DEFINE good == {d} \cup Lineage(up)
      <3>1. \A e \in Lineage(d) : e \in good /\ response.parent[e] # NoParent => response.parent[e] \in good
        BY <2>1, LineageIs
      <3>2. d \in good
        OBVIOUS
      <3> HIDE DEF good
      <3>3. Lineage(d) \subseteq good
        BY <3>1, <3>2, LineageIs
      <3> QED
        BY <3>3 DEF good
    <2>4. ASSUME d \in Lineage(up) PROVE FALSE
      <3> DEFINE S == {e \in Lineage(d) : d \in Lineage(e)}
      <3>1. S \in SUBSET response.defers /\ d \in S
        BY LineageIs
      <3>2. ASSUME NEW e \in S PROVE response.parent[e] \in S
        <4>1. CASE e = d
          BY <2>1, <2>4, <4>1
        <4>2. CASE e # d
          <5>1. e \in response.defers /\ d \in Lineage(e) /\ e \in Lineage(d)
            BY <3>1
          <5> DEFINE good == {e} \cup (IF response.parent[e] = NoParent THEN {} ELSE Lineage(response.parent[e]))
          <5>2. \A x \in Lineage(e) : x \in good /\ response.parent[x] # NoParent => response.parent[x] \in good
            BY <5>1, LineageIs, ResponseFacts
          <5>3. e \in good
            OBVIOUS
          <5> HIDE DEF good
          <5>4. Lineage(e) \subseteq good
            BY <5>1, <5>2, <5>3, LineageIs
          <5>5. response.parent[e] # NoParent /\ d \in Lineage(response.parent[e])
            BY <4>2, <5>1, <5>4 DEF good
          <5>6. response.parent[e] \in Lineage(d)
            BY <5>1, <5>5, LineageIs
          <5> QED
            BY <5>5, <5>6
        <4> QED
          BY <4>1, <4>2
      <3> QED
        BY <3>1, <3>2, ResponseFacts
    <2> QED
      BY <2>2, <2>3, <2>4
  <1> QED
    BY <1>1, <1>2, <1>3
-----------------------------------------------------------------------------
(* The methods of the graph.                                               *)

\* What the groups of a set complete with.
ResultsOf(S) == {GroupResult(g) : g \in S}

Completions == [of : Deliverables, items : SUBSET (1..MaxItems), done : BOOLEAN]

\* The types of the fields of a graph.
LEMMA GraphFields ==
    ASSUME NEW g \in Graphs
    PROVE  /\ g.root \subseteq Nodes /\ g.ids \in [Nodes -> Nat]
           /\ g.pending \in [response.defers -> SUBSET response.groups]
           /\ g.successful \in [response.defers -> Seq(response.groups)]
           /\ g.children \in [response.defers -> SUBSET Nodes]
           /\ g.runs \in Seq(response.groups)
           /\ g.queue \in Seq(Completions)
           /\ g.tasks \in Seq(Seq(response.groups))
           /\ g.pumps \in [response.streams -> {NotStarted, Exhausted} \cup 0..MaxItems]
  BY DEF Graphs, Completions

\* The batches the groups are started in.
LEMMA BatchesIs ==
    ASSUME NEW S, NEW runs \in Seq(S)
    PROVE  /\ Batches(runs) \in Seq(Seq(ToSet(runs)))
           /\ IsInjective(runs) =>
                 LET batches == Batches(runs) IN
                 /\ \A i \in DOMAIN batches : IsInjective(batches[i])
                 /\ \A i, j \in DOMAIN batches : i # j => ToSet(batches[i]) \cap ToSet(batches[j]) = {}
  <1> DEFINE batches == Batches(runs)
             R == ToSet(runs)
  <1>1. runs \in Seq(R) /\ DOMAIN runs = 1..Len(runs) /\ Len(runs) \in Nat
    <2>1. DOMAIN runs = 1..Len(runs) /\ Len(runs) \in Nat
      OBVIOUS
    <2>2. \A i \in 1..Len(runs) : runs[i] \in R
      BY <2>1 DEF ToSet
    <2>3. runs \in [1..Len(runs) -> R]
      BY <2>1, <2>2
    <2> QED
      BY <2>1, <2>3
  <1>2. CASE response.early
    <2>1. batches = [i \in DOMAIN runs |-> <<runs[i]>>]
      BY <1>2 DEF Batches
    <2>2. DOMAIN batches = 1..Len(runs) /\ \A i \in 1..Len(runs) : batches[i] = <<runs[i]>>
      BY <1>1, <2>1
    <2> HIDE DEF batches
    <2>3. \A i \in 1..Len(runs) : runs[i] \in R
      BY <1>1
    <2>4. batches \in Seq(Seq(R))
      <3>1. \A x \in R : <<x>> \in Seq(R)
        OBVIOUS
      <3>2. batches = [i \in 1..Len(runs) |-> batches[i]] /\ \A i \in 1..Len(runs) : batches[i] \in Seq(R)
        BY <1>1, <2>1, <2>2, <2>3, <3>1
      <3>3. batches \in [1..Len(runs) -> Seq(R)]
        BY <3>2
      <3> QED
        BY <1>1, <3>3
    <2>5. \A x : ToSet(<<x>>) = {x} /\ IsInjective(<<x>>)
      BY DEF ToSet, IsInjective
    <2>6. ASSUME NEW i \in DOMAIN batches
          PROVE  i \in DOMAIN runs /\ ToSet(batches[i]) = {runs[i]} /\ IsInjective(batches[i])
      <3>1. batches[i] = <<runs[i]>>
        BY <2>2
      <3>2. ToSet(<<runs[i]>>) = {runs[i]} /\ IsInjective(<<runs[i]>>)
        BY <2>5
      <3> QED
        BY <1>1, <2>2, <3>1, <3>2
    <2>7. /\ \A i \in DOMAIN batches : IsInjective(batches[i])
          /\ IsInjective(runs) =>
                \A i, j \in DOMAIN batches : i # j => ToSet(batches[i]) \cap ToSet(batches[j]) = {}
      <3>1. IsInjective(runs) => \A i, j \in DOMAIN runs : i # j => runs[i] # runs[j]
        BY DEF IsInjective
      <3> QED
        BY <2>6, <3>1
    <2> QED
      BY <2>4, <2>7 DEF batches
  <1>3. CASE ~response.early
    <2> DEFINE mates(i) == {g \in R : response.spec[g] = response.spec[runs[i]]}
               firsts == {i \in DOMAIN runs : \A j \in 1..(i - 1) : runs[j] \notin mates(i)}
               all == [i \in DOMAIN runs |-> i]
               leads == Among(all, firsts)
    <2>1. batches = [i \in DOMAIN leads |-> Among(runs, mates(leads[i]))]
      BY <1>3 DEF Batches
    <2>2. all \in Seq(1..Len(runs)) /\ IsInjective(all)
      BY <1>1 DEF IsInjective
    <2> HIDE DEF all, batches
    <2>a. \A i, j \in 1..Len(runs) : i < j /\ j \in firsts => runs[i] \notin mates(j)
      <3>1. \A i, j \in 1..Len(runs) : i < j => i \in 1..(j - 1)
        BY <1>1
      <3> QED
        BY <3>1
    <2>b. \A i, j \in 1..Len(runs) : mates(i) \cap mates(j) # {} => runs[i] \in mates(j) /\ runs[j] \in mates(i)
      BY <1>1 DEF ToSet
    <2> HIDE DEF firsts, mates
    <2>3. leads \in Seq(1..Len(runs)) /\ ToSet(leads) \subseteq firsts /\ IsInjective(leads)
      <3> DEFINE P == 1..Len(runs)
      <3>1. all \in Seq(P)
        BY <2>2
      <3> HIDE DEF P
      <3>2. /\ Among(all, firsts) \in Seq(P)
            /\ ToSet(Among(all, firsts)) = ToSet(all) \cap firsts
            /\ IsInjective(all) => IsInjective(Among(all, firsts))
        BY <3>1, AmongIs
      <3> QED
        BY <2>2, <3>2 DEF P
    <2> HIDE DEF leads
    <2>4. \A i \in DOMAIN leads : /\ leads[i] \in firsts /\ leads[i] \in 1..Len(runs)
                                  /\ Among(runs, mates(leads[i])) \in Seq(R)
                                  /\ ToSet(Among(runs, mates(leads[i]))) = R \cap mates(leads[i])
                                  /\ IsInjective(runs) => IsInjective(Among(runs, mates(leads[i])))
      <3>1. ASSUME NEW i \in DOMAIN leads PROVE leads[i] \in firsts /\ leads[i] \in 1..Len(runs)
        BY <2>3 DEF ToSet
      <3>2. \A i : /\ Among(runs, mates(leads[i])) \in Seq(R)
                   /\ ToSet(Among(runs, mates(leads[i]))) = R \cap mates(leads[i])
                   /\ IsInjective(runs) => IsInjective(Among(runs, mates(leads[i])))
        BY <1>1, AmongIs
      <3> QED
        BY <3>1, <3>2
    <2>5. batches \in Seq(Seq(R)) /\ DOMAIN batches = DOMAIN leads
      <3>1. DOMAIN leads = 1..Len(leads) /\ Len(leads) \in Nat
        BY <2>3
      <3>2. batches \in [1..Len(leads) -> Seq(R)]
        <4> HIDE DEF R
        <4> QED
          BY <2>1, <2>4, <3>1
      <3> QED
        BY <2>1, <3>1, <3>2
    <2>6. ASSUME NEW i \in DOMAIN batches, NEW j \in DOMAIN batches, i # j
          PROVE  ToSet(batches[i]) \cap ToSet(batches[j]) = {}
      <3>1. leads[i] # leads[j]
        BY <2>3, <2>5, <2>6 DEF IsInjective
      <3>2. /\ leads[i] \in firsts /\ leads[i] \in 1..Len(runs)
            /\ leads[j] \in firsts /\ leads[j] \in 1..Len(runs)
        BY <2>4, <2>5
      <3>3. leads[i] < leads[j] \/ leads[j] < leads[i]
        BY <1>1, <3>1, <3>2
      <3>4. mates(leads[i]) \cap mates(leads[j]) = {}
        BY <2>a, <2>b, <3>2, <3>3
      <3>5. batches[i] = Among(runs, mates(leads[i])) /\ batches[j] = Among(runs, mates(leads[j]))
        BY <2>1, <2>5
      <3>6. ToSet(batches[i]) \subseteq mates(leads[i]) /\ ToSet(batches[j]) \subseteq mates(leads[j])
        BY <2>4, <2>5, <3>5
      <3> QED
        BY <3>4, <3>6
    <2>7. ASSUME IsInjective(runs), NEW i \in DOMAIN batches PROVE IsInjective(batches[i])
      BY <2>1, <2>4, <2>5, <2>7
    <2> QED
      BY <2>5, <2>6, <2>7 DEF batches
  <1> QED
    BY <1>2, <1>3

\* The results of a batch, and where they go.
LEMMA ResultsIs ==
    ASSUME NEW S, NEW batch \in Seq(S)
    PROVE  /\ Results(batch) \in Seq(ResultsOf(S))
           /\ ToSet(Results(batch)) = ResultsOf(ToSet(batch))
           /\ IsInjective(batch) => IsInjective(Results(batch))
  <1>1. DOMAIN batch = 1..Len(batch) /\ Len(batch) \in Nat /\ \A i \in DOMAIN batch : batch[i] \in S
    OBVIOUS
  <1>2. DOMAIN Results(batch) = 1..Len(batch)
        /\ \A i \in 1..Len(batch) : Results(batch)[i] = GroupResult(batch[i])
    BY <1>1 DEF Results
  <1>3. \A g, h : GroupResult(g) = GroupResult(h) => g = h
    BY DEF GroupResult
  <1>4. Results(batch) \in [1..Len(batch) -> ResultsOf(S)]
    <2>1. Results(batch) = [i \in 1..Len(batch) |-> GroupResult(batch[i])]
      BY <1>1 DEF Results
    <2>2. \A i \in 1..Len(batch) : GroupResult(batch[i]) \in ResultsOf(S)
      BY <1>1 DEF ResultsOf
    <2> QED
      BY <2>1, <2>2
  <1>5. ToSet(Results(batch)) = ResultsOf(ToSet(batch))
    BY <1>1, <1>2 DEF ToSet, ResultsOf
  <1> QED
    BY <1>1, <1>2, <1>3, <1>4, <1>5 DEF IsInjective

\* The result of a group is what the queue holds.
LEMMA ResultsCompletions ==
    ASSUME NEW R, R \subseteq response.groups
    PROVE  ResultsOf(R) \subseteq Completions
  <1>1. ASSUME NEW x \in R PROVE GroupResult(x) \in Completions
    <2>1. x \in Deliverables /\ {} \in SUBSET (1..MaxItems)
      BY DEF Deliverables
    <2> QED
      BY <2>1 DEF GroupResult, Completions
  <1> QED
    BY <1>1 DEF ResultsOf

\* What _flush_runs starts and completes: the groups collected in runs.
LEMMA FlushIs ==
    ASSUME response \in Responses, NEW g \in Graphs
    PROVE  LET h == _flush_runs(g) IN
           /\ h \in Graphs
           /\ h.runs = <<>>
           /\ h.root = g.root /\ h.ids = g.ids /\ h.pending = g.pending
           /\ h.successful = g.successful /\ h.children = g.children /\ h.pumps = g.pumps
           /\ \E q \in Seq(ResultsOf(ToSet(g.runs))), t \in Seq(Seq(ToSet(g.runs))) :
                 h.queue = g.queue \o q /\ h.tasks = g.tasks \o t
  <1> DEFINE h == _flush_runs(g)
             R == ToSet(g.runs)
             batches == Batches(g.runs)
             awaitable == {batch \in ToSet(batches) : ToSet(batch) \cap response.slow # {}}
             t == Among(batches, awaitable)
             each == [i \in DOMAIN batches |-> IF batches[i] \in awaitable THEN <<>> ELSE Results(batches[i])]
             q == FlattenSeq(each)
  <1>1. h = [g EXCEPT !.runs = <<>>, !.tasks = @ \o t, !.queue = @ \o q]
    BY DEF _flush_runs, Then
  <1> HIDE DEF h
  <1>2. batches \in Seq(Seq(R))
    BY GraphFields, BatchesIs
  <1>3. t \in Seq(Seq(R))
    <2> HIDE DEF batches, awaitable, R
    <2> QED
      BY <1>2, AmongIs
  <1>4. q \in Seq(ResultsOf(R))
    <2>1. DOMAIN batches = 1..Len(batches) /\ Len(batches) \in Nat
      BY <1>2
    <2> HIDE DEF batches, R, awaitable
    <2>2. \A i \in 1..Len(batches) : Results(batches[i]) \in Seq(ResultsOf(R)) /\ <<>> \in Seq(ResultsOf(R))
      BY <1>2, <2>1, ResultsIs
    <2>3. each \in [1..Len(batches) -> Seq(ResultsOf(R))]
      BY <2>1, <2>2
    <2>4. each \in Seq(Seq(ResultsOf(R)))
      BY <2>1, <2>3
    <2> HIDE DEF each
    <2> QED
      BY <2>4, Flattened
  <1>5. R \subseteq response.groups
    BY GraphFields DEF ToSet
  <1>6. ResultsOf(R) \subseteq Completions
    <2> HIDE DEF R
    <2> QED
      BY <1>5, ResultsCompletions
  <1> HIDE DEF q, t, R
  <1>7. t \in Seq(Seq(response.groups)) /\ q \in Seq(Completions)
    <2>1. Seq(R) \subseteq Seq(response.groups)
      BY <1>5
    <2> QED
      BY <1>3, <1>4, <1>6, <2>1
  <1>8. g.tasks \o t \in Seq(Seq(response.groups)) /\ g.queue \o q \in Seq(Completions)
    <2>1. g.tasks \o t \in Seq(Seq(response.groups))
      BY <1>7, GraphFields, ConcatProperties
    <2>2. g.queue \o q \in Seq(Completions)
      BY <1>7, GraphFields, ConcatProperties
    <2> QED
      BY <2>1, <2>2
  <1>9. h \in Graphs
    <2>1. <<>> \in Seq(response.groups)
      OBVIOUS
    <2> QED
      BY <1>1, <1>8, <2>1 DEF Graphs, Completions
  <1>10. /\ h.runs = <<>>
         /\ h.root = g.root /\ h.ids = g.ids /\ h.pending = g.pending
         /\ h.successful = g.successful /\ h.children = g.children /\ h.pumps = g.pumps
         /\ h.queue = g.queue \o q /\ h.tasks = g.tasks \o t
    BY <1>1 DEF Graphs
  <1> QED
    BY <1>3, <1>4, <1>9, <1>10 DEF h, R
\* The graph after a step keeps what the step leaves alone.
LEMMA SoundFields ==
    ASSUME NEW live, NEW g, Sound(g, live)
    PROVE  /\ g \in Graphs /\ g.root \subseteq Nodes
           /\ \A n \in Nodes : g.ids[n] \in {0, 1}
           /\ \A n \in g.root : g.ids[n] = 1
  BY DEF Sound, Numbered, Announced

\* What a sequence put after a queue adds to it.
LEMMA QueueGrows ==
    ASSUME NEW queue \in Seq(Completions), NEW R, R \subseteq response.groups,
           NEW q \in Seq(ResultsOf(R)), response \in Responses
    PROVE  /\ \A p \in DOMAIN (queue \o q) :
                 \/ p \in DOMAIN queue /\ (queue \o q)[p] = queue[p]
                 \/ (queue \o q)[p].of \in R /\ p \notin DOMAIN queue
           /\ \A p \in DOMAIN queue : p \in DOMAIN (queue \o q) /\ (queue \o q)[p] = queue[p]
  <1> DEFINE all == queue \o q
  <1>1. ResultsOf(R) \subseteq Completions
    BY ResultsCompletions
  <1>2. q \in Seq(Completions)
    BY <1>1
  <1>3. /\ Len(queue) \in Nat /\ Len(q) \in Nat
        /\ DOMAIN queue = 1..Len(queue) /\ DOMAIN q = 1..Len(q) /\ DOMAIN all = 1..(Len(queue) + Len(q))
        /\ \A p \in 1..(Len(queue) + Len(q)) :
              all[p] = IF p <= Len(queue) THEN queue[p] ELSE q[p - Len(queue)]
    BY <1>2, ConcatProperties
  <1>4. \A i \in 1..Len(q) : q[i].of \in R
    BY <1>3 DEF ResultsOf, GroupResult
  <1> HIDE DEF all
  <1>5. \A p \in DOMAIN all : (p \in DOMAIN queue /\ all[p] = queue[p]) \/ (all[p].of \in R /\ p \notin DOMAIN queue)
    <2>1. \A p \in DOMAIN all : p \notin DOMAIN queue => p - Len(queue) \in 1..Len(q) /\ ~ (p <= Len(queue))
      BY <1>3
    <2>2. \A p \in DOMAIN queue : p <= Len(queue) /\ p \in DOMAIN all
      BY <1>3
    <2> QED
      BY <1>3, <1>4, <2>1, <2>2
  <1>6. \A p \in DOMAIN queue : p \in DOMAIN all /\ all[p] = queue[p]
    BY <1>3
  <1> QED
    BY <1>5, <1>6 DEF all

\* Results of groups may join the queue.
LEMMA WaitingGrows ==
    ASSUME response \in Responses, NEW live, NEW g, NEW queue \in Seq(Completions), Waiting(queue, g, live),
           NEW R, R \subseteq response.groups, \A h \in R : Home[h] \in live,
           NEW q \in Seq(ResultsOf(R))
    PROVE  Waiting(queue \o q, g, live)
  <1> DEFINE all == queue \o q
  <1>1. \A h \in R : h \notin response.streams
    BY ResponseFacts DEF Nodes
  <1>2. /\ \A p \in DOMAIN all : (p \in DOMAIN queue /\ all[p] = queue[p]) \/ (all[p].of \in R /\ p \notin DOMAIN queue)
        /\ \A p \in DOMAIN queue : p \in DOMAIN all /\ all[p] = queue[p]
    BY QueueGrows
  <1> HIDE DEF all
  <1>3. \A p \in DOMAIN all : all[p].of \in response.streams => p \in DOMAIN queue /\ all[p] = queue[p]
    BY <1>1, <1>2
  <1>4. \A p \in DOMAIN all : all[p].of \in response.groups => Home[all[p].of] \in live
    BY <1>2 DEF Waiting
  <1>5. ASSUME NEW p \in DOMAIN all, all[p].of \in response.streams
        PROVE  /\ all[p].of \in g.root
               /\ all[p].items \subseteq Got(g, all[p].of)
               /\ \A i \in all[p].items : <<all[p].of, i>> \notin live
               /\ all[p].done => g.pumps[all[p].of] = Exhausted
               /\ \A o \in DOMAIN all : p < o /\ all[o].of = all[p].of =>
                     ~all[p].done /\ all[p].items \cap all[o].items = {}
    BY <1>3, <1>5 DEF Waiting
  <1>6. Waiting(all, g, live)
    BY <1>4, <1>5 DEF Waiting
  <1> QED
    BY <1>6 DEF all

\* Flushing keeps the graph sound.
LEMMA FlushKeeps ==
    ASSUME response \in Responses, NEW live, NEW g, Sound(g, live)
    PROVE  LET h == _flush_runs(g) IN
           Sound(h, live) /\ h.root = g.root /\ h.ids = g.ids /\ h.pending = g.pending /\ h.runs = <<>>
           /\ h.successful = g.successful /\ h.children = g.children
  <1> DEFINE h == _flush_runs(g)
             R == ToSet(g.runs)
  <1>1. g \in Graphs
    BY SoundFields
  <1>2. /\ h \in Graphs /\ h.runs = <<>>
        /\ h.root = g.root /\ h.ids = g.ids /\ h.pending = g.pending
        /\ h.successful = g.successful /\ h.children = g.children /\ h.pumps = g.pumps
        /\ \E q \in Seq(ResultsOf(R)), t \in Seq(Seq(R)) : h.queue = g.queue \o q /\ h.tasks = g.tasks \o t
    BY <1>1, FlushIs
  <1> HIDE DEF h
  <1>3. PICK q \in Seq(ResultsOf(R)), t \in Seq(Seq(R)) : h.queue = g.queue \o q /\ h.tasks = g.tasks \o t
    BY <1>2
  <1>4. R \subseteq response.groups /\ \A x \in R : Home[x] \in live
    BY <1>1, GraphFields DEF Sound, Fits, ToSet
  <1> HIDE DEF R
  <1>5. Waiting(h.queue, h, live)
    <2>1. Waiting(g.queue, g, live)
      BY DEF Sound
    <2>2. Waiting(g.queue \o q, g, live)
      BY <1>1, <1>4, <2>1, GraphFields, WaitingGrows
    <2> QED
      BY <1>2, <1>3, <2>2 DEF Waiting, Got
  <1>6. \A i \in DOMAIN h.tasks : \A x \in ToSet(h.tasks[i]) : Home[x] \in live
    <2>1. \A i \in DOMAIN t : \A x \in ToSet(t[i]) : Home[x] \in live
      BY <1>4 DEF ToSet
    <2>2. t \in Seq(Seq(response.groups)) /\ g.tasks \in Seq(Seq(response.groups))
      BY <1>1, <1>4, GraphFields
    <2>3. \A i \in DOMAIN g.tasks : \A x \in ToSet(g.tasks[i]) : Home[x] \in live
      BY DEF Sound, Fits
    <2>4. ToSet(h.tasks) = ToSet(g.tasks) \cup ToSet(t)
      BY <1>3, <2>2, Concatenated
    <2>5. \A b \in ToSet(h.tasks) : \A x \in ToSet(b) : Home[x] \in live
      <3>1. \A s : \A b \in ToSet(s) : \E i \in DOMAIN s : s[i] = b
        BY DEF ToSet
      <3> QED
        BY <2>1, <2>3, <2>4, <3>1
    <2>6. \A i \in DOMAIN h.tasks : h.tasks[i] \in ToSet(h.tasks)
      BY DEF ToSet
    <2> QED
      BY <2>5, <2>6
  <1>7. ToSet(h.runs) = {}
    BY <1>2 DEF ToSet
  <1>8. Fits(h, live)
    BY <1>2, <1>6, <1>7 DEF Sound, Fits
  <1>9. Numbered(h) /\ Nested(h) /\ Linked(h) /\ Streaming(h, live)
    BY <1>2 DEF Sound, Numbered, Announced, Nested, Linked, Streaming, Got
  <1> QED
    BY <1>2, <1>5, <1>8, <1>9 DEF h, Sound
\* The records climbed over enclose one a captured group or stream hangs off.
LEMMA TouchedIs ==
    ASSUME response \in Responses, NEW g, NEW records, NEW parents \in SUBSET response.defers,
           NEW e \in Touched(g, records, parents)
    PROVE  \E d \in response.defers :
              /\ e \in Lineage(d) /\ e \in response.defers
              /\ \/ \E c \in ToSet(records) \cap response.groups : d \in Records(c)
                 \/ d \in parents /\ ToSet(records) \cap response.streams # {}
  <1> DEFINE groups == ToSet(records) \cap response.groups
             streams == ToSet(records) \cap response.streams
             from == (UNION {Records(c) : c \in groups}) \cup (IF streams = {} THEN {} ELSE parents)
  <1>1. PICK d \in from : e \in Climbed(g, d)
    BY DEF Touched
  <1>2. (\E c \in groups : d \in Records(c)) \/ (d \in parents /\ streams # {})
    <2> HIDE DEF groups, streams
    <2>1. (d \in UNION {Records(c) : c \in groups}) \/ (streams # {} /\ d \in parents)
      <3> DEFINE all == UNION {Records(c) : c \in groups}
      <3>1. d \in all \cup (IF streams = {} THEN {} ELSE parents)
        BY <1>1
      <3> HIDE DEF all
      <3>2. d \in all \/ (streams # {} /\ d \in parents)
        BY <3>1
      <3> QED
        BY <3>2 DEF all
    <2> QED
      BY <2>1
  <1>3. d \in response.defers
    BY <1>2, ResponseFacts DEF Records, ToSet
  <1>4. e \in Lineage(d)
    BY <1>1 DEF Climbed
  <1> QED
    BY <1>2, <1>3, <1>4, LineageIs

\* The graph h is g with the captured records added.
AddedTo(g, h, records, parents) ==
    LET groups == ToSet(records) \cap response.groups
        streams == ToSet(records) \cap response.streams
    IN
    /\ h \in Graphs
    /\ h.root = g.root /\ h.ids = g.ids /\ h.successful = g.successful
    /\ h.queue = g.queue /\ h.tasks = g.tasks /\ h.pumps = g.pumps
    /\ \A d \in response.defers : h.pending[d] = g.pending[d] \cup {c \in groups : d \in Records(c)}
    /\ \A d \in response.defers :
          h.children[d] = g.children[d] \cup {e \in Touched(g, records, parents) : response.parent[e] = d}
                            \cup IF d \in parents THEN streams ELSE {}
    /\ \E r \in Seq(groups) : h.runs = g.runs \o r

\* _add_incremental_records does what AddedTo says.
LEMMA AddedIs ==
    ASSUME response \in Responses, NEW g \in Graphs,
           NEW records \in Seq(Deliverables), NEW parents \in SUBSET response.defers
    PROVE  AddedTo(g, _add_incremental_records(g, records, parents), records, parents)
  <1> DEFINE h == _add_incremental_records(g, records, parents)
             groups == ToSet(records) \cap response.groups
             streams == ToSet(records) \cap response.streams
             touched == Touched(g, records, parents)
             kids == [d \in response.defers |-> g.children[d] \cup {e \in touched : response.parent[e] = d}
                                                  \cup IF d \in parents THEN streams ELSE {}]
             left == [d \in response.defers |-> g.pending[d] \cup {c \in groups : d \in Records(c)}]
             r == Among(records, {c \in groups : _completes_root_node(g, c)})
  <1>1. h = [g EXCEPT !.children = kids, !.pending = left, !.runs = g.runs \o r]
    BY DEF _add_incremental_records
  <1> HIDE DEF h
  <1>2. touched \subseteq response.defers
    BY TouchedIs
  <1>3. kids \in [response.defers -> SUBSET Nodes]
    <2> HIDE DEF touched
    <2> QED
      BY <1>2, GraphFields DEF Nodes
  <1>4. left \in [response.defers -> SUBSET response.groups]
    BY GraphFields
  <1>5. r \in Seq(groups)
    <2> DEFINE T == {c \in groups : _completes_root_node(g, c)}
    <2>1. T \subseteq groups
      OBVIOUS
    <2> HIDE DEF T
    <2>2. Among(records, T) \in Seq(ToSet(records) \cap T)
      BY AmongIs
    <2>3. ToSet(records) \cap T \subseteq groups
      BY <2>1
    <2> HIDE DEF groups
    <2>4. Among(records, T) \in Seq(groups)
      BY <2>2, <2>3
    <2> QED
      BY <2>4 DEF T
  <1> HIDE DEF r, left, kids
  <1>6. g.runs \o r \in Seq(response.groups)
    <2>1. r \in Seq(response.groups)
      BY <1>5
    <2> QED
      BY <2>1, GraphFields, ConcatProperties
  <1>7. h \in Graphs
    BY <1>1, <1>3, <1>4, <1>6 DEF Graphs
  <1>8. /\ h.root = g.root /\ h.ids = g.ids /\ h.successful = g.successful
        /\ h.queue = g.queue /\ h.tasks = g.tasks /\ h.pumps = g.pumps
        /\ h.pending = left /\ h.children = kids /\ h.runs = g.runs \o r
    BY <1>1 DEF Graphs
  <1> QED
    BY <1>5, <1>7, <1>8 DEF h, left, kids, AddedTo

\* A record's lineage is of its own pass.
LEMMA HomeIs ==
    ASSUME response \in Responses, Confined(response)
    PROVE  /\ \A d \in response.defers : \A e \in Lineage(d) : Home[e] = Home[d]
           /\ \A g \in response.groups : \A d \in Records(g) : Home[d] = Home[g]
           /\ \A c \in ToSet(response.initial) : Home[c] = <<>>
           /\ \A g \in response.groups : \A c \in ToSet(response.reveals[g]) : Home[c] = Home[g]
           /\ \A s \in response.streams : \A i \in 1..response.items[s] :
                 \A c \in ToSet(response.yields[s][i]) : Home[c] = <<s, i>>
  <1>1. IsHome(response, Home)
    <2>1. \E home \in HomeSpace(response) : IsHome(response, home)
      BY DEF Confined
    <2>2. Home = CHOOSE home \in HomeSpace(response) : IsHome(response, home)
      BY DEF Home, HomeOf
    <2> HIDE DEF Home
    <2> QED
      BY <2>1, <2>2
  <1> HIDE DEF Home
  <1>2. ASSUME NEW d \in response.defers PROVE \A e \in Lineage(d) : Home[e] = Home[d]
    <2> DEFINE good == {e \in response.defers : Home[e] = Home[d]}
    <2>1. d \in good
      OBVIOUS
    <2>2. \A e \in Lineage(d) : e \in good /\ response.parent[e] # NoParent => response.parent[e] \in good
      BY <1>1, ResponseFacts DEF IsHome
    <2> HIDE DEF good
    <2>3. Lineage(d) \subseteq good
      BY <2>1, <2>2, LineageIs
    <2> QED
      BY <2>3 DEF good
  <1> QED
    BY <1>1, <1>2 DEF IsHome, Records

\* Capturing records of live passes keeps the graph sound.
LEMMA AddKeeps ==
    ASSUME response \in Responses, Confined(response), NEW live, NEW g, Sound(g, live),
           NEW records \in Seq(Deliverables), NEW parents \in SUBSET response.defers,
           \A c \in ToSet(records) : Home[c] \in live,
           \A d \in parents : Home[d] \in live,
           \A d \in parents : \A s \in ToSet(records) \cap response.streams : Owns(d, s)
    PROVE  Sound(_add_incremental_records(g, records, parents), live)
  <1> DEFINE h == _add_incremental_records(g, records, parents)
             groups == ToSet(records) \cap response.groups
             streams == ToSet(records) \cap response.streams
             touched == Touched(g, records, parents)
  <1>1. g \in Graphs
    BY SoundFields
  <1>2. /\ h \in Graphs
        /\ h.root = g.root /\ h.ids = g.ids /\ h.successful = g.successful
        /\ h.queue = g.queue /\ h.tasks = g.tasks /\ h.pumps = g.pumps
        /\ \A d \in response.defers : h.pending[d] = g.pending[d] \cup {c \in groups : d \in Records(c)}
        /\ \A d \in response.defers :
              h.children[d] = g.children[d] \cup {e \in touched : response.parent[e] = d}
                                \cup IF d \in parents THEN streams ELSE {}
        /\ \E r \in Seq(groups) : h.runs = g.runs \o r
    <2>1. AddedTo(g, h, records, parents)
      BY <1>1, AddedIs
    <2> HIDE DEF h
    <2> QED
      BY <2>1 DEF AddedTo
  <1>3. ASSUME NEW e \in touched PROVE e \in response.defers /\ Home[e] \in live
    <2> HIDE DEF Home, touched
    <2>1. PICK d \in response.defers :
             /\ e \in Lineage(d) /\ e \in response.defers
             /\ (\E c \in groups : d \in Records(c)) \/ (d \in parents /\ streams # {})
      BY TouchedIs DEF touched
    <2>2. Home[d] \in live
      BY <2>1, HomeIs
    <2> QED
      BY <2>1, <2>2, HomeIs
  <1> HIDE DEF h, touched, Home
  <1>4. Linked(h)
    <2>1. \A d \in response.defers : \A x \in h.pending[d] : d \in Records(x)
      BY <1>2 DEF Sound, Linked
    <2>2. ASSUME NEW d \in response.defers, NEW n \in h.children[d]
          PROVE  \/ n \in response.defers /\ response.parent[n] = d
                 \/ n \in response.streams /\ Owns(d, n)
      <3>1. n \in g.children[d] \/ (n \in touched /\ response.parent[n] = d) \/ (d \in parents /\ n \in streams)
        BY <1>2, <2>2
      <3> QED
        BY <1>3, <3>1 DEF Sound, Linked
    <2> QED
      BY <2>1, <2>2 DEF Linked
  <1>5. Fits(h, live)
    <2>1. ASSUME NEW d \in response.defers, Home[d] \notin live PROVE h.pending[d] = {} /\ h.children[d] = {}
      <3>1. g.pending[d] = {} /\ g.children[d] = {}
        BY <2>1 DEF Sound, Fits
      <3>2. {c \in groups : d \in Records(c)} = {}
        BY <2>1, HomeIs
      <3>3. {e \in touched : response.parent[e] = d} = {}
        <4>1. \A e \in response.defers : response.parent[e] = d => Home[e] = Home[d]
          <5>1. \A e \in response.defers : response.parent[e] = d => d \in Lineage(e)
            BY LineageIs, ResponseFacts
          <5> QED
            BY <5>1, HomeIs
        <4> QED
          BY <1>3, <2>1, <4>1
      <3>4. d \notin parents
        BY <2>1
      <3> QED
        BY <1>2, <3>1, <3>2, <3>3, <3>4
    <2>2. \A x \in ToSet(h.runs) : Home[x] \in live
      <3>1. PICK r \in Seq(groups) : h.runs = g.runs \o r
        BY <1>2
      <3>2. r \in Seq(response.groups) /\ g.runs \in Seq(response.groups) /\ ToSet(r) \subseteq groups
        <4>1. ToSet(r) \subseteq groups
          BY DEF ToSet
        <4> QED
          BY <1>1, <4>1, GraphFields
      <3>3. ToSet(h.runs) = ToSet(g.runs) \cup ToSet(r)
        BY <3>1, <3>2, Concatenated
      <3> QED
        BY <3>2, <3>3 DEF Sound, Fits
    <2> QED
      BY <1>2, <2>1, <2>2 DEF Sound, Fits
  <1>6. Numbered(h) /\ Nested(h) /\ Streaming(h, live) /\ Waiting(h.queue, h, live)
    BY <1>2 DEF Sound, Numbered, Announced, Nested, Streaming, Waiting, Got
  <1> QED
    BY <1>4, <1>5, <1>6 DEF h, Sound
\* What is promoted: what a set of nodes leads to through records without a group.
LEMMA NewRootsAre ==
    ASSUME response \in Responses, NEW g \in Graphs, NEW nodes \in SUBSET Nodes
    PROVE  LET new == NewRootNodes(g, nodes) IN
           /\ new \subseteq Nodes
           /\ \A n \in new \cap response.defers : g.pending[n] # {}
           /\ \A good : /\ nodes \subseteq good
                        /\ \A a \in response.defers \cap good : g.pending[a] = {} =>
                              \A b \in g.children[a] : b \in good
                        => new \subseteq good
  <1> DEFINE empty == {d \in response.defers : g.pending[d] = {}}
             links == UNION {{<<d, node>> : node \in g.children[d]} : d \in empty}
             new == NewRootNodes(g, nodes)
  <1>1. links \subseteq Nodes \X Nodes
    <2>1. \A d \in empty : \A node \in g.children[d] : d \in Nodes /\ node \in Nodes
      BY GraphFields DEF Nodes
    <2> HIDE DEF empty
    <2> QED
      BY <2>1
  <1>2. new = Reachable(links, nodes) \ empty
    BY DEF NewRootNodes
  <1>3. \A a, b : <<a, b>> \in links => a \in empty /\ b \in g.children[a]
    <2> HIDE DEF empty
    <2> QED
      OBVIOUS
  <1> HIDE DEF links, new
  <1>4. new \subseteq Nodes
    BY <1>1, <1>2, ReachableIs
  <1>5. ASSUME NEW good, nodes \subseteq good,
               \A a \in response.defers \cap good : g.pending[a] = {} => \A b \in g.children[a] : b \in good
        PROVE  new \subseteq good
    <2>1. \A a \in Reachable(links, nodes), b \in Nodes : a \in good /\ <<a, b>> \in links => b \in good
      BY <1>3, <1>5
    <2>2. Reachable(links, nodes) \subseteq good
      BY <1>1, <1>5, <2>1, ReachableIs
    <2> QED
      BY <1>2, <2>2
  <1> QED
    BY <1>2, <1>4, <1>5 DEF new

\* The graph h is g with the nodes that `nodes` lead to made root.
PromotedTo(g, h, new) ==
    /\ h \in Graphs
    /\ h.root = g.root \cup new
    /\ h.ids = [n \in Nodes |-> IF n \in new THEN g.ids[n] + 1 ELSE g.ids[n]]
    /\ h.pumps = [s \in response.streams |->
                    IF s \in new /\ g.pumps[s] = NotStarted THEN 0 ELSE g.pumps[s]]
    /\ h.pending = g.pending /\ h.successful = g.successful /\ h.children = g.children
    /\ h.queue = g.queue /\ h.tasks = g.tasks
    /\ \A c \in ToSet(h.runs) : c \in ToSet(g.runs) \/ \E d \in new \cap response.defers : c \in g.pending[d]

\* _promote_non_empty_to_root does what PromotedTo says.
LEMMA PromotedIs ==
    ASSUME response \in Responses, NEW g \in Graphs, NEW nodes \in SUBSET Nodes
    PROVE  PromotedTo(g, _promote_non_empty_to_root(g, nodes), NewRootNodes(g, nodes))
  <1> DEFINE h == _promote_non_empty_to_root(g, nodes)
             new == NewRootNodes(g, nodes)
             groups == UNION {g.pending[d] : d \in new \cap response.defers}
             starting == {c \in groups : ~_completes_root_node(g, c)}
             ids == [n \in Nodes |-> IF n \in new THEN g.ids[n] + 1 ELSE g.ids[n]]
             pumps == [s \in response.streams |-> IF s \in new /\ g.pumps[s] = NotStarted THEN 0 ELSE g.pumps[s]]
             r == Ordered(starting)
  <1>1. h = [g EXCEPT !.root = g.root \cup new, !.ids = ids, !.runs = g.runs \o r, !.pumps = pumps]
    BY DEF _promote_non_empty_to_root
  <1>2. new \subseteq Nodes
    BY NewRootsAre
  <1>3. \A c \in starting : c \in response.groups /\ \E d \in new \cap response.defers : c \in g.pending[d]
    BY GraphFields
  <1> HIDE DEF h, new
  <1>4. g.root \cup new \in SUBSET Nodes
    BY <1>2, GraphFields
  <1>5. ids \in [Nodes -> Nat]
    <2>1. \A n \in Nodes : g.ids[n] \in Nat
      BY GraphFields
    <2> QED
      BY <2>1
  <1>6. pumps \in [response.streams -> {NotStarted, Exhausted} \cup 0..MaxItems]
    <2>1. \A s \in response.streams : g.pumps[s] \in {NotStarted, Exhausted} \cup 0..MaxItems
      BY GraphFields
    <2>2. 0 \in 0..MaxItems
      BY ResponseFacts
    <2> QED
      BY <2>1, <2>2
  <1>7. r \in Seq(response.groups) /\ ToSet(r) \subseteq starting
    <2> HIDE DEF starting
    <2>1. /\ Among(response.order, starting) \in Seq(ToSet(response.order) \cap starting)
          /\ ToSet(Among(response.order, starting)) = ToSet(response.order) \cap starting
      BY ResponseFacts, AmongIs
    <2>2. ToSet(response.order) \cap starting \subseteq response.groups
      BY <1>3
    <2>3. Among(response.order, starting) \in Seq(response.groups)
      BY <2>1, <2>2
    <2> QED
      BY <2>1, <2>3 DEF Ordered
  <1> HIDE DEF ids, pumps, r, starting
  <1>8. g.runs \o r \in Seq(response.groups) /\ ToSet(g.runs \o r) = ToSet(g.runs) \cup ToSet(r)
    <2> DEFINE S == response.groups
    <2>1. g.runs \in Seq(S) /\ r \in Seq(S)
      BY <1>7, GraphFields
    <2> HIDE DEF S
    <2>2. g.runs \o r \in Seq(S) /\ ToSet(g.runs \o r) = ToSet(g.runs) \cup ToSet(r)
      BY <2>1, Concatenated
    <2> QED
      BY <2>2 DEF S
  <1>9. h \in Graphs
    BY <1>1, <1>4, <1>5, <1>6, <1>8 DEF Graphs
  <1>10. /\ h.root = g.root \cup new /\ h.ids = ids /\ h.pumps = pumps /\ h.runs = g.runs \o r
         /\ h.pending = g.pending /\ h.successful = g.successful /\ h.children = g.children
         /\ h.queue = g.queue /\ h.tasks = g.tasks
    BY <1>1 DEF Graphs
  <1>11. \A c \in ToSet(h.runs) : c \in ToSet(g.runs) \/ \E d \in new \cap response.defers : c \in g.pending[d]
    BY <1>3, <1>7, <1>8, <1>10
  <1> QED
    BY <1>9, <1>10, <1>11 DEF h, ids, pumps, new, PromotedTo

\* Promotion keeps the graph sound where what it promotes has no id yet, is of a
\* live pass, and neither encloses nor is enclosed by anything else with one.
LEMMA PromoteKeeps ==
    ASSUME response \in Responses, Confined(response), NEW live, NEW g, Sound(g, live),
           NEW h, NEW new \in SUBSET Nodes, PromotedTo(g, h, new),
           \A n \in new : g.ids[n] = 0 /\ Home[n] \in live,
           \A n \in new \cap response.defers : (Lineage(n) \ {n}) \cap (g.root \cup new) = {},
           \A d \in response.defers : g.ids[d] = 1 => (Lineage(d) \ {d}) \cap new = {},
           \A d \in response.defers, s \in response.streams :
              Owns(d, s) /\ (g.ids[s] = 1 \/ s \in new) => Lineage(d) \cap (g.root \cup new) = {}
    PROVE  /\ Sound(h, live)
           /\ Announced(h) = Announced(g) \cup new /\ new \cap Announced(g) = {}
  <1>1. /\ h \in Graphs
        /\ h.root = g.root \cup new
        /\ h.ids = [n \in Nodes |-> IF n \in new THEN g.ids[n] + 1 ELSE g.ids[n]]
        /\ h.pumps = [s \in response.streams |->
                        IF s \in new /\ g.pumps[s] = NotStarted THEN 0 ELSE g.pumps[s]]
        /\ h.pending = g.pending /\ h.successful = g.successful /\ h.children = g.children
        /\ h.queue = g.queue /\ h.tasks = g.tasks
        /\ \A c \in ToSet(h.runs) : c \in ToSet(g.runs) \/ \E d \in new \cap response.defers : c \in g.pending[d]
    BY DEF PromotedTo
  <1>2. \A n \in Nodes : h.ids[n] = (IF n \in new THEN 1 ELSE g.ids[n]) /\ g.ids[n] \in {0, 1}
    BY <1>1, SoundFields
  <1>3. \A s \in response.streams : h.pumps[s] = IF s \in new THEN 0 ELSE g.pumps[s]
    <2>1. \A s \in response.streams : s \in new => g.pumps[s] = NotStarted
      BY DEF Sound, Streaming
    <2> QED
      BY <1>1, <2>1
  <1>4. response.defers \subseteq Nodes /\ response.streams \subseteq Nodes
    BY DEF Nodes
  <1>5. Announced(h) = Announced(g) \cup new /\ new \cap Announced(g) = {}
    BY <1>2 DEF Announced
  <1>6. Numbered(h)
    <2>1. g.root \subseteq Announced(g)
      BY DEF Sound, Numbered
    <2>2. h.root \subseteq Announced(h)
      BY <1>1, <1>5, <2>1
    <2>3. h.ids \in [Nodes -> {0, 1}]
      <3>1. h.ids \in [Nodes -> Nat]
        BY <1>1, GraphFields
      <3>2. \A n \in Nodes : h.ids[n] \in {0, 1}
        BY <1>2
      <3> QED
        BY <3>1, <3>2
    <2> QED
      BY <1>1, <2>2, <2>3 DEF Numbered
  <1>7. Nested(h)
    <2>1. ASSUME NEW d \in response.defers, h.ids[d] = 1 PROVE (Lineage(d) \ {d}) \cap h.root = {}
      <3>1. CASE d \in new
        BY <1>1, <3>1
      <3>2. CASE d \notin new
        <4>1. g.ids[d] = 1
          BY <1>2, <1>4, <2>1, <3>2
        <4> QED
          BY <1>1, <4>1 DEF Sound, Nested
      <3> QED
        BY <3>1, <3>2
    <2>2. ASSUME NEW d \in response.defers, NEW s \in response.streams, h.ids[s] = 1, Owns(d, s)
          PROVE  Lineage(d) \cap h.root = {}
      <3>1. g.ids[s] = 1 \/ s \in new
        BY <1>2, <1>4, <2>2
      <3> QED
        BY <1>1, <2>2, <3>1
    <2> QED
      BY <2>1, <2>2 DEF Nested
  <1>8. Linked(h)
    BY <1>1 DEF Sound, Linked
  <1>9. Fits(h, live)
    <2>1. \A n \in Nodes : h.ids[n] = 1 => Home[n] \in live
      BY <1>2 DEF Sound, Fits
    <2>2. ASSUME NEW c \in ToSet(h.runs) PROVE Home[c] \in live
      <3>1. CASE c \in ToSet(g.runs)
        BY <3>1 DEF Sound, Fits
      <3>2. ASSUME NEW d \in new \cap response.defers, c \in g.pending[d] PROVE Home[c] \in live
        <4>1. c \in response.groups
          BY <3>2, GraphFields, SoundFields
        <4>2. d \in Records(c)
          BY <3>2 DEF Sound, Linked
        <4> QED
          BY <3>2, <4>1, <4>2, HomeIs
      <3> QED
        BY <1>1, <2>2, <3>1, <3>2
    <2> QED
      BY <1>1, <2>1, <2>2 DEF Sound, Fits
  <1>10. \A s \in response.streams : Got(g, s) \subseteq Got(h, s) /\ (s \notin new => Got(h, s) = Got(g, s))
    <2>1. \A s \in response.streams : s \in new => g.pumps[s] = NotStarted
      BY DEF Sound, Streaming
    <2> QED
      BY <1>3, <2>1 DEF Got
  <1>11. Streaming(h, live)
    <2>1. ASSUME NEW s \in response.streams
          PROVE  /\ h.ids[s] = 0 <=> h.pumps[s] = NotStarted
                 /\ h.pumps[s] >= 0 => s \in h.root
                 /\ \A i \in 1..response.items[s] : <<s, i>> \in live => i \in Got(h, s)
      <3>1. CASE s \in new
        BY <1>1, <1>2, <1>3, <1>4, <1>10, <3>1 DEF Sound, Streaming, NotStarted
      <3>2. CASE s \notin new
        BY <1>1, <1>2, <1>3, <1>4, <1>10, <3>2 DEF Sound, Streaming
      <3> QED
        BY <3>1, <3>2
    <2> QED
      BY <2>1 DEF Streaming
  <1>12. Waiting(h.queue, h, live)
    <2>1. Waiting(g.queue, g, live)
      BY DEF Sound
    <2>2. \A s \in response.streams : s \in g.root => s \in h.root /\ h.pumps[s] = g.pumps[s] /\ Got(h, s) = Got(g, s)
      <3>1. \A s \in response.streams : s \in g.root => s \notin new
        BY SoundFields
      <3> QED
        BY <1>1, <1>3, <1>10, <3>1
    <2>3. Waiting(g.queue, h, live)
      BY <2>1, <2>2 DEF Waiting
    <2> QED
      BY <1>1, <2>3
  <1> QED
    BY <1>5, <1>6, <1>7, <1>8, <1>9, <1>11, <1>12 DEF Sound
\* A node with an id, or one that starts to have one.
InPass(nodes, P) == \A n \in nodes : Home[n] \in P

\* A pass nothing of which is in the graph yet.
Virgin(g, P) ==
    /\ \A n \in Nodes : Home[n] \in P => g.ids[n] = 0
    /\ \A d \in response.defers : Home[d] \in P => g.pending[d] = {} /\ g.children[d] = {}

\* What get_new_root_nodes and complete_deferred_fragment come to: the graph is
\* sound, and the nodes that became root got their first id.
Grown(g, h, root, live) ==
    /\ Sound(h, live) /\ h.runs = <<>>
    /\ root \subseteq Announced(g)
    /\ \E new \in SUBSET Nodes :
          /\ h.root = root \cup new
          /\ Announced(h) = Announced(g) \cup new /\ new \cap Announced(g) = {}

\* get_new_root_nodes captures what a pass that has just run left behind.
LEMMA NewRootsKeep ==
    ASSUME response \in Responses, Confined(response), NEW live, NEW g, Sound(g, live),
           NEW P, P \subseteq live, Virgin(g, P),
           NEW records \in Seq(Deliverables), InPass(ToSet(records), P),
           \A s \in ToSet(records) \cap response.streams : \A d \in response.defers : ~ Owns(d, s)
    PROVE  Grown(g, get_new_root_nodes(g, records), g.root, live)
  <1> DEFINE streams == ToSet(records) \cap response.streams
             added == _add_incremental_records(g, records, {})
             nodes == Topmost(g, records, {}) \cup streams
             promoted == _promote_non_empty_to_root(added, nodes)
             new == NewRootNodes(added, nodes)
             h == _flush_runs(promoted)
  <1>1. h = get_new_root_nodes(g, records)
    BY DEF get_new_root_nodes, Then
  <1>2. g \in Graphs
    BY SoundFields
  <1>3. AddedTo(g, added, records, {})
    BY <1>2, AddedIs
  <1>4. Sound(added, live)
    BY AddKeeps DEF InPass
  <1>5. \A e \in Topmost(g, records, {}) : e \in response.defers /\ response.parent[e] = NoParent /\ Home[e] \in P
    <2>1. ASSUME NEW e \in Touched(g, records, {}) PROVE e \in response.defers /\ Home[e] \in P
      <3>1. PICK d \in response.defers :
               /\ e \in Lineage(d) /\ e \in response.defers
               /\ \E c \in ToSet(records) \cap response.groups : d \in Records(c)
        BY TouchedIs
      <3> QED
        BY <3>1, HomeIs DEF InPass
    <2> QED
      BY <2>1 DEF Topmost
  <1>6. nodes \in SUBSET Nodes
    BY <1>5 DEF Nodes
  <1> HIDE DEF added, nodes
  <1>7. added \in Graphs
    BY <1>4, SoundFields
  <1>8. PromotedTo(added, promoted, new)
    BY <1>6, <1>7, PromotedIs
  <1>9. new \in SUBSET Nodes /\ \A n \in new \cap response.defers : added.pending[n] # {}
    BY <1>6, <1>7, NewRootsAre
  <1>10. added.ids = g.ids /\ added.root = g.root
    BY <1>3 DEF AddedTo
  <1> DEFINE good == {n \in Nodes : /\ Home[n] \in P
                                    /\ n \in response.defers =>
                                          \A e \in Lineage(n) \ {n} : added.pending[e] = {}
                                    /\ n \in response.streams => n \in streams}
  <1>11. new \subseteq good
    <2>1. ASSUME NEW n \in nodes PROVE n \in good
      <3>1. CASE n \in Topmost(g, records, {})
        <4>1. n \in response.defers /\ n \notin response.streams /\ Lineage(n) = {n} /\ Home[n] \in P /\ n \in Nodes
          BY <1>5, <3>1, LineageSteps, ResponseFacts DEF Nodes
        <4> QED
          BY <4>1
      <3>2. CASE n \in streams
        BY <3>2, ResponseFacts DEF Nodes, InPass
      <3> QED
        BY <2>1, <3>1, <3>2 DEF nodes
    <2>2. ASSUME NEW a \in response.defers, a \in good, added.pending[a] = {}, NEW b \in added.children[a]
          PROVE  b \in good
      <3>1. g.children[a] = {} /\ Home[a] \in P
        BY <2>2 DEF Virgin
      <3>2. b \in response.defers /\ response.parent[b] = a
        BY <1>3, <2>2, <3>1, TouchedIs DEF AddedTo
      <3>3. b \notin response.streams /\ b \in Nodes /\ a # NoParent
        BY <3>2, ResponseFacts DEF Nodes
      <3>4. Lineage(b) = {b} \cup Lineage(a) /\ a \in Lineage(b)
        BY <3>2, <3>3, LineageSteps, LineageIs
      <3>5. Home[b] = Home[a]
        BY <3>2, <3>4, HomeIs
      <3> QED
        BY <2>2, <3>2, <3>3, <3>4, <3>5
    <2> HIDE DEF good
    <2>3. nodes \subseteq good /\ \A a \in response.defers \cap good : added.pending[a] = {} =>
                                   \A b \in added.children[a] : b \in good
      BY <2>1, <2>2
    <2> QED
      BY <1>6, <1>7, <2>3, NewRootsAre
  <1>12. \A n \in new : added.ids[n] = 0 /\ Home[n] \in live /\ Home[n] \in P
    BY <1>10, <1>11 DEF Virgin
  <1>13. \A n \in Nodes : g.ids[n] = 1 \/ n \in g.root => Home[n] \notin P
    BY SoundFields DEF Virgin
  <1>14. \A n \in new \cap response.defers : (Lineage(n) \ {n}) \cap (added.root \cup new) = {}
    <2>1. ASSUME NEW n \in new \cap response.defers, NEW e \in Lineage(n) \ {n}
          PROVE  e \notin added.root /\ e \notin new
      <3>1. e \in response.defers /\ e \in Nodes /\ Home[e] = Home[n]
        BY HomeIs, LineageIs DEF Nodes
      <3>2. e \notin g.root
        BY <1>12, <1>13, <3>1
      <3>3. added.pending[e] = {}
        BY <1>11
      <3> QED
        BY <1>9, <1>10, <3>1, <3>2, <3>3
    <2> QED
      BY <2>1
  <1>15. \A d \in response.defers : added.ids[d] = 1 => Lineage(d) \cap new = {}
    <2>1. \A d \in response.defers : \A e \in Lineage(d) : Home[e] = Home[d] /\ d \in Nodes
      BY HomeIs DEF Nodes
    <2> QED
      BY <1>10, <1>12, <1>13, <2>1
  <1>16. \A d \in response.defers, s \in response.streams :
            Owns(d, s) /\ (added.ids[s] = 1 \/ s \in new) => Lineage(d) \cap (added.root \cup new) = {}
    <2>1. ASSUME NEW d \in response.defers, NEW s \in response.streams, Owns(d, s),
                 added.ids[s] = 1 \/ s \in new
          PROVE  Lineage(d) \cap (added.root \cup new) = {}
      <3>1. s \notin new
        BY <1>11, <2>1
      <3>2. added.ids[s] = 1 /\ s \in Nodes
        BY <2>1, <3>1 DEF Nodes
      <3>3. Lineage(d) \cap added.root = {}
        BY <1>4, <2>1, <3>2 DEF Sound, Nested
      <3>4. \A e \in Lineage(d) : Home[e] = Home[s]
        BY <2>1, HomeIs DEF Owns
      <3>5. Lineage(d) \cap new = {}
        BY <1>10, <1>12, <1>13, <3>2, <3>4
      <3> QED
        BY <3>3, <3>5
    <2> QED
      BY <2>1
  <1> HIDE DEF good, new, promoted
  <1>17. Sound(promoted, live) /\ Announced(promoted) = Announced(added) \cup new /\ new \cap Announced(added) = {}
    <2>1. \A d \in response.defers : added.ids[d] = 1 => (Lineage(d) \ {d}) \cap new = {}
      BY <1>15
    <2> QED
      BY <1>4, <1>8, <1>9, <1>12, <1>14, <1>16, <2>1, PromoteKeeps
  <1>18. promoted.root = g.root \cup new /\ Announced(added) = Announced(g)
    BY <1>8, <1>10 DEF PromotedTo, Announced
  <1>19. Sound(h, live) /\ h.root = promoted.root /\ h.ids = promoted.ids /\ h.runs = <<>>
    BY <1>17, FlushKeeps
  <1>20. Announced(h) = Announced(promoted) /\ g.root \subseteq Announced(g)
    BY <1>19 DEF Announced, Sound, Numbered
  <1> HIDE DEF h
  <1>21. Grown(g, h, g.root, live)
    BY <1>9, <1>17, <1>18, <1>19, <1>20 DEF Grown
  <1> QED
    BY <1>1, <1>21
\* A fragment taken off the graph.
LEMMA RemovedIs ==
    ASSUME response \in Responses, NEW g \in Graphs, NEW d \in response.defers
    PROVE  \E removed \in Graphs :
           /\ removed.root = g.root \ {d}
           /\ removed.ids = g.ids /\ removed.pending = g.pending /\ removed.children = g.children
           /\ removed.runs = g.runs /\ removed.queue = g.queue /\ removed.tasks = g.tasks
           /\ removed.pumps = g.pumps
           /\ complete_deferred_fragment(g, d) = _flush_runs(_promote_non_empty_to_root(removed, g.children[d]))
  <1> DEFINE results == ToSet(g.successful[d])
             removed == [g EXCEPT
                !.root = @ \ {d},
                !.successful = [e \in response.defers |-> Among(@[e], response.groups \ results)]]
             left == [e \in response.defers |-> Among(g.successful[e], response.groups \ results)]
  <1>1. complete_deferred_fragment(g, d) = _flush_runs(_promote_non_empty_to_root(removed, g.children[d]))
    BY DEF complete_deferred_fragment, Then
  <1>2. removed = [g EXCEPT !.root = g.root \ {d}, !.successful = left]
    OBVIOUS
  <1>3. left \in [response.defers -> Seq(response.groups)]
    <2> DEFINE T == response.groups \ results
    <2> HIDE DEF T
    <2>1. \A e \in response.defers : Among(g.successful[e], T) \in Seq(response.groups)
      BY GraphFields, AmongIs
    <2> QED
      BY <2>1 DEF T
  <1> HIDE DEF left, removed
  <1>4. g.root \ {d} \in SUBSET Nodes
    BY GraphFields
  <1>5. removed \in Graphs
    BY <1>2, <1>3, <1>4 DEF Graphs
  <1>6. /\ removed.root = g.root \ {d}
        /\ removed.ids = g.ids /\ removed.pending = g.pending /\ removed.children = g.children
        /\ removed.runs = g.runs /\ removed.queue = g.queue /\ removed.tasks = g.tasks
        /\ removed.pumps = g.pumps
    BY <1>2, <1>5 DEF Graphs
  <1> QED
    BY <1>1, <1>5, <1>6

\* No two records enclose each other.
LEMMA LineageAcyclic ==
    ASSUME response \in Responses, NEW d \in response.defers, NEW e \in Lineage(d), d \in Lineage(e)
    PROVE  d = e
  <1>1. CASE response.parent[e] = NoParent
    BY <1>1, LineageIs, LineageSteps
  <1>2. CASE response.parent[e] # NoParent /\ e # d
    <2> DEFINE up == response.parent[e]
    <2>1. e \in response.defers
      BY LineageIs
    <2>2. up \in response.defers /\ Lineage(e) = {e} \cup Lineage(up) /\ e \notin Lineage(up)
      BY <1>2, <2>1, LineageSteps, ResponseFacts
    <2>3. d \in Lineage(up)
      BY <1>2, <2>2
    <2>4. Lineage(d) \subseteq Lineage(up)
      BY <2>2, <2>3, LineageSteps
    <2> QED
      BY <2>2, <2>4
  <1> QED
    BY <1>1, <1>2

\* complete_deferred_fragment releases what the completed fragment encloses.
LEMMA FragmentCompletes ==
    ASSUME response \in Responses, Confined(response), NEW live, NEW g, Sound(g, live),
           NEW d \in response.defers, Ready(g, d)
    PROVE  Grown(g, complete_deferred_fragment(g, d), g.root \ {d}, live)
  <1>1. PICK removed \in Graphs :
           /\ removed.root = g.root \ {d}
           /\ removed.ids = g.ids /\ removed.pending = g.pending /\ removed.children = g.children
           /\ removed.runs = g.runs /\ removed.queue = g.queue /\ removed.tasks = g.tasks
           /\ removed.pumps = g.pumps
           /\ complete_deferred_fragment(g, d) = _flush_runs(_promote_non_empty_to_root(removed, g.children[d]))
    BY RemovedIs, SoundFields
  <1>2. g \in Graphs /\ d \in g.root /\ g.pending[d] = {} /\ g.ids[d] = 1 /\ d \in Nodes
    BY SoundFields DEF Ready, Nodes
  <1> DEFINE nodes == g.children[d]
             promoted == _promote_non_empty_to_root(removed, nodes)
             new == NewRootNodes(removed, nodes)
             h == _flush_runs(promoted)
  <1>3. /\ removed \in Graphs /\ removed.root = g.root \ {d}
        /\ removed.ids = g.ids /\ removed.pending = g.pending /\ removed.children = g.children
        /\ removed.runs = g.runs /\ removed.queue = g.queue /\ removed.tasks = g.tasks
        /\ removed.pumps = g.pumps
    BY <1>1
  <1>4. Sound(removed, live)
    <2>1. d \notin response.streams
      BY ResponseFacts
    <2>2. Announced(removed) = Announced(g)
      BY <1>3 DEF Announced
    <2>3. Numbered(removed) /\ Nested(removed) /\ Linked(removed) /\ Fits(removed, live)
      BY <1>3, <2>2 DEF Sound, Numbered, Nested, Linked, Fits
    <2>4. Streaming(removed, live) /\ Waiting(removed.queue, removed, live)
      BY <1>3, <2>1 DEF Sound, Streaming, Waiting, Got
    <2> QED
      BY <2>3, <2>4 DEF Sound
  <1>5. nodes \in SUBSET Nodes
    BY <1>2, GraphFields
  <1>6. PromotedTo(removed, promoted, new)
    BY <1>3, <1>5, PromotedIs
  <1>7. new \in SUBSET Nodes /\ \A n \in new \cap response.defers : g.pending[n] # {}
    BY <1>3, <1>5, NewRootsAre
  <1> DEFINE Above(e) == e \in Lineage(d) \/ (g.pending[e] = {} /\ d \in Lineage(e) \ {e})
             good == {n \in Nodes :
                        /\ Home[n] \in live
                        /\ n \in response.defers => /\ d \in Lineage(n) \ {n}
                                                    /\ \A e \in Lineage(n) \ {n} : Above(e)
                        /\ n \in response.streams =>
                              \E o \in response.defers : /\ Owns(o, n) /\ d \in Lineage(o)
                                                         /\ \A e \in Lineage(o) : Above(e)}
  <1>8. new \subseteq good
    <2>1. ASSUME NEW a \in response.defers, g.pending[a] = {}, d \in Lineage(a),
                 \A e \in Lineage(a) : Above(e), NEW b \in g.children[a]
          PROVE  b \in good
      <3>1. Home[a] \in live
        BY <2>1 DEF Sound, Fits
      <3>2. CASE b \in response.defers /\ response.parent[b] = a
        <4>1. b \notin response.streams /\ b \in Nodes /\ a # NoParent
          BY <3>2, ResponseFacts DEF Nodes
        <4>2. Lineage(b) = {b} \cup Lineage(a) /\ b \notin Lineage(a) /\ a \in Lineage(a)
          BY <3>2, <4>1, LineageSteps, LineageIs
        <4>3. Home[b] = Home[a]
          BY <3>2, <4>2, HomeIs
        <4>4. Lineage(b) \ {b} = Lineage(a)
          BY <4>2
        <4> HIDE DEF Above
        <4> QED
          BY <2>1, <3>1, <3>2, <4>1, <4>3, <4>4
      <3>3. CASE b \in response.streams /\ Owns(a, b)
        <4>1. b \notin response.defers /\ b \in Nodes
          BY <3>3, ResponseFacts DEF Nodes
        <4>2. Home[b] = Home[a]
          BY <3>3, HomeIs DEF Owns
        <4> HIDE DEF Above
        <4> QED
          BY <2>1, <3>1, <3>3, <4>1, <4>2
      <3> QED
        BY <2>1, <3>2, <3>3 DEF Sound, Linked
    <2>2. nodes \subseteq good
      <3>1. d \in Lineage(d) /\ \A e \in Lineage(d) : Above(e)
        BY LineageIs
      <3> HIDE DEF Above, good
      <3> QED
        BY <1>2, <2>1, <3>1
    <2>3. ASSUME NEW a \in response.defers, a \in good, g.pending[a] = {}, NEW b \in g.children[a]
          PROVE  b \in good
      <3>1. d \in Lineage(a) /\ \A e \in Lineage(a) : Above(e)
        BY <2>3
      <3> HIDE DEF Above, good
      <3> QED
        BY <2>1, <2>3, <3>1
    <2> HIDE DEF good
    <2>4. \A a \in response.defers \cap good : removed.pending[a] = {} => \A b \in removed.children[a] : b \in good
      BY <1>3, <2>3
    <2> QED
      BY <1>3, <1>5, <2>2, <2>4, NewRootsAre
  <1> HIDE DEF new, promoted, nodes
  <1>9. ASSUME NEW e \in response.defers, e \in new PROVE d \in Lineage(e) \ {e} /\ g.pending[e] # {}
    BY <1>7, <1>8, <1>9
  <1>10. ASSUME NEW e \in response.defers, Above(e) PROVE e \notin removed.root /\ e \notin new
    <2>1. CASE e \in Lineage(d)
      <3>1. e \notin removed.root
        BY <1>2, <1>3, <2>1 DEF Sound, Nested
      <3>2. e \notin new
        BY <1>9, <2>1, LineageAcyclic
      <3> QED
        BY <3>1, <3>2
    <2>2. CASE g.pending[e] = {} /\ d \in Lineage(e) \ {e}
      <3>1. e \notin g.root
        <4>1. e \in g.root => g.ids[e] = 1
          BY SoundFields
        <4> QED
          BY <1>2, <2>2, <4>1 DEF Sound, Nested
      <3> QED
        BY <1>3, <1>9, <2>2, <3>1
    <2> QED
      BY <1>10, <2>1, <2>2
  <1>11. ASSUME NEW n \in new PROVE removed.ids[n] = 0 /\ Home[n] \in live
    <2>1. n \in Nodes /\ n \in good /\ g.ids[n] \in {0, 1}
      BY <1>7, <1>8, SoundFields
    <2>2. CASE n \in response.defers
      <3>1. g.ids[n] # 1
        BY <1>2, <1>9, <2>2 DEF Sound, Nested
      <3> QED
        BY <1>3, <2>1, <3>1
    <2>3. CASE n \in response.streams
      <3>1. PICK o \in response.defers : Owns(o, n) /\ d \in Lineage(o)
        BY <2>1, <2>3
      <3>2. g.ids[n] # 1
        BY <1>2, <2>3, <3>1 DEF Sound, Nested
      <3> QED
        BY <1>3, <2>1, <3>2
    <2> QED
      BY <2>1, <2>2, <2>3 DEF Nodes
  <1>12. ASSUME NEW n \in new \cap response.defers PROVE (Lineage(n) \ {n}) \cap (removed.root \cup new) = {}
    <2>1. ASSUME NEW e \in Lineage(n) \ {n} PROVE e \notin removed.root /\ e \notin new
      <3>1. e \in response.defers /\ Above(e)
        BY <1>8, LineageIs
      <3> QED
        BY <1>10, <3>1
    <2> QED
      BY <2>1
  <1>13. ASSUME NEW n \in response.defers, NEW e \in Lineage(n), e \in new, d \notin Lineage(n) PROVE FALSE
    <2>1. e \in response.defers /\ Lineage(e) \subseteq Lineage(n)
      BY LineageIs, LineageSteps
    <2> QED
      BY <1>9, <1>13, <2>1
  <1>14. ASSUME NEW n \in response.defers, removed.ids[n] = 1 PROVE (Lineage(n) \ {n}) \cap new = {}
    <2>1. ASSUME NEW e \in Lineage(n) \ {n}, e \in new PROVE FALSE
      <3>1. d \in Lineage(n)
        BY <1>13, <2>1
      <3>2. d = n
        BY <1>2, <1>3, <1>14, <3>1 DEF Sound, Nested
      <3>3. e \in response.defers
        BY <2>1, LineageIs
      <3> QED
        BY <1>9, <2>1, <3>2, <3>3, LineageAcyclic
    <2> QED
      BY <2>1
  <1>15. ASSUME NEW n \in response.defers, NEW s \in response.streams, Owns(n, s),
                removed.ids[s] = 1 \/ s \in new
         PROVE  Lineage(n) \cap (removed.root \cup new) = {}
    <2>1. CASE removed.ids[s] = 1
      <3>1. Lineage(n) \cap g.root = {}
        BY <1>3, <1>15, <2>1 DEF Sound, Nested
      <3>2. d \notin Lineage(n)
        BY <1>2, <3>1
      <3>3. Lineage(n) \cap new = {}
        BY <1>13, <3>2
      <3> QED
        BY <1>3, <3>1, <3>3
    <2>2. CASE s \in new
      <3>1. PICK o \in response.defers : Owns(o, s) /\ \A e \in Lineage(o) : Above(e)
        BY <1>8, <2>2
      <3>2. o = n
        <4>1. PICK b \in response.groups : s \in ToSet(response.reveals[b]) /\ o \in Records(b)
          BY <3>1 DEF Owns
        <4>2. PICK c \in response.groups : s \in ToSet(response.reveals[c]) /\ n \in Records(c)
          BY <1>15 DEF Owns
        <4>3. b = c
          BY <4>1, <4>2, RevealedOnce
        <4> QED
          BY <4>1, <4>2, <4>3 DEF Confined, Records
      <3>3. \A e \in Lineage(n) : e \in response.defers /\ Above(e)
        BY <3>1, <3>2, LineageIs
      <3> HIDE DEF Above
      <3> QED
        BY <1>10, <3>3
    <2> QED
      BY <1>15, <2>1, <2>2
  <1> HIDE DEF good, Above
  <1>16. Sound(promoted, live) /\ Announced(promoted) = Announced(removed) \cup new /\ new \cap Announced(removed) = {}
    BY <1>4, <1>6, <1>7, <1>11, <1>12, <1>14, <1>15, PromoteKeeps
  <1>17. promoted.root = (g.root \ {d}) \cup new /\ Announced(removed) = Announced(g)
    BY <1>3, <1>6 DEF PromotedTo, Announced
  <1>18. Sound(h, live) /\ h.root = promoted.root /\ h.ids = promoted.ids /\ h.runs = <<>>
    BY <1>16, FlushKeeps
  <1>19. Announced(h) = Announced(promoted) /\ g.root \ {d} \subseteq Announced(g)
    BY <1>18 DEF Announced, Sound, Numbered
  <1> HIDE DEF h
  <1>20. Grown(g, h, g.root \ {d}, live)
    BY <1>7, <1>16, <1>17, <1>18, <1>19 DEF Grown
  <1> QED
    BY <1>1, <1>20 DEF h, promoted, nodes
-----------------------------------------------------------------------------
(* The methods keep the types.                                             *)

\* get_new_root_nodes leaves a graph, and nothing to start.
LEMMA NewRootsTyped ==
    ASSUME response \in Responses, NEW g \in Graphs, NEW records \in Seq(Deliverables)
    PROVE  get_new_root_nodes(g, records) \in Graphs /\ get_new_root_nodes(g, records).runs = <<>>
  <1> DEFINE added == _add_incremental_records(g, records, {})
             nodes == Topmost(g, records, {}) \cup (ToSet(records) \cap response.streams)
             promoted == _promote_non_empty_to_root(added, nodes)
  <1>1. get_new_root_nodes(g, records) = _flush_runs(promoted)
    BY DEF get_new_root_nodes, Then
  <1>2. added \in Graphs
    BY AddedIs DEF AddedTo
  <1>3. nodes \in SUBSET Nodes
    BY TouchedIs DEF Topmost, Nodes
  <1> HIDE DEF added, nodes
  <1>4. promoted \in Graphs
    BY <1>2, <1>3, PromotedIs DEF PromotedTo
  <1> HIDE DEF promoted
  <1> QED
    BY <1>1, <1>4, FlushIs

\* The bookkeeping of a group that succeeded.
LEMMA SucceededIs ==
    ASSUME response \in Responses, NEW g \in Graphs, NEW c \in response.groups
    PROVE  LET h == Succeeded(g, c) IN
           /\ h \in Graphs
           /\ h.root = g.root /\ h.ids = g.ids /\ h.children = g.children /\ h.runs = g.runs
           /\ h.queue = g.queue /\ h.tasks = g.tasks /\ h.pumps = g.pumps
           /\ \A d \in response.defers : h.pending[d] = g.pending[d] \ {c}
  <1> DEFINE h == Succeeded(g, c)
             left == [d \in response.defers |-> g.pending[d] \ {c}]
             Again(d) == response.early /\ c \in ToSet(g.successful[d])
             done == [d \in response.defers |->
                        IF d \in Records(c) /\ ~ Again(d) THEN Append(g.successful[d], c) ELSE g.successful[d]]
  <1>1. h = [g EXCEPT !.pending = left, !.successful = done]
    BY DEF Succeeded
  <1>2. left \in [response.defers -> SUBSET response.groups]
    BY GraphFields
  <1>3. done \in [response.defers -> Seq(response.groups)]
    <2> HIDE DEF Again
    <2>1. \A d \in response.defers : g.successful[d] \in Seq(response.groups)
      BY GraphFields
    <2>2. \A d \in response.defers : Append(g.successful[d], c) \in Seq(response.groups)
      BY <2>1, AppendProperties
    <2> QED
      BY <2>1, <2>2
  <1> HIDE DEF h, left, done
  <1>4. h \in Graphs
    BY <1>1, <1>2, <1>3 DEF Graphs
  <1>5. /\ h.root = g.root /\ h.ids = g.ids /\ h.children = g.children /\ h.runs = g.runs
        /\ h.queue = g.queue /\ h.tasks = g.tasks /\ h.pumps = g.pumps /\ h.pending = left
    BY <1>1 DEF Graphs
  <1> QED
    BY <1>4, <1>5 DEF h, left

\* What a bubble spares is a sublist.
LEMMA SurvivingIs ==
    ASSUME response \in Responses, NEW records \in Seq(Deliverables)
    PROVE  Surviving(records) \in Seq(Deliverables) /\ ToSet(Surviving(records)) \subseteq ToSet(records)
  <1> DEFINE T == ToSet(records) \ response.nulled
  <1>1. Surviving(records) = Among(records, T)
    BY DEF Surviving
  <1> HIDE DEF T
  <1>2. Among(records, T) \in Seq(Deliverables) /\ ToSet(Among(records, T)) = ToSet(records) \cap T
    BY AmongIs
  <1> QED
    BY <1>1, <1>2

\* add_completed_group leaves a graph, and nothing to start.
LEMMA CompletedGroupTyped ==
    ASSUME response \in Responses, NEW g \in Graphs, NEW c \in response.groups,
           NEW children \in Seq(Deliverables)
    PROVE  add_completed_group(g, c, children) \in Graphs /\ add_completed_group(g, c, children).runs = <<>>
  <1> DEFINE before == Succeeded(g, c)
             added == _add_incremental_records(before, children, Records(c))
  <1>1. add_completed_group(g, c, children) = _flush_runs(added)
    BY DEF add_completed_group, Then
  <1>2. before \in Graphs
    BY SucceededIs
  <1>3. Records(c) \in SUBSET response.defers
    BY ResponseFacts DEF Records, ToSet
  <1> HIDE DEF before
  <1>4. added \in Graphs
    BY <1>2, <1>3, AddedIs DEF AddedTo
  <1> HIDE DEF added
  <1> QED
    BY <1>1, <1>4, FlushIs

\* complete_deferred_fragment leaves a graph, and nothing to start.
LEMMA FragmentTyped ==
    ASSUME response \in Responses, NEW g \in Graphs, NEW d \in response.defers
    PROVE  /\ complete_deferred_fragment(g, d) \in Graphs
           /\ complete_deferred_fragment(g, d).runs = <<>>
  <1>1. PICK removed \in Graphs :
           complete_deferred_fragment(g, d) = _flush_runs(_promote_non_empty_to_root(removed, g.children[d]))
    BY RemovedIs
  <1>2. g.children[d] \in SUBSET Nodes
    BY GraphFields
  <1>3. _promote_non_empty_to_root(removed, g.children[d]) \in Graphs
    BY <1>2, PromotedIs DEF PromotedTo
  <1> QED
    BY <1>1, <1>3, FlushIs

\* One of the members of a sequence and another is largest.
LEMMA LargestExists ==
    ASSUME NEW S, NEW s \in Seq(S), NEW f, \A x \in S : f[x] \in Nat,
           NEW T, T \subseteq S, NEW t \in T, \A x \in T : x = t \/ x \in ToSet(s)
    PROVE  \E m \in T : \A e \in T : f[e] <= f[m]
  <1> DEFINE n == Len(s)
             good == {m \in 1..n : \E b \in Nat : \A i \in 1..m : f[s[i]] <= b}
             E == {b \in Nat : \A e \in T : f[e] <= b}
  <1>1. n \in Nat /\ DOMAIN s = 1..n /\ \A i \in 1..n : f[s[i]] \in Nat
    OBVIOUS
  <1>2. 1 \in good \/ n = 0
    <2>1. ASSUME n # 0 PROVE 1 \in good
      <3>1. 1 \in 1..n /\ f[s[1]] \in Nat /\ \A i \in 1..1 : i = 1
        BY <1>1, <2>1
      <3> QED
        BY <3>1
    <2> QED
      BY <2>1
  <1>3. ASSUME NEW m \in 1..n, m \in good, m < n PROVE m + 1 \in good
    <2>1. PICK b \in Nat : \A i \in 1..m : f[s[i]] <= b
      BY <1>3
    <2>2. m + 1 \in 1..n /\ \A i \in 1..(m + 1) : i \in 1..m \/ i = m + 1
      BY <1>1, <1>3
    <2>3. PICK c \in Nat : c = f[s[m + 1]]
      BY <1>1, <2>2
    <2>4. \A i \in 1..(m + 1) : f[s[i]] <= b + c
      <3>1. \A i \in 1..m : f[s[i]] \in Nat /\ f[s[i]] <= b
        BY <1>1, <2>1
      <3>2. c <= b + c /\ \A x \in Nat : x <= b => x <= b + c
        OBVIOUS
      <3> QED
        BY <2>2, <2>3, <3>1, <3>2
    <2>5. b + c \in Nat
      OBVIOUS
    <2> QED
      BY <2>2, <2>4, <2>5
  <1>4. 1..n \subseteq good
    <2> HIDE DEF good, n
    <2> QED
      BY <1>1, <1>2, <1>3, UpTo
  <1>5. PICK b \in Nat : \A x \in ToSet(s) : f[x] <= b
    <2>1. \E b \in Nat : \A i \in 1..n : f[s[i]] <= b
      <3>1. CASE n = 0
        <4>1. 1..n = {} /\ 0 \in Nat
          BY <3>1
        <4> QED
          BY <4>1
      <3>2. CASE n # 0
        <4>1. n \in 1..n
          BY <1>1, <3>2
        <4>2. n \in good
          BY <1>4, <4>1
        <4> QED
          BY <4>2
      <3> QED
        BY <3>1, <3>2
    <2> QED
      BY <1>1, <2>1 DEF ToSet
  <1>6. f[t] \in Nat /\ \A x \in T : f[x] \in Nat
    OBVIOUS
  <1>7. b + f[t] \in E
    <2>1. \A x \in T : f[x] <= b + f[t]
      <3>1. \A x, y \in Nat : x <= b => x <= b + y
        OBVIOUS
      <3>2. \A y \in Nat : y <= b + y
        OBVIOUS
      <3> QED
        BY <1>5, <1>6, <3>1, <3>2
    <2> QED
      BY <1>6, <2>1
  <1>8. PICK a \in E : \A e \in E : a <= e
    <2>1. E \subseteq Nat /\ E # {}
      BY <1>7
    <2> HIDE DEF E
    <2> QED
      BY <2>1, LeastExists
  <1>9. ASSUME \A m \in T : f[m] # a PROVE FALSE
    <2>1. \A e \in T : f[e] <= a - 1
      BY <1>6, <1>8, <1>9
    <2>2. a - 1 \in Nat /\ ~ (a <= a - 1)
      BY <1>6, <1>8, <1>9
    <2> QED
      BY <1>8, <2>1, <2>2
  <1> QED
    BY <1>8, <1>9

\* The data of a group goes to a fragment.
LEMMA BestIs ==
    ASSUME response \in Responses, NEW c \in response.groups, NEW record \in response.defers, NEW ids
    PROVE  _best_id(c, record, ids) \in {record} \cup {d \in Records(c) : ids[d] > 0}
  <1> DEFINE announced == {record} \cup {d \in Records(c) : ids[d] > 0}
             longest == {d \in announced : \A e \in announced : response.depth[e] <= response.depth[d]}
             records == response.records[c]
  <1>1. records \in Seq(response.defers) /\ \A d \in response.defers : response.depth[d] \in Nat
    BY ResponseFacts
  <1>2. /\ announced \subseteq response.defers /\ record \in announced
        /\ \A x \in announced : x = record \/ x \in ToSet(records)
    BY <1>1 DEF Records, ToSet
  <1>3. _best_id(c, record, ids) = IF record \in longest THEN record ELSE Among(records, longest)[1]
    BY DEF _best_id
  <1>4. \E m \in announced : \A e \in announced : response.depth[e] <= response.depth[m]
    <2> DEFINE D == response.defers
               f == response.depth
    <2>1. records \in Seq(D) /\ (\A x \in D : f[x] \in Nat) /\ announced \subseteq D
      BY <1>1, <1>2
    <2> HIDE DEF announced, records, D, f
    <2>2. \E m \in announced : \A e \in announced : f[e] <= f[m]
      BY <1>2, <2>1, LargestExists
    <2> QED
      BY <2>2 DEF f
  <1>5. ASSUME record \notin longest PROVE Among(records, longest)[1] \in announced
    <2>1. longest \subseteq announced /\ \E m \in longest : m \in ToSet(records)
      BY <1>2, <1>4, <1>5
    <2> HIDE DEF longest, announced, records
    <2> DEFINE s == Among(records, longest)
    <2>2. s \in Seq(ToSet(records) \cap longest) /\ ToSet(s) = ToSet(records) \cap longest
      BY <1>1, AmongIs
    <2>3. DOMAIN s = 1..Len(s) /\ Len(s) \in Nat /\ DOMAIN s # {}
      BY <2>1, <2>2 DEF ToSet
    <2> HIDE DEF s
    <2>4. 1 \in DOMAIN s
      BY <2>3
    <2>5. s[1] \in ToSet(s)
      BY <2>4 DEF ToSet
    <2> QED
      BY <2>1, <2>2, <2>5 DEF s
  <1> QED
    BY <1>2, <1>3, <1>5
\* The ids given out between two graphs are ids.
LEMMA FreshIs ==
    ASSUME response \in Responses, NEW g, NEW h \in Graphs
    PROVE  Fresh(g, h) \subseteq Ids
  BY GraphFields DEF Fresh, Id, Ids

\* A state CompleteRecords goes through.
States == [graph : {g \in Graphs : g.runs = <<>>}, payload : Payloads]

\* The entries of a fragment's groups.
Delivered(results, next, d) ==
    [i \in DOMAIN results |->
        [to |-> Id(next, _best_id(results[i], d, next.ids)), of |-> results[i], items |-> {}]]

\* The entries of a fragment's groups are entries.
LEMMA DeliveredTyped ==
    ASSUME response \in Responses, NEW next \in Graphs, NEW d \in response.defers,
           NEW results \in Seq(response.groups)
    PROVE  Delivered(results, next, d) \in Seq(Entries)
  <1> DEFINE data == Delivered(results, next, d)
  <1>1. DOMAIN results = 1..Len(results) /\ Len(results) \in Nat
    OBVIOUS
  <1>2. ASSUME NEW i \in 1..Len(results)
        PROVE  [to |-> Id(next, _best_id(results[i], d, next.ids)), of |-> results[i], items |-> {}] \in Entries
    <2>1. results[i] \in response.groups
      BY <1>1
    <2>2. _best_id(results[i], d, next.ids) \in Nodes
      <3>1. Records(results[i]) \subseteq response.defers
        BY <2>1, ResponseFacts DEF Records, ToSet
      <3> QED
        BY <2>1, <3>1, BestIs DEF Nodes
    <2>3. Id(next, _best_id(results[i], d, next.ids)) \in Ids
      BY <2>2, GraphFields DEF Id, Ids
    <2>4. results[i] \in Deliverables /\ {} \in SUBSET (1..MaxItems)
      BY <2>1 DEF Deliverables
    <2> QED
      BY <2>3, <2>4 DEF Entries
  <1>3. data \in [1..Len(results) -> Entries]
    BY <1>1, <1>2 DEF Delivered
  <1> HIDE DEF data
  <1>4. data \in Seq(Entries)
    BY <1>1, <1>3
  <1> QED
    BY <1>4 DEF data

\* CompleteRecord leads from state to state.
LEMMA RecordCompletesTyped ==
    ASSUME response \in Responses, NEW state \in States, NEW d \in response.defers
    PROVE  CompleteRecord(state, d) \in States
  <1> DEFINE g == state.graph
             p == state.payload
             next == complete_deferred_fragment(g, d)
             results == g.successful[d]
             data == Delivered(results, next, d)
             pending == p.pending \cup Fresh(g, next)
  <1>1. g \in Graphs /\ g.runs = <<>> /\ p \in Payloads
    BY DEF States
  <1>2. next \in Graphs /\ next.runs = <<>>
    BY <1>1, FragmentTyped
  <1>3. p.pending \in SUBSET Ids /\ p.incremental \in Seq(Entries) /\ p.completed \in Seq(Ids)
    BY <1>1 DEF Payloads
  <1>4. results \in Seq(response.groups)
    BY <1>1, GraphFields
  <1> HIDE DEF next, g, p, results
  <1>5. \A n \in Nodes : Id(next, n) \in Ids
    BY <1>2, GraphFields DEF Id, Ids
  <1>6. data \in Seq(Entries)
    BY <1>2, <1>4, DeliveredTyped
  <1>7. pending \in SUBSET Ids
    BY <1>2, <1>3, FreshIs
  <1>8. Append(p.completed, Id(next, d)) \in Seq(Ids)
    <2>1. Id(next, d) \in Ids
      BY <1>5 DEF Nodes
    <2> QED
      BY <1>3, <2>1, AppendProperties
  <1> HIDE DEF data, pending
  <1>9. p.incremental \o data \in Seq(Entries)
    BY <1>3, <1>6, ConcatProperties
  <1> DEFINE after == [pending |-> pending, incremental |-> p.incremental \o data,
                       completed |-> Append(p.completed, Id(next, d))]
  <1>10. after \in Payloads
    BY <1>7, <1>8, <1>9 DEF Payloads
  <1>11. CASE Ready(g, d)
    <2>1. CompleteRecord(state, d) = [graph |-> next, payload |-> after]
      BY <1>11 DEF CompleteRecord, Then, next, g, p, results, data, pending, Delivered
    <2> HIDE DEF after
    <2> QED
      BY <1>2, <1>10, <2>1 DEF States
  <1>12. CASE ~Ready(g, d)
    BY <1>12 DEF CompleteRecord, g
  <1> QED
    BY <1>11, <1>12
IsRun(f, state, records, n) ==
    f = [i \in 0..n |-> IF i = 0 THEN state ELSE CompleteRecord(f[i - 1], records[i])]

\* The recursive function of CompleteRecords exists.
LEMMA RunExists ==
    ASSUME NEW state, NEW records, NEW n \in Nat
    PROVE  \E f : IsRun(f, state, records, n)
  <1> DEFINE runs == {m \in 1..(n + 1) : \E f : IsRun(f, state, records, m - 1)}
  <1>1. 1 \in runs
    <2> DEFINE f == [i \in 0..0 |-> state]
    <2>1. IsRun(f, state, records, 0)
      BY DEF IsRun
    <2>2. 1 \in 1..(n + 1) /\ 1 - 1 = 0
      OBVIOUS
    <2> HIDE DEF f
    <2> QED
      BY <2>1, <2>2
  <1>2. ASSUME NEW m \in 1..(n + 1), m \in runs, m < n + 1 PROVE m + 1 \in runs
    <2>1. PICK f : IsRun(f, state, records, m - 1)
      BY <1>2
    <2> DEFINE h == [i \in 0..m |-> IF i = m THEN CompleteRecord(f[m - 1], records[m]) ELSE f[i]]
    <2>2. ASSUME NEW i \in 0..m
          PROVE  h[i] = IF i = 0 THEN state ELSE CompleteRecord(h[i - 1], records[i])
      <3>1. CASE i = m
        <4>1. i # 0 /\ m - 1 \in 0..m /\ m - 1 # m
          BY <3>1
        <4>2. h[i - 1] = f[m - 1] /\ h[i] = CompleteRecord(f[m - 1], records[m])
          BY <3>1, <4>1
        <4> QED
          BY <3>1, <4>1, <4>2
      <3>2. CASE i # m
        <4>1. i \in 0..(m - 1) /\ (i # 0 => i - 1 \in 0..m /\ i - 1 # m)
          BY <3>2
        <4>2. f[i] = IF i = 0 THEN state ELSE CompleteRecord(f[i - 1], records[i])
          BY <2>1, <4>1 DEF IsRun
        <4> QED
          BY <3>2, <4>1, <4>2
      <3> QED
        BY <3>1, <3>2
    <2>3. h = [i \in 0..m |-> h[i]]
      OBVIOUS
    <2> HIDE DEF h
    <2>4. IsRun(h, state, records, m)
      BY <2>2, <2>3 DEF IsRun
    <2>5. m + 1 \in 1..(n + 1) /\ (m + 1) - 1 = m
      BY <1>2
    <2> QED
      BY <2>4, <2>5
  <1>3. 1..(n + 1) \subseteq runs
    <2> HIDE DEF runs
    <2>1. n + 1 \in Nat
      OBVIOUS
    <2> QED
      BY <1>1, <1>2, <2>1, UpTo
  <1>4. n + 1 \in 1..(n + 1) /\ (n + 1) - 1 = n
    OBVIOUS
  <1>5. n + 1 \in runs
    BY <1>3, <1>4
  <1> QED
    BY <1>4, <1>5

\* What completing one record after the other makes of a state is where it leads
\* record by record.
LEMMA RecordsComplete ==
    ASSUME NEW state, NEW S, NEW records \in Seq(S),
           NEW good, state \in good,
           \A s \in good : \A d \in ToSet(records) : CompleteRecord(s, d) \in good
    PROVE  CompleteRecords(state, records) \in good
  <1> DEFINE n == Len(records)
             f == CHOOSE f : f = [i \in 0..n |-> IF i = 0 THEN state
                                                ELSE LET Next_(before) == CompleteRecord(before, records[i])
                                                     IN Then(f[i - 1], Next_)]
  <1>1. n \in Nat /\ \A i \in 1..n : records[i] \in ToSet(records)
    BY DEF ToSet
  <1>2. CompleteRecords(state, records) = f[n]
    BY DEF CompleteRecords
  <1>3. \E h : h = [i \in 0..n |-> IF i = 0 THEN state
                                  ELSE LET Next_(before) == CompleteRecord(before, records[i])
                                       IN Then(h[i - 1], Next_)]
    <2>1. PICK h : IsRun(h, state, records, n)
      BY <1>1, RunExists
    <2>2. h = [i \in 0..n |-> IF i = 0 THEN state
                             ELSE LET Next_(before) == CompleteRecord(before, records[i])
                                  IN Then(h[i - 1], Next_)]
      BY <2>1 DEF IsRun, Then
    <2> QED
      BY <2>2
  <1>4. f = [i \in 0..n |-> IF i = 0 THEN state
                           ELSE LET Next_(before) == CompleteRecord(before, records[i])
                                IN Then(f[i - 1], Next_)]
    BY <1>3
  <1> HIDE DEF f
  <1>5. IsRun(f, state, records, n)
    BY <1>4 DEF IsRun, Then
  <1> DEFINE reached == {m \in 1..(n + 1) : f[m - 1] \in good}
  <1>6. f[0] = state /\ \A i \in 1..n : f[i] = CompleteRecord(f[i - 1], records[i])
    <2>1. 0 \in 0..n /\ \A i \in 1..n : i \in 0..n /\ i # 0
      BY <1>1
    <2> HIDE DEF n
    <2> QED
      BY <1>5, <2>1 DEF IsRun
  <1>7. 1 \in reached
    <2>1. 1 \in 1..(n + 1) /\ 1 - 1 = 0
      BY <1>1
    <2> QED
      BY <1>6, <2>1
  <1>8. ASSUME NEW m \in 1..(n + 1), m \in reached, m < n + 1 PROVE m + 1 \in reached
    <2>1. m \in 1..n /\ m + 1 \in 1..(n + 1) /\ (m + 1) - 1 = m
      BY <1>1, <1>8
    <2>2. f[m] = CompleteRecord(f[m - 1], records[m]) /\ f[m - 1] \in good
      BY <1>6, <1>8, <2>1
    <2>3. f[m] \in good
      BY <1>1, <2>1, <2>2
    <2> QED
      BY <2>1, <2>3
  <1>9. 1..(n + 1) \subseteq reached
    <2> HIDE DEF reached, n
    <2>1. n + 1 \in Nat
      BY <1>1
    <2> QED
      BY <1>7, <1>8, <2>1, UpTo
  <1>10. n + 1 \in 1..(n + 1) /\ (n + 1) - 1 = n
    BY <1>1
  <1>11. n + 1 \in reached
    BY <1>9, <1>10
  <1> QED
    BY <1>2, <1>10, <1>11
-----------------------------------------------------------------------------
(* What the publisher does to a sound graph, and what it tells the client. *)

\* add_completed_group keeps the graph sound and its root nodes.
LEMMA CompletedGroupKeeps ==
    ASSUME response \in Responses, Confined(response), NEW live, NEW g, Sound(g, live),
           NEW c \in response.groups, Home[c] \in live
    PROVE  LET h == add_completed_group(g, c, Surviving(response.reveals[c])) IN
           Sound(h, live) /\ h.root = g.root /\ h.ids = g.ids /\ h.runs = <<>>
  <1> DEFINE children == Surviving(response.reveals[c])
             before == Succeeded(g, c)
             added == _add_incremental_records(before, children, Records(c))
             h == _flush_runs(added)
  <1>1. h = add_completed_group(g, c, children)
    BY DEF add_completed_group, Then
  <1>2. children \in Seq(Deliverables) /\ ToSet(children) \subseteq ToSet(response.reveals[c])
    BY SurvivingIs, ResponseFacts
  <1>3. Records(c) \in SUBSET response.defers
    BY ResponseFacts DEF Records, ToSet
  <1>4. /\ before \in Graphs
        /\ before.root = g.root /\ before.ids = g.ids /\ before.children = g.children /\ before.runs = g.runs
        /\ before.queue = g.queue /\ before.tasks = g.tasks /\ before.pumps = g.pumps
        /\ \A d \in response.defers : before.pending[d] = g.pending[d] \ {c}
    BY SoundFields, SucceededIs
  <1> HIDE DEF before, children
  <1>5. Sound(before, live)
    <2>1. Announced(before) = Announced(g)
      BY <1>4 DEF Announced
    <2>2. Numbered(before) /\ Nested(before) /\ Linked(before) /\ Fits(before, live)
      BY <1>4, <2>1 DEF Sound, Numbered, Nested, Linked, Fits
    <2>3. Streaming(before, live) /\ Waiting(before.queue, before, live)
      BY <1>4 DEF Sound, Streaming, Waiting, Got
    <2> QED
      BY <2>2, <2>3 DEF Sound
  <1>6. Sound(added, live)
    <2>1. \A x \in ToSet(children) : Home[x] \in live
      BY <1>2, HomeIs
    <2>2. \A d \in Records(c) : Home[d] \in live
      BY HomeIs
    <2>3. \A d \in Records(c) : \A s \in ToSet(children) \cap response.streams : Owns(d, s)
      BY <1>2 DEF Owns
    <2> QED
      BY <1>2, <1>3, <1>5, <2>1, <2>2, <2>3, AddKeeps
  <1>7. added.root = g.root /\ added.ids = g.ids
    <2>1. AddedTo(before, added, children, Records(c))
      BY <1>2, <1>3, <1>4, AddedIs
    <2> HIDE DEF added
    <2> QED
      BY <1>4, <2>1 DEF AddedTo
  <1> HIDE DEF added
  <1>8. Sound(h, live) /\ h.root = added.root /\ h.ids = added.ids /\ h.runs = <<>>
    BY <1>6, FlushKeeps
  <1> QED
    BY <1>1, <1>7, <1>8 DEF children

\* The ids given out between two graphs are those of the nodes that became root.
Naming(g, h, root) ==
    /\ Names(Announced(h)) = Names(Announced(g)) \cup Fresh(g, h)
    /\ Names(Announced(h) \ h.root) = Names(Announced(g) \ root)
    /\ \A n \in Announced(g) : Id(h, n) = <<n, 1>>

\* What Grown says of the nodes, Naming says of their ids.
LEMMA FreshNames ==
    ASSUME response \in Responses, NEW live, NEW g, Sound(g, live), NEW root, NEW h, Grown(g, h, root, live)
    PROVE  Naming(g, h, root)
  <1>1. PICK new \in SUBSET Nodes :
           /\ h.root = root \cup new
           /\ Announced(h) = Announced(g) \cup new /\ new \cap Announced(g) = {}
    BY DEF Grown
  <1>2. \A n \in Nodes : g.ids[n] \in {0, 1} /\ h.ids[n] \in {0, 1}
    BY SoundFields DEF Grown
  <1>3. \A n \in Nodes : /\ n \in Announced(g) <=> g.ids[n] = 1
                         /\ n \in Announced(h) <=> h.ids[n] = 1
    BY DEF Announced
  <1>4. Announced(g) \subseteq Nodes /\ Announced(h) \subseteq Nodes
    BY DEF Announced
  <1>5. {n \in Nodes : h.ids[n] # g.ids[n]} = new
    BY <1>1, <1>2, <1>3
  <1>6. Fresh(g, h) = Names(new)
    <2>1. \A n \in new : Id(h, n) = <<n, 1>>
      BY <1>1, <1>3 DEF Id
    <2> QED
      BY <1>5, <2>1 DEF Fresh, Names
  <1>7. Names(Announced(h)) = Names(Announced(g)) \cup Fresh(g, h)
    BY <1>1, <1>6 DEF Names
  <1>8. root \subseteq Announced(g)
    BY DEF Grown
  <1>9. Announced(h) \ h.root = Announced(g) \ root
    BY <1>1
  <1>10. \A n \in Announced(g) : Id(h, n) = <<n, 1>>
    BY <1>1, <1>3, <1>4 DEF Id
  <1> QED
    BY <1>7, <1>9, <1>10 DEF Naming

\* A payload in the making, with the graph it speaks of, for a client that has
\* seen the ones before.
Held(g, p, c, live) ==
    /\ Sound(g, live) /\ g.runs = <<>>
    /\ p \in Payloads
    /\ Told(g, p, c) /\ Live(p, c) = live
    /\ p.incremental = <<>> /\ p.completed = <<>> => p.pending = {}

\* The payload q is p with entries, or with completed ids, put at its end.
Delivers(p, q, more) == q.incremental = p.incremental \o more
Completes(p, q, more) == q.completed = p.completed \o more

\* The passes an entry tells the client of.
PassesOf(more) == UNION {{<<e.of, i>> : i \in e.items} : e \in ToSet(more)}

\* The passes the client knows once a payload has more entries.
LEMMA LiveGrows ==
    ASSUME NEW c, NEW p \in Payloads, NEW q, NEW more \in Seq(Entries), Delivers(p, q, more)
    PROVE  Live(q, c) = Live(p, c) \cup PassesOf(more)
  <1>1. p.incremental \in Seq(Entries)
    BY DEF Payloads
  <1>2. ToSet(q.incremental) = ToSet(p.incremental) \cup ToSet(more)
    BY <1>1, Concatenated DEF Delivers
  <1> DEFINE S == ToSet(c.data) \cup ToSet(p.incremental)
             T == ToSet(more)
             Of(e) == {<<e.of, i>> : i \in e.items}
  <1>3. ToSet(c.data) \cup ToSet(q.incremental) = S \cup T
    BY <1>2
  <1>4. Live(q, c) = {<<>>} \cup UNION {Of(e) : e \in S \cup T}
    BY <1>3 DEF Live
  <1>5. Live(p, c) = {<<>>} \cup UNION {Of(e) : e \in S}
    BY DEF Live
  <1> HIDE DEF S, T, Of
  <1>6. {<<>>} \cup UNION {Of(e) : e \in S \cup T} = ({<<>>} \cup UNION {Of(e) : e \in S}) \cup UNION {Of(e) : e \in T}
    OBVIOUS
  <1>7. Live(q, c) = Live(p, c) \cup UNION {Of(e) : e \in T}
    BY <1>4, <1>5, <1>6
  <1> QED
    BY <1>7 DEF Of, T, PassesOf
\* Ids of root nodes join the completed ones.
Completing(g, root, completed, c) ==
    /\ c.completed \cup ToSet(completed) = Names(Announced(g) \ root)
    /\ c.completed \cap ToSet(completed) = {}
    /\ IsInjective(completed)

\* The completed ids once nodes have left the root and the payload says so.
LEMMA CompletedGrow ==
    ASSUME NEW g, g.root \subseteq Announced(g), NEW p \in Payloads, NEW c, Told(g, p, c),
           NEW S, S \subseteq g.root,
           NEW more \in Seq(Ids), IsInjective(more), ToSet(more) = Names(S),
           NEW q, Completes(p, q, more)
    PROVE  Completing(g, g.root \ S, q.completed, c)
  <1> DEFINE completed == q.completed
  <1>1. p.completed \in Seq(Ids)
    BY DEF Payloads
  <1>2. /\ c.completed \cup ToSet(p.completed) = Names(Announced(g) \ g.root)
        /\ c.completed \cap ToSet(p.completed) = {}
        /\ IsInjective(p.completed)
    BY DEF Told
  <1>3. Names(Announced(g) \ g.root) \cap Names(S) = {}
    BY DEF Names
  <1>4. Names(Announced(g) \ (g.root \ S)) = Names(Announced(g) \ g.root) \cup Names(S)
    <2>1. Announced(g) \ (g.root \ S) = (Announced(g) \ g.root) \cup S
      OBVIOUS
    <2>2. \A A, B : Names(A \cup B) = Names(A) \cup Names(B)
      BY DEF Names
    <2> QED
      BY <2>1, <2>2
  <1>5. ToSet(p.completed) \cap ToSet(more) = {}
    BY <1>2, <1>3
  <1>6. ToSet(completed) = ToSet(p.completed) \cup ToSet(more) /\ IsInjective(completed)
    BY <1>1, <1>2, <1>5, Concatenated DEF Completes
  <1> HIDE DEF completed
  <1>7. /\ c.completed \cup ToSet(completed) = Names(Announced(g) \ (g.root \ S))
        /\ c.completed \cap ToSet(completed) = {}
    BY <1>2, <1>3, <1>4, <1>6
  <1> QED
    BY <1>6, <1>7 DEF completed, Completing

\* A sequence with one more at its end.
LEMMA OneMore ==
    ASSUME NEW S, NEW s \in Seq(S), NEW x \in S
    PROVE  /\ Append(s, x) = s \o <<x>> /\ <<x>> \in Seq(S)
           /\ IsInjective(<<x>>) /\ ToSet(<<x>>) = {x}
  BY DEF IsInjective, ToSet

\* CompleteRecord tells the client of the fragment and of what it releases.
LEMMA RecordCompletesKeeps ==
    ASSUME response \in Responses, Confined(response), NEW live, NEW c,
           NEW state \in States, Held(state.graph, state.payload, c, live),
           NEW d \in response.defers
    PROVE  LET next == CompleteRecord(state, d) IN Held(next.graph, next.payload, c, live)
  <1> DEFINE g == state.graph
             p == state.payload
             next == complete_deferred_fragment(g, d)
             results == g.successful[d]
             data == Delivered(results, next, d)
             q == [pending |-> p.pending \cup Fresh(g, next), incremental |-> p.incremental \o data,
                   completed |-> Append(p.completed, Id(next, d))]
  <1>1. CASE Ready(g, d)
    <2>1. CompleteRecord(state, d) = [graph |-> next, payload |-> q]
      BY <1>1 DEF CompleteRecord, Then, Delivered
    <2>2. CompleteRecord(state, d) \in States
      BY RecordCompletesTyped
    <2>3. Sound(g, live) /\ p \in Payloads /\ Told(g, p, c) /\ Live(p, c) = live
      BY DEF Held
    <2> DEFINE root == g.root \ {d}
               id == <<d, 1>>
    <2>4. Grown(g, next, root, live)
      BY <1>1, <2>3, FragmentCompletes
    <2>5. d \in g.root /\ g.root \subseteq Announced(g)
      BY <1>1, <2>3 DEF Ready, Sound, Numbered
    <2>6. g \in Graphs /\ next \in Graphs /\ results \in Seq(response.groups)
      BY <2>3, <2>4, SoundFields, GraphFields DEF Grown
    <2> HIDE DEF g, p, next, results, root, data
    <2>7. Naming(g, next, root)
      BY <2>3, <2>4, FreshNames
    <2>8. Id(next, d) = id /\ id \in Ids
      <3>1. Id(next, d) = id
        BY <2>5, <2>7 DEF Naming
      <3> QED
        BY <3>1 DEF Ids, Nodes
    <2>9. Sound(next, live) /\ next.runs = <<>>
      BY <2>4 DEF Grown
    <2>10. q \in Payloads /\ p.completed \in Seq(Ids) /\ data \in Seq(Entries)
      BY <2>1, <2>2, <2>3, <2>6, DeliveredTyped DEF States, Payloads, data
    <2>11. /\ q.pending = p.pending \cup Fresh(g, next) /\ Delivers(p, q, data)
           /\ q.completed = Append(p.completed, id)
      BY <2>8 DEF Delivers
    <2> HIDE DEF q, id
    <2>12. /\ Completes(p, q, <<id>>) /\ <<id>> \in Seq(Ids)
           /\ IsInjective(<<id>>) /\ ToSet(<<id>>) = Names({d})
      <3>1. Names({d}) = {id}
        BY DEF Names, id
      <3>2. Append(p.completed, id) = p.completed \o <<id>> /\ <<id>> \in Seq(Ids)
            /\ IsInjective(<<id>>) /\ ToSet(<<id>>) = {id}
        BY <2>8, <2>10, OneMore
      <3> QED
        BY <2>11, <3>1, <3>2 DEF Completes
    <2>13. Told(next, q, c)
      <3>1. Completing(g, root, q.completed, c)
        <4>1. {d} \subseteq g.root
          BY <2>5
        <4> QED
          BY <2>3, <2>5, <2>12, <4>1, CompletedGrow DEF root
      <3>2. c.announced \cup q.pending = Names(Announced(next))
        BY <2>3, <2>7, <2>11 DEF Told, Naming
      <3> QED
        BY <2>7, <3>1, <3>2 DEF Told, Naming, Completing
    <2>14. Live(q, c) = live
      <3>1. \A e \in ToSet(data) : e.items = {}
        BY DEF ToSet, data, Delivered
      <3>2. Live(q, c) = Live(p, c) \cup PassesOf(data)
        BY <2>3, <2>10, <2>11, LiveGrows
      <3>3. PassesOf(data) = {}
        BY <3>1 DEF PassesOf
      <3> QED
        BY <2>3, <3>2, <3>3
    <2>15. q.completed # <<>>
      BY <2>8, <2>10, <2>11, AppendProperties
    <2>16. Held(next, q, c, live)
      BY <2>9, <2>10, <2>13, <2>14, <2>15 DEF Held
    <2> QED
      BY <2>1, <2>16 DEF next, q, p, g, results, id, data
  <1>2. CASE ~Ready(g, d)
    BY <1>2 DEF CompleteRecord
  <1> QED
    BY <1>1, <1>2
-----------------------------------------------------------------------------
(* The types.                                                              *)

\* The response never changes, nor what it says.
LEMMA Steady ==
    ASSUME response' = response
    PROVE  /\ Nodes' = Nodes /\ Deliverables' = Deliverables /\ Ids' = Ids /\ Entries' = Entries
           /\ Payloads' = Payloads /\ Graphs' = Graphs /\ Completions' = Completions
           /\ EmptyGraph' = EmptyGraph
  <1>1. Nodes' = Nodes /\ Deliverables' = Deliverables
    BY DEF Nodes, Deliverables
  <1>2. Ids' = Ids
    BY <1>1 DEF Ids
  <1>3. Entries' = Entries
    BY <1>1, <1>2 DEF Entries
  <1>4. Payloads' = Payloads
    BY <1>2, <1>3 DEF Payloads
  <1>5. Completions' = Completions
    BY <1>1 DEF Completions
  <1>6. Graphs' = Graphs
    BY <1>1 DEF Graphs
  <1>7. EmptyGraph' = EmptyGraph
    BY <1>1 DEF EmptyGraph
  <1> QED
    BY <1>1, <1>2, <1>3, <1>4, <1>5, <1>6, <1>7

\* The first record taken off the queue.
Popped(g) == [g EXCEPT !.queue = Tail(@)]

\* What a graph is without the head of its queue.
LEMMA PoppedIs ==
    ASSUME NEW g \in Graphs, g.queue # <<>>
    PROVE  /\ Popped(g) \in Graphs /\ Head(g.queue) \in Completions
           /\ Popped(g).root = g.root /\ Popped(g).ids = g.ids /\ Popped(g).pending = g.pending
           /\ Popped(g).successful = g.successful /\ Popped(g).children = g.children
           /\ Popped(g).runs = g.runs /\ Popped(g).tasks = g.tasks /\ Popped(g).pumps = g.pumps
           /\ 1 \in DOMAIN g.queue /\ Head(g.queue) = g.queue[1]
           /\ \A p \in DOMAIN Popped(g).queue :
                 p \in Nat /\ p + 1 \in DOMAIN g.queue /\ Popped(g).queue[p] = g.queue[p + 1]
  <1> DEFINE queue == g.queue
             rest == Tail(queue)
  <1>1. queue \in Seq(Completions) /\ queue # <<>>
    BY GraphFields
  <1>2. rest \in Seq(Completions) /\ Head(queue) \in Completions
    <2> HIDE DEF queue
    <2> QED
      BY <1>1, HeadTailProperties
  <1>3. /\ 1 \in DOMAIN queue /\ Head(queue) = queue[1]
        /\ \A p \in DOMAIN rest : p \in Nat /\ p + 1 \in DOMAIN queue /\ rest[p] = queue[p + 1]
    <2> HIDE DEF queue
    <2>1. /\ Len(queue) \in Nat /\ Len(queue) # 0 /\ DOMAIN queue = 1..Len(queue)
          /\ Len(rest) = Len(queue) - 1 /\ DOMAIN rest = 1..Len(rest)
          /\ \A i \in 1..Len(rest) : rest[i] = queue[i + 1]
      BY <1>1, <1>2, HeadTailProperties
    <2>2. 1 \in DOMAIN queue /\ Head(queue) = queue[1]
      BY <1>1, <2>1
    <2> HIDE DEF rest
    <2>3. \A p \in 1..Len(rest) : p \in Nat /\ p + 1 \in 1..Len(queue)
      BY <2>1
    <2> QED
      BY <2>1, <2>2, <2>3
  <1> HIDE DEF rest
  <1>4. Popped(g) = [g EXCEPT !.queue = rest]
    BY DEF Popped, rest
  <1>5. Popped(g) \in Graphs
    BY <1>2, <1>4 DEF Graphs, Completions
  <1>6. /\ Popped(g).root = g.root /\ Popped(g).ids = g.ids /\ Popped(g).pending = g.pending
        /\ Popped(g).successful = g.successful /\ Popped(g).children = g.children
        /\ Popped(g).runs = g.runs /\ Popped(g).tasks = g.tasks /\ Popped(g).pumps = g.pumps
        /\ Popped(g).queue = rest
    BY <1>4 DEF Graphs
  <1> QED
    BY <1>2, <1>3, <1>5, <1>6

\* Nodes taken off the root.
LEMMA Unrooted ==
    ASSUME NEW g \in Graphs, NEW S
    PROVE  LET h == [g EXCEPT !.root = @ \ S] IN
           /\ h \in Graphs /\ h.root = g.root \ S
           /\ h.ids = g.ids /\ h.pending = g.pending /\ h.successful = g.successful /\ h.children = g.children
           /\ h.runs = g.runs /\ h.queue = g.queue /\ h.tasks = g.tasks /\ h.pumps = g.pumps
  <1> DEFINE h == [g EXCEPT !.root = @ \ S]
             root == g.root \ S
  <1>1. h = [g EXCEPT !.root = root] /\ root \in SUBSET Nodes
    BY GraphFields
  <1> HIDE DEF root
  <1>2. h \in Graphs
    BY <1>1 DEF Graphs
  <1>3. /\ h.root = root
        /\ h.ids = g.ids /\ h.pending = g.pending /\ h.successful = g.successful /\ h.children = g.children
        /\ h.runs = g.runs /\ h.queue = g.queue /\ h.tasks = g.tasks /\ h.pumps = g.pumps
    BY <1>1 DEF Graphs
  <1> QED
    BY <1>2, <1>3 DEF root

\* The ids of some of a group's records, in their order.
IdsOf(g, records) == [i \in DOMAIN records |-> Id(g, records[i])]

\* A group's records and their ids are in the same order.
LEMMA IdsOfIs ==
    ASSUME response \in Responses, NEW g \in Graphs, NEW records \in Seq(Nodes)
    PROVE  /\ IdsOf(g, records) \in Seq(Ids)
           /\ \A x : x \in ToSet(IdsOf(g, records)) <=> \E n \in ToSet(records) : x = Id(g, n)
           /\ IsInjective(records) => IsInjective(IdsOf(g, records))
  <1> DEFINE s == IdsOf(g, records)
  <1>1. DOMAIN records = 1..Len(records) /\ Len(records) \in Nat /\ \A i \in DOMAIN records : records[i] \in Nodes
    OBVIOUS
  <1>2. \A n \in Nodes : Id(g, n) \in Ids
    BY GraphFields DEF Id, Ids
  <1>3. DOMAIN s = 1..Len(records) /\ \A i \in 1..Len(records) : s[i] = Id(g, records[i])
    BY <1>1 DEF IdsOf
  <1>4. s \in [1..Len(records) -> Ids]
    BY <1>1, <1>2 DEF IdsOf
  <1> HIDE DEF s
  <1>5. s \in Seq(Ids)
    BY <1>1, <1>4
  <1>6. \A x : x \in ToSet(s) <=> \E n \in ToSet(records) : x = Id(g, n)
    BY <1>1, <1>3 DEF ToSet
  <1>7. \A m, n : Id(g, m) = Id(g, n) => m = n
    BY DEF Id
  <1>8. IsInjective(records) => IsInjective(s)
    BY <1>1, <1>3, <1>7 DEF IsInjective
  <1> QED
    BY <1>5, <1>6, <1>8 DEF s
\* What the items of a batch captured.
Captured(s, items) ==
    FlattenSeq([i \in 1..response.items[s] |-> IF i \in items THEN response.yields[s][i] ELSE <<>>])

\* What the items of a batch captured is what their yields say.
LEMMA CapturedIs ==
    ASSUME response \in Responses, NEW s \in response.streams, NEW items
    PROVE  /\ Captured(s, items) \in Seq(Deliverables)
           /\ \A x \in ToSet(Captured(s, items)) :
                 \E i \in 1..response.items[s] : i \in items /\ x \in ToSet(response.yields[s][i])
  <1> DEFINE n == response.items[s]
             each == [i \in 1..n |-> IF i \in items THEN response.yields[s][i] ELSE <<>>]
  <1>1. n \in Nat /\ \A i \in 1..n : response.yields[s][i] \in Seq(Deliverables)
    BY ResponseFacts
  <1>2. each \in Seq(Seq(Deliverables)) /\ DOMAIN each = 1..n
    <2>1. <<>> \in Seq(Deliverables)
      OBVIOUS
    <2>2. each \in [1..n -> Seq(Deliverables)]
      BY <1>1, <2>1
    <2> HIDE DEF each, n
    <2>3. each \in Seq(Seq(Deliverables))
      BY <1>1, <2>2
    <2> QED
      BY <2>2, <2>3
  <1>3. Captured(s, items) = FlattenSeq(each)
    BY DEF Captured
  <1>4. ToSet(<<>>) = {}
    BY DEF ToSet
  <1>5. \A i \in 1..n : each[i] = IF i \in items THEN response.yields[s][i] ELSE <<>>
    OBVIOUS
  <1> HIDE DEF each, n
  <1>6. /\ FlattenSeq(each) \in Seq(Deliverables)
        /\ \A x : x \in ToSet(FlattenSeq(each)) <=> \E i \in DOMAIN each : x \in ToSet(each[i])
    BY <1>2, Flattened
  <1> QED
    BY <1>2, <1>3, <1>4, <1>5, <1>6 DEF n

\* A sequence without one of its members.
LEMMA RemoveAtIs ==
    ASSUME NEW S, NEW s \in Seq(S), NEW i \in DOMAIN s
    PROVE  RemoveAt(s, i) \in Seq(S) /\ ToSet(RemoveAt(s, i)) \subseteq ToSet(s)
  <1> DEFINE R == ToSet(s)
  <1>1. /\ Len(s) \in Nat /\ DOMAIN s = 1..Len(s) /\ i \in 1..Len(s)
        /\ \A j \in 1..Len(s) : s[j] \in R /\ s[j] \in S
    BY DEF ToSet
  <1>2. s \in Seq(R) /\ R \subseteq S
    <2>1. s \in [1..Len(s) -> R]
      BY <1>1
    <2>2. s \in Seq(R)
      BY <1>1, <2>1
    <2>3. R \subseteq S
      BY <1>1 DEF ToSet
    <2> QED
      BY <2>2, <2>3
  <1> HIDE DEF R
  <1>3. SubSeq(s, 1, i - 1) \in Seq(R) /\ SubSeq(s, i + 1, Len(s)) \in Seq(R)
    <2>1. \A j \in 1..(i - 1) : s[j] \in R
      BY <1>1, <1>2
    <2>2. \A j \in (i + 1)..Len(s) : s[j] \in R
      BY <1>1, <1>2
    <2>3. SubSeq(s, 1, i - 1) = [j \in 1..(i - 1) |-> s[j]] /\ i - 1 \in Nat
      BY <1>1
    <2>4. SubSeq(s, i + 1, Len(s)) = [j \in 1..(Len(s) - i) |-> s[i + j]] /\ Len(s) - i \in Nat
      BY <1>1
    <2>5. \A j \in 1..(Len(s) - i) : i + j \in 1..Len(s)
      BY <1>1
    <2>6. SubSeq(s, 1, i - 1) \in Seq(R)
      BY <2>1, <2>3
    <2>7. SubSeq(s, i + 1, Len(s)) \in Seq(R)
      BY <1>1, <1>2, <2>4, <2>5
    <2> QED
      BY <2>6, <2>7
  <1>4. RemoveAt(s, i) \in Seq(R)
    BY <1>3, ConcatProperties DEF RemoveAt
  <1>5. RemoveAt(s, i) \in Seq(S)
    BY <1>2, <1>4
  <1>6. ToSet(RemoveAt(s, i)) \subseteq R
    BY <1>4 DEF ToSet
  <1> QED
    BY <1>5, <1>6 DEF R

\* The batches a pump flushes.
LEMMA FlushedIs ==
    ASSUME response \in Responses, NEW s \in response.streams, NEW p \in 0..MaxItems,
           NEW q \in (p + 1)..(response.items[s] + 1)
    PROVE  LET got == (p + 1)..(IF q > response.items[s] THEN response.items[s] ELSE q)
               batches == Flushed(s, p, q)
           IN
           /\ batches \in Seq(Completions)
           /\ \A i \in DOMAIN batches :
                 /\ batches[i].of = s /\ batches[i].items \subseteq got
                 /\ batches[i].done => q > response.items[s]
           /\ \A i, j \in DOMAIN batches : i < j => ~batches[i].done /\ batches[j].items = {}
  <1> DEFINE n == response.items[s]
             got == (p + 1)..(IF q > n THEN n ELSE q)
             items == StreamBatch(s, got, FALSE)
             end == StreamBatch(s, {}, TRUE)
             batches == Flushed(s, p, q)
  <1>1. n \in 0..MaxItems /\ MaxItems \in Nat /\ s \in Deliverables
    BY ResponseFacts DEF Deliverables
  <1>2. items \in Completions /\ end \in Completions
    <2>1. got \in SUBSET (1..MaxItems) /\ {} \in SUBSET (1..MaxItems)
      BY <1>1
    <2> HIDE DEF got
    <2> QED
      BY <1>1, <2>1 DEF StreamBatch, Completions
  <1> DEFINE both == <<items>> \o <<end>>
  <1>3. batches \in {<<>>, <<items>>, <<end>>, both} /\ (q <= n => batches \in {<<>>, <<items>>})
    <2>1. batches = (IF got = {} THEN <<>> ELSE <<items>>) \o (IF q > n THEN <<end>> ELSE <<>>)
      BY DEF Flushed
    <2> HIDE DEF items, end, got, batches
    <2>a. <<>> \o <<>> = <<>>
      OBVIOUS
    <2>b. <<items>> \o <<>> = <<items>>
      OBVIOUS
    <2>c. <<>> \o <<end>> = <<end>>
      OBVIOUS
    <2>2. <<>> \o <<>> = <<>> /\ <<items>> \o <<>> = <<items>> /\ <<>> \o <<end>> = <<end>>
      BY <2>a, <2>b, <2>c, Zenon
    <2>3. q <= n => ~(q > n)
      BY <1>1
    <2>4. q > n \/ ~(q > n)
      OBVIOUS
    <2> QED
      BY <2>1, <2>2, <2>3, Zenon
  <1>b. both \in Seq(Completions) /\ DOMAIN both = 1..2 /\ both[1] = items /\ both[2] = end
    <2> HIDE DEF items, end
    <2>1. <<items>> \in Seq(Completions) /\ <<end>> \in Seq(Completions) /\ Len(<<items>>) = 1 /\ Len(<<end>>) = 1
      BY <1>2
    <2>2. /\ both \in Seq(Completions) /\ Len(both) = 2
          /\ \A i \in 1..2 : both[i] = IF i <= 1 THEN <<items>>[i] ELSE <<end>>[i - 1]
      BY <2>1, ConcatProperties
    <2> HIDE DEF both
    <2> QED
      BY <2>2
  <1>4. items.of = s /\ end.of = s /\ items.items = got /\ end.items = {} /\ items.done = FALSE
    BY DEF StreamBatch
  <1>5. q > n \/ q <= n
    BY <1>1
  <1> HIDE DEF items, end, batches, got, both
  <1>6. batches \in Seq(Completions)
    <2>1. <<>> \in Seq(Completions)
      OBVIOUS
    <2>2. <<items>> \in Seq(Completions) /\ <<end>> \in Seq(Completions)
      BY <1>2
    <2> QED
      BY <1>3, <1>b, <2>1, <2>2, Zenon
  <1>7. \A i \in DOMAIN batches : \/ batches[i] = items
                                  \/ batches[i] = end /\ q > n
    <2>1. q <= n \/ q > n
      BY <1>1
    <2> QED
      BY <1>3, <1>b, <2>1
  <1>8. \A i, j \in DOMAIN batches : i < j => batches[i] = items /\ batches[j] = end
    BY <1>3, <1>b
  <1> QED
    BY <1>4, <1>6, <1>7, <1>8 DEF batches, got
\* What handling a group that bubbled does.
Broken(g, c) == {d \in Records(c) : d \in g.root}
FailedIds(g, c) == IdsOf(g, Among(response.records[c], Broken(g, c)))

\* The broken fragments leave the root and their ids are completed.
LEMMA FailedGroupIs ==
    ASSUME response \in Responses, graph \in Graphs, payload \in Payloads, graph.queue # <<>>,
           HandleFailedGroup(Head(graph.queue))
    PROVE  LET c == Head(graph.queue).of IN
           /\ c \in response.groups
           /\ graph' = Popped([graph EXCEPT !.root = @ \ Broken(graph, c)])
           /\ FailedIds(graph, c) \in Seq(Ids) /\ IsInjective(FailedIds(graph, c))
           /\ ToSet(FailedIds(graph, c)) = {Id(graph, d) : d \in Broken(graph, c)}
           /\ payload' \in Payloads /\ payload'.pending = payload.pending
           /\ payload'.incremental = payload.incremental
           /\ Completes(payload, payload', FailedIds(graph, c))
  <1> DEFINE c == Head(graph.queue).of
             broken == Broken(graph, c)
             gone == Among(response.records[c], broken)
             ids == FailedIds(graph, c)
  <1>1. c \in response.groups /\ response.records[c] \in Seq(response.defers) /\ IsInjective(response.records[c])
    BY ResponseFacts DEF HandleFailedGroup
  <1>2. /\ gone \in Seq(response.defers) /\ IsInjective(gone)
        /\ ToSet(gone) = ToSet(response.records[c]) \cap broken
    BY <1>1, AmongIs
  <1>3. ToSet(gone) = broken
    BY <1>2 DEF Broken, Records
  <1>4. ids = IdsOf(graph, gone)
    BY DEF FailedIds
  <1> HIDE DEF gone, broken, ids
  <1>5. gone \in Seq(Nodes)
    BY <1>2 DEF Nodes
  <1>6. ids \in Seq(Ids) /\ IsInjective(ids) /\ ToSet(ids) = {Id(graph, d) : d \in broken}
    BY <1>2, <1>3, <1>4, <1>5, IdsOfIs
  <1>7. graph' = Popped([graph EXCEPT !.root = @ \ Broken(graph, c)])
    BY DEF HandleFailedGroup, remove_deferred_fragments, Popped, Broken
  <1>8. payload' = [payload EXCEPT !.completed = @ \o ids]
    BY DEF HandleFailedGroup, ids, FailedIds, IdsOf, Broken
  <1>9. payload' \in Payloads /\ payload'.pending = payload.pending
        /\ payload'.incremental = payload.incremental /\ payload'.completed = payload.completed \o ids
    <2> DEFINE completed == payload.completed \o ids
    <2>1. completed \in Seq(Ids)
      <3>1. payload.completed \in Seq(Ids)
        BY DEF Payloads
      <3> QED
        BY <1>6, <3>1, ConcatProperties
    <2>2. payload' = [payload EXCEPT !.completed = completed]
      BY <1>8
    <2> HIDE DEF completed
    <2>3. /\ payload' \in Payloads /\ payload'.pending = payload.pending
          /\ payload'.incremental = payload.incremental /\ payload'.completed = completed
      BY <2>1, <2>2 DEF Payloads
    <2> QED
      BY <2>3 DEF completed
  <1>10. Completes(payload, payload', ids)
    BY <1>9 DEF Completes
  <1> QED
    BY <1>1, <1>6, <1>7, <1>9, <1>10 DEF broken, ids
\* What handling a batch of items does.
ItemsEntry(g, batch) == [to |-> Id(g, batch.of), of |-> batch.of, items |-> batch.items]

\* What they captured joins the graph and one entry delivers them.
LEMMA ItemsAre ==
    ASSUME response \in Responses, graph \in Graphs, graph.runs = <<>>, payload \in Payloads,
           graph.queue # <<>>, HandleItems(Head(graph.queue))
    PROVE  LET batch == Head(graph.queue)
               children == Captured(batch.of, batch.items)
           IN
           /\ batch.of \in response.streams /\ ~batch.done
           /\ graph' = IF children = <<>> THEN Popped(graph) ELSE get_new_root_nodes(Popped(graph), children)
           /\ graph' \in Graphs /\ graph'.runs = <<>>
           /\ <<ItemsEntry(graph, batch)>> \in Seq(Entries)
           /\ payload' \in Payloads /\ payload'.pending = payload.pending \cup Fresh(graph, graph')
           /\ payload'.completed = payload.completed
           /\ Delivers(payload, payload', <<ItemsEntry(graph, batch)>>)
           /\ payload'.incremental # <<>>
  <1> DEFINE batch == Head(graph.queue)
             s == batch.of
             children == Captured(s, batch.items)
             entry == ItemsEntry(graph, batch)
  <1>1. s \in response.streams /\ ~batch.done /\ batch \in Completions
    BY PoppedIs DEF HandleItems
  <1>2. children \in Seq(Deliverables)
    BY <1>1, CapturedIs
  <1>3. Popped(graph) \in Graphs /\ Popped(graph).runs = <<>>
    BY PoppedIs
  <1>4. /\ graph' = IF children = <<>> THEN Popped(graph) ELSE get_new_root_nodes(Popped(graph), children)
        /\ payload' = [payload EXCEPT !.pending = @ \cup Fresh(graph, graph'), !.incremental = Append(@, entry)]
    BY DEF HandleItems, Popped, Captured, ItemsEntry
  <1> HIDE DEF children, entry
  <1>5. graph' \in Graphs /\ graph'.runs = <<>>
    BY <1>2, <1>3, <1>4, NewRootsTyped
  <1>6. entry \in Entries
    <2>1. s \in Nodes /\ s \in Deliverables /\ graph.ids[s] \in Nat
      BY <1>1, GraphFields DEF Nodes, Deliverables
    <2> QED
      BY <1>1, <2>1 DEF entry, ItemsEntry, Entries, Id, Ids, Completions
  <1> DEFINE incremental == Append(payload.incremental, entry)
             pending == payload.pending \cup Fresh(graph, graph')
  <1>7. incremental = payload.incremental \o <<entry>> /\ <<entry>> \in Seq(Entries)
        /\ incremental \in Seq(Entries) /\ incremental # <<>>
    <2>1. payload.incremental \in Seq(Entries)
      BY DEF Payloads
    <2>2. incremental \in Seq(Entries) /\ incremental # <<>>
      BY <1>6, <2>1, AppendProperties
    <2>3. incremental = payload.incremental \o <<entry>> /\ <<entry>> \in Seq(Entries)
      BY <1>6, <2>1, OneMore
    <2> QED
      BY <2>2, <2>3
  <1>8. pending \in SUBSET Ids
    BY <1>5, FreshIs DEF Payloads
  <1>9. payload' = [payload EXCEPT !.pending = pending, !.incremental = incremental]
    BY <1>4
  <1> HIDE DEF incremental, pending
  <1>10. payload' \in Payloads /\ payload'.pending = pending /\ payload'.incremental = incremental
         /\ payload'.completed = payload.completed
    BY <1>7, <1>8, <1>9 DEF Payloads
  <1>11. Delivers(payload, payload', <<entry>>)
    BY <1>7, <1>10 DEF Delivers
  <1> QED
    BY <1>1, <1>4, <1>5, <1>7, <1>10, <1>11 DEF children, entry, pending

\* What handling the end of a stream does.
LEMMA StreamEndIs ==
    ASSUME response \in Responses, graph \in Graphs, payload \in Payloads, graph.queue # <<>>,
           HandleStreamEnd(Head(graph.queue))
    PROVE  LET batch == Head(graph.queue)
               id == Id(graph, batch.of)
           IN
           /\ batch.of \in response.streams /\ batch.done
           /\ graph' = Popped([graph EXCEPT !.root = @ \ {batch.of}])
           /\ id \in Ids /\ <<id>> \in Seq(Ids)
           /\ payload' \in Payloads /\ payload'.pending = payload.pending
           /\ payload'.incremental = payload.incremental
           /\ Completes(payload, payload', <<id>>) /\ payload'.completed # <<>>
           /\ pub' \in {"tick", pub}
  <1> DEFINE batch == Head(graph.queue)
             s == batch.of
             id == Id(graph, s)
             completed == Append(payload.completed, id)
  <1>1. s \in response.streams /\ batch.done
    BY DEF HandleStreamEnd
  <1>2. graph' = Popped([graph EXCEPT !.root = @ \ {s}]) /\ payload' = [payload EXCEPT !.completed = completed]
        /\ pub' \in {"tick", pub}
    BY DEF HandleStreamEnd, remove_stream, Popped
  <1>3. id \in Ids
    BY <1>1, GraphFields DEF Id, Ids, Nodes
  <1> HIDE DEF id
  <1>4. completed = payload.completed \o <<id>> /\ <<id>> \in Seq(Ids) /\ completed \in Seq(Ids) /\ completed # <<>>
    <2>1. payload.completed \in Seq(Ids)
      BY DEF Payloads
    <2>2. completed \in Seq(Ids) /\ completed # <<>>
      BY <1>3, <2>1, AppendProperties
    <2>3. completed = payload.completed \o <<id>> /\ <<id>> \in Seq(Ids)
      BY <1>3, <2>1, OneMore
    <2> QED
      BY <2>2, <2>3
  <1> HIDE DEF completed
  <1>5. payload' \in Payloads /\ payload'.pending = payload.pending
        /\ payload'.incremental = payload.incremental /\ payload'.completed = completed
    BY <1>2, <1>4 DEF Payloads
  <1>6. Completes(payload, payload', <<id>>)
    BY <1>4, <1>5 DEF Completes
  <1> QED
    BY <1>1, <1>2, <1>3, <1>4, <1>5, <1>6 DEF id
\* h is g but for its queue, its tasks and its pumps.
SameNodes(g, h) ==
    /\ h.root = g.root /\ h.ids = g.ids /\ h.pending = g.pending
    /\ h.successful = g.successful /\ h.children = g.children /\ h.runs = g.runs

Queued(g, h, q) == h.queue = g.queue \o q

\* What a task that ends does.
LEMMA TaskIs ==
    ASSUME response \in Responses, graph \in Graphs, FinishTask
    PROVE  \E batch, q :
           /\ batch \in ToSet(graph.tasks)
           /\ batch \in Seq(response.groups) /\ q \in Seq(ResultsOf(ToSet(batch)))
           /\ graph' \in Graphs /\ SameNodes(graph, graph') /\ graph'.pumps = graph.pumps
           /\ ToSet(graph'.tasks) \subseteq ToSet(graph.tasks)
           /\ Queued(graph, graph', q)
  <1>1. PICK i \in DOMAIN graph.tasks :
           graph' = [graph EXCEPT !.tasks = RemoveAt(@, i), !.queue = @ \o Results(graph.tasks[i])]
    BY DEF FinishTask
  <1> DEFINE batch == graph.tasks[i]
             q == Results(batch)
             tasks == RemoveAt(graph.tasks, i)
             queue == graph.queue \o q
  <1>2. graph.tasks \in Seq(Seq(response.groups)) /\ graph.queue \in Seq(Completions)
    BY GraphFields
  <1>3. batch \in Seq(response.groups) /\ batch \in ToSet(graph.tasks)
    BY <1>2 DEF ToSet
  <1>4. tasks \in Seq(Seq(response.groups)) /\ ToSet(tasks) \subseteq ToSet(graph.tasks)
    BY <1>2, RemoveAtIs
  <1> DEFINE T == ToSet(batch)
  <1>5. q \in Seq(ResultsOf(T)) /\ ResultsOf(T) \subseteq Completions
    <2>1. batch \in Seq(T) /\ T \subseteq response.groups
      BY <1>3 DEF ToSet
    <2>2. \A S : batch \in Seq(S) => Results(batch) \in Seq(ResultsOf(S))
      BY ResultsIs
    <2>3. ResultsOf(T) \subseteq Completions
      BY <2>1, ResultsCompletions
    <2> QED
      BY <2>1, <2>2, <2>3
  <1> HIDE DEF q, T, batch
  <1>6. queue \in Seq(Completions)
    <2>1. q \in Seq(Completions)
      BY <1>5
    <2> QED
      BY <1>2, <2>1, ConcatProperties
  <1>7. graph' = [graph EXCEPT !.tasks = tasks, !.queue = queue]
    BY <1>1 DEF q, batch
  <1> HIDE DEF tasks, queue
  <1>8. /\ graph' \in Graphs /\ graph'.root = graph.root /\ graph'.ids = graph.ids
        /\ graph'.pending = graph.pending /\ graph'.successful = graph.successful
        /\ graph'.children = graph.children /\ graph'.runs = graph.runs /\ graph'.pumps = graph.pumps
        /\ graph'.tasks = tasks /\ graph'.queue = queue
    BY <1>4, <1>6, <1>7 DEF Graphs, Completions
  <1>9. Queued(graph, graph', q)
    BY <1>8 DEF queue, Queued
  <1> QED
    BY <1>3, <1>4, <1>5, <1>8, <1>9 DEF T, SameNodes

\* What a pump does.
LEMMA PumpIs ==
    ASSUME response \in Responses, graph \in Graphs, NEW s \in response.streams, Pump(s)
    PROVE  \E q \in (graph.pumps[s] + 1)..(response.items[s] + 1) :
           /\ graph.pumps[s] \in 0..MaxItems
           /\ graph' \in Graphs /\ SameNodes(graph, graph') /\ graph'.tasks = graph.tasks
           /\ graph'.pumps = [graph.pumps EXCEPT ![s] = IF q > response.items[s] THEN Exhausted ELSE q]
           /\ Queued(graph, graph', Flushed(s, graph.pumps[s], q))
           /\ Flushed(s, graph.pumps[s], q) \in Seq(Completions)
  <1>1. PICK q \in (graph.pumps[s] + 1)..(response.items[s] + 1) :
           graph' = [graph EXCEPT !.pumps[s] = IF q > response.items[s] THEN Exhausted ELSE q,
                                  !.queue = @ \o Flushed(s, graph.pumps[s], q)]
    BY DEF Pump
  <1> DEFINE more == Flushed(s, graph.pumps[s], q)
             next == IF q > response.items[s] THEN Exhausted ELSE q
             pumps == [graph.pumps EXCEPT ![s] = next]
             queue == graph.queue \o more
  <1>2. graph.pumps \in [response.streams -> {NotStarted, Exhausted} \cup 0..MaxItems]
        /\ graph.queue \in Seq(Completions) /\ response.items[s] \in 0..MaxItems /\ MaxItems \in Nat
    BY GraphFields, ResponseFacts
  <1>3. graph.pumps[s] \in 0..MaxItems
    BY <1>2 DEF Pump, NotStarted, Exhausted
  <1>4. pumps \in [response.streams -> {NotStarted, Exhausted} \cup 0..MaxItems]
    <2>1. next \in {NotStarted, Exhausted} \cup 0..MaxItems
      BY <1>2, <1>3
    <2> HIDE DEF next
    <2> QED
      BY <1>2, <2>1
  <1>5. more \in Seq(Completions)
    BY <1>3, FlushedIs
  <1>6. graph' = [graph EXCEPT !.pumps = pumps, !.queue = queue]
    BY <1>1
  <1> HIDE DEF more, pumps
  <1>7. queue \in Seq(Completions)
    BY <1>2, <1>5, ConcatProperties
  <1> HIDE DEF queue
  <1>8. /\ graph' \in Graphs /\ graph'.root = graph.root /\ graph'.ids = graph.ids
        /\ graph'.pending = graph.pending /\ graph'.successful = graph.successful
        /\ graph'.children = graph.children /\ graph'.runs = graph.runs /\ graph'.pumps = pumps
        /\ graph'.tasks = graph.tasks /\ graph'.queue = queue
    BY <1>4, <1>6, <1>7 DEF Graphs, Completions
  <1>9. Queued(graph, graph', more)
    BY <1>8 DEF queue, Queued
  <1> QED
    BY <1>3, <1>5, <1>8, <1>9 DEF more, pumps, SameNodes
Clients == [announced : SUBSET Ids, completed : SUBSET Ids, data : Seq(Entries), has_next : BOOLEAN]

\* TypeOK after a step.
Typed(g, where, p, c) == g \in Graphs /\ g.runs = <<>> /\ where \in Pubs /\ p \in Payloads /\ c \in Clients

\* TypeOK is Typed of the variables, before a step and after it.
LEMMA TypedIs ==
    /\ TypeOK <=> Typed(graph, pub, payload, client)
    /\ response' = response /\ Typed(graph', pub', payload', client') => TypeOK'
  <1>1. TypeOK <=> Typed(graph, pub, payload, client)
    BY DEF TypeOK, Typed, Clients
  <1>2. response' = response /\ Typed(graph', pub', payload', client') => TypeOK'
    BY Steady DEF TypeOK, Typed, Clients, Pubs, Ends
  <1> QED
    BY <1>1, <1>2

\* The empty graph and the empty payload are of their types.
LEMMA EmptyTyped ==
    ASSUME response \in Responses
    PROVE  /\ EmptyGraph \in Graphs /\ EmptyGraph.runs = <<>>
           /\ EmptyPayload \in Payloads
  <1>1. /\ {} \in SUBSET Nodes /\ [n \in Nodes |-> 0] \in [Nodes -> Nat]
        /\ [d \in response.defers |-> {}] \in [response.defers -> SUBSET response.groups]
        /\ [d \in response.defers |-> {}] \in [response.defers -> SUBSET Nodes]
        /\ [s \in response.streams |-> NotStarted] \in [response.streams -> {NotStarted, Exhausted} \cup 0..MaxItems]
    OBVIOUS
  <1>2. [d \in response.defers |-> <<>>] \in [response.defers -> Seq(response.groups)]
    OBVIOUS
  <1>3. EmptyGraph \in Graphs /\ EmptyGraph.runs = <<>>
    BY <1>1, <1>2 DEF EmptyGraph, Graphs
  <1>4. EmptyPayload \in Payloads
    BY DEF EmptyPayload, Payloads
  <1> QED
    BY <1>3, <1>4

\* What handling a group that succeeded does.
LEMMA GroupTyped ==
    ASSUME response \in Responses, graph \in Graphs, payload \in Payloads, graph.queue # <<>>,
           HandleGroup(Head(graph.queue))
    PROVE  graph' \in Graphs /\ graph'.runs = <<>> /\ payload' \in Payloads
  <1> DEFINE c == Head(graph.queue).of
             children == Surviving(response.reveals[c])
             added == add_completed_group(Popped(graph), c, children)
             done == CompleteRecords([graph |-> added, payload |-> payload], response.records[c])
  <1>1. c \in response.groups /\ graph' = done.graph /\ payload' = done.payload
    BY DEF HandleGroup, Popped
  <1>2. children \in Seq(Deliverables) /\ response.records[c] \in Seq(response.defers)
    BY <1>1, ResponseFacts, SurvivingIs
  <1>3. added \in Graphs /\ added.runs = <<>>
    BY <1>1, <1>2, PoppedIs, CompletedGroupTyped
  <1> HIDE DEF added
  <1>4. [graph |-> added, payload |-> payload] \in States
    BY <1>3 DEF States
  <1>5. \A s \in States : \A d \in ToSet(response.records[c]) : CompleteRecord(s, d) \in States
    BY <1>2, RecordCompletesTyped DEF ToSet
  <1>6. done \in States
    <2> DEFINE state == [graph |-> added, payload |-> payload]
    <2>1. state \in States
      BY <1>4
    <2> HIDE DEF state
    <2>2. CompleteRecords(state, response.records[c]) \in States
      BY <1>2, <1>5, <2>1, RecordsComplete
    <2> QED
      BY <2>2 DEF state
  <1> QED
    BY <1>1, <1>6 DEF States

\* Handling what is at the head of the queue keeps the types.
LEMMA HandleTyped ==
    ASSUME response \in Responses, TypeOK, Handle
    PROVE  TypeOK'
  <1> DEFINE record == Head(graph.queue)
  <1>1. Typed(graph, pub, payload, client) /\ response' = response /\ client' = client /\ graph.queue # <<>>
    BY TypedIs DEF Handle
  <1>2. graph \in Graphs /\ graph.runs = <<>> /\ payload \in Payloads /\ pub \in Pubs /\ client \in Clients
    BY <1>1 DEF Typed
  <1>3. CASE HandleFailedGroup(record)
    <2> DEFINE S == Broken(graph, record.of)
               before == [graph EXCEPT !.root = @ \ S]
    <2>1. graph' = Popped(before) /\ payload' \in Payloads /\ pub' = pub
      BY <1>1, <1>2, <1>3, FailedGroupIs DEF HandleFailedGroup
    <2>2. before \in Graphs /\ before.queue = graph.queue /\ before.runs = graph.runs
      BY <1>2, Unrooted
    <2> HIDE DEF before
    <2>3. graph' \in Graphs /\ graph'.runs = <<>>
      BY <1>1, <1>2, <2>1, <2>2, PoppedIs
    <2> QED
      BY <1>1, <1>2, <2>1, <2>3, TypedIs DEF Typed
  <1>4. CASE HandleGroup(record)
    <2>1. graph' \in Graphs /\ graph'.runs = <<>> /\ payload' \in Payloads /\ pub' = pub
      BY <1>1, <1>2, <1>4, GroupTyped DEF HandleGroup
    <2> QED
      BY <1>1, <1>2, <2>1, TypedIs DEF Typed
  <1>5. CASE HandleGroupRaises(record)
    BY <1>1, <1>2, <1>5, TypedIs DEF Typed, HandleGroupRaises, Pubs, Ends
  <1>6. CASE HandleItems(record)
    <2>1. graph' \in Graphs /\ graph'.runs = <<>> /\ payload' \in Payloads /\ pub' = "tick"
      BY <1>1, <1>2, <1>6, ItemsAre DEF HandleItems
    <2> QED
      BY <1>1, <1>2, <2>1, TypedIs DEF Typed, Pubs
  <1>7. CASE HandleStreamEnd(record)
    <2> DEFINE S == {record.of}
               before == [graph EXCEPT !.root = @ \ S]
    <2>1. graph' = Popped(before) /\ payload' \in Payloads /\ pub' \in {"tick", pub}
      BY <1>1, <1>2, <1>7, StreamEndIs
    <2>2. before \in Graphs /\ before.queue = graph.queue /\ before.runs = graph.runs
      BY <1>2, Unrooted
    <2> HIDE DEF before
    <2>3. graph' \in Graphs /\ graph'.runs = <<>>
      BY <1>1, <1>2, <2>1, <2>2, PoppedIs
    <2>4. pub' \in Pubs
      BY <1>2, <2>1 DEF Pubs
    <2> QED
      BY <1>1, <1>2, <2>1, <2>3, <2>4, TypedIs DEF Typed
  <1> QED
    BY <1>3, <1>4, <1>5, <1>6, <1>7 DEF Handle
\* The initial payload gives ids to the nodes of the initial pass.
LEMMA BuildTyped ==
    ASSUME response \in Responses, TypeOK, BuildResponse
    PROVE  TypeOK'
  <1> DEFINE records == Surviving(response.initial)
  <1>1. /\ Typed(graph, pub, payload, client) /\ response' = response /\ payload' = payload /\ pub' = "start"
        /\ graph' = get_new_root_nodes(graph, records)
        /\ client' = [client EXCEPT !.announced = Fresh(graph, graph')]
    BY TypedIs DEF BuildResponse
  <1>2. records \in Seq(Deliverables)
    BY ResponseFacts, SurvivingIs
  <1> HIDE DEF records
  <1>3. graph' \in Graphs /\ graph'.runs = <<>>
    BY <1>1, <1>2, NewRootsTyped DEF Typed
  <1>4. Fresh(graph, graph') \in SUBSET Ids
    BY <1>3, FreshIs
  <1>5. client' \in Clients
    BY <1>1, <1>4 DEF Typed, Clients
  <1> QED
    BY <1>1, <1>3, <1>5, TypedIs DEF Typed, Pubs

\* The client is told what the payload says.
LEMMA YieldTyped ==
    ASSUME response \in Responses, TypeOK, YieldPayload
    PROVE  TypeOK'
  <1> DEFINE announced == client.announced \cup payload.pending
             completed == client.completed \cup ToSet(payload.completed)
             data == client.data \o payload.incremental
             more == has_next(graph)
  <1>1. /\ Typed(graph, pub, payload, client) /\ response' = response /\ graph' = graph
        /\ payload' = EmptyPayload /\ pub' = "yielded"
        /\ client' = [announced |-> announced, completed |-> completed, data |-> data, has_next |-> more]
    BY TypedIs DEF YieldPayload
  <1>2. /\ client.announced \subseteq Ids /\ client.completed \subseteq Ids /\ client.data \in Seq(Entries)
        /\ payload.pending \subseteq Ids /\ payload.incremental \in Seq(Entries) /\ payload.completed \in Seq(Ids)
    BY <1>1 DEF Typed, Clients, Payloads
  <1>3. announced \subseteq Ids /\ completed \subseteq Ids
    BY <1>2 DEF ToSet
  <1>4. data \in Seq(Entries)
    BY <1>2, ConcatProperties
  <1>5. more \in BOOLEAN
    BY DEF has_next
  <1> HIDE DEF announced, completed, data, more
  <1>6. client' \in Clients
    BY <1>1, <1>3, <1>4, <1>5 DEF Clients
  <1> QED
    BY <1>1, <1>6, EmptyTyped, TypedIs DEF Typed, Pubs

\* No task and no pump breaks the types.
LEMMA WorkTyped ==
    ASSUME response \in Responses, TypeOK, Work
    PROVE  TypeOK'
  <1>1. /\ Typed(graph, pub, payload, client) /\ response' = response /\ payload' = payload /\ client' = client
        /\ pub' = _enqueue(pub)
    BY TypedIs DEF Work, FinishTask, Pump
  <1>2. pub' \in Pubs
    BY <1>1 DEF Typed, _enqueue, Pubs
  <1>3. graph' \in Graphs /\ graph'.runs = graph.runs
    <2>1. CASE FinishTask
      BY <1>1, <2>1, TaskIs DEF Typed, SameNodes
    <2>2. ASSUME NEW s \in response.streams, Pump(s) PROVE graph' \in Graphs /\ graph'.runs = graph.runs
      BY <1>1, <2>2, PumpIs DEF Typed, SameNodes
    <2> QED
      BY <2>1, <2>2 DEF Work
  <1> QED
    BY <1>1, <1>2, <1>3, TypedIs DEF Typed

\* An action that leaves the graph alone keeps the types.
LEMMA IdleTyped ==
    ASSUME response \in Responses, TypeOK, RunPlain \/ Tick \/ Await \/ Wake \/ FirstPull \/ Pull \/ Close
    PROVE  TypeOK'
  <1>1. /\ Typed(graph, pub, payload, client) /\ response' = response /\ graph' = graph /\ client' = client
        /\ payload' \in {payload, EmptyPayload}
    BY TypedIs DEF RunPlain, Tick, Await, Wake, FirstPull, Pull, Close
  <1>2. pub' \in Pubs
    BY DEF RunPlain, Tick, Await, Wake, FirstPull, Pull, Close, Pubs, Ends
  <1> QED
    BY <1>1, <1>2, EmptyTyped, TypedIs DEF Typed

\* The types hold at the start.
LEMMA InitTyped ==
    ASSUME Init
    PROVE  TypeOK
  <1>1. response \in Responses /\ graph = EmptyGraph /\ payload = EmptyPayload /\ pub = "initial"
        /\ client = [announced |-> {}, completed |-> {}, data |-> <<>>, has_next |-> TRUE]
    BY DEF Init
  <1>2. <<>> \in Seq(Entries)
    OBVIOUS
  <1>3. client \in Clients
    BY <1>1, <1>2 DEF Clients
  <1> QED
    BY <1>1, <1>3, EmptyTyped, TypedIs DEF Typed, Pubs

\* Every variable of the publisher holds a value of its type, and between two
\* actions no group is left to be started: each method of the graph flushes
\* _pending_runs before it returns.
THEOREM TypeCorrect == Spec => []TypeOK
  <1> DEFINE Inv == response \in Responses /\ TypeOK
  <1>1. Init => Inv
    BY InitTyped DEF Init
  <1>2. Inv /\ [Next]_vars => Inv'
    <2> SUFFICES ASSUME response \in Responses, TypeOK, [Next]_vars PROVE Inv'
      OBVIOUS
    <2>1. CASE Next
      <3>1. response' \in Responses
        BY <2>1 DEF Next, Publish, Work, RunPlain, BuildResponse, Handle, Tick, YieldPayload, Await, Wake,
                    FirstPull, Pull, Close, FinishTask, Pump
      <3>2. TypeOK'
        BY <2>1, HandleTyped, BuildTyped, YieldTyped, WorkTyped, IdleTyped DEF Next, Publish
      <3> QED
        BY <3>1, <3>2
    <2>2. CASE UNCHANGED vars
      BY <2>2, TypedIs DEF vars
    <2> QED
      BY <2>1, <2>2
  <1>3. Inv => TypeOK
    OBVIOUS
  <1> QED
    BY <1>1, <1>2, <1>3, PTL DEF Spec
-----------------------------------------------------------------------------
(* Soundness after a step.                                                 *)

\* Nothing the invariant says of the response changes.
LEMMA SteadyTerms ==
    ASSUME response' = response
    PROVE  /\ Home' = Home
           /\ \A d : Lineage(d)' = Lineage(d)
           /\ \A h : Records(h)' = Records(h)
           /\ \A d, s : Owns(d, s)' <=> Owns(d, s)
  <1>1. Home' = Home
    BY DEF Home
  <1>2. Nodes' = Nodes
    BY Steady
  <1>3. \A d : Lineage(d)' = Lineage(d)
    BY <1>2 DEF Lineage, Reachable
  <1>4. \A h : Records(h)' = Records(h)
    BY DEF Records
  <1>5. \A d, s : Owns(d, s)' <=> Owns(d, s)
    BY <1>4 DEF Owns
  <1> QED
    BY <1>1, <1>3, <1>4, <1>5
\* Soundness of the graph after a step is soundness in the next state.
LEMMA AfterStep ==
    ASSUME response' = response,
           Sound(graph', Live(payload', client')), Told(graph', payload', client')
    PROVE  Sound(graph, Live(payload, client))' /\ Told(graph, payload, client)'
  <1> DEFINE live == Live(payload, client)
  <1>1. Live(payload, client)' = Live(payload', client')
    BY DEF Live
  <1>2. Announced(graph)' = Announced(graph')
    BY Steady DEF Announced
  <1>3. Told(graph, payload, client)'
    BY <1>2 DEF Told, Names
  <1>4. Numbered(graph)'
    BY Steady, <1>2 DEF Sound, Numbered
  <1>5. Nested(graph)'
    BY SteadyTerms DEF Sound, Nested
  <1>6. Linked(graph)'
    BY SteadyTerms DEF Sound, Linked
  <1>7. Fits(graph, live)'
    BY <1>1, Steady, SteadyTerms DEF Sound, Fits
  <1>8. \A s : Got(graph, s)' = Got(graph', s)
    BY DEF Got
  <1>9. Streaming(graph, live)'
    BY <1>1, <1>8 DEF Sound, Streaming
  <1>10. Waiting(graph.queue, graph, live)'
    BY <1>1, <1>8, SteadyTerms DEF Sound, Waiting
  <1> QED
    BY <1>3, <1>4, <1>5, <1>6, <1>7, <1>9, <1>10 DEF Sound
\* Taking the head off the queue, and what the head may be.
LEMMA HeadIs ==
    ASSUME response \in Responses, NEW live, NEW g, Sound(g, live), g.queue # <<>>
    PROVE  LET batch == Head(g.queue) IN
           /\ Sound(Popped(g), live)
           /\ batch.of \in response.groups => Home[batch.of] \in live
           /\ batch.of \in response.streams =>
                /\ batch.of \in g.root /\ batch.items \subseteq Got(g, batch.of)
                /\ \A i \in batch.items : <<batch.of, i>> \notin live
                /\ batch.done => g.pumps[batch.of] = Exhausted
                /\ \A q \in DOMAIN Popped(g).queue : Popped(g).queue[q].of = batch.of =>
                      ~batch.done /\ batch.items \cap Popped(g).queue[q].items = {}
  <1> DEFINE batch == Head(g.queue)
             h == Popped(g)
  <1>1. /\ h \in Graphs
        /\ h.root = g.root /\ h.ids = g.ids /\ h.pending = g.pending
        /\ h.successful = g.successful /\ h.children = g.children
        /\ h.runs = g.runs /\ h.tasks = g.tasks /\ h.pumps = g.pumps
        /\ 1 \in DOMAIN g.queue /\ batch = g.queue[1]
        /\ \A p \in DOMAIN h.queue : p \in Nat /\ p + 1 \in DOMAIN g.queue /\ h.queue[p] = g.queue[p + 1]
    BY SoundFields, PoppedIs
  <1>2. \A p \in DOMAIN h.queue : 1 < p + 1
    <2>1. \A p \in DOMAIN h.queue : p \in 1..Len(h.queue)
      <3>1. h.queue \in Seq(Completions)
        BY <1>1, GraphFields
      <3> HIDE DEF h
      <3> QED
        BY <3>1
    <2> HIDE DEF h
    <2> QED
      BY <2>1
  <1> HIDE DEF h, batch
  <1>3. Waiting(g.queue, g, live)
    BY DEF Sound
  <1>4. \A s \in response.streams : Got(h, s) = Got(g, s)
    BY <1>1 DEF Got
  <1>5. Waiting(h.queue, h, live)
    <2>1. \A p \in DOMAIN h.queue : h.queue[p].of \in response.groups => Home[h.queue[p].of] \in live
      BY <1>1, <1>3 DEF Waiting
    <2>2. ASSUME NEW p \in DOMAIN h.queue, h.queue[p].of \in response.streams
          PROVE  /\ h.queue[p].of \in h.root
                 /\ h.queue[p].items \subseteq Got(h, h.queue[p].of)
                 /\ \A i \in h.queue[p].items : <<h.queue[p].of, i>> \notin live
                 /\ h.queue[p].done => h.pumps[h.queue[p].of] = Exhausted
      BY <1>1, <1>3, <1>4, <2>2 DEF Waiting
    <2>3. ASSUME NEW p \in DOMAIN h.queue, h.queue[p].of \in response.streams,
                 NEW q \in DOMAIN h.queue, p < q, h.queue[q].of = h.queue[p].of
          PROVE  ~h.queue[p].done /\ h.queue[p].items \cap h.queue[q].items = {}
      <3>1. p + 1 \in DOMAIN g.queue /\ q + 1 \in DOMAIN g.queue /\ p + 1 < q + 1
            /\ h.queue[p] = g.queue[p + 1] /\ h.queue[q] = g.queue[q + 1]
        BY <1>1, <2>3
      <3> QED
        BY <1>3, <2>3, <3>1 DEF Waiting
    <2> QED
      BY <2>1, <2>2, <2>3 DEF Waiting
  <1>6. Sound(h, live)
    <2>1. Announced(h) = Announced(g)
      BY <1>1 DEF Announced
    <2>2. Numbered(h) /\ Nested(h) /\ Linked(h) /\ Fits(h, live)
      BY <1>1, <2>1 DEF Sound, Numbered, Nested, Linked, Fits
    <2>3. Streaming(h, live)
      BY <1>1, <1>4 DEF Sound, Streaming
    <2> QED
      BY <1>5, <2>2, <2>3 DEF Sound
  <1>7. batch.of \in response.groups => Home[batch.of] \in live
    BY <1>1, <1>3 DEF Waiting
  <1>8. ASSUME batch.of \in response.streams
        PROVE  /\ batch.of \in g.root /\ batch.items \subseteq Got(g, batch.of)
               /\ \A i \in batch.items : <<batch.of, i>> \notin live
               /\ batch.done => g.pumps[batch.of] = Exhausted
               /\ \A q \in DOMAIN h.queue : h.queue[q].of = batch.of =>
                     ~batch.done /\ batch.items \cap h.queue[q].items = {}
    BY <1>1, <1>2, <1>3, <1>8 DEF Waiting
  <1> QED
    BY <1>6, <1>7, <1>8 DEF batch, h

\* Nodes taken off the root, once nothing is to come of the streams among them.
LEMMA UnrootedKeeps ==
    ASSUME response \in Responses, NEW live, NEW g, Sound(g, live), NEW S,
           \A s \in S \cap response.streams : /\ ~(g.pumps[s] >= 0)
                                              /\ \A p \in DOMAIN g.queue : g.queue[p].of # s
    PROVE  Sound([g EXCEPT !.root = @ \ S], live)
  <1> DEFINE h == [g EXCEPT !.root = @ \ S]
  <1>1. /\ h \in Graphs /\ h.root = g.root \ S
        /\ h.ids = g.ids /\ h.pending = g.pending /\ h.successful = g.successful /\ h.children = g.children
        /\ h.runs = g.runs /\ h.queue = g.queue /\ h.tasks = g.tasks /\ h.pumps = g.pumps
    BY SoundFields, Unrooted
  <1> HIDE DEF h
  <1>2. Announced(h) = Announced(g)
    BY <1>1 DEF Announced
  <1>3. Numbered(h) /\ Nested(h) /\ Linked(h) /\ Fits(h, live)
    BY <1>1, <1>2 DEF Sound, Numbered, Nested, Linked, Fits
  <1>4. \A s \in response.streams : Got(h, s) = Got(g, s)
    BY <1>1 DEF Got
  <1>5. Streaming(h, live)
    BY <1>1, <1>4 DEF Sound, Streaming
  <1>6. Waiting(h.queue, h, live)
    BY <1>1, <1>4 DEF Sound, Waiting
  <1> QED
    BY <1>3, <1>5, <1>6 DEF Sound, h

\* The client learns of some items of a stream.
LEMMA LiveExtends ==
    ASSUME response \in Responses, NEW live, NEW g, Sound(g, live),
           NEW s \in response.streams, NEW items, items \subseteq Got(g, s),
           \A i \in items : <<s, i>> \notin live,
           \A q \in DOMAIN g.queue : g.queue[q].of = s => items \cap g.queue[q].items = {}
    PROVE  LET P == {<<s, i>> : i \in items} IN Sound(g, live \cup P) /\ Virgin(g, P)
  <1> DEFINE P == {<<s, i>> : i \in items}
             all == live \cup P
  <1>1. P \cap live = {}
    OBVIOUS
  <1>2. live \subseteq all /\ \A t, i : <<t, i>> \in P <=> t = s /\ i \in items
    OBVIOUS
  <1>3. \A t, i : <<t, i>> \in all <=> <<t, i>> \in live \/ (t = s /\ i \in items)
    BY <1>2
  <1>4. Virgin(g, P)
    BY <1>1 DEF Sound, Fits, Virgin, Numbered
  <1> HIDE DEF all, P
  <1>5. Fits(g, all)
    BY <1>2 DEF Sound, Fits
  <1>6. Streaming(g, all)
    BY <1>3 DEF Sound, Streaming
  <1>7. Waiting(g.queue, g, all)
    BY <1>2, <1>3 DEF Sound, Waiting
  <1> QED
    BY <1>4, <1>5, <1>6, <1>7 DEF Sound, all, P
\* The head may be taken off before or after the root shrinks.
LEMMA PoppedUnrooted ==
    ASSUME NEW g \in Graphs, NEW S
    PROVE  Popped([g EXCEPT !.root = @ \ S]) = [Popped(g) EXCEPT !.root = @ \ S]
  BY DEF Graphs, Popped

\* Nodes leave the root and the payload says that their ids are completed.
LEMMA RemovalKeeps ==
    ASSUME response \in Responses, NEW live, NEW g, NEW p, NEW c, Held(g, p, c, live), g.queue # <<>>,
           NEW S, S \subseteq g.root,
           \A s \in S \cap response.streams : /\ ~(g.pumps[s] >= 0)
                                              /\ \A q \in DOMAIN Popped(g).queue : Popped(g).queue[q].of # s,
           NEW ids \in Seq(Ids), IsInjective(ids), ToSet(ids) = {Id(g, n) : n \in S},
           NEW next \in Payloads, next.pending = p.pending, next.incremental = p.incremental,
           Completes(p, next, ids)
    PROVE  Held(Popped([g EXCEPT !.root = @ \ S]), next, c, live)
  <1> DEFINE h == Popped([g EXCEPT !.root = @ \ S])
             popped == Popped(g)
  <1>1. g \in Graphs /\ Sound(g, live) /\ g.runs = <<>> /\ p \in Payloads /\ Told(g, p, c) /\ Live(p, c) = live
    BY SoundFields DEF Held
  <1>2. Sound(popped, live)
    BY <1>1, HeadIs
  <1>3. popped \in Graphs /\ popped.root = g.root /\ popped.ids = g.ids /\ popped.runs = g.runs /\ popped.pumps = g.pumps
    BY <1>1, PoppedIs
  <1>4. h = [popped EXCEPT !.root = @ \ S]
    BY <1>1, PoppedUnrooted
  <1> HIDE DEF h, popped
  <1>5. Sound(h, live)
    BY <1>2, <1>3, <1>4, UnrootedKeeps DEF popped
  <1>6. h.root = g.root \ S /\ h.ids = g.ids /\ h.runs = <<>>
    BY <1>1, <1>3, <1>4, Unrooted
  <1>7. Announced(h) = Announced(g)
    BY <1>6 DEF Announced
  <1>8. g.root \subseteq Announced(g)
    BY <1>1 DEF Sound, Numbered
  <1>9. ToSet(ids) = Names(S)
    <2>1. \A n \in S : Id(g, n) = <<n, 1>>
      BY <1>8 DEF Id, Announced
    <2> QED
      BY <2>1 DEF Names
  <1>10. Completing(g, g.root \ S, next.completed, c)
    BY <1>1, <1>8, <1>9, CompletedGrow
  <1>11. Told(h, next, c)
    BY <1>1, <1>6, <1>7, <1>10 DEF Told, Completing
  <1>12. Live(next, c) = live
    BY <1>1 DEF Live
  <1>13. next.completed = <<>> => p.completed = <<>>
    <2>1. p.completed \in Seq(Ids)
      BY <1>1 DEF Payloads
    <2>2. Len(next.completed) = Len(p.completed) + Len(ids)
      BY <2>1, ConcatProperties DEF Completes
    <2>3. Len(p.completed) \in Nat /\ Len(ids) \in Nat
      BY <2>1
    <2>4. next.completed = <<>> => Len(p.completed) = 0
      BY <2>2, <2>3
    <2> QED
      BY <2>1, <2>4
  <1>14. next.incremental = <<>> /\ next.completed = <<>> => next.pending = {}
    BY <1>13 DEF Held
  <1> QED
    BY <1>5, <1>6, <1>11, <1>12, <1>14 DEF h, Held

\* A group that bubbled: its pending fragments leave the graph and complete.
LEMMA FailedGroupKeeps ==
    ASSUME response \in Responses, NEW live, Held(graph, payload, client, live), graph.queue # <<>>,
           HandleFailedGroup(Head(graph.queue))
    PROVE  Held(graph', payload', client, live)
  <1> DEFINE c == Head(graph.queue).of
             S == Broken(graph, c)
  <1>1. graph \in Graphs /\ payload \in Payloads
    BY SoundFields DEF Held
  <1>2. /\ c \in response.groups
        /\ graph' = Popped([graph EXCEPT !.root = @ \ S])
        /\ FailedIds(graph, c) \in Seq(Ids) /\ IsInjective(FailedIds(graph, c))
        /\ ToSet(FailedIds(graph, c)) = {Id(graph, d) : d \in S}
        /\ payload' \in Payloads /\ payload'.pending = payload.pending
        /\ payload'.incremental = payload.incremental
        /\ Completes(payload, payload', FailedIds(graph, c))
    BY <1>1, FailedGroupIs
  <1>3. S \subseteq graph.root /\ S \cap response.streams = {}
    <2>1. response.records[c] \in Seq(response.defers) /\ response.defers \cap response.streams = {}
      BY <1>2, ResponseFacts
    <2>2. Records(c) \subseteq response.defers
      BY <2>1 DEF Records, ToSet
    <2> HIDE DEF c
    <2> QED
      BY <2>1, <2>2 DEF Broken
  <1> HIDE DEF S, c
  <1> QED
    BY <1>2, <1>3, RemovalKeeps

\* A stream that ended: nothing of it is left in the queue.
LEMMA StreamEndKeeps ==
    ASSUME response \in Responses, NEW live, Held(graph, payload, client, live), graph.queue # <<>>,
           HandleStreamEnd(Head(graph.queue))
    PROVE  Held(graph', payload', client, live)
  <1> DEFINE s == Head(graph.queue).of
             S == {s}
             id == Id(graph, s)
  <1>1. graph \in Graphs /\ payload \in Payloads /\ Sound(graph, live)
    BY SoundFields DEF Held
  <1>2. /\ s \in response.streams /\ Head(graph.queue).done
        /\ graph' = Popped([graph EXCEPT !.root = @ \ S])
        /\ id \in Ids /\ <<id>> \in Seq(Ids)
        /\ payload' \in Payloads /\ payload'.pending = payload.pending
        /\ payload'.incremental = payload.incremental
        /\ Completes(payload, payload', <<id>>)
    BY <1>1, StreamEndIs
  <1>3. /\ s \in graph.root /\ graph.pumps[s] = Exhausted
        /\ \A q \in DOMAIN Popped(graph).queue : Popped(graph).queue[q].of # s
    BY <1>1, <1>2, HeadIs
  <1>4. ~(graph.pumps[s] >= 0)
    BY <1>3 DEF Exhausted
  <1> HIDE DEF s, id
  <1>5. IsInjective(<<id>>) /\ ToSet(<<id>>) = {id}
    BY <1>2, OneMore
  <1>6. {id} = {Id(graph, n) : n \in S} /\ S \subseteq graph.root
    BY <1>3 DEF id
  <1>7. \A t \in S \cap response.streams : t = s
    OBVIOUS
  <1> HIDE DEF S
  <1> QED
    BY <1>2, <1>3, <1>4, <1>5, <1>6, <1>7, RemovalKeeps
\* A group that succeeded: what it reveals joins the graph, and the fragments
\* that are complete leave it.
LEMMA GroupKeeps ==
    ASSUME response \in Responses, Confined(response),
           NEW live, Held(graph, payload, client, live), graph.queue # <<>>,
           HandleGroup(Head(graph.queue)), client' = client
    PROVE  Held(graph', payload', client, live)
  <1> DEFINE c == Head(graph.queue).of
             popped == Popped(graph)
             added == add_completed_group(popped, c, Surviving(response.reveals[c]))
             state == [graph |-> added, payload |-> payload]
             done == CompleteRecords(state, response.records[c])
             good == {s \in States : Held(s.graph, s.payload, client, live)}
  <1>1. c \in response.groups /\ graph' = done.graph /\ payload' = done.payload
    BY DEF HandleGroup, Popped
  <1>2. /\ Sound(graph, live) /\ graph.runs = <<>> /\ payload \in Payloads
        /\ Told(graph, payload, client) /\ Live(payload, client) = live /\ graph \in Graphs
    BY SoundFields DEF Held
  <1>3. Sound(popped, live) /\ Home[c] \in live
    BY <1>1, <1>2, HeadIs
  <1>4. popped.root = graph.root /\ popped.ids = graph.ids
    BY <1>2, PoppedIs
  <1> HIDE DEF popped, c
  <1>5. Sound(added, live) /\ added.root = graph.root /\ added.ids = graph.ids /\ added.runs = <<>>
    BY <1>1, <1>3, <1>4, CompletedGroupKeeps
  <1> HIDE DEF added
  <1>6. Announced(added) = Announced(graph)
    BY <1>5 DEF Announced
  <1>7. Held(added, payload, client, live)
    BY <1>2, <1>5, <1>6 DEF Held, Told
  <1>8. state \in good
    <2>1. state \in States
      BY <1>2, <1>5, SoundFields DEF States
    <2> QED
      BY <1>7, <2>1
  <1>9. response.records[c] \in Seq(response.defers) /\ \A d \in ToSet(response.records[c]) : d \in response.defers
    BY <1>1, ResponseFacts DEF ToSet
  <1>10. ASSUME NEW s \in good, NEW d \in ToSet(response.records[c])
         PROVE  CompleteRecord(s, d) \in good
    <2>1. s \in States /\ Held(s.graph, s.payload, client, live) /\ d \in response.defers
      BY <1>9
    <2>2. CompleteRecord(s, d) \in States
      BY <2>1, RecordCompletesTyped
    <2>3. Held(CompleteRecord(s, d).graph, CompleteRecord(s, d).payload, client, live)
      BY <2>1, RecordCompletesKeeps
    <2> QED
      BY <2>2, <2>3
  <1> HIDE DEF good, state
  <1>11. done \in good
    BY <1>8, <1>9, <1>10, RecordsComplete
  <1> QED
    BY <1>1, <1>11 DEF good

\* A batch of items: what they captured becomes root and is announced.
LEMMA ItemsKeep ==
    ASSUME response \in Responses, Confined(response),
           NEW live, Held(graph, payload, client, live), graph.queue # <<>>,
           HandleItems(Head(graph.queue))
    PROVE  \E all : Held(graph', payload', client, all)
  <1> DEFINE batch == Head(graph.queue)
             s == batch.of
             popped == Popped(graph)
             children == Captured(s, batch.items)
             entry == ItemsEntry(graph, batch)
             P == {<<s, i>> : i \in batch.items}
             all == live \cup P
  <1>1. /\ Sound(graph, live) /\ graph.runs = <<>> /\ payload \in Payloads
        /\ Told(graph, payload, client) /\ Live(payload, client) = live /\ graph \in Graphs
    BY SoundFields DEF Held
  <1>2. /\ s \in response.streams /\ ~batch.done
        /\ graph' = IF children = <<>> THEN popped ELSE get_new_root_nodes(popped, children)
        /\ <<entry>> \in Seq(Entries)
        /\ payload' \in Payloads /\ payload'.pending = payload.pending \cup Fresh(graph, graph')
        /\ payload'.completed = payload.completed
        /\ Delivers(payload, payload', <<entry>>)
        /\ payload'.incremental # <<>>
    BY <1>1, ItemsAre
  <1>3. /\ popped.root = graph.root /\ popped.ids = graph.ids /\ popped.runs = graph.runs
        /\ popped.pumps = graph.pumps
    BY <1>1, PoppedIs
  <1>4. /\ Sound(popped, live) /\ batch.items \subseteq Got(graph, s)
        /\ \A i \in batch.items : <<s, i>> \notin live
        /\ \A q \in DOMAIN popped.queue : popped.queue[q].of = s => batch.items \cap popped.queue[q].items = {}
    BY <1>1, <1>2, HeadIs
  <1>5. Got(popped, s) = Got(graph, s)
    BY <1>3 DEF Got
  <1>6. Captured(s, batch.items) \in Seq(Deliverables)
        /\ \A x \in ToSet(Captured(s, batch.items)) :
              \E i \in 1..response.items[s] : i \in batch.items /\ x \in ToSet(response.yields[s][i])
    BY <1>2, CapturedIs
  <1>7. PassesOf(<<entry>>) = P
    <2>1. ToSet(<<entry>>) = {entry}
      BY <1>2, OneMore DEF ToSet
    <2>2. entry.of = s /\ entry.items = batch.items
      BY DEF ItemsEntry
    <2> HIDE DEF entry
    <2> QED
      BY <2>1, <2>2 DEF PassesOf
  <1> HIDE DEF popped, entry, batch, s
  <1>8. Sound(popped, all) /\ Virgin(popped, P)
    BY <1>2, <1>4, <1>5, LiveExtends
  <1>9. InPass(ToSet(children), P)
    <2>1. ASSUME NEW x \in ToSet(children) PROVE Home[x] \in P
      <3>1. PICK i \in 1..response.items[s] : i \in batch.items /\ x \in ToSet(response.yields[s][i])
        BY <1>6
      <3>2. Home[x] = <<s, i>>
        BY <1>2, <3>1, HomeIs
      <3> QED
        BY <3>1, <3>2
    <2> QED
      BY <2>1 DEF InPass
  <1>10. \A t \in ToSet(children) \cap response.streams : \A d \in response.defers : ~ Owns(d, t)
    <2>1. ASSUME NEW t \in ToSet(children) \cap response.streams, NEW d \in response.defers, Owns(d, t) PROVE FALSE
      <3>1. PICK i \in 1..response.items[s] : t \in ToSet(response.yields[s][i])
        BY <1>6
      <3>2. PICK h \in response.groups : t \in ToSet(response.reveals[h])
        BY <2>1 DEF Owns
      <3> QED
        BY <1>2, <3>1, <3>2, RevealedOnce
    <2> QED
      BY <2>1
  <1> HIDE DEF children
  <1>11. Grown(popped, graph', popped.root, all)
    <2>1. CASE children = <<>>
      <3>1. popped.root \subseteq Announced(popped)
        BY <1>8 DEF Sound, Numbered
      <3>2. graph' = popped /\ popped.runs = <<>>
        BY <1>1, <1>2, <1>3, <2>1
      <3> QED
        BY <1>8, <3>1, <3>2 DEF Grown
    <2>2. CASE children # <<>>
      <3>1. children \in Seq(Deliverables) /\ P \subseteq all
        BY <1>6 DEF children
      <3> HIDE DEF P, all
      <3>2. Grown(popped, get_new_root_nodes(popped, children), popped.root, all)
        BY <1>8, <1>9, <1>10, <3>1, NewRootsKeep
      <3> QED
        BY <1>2, <2>2, <3>2
    <2> QED
      BY <2>1, <2>2
  <1> HIDE DEF P, all
  <1>12. Naming(popped, graph', popped.root)
    BY <1>8, <1>11, FreshNames
  <1>13. Announced(popped) = Announced(graph) /\ Fresh(popped, graph') = Fresh(graph, graph')
    BY <1>3 DEF Announced, Fresh
  <1>14. Told(graph', payload', client)
    BY <1>1, <1>2, <1>3, <1>12, <1>13 DEF Told, Naming
  <1>15. Live(payload', client) = all
    <2> DEFINE more == <<entry>>
    <2>a. payload \in Payloads /\ more \in Seq(Entries) /\ Delivers(payload, payload', more)
      BY <1>1, <1>2
    <2> HIDE DEF more
    <2>b. Live(payload', client) = Live(payload, client) \cup PassesOf(more)
      BY <2>a, LiveGrows
    <2>1. Live(payload', client) = Live(payload, client) \cup PassesOf(<<entry>>)
      BY <2>b DEF more
    <2> QED
      BY <1>1, <1>7, <2>1 DEF all
  <1>16. Sound(graph', all) /\ graph'.runs = <<>>
    BY <1>11 DEF Grown
  <1>17. Held(graph', payload', client, all)
    BY <1>2, <1>14, <1>15, <1>16 DEF Held
  <1> QED
    BY <1>17
-----------------------------------------------------------------------------
(* The invariant.                                                          *)

\* The payload in the making is one the client can be told.
LEMMA InvariantIs ==
    ASSUME IInv
    PROVE  Held(graph, payload, client, Live(payload, client))
  BY DEF IInv, Held, Flow, TypeOK

\* The invariant holds after a step that leaves a payload of the graph.
LEMMA InvariantAfter ==
    ASSUME response \in Responses, response' = response, TypeOK', NEW live, Held(graph', payload', client', live),
           pub' # "initial",
           pub' \in {"start", "yielded", "waiting", "woken"} => payload' = EmptyPayload,
           pub' = "yielded" => (client'.has_next <=> graph'.root # {})
    PROVE  IInv'
  <1>1. Sound(graph', Live(payload', client')) /\ Told(graph', payload', client')
    BY DEF Held
  <1>2. Sound(graph, Live(payload, client))' /\ Told(graph, payload, client)'
    BY <1>1, AfterStep
  <1>3. Flow'
    BY DEF Flow, Held, EmptyPayload
  <1> QED
    BY <1>2, <1>3 DEF IInv

\* Handling a completed record keeps the invariant.
LEMMA HandleInvariant ==
    ASSUME IInv, Confined(response), Handle
    PROVE  IInv'
  <1> DEFINE record == Head(graph.queue)
             live == Live(payload, client)
  <1>1. /\ response \in Responses /\ response' = response /\ client' = client /\ graph.queue # <<>>
        /\ pub = "handling"
    BY DEF IInv, Handle
  <1>2. TypeOK'
    BY <1>1, HandleTyped DEF IInv
  <1>3. Held(graph, payload, client, live)
    BY InvariantIs
  <1> HIDE DEF live
  <1>4. pub' \in {"handling", "tick", "crashed"}
    BY <1>1 DEF Handle, HandleFailedGroup, HandleGroup, HandleGroupRaises, HandleItems, HandleStreamEnd
  <1>5. \E all : Held(graph', payload', client, all)
    <2>1. CASE HandleFailedGroup(record)
      BY <1>1, <1>3, <2>1, FailedGroupKeeps
    <2>2. CASE HandleGroup(record)
      BY <1>1, <1>3, <2>2, GroupKeeps
    <2>3. CASE HandleGroupRaises(record)
      BY <1>3, <2>3 DEF HandleGroupRaises
    <2>4. CASE HandleItems(record)
      BY <1>1, <1>3, <2>4, ItemsKeep
    <2>5. CASE HandleStreamEnd(record)
      BY <1>1, <1>3, <2>5, StreamEndKeeps
    <2> QED
      BY <2>1, <2>2, <2>3, <2>4, <2>5 DEF Handle
  <1>6. PICK all : Held(graph', payload', client, all)
    BY <1>5
  <1> QED
    BY <1>1, <1>2, <1>4, <1>6, InvariantAfter

\* The empty graph is sound, and no pass has left anything in it.
LEMMA EmptySound ==
    ASSUME response \in Responses
    PROVE  Sound(EmptyGraph, {<<>>}) /\ Virgin(EmptyGraph, {<<>>}) /\ Announced(EmptyGraph) = {}
  <1> DEFINE g == EmptyGraph
             live == {<<>>}
  <1>1. /\ g.root = {} /\ g.runs = <<>> /\ g.queue = <<>> /\ g.tasks = <<>>
        /\ \A n \in Nodes : g.ids[n] = 0
        /\ g.ids \in [Nodes -> {0, 1}]
        /\ \A d \in response.defers : g.pending[d] = {} /\ g.children[d] = {}
        /\ \A s \in response.streams : g.pumps[s] = NotStarted
    BY DEF EmptyGraph
  <1>2. g \in Graphs
    BY EmptyTyped
  <1> HIDE DEF g
  <1>3. Announced(g) = {}
    BY <1>1 DEF Announced
  <1>4. response.defers \subseteq Nodes /\ response.streams \subseteq Nodes
    BY DEF Nodes
  <1>5. Numbered(g) /\ Nested(g) /\ Linked(g)
    BY <1>1, <1>2, <1>3, <1>4 DEF Numbered, Nested, Linked
  <1>6. Fits(g, live) /\ Streaming(g, live) /\ Waiting(g.queue, g, live) /\ Virgin(g, live)
    <2>1. ToSet(g.runs) = {} /\ DOMAIN g.tasks = {} /\ DOMAIN g.queue = {}
      BY <1>1 DEF ToSet
    <2>2. Fits(g, live) /\ Virgin(g, live)
      BY <1>1, <2>1 DEF Fits, Virgin
    <2>3. Waiting(g.queue, g, live)
      BY <2>1 DEF Waiting
    <2>4. Streaming(g, live)
      <3>1. ~(NotStarted >= 0)
        BY DEF NotStarted
      <3>2. \A s \in response.streams : g.ids[s] = 0
        BY <1>1, <1>4
      <3>3. \A s, i : <<s, i>> \notin live
        OBVIOUS
      <3> HIDE DEF live
      <3> QED
        BY <1>1, <3>1, <3>2, <3>3 DEF Streaming
    <2> QED
      BY <2>2, <2>3, <2>4
  <1> QED
    BY <1>3, <1>5, <1>6 DEF Sound, g
\* The invariant holds at the start.
LEMMA InitInvariant ==
    ASSUME Init
    PROVE  IInv
  <1>1. /\ response \in Responses /\ graph = EmptyGraph /\ payload = EmptyPayload /\ pub = "initial"
        /\ client = [announced |-> {}, completed |-> {}, data |-> <<>>, has_next |-> TRUE]
    BY DEF Init
  <1>2. TypeOK
    BY InitTyped
  <1>3. Live(payload, client) = {<<>>}
    <2>1. ToSet(client.data) = {} /\ ToSet(payload.incremental) = {}
      BY <1>1 DEF EmptyPayload, ToSet
    <2> QED
      BY <2>1 DEF Live
  <1>4. Sound(graph, Live(payload, client)) /\ Announced(graph) = {}
    BY <1>1, <1>3, EmptySound
  <1>5. Told(graph, payload, client)
    <2>1. Names({}) = {} /\ ToSet(<<>>) = {} /\ IsInjective(<<>>)
      BY DEF Names, ToSet, IsInjective
    <2> QED
      BY <1>1, <1>4, <2>1 DEF Told, EmptyPayload
  <1>6. Flow
    BY <1>1 DEF Flow, EmptyPayload
  <1> QED
    BY <1>1, <1>2, <1>4, <1>5, <1>6 DEF IInv

\* The initial payload announces what the initial pass leaves at the top.
LEMMA BuildInvariant ==
    ASSUME IInv, Confined(response), BuildResponse
    PROVE  IInv'
  <1> DEFINE records == Surviving(response.initial)
             live == {<<>>}
  <1>1. /\ response \in Responses /\ response' = response /\ payload' = payload /\ pub' = "start"
        /\ graph' = get_new_root_nodes(graph, records)
        /\ client' = [client EXCEPT !.announced = Fresh(graph, graph')]
        /\ pub = "initial"
    BY DEF IInv, BuildResponse
  <1>2. /\ graph = EmptyGraph /\ payload = EmptyPayload
        /\ client.announced = {} /\ client.completed = {} /\ client.data = <<>>
    BY <1>1 DEF IInv, Flow
  <1>3. TypeOK'
    BY <1>1, BuildTyped DEF IInv
  <1>4. Sound(graph, live) /\ Virgin(graph, live) /\ Announced(graph) = {}
    BY <1>1, <1>2, EmptySound
  <1>5. records \in Seq(Deliverables) /\ ToSet(records) \subseteq ToSet(response.initial)
    BY <1>1, ResponseFacts, SurvivingIs
  <1> HIDE DEF records
  <1>6. InPass(ToSet(records), live)
    <2>1. \A x \in ToSet(records) : Home[x] = <<>>
      BY <1>1, <1>5, HomeIs
    <2> QED
      BY <2>1 DEF InPass
  <1>7. \A t \in ToSet(records) \cap response.streams : \A d \in response.defers : ~ Owns(d, t)
    <2>1. ASSUME NEW t \in ToSet(records) \cap response.streams, NEW d \in response.defers, Owns(d, t) PROVE FALSE
      <3>1. PICK h \in response.groups : t \in ToSet(response.reveals[h])
        BY <2>1 DEF Owns
      <3> QED
        BY <1>1, <1>5, <3>1, RevealedOnce
    <2> QED
      BY <2>1
  <1> HIDE DEF live
  <1>8. Grown(graph, graph', graph.root, live)
    BY <1>1, <1>4, <1>5, <1>6, <1>7, NewRootsKeep
  <1>9. Naming(graph, graph', graph.root)
    BY <1>1, <1>4, <1>8, FreshNames
  <1>10. /\ client'.announced = Fresh(graph, graph') /\ client'.completed = {} /\ client'.data = <<>>
    BY <1>1, <1>2 DEF IInv, TypeOK
  <1>11. ToSet(<<>>) = {} /\ IsInjective(<<>>) /\ Names({}) = {}
    BY DEF ToSet, IsInjective, Names
  <1>12. Told(graph', payload', client')
    <2>1. Names(Announced(graph')) = Fresh(graph, graph')
      BY <1>4, <1>9, <1>11 DEF Naming
    <2>2. Names(Announced(graph') \ graph'.root) = {}
      BY <1>4, <1>9, <1>11 DEF Naming
    <2> QED
      BY <1>1, <1>2, <1>10, <1>11, <2>1, <2>2 DEF Told, EmptyPayload
  <1>13. Live(payload', client') = live
    <2>1. ToSet(client'.data) = {} /\ ToSet(payload'.incremental) = {}
      BY <1>1, <1>2, <1>10, <1>11 DEF EmptyPayload
    <2> QED
      BY <2>1 DEF Live, live
  <1>14. Sound(graph', live) /\ graph'.runs = <<>>
    BY <1>8 DEF Grown
  <1>15. Held(graph', payload', client', live)
    BY <1>1, <1>2, <1>12, <1>13, <1>14, EmptyTyped DEF Held, EmptyPayload
  <1> QED
    BY <1>1, <1>2, <1>3, <1>15, InvariantAfter
\* A yielded payload tells the client what it held.
LEMMA YieldInvariant ==
    ASSUME IInv, YieldPayload
    PROVE  IInv'
  <1> DEFINE live == Live(payload, client)
  <1>1. /\ response \in Responses /\ response' = response /\ graph' = graph
        /\ payload' = EmptyPayload /\ pub' = "yielded"
        /\ client' = [announced |-> client.announced \cup payload.pending,
                      completed |-> client.completed \cup ToSet(payload.completed),
                      data |-> client.data \o payload.incremental,
                      has_next |-> graph.root # {}]
    BY DEF IInv, YieldPayload, has_next
  <1>2. TypeOK'
    BY <1>1, YieldTyped DEF IInv
  <1>3. Held(graph, payload, client, live)
    BY InvariantIs
  <1>4. ToSet(<<>>) = {} /\ IsInjective(<<>>)
    BY DEF ToSet, IsInjective
  <1>5. Told(graph', payload', client')
    BY <1>1, <1>3, <1>4 DEF Held, Told, EmptyPayload
  <1>6. ToSet(client'.data) = ToSet(client.data) \cup ToSet(payload.incremental)
    <2>1. client.data \in Seq(Entries) /\ payload.incremental \in Seq(Entries)
      BY DEF IInv, TypeOK, Payloads
    <2> DEFINE data == client.data \o payload.incremental
    <2>2. client'.data = data
      BY <1>1
    <2>3. ToSet(data) = ToSet(client.data) \cup ToSet(payload.incremental)
      BY <2>1, Concatenated
    <2> HIDE DEF data
    <2> QED
      BY <2>2, <2>3
  <1>7. Live(payload', client') = live
    <2>1. ToSet(payload'.incremental) = {}
      BY <1>1, <1>4 DEF EmptyPayload
    <2>2. ToSet(client'.data) \cup ToSet(payload'.incremental) = ToSet(client.data) \cup ToSet(payload.incremental)
      BY <1>6, <2>1
    <2> QED
      BY <2>2 DEF Live
  <1> HIDE DEF live
  <1>8. Held(graph', payload', client', live)
    BY <1>1, <1>3, <1>5, <1>7, EmptyTyped DEF Held, EmptyPayload
  <1>9. client'.has_next <=> graph'.root # {}
    BY <1>1
  <1> QED
    BY <1>1, <1>2, <1>8, <1>9, InvariantAfter

\* What a task or a pump puts on the queue is of what is in the graph.
LEMMA TaskKeeps ==
    ASSUME response \in Responses, NEW live, Sound(graph, live), FinishTask
    PROVE  Sound(graph', live) /\ SameNodes(graph, graph')
  <1>1. graph \in Graphs
    BY SoundFields
  <1>2. PICK batch, q :
           /\ batch \in ToSet(graph.tasks)
           /\ batch \in Seq(response.groups) /\ q \in Seq(ResultsOf(ToSet(batch)))
           /\ graph' \in Graphs /\ SameNodes(graph, graph') /\ graph'.pumps = graph.pumps
           /\ ToSet(graph'.tasks) \subseteq ToSet(graph.tasks)
           /\ Queued(graph, graph', q)
    BY <1>1, TaskIs
  <1> DEFINE R == ToSet(batch)
             h == graph'
  <1>3. R \subseteq response.groups /\ \A c \in R : Home[c] \in live
    <2>1. R \subseteq response.groups
      BY <1>2 DEF ToSet
    <2>2. PICK i \in DOMAIN graph.tasks : batch = graph.tasks[i]
      BY <1>2 DEF ToSet
    <2> QED
      BY <2>1, <2>2 DEF Sound, Fits
  <1> HIDE DEF R
  <1>4. graph.queue \in Seq(Completions) /\ Waiting(graph.queue, graph, live)
    BY <1>1, GraphFields DEF Sound
  <1>5. Waiting(graph.queue \o q, graph, live)
    BY <1>2, <1>3, <1>4, WaitingGrows DEF R
  <1>6. \A s \in response.streams : Got(h, s) = Got(graph, s)
    BY <1>2 DEF Got
  <1>7. Waiting(h.queue, h, live)
    <2>1. Waiting(h.queue, graph, live)
      BY <1>2, <1>5 DEF Queued
    <2> QED
      BY <1>2, <1>6, <2>1 DEF Waiting, SameNodes
  <1>8. Announced(h) = Announced(graph)
    BY <1>2 DEF Announced, SameNodes
  <1>9. Numbered(h) /\ Nested(h) /\ Linked(h) /\ Streaming(h, live)
    BY <1>2, <1>6, <1>8 DEF Sound, Numbered, Nested, Linked, Streaming, SameNodes
  <1>10. \A i \in DOMAIN h.tasks : \E j \in DOMAIN graph.tasks : h.tasks[i] = graph.tasks[j]
    BY <1>2 DEF ToSet
  <1>11. Fits(h, live)
    BY <1>2, <1>10 DEF Sound, Fits, SameNodes
  <1> QED
    BY <1>2, <1>7, <1>9, <1>11 DEF Sound
\* The items a pump takes are new, and nothing of its stream comes after its end.
LEMMA PumpKeeps ==
    ASSUME response \in Responses, NEW live, Sound(graph, live), NEW s \in response.streams, Pump(s)
    PROVE  Sound(graph', live) /\ SameNodes(graph, graph')
  <1> DEFINE n == response.items[s]
             p == graph.pumps[s]
             h == graph'
             queue == graph.queue
  <1>1. graph \in Graphs /\ n \in 0..MaxItems /\ MaxItems \in Nat
    BY SoundFields, ResponseFacts
  <1>2. PICK q \in (p + 1)..(n + 1) :
           /\ p \in 0..MaxItems
           /\ h \in Graphs /\ SameNodes(graph, h) /\ h.tasks = graph.tasks
           /\ h.pumps = [graph.pumps EXCEPT ![s] = IF q > n THEN Exhausted ELSE q]
           /\ Queued(graph, h, Flushed(s, p, q))
           /\ Flushed(s, p, q) \in Seq(Completions)
    BY <1>1, PumpIs
  <1> DEFINE more == Flushed(s, p, q)
             got == (p + 1)..(IF q > n THEN n ELSE q)
  <1>3. /\ \A i \in DOMAIN more :
              /\ more[i].of = s /\ more[i].items \subseteq got
              /\ more[i].done => q > n
        /\ \A i, j \in DOMAIN more : i < j => ~more[i].done /\ more[j].items = {}
    BY <1>2, FlushedIs
  <1>4. graph.pumps \in [response.streams -> {NotStarted, Exhausted} \cup 0..MaxItems] /\ queue \in Seq(Completions)
    BY <1>1, GraphFields
  <1>5. /\ h.pumps[s] = IF q > n THEN Exhausted ELSE q
        /\ \A t \in response.streams : t # s => h.pumps[t] = graph.pumps[t]
    BY <1>2, <1>4
  <1>6. s \in graph.root /\ graph.ids[s] = 1
    <2>1. p >= 0
      BY <1>2
    <2> QED
      BY <2>1, SoundFields DEF Sound, Streaming
  <1>7. Got(graph, s) = 1..p /\ Got(h, s) = 1..(IF q > n THEN n ELSE q)
    <2>1. q \in Int /\ q >= 1 /\ p \in Int /\ p >= 0
      BY <1>1, <1>2
    <2>2. p # NotStarted /\ p # Exhausted /\ q # NotStarted /\ q # Exhausted /\ Exhausted # NotStarted
      BY <2>1 DEF NotStarted, Exhausted
    <2> QED
      BY <1>5, <2>2 DEF Got
  <1>8. \A t \in response.streams : t # s => Got(h, t) = Got(graph, t)
    BY <1>5 DEF Got
  <1>9. /\ Got(graph, s) \subseteq Got(h, s) /\ got \subseteq Got(h, s) /\ got \cap Got(graph, s) = {}
        /\ got \subseteq 1..n
    BY <1>1, <1>2, <1>7
  <1>10. \A i \in got : <<s, i>> \notin live
    BY <1>9 DEF Sound, Streaming
  <1>11. h.queue \in Seq(Completions) /\ DOMAIN queue \subseteq Int
         /\ \A i \in DOMAIN h.queue :
              \/ i \in DOMAIN queue /\ h.queue[i] = queue[i]
              \/ i - Len(queue) \in DOMAIN more /\ h.queue[i] = more[i - Len(queue)] /\ \A j \in DOMAIN queue : j < i
    <2>1. h.queue = queue \o more /\ more \in Seq(Completions)
      BY <1>2 DEF Queued
    <2> HIDE DEF more, queue, h
    <2>2. /\ DOMAIN queue = 1..Len(queue) /\ DOMAIN more = 1..Len(more)
          /\ DOMAIN (queue \o more) = 1..(Len(queue) + Len(more)) /\ Len(queue) \in Nat /\ Len(more) \in Nat
          /\ \A i \in 1..(Len(queue) + Len(more)) :
                (queue \o more)[i] = IF i <= Len(queue) THEN queue[i] ELSE more[i - Len(queue)]
          /\ queue \o more \in Seq(Completions)
      <3>1. queue \o more \in Seq(Completions) /\ Len(queue \o more) = Len(queue) + Len(more)
            /\ \A i \in 1..(Len(queue) + Len(more)) :
                  (queue \o more)[i] = IF i <= Len(queue) THEN queue[i] ELSE more[i - Len(queue)]
        BY <1>4, <2>1, ConcatProperties
      <3> DEFINE all == queue \o more
      <3>2. all \in Seq(Completions) /\ Len(all) = Len(queue) + Len(more)
        BY <3>1
      <3> HIDE DEF all
      <3>3. DOMAIN all = 1..(Len(queue) + Len(more))
        BY <3>2
      <3> QED
        BY <1>4, <2>1, <3>1, <3>3 DEF all
    <2> DEFINE all == queue \o more
    <2>3. h.queue = all
      BY <2>1
    <2>4. /\ DOMAIN all = 1..(Len(queue) + Len(more)) /\ all \in Seq(Completions)
          /\ \A i \in 1..(Len(queue) + Len(more)) : all[i] = IF i <= Len(queue) THEN queue[i] ELSE more[i - Len(queue)]
      BY <2>2
    <2> HIDE DEF all
    <2> QED
      BY <2>2, <2>3, <2>4
  <1> HIDE DEF more, queue, h, got
  <1>12. Waiting(queue, graph, live)
    BY DEF Sound, queue
  <1>13. \A i \in DOMAIN queue : queue[i].of = s => ~queue[i].done
    <2>1. p # Exhausted
      BY <1>2 DEF Exhausted
    <2> QED
      BY <1>12, <2>1 DEF Waiting
  <1>14. Waiting(h.queue, h, live)
    <2>1. s \notin response.groups
      BY ResponseFacts DEF Nodes
    <2>2. \A i \in DOMAIN h.queue : h.queue[i].of \in response.groups => Home[h.queue[i].of] \in live
      BY <1>3, <1>11, <1>12, <2>1 DEF Waiting
    <2>3. ASSUME NEW i \in DOMAIN h.queue, h.queue[i].of \in response.streams
          PROVE  /\ h.queue[i].of \in h.root
                 /\ h.queue[i].items \subseteq Got(h, h.queue[i].of)
                 /\ \A k \in h.queue[i].items : <<h.queue[i].of, k>> \notin live
                 /\ h.queue[i].done => h.pumps[h.queue[i].of] = Exhausted
      <3>1. CASE i \in DOMAIN queue /\ h.queue[i] = queue[i]
        <4>1. /\ queue[i].of \in graph.root /\ queue[i].items \subseteq Got(graph, queue[i].of)
              /\ \A k \in queue[i].items : <<queue[i].of, k>> \notin live
              /\ queue[i].done => graph.pumps[queue[i].of] = Exhausted
          BY <1>12, <2>3, <3>1 DEF Waiting
        <4> QED
          BY <1>2, <1>5, <1>8, <1>9, <1>13, <2>3, <3>1, <4>1 DEF SameNodes
      <3>2. CASE i - Len(queue) \in DOMAIN more /\ h.queue[i] = more[i - Len(queue)]
        <4>1. h.queue[i].of = s /\ h.queue[i].items \subseteq got /\ (h.queue[i].done => q > n)
          BY <1>3, <3>2
        <4>2. q > n => h.pumps[s] = Exhausted
          BY <1>5
        <4>3. s \in h.root
          BY <1>2, <1>6 DEF SameNodes
        <4>4. \A k \in h.queue[i].items : k \in got
          BY <4>1
        <4>5. h.queue[i].items \subseteq Got(h, s)
          BY <1>9, <4>1
        <4> QED
          BY <1>10, <4>1, <4>2, <4>3, <4>4, <4>5
      <3> QED
        BY <1>11, <3>1, <3>2
    <2>4. ASSUME NEW i \in DOMAIN h.queue, h.queue[i].of \in response.streams,
                 NEW j \in DOMAIN h.queue, i < j, h.queue[j].of = h.queue[i].of
          PROVE  ~h.queue[i].done /\ h.queue[i].items \cap h.queue[j].items = {}
      <3>1. CASE i \in DOMAIN queue /\ h.queue[i] = queue[i] /\ j \in DOMAIN queue /\ h.queue[j] = queue[j]
        BY <1>12, <2>4, <3>1 DEF Waiting
      <3>2. CASE /\ i \in DOMAIN queue /\ h.queue[i] = queue[i]
                 /\ j - Len(queue) \in DOMAIN more /\ h.queue[j] = more[j - Len(queue)]
        <4>1. queue[i].of = s /\ h.queue[j].items \subseteq got
          BY <1>3, <2>4, <3>2
        <4>2. queue[i].items \subseteq Got(graph, s)
          BY <1>12, <2>4, <3>2, <4>1 DEF Waiting
        <4> QED
          BY <1>9, <1>13, <3>2, <4>1, <4>2
      <3>3. CASE i - Len(queue) \in DOMAIN more /\ h.queue[i] = more[i - Len(queue)]
                 /\ j - Len(queue) \in DOMAIN more /\ h.queue[j] = more[j - Len(queue)]
        <4>1. i - Len(queue) < j - Len(queue)
          <5>1. i \in Int /\ j \in Int /\ Len(queue) \in Int
            <6>1. h.queue \in Seq(Completions) /\ queue \in Seq(Completions)
              BY <1>4, <1>11
            <6> QED
              BY <2>4, <6>1
          <5> QED
            BY <2>4, <5>1
        <4> QED
          BY <1>3, <3>3, <4>1
      <3>4. ~(/\ j \in DOMAIN queue
              /\ \A k \in DOMAIN queue : k < i)
        BY <2>4, <1>11
      <3> QED
        BY <1>11, <3>1, <3>2, <3>3, <3>4
    <2> QED
      BY <2>2, <2>3, <2>4 DEF Waiting
  <1>15. Announced(h) = Announced(graph)
    BY <1>2 DEF Announced, SameNodes
  <1>16. Numbered(h) /\ Nested(h) /\ Linked(h) /\ Fits(h, live)
    BY <1>2, <1>15 DEF Sound, Numbered, Nested, Linked, Fits, SameNodes
  <1>17. Streaming(h, live)
    <2>1. ASSUME NEW t \in response.streams
          PROVE  /\ h.ids[t] = 0 <=> h.pumps[t] = NotStarted
                 /\ h.pumps[t] >= 0 => t \in h.root
                 /\ \A i \in 1..response.items[t] : <<t, i>> \in live => i \in Got(h, t)
      <3>1. CASE t # s
        BY <1>2, <1>5, <1>8, <3>1 DEF Sound, Streaming, SameNodes
      <3>2. CASE t = s
        <4>1. h.pumps[s] # NotStarted
          BY <1>1, <1>2, <1>5 DEF NotStarted, Exhausted
        <4> QED
          BY <1>2, <1>6, <1>9, <3>2, <4>1 DEF Sound, Streaming, SameNodes
      <3> QED
        BY <3>1, <3>2
    <2> QED
      BY <2>1 DEF Streaming
  <1> QED
    BY <1>2, <1>14, <1>16, <1>17 DEF Sound, h
\* The invariant holds whatever ends while the publisher awaits.
LEMMA WorkInvariant ==
    ASSUME IInv, Work
    PROVE  IInv'
  <1> DEFINE live == Live(payload, client)
  <1>1. /\ response \in Responses /\ response' = response /\ payload' = payload /\ client' = client
        /\ pub' = _enqueue(pub) /\ pub \in {"start", "tick", "waiting", "woken", "yielded"}
    BY DEF IInv, Work, FinishTask, Pump, TasksMayRun
  <1>2. TypeOK'
    BY <1>1, WorkTyped DEF IInv
  <1>3. Held(graph, payload, client, live)
    BY InvariantIs
  <1> HIDE DEF live
  <1>4. Sound(graph', live) /\ SameNodes(graph, graph')
    <2>1. Sound(graph, live)
      BY <1>3 DEF Held
    <2>2. CASE FinishTask
      BY <1>1, <2>1, <2>2, TaskKeeps
    <2>3. ASSUME NEW s \in response.streams, Pump(s) PROVE Sound(graph', live) /\ SameNodes(graph, graph')
      BY <1>1, <2>1, <2>3, PumpKeeps
    <2> QED
      BY <2>2, <2>3 DEF Work
  <1>5. Announced(graph') = Announced(graph) /\ graph'.root = graph.root /\ graph'.runs = graph.runs
    BY <1>4 DEF Announced, SameNodes
  <1>6. Held(graph', payload', client', live)
    BY <1>1, <1>3, <1>4, <1>5 DEF Held, Told
  <1>7. /\ pub' # "initial"
        /\ pub' \in {"start", "yielded", "waiting", "woken"} => payload' = EmptyPayload
        /\ pub' = "yielded" => (client'.has_next <=> graph'.root # {})
    BY <1>1, <1>5 DEF _enqueue, IInv, Flow
  <1> QED
    BY <1>1, <1>2, <1>6, <1>7, InvariantAfter

\* The steps that leave the graph and what the client was told alone.
LEMMA IdleInvariant ==
    ASSUME IInv, RunPlain \/ Tick \/ Await \/ Wake \/ FirstPull \/ Pull \/ Close
    PROVE  IInv'
  <1> DEFINE live == Live(payload, client)
  <1>1. /\ response \in Responses /\ response' = response /\ graph' = graph /\ client' = client
    BY DEF IInv, RunPlain, Tick, Await, Wake, FirstPull, Pull, Close
  <1>2. TypeOK'
    BY <1>1, IdleTyped DEF IInv
  <1>3. Held(graph, payload, client, live) /\ Flow
    BY InvariantIs DEF IInv
  <1>4. payload' = payload \/ Await
    BY DEF RunPlain, Tick, Await, Wake, FirstPull, Pull, Close
  <1>5. /\ payload'.incremental = payload.incremental
        /\ payload'.completed = payload.completed
        /\ payload'.pending = payload.pending
    <2>1. CASE payload' = payload
      BY <2>1
    <2>2. CASE Await
      <3>1. payload.incremental = <<>> /\ payload.completed = <<>> /\ payload' = EmptyPayload
        BY <2>2 DEF Await
      <3>2. payload.pending = {}
        BY <1>3, <3>1 DEF Flow
      <3> QED
        BY <3>1, <3>2 DEF EmptyPayload
    <2> QED
      BY <1>4, <2>1, <2>2
  <1>6. Live(payload', client') = live
    BY <1>1, <1>5 DEF Live
  <1> HIDE DEF live
  <1>7. Held(graph', payload', client', live)
    BY <1>1, <1>2, <1>3, <1>4, <1>5, <1>6, EmptyTyped DEF Held, Told, Await
  <1>8. /\ pub' # "initial" /\ pub' # "yielded"
        /\ pub' \in {"start", "waiting", "woken"} => payload' = EmptyPayload
    BY <1>3 DEF Flow, RunPlain, Tick, Await, Wake, FirstPull, Pull, Close
  <1> QED
    BY <1>1, <1>2, <1>7, <1>8, InvariantAfter

\* The invariant holds at every step of a response that is Confined.
LEMMA Invariant ==
    ASSUME \A r \in Responses : Confined(r)
    PROVE  Spec => []IInv
  <1>1. Init => IInv
    BY InitInvariant
  <1>2. IInv /\ [Next]_vars => IInv'
    <2> SUFFICES ASSUME IInv, [Next]_vars PROVE IInv'
      OBVIOUS
    <2>1. Confined(response)
      BY DEF IInv
    <2>2. CASE Next
      BY <2>1, <2>2, HandleInvariant, BuildInvariant, YieldInvariant, WorkInvariant, IdleInvariant DEF Next, Publish
    <2>3. CASE UNCHANGED vars
      <3>1. response' = response /\ graph' = graph /\ pub' = pub /\ payload' = payload /\ client' = client
        BY <2>3 DEF vars
      <3>2. Sound(graph', Live(payload', client')) /\ Told(graph', payload', client')
        BY <3>1 DEF IInv
      <3>3. Sound(graph, Live(payload, client))' /\ Told(graph, payload, client)'
        BY <3>1, <3>2, AfterStep
      <3>4. TypeOK' /\ Flow'
        BY <3>1, TypedIs, Steady DEF IInv, Flow
      <3> QED
        BY <3>1, <3>3, <3>4 DEF IInv
    <2> QED
      BY <2>2, <2>3
  <1> QED
    BY <1>1, <1>2, PTL DEF Spec
\* Whatever the interleaving, a node is announced under one id, an id is
\* completed once, after it was announced: to_pending runs once for each node,
\* and a node leaves the root for good.
THEOREM OneIdEach ==
    ASSUME \A r \in Responses : Confined(r)
    PROVE  Spec => []IdsWellFormed
  <1>1. IInv => IdsWellFormed
    <2> SUFFICES ASSUME IInv PROVE IdsWellFormed
      OBVIOUS
    <2> DEFINE known == client.announced \cup payload.pending
    <2>1. /\ known = Names(Announced(graph))
          /\ client.completed \cup ToSet(payload.completed) = Names(Announced(graph) \ graph.root)
          /\ client.completed \cap ToSet(payload.completed) = {}
          /\ IsInjective(payload.completed)
      BY DEF IInv, Told
    <2> HIDE DEF known
    <2>2. \A a, b \in known : a[1] = b[1] => a = b
      BY <2>1 DEF Names
    <2>3. ToSet(payload.completed) \subseteq known \ client.completed
      BY <2>1 DEF Names
    <2> QED
      BY <2>1, <2>2, <2>3 DEF IdsWellFormed, known
  <1> QED
    BY <1>1, Invariant, PTL

\* hasNext is FALSE exactly on the payload that leaves the client no id to wait
\* for: the root nodes are the announced ones that have not completed.
THEOREM HasNext ==
    ASSUME \A r \in Responses : Confined(r)
    PROVE  Spec => []HasNextIsHonest
  <1>1. IInv => HasNextIsHonest
    <2> SUFFICES ASSUME IInv, pub = "yielded" PROVE client.has_next <=> client.completed # client.announced
      BY DEF HasNextIsHonest
    <2>1. /\ payload = EmptyPayload /\ (client.has_next <=> graph.root # {})
          /\ Told(graph, payload, client) /\ graph.root \subseteq Announced(graph)
      BY DEF IInv, Flow, Sound, Numbered
    <2>2. ToSet(<<>>) = {}
      BY DEF ToSet
    <2>3. /\ client.announced = Names(Announced(graph))
          /\ client.completed = Names(Announced(graph) \ graph.root)
      BY <2>1, <2>2 DEF Told, EmptyPayload
    <2>4. graph.root # {} => client.completed # client.announced
      <3>1. ASSUME NEW n \in graph.root PROVE <<n, 1>> \in client.announced \ client.completed
        BY <2>1, <2>3 DEF Names
      <3> QED
        BY <3>1
    <2>5. graph.root = {} => client.completed = client.announced
      BY <2>3
    <2> QED
      BY <2>1, <2>4, <2>5
  <1> QED
    BY <1>1, Invariant, PTL

\* No fragment is announced while one that encloses it is pending, however the
\* groups of the two complete.
THEOREM ParentsFirst ==
    ASSUME \A r \in Responses : Confined(r)
    PROVE  Spec => []NestedAfterParent
  <1>1. IInv => NestedAfterParent
    <2> SUFFICES ASSUME IInv, NEW d \in response.defers, graph.ids[d] > 0
                 PROVE  (Lineage(d) \ {d}) \cap graph.root = {}
      BY DEF NestedAfterParent
    <2>1. graph.ids[d] = 1
      <3>1. d \in Nodes /\ graph.ids \in [Nodes -> {0, 1}]
        BY DEF Nodes, IInv, Sound, Numbered
      <3> QED
        BY <3>1
    <2> QED
      BY <2>1 DEF IInv, Sound, Nested
  <1> QED
    BY <1>1, Invariant, PTL
=============================================================================
