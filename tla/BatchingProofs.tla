--------------------------- MODULE BatchingProofs ---------------------------
(***************************************************************************)
(* What the built-in steps do to columns: every step fills a column of its *)
(* bucket's length, and what it makes of an entry does not depend on the   *)
(* entries that share the bucket.                                          *)
(***************************************************************************)
EXTENDS BuiltinSteps, SequenceFacts, FiniteSetTheorems

\* A column holds one value per entry of its bucket.
IsColumn(col, count) == col \in Seq(ToSet(col)) /\ Len(col) = count

\* Any function over 1 .. n is a sequence of length n.
LEMMA ColumnIntro ==
    ASSUME NEW n \in Nat, NEW f, f = [i \in 1..n |-> f[i]]
    PROVE  IsColumn(f, n) /\ DOMAIN f = 1..n
  <1>1. DOMAIN f = 1..n
    OBVIOUS
  <1>2. f \in [1..n -> ToSet(f)]
    BY <1>1 DEF ToSet
  <1>3. f \in Seq(ToSet(f))
    BY <1>2
  <1> QED
    BY <1>1, <1>3, LenProperties DEF IsColumn

\* The domain of a column is its positions.
LEMMA ColumnDomain ==
    ASSUME NEW n, NEW col, IsColumn(col, n)
    PROVE  n \in Nat /\ DOMAIN col = 1..n /\ col = [i \in 1..n |-> col[i]]
  BY LenProperties DEF IsColumn

\* Every step fills a column.
LEMMA ExecuteFills ==
    ASSUME NEW step, step.kind \in Kinds, NEW count \in Nat, NEW cols,
           \A d \in DOMAIN cols : IsColumn(cols[d], count),
           step.kind \notin {"constant", "list", "object"} => 1 \in DOMAIN cols
    PROVE  IsColumn(Execute(step, cols, count), count)
  <1> DEFINE out == Execute(step, cols, count)
  <1>1. 1 \in DOMAIN cols => DOMAIN cols[1] = 1..count /\ Len(cols[1]) = count
    BY ColumnDomain DEF IsColumn
  <1>2. CASE step.kind \in {"constant", "list", "object"}
    <2>1. out = [i \in 1..count |-> out[i]]
      BY <1>2 DEF Execute, ConstantExecute, ListExecute, ObjectExecute
    <2> QED
      BY <2>1, ColumnIntro
  <1>3. CASE step.kind = "each"
    <2>1. out = [i \in 1..count |-> out[i]]
      BY <1>1, <1>3 DEF Execute, EachExecute, Regroup
    <2> QED
      BY <2>1, ColumnIntro
  <1>4. CASE step.kind \in {"access", "lambda", "resolve", "node", "filter", "first", "last", "reverse"}
    <2> DEFINE col == cols[1]
    <2>1. out \in {AccessExecute(step, col), LambdaExecute(col), ResolveExecute(step, col),
                   NodeExecute(step, col), ListOpExecute(step, col)}
      BY <1>4 DEF Execute
    <2>2. DOMAIN col = 1..count
      BY <1>1, <1>4
    <2>3. out = [i \in 1..count |-> out[i]]
      BY <2>1, <2>2 DEF AccessExecute, LambdaExecute, ResolveExecute, NodeExecute, ListOpExecute
    <2> QED
      BY <2>3, ColumnIntro
  <1>5. CASE step.kind = "load"
    <2> DEFINE col == cols[1]
    <2>1. out = LoadExecute(step, col)
      BY <1>5 DEF Execute
    <2>2. DOMAIN col = 1..count
      BY <1>1, <1>5
    <2>3. DOMAIN Coalesce(col).slots = 1..count
      BY <2>2 DEF Coalesce
    <2>4. out = [i \in 1..count |-> out[i]]
      BY <2>1, <2>2, <2>3 DEF LoadExecute, Scatter
    <2> QED
      BY <2>4, ColumnIntro
  <1> QED
    BY <1>2, <1>3, <1>4, <1>5 DEF Kinds

-----------------------------------------------------------------------------
(* Positions and ranks.                                                    *)

\* Of two positions, the later one has the higher rank.
LEMMA RanksDiffer ==
    ASSUME NEW n \in Nat, NEW E, E \subseteq 1..n
    PROVE  /\ Cardinality(E) \in Nat
           /\ \A i \in E : Rank(E, i) \in 1..Cardinality(E)
           /\ \A i, j \in E : Rank(E, i) = Rank(E, j) => i = j
  <1> DEFINE upto(i) == {j \in E : j <= i}
  <1>1. IsFiniteSet(E)
    BY FS_Interval, FS_Subset, IsFiniteSet(1..n)
  <1>2. Cardinality(E) \in Nat
    BY <1>1, FS_CardinalityType
  <1>3. ASSUME NEW i \in E
        PROVE  /\ IsFiniteSet(upto(i)) /\ i \in upto(i)
               /\ Cardinality(upto(i)) \in 1..Cardinality(E)
    <2>1. upto(i) \in SUBSET E /\ i \in upto(i)
      OBVIOUS
    <2>2. IsFiniteSet(upto(i)) /\ Cardinality(upto(i)) <= Cardinality(E)
      BY <1>1, <2>1, FS_Subset
    <2>3. Cardinality(upto(i)) \in Nat /\ Cardinality(upto(i)) # 0
      BY <2>1, <2>2, FS_CardinalityType, FS_EmptySet
    <2> QED
      BY <1>2, <2>1, <2>2, <2>3
  <1>4. ASSUME NEW i \in E, NEW j \in E, i < j
        PROVE  Cardinality(upto(i)) # Cardinality(upto(j))
    <2>1. upto(i) \in SUBSET upto(j) /\ j \notin upto(i) /\ j \in upto(j)
      <3>1. i \in Nat /\ j \in Nat /\ \A k \in E : k \in Nat
        OBVIOUS
      <3>2. \A k \in E : k <= i => k <= j
        BY <1>4, <3>1
      <3>3. upto(i) \in SUBSET upto(j)
        BY <3>2
      <3> QED
        BY <1>4, <3>1, <3>3
    <2>2. IsFiniteSet(upto(j))
      BY <1>3
    <2> HIDE DEF upto
    <2> QED
      BY <2>1, <2>2, FS_Subset
  <1>5. \A i \in E : Rank(E, i) = Cardinality(upto(i))
    BY DEF Rank
  <1>6. \A i \in E : i \in Nat
    OBVIOUS
  <1> HIDE DEF upto
  <1>7. ASSUME NEW i \in E, NEW j \in E, Rank(E, i) = Rank(E, j) PROVE i = j
    BY <1>4, <1>5, <1>6, <1>7
  <1> QED
    BY <1>2, <1>3, <1>5, <1>7

\* The position of each rank, in order.
LEMMA InOrderOfRank ==
    ASSUME NEW n \in Nat, NEW E, E \subseteq 1..n
    PROVE  /\ DOMAIN InOrder(E) = 1..Cardinality(E)
           /\ \A i \in E : Rank(E, i) \in DOMAIN InOrder(E) /\ InOrder(E)[Rank(E, i)] = i
  <1>1. DOMAIN InOrder(E) = 1..Cardinality(E)
    BY DEF InOrder
  <1>2. ASSUME NEW i \in E
        PROVE  Rank(E, i) \in 1..Cardinality(E) /\ InOrder(E)[Rank(E, i)] = i
    <2>1. Rank(E, i) \in 1..Cardinality(E)
      BY RanksDiffer
    <2>2. InOrder(E)[Rank(E, i)] = CHOOSE j \in E : Rank(E, j) = Rank(E, i)
      BY <2>1 DEF InOrder
    <2>3. \A j \in E : Rank(E, j) = Rank(E, i) => j = i
      BY RanksDiffer
    <2> QED
      BY <2>1, <2>2, <2>3
  <1> QED
    BY <1>1, <1>2

\* The positions of an interval are counted from its start.
LEMMA InOrderOfInterval ==
    ASSUME NEW a \in Nat, NEW m \in Nat
    PROVE  InOrder(a + 1 .. a + m) = [p \in 1..m |-> a + p]
  <1> DEFINE E == a + 1 .. a + m
  <1>1. Cardinality(E) = m
    BY FS_Interval
  <1>2. ASSUME NEW i \in E PROVE Rank(E, i) = i - a
    <2>1. {j \in E : j <= i} = a + 1 .. i
      OBVIOUS
    <2>2. Cardinality(a + 1 .. i) = i - a
      BY FS_Interval
    <2> QED
      BY <2>1, <2>2 DEF Rank
  <1>3. ASSUME NEW p \in 1..m PROVE (CHOOSE i \in E : Rank(E, i) = p) = a + p
    <2>1. a + p \in E /\ \A i \in E : Rank(E, i) = p <=> i = a + p
      BY <1>2
    <2> HIDE DEF E
    <2> QED
      BY <2>1
  <1> HIDE DEF E
  <1>4. InOrder(E) = [p \in 1..m |-> a + p]
    BY <1>1, <1>3 DEF InOrder
  <1> QED
    BY <1>4 DEF E

-----------------------------------------------------------------------------
(* Loads and nodes: one call for many entries.                             *)

\* The key in the slot of an entry is the entry's own.
LEMMA SlotsHoldKeys ==
    ASSUME NEW n \in Nat, NEW col, DOMAIN col = 1..n, NEW i \in 1..n
    PROVE  LET batch == Coalesce(col)
           IN  /\ DOMAIN batch.slots = 1..n
               /\ batch.slots[i] \in DOMAIN batch.keys
               /\ batch.keys[batch.slots[i]] = col[i]
  <1> DEFINE same == {j \in 1..n : SameKey(col, i, j)}
             E == FirstSeen(col)
             first == CHOOSE j \in E : SameKey(col, i, j)
  <1>1. PICK least \in same : \A j \in same : least <= j
    <2>1. same \subseteq Nat /\ i \in same
      BY DEF SameKey
    <2> HIDE DEF same
    <2> QED
      BY <2>1, LeastExists
  <1>2. least \in E
    <2>1. ASSUME NEW j \in 1..least - 1, SameKey(col, least, j) PROVE FALSE
      <3>1. j \in 1..n /\ j < least
        BY <1>1
      <3>2. SameKey(col, i, j)
        BY <1>1, <2>1, <3>1 DEF SameKey
      <3> QED
        BY <1>1, <3>1, <3>2
    <2> QED
      BY <1>1, <2>1 DEF FirstSeen
  <1>3. first \in E /\ SameKey(col, i, first)
    BY <1>1, <1>2
  <1>4. E \subseteq 1..n
    BY DEF FirstSeen
  <1>5. col[first] = col[i]
    BY <1>3 DEF SameKey
  <1> DEFINE batch == Coalesce(col)
  <1>6. /\ batch.keys = [s \in 1..Cardinality(E) |-> col[InOrder(E)[s]]]
        /\ batch.slots = [k \in DOMAIN col |-> Rank(E, CHOOSE j \in E : SameKey(col, k, j))]
    BY DEF Coalesce
  <1> HIDE DEF E, batch
  <1>7. Rank(E, first) \in 1..Cardinality(E) /\ InOrder(E)[Rank(E, first)] = first
    BY <1>3, <1>4, InOrderOfRank
  <1>8. batch.slots[i] = Rank(E, first)
    BY <1>6
  <1> HIDE DEF first
  <1>9. /\ DOMAIN batch.slots = 1..n
        /\ batch.slots[i] \in DOMAIN batch.keys
        /\ batch.keys[batch.slots[i]] = col[i]
    BY <1>5, <1>6, <1>7, <1>8
  <1> QED
    BY <1>9 DEF batch

Loaded(step, v) == IF step.outcome = "raise" THEN Error("loader") ELSE Loader(v)

\* A load gives an entry what it gives the entry's key, whoever else asks.
LEMMA LoadIsOwn ==
    ASSUME NEW step, NEW n \in Nat, NEW col, DOMAIN col = 1..n, NEW i \in 1..n
    PROVE  LoadExecute(step, col)[i] = Loaded(step, col[i])
  <1> DEFINE batch == Coalesce(col)
  <1>1. /\ DOMAIN batch.slots = 1..n
        /\ batch.slots[i] \in DOMAIN batch.keys
        /\ batch.keys[batch.slots[i]] = col[i]
    BY SlotsHoldKeys
  <1>2. LoadExecute(step, col) =
          IF step.outcome = "raise" THEN [k \in DOMAIN col |-> Error("loader")]
          ELSE Scatter([s \in DOMAIN batch.keys |-> Loader(batch.keys[s])], batch.slots)
    BY DEF LoadExecute
  <1> HIDE DEF batch
  <1> QED
    BY <1>1, <1>2 DEF Scatter, Loaded

NodeEntry(step, v) ==
  LET gid == DecodeGlobalId(v)
  IN  IF IsError(gid) THEN gid
      ELSE IF gid.type \notin step.loaders THEN Error("no loader")
      ELSE IF gid.type \in step.failing THEN Error("loader")
      ELSE Loader(NodeKey(gid))

\* A node step walks each type's results back to the entries that asked.
LEMMA NodeIsOwn ==
    ASSUME NEW step, NEW n \in Nat, NEW col, DOMAIN col = 1..n, NEW i \in 1..n
    PROVE  NodeExecute(step, col)[i] = NodeEntry(step, col[i])
  <1> DEFINE gid == DecodeGlobalId(col[i])
             E == NodeEntriesOf(step, col, gid.type)
             loaded == [p \in DOMAIN InOrder(E) |-> Loader(NodeKey(DecodeGlobalId(col[InOrder(E)[p]])))]
  <1>1. NodeExecute(step, col)[i] =
          IF IsError(gid) THEN gid
          ELSE IF gid.type \notin step.loaders THEN Error("no loader")
          ELSE IF gid.type \in step.failing THEN Error("loader")
          ELSE loaded[Rank(E, i)]
    BY DEF NodeExecute
  <1>2. ASSUME ~IsError(gid), gid.type \in step.loaders
        PROVE  loaded[Rank(E, i)] = Loader(NodeKey(gid))
    <2>1. E \subseteq 1..n /\ i \in E
      BY <1>2 DEF NodeEntriesOf
    <2>2. Rank(E, i) \in DOMAIN InOrder(E) /\ InOrder(E)[Rank(E, i)] = i
      BY <2>1, InOrderOfRank
    <2> HIDE DEF E
    <2> QED
      BY <2>2
  <1> HIDE DEF E, loaded
  <1> QED
    BY <1>1, <1>2 DEF NodeEntry

-----------------------------------------------------------------------------
(* Each: many lists in one flat bucket.                                    *)

Steps(S, n) == [1..n -> [S -> S]]
Iterates(f, S, n, base, next) ==
  /\ f \in [0..n -> S]
  /\ f[0] = base /\ \A i \in 1..n : f[i] = next[i][f[i - 1]]

\* A function on positions may be given by its first value and each next one.
LEMMA IterationExists ==
    ASSUME NEW n \in Nat, NEW S, NEW base \in S, NEW next \in Steps(S, n)
    PROVE  \E f : Iterates(f, S, n, base, next)
  <1> USE DEF Steps
  <1> DEFINE Upto(m, f) == f[0] = base /\ \A i \in 1..m : f[i] = next[i][f[i - 1]]
             bad == {m \in 0..n : ~ \E f \in [0..m -> S] : Upto(m, f)}
  <1>1. ASSUME bad # {} PROVE FALSE
    <2>0. bad \subseteq Nat
      OBVIOUS
    <2>1. PICK m \in bad : \A k \in bad : m <= k
      <3> HIDE DEF bad
      <3> QED
        BY <1>1, <2>0, LeastExists
    <2>2. m # 0
      <3>1. [i \in 0..0 |-> base] \in [0..0 -> S] /\ Upto(0, [i \in 0..0 |-> base])
        <4>1. 0 \in 0..0 /\ 1..0 = {}
          OBVIOUS
        <4>2. [i \in 0..0 |-> base][0] = base /\ [i \in 0..0 |-> base] \in [0..0 -> S]
          BY <4>1
        <4> QED
          BY ONLY <4>1, <4>2
      <3> DEFINE f == [i \in 0..0 |-> base]
      <3>2. f \in [0..0 -> S] /\ Upto(0, f)
        BY ONLY <3>1
      <3> HIDE DEF f, Upto
      <3>3. 0 \notin bad
        BY ONLY <3>2
      <3> QED
        BY ONLY <2>1, <3>3
    <2>3. m \in 1..n /\ m - 1 \in 0..n /\ m - 1 \notin bad
      BY <2>1, <2>2
    <2>4. PICK g \in [0..(m - 1) -> S] : Upto(m - 1, g)
      BY <2>3
    <2> DEFINE f == [i \in 0..m |-> IF i = m THEN next[m][g[m - 1]] ELSE g[i]]
    <2>5. f \in [0..m -> S]
      <3>1. g[m - 1] \in S /\ next[m] \in [S -> S]
        BY <2>3, <2>4
      <3> QED
        BY <2>3, <2>4, <3>1
    <2>6. Upto(m, f)
      <3>1. f[0] = base
        BY <2>3, <2>4
      <3>2. ASSUME NEW i \in 1..m PROVE f[i] = next[i][f[i - 1]]
        <4>1. CASE i = m
          BY <2>3, <4>1
        <4>2. CASE i # m
          <5>1. i \in 1..(m - 1) /\ i \in 0..m /\ i - 1 \in 0..m /\ i - 1 # m
            BY <2>3, <4>2
          <5>2. f[i] = g[i] /\ f[i - 1] = g[i - 1]
            BY <4>2, <5>1
          <5> QED
            BY <2>4, <5>1, <5>2
        <4> QED
          BY <4>1, <4>2
      <3> QED
        BY <3>1, <3>2
    <2> HIDE DEF f, Upto
    <2> QED
      BY <2>1, <2>5, <2>6
  <1>2. bad = {}
    BY <1>1
  <1>3. n \in 0..n /\ n \notin bad
    BY <1>2
  <1> QED
    BY <1>3 DEF Iterates

Lists(T, n) == [1..n -> Seq(T)]
Offsets(off, seqs, n) ==
  /\ off \in [0..n -> Nat]
  /\ off[0] = 0 /\ \A i \in 1..n : off[i] = off[i - 1] + Len(seqs[i])

\* Where each sequence ends when they are laid one after another.
LEMMA OffsetsExist ==
    ASSUME NEW n \in Nat, NEW T, NEW seqs \in Lists(T, n)
    PROVE  \E off : Offsets(off, seqs, n)
  <1> USE DEF Lists
  <1> DEFINE next == [i \in 1..n |-> [x \in Nat |-> x + Len(seqs[i])]]
  <1>1. \A i \in 1..n : Len(seqs[i]) \in Nat
    BY LenProperties
  <1>2. next \in Steps(Nat, n)
    BY <1>1 DEF Steps
  <1>3. \A i \in 1..n : \A x \in Nat : next[i][x] = x + Len(seqs[i])
    OBVIOUS
  <1> HIDE DEF next
  <1>4. PICK off : Iterates(off, Nat, n, 0, next)
    BY <1>2, IterationExists
  <1>5. ASSUME NEW i \in 1..n PROVE off[i] = off[i - 1] + Len(seqs[i])
    <2>1. off[i - 1] \in Nat /\ off[i] = next[i][off[i - 1]]
      BY <1>4 DEF Iterates
    <2> QED
      BY <1>3, <2>1
  <1> QED
    BY <1>4, <1>5 DEF Iterates, Offsets

\* The sequences appended one after another.
Appended(f, seqs, T, n) ==
  /\ f \in [0..n -> Seq(T)]
  /\ f[0] = << >> /\ \A i \in 1..n : f[i] = f[i - 1] \o seqs[i]

\* FlattenSeq concatenates the lists one after the other.
LEMMA FlatteningSteps ==
    ASSUME NEW n \in Nat, n # 0, NEW T, NEW seqs \in Lists(T, n)
    PROVE  \E f : Appended(f, seqs, T, n) /\ FlattenSeq(seqs) = f[n]
  <1> USE DEF Lists
  <1> DEFINE next == [i \in 1..n |-> [s \in Seq(T) |-> s \o seqs[i]]]
             Is(g) == g = [i \in 1..n |-> IF i = 1 THEN seqs[i] ELSE g[i - 1] \o seqs[i]]
  <1>1. next \in Steps(Seq(T), n)
    BY ConcatProperties DEF Steps
  <1>2. \A i \in 1..n : \A s \in Seq(T) : next[i][s] = s \o seqs[i]
    OBVIOUS
  <1>3. << >> \in Seq(T)
    BY EmptySeq
  <1> HIDE DEF next
  <1>4. PICK f : Iterates(f, Seq(T), n, << >>, next)
    <2>1. n \in Nat
      OBVIOUS
    <2> QED
      BY <1>1, <1>3, <2>1, IterationExists
  <1>5. ASSUME NEW i \in 1..n PROVE f[i] = f[i - 1] \o seqs[i]
    <2>1. f[i - 1] \in Seq(T) /\ f[i] = next[i][f[i - 1]]
      BY <1>4 DEF Iterates
    <2> QED
      BY <1>2, <2>1
  <1>6. f[1] = seqs[1] /\ f[0] = << >>
    <2>1. f[1] = f[0] \o seqs[1] /\ seqs[1] \in Seq(T) /\ f[0] = << >>
      <3>1. 1 \in 1..n /\ 1 - 1 = 0 /\ f[0] = << >>
        BY <1>4 DEF Iterates
      <3>2. f[1] = f[1 - 1] \o seqs[1]
        BY <1>5, <3>1
      <3> QED
        BY <3>1, <3>2
    <2> QED
      BY <2>1, ConcatEmptySeq
  <1>7. Len(seqs) = n
    <2>1. seqs \in Seq(Seq(T)) /\ DOMAIN seqs = 1..n
      OBVIOUS
    <2> QED
      BY <2>1, LenProperties
  <1> DEFINE h == [i \in 1..n |-> f[i]]
  <1>8. Is(h)
    <2>1. ASSUME NEW i \in 1..n
          PROVE  h[i] = IF i = 1 THEN seqs[i] ELSE h[i - 1] \o seqs[i]
      <3>1. CASE i = 1
        BY <1>6, <3>1
      <3>2. CASE i # 1
        <4>1. i - 1 \in 1..n
          BY <3>2
        <4> QED
          BY <1>5, <3>2, <4>1
      <3> QED
        BY <3>1, <3>2
    <2> QED
      BY <2>1
  <1>9. ASSUME NEW g, Is(g) PROVE g[n] = f[n]
    <2> DEFINE bad == {i \in 1..n : g[i] # f[i]}
    <2>1. ASSUME bad # {} PROVE FALSE
      <3>0. bad \subseteq Nat
        OBVIOUS
      <3>1. PICK i \in bad : \A k \in bad : i <= k
        <4> HIDE DEF bad
        <4> QED
          BY <2>1, <3>0, LeastExists
      <3>2. i # 1
        BY <1>6, <1>9, <3>1
      <3>3. i - 1 \in 1..n /\ i - 1 \notin bad
        BY <3>1, <3>2
      <3>4. g[i] = g[i - 1] \o seqs[i]
        BY <1>9, <3>1, <3>2
      <3> QED
        BY <1>5, <3>1, <3>3, <3>4
    <2>2. n \in 1..n
      OBVIOUS
    <2>3. n \notin bad
      BY <2>1, bad = {}
    <2> QED
      BY <2>2, <2>3
  <1>10. FlattenSeq(seqs) = (CHOOSE g : Is(g))[n]
    BY <1>7 DEF FlattenSeq
  <1>11. Is(CHOOSE g : Is(g))
    BY <1>8
  <1> HIDE DEF Is
  <1>12. FlattenSeq(seqs) = f[n]
    BY <1>9, <1>10, <1>11
  <1> QED
    BY <1>4, <1>5, <1>6, <1>12 DEF Iterates, Appended

\* Where the elements of each sequence are, and that nothing else is anywhere.
Flat(flat, seqs, off, n) ==
  /\ Len(flat) = off[n]
  /\ \A i \in 1..n : \A k \in 1..Len(seqs[i]) :
       off[i - 1] + k \in 1..off[n] /\ flat[off[i - 1] + k] = seqs[i][k]
  /\ \A p \in 1..off[n] : \E i \in 1..n : \E k \in 1..Len(seqs[i]) : p = off[i - 1] + k

\* Where each item of each list stands in the flattened one.
LEMMA Flattening ==
    ASSUME NEW n \in Nat, n # 0, NEW T, NEW seqs \in Lists(T, n), NEW off, Offsets(off, seqs, n)
    PROVE  FlattenSeq(seqs) \in Seq(T) /\ Flat(FlattenSeq(seqs), seqs, off, n)
  <1>1. PICK f : Appended(f, seqs, T, n) /\ FlattenSeq(seqs) = f[n]
    BY FlatteningSteps
  <1> USE DEF Lists, Offsets
  <1> DEFINE Laid(m) == Flat(f[m], seqs, off, m)
             bad == {m \in 0..n : ~Laid(m)}
  <1>2. \A i \in 1..n : seqs[i] \in Seq(T) /\ Len(seqs[i]) \in Nat
    BY LenProperties
  <1>3. Laid(0)
    BY <1>1, EmptySeq DEF Flat, Appended
  <1>4. ASSUME NEW m \in 1..n, Laid(m - 1) PROVE Laid(m)
    <2>1. /\ m - 1 \in 0..n /\ f[m - 1] \in Seq(T) /\ off[m - 1] \in Nat /\ off[m] \in Nat
          /\ off[m] = off[m - 1] + Len(seqs[m]) /\ seqs[m] \in Seq(T)
          /\ f[m] = f[m - 1] \o seqs[m]
      <3>1. m - 1 \in 0..n /\ m \in 0..n
        OBVIOUS
      <3>2. off[m - 1] \in Nat /\ off[m] \in Nat /\ off[m] = off[m - 1] + Len(seqs[m])
        BY <3>1
      <3>3. f[m - 1] \in Seq(T) /\ f[m] = f[m - 1] \o seqs[m]
        BY <1>1, <3>1 DEF Appended
      <3> QED
        BY <1>2, <3>1, <3>2, <3>3
    <2> HIDE DEF Offsets, Lists
    <2>2. Len(f[m - 1]) = off[m - 1]
      BY <1>4 DEF Flat
    <2>3. /\ Len(f[m]) = off[m]
          /\ \A p \in 1..off[m] :
               f[m][p] = IF p <= off[m - 1] THEN f[m - 1][p] ELSE seqs[m][p - off[m - 1]]
      <3>1. /\ Len(f[m - 1] \o seqs[m]) = Len(f[m - 1]) + Len(seqs[m])
            /\ \A p \in 1..(Len(f[m - 1]) + Len(seqs[m])) : (f[m - 1] \o seqs[m])[p] =
                 IF p <= Len(f[m - 1]) THEN f[m - 1][p] ELSE seqs[m][p - Len(f[m - 1])]
        BY <2>1, ConcatProperties
      <3> QED
        BY <2>1, <2>2, <3>1
    <2>5. ASSUME NEW i \in 1..m, NEW k \in 1..Len(seqs[i])
          PROVE  off[i - 1] + k \in 1..off[m] /\ f[m][off[i - 1] + k] = seqs[i][k]
      <3>1. i \in 1..n /\ off[i - 1] \in Nat /\ Len(seqs[i]) \in Nat
        BY <1>2 DEF Offsets
      <3>2. CASE i = m
        <4>1. off[m - 1] + k \in 1..off[m] /\ ~ (off[m - 1] + k <= off[m - 1])
              /\ (off[m - 1] + k) - off[m - 1] = k
          BY <2>1, <3>1, <3>2
        <4>2. f[m][off[m - 1] + k] = seqs[m][(off[m - 1] + k) - off[m - 1]]
          BY <2>3, <4>1
        <4>3. seqs[m][(off[m - 1] + k) - off[m - 1]] = seqs[m][k]
          BY <4>1, Zenon
        <4>4. f[m][off[m - 1] + k] = seqs[m][k]
          BY <4>2, <4>3
        <4> HIDE DEF Offsets
        <4> QED
          BY <3>2, <4>1, <4>4
      <3>3. CASE i # m
        <4>1. i \in 1..(m - 1)
          BY <3>3
        <4>2. off[i - 1] + k \in 1..off[m - 1] /\ f[m - 1][off[i - 1] + k] = seqs[i][k]
          BY <1>4, <4>1 DEF Flat
        <4>3. off[i - 1] + k \in 1..off[m] /\ off[i - 1] + k <= off[m - 1]
          <5>1. off[m - 1] <= off[m]
            BY <1>2, <2>1
          <5> QED
            BY <2>1, <3>1, <4>2, <5>1
        <4> QED
          BY <2>3, <4>2, <4>3
      <3> QED
        BY <3>2, <3>3
    <2>4. ASSUME NEW p \in 1..off[m]
          PROVE  \E i \in 1..m : \E k \in 1..Len(seqs[i]) : p = off[i - 1] + k
      <3>1. CASE p <= off[m - 1]
        <4>1. p \in 1..off[m - 1]
          BY <2>1, <3>1
        <4>2. PICK i \in 1..(m - 1) : \E k \in 1..Len(seqs[i]) : p = off[i - 1] + k
          BY <1>4, <4>1 DEF Flat
        <4> QED
          BY <4>2
      <3>2. CASE p > off[m - 1]
        <4>1. p - off[m - 1] \in 1..Len(seqs[m]) /\ p = off[m - 1] + (p - off[m - 1])
          <5>1. p \in Nat /\ Len(seqs[m]) \in Nat /\ p <= off[m - 1] + Len(seqs[m])
            BY <1>2, <2>1
          <5> HIDE DEF Offsets, Lists
          <5> QED
            BY <2>1, <3>2, <5>1
        <4> QED
          BY <4>1
      <3> QED
        BY <2>1, <3>1, <3>2
    <2> QED
      BY <2>3, <2>4, <2>5 DEF Flat
  <1> HIDE DEF Laid
  <1>5. ASSUME bad # {} PROVE FALSE
    <2>1. bad \subseteq Nat
      OBVIOUS
    <2>2. PICK m \in bad : \A k \in bad : m <= k
      <3> HIDE DEF bad
      <3> QED
        BY <1>5, <2>1, LeastExists
    <2>3. m \in 1..n /\ m - 1 \in 0..n /\ ~ (m <= m - 1)
      BY <1>3, <2>2
    <2>4. m - 1 \notin bad
      BY <2>2, <2>3
    <2> QED
      BY <1>4, <2>2, <2>3, <2>4
  <1>6. bad = {} /\ n \in 0..n
    BY <1>5
  <1>7. Laid(n)
    BY <1>6
  <1> QED
    BY <1>1, <1>7 DEF Laid, Appended

\* What the step of an item, the loader or the mapper, makes of it.
Mapped(step, v) ==
  IF step.mapper = "load" THEN Loaded(step, v) ELSE IF IsError(v) THEN v ELSE Mapper(v)

\* What an each step makes of an entry: its own items, each mapped, in order.
EachEntry(step, v) == List([k \in 1..Len(ItemsOf(v)) |-> Mapped(step, ItemsOf(v)[k])])

\* The flat bucket of all lists is put back as it was taken apart.
LEMMA EachIsOwn ==
    ASSUME NEW step, NEW n \in Nat, NEW col, IsColumn(col, n), ~EachRaises(col), NEW i \in 1..n
    PROVE  EachExecute(step, col)[i] = EachEntry(step, col[i])
  <1> DEFINE T == UNION {ToSet(ItemsOf(col[j])) : j \in 1..n}
             items == [j \in 1..n |-> ItemsOf(col[j])]
             owners == [j \in 1..n |-> [k \in DOMAIN ItemsOf(col[j]) |-> j]]
  <1>1. DOMAIN col = 1..n /\ Len(col) = n /\ n # 0
    BY ColumnDomain DEF IsColumn
  <1>2. ASSUME NEW j \in 1..n
        PROVE  /\ ItemsOf(col[j]) \in Seq(T)
               /\ Len(ItemsOf(col[j])) \in Nat
               /\ DOMAIN ItemsOf(col[j]) = 1..Len(ItemsOf(col[j]))
    <2>1. ItemsOf(col[j]) \in Seq(ToSet(ItemsOf(col[j])))
      <3>1. CASE Truthy(col[j])
        BY <1>1, <3>1 DEF EachRaises, Iterable, ItemsOf
      <3>2. CASE ~Truthy(col[j])
        BY <3>2, EmptySeq DEF ItemsOf
      <3> QED
        BY <3>1, <3>2
    <2>2. ToSet(ItemsOf(col[j])) \subseteq T
      OBVIOUS
    <2>3. ItemsOf(col[j]) \in Seq(T)
      BY <2>1, <2>2, SeqMonotonic
    <2> QED
      BY <2>3, LenProperties
  <1>3. items \in Lists(T, n)
    BY <1>2 DEF Lists
  <1>4. /\ owners \in Lists(1..n, n)
        /\ \A j \in 1..n : Len(owners[j]) = Len(items[j])
    <2>1. ASSUME NEW j \in 1..n
          PROVE  owners[j] \in Seq(1..n) /\ Len(owners[j]) = Len(ItemsOf(col[j]))
      <3>1. owners[j] \in [1..Len(ItemsOf(col[j])) -> 1..n]
        BY <1>2
      <3>2. owners[j] \in Seq(1..n) /\ DOMAIN owners[j] = 1..Len(ItemsOf(col[j]))
        BY <1>2, <3>1
      <3> QED
        BY <1>2, <3>2, LenProperties
    <2> QED
      BY <2>1 DEF Lists
  <1>5. PICK off : Offsets(off, items, n)
    <2> HIDE DEF items
    <2> QED
      BY <1>3, OffsetsExist
  <1> DEFINE flat == FlattenSeq(items)
             from == FlattenSeq(owners)
  <1>6. flat \in Seq(T) /\ Flat(flat, items, off, n)
    <2> HIDE DEF items
    <2> QED
      BY <1>1, <1>3, <1>5, Flattening
  <1>7. from \in Seq(1..n) /\ Flat(from, owners, off, n)
    <2>1. Offsets(off, owners, n)
      BY <1>4, <1>5 DEF Offsets
    <2> HIDE DEF owners
    <2> QED
      BY <1>1, <1>4, <2>1, Flattening
  <1> DEFINE m == Len(ItemsOf(col[i]))
             a == off[i - 1]
  <1>8. /\ a \in Nat /\ m \in Nat /\ items[i] = ItemsOf(col[i]) /\ off[n] \in Nat
        /\ Len(flat) = off[n] /\ Len(from) = off[n]
    BY <1>2, <1>5, <1>6, <1>7 DEF Offsets, Flat
  <1>9. {p \in DOMAIN from : from[p] = i} = a + 1 .. a + m
    <2>1. DOMAIN from = 1..off[n]
      BY <1>7, <1>8, LenProperties
    <2>2. \A j \in 1..n : \A k \in 1..Len(items[j]) : from[off[j - 1] + k] = j
      BY <1>2, <1>4, <1>7 DEF Flat
    <2>3. ASSUME NEW p \in 1..off[n], from[p] = i PROVE p \in a + 1 .. a + m
      <3>1. PICK j \in 1..n : \E k \in 1..Len(items[j]) : p = off[j - 1] + k
        BY <1>6 DEF Flat
      <3>2. PICK k \in 1..Len(items[j]) : p = off[j - 1] + k
        BY <3>1
      <3>3. j = i
        BY <2>2, <2>3, <3>2
      <3> QED
        BY <1>8, <3>2, <3>3
    <2>4. ASSUME NEW p \in a + 1 .. a + m PROVE p \in 1..off[n] /\ from[p] = i
      <3>1. p - a \in 1..Len(items[i]) /\ p = a + (p - a)
        BY <1>8
      <3>2. a + (p - a) \in 1..off[n] /\ from[a + (p - a)] = i
        BY <1>6, <2>2, <3>1 DEF Flat
      <3> QED
        BY <3>1, <3>2
    <2> QED
      BY <2>1, <2>3, <2>4
  <1> DEFINE mapped == IF step.mapper = "load" THEN LoadExecute(step, flat) ELSE LambdaExecute(flat)
  <1>10. ASSUME NEW p \in 1..off[n] PROVE mapped[p] = Mapped(step, flat[p])
    <2>1. DOMAIN flat = 1..off[n] /\ off[n] \in Nat
      BY <1>6, <1>8, LenProperties
    <2> HIDE DEF flat
    <2>2. LoadExecute(step, flat)[p] = Loaded(step, flat[p])
      BY <2>1, LoadIsOwn
    <2>3. LambdaExecute(flat)[p] = IF IsError(flat[p]) THEN flat[p] ELSE Mapper(flat[p])
      BY <2>1 DEF LambdaExecute
    <2> QED
      BY <2>2, <2>3 DEF Mapped
  <1>11. EachExecute(step, col)[i] = List([k \in DOMAIN InOrder(a + 1 .. a + m) |-> mapped[InOrder(a + 1 .. a + m)[k]]])
    <2>1. FlatItems(col) = flat /\ Owners(col) = from
      BY <1>1 DEF FlatItems, Owners
    <2>2. EachExecute(step, col) = Regroup(mapped, from, n)
      BY <1>1, <2>1 DEF EachExecute
    <2> HIDE DEF mapped, from, a, m
    <2> QED
      BY <1>9, <2>2 DEF Regroup
  <1>12. InOrder(a + 1 .. a + m) = [k \in 1..m |-> a + k]
    BY <1>8, InOrderOfInterval
  <1>13. ASSUME NEW k \in 1..m PROVE mapped[a + k] = Mapped(step, ItemsOf(col[i])[k])
    <2>1. a + k \in 1..off[n] /\ flat[a + k] = items[i][k]
      BY <1>6, <1>8 DEF Flat
    <2> QED
      BY <1>8, <1>10, <2>1
  <1> HIDE DEF mapped, a, m
  <1> QED
    BY <1>11, <1>12, <1>13 DEF EachEntry, m

-----------------------------------------------------------------------------
(* Any step.                                                               *)

\* A bucket of one entry.
LEMMA SingleColumn ==
    \A v : IsColumn(<<v>>, 1) /\ DOMAIN <<v>> = 1..1 /\ <<v>>[1] = v
  <1> SUFFICES ASSUME NEW v PROVE IsColumn(<<v>>, 1) /\ DOMAIN <<v>> = 1..1 /\ <<v>>[1] = v
    OBVIOUS
  <1>1. DOMAIN <<v>> = 1..1 /\ <<v>>[1] = v /\ <<v>> = [i \in 1..1 |-> <<v>>[i]]
    OBVIOUS
  <1> HIDE DEF IsColumn
  <1> QED
    BY <1>1, ColumnIntro

\* Every built-in step's execute makes of an entry of a bucket what it makes of the
\* entry in a bucket of its own, whatever shares its bucket.
THEOREM ExecuteIsOwn ==
    ASSUME NEW step, step.kind \in Kinds, NEW count \in Nat, NEW cols,
           \A d \in DOMAIN cols : IsColumn(cols[d], count),
           step.kind \notin {"constant", "list", "object"} => 1 \in DOMAIN cols,
           step.kind = "object" => DOMAIN step.keys = DOMAIN cols,
           step.kind = "each" => ~EachRaises(cols[1]),
           NEW i \in 1..count
    PROVE  Execute(step, cols, count)[i]
             = Execute(step, [d \in DOMAIN cols |-> <<cols[d][i]>>], 1)[1]
  <1> DEFINE own == [d \in DOMAIN cols |-> <<cols[d][i]>>]
             out == Execute(step, cols, count)
             alone == Execute(step, own, 1)
  <1> SUFFICES out[i] = alone[1]
    OBVIOUS
  <1>1. /\ DOMAIN own = DOMAIN cols
        /\ \A d \in DOMAIN cols : own[d] = <<cols[d][i]>> /\ own[d][1] = cols[d][i]
    OBVIOUS
  <1>2. ASSUME 1 \in DOMAIN cols
        PROVE  /\ DOMAIN cols[1] = 1..count /\ DOMAIN own[1] = 1..1 /\ own[1][1] = cols[1][i]
               /\ IsColumn(own[1], 1)
    BY <1>1, <1>2, ColumnDomain, SingleColumn
  <1>3. 1 \in 1..1 /\ 1 \in Nat
    OBVIOUS
  <1> HIDE DEF own, out, alone
  <1>4. CASE step.kind = "constant"
    BY <1>3, <1>4 DEF Execute, ConstantExecute, out, alone
  <1>5. CASE step.kind = "list"
    <2>1. out[i] = List([d \in DOMAIN cols |-> cols[d][i]])
      BY <1>5 DEF Execute, ListExecute, out, alone
    <2>2. alone[1] = List([d \in DOMAIN own |-> own[d][1]])
      BY <1>3, <1>5 DEF Execute, ListExecute, out, alone
    <2>3. [d \in DOMAIN own |-> own[d][1]] = [d \in DOMAIN cols |-> cols[d][i]]
      BY <1>1
    <2> QED
      BY <2>1, <2>2, <2>3
  <1>6. CASE step.kind = "object"
    <2> DEFINE of(key) == CHOOSE d \in DOMAIN step.keys : step.keys[d] = key
    <2>1. out[i] = Object([key \in ToSet(step.keys) |-> cols[of(key)][i]])
      BY <1>6 DEF Execute, ObjectExecute, out, alone
    <2>2. alone[1] = Object([key \in ToSet(step.keys) |-> own[of(key)][1]])
      BY <1>3, <1>6 DEF Execute, ObjectExecute, out, alone
    <2>3. \A key \in ToSet(step.keys) : of(key) \in DOMAIN step.keys
      BY DEF ToSet
    <2> HIDE DEF of
    <2>4. \A key \in ToSet(step.keys) : own[of(key)][1] = cols[of(key)][i]
      BY <1>1, <1>6, <2>3
    <2>5. [key \in ToSet(step.keys) |-> own[of(key)][1]] = [key \in ToSet(step.keys) |-> cols[of(key)][i]]
      BY <2>4
    <2> QED
      BY <2>1, <2>2, <2>5
  <1>7. CASE step.kind \in {"access", "lambda", "resolve", "filter", "first", "last", "reverse"}
    <2> DEFINE col == cols[1]
               single == own[1]
    <2>1. DOMAIN col = 1..count /\ DOMAIN single = 1..1 /\ single[1] = col[i]
      BY <1>2, <1>7
    <2> HIDE DEF col, single
    <2>2. AccessExecute(step, col)[i] = AccessExecute(step, single)[1]
      BY <1>3, <2>1 DEF AccessExecute
    <2>3. LambdaExecute(col)[i] = LambdaExecute(single)[1]
      BY <1>3, <2>1 DEF LambdaExecute
    <2>4. ResolveExecute(step, col)[i] = ResolveExecute(step, single)[1]
      BY <1>3, <2>1 DEF ResolveExecute
    <2>5. ListOpExecute(step, col)[i] = ListOpExecute(step, single)[1]
      <3> DEFINE entry(v) == CASE step.kind = "filter" -> FilterEntry(v)
                               [] step.kind = "first" -> FirstEntry(v)
                               [] step.kind = "last" -> LastEntry(v)
                               [] step.kind = "reverse" -> ReverseEntry(v)
      <3>1. \A c : ListOpExecute(step, c) = [k \in DOMAIN c |-> entry(c[k])]
        BY DEF ListOpExecute
      <3> HIDE DEF entry
      <3> QED
        BY <1>3, <2>1, <3>1
    <2> QED
      BY <1>7, <2>2, <2>3, <2>4, <2>5 DEF Execute, col, single, out, alone
  <1>8. CASE step.kind = "load"
    <2>1. out = LoadExecute(step, cols[1]) /\ alone = LoadExecute(step, own[1])
      BY <1>8 DEF Execute, out, alone
    <2>2. LoadExecute(step, cols[1])[i] = Loaded(step, cols[1][i])
      BY <1>2, <1>8, LoadIsOwn
    <2>3. LoadExecute(step, own[1])[1] = Loaded(step, own[1][1])
      <3>0. 1 \in DOMAIN cols
        BY ONLY <1>8, (step.kind \notin {"constant", "list", "object"} => 1 \in DOMAIN cols)
      <3>1. DOMAIN own[1] = 1..1
        BY ONLY <1>2, <3>0
      <3> DEFINE n == 1
                 c == own[1]
      <3>2. n \in Nat /\ DOMAIN c = 1..n /\ 1 \in 1..n
        BY ONLY <1>3, <3>1
      <3> HIDE DEF n, c
      <3>3. LoadExecute(step, c)[1] = Loaded(step, c[1])
        BY ONLY <3>2, LoadIsOwn
      <3> QED
        BY ONLY <3>3 DEF c
    <2> QED
      BY <1>2, <1>8, <2>1, <2>2, <2>3
  <1>9. CASE step.kind = "node"
    <2>1. out = NodeExecute(step, cols[1]) /\ alone = NodeExecute(step, own[1])
      BY <1>9 DEF Execute, out, alone
    <2>2. NodeExecute(step, cols[1])[i] = NodeEntry(step, cols[1][i])
      BY <1>2, <1>9, NodeIsOwn
    <2>3. NodeExecute(step, own[1])[1] = NodeEntry(step, own[1][1])
      <3>0. 1 \in DOMAIN cols
        BY ONLY <1>9, (step.kind \notin {"constant", "list", "object"} => 1 \in DOMAIN cols)
      <3>1. DOMAIN own[1] = 1..1
        BY ONLY <1>2, <3>0
      <3> DEFINE n == 1
                 c == own[1]
      <3>2. n \in Nat /\ DOMAIN c = 1..n /\ 1 \in 1..n
        BY ONLY <1>3, <3>1
      <3> HIDE DEF n, c
      <3>3. NodeExecute(step, c)[1] = NodeEntry(step, c[1])
        BY ONLY <3>2, NodeIsOwn
      <3> QED
        BY ONLY <3>3 DEF c
    <2> QED
      BY <1>2, <1>9, <2>1, <2>2, <2>3
  <1>10. CASE step.kind = "each"
    <2>1. out = EachExecute(step, cols[1]) /\ alone = EachExecute(step, own[1])
      BY <1>10 DEF Execute, out, alone
    <2>2. EachExecute(step, cols[1])[i] = EachEntry(step, cols[1][i])
      BY <1>10, EachIsOwn
    <2>3. ~EachRaises(own[1])
      BY <1>2, <1>10 DEF EachRaises
    <2>4. EachExecute(step, own[1])[1] = EachEntry(step, own[1][1])
      <3> DEFINE single == own[1]
      <3>1. IsColumn(single, 1) /\ ~EachRaises(single)
        BY <1>2, <1>10, <2>3
      <3> HIDE DEF single
      <3>2. EachExecute(step, single)[1] = EachEntry(step, single[1])
        BY <1>3, <3>1, EachIsOwn
      <3> QED
        BY <3>2 DEF single
    <2> QED
      BY <1>2, <1>10, <2>1, <2>2, <2>4
  <1> QED
    BY <1>4, <1>5, <1>6, <1>7, <1>8, <1>9, <1>10 DEF Kinds
=============================================================================
