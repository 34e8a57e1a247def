-------------------------- MODULE PlanCacheProofs --------------------------
(***************************************************************************)
(* Proofs about the plan cache for every process: any threads, documents,  *)
(* requests and caps.                                                      *)
(***************************************************************************)
EXTENDS PlanCache, SequenceFacts

-----------------------------------------------------------------------------
(* Sequences.                                                              *)

\* Removing a position of a sequence makes it one shorter and keeps the
\* elements at the other positions, in order.
LEMMA RemoveAtProperties ==
    ASSUME NEW S, NEW s \in Seq(S), NEW i \in 1..Len(s)
    PROVE  /\ RemoveAt(s, i) \in Seq(S)
           /\ Len(RemoveAt(s, i)) = Len(s) - 1
           /\ \A j \in 1..(Len(s) - 1) :
                RemoveAt(s, i)[j] = IF j < i THEN s[j] ELSE s[j + 1]
  <1> DEFINE a == SubSeq(s, 1, i - 1)
             b == SubSeq(s, i + 1, Len(s))
  <1>1. Len(s) \in Nat /\ \A j \in 1..Len(s) : s[j] \in S
    BY LenProperties, ElementOfSeq
  <1>2. /\ a \in Seq(S)
        /\ Len(a) = i - 1
        /\ \A j \in 1..(i - 1) : a[j] = s[j]
    BY <1>1, SubSeqProperties
  <1>3. /\ b \in Seq(S)
        /\ Len(b) = Len(s) - i
        /\ \A j \in 1..(Len(s) - i) : b[j] = s[i + j]
    BY <1>1, SubSeqProperties
  <1> HIDE DEF a, b
  <1>4. /\ a \o b \in Seq(S)
        /\ Len(a \o b) = Len(a) + Len(b)
        /\ \A j \in 1..(Len(a) + Len(b)) :
              (a \o b)[j] = IF j <= Len(a) THEN a[j] ELSE b[j - Len(a)]
    BY <1>2, <1>3, ConcatProperties
  <1>5. Len(a) + Len(b) = Len(s) - 1
    BY <1>1, <1>2, <1>3
  <1>6. ASSUME NEW j \in 1..(Len(s) - 1)
        PROVE  (a \o b)[j] = IF j < i THEN s[j] ELSE s[j + 1]
    <2>1. (a \o b)[j] = IF j <= i - 1 THEN a[j] ELSE b[j - (i - 1)]
      BY <1>2, <1>4, <1>5
    <2>2. CASE j < i
      BY <1>2, <2>1, <2>2
    <2>3. CASE ~ (j < i)
      <3>1. j - (i - 1) \in 1..(Len(s) - i) /\ i + (j - (i - 1)) = j + 1
        BY <1>1, <2>3
      <3> QED
        BY <1>3, <2>1, <2>3, <3>1
    <2> QED
      BY <2>2, <2>3
  <1> QED
    BY <1>4, <1>5, <1>6 DEF RemoveAt, a, b

\* Putting an element in front of a sequence.
LEMMA ConsProperties ==
    ASSUME NEW S, NEW c \in S, NEW s \in Seq(S)
    PROVE  /\ <<c>> \o s \in Seq(S)
           /\ Len(<<c>> \o s) = Len(s) + 1
           /\ <<c>> \o s # <<>>
  <1>1. <<c>> \in Seq(S) /\ Len(<<c>>) = 1
    OBVIOUS
  <1>2. Len(s) \in Nat
    BY LenProperties
  <1>3. <<c>> \o s \in Seq(S) /\ Len(<<c>> \o s) = Len(s) + 1
    BY <1>1, <1>2, ConcatProperties
  <1> QED
    BY <1>2, <1>3, EmptySeq

-----------------------------------------------------------------------------
(* Buckets.                                                                *)

\* Both searches of a bucket return a position of it, or 0.
LEMMA PositionTypes ==
    ASSUME NEW S, NEW b \in Seq(S), NEW c, NEW r
    PROVE  /\ Replaced(b, c) = 0 \/ Replaced(b, c) \in 1..Len(b)
           /\ \/ FirstValid(b, r) = 0
              \/ FirstValid(b, r) \in 1..Len(b) /\ validate(b[FirstValid(b, r)], r)
  <1>1. ASSUME NEW T \in SUBSET (1..Len(b)), T # {}
        PROVE  (CHOOSE i \in T : \A j \in T : i <= j) \in T
    <2>1. T \subseteq Nat
      BY LenProperties
    <2> QED
      BY <1>1, <2>1, LeastExists
  <1>2. DOMAIN b = 1..Len(b)
    BY LenProperties
  <1>3. Replaced(b, c) = 0 \/ Replaced(b, c) \in 1..Len(b)
    <2> DEFINE T == {i \in DOMAIN b :
                        /\ b[i].built.schema = c.built.schema
                        /\ SameConstraints(constraints(b[i]), constraints(c))}
    <2>1. T \in SUBSET (1..Len(b))
      BY <1>2
    <2>2. Replaced(b, c) = IF T = {} THEN 0 ELSE CHOOSE i \in T : \A j \in T : i <= j
      BY DEF Replaced
    <2> HIDE DEF T
    <2> QED
      BY <1>1, <2>1, <2>2
  <1>4. \/ FirstValid(b, r) = 0
        \/ FirstValid(b, r) \in 1..Len(b) /\ validate(b[FirstValid(b, r)], r)
    <2> DEFINE T == {i \in DOMAIN b : validate(b[i], r)}
    <2>1. T \in SUBSET (1..Len(b))
      BY <1>2
    <2>2. FirstValid(b, r) = IF T = {} THEN 0 ELSE CHOOSE i \in T : \A j \in T : i <= j
      BY DEF FirstValid
    <2>3. T = {} \/ FirstValid(b, r) \in T
      <3> HIDE DEF T
      <3> QED
        BY <1>1, <2>1, <2>2
    <2>4. T = {} => FirstValid(b, r) = 0
      BY <2>2
    <2> QED
      BY <1>2, <2>3, <2>4
  <1> QED
    BY <1>3, <1>4

\* What put and get's hoist do to a bucket: it stays a sequence over its set,
\* non-empty, and within the variant cap.
LEMMA BucketProperties ==
    ASSUME NEW S, NEW b \in Seq(S), NEW c \in S
    PROVE  /\ Prepended(b, c) \in Seq(S)
           /\ Trimmed(Prepended(b, c)) \in Seq(S)
           /\ Trimmed(Prepended(b, c)) # <<>>
           /\ Len(Trimmed(Prepended(b, c))) <= MaxVariants
           /\ Hoisted(b, c) \in Seq(S)
           /\ Len(Hoisted(b, c)) = Len(b)
  <1>1. Len(b) \in Nat /\ DOMAIN b = 1..Len(b)
    BY LenProperties
  <1>2. MaxVariants \in Nat /\ MaxVariants >= 1
    BY CapsAssumption
  <1>3. Prepended(b, c) \in Seq(S) /\ Prepended(b, c) # <<>>
    <2>1. CASE Replaced(b, c) = 0
      BY <2>1, ConsProperties DEF Prepended
    <2>2. CASE Replaced(b, c) \in 1..Len(b)
      <3>1. Replaced(b, c) # 0
        BY <2>2, <1>1
      <3>2. RemoveAt(b, Replaced(b, c)) \in Seq(S)
        BY <2>2, RemoveAtProperties
      <3> QED
        BY <3>1, <3>2, ConsProperties DEF Prepended
    <2> QED
      BY <2>1, <2>2, PositionTypes
  <1>4. ASSUME NEW p \in Seq(S), p # <<>>
        PROVE  Trimmed(p) \in Seq(S) /\ Trimmed(p) # <<>> /\ Len(Trimmed(p)) <= MaxVariants
    <2>1. Len(p) \in Nat \ {0} /\ \A i \in 1..Len(p) : p[i] \in S
      BY <1>4, EmptySeq, ElementOfSeq
    <2>2. CASE Len(p) > MaxVariants
      <3>1. SubSeq(p, 1, MaxVariants) \in Seq(S) /\ Len(SubSeq(p, 1, MaxVariants)) = MaxVariants
        BY <1>2, <2>1, <2>2, SubSeqProperties
      <3>2. Trimmed(p) = SubSeq(p, 1, MaxVariants)
        BY <2>2 DEF Trimmed
      <3>3. SubSeq(p, 1, MaxVariants) # <<>>
        <4>1. SUFFICES ASSUME SubSeq(p, 1, MaxVariants) = <<>> PROVE FALSE
          OBVIOUS
        <4>2. Len(SubSeq(p, 1, MaxVariants)) = 0
          BY <4>1, EmptySeq
        <4> QED
          BY <1>2, <3>1, <4>2
      <3>4. Len(Trimmed(p)) = MaxVariants
        BY <3>1, <3>2
      <3>5. Len(Trimmed(p)) <= MaxVariants
        BY <1>2, <3>4
      <3> QED
        BY <3>1, <3>2, <3>3, <3>5, Zenon
    <2>3. CASE ~ (Len(p) > MaxVariants)
      BY <1>2, <1>4, <2>1, <2>3 DEF Trimmed
    <2> QED
      BY <2>2, <2>3
  <1>5. Hoisted(b, c) \in Seq(S) /\ Len(Hoisted(b, c)) = Len(b)
    <2>1. CASE At(b, c) = {}
      BY <2>1 DEF Hoisted
    <2>2. CASE At(b, c) # {}
      <3> DEFINE i == CHOOSE j \in At(b, c) : TRUE
      <3>1. i \in 1..Len(b)
        BY <1>1, <2>2 DEF At
      <3> HIDE DEF i
      <3>2. RemoveAt(b, i) \in Seq(S) /\ Len(RemoveAt(b, i)) = Len(b) - 1
        BY <3>1, RemoveAtProperties
      <3>3. <<c>> \o RemoveAt(b, i) \in Seq(S) /\ Len(<<c>> \o RemoveAt(b, i)) = Len(b)
        <4>1. ASSUME NEW q \in Seq(S), Len(q) = Len(b) - 1
              PROVE  <<c>> \o q \in Seq(S) /\ Len(<<c>> \o q) = Len(b)
          <5>1. <<c>> \o q \in Seq(S) /\ Len(<<c>> \o q) = Len(q) + 1
            BY ConsProperties
          <5>2. Len(q) + 1 = Len(b)
            BY <1>1, <4>1
          <5> QED
            BY <5>1, <5>2, Zenon
        <4> QED
          BY <3>2, <4>1
      <3>4. Hoisted(b, c) = <<c>> \o RemoveAt(b, i)
        BY <2>2, Zenon DEF Hoisted, i
      <3> QED
        BY <3>3, <3>4, Zenon
    <2> QED
      BY <2>1, <2>2
  <1> QED
    BY <1>3, <1>4, <1>5

-----------------------------------------------------------------------------
(* Constraints pin what planning observed.                                 *)

\* The type-pinned equality is equality.
LEMMA ValuesEqual ==
    ASSUME NEW a \in Values \cup {ABSENT}, NEW b \in Values \cup {ABSENT}
    PROVE  values_equal(a, b) <=> a = b
  BY InputsAssumption DEF values_equal, PyEq

\* If the constraints a read recorded under facts f match facts g, the read
\* observes under g what it observed under f.
LEMMA ReadPinned ==
    ASSUME NEW f \in Facts, NEW g \in Facts, NEW r \in Reads,
           r.kind # "bound", r.kind # "baked",
           ~Raises(r, f),
           constraints_match(Recorded(r, f), g)
    PROVE  Observed(r, g) = Observed(r, f) /\ ~Raises(r, g)
  <1> DEFINE v == f[r.input]
             w == g[r.input]
  <1>1. v \in Values \cup {ABSENT} /\ w \in Values \cup {ABSENT} /\ r.expected \in Values
    BY DEF Facts, Reads
  <1>2. r.kind \in ReadKinds
    BY DEF Reads
  <1>3. BoolValue(TRUE) # BoolValue(FALSE)
    BY DEF BoolValue
  <1>4. CASE r.kind \in {"item", "get"}
    <2>1. ValueConstraint(r.input, v) \in Recorded(r, f)
      BY <1>4 DEF Recorded
    <2>2. matches(ValueConstraint(r.input, v), g)
      BY <2>1 DEF constraints_match
    <2>3. values_equal(w, v)
      BY <2>2 DEF matches, ValueConstraint
    <2>4. w = v
      BY <1>1, <2>3, ValuesEqual
    <2> QED
      BY <1>4, <2>4 DEF Observed, Raises
  <1>5. ASSUME NEW e \in BOOLEAN, matches(ExistsConstraint(r.input, e), g)
        PROVE  (w # ABSENT) = e
    BY <1>3, <1>5 DEF matches, ExistsConstraint, BoolValue
  <1>6. ASSUME NEW p \in BOOLEAN, matches(EqualityConstraint(r.input, r.expected, p), g)
        PROVE  values_equal(w, r.expected) = p
    BY <1>6 DEF matches, EqualityConstraint, values_equal
  <1>7. CASE r.kind = "has"
    <2>1. matches(ExistsConstraint(r.input, v # ABSENT), g)
      BY <1>7 DEF Recorded, constraints_match
    <2>2. (w # ABSENT) = (v # ABSENT)
      BY <1>5, <2>1
    <2> QED
      BY <1>7, <2>2 DEF Observed, Raises
  <1>8. CASE r.kind = "is"
    <2>1. /\ matches(ExistsConstraint(r.input, TRUE), g)
          /\ matches(EqualityConstraint(r.input, r.expected, values_equal(v, r.expected)), g)
      BY <1>8 DEF Recorded, constraints_match
    <2>2. w # ABSENT
      BY <1>5, <2>1
    <2>3. values_equal(w, r.expected) = values_equal(v, r.expected)
      BY <1>6, <2>1 DEF values_equal
    <2> QED
      BY <1>8, <2>2, <2>3 DEF Observed, Raises
  <1>9. CASE r.kind = "argIs"
    <2>1. CASE v = ABSENT
      <3>1. matches(ExistsConstraint(r.input, FALSE), g)
        BY <1>9, <2>1 DEF Recorded, constraints_match
      <3>2. w = ABSENT
        BY <1>5, <3>1
      <3> QED
        BY <1>9, <2>1, <3>2 DEF Observed, Raises
    <2>2. CASE v # ABSENT
      <3>1. /\ matches(ExistsConstraint(r.input, TRUE), g)
            /\ matches(EqualityConstraint(r.input, r.expected, values_equal(v, r.expected)), g)
        BY <1>9, <2>2 DEF Recorded, constraints_match
      <3>2. w # ABSENT
        BY <1>5, <3>1
      <3>3. values_equal(w, r.expected) = values_equal(v, r.expected)
        BY <1>6, <3>1 DEF values_equal
      <3> QED
        BY <1>9, <2>2, <3>2, <3>3 DEF Observed, Raises
    <2> QED
      BY <2>1, <2>2
  <1>10. CASE r.kind = "keys"
    <2>1. matches(KeysConstraint(Provided(f)), g)
      BY <1>10 DEF Recorded, constraints_match
    <2>2. Provided(g) = Provided(f)
      BY <2>1 DEF matches, KeysConstraint
    <2> QED
      BY <1>10, <2>2 DEF Observed, Raises
  <1>11. CASE r.kind = "source"
    BY <1>11 DEF Observed, Raises
  <1>12. CASE r.kind = "customizer"
    <2>1. matches(CustomizerConstraint(r.input, r.expected, values_equal(v, r.expected)), g)
      BY <1>12 DEF Recorded, constraints_match
    <2>2. values_equal(w, r.expected) = values_equal(v, r.expected)
      BY <2>1 DEF matches, CustomizerConstraint, values_equal
    <2> QED
      BY <1>12, <2>2 DEF Observed, Raises
  <1> QED
    BY <1>2, <1>4, <1>7, <1>8, <1>9, <1>10, <1>11, <1>12 DEF ReadKinds

\* If the constraints of request a match request b of the same key, planning b
\* plans the fields that planning a did and observes what planning a observed.
LEMMA MatchAgrees ==
    ASSUME NEW a \in Requests, NEW b \in Requests,
           compute_cache_key(a) = compute_cache_key(b),
           Pinned(a.document), Cacheable(a),
           ~PlanRaises(a.document, a.facts),
           constraints_match(AllConstraints(a), b.facts)
    PROVE  /\ Planned(b.document, b.facts) = Planned(a.document, a.facts)
           /\ \A f \in Selection[a.document] :
                FieldDef[f].guard # NoGuard => b.facts[FieldDef[f].guard] = a.facts[FieldDef[f].guard]
           /\ \A f \in Planned(a.document, a.facts) :
                /\ ArgsError(f, b.facts) <=> ArgsError(f, a.facts)
                /\ EffectiveReads(f, b.facts) = EffectiveReads(f, a.facts)
                /\ \A r \in EffectiveReads(f, a.facts) :
                     /\ r \in Reads /\ r.kind # "bound" /\ r.kind # "baked"
                     /\ Observed(r, b.facts) = Observed(r, a.facts)
                     /\ ~Raises(r, a.facts) /\ ~Raises(r, b.facts)
  <1> DEFINE d == a.document
             F == a.facts
             G == b.facts
  <1>1. /\ b.document = d /\ d \in Documents
        /\ F \in Facts /\ G \in Facts
        /\ Selection[d] \subseteq Fields
    BY DocumentsAssumption DEF compute_cache_key
  <1>2. \A f \in Fields : FieldDef[f] \in FieldDefs /\ FieldDef[f].required \subseteq FieldDef[f].args
    BY DocumentsAssumption
  <1>3. \A i \in Inputs : F[i] \in Values \cup {ABSENT} /\ G[i] \in Values \cup {ABSENT}
    BY <1>1 DEF Facts
  <1>4. ASSUME NEW i \in Inputs, ValueConstraint(i, F[i]) \in AllConstraints(a)
        PROVE  G[i] = F[i]
    <2>1. matches(ValueConstraint(i, F[i]), G)
      BY <1>4 DEF constraints_match
    <2>2. values_equal(G[i], F[i])
      BY <2>1 DEF matches, ValueConstraint
    <2> QED
      BY <1>3, <2>2, ValuesEqual
  <1>5. ASSUME NEW f \in Selection[d], FieldDef[f].guard # NoGuard
        PROVE  G[FieldDef[f].guard] = F[FieldDef[f].guard]
    <2>1. FieldDef[f].guard \in Inputs
      BY <1>1, <1>2, <1>5 DEF FieldDefs, Inputs
    <2>2. ValueConstraint(FieldDef[f].guard, F[FieldDef[f].guard]) \in AllConstraints(a)
      BY <1>5 DEF AllConstraints, directive_variable_constraints
    <2> QED
      BY <1>4, <2>1, <2>2
  <1>6. Planned(d, G) = Planned(d, F)
    BY <1>5 DEF Planned, Included
  <1>7. ASSUME NEW f \in Planned(d, F)
        PROVE  /\ ArgsError(f, G) <=> ArgsError(f, F)
               /\ EffectiveReads(f, G) = EffectiveReads(f, F)
               /\ \A r \in EffectiveReads(f, F) :
                    /\ r \in Reads /\ r.kind # "bound" /\ r.kind # "baked"
                    /\ Observed(r, G) = Observed(r, F)
                    /\ ~Raises(r, F) /\ ~Raises(r, G)
    <2>1. f \in Selection[d] /\ f \in Fields
      BY <1>1 DEF Planned
    <2>2. /\ FieldDef[f].args \subseteq Variables
          /\ FieldDef[f].required \subseteq FieldDef[f].args
          /\ FieldDef[f].reads \subseteq Reads
          /\ FieldDef[f].legacy \in BOOLEAN
      BY <1>2, <2>1 DEF FieldDefs
    <2>3. ASSUME NEW v \in FieldDef[f].args
          PROVE  ArgRead(v) \in Reads /\ ArgRead(v).kind = "get" /\ ArgRead(v).input = v
      BY <2>2, InputsAssumption DEF ArgRead, Reads, ReadKinds, Inputs
    <2>4. ASSUME NEW r \in EffectiveReads(f, F)
          PROVE  /\ r \in Reads
                 /\ r.kind # "bound" /\ r.kind # "baked"
                 /\ ~Raises(r, F)
                 /\ Recorded(r, F) \subseteq AllConstraints(a)
      <3>1. r \in Reads /\ r.kind # "bound"
        <4>1. CASE FieldDef[f].legacy \/ ArgsError(f, F)
          BY <2>3, <2>4, <4>1 DEF EffectiveReads
        <4>2. CASE ~(FieldDef[f].legacy \/ ArgsError(f, F))
          <5>1. r \in FieldDef[f].reads
            BY <2>4, <4>2 DEF EffectiveReads
          <5> QED
            BY <2>1, <2>2, <4>2, <5>1 DEF Pinned
        <4> QED
          BY <4>1, <4>2
      <3>2. r.kind # "baked"
        BY DEF Cacheable
      <3>3. ~Raises(r, F)
        BY DEF PlanRaises
      <3>4. Recorded(r, F) \subseteq AllConstraints(a)
        BY DEF AllConstraints, request_constraints
      <3> QED
        BY <3>1, <3>2, <3>3, <3>4
    <2>5. ASSUME NEW r \in EffectiveReads(f, F)
          PROVE  Observed(r, G) = Observed(r, F) /\ ~Raises(r, G)
      <3>1. constraints_match(Recorded(r, F), G)
        BY <2>4 DEF constraints_match
      <3> QED
        BY <1>1, <2>4, <3>1, ReadPinned
    <2>6. ASSUME NEW r \in EffectiveReads(f, F), r.kind = "get"
          PROVE  G[r.input] = F[r.input]
      <3>1. r.input \in Inputs
        BY <2>4 DEF Reads
      <3>2. ValueConstraint(r.input, F[r.input]) \in Recorded(r, F)
        BY <2>6 DEF Recorded
      <3> QED
        BY <1>4, <2>4, <3>1, <3>2
    <2>7. ASSUME NEW v \in FieldDef[f].required
          PROVE  G[v] = F[v]
      <3>1. CASE FieldDef[f].legacy \/ ArgsError(f, F)
        <4>1. ArgRead(v) \in EffectiveReads(f, F)
          BY <2>2, <3>1 DEF EffectiveReads
        <4> QED
          BY <2>2, <2>3, <2>6, <4>1
      <3>2. CASE ~(FieldDef[f].legacy \/ ArgsError(f, F))
        <4>1. PICK r \in FieldDef[f].reads : r.kind = "get" /\ r.input = v
          BY <2>1, <3>2 DEF Pinned
        <4>2. r \in EffectiveReads(f, F)
          BY <3>2, <4>1 DEF EffectiveReads
        <4> QED
          BY <2>6, <4>1, <4>2
      <3> QED
        BY <3>1, <3>2
    <2>8. ArgsError(f, G) <=> ArgsError(f, F)
      BY <2>7 DEF ArgsError
    <2>9. EffectiveReads(f, G) = EffectiveReads(f, F)
      BY <2>8 DEF EffectiveReads
    <2> QED
      BY <2>4, <2>5, <2>8, <2>9
  <1> QED
    BY <1>1, <1>5, <1>6, <1>7

\* The heart of the cache: a plan stored for request a whose constraints match
\* request b of the same key is the plan planning b would produce.
LEMMA MatchServes ==
    ASSUME NEW a \in Requests, NEW b \in Requests,
           compute_cache_key(a) = compute_cache_key(b),
           Pinned(a.document), Cacheable(a),
           ~PlanRaises(a.document, a.facts),
           constraints_match(AllConstraints(a), b.facts)
    PROVE  FreshPlan(b) = FreshPlan(a)
  <1> DEFINE P == Planned(a.document, a.facts)
  <1>1. /\ Planned(b.document, b.facts) = P
        /\ \A f \in P : /\ ArgsError(f, b.facts) <=> ArgsError(f, a.facts)
                        /\ EffectiveReads(f, b.facts) = EffectiveReads(f, a.facts)
                        /\ \A r \in EffectiveReads(f, a.facts) :
                             Observed(r, b.facts) = Observed(r, a.facts) /\ ~Raises(r, b.facts)
    BY MatchAgrees
  <1>2. ASSUME NEW f \in P
        PROVE  FieldPlan(f, b.facts) = FieldPlan(f, a.facts)
    BY <1>1, <1>2 DEF FieldPlan, ArgsError
  <1>3. ~PlanRaises(b.document, b.facts)
    BY <1>1 DEF PlanRaises
  <1>4. [f \in Planned(b.document, b.facts) |-> FieldPlan(f, b.facts)] = [f \in P |-> FieldPlan(f, a.facts)]
    BY <1>1, <1>2
  <1> QED
    BY <1>3, <1>4 DEF FreshPlan

-----------------------------------------------------------------------------
(* The inductive invariant.                                                *)

\* The candidates a bucket of key k may hold: plans built for a request of
\* that key, by planning that succeeded and allowed caching.
Sound(k) ==
    {c \in Candidates : /\ compute_cache_key(c.built) = k
                        /\ Cacheable(c.built)
                        /\ ~PlanRaises(c.built.document, c.built.facts)}

\* A thread at work has a request; the candidate it is about to store is the
\* one it built for that request.
ThreadsOK ==
    \A t \in Threads :
        /\ pc[t] # "idle" => asked[t] \in Requests /\ calls >= 1
        /\ pc[t] = "store" => candidate[t] \in Sound(Key(t)) /\ candidate[t].built = asked[t]

\* Whatever a thread may find in a bucket, or has copied out of one, is sound.
SoundCache ==
    /\ \A k \in Keys : buckets[k] \in Seq(Sound(k))
    /\ \A t \in Threads : pc[t] = "validate" => snapshot[t] \in Seq(Sound(Key(t)))

Inv == TypeOK /\ ThreadsOK /\ SoundCache

\* move_to_end keeps the keys a sequence of keys.
LEMMA ToEndType ==
    ASSUME NEW S, NEW s \in Seq(S), NEW k \in S
    PROVE  ToEnd(s, k) \in Seq(S)
  <1>1. CASE At(s, k) = {}
    BY <1>1, AppendProperties DEF ToEnd
  <1>2. CASE At(s, k) # {}
    <2> DEFINE i == CHOOSE j \in At(s, k) : TRUE
    <2>1. i \in 1..Len(s)
      BY <1>2, LenProperties DEF At
    <2> HIDE DEF i
    <2>2. RemoveAt(s, i) \in Seq(S)
      BY <2>1, RemoveAtProperties
    <2>3. Append(RemoveAt(s, i), k) \in Seq(S)
      BY <2>2, AppendProperties
    <2>4. ToEnd(s, k) = Append(RemoveAt(s, i), k)
      BY <1>2, Zenon DEF ToEnd, i
    <2> QED
      BY <2>3, <2>4, Zenon
  <1> QED
    BY <1>1, <1>2

\* compute_cache_key yields a key.
LEMMA KeyType ==
    ASSUME NEW r \in Requests
    PROVE  compute_cache_key(r) \in Keys
  BY DocumentsAssumption DEF compute_cache_key, Keys

\* The keys put leaves, as a sequence, and the number it evicted.
LEMMA PutOrderType ==
    ASSUME NEW s \in Seq(Keys), NEW k \in Keys
    PROVE  /\ Overflow(ToEnd(s, k)) \in Nat
           /\ SubSeq(ToEnd(s, k), Overflow(ToEnd(s, k)) + 1, Len(ToEnd(s, k))) \in Seq(Keys)
  <1> DEFINE q == ToEnd(s, k)
  <1>1. q \in Seq(Keys)
    BY ToEndType
  <1> HIDE DEF q
  <1>2. Len(q) \in Nat /\ \A i \in 1..Len(q) : q[i] \in Keys
    BY <1>1, LenProperties, ElementOfSeq
  <1>3. Overflow(q) \in Nat
    BY <1>2, CapsAssumption DEF Overflow
  <1>4. SubSeq(q, Overflow(q) + 1, Len(q)) \in Seq(Keys)
    BY <1>2, <1>3, SubSeqProperties
  <1> QED
    BY <1>3, <1>4 DEF q

\* A fresh cache with idle threads satisfies the invariant.
LEMMA InvInit == Init => Inv
  <1> SUFFICES ASSUME Init PROVE Inv
    OBVIOUS
  <1>1. \A S : <<>> \in Seq(S)
    BY EmptySeq
  <1>2. TypeOK
    BY <1>1, CapsAssumption DEF Init, TypeOK, Pcs
  <1>3. ThreadsOK /\ SoundCache
    BY <1>1 DEF Init, ThreadsOK, SoundCache
  <1> QED
    BY <1>2, <1>3 DEF Inv

\* Every critical section of get, put and clear, and every step of a thread
\* between two of them, keeps the invariant.
LEMMA InvNext == Inv /\ [Next]_vars => Inv'
  <1> SUFFICES ASSUME Inv, [Next]_vars PROVE Inv'
    OBVIOUS
  <1> USE DEF Inv
  <1>1. ASSUME NEW t \in Threads, Begin(t)
        PROVE  Inv'
    <2>1. TypeOK'
      BY <1>1, CapsAssumption DEF Begin, TypeOK, Pcs, cacheVars
    <2>2. ThreadsOK'
      BY <1>1 DEF Begin, TypeOK, Pcs, cacheVars, ThreadsOK, Key
    <2>3. SoundCache'
      BY <1>1 DEF Begin, TypeOK, Pcs, cacheVars, SoundCache, Key
    <2> QED
      BY <2>1, <2>2, <2>3
  <1>2. ASSUME NEW t \in Threads, LookupAbsent(t)
        PROVE  Inv'
    <2>1. TypeOK'
      BY <1>2 DEF LookupAbsent, TypeOK, Pcs, cacheVars
    <2>2. ThreadsOK'
      BY <1>2 DEF LookupAbsent, TypeOK, Pcs, cacheVars, ThreadsOK, Key
    <2>3. SoundCache'
      BY <1>2 DEF LookupAbsent, TypeOK, Pcs, cacheVars, SoundCache, Key
    <2> QED
      BY <2>1, <2>2, <2>3
  <1>3. ASSUME NEW t \in Threads, LookupPresent(t)
        PROVE  Inv'
    <2>0. asked[t] \in Requests /\ Key(t) \in Keys
      BY <1>3, KeyType DEF LookupPresent, ThreadsOK, Key
    <2>1. ToEnd(order, Key(t)) \in Seq(Keys)
      BY <2>0, ToEndType DEF TypeOK
    <2>2. TypeOK'
      BY <1>3, <2>0, <2>1 DEF LookupPresent, TypeOK, Pcs
    <2>3. ThreadsOK'
      BY <1>3 DEF LookupPresent, TypeOK, Pcs, ThreadsOK, Key
    <2>4. SoundCache'
      BY <1>3, <2>0 DEF LookupPresent, TypeOK, Pcs, SoundCache, Key
    <2> QED
      BY <2>2, <2>3, <2>4
  <1>4. ASSUME NEW t \in Threads, Accept(t)
        PROVE  Inv'
    <2> DEFINE i == FirstValid(snapshot[t], asked[t])
               c == snapshot[t][i]
    <2>0. asked[t] \in Requests /\ Key(t) \in Keys /\ snapshot[t] \in Seq(Sound(Key(t)))
      BY <1>4, KeyType DEF Accept, ThreadsOK, Key, SoundCache
    <2>1. i \in 1..Len(snapshot[t])
      BY <1>4, <2>0, PositionTypes DEF Accept
    <2>2. c \in Sound(Key(t)) /\ c.built \in Requests
      <3>1. c \in Sound(Key(t))
        BY <2>0, <2>1, ElementOfSeq
      <3> QED
        BY <3>1 DEF Sound, Candidates
    <2>3. Hoisted(buckets[Key(t)], c) \in Seq(Sound(Key(t)))
      BY <2>0, <2>2, BucketProperties DEF SoundCache
    <2>4. Hoisted(buckets[Key(t)], c) \in Seq(Candidates)
      BY <2>0, <2>3, SeqMonotonic DEF Sound
    <2>5. /\ buckets' = [buckets EXCEPT ![Key(t)] = Hoisted(buckets[Key(t)], c)]
          /\ answer' = [answer EXCEPT ![t] = plan(c)]
      BY <1>4 DEF Accept
    <2> HIDE DEF c, i
    <2>6. TypeOK'
      BY <1>4, <2>0, <2>2, <2>4, <2>5, EmptySeq DEF Accept, TypeOK, Pcs, plan
    <2>7. ThreadsOK'
      BY <1>4 DEF Accept, TypeOK, Pcs, ThreadsOK, Key
    <2>8. SoundCache'
      <3>1. \A k \in Keys : buckets'[k] \in Seq(Sound(k))
        BY <2>0, <2>3, <2>5 DEF TypeOK, SoundCache
      <3>2. \A u \in Threads : pc'[u] = "validate" => snapshot'[u] \in Seq(Sound(Key(u)'))
        BY <1>4 DEF Accept, TypeOK, Pcs, SoundCache, Key
      <3> QED
        BY <3>1, <3>2 DEF SoundCache, Sound, Candidates
    <2> QED
      BY <2>6, <2>7, <2>8
  <1>5. ASSUME NEW t \in Threads, Reject(t)
        PROVE  Inv'
    <2>1. TypeOK'
      BY <1>5, EmptySeq DEF Reject, TypeOK, Pcs, cacheVars
    <2>2. ThreadsOK'
      BY <1>5 DEF Reject, TypeOK, Pcs, cacheVars, ThreadsOK, Key
    <2>3. SoundCache'
      BY <1>5 DEF Reject, TypeOK, Pcs, cacheVars, SoundCache, Key
    <2> QED
      BY <2>1, <2>2, <2>3
  <1>6. ASSUME NEW t \in Threads, PlanOnly(t)
        PROVE  Inv'
    <2>0. asked[t] \in Requests
      BY <1>6 DEF PlanOnly, ThreadsOK
    <2>1. TypeOK'
      BY <1>6, <2>0 DEF PlanOnly, TypeOK, Pcs, cacheVars
    <2>2. ThreadsOK'
      BY <1>6 DEF PlanOnly, TypeOK, Pcs, cacheVars, ThreadsOK, Key
    <2>3. SoundCache'
      BY <1>6 DEF PlanOnly, TypeOK, Pcs, cacheVars, SoundCache, Key
    <2> QED
      BY <2>1, <2>2, <2>3
  <1>7. ASSUME NEW t \in Threads, PlanFresh(t)
        PROVE  Inv'
    <2> DEFINE c == [id |-> <<t, calls>>, built |-> asked[t]]
    <2>0. asked[t] \in Requests /\ calls \in 1..MaxCalls
      BY <1>7, CapsAssumption DEF PlanFresh, ThreadsOK, TypeOK
    <2>1. c \in Candidates /\ c.built = asked[t]
      BY <2>0 DEF Candidates
    <2>2. ~PlanRaises(asked[t].document, asked[t].facts)
      BY <1>7 DEF PlanFresh, FreshPlan
    <2>3. c \in Sound(Key(t))
      BY <1>7, <2>1, <2>2 DEF PlanFresh, Sound, Key
    <2>4. candidate' = [candidate EXCEPT ![t] = c]
      BY <1>7 DEF PlanFresh
    <2> HIDE DEF c
    <2>5. TypeOK'
      BY <1>7, <2>1, <2>4 DEF PlanFresh, TypeOK, Pcs, cacheVars
    <2>6. ThreadsOK'
      BY <1>7, <2>1, <2>3, <2>4 DEF PlanFresh, TypeOK, Pcs, cacheVars, ThreadsOK, Key
    <2>7. SoundCache'
      BY <1>7 DEF PlanFresh, TypeOK, Pcs, cacheVars, SoundCache, Key
    <2> QED
      BY <2>5, <2>6, <2>7
  <1>8. ASSUME NEW t \in Threads, Store(t)
        PROVE  Inv'
    <2> DEFINE k == Key(t)
               c == candidate[t]
               kept == SubSeq(ToEnd(order, k), Overflow(ToEnd(order, k)) + 1, Len(ToEnd(order, k)))
               b == Trimmed(Prepended(buckets[k], c))
    <2>0. asked[t] \in Requests /\ k \in Keys /\ c \in Sound(k) /\ c.built = asked[t]
      BY <1>8, KeyType DEF Store, ThreadsOK, Key
    <2>1. Overflow(ToEnd(order, k)) \in Nat /\ kept \in Seq(Keys)
      BY <2>0, PutOrderType DEF TypeOK
    <2>2. b \in Seq(Sound(k)) /\ b # <<>>
      BY <2>0, BucketProperties DEF SoundCache
    <2>3. b \in Seq(Candidates)
      BY <2>2, SeqMonotonic DEF Sound
    <2>4. /\ order' = kept
          /\ buckets' = [q \in Keys |-> IF q = k THEN b
                           ELSE IF At(kept, q) = {} THEN <<>> ELSE buckets[q]]
          /\ evictions' = evictions + Overflow(ToEnd(order, k))
                            + (IF Len(Prepended(buckets[k], c)) > MaxVariants THEN 1 ELSE 0)
          /\ answer' = [answer EXCEPT ![t] = plan(c)]
      BY <1>8 DEF Store, Put
    <2> HIDE DEF k, c, kept, b
    <2>5. \A S : <<>> \in Seq(S)
      BY EmptySeq
    <2>6. TypeOK'
      <3>1. buckets' \in [Keys -> Seq(Candidates)]
        BY <2>3, <2>4, <2>5 DEF TypeOK
      <3>2. evictions' \in Nat
        BY <2>1, <2>4 DEF TypeOK, k
      <3>3. answer' \in [Threads -> {FreshPlan(r) : r \in Requests} \cup {NoPlan}]
        BY <2>0, <2>4 DEF TypeOK, plan
      <3> QED
        BY <1>8, <2>0, <2>1, <2>4, <3>1, <3>2, <3>3 DEF Store, TypeOK, Pcs
    <2>7. ThreadsOK'
      BY <1>8 DEF Store, TypeOK, Pcs, ThreadsOK, Key
    <2>8. SoundCache'
      <3>1. \A q \in Keys : buckets'[q] \in Seq(Sound(q))
        BY <2>2, <2>4, <2>5 DEF SoundCache
      <3>2. \A u \in Threads : pc'[u] = "validate" => snapshot'[u] \in Seq(Sound(Key(u)'))
        BY <1>8 DEF Store, TypeOK, Pcs, SoundCache, Key
      <3> QED
        BY <3>1, <3>2 DEF SoundCache, Sound, Candidates
    <2> QED
      BY <2>6, <2>7, <2>8
  <1>9. ASSUME NEW t \in Threads, Leave(t)
        PROVE  Inv'
    <2>1. TypeOK'
      BY <1>9 DEF Leave, TypeOK, Pcs, cacheVars
    <2>2. ThreadsOK'
      BY <1>9 DEF Leave, TypeOK, Pcs, cacheVars, ThreadsOK, Key
    <2>3. SoundCache'
      BY <1>9 DEF Leave, TypeOK, Pcs, cacheVars, SoundCache, Key
    <2> QED
      BY <2>1, <2>2, <2>3
  <1>10. CASE clear
    <2>0. \A S : <<>> \in Seq(S)
      BY EmptySeq
    <2>1. TypeOK'
      BY <1>10, <2>0 DEF clear, TypeOK, Pcs, threadVars
    <2>2. ThreadsOK'
      BY <1>10 DEF clear, TypeOK, Pcs, threadVars, ThreadsOK, Key
    <2>3. SoundCache'
      BY <1>10, <2>0 DEF clear, TypeOK, Pcs, threadVars, SoundCache, Key
    <2> QED
      BY <2>1, <2>2, <2>3
  <1>11. CASE UNCHANGED vars
    BY <1>11 DEF vars, cacheVars, threadVars, TypeOK, ThreadsOK, SoundCache, Key
  <1> QED
    BY <1>1, <1>2, <1>3, <1>4, <1>5, <1>6, <1>7, <1>8, <1>9, <1>10, <1>11 DEF Next, Step

\* The plan cache is type correct under every interleaving of its threads.
THEOREM TypeCorrect == Spec => []TypeOK
  <1>1. Init => Inv
    BY InvInit
  <1>2. Inv /\ [Next]_vars => Inv'
    BY InvNext
  <1>3. Inv => TypeOK
    BY DEF Inv
  <1> QED
    BY <1>1, <1>2, <1>3, PTL DEF Spec

\* A thread that a step leaves alone keeps the answer it has.
LEMMA ServedNext ==
    ASSUME \A d \in Documents : Pinned(d),
           Inv, ServedIsFresh, [Next]_vars
    PROVE  ServedIsFresh'
  <1> USE DEF ServedIsFresh
  <1>1. ASSUME NEW t \in Threads, Begin(t)
        PROVE  ServedIsFresh'
    BY <1>1 DEF Begin, Inv, TypeOK, cacheVars
  <1>2. ASSUME NEW t \in Threads, LookupAbsent(t)
        PROVE  ServedIsFresh'
    BY <1>2 DEF LookupAbsent, Inv, TypeOK, cacheVars
  <1>3. ASSUME NEW t \in Threads, LookupPresent(t)
        PROVE  ServedIsFresh'
    BY <1>3 DEF LookupPresent, Inv, TypeOK
  <1>4. ASSUME NEW t \in Threads, Accept(t)
        PROVE  ServedIsFresh'
    <2> DEFINE i == FirstValid(snapshot[t], asked[t])
               c == snapshot[t][i]
    <2>1. asked[t] \in Requests /\ snapshot[t] \in Seq(Sound(Key(t)))
      BY <1>4 DEF Accept, Inv, ThreadsOK, SoundCache
    <2>2. i \in 1..Len(snapshot[t]) /\ validate(c, asked[t])
      BY <1>4, <2>1, PositionTypes DEF Accept
    <2>3. c \in Sound(Key(t))
      BY <2>1, <2>2, ElementOfSeq
    <2>4. /\ c.built \in Requests
          /\ compute_cache_key(c.built) = compute_cache_key(asked[t])
          /\ Cacheable(c.built)
          /\ ~PlanRaises(c.built.document, c.built.facts)
      BY <2>3 DEF Sound, Candidates, Key
    <2>5. constraints_match(AllConstraints(c.built), asked[t].facts)
      BY <2>2 DEF validate, constraints
    <2>6. Pinned(c.built.document)
      BY <2>4, DocumentsAssumption
    <2>7. plan(c) = FreshPlan(asked[t])
      BY <2>1, <2>4, <2>5, <2>6, MatchServes DEF plan
    <2>8. answer' = [answer EXCEPT ![t] = plan(c)]
      BY <1>4 DEF Accept
    <2> HIDE DEF c, i
    <2> QED
      BY <1>4, <2>7, <2>8 DEF Accept, Inv, TypeOK
  <1>5. ASSUME NEW t \in Threads, Reject(t)
        PROVE  ServedIsFresh'
    BY <1>5 DEF Reject, Inv, TypeOK, cacheVars
  <1>6. ASSUME NEW t \in Threads, PlanOnly(t)
        PROVE  ServedIsFresh'
    BY <1>6 DEF PlanOnly, Inv, TypeOK, cacheVars
  <1>7. ASSUME NEW t \in Threads, PlanFresh(t)
        PROVE  ServedIsFresh'
    BY <1>7 DEF PlanFresh, Inv, TypeOK, cacheVars
  <1>8. ASSUME NEW t \in Threads, Store(t)
        PROVE  ServedIsFresh'
    <2>1. plan(candidate[t]) = FreshPlan(asked[t])
      BY <1>8 DEF Store, Inv, ThreadsOK, plan
    <2> QED
      BY <1>8, <2>1 DEF Store, Inv, TypeOK
  <1>9. ASSUME NEW t \in Threads, Leave(t)
        PROVE  ServedIsFresh'
    BY <1>9 DEF Leave, Inv, TypeOK, cacheVars
  <1>10. CASE clear
    BY <1>10 DEF clear, threadVars
  <1>11. CASE UNCHANGED vars
    BY <1>11 DEF vars, threadVars
  <1> QED
    BY <1>1, <1>2, <1>3, <1>4, <1>5, <1>6, <1>7, <1>8, <1>9, <1>10, <1>11 DEF Next, Step

\* When every observation of the documents is pinned, no request is ever served
\* a plan that planning it afresh would not have produced, whatever the threads
\* race on, evict or clear meanwhile.
THEOREM CacheIsTransparent ==
    (\A d \in Documents : Pinned(d)) => (Spec => []ServedIsFresh)
  <1> SUFFICES ASSUME \A d \in Documents : Pinned(d)
               PROVE  Spec => []ServedIsFresh
    OBVIOUS
  <1>1. Init => Inv /\ ServedIsFresh
    BY InvInit DEF Init, ServedIsFresh
  <1>2. Inv /\ ServedIsFresh /\ [Next]_vars => (Inv /\ ServedIsFresh)'
    BY InvNext, ServedNext
  <1> QED
    BY <1>1, <1>2, PTL DEF Spec

-----------------------------------------------------------------------------
(* The caps.                                                               *)

Distinct(s) == \A i, j \in DOMAIN s : s[i] = s[j] => i = j

\* Touching key k moves it to the end of the LRU list, or adds it there, and
\* disturbs no other key.
LEMMA ToEndProperties ==
    ASSUME NEW s \in Seq(Keys), NEW k \in Keys, Distinct(s)
    PROVE  /\ ToEnd(s, k) \in Seq(Keys)
           /\ Len(ToEnd(s, k)) >= 1 /\ ToEnd(s, k)[Len(ToEnd(s, k))] = k
           /\ At(s, k) # {} => Len(ToEnd(s, k)) = Len(s)
           /\ Distinct(ToEnd(s, k))
           /\ \A x \in Keys : At(ToEnd(s, k), x) # {} <=> At(s, x) # {} \/ x = k
  <1>1. Len(s) \in Nat /\ DOMAIN s = 1..Len(s) /\ \A j \in 1..Len(s) : s[j] \in Keys
    BY LenProperties, ElementOfSeq
  <1>2. ASSUME NEW p \in Seq(Keys), \A j \in 1..Len(p) : p[j] # k, Distinct(p)
        PROVE  /\ Append(p, k) \in Seq(Keys)
               /\ Len(Append(p, k)) = Len(p) + 1
               /\ Len(p) \in Nat
               /\ Append(p, k)[Len(p) + 1] = k
               /\ Distinct(Append(p, k))
               /\ \A x \in Keys : At(Append(p, k), x) # {} <=> At(p, x) # {} \/ x = k
    <2>1. /\ Append(p, k) \in Seq(Keys)
          /\ Len(Append(p, k)) = Len(p) + 1
          /\ \A j \in 1..Len(p) : Append(p, k)[j] = p[j]
          /\ Append(p, k)[Len(p) + 1] = k
      BY AppendProperties
    <2>2. Len(p) \in Nat /\ DOMAIN p = 1..Len(p)
      BY LenProperties
    <2>3. DOMAIN Append(p, k) = 1..(Len(p) + 1)
      BY <2>1, LenProperties
    <2>4. Distinct(Append(p, k))
      BY <1>2, <2>1, <2>2, <2>3 DEF Distinct
    <2>5. \A x \in Keys : At(Append(p, k), x) # {} <=> At(p, x) # {} \/ x = k
      BY <2>1, <2>2, <2>3 DEF At
    <2> QED
      BY <2>1, <2>2, <2>4, <2>5
  <1>3. CASE At(s, k) = {}
    <2>1. \A j \in 1..Len(s) : s[j] # k
      BY <1>1, <1>3 DEF At
    <2>2. ToEnd(s, k) = Append(s, k)
      BY <1>3 DEF ToEnd
    <2> DEFINE q == ToEnd(s, k)
    <2>3. /\ q \in Seq(Keys)
          /\ Len(q) = Len(s) + 1
          /\ q[Len(s) + 1] = k
          /\ Distinct(q)
          /\ \A x \in Keys : At(q, x) # {} <=> At(s, x) # {} \/ x = k
      BY <1>2, <2>1, <2>2
    <2> HIDE DEF q
    <2>4. Len(q) >= 1 /\ q[Len(q)] = k
      BY <1>1, <2>3
    <2> QED
      BY <1>3, <2>3, <2>4 DEF q
  <1>4. CASE At(s, k) # {}
    <2> DEFINE i == CHOOSE j \in At(s, k) : TRUE
               p == RemoveAt(s, i)
               q == ToEnd(s, k)
    <2>1. i \in 1..Len(s) /\ s[i] = k
      BY <1>1, <1>4 DEF At
    <2>2. q = Append(p, k)
      BY <1>4, Zenon DEF ToEnd
    <2> HIDE DEF i
    <2>3. /\ p \in Seq(Keys)
          /\ Len(p) = Len(s) - 1
          /\ \A j \in 1..(Len(s) - 1) : p[j] = IF j < i THEN s[j] ELSE s[j + 1]
      BY <2>1, RemoveAtProperties
    <2>4. DOMAIN p = 1..(Len(s) - 1)
      BY <2>3, LenProperties
    <2> HIDE DEF p, q
    <2>5. ASSUME NEW j \in 1..(Len(s) - 1)
          PROVE  \E m \in 1..Len(s) : m # i /\ p[j] = s[m] /\ m = IF j < i THEN j ELSE j + 1
      <3>1. CASE j < i
        BY <1>1, <2>1, <2>3, <3>1
      <3>2. CASE ~ (j < i)
        BY <1>1, <2>1, <2>3, <3>2
      <3> QED
        BY <3>1, <3>2
    <2> DEFINE from(j) == IF j < i THEN j ELSE j + 1
    <2>5a. ASSUME NEW j \in 1..(Len(s) - 1)
           PROVE  from(j) \in 1..Len(s) /\ from(j) # i /\ p[j] = s[from(j)]
      BY <2>5
    <2>5b. \A m, n \in 1..Len(s) : s[m] = s[n] => m = n
      BY <1>1 DEF Distinct
    <2>6. \A j \in 1..Len(p) : p[j] # k
      <3>1. ASSUME NEW j \in 1..(Len(s) - 1) PROVE p[j] # k
        <4> HIDE DEF from
        <4> QED
          BY <2>1, <2>5a, <2>5b
      <3> QED
        BY <2>3, <3>1
    <2>7. Distinct(p)
      <3>1. ASSUME NEW j \in 1..(Len(s) - 1), NEW m \in 1..(Len(s) - 1), p[j] = p[m]
            PROVE  j = m
        <4>1. from(j) = from(m)
          <5> HIDE DEF from
          <5> QED
            BY <2>5a, <2>5b, <3>1
        <4> QED
          BY <1>1, <2>1, <4>1
      <3> QED
        BY <2>4, <3>1 DEF Distinct
    <2>8. ASSUME NEW x \in Keys, x # k
          PROVE  At(p, x) # {} <=> At(s, x) # {}
      <3>1. ASSUME NEW j \in 1..(Len(s) - 1), p[j] = x
            PROVE  \E m \in 1..Len(s) : s[m] = x
        BY <2>5, <3>1
      <3>2. ASSUME NEW m \in 1..Len(s), s[m] = x
            PROVE  \E j \in 1..(Len(s) - 1) : p[j] = x
        <4>1. m # i
          BY <2>1, <2>8, <3>2
        <4>2. CASE m < i
          BY <1>1, <2>1, <2>3, <3>2, <4>2
        <4>3. CASE m > i
          <5>1. m - 1 \in 1..(Len(s) - 1) /\ ~ (m - 1 < i) /\ (m - 1) + 1 = m
            BY <1>1, <2>1, <4>3
          <5>2. p[m - 1] = s[m]
            BY <2>3, <5>1
          <5> QED
            BY <3>2, <5>1, <5>2
        <4> QED
          BY <1>1, <2>1, <4>1, <4>2, <4>3
      <3> QED
        BY <1>1, <2>4, <3>1, <3>2 DEF At
    <2>9. /\ q \in Seq(Keys)
          /\ Len(q) = Len(p) + 1
          /\ q[Len(p) + 1] = k
          /\ Distinct(q)
          /\ \A x \in Keys : At(q, x) # {} <=> At(p, x) # {} \/ x = k
      BY <1>2, <2>2, <2>3, <2>6, <2>7
    <2>10. Len(q) = Len(s) /\ Len(q) >= 1 /\ q[Len(q)] = k
      BY <1>1, <2>1, <2>3, <2>9
    <2>11. \A x \in Keys : At(q, x) # {} <=> At(s, x) # {} \/ x = k
      BY <1>4, <2>8, <2>9
    <2> QED
      BY <1>4, <2>9, <2>10, <2>11 DEF q
  <1> QED
    BY <1>3, <1>4

\* What is left of q once its first d elements are dropped.
LEMMA SuffixProperties ==
    ASSUME NEW q \in Seq(Keys), NEW d \in Nat, d < Len(q)
    PROVE  /\ SubSeq(q, d + 1, Len(q)) \in Seq(Keys)
           /\ Len(SubSeq(q, d + 1, Len(q))) = Len(q) - d
           /\ \A j \in 1..(Len(q) - d) : SubSeq(q, d + 1, Len(q))[j] = q[d + j]
  <1> DEFINE n == Len(q)
             m == d + 1
             p == SubSeq(q, m, n)
  <1>1. n \in Nat /\ \A j \in 1..n : q[j] \in Keys
    BY LenProperties, ElementOfSeq
  <1>2. m \in Int /\ n \in Int /\ \A j \in m..n : q[j] \in Keys
    BY <1>1
  <1>3. n = Len(q) /\ m = d + 1 /\ p = SubSeq(q, m, n)
    OBVIOUS
  <1> HIDE DEF m, n
  <1>4. /\ p \in Seq(Keys)
        /\ Len(p) = IF m <= n THEN n - m + 1 ELSE 0
        /\ \A i \in 1..(n - m + 1) : p[i] = q[m + i - 1]
    <2>1. p \in Seq(Keys)
      BY <1>2, SubSeqProperties
    <2>2. Len(p) = IF m <= n THEN n - m + 1 ELSE 0
      BY <1>2, SubSeqProperties
    <2>3. \A i \in 1..(n - m + 1) : p[i] = q[m + i - 1]
      BY <1>2, SubSeqProperties
    <2> QED
      BY <2>1, <2>2, <2>3
  <1> HIDE DEF p
  <1>5. Len(p) = n - d
    BY <1>1, <1>3, <1>4
  <1>6. ASSUME NEW j \in 1..(n - d) PROVE p[j] = q[d + j]
    <2>1. j \in 1..(n - m + 1) /\ m + j - 1 = d + j
      BY <1>1, <1>3
    <2> QED
      BY <1>4, <2>1
  <1> QED
    BY <1>3, <1>4, <1>5, <1>6 DEF m, n, p

\* put restores both caps before it gives up the lock; get only reorders.
LEMMA CapsNext == Inv /\ CapsHold /\ [Next]_vars => CapsHold'
  <1> SUFFICES ASSUME Inv, CapsHold, [Next]_vars PROVE CapsHold'
    OBVIOUS
  <1>0. /\ order \in Seq(Keys) /\ Distinct(order) /\ Len(order) \in Nat
        /\ MaxEntries \in Nat /\ MaxEntries >= 1
        /\ Len(order) <= MaxEntries
    <2>1. order \in Seq(Keys)
      BY DEF Inv, TypeOK
    <2>2. Len(order) \in Nat
      BY <2>1, LenProperties
    <2> QED
      BY <2>1, <2>2, CapsAssumption DEF CapsHold, Distinct
  <1>1. ASSUME NEW t \in Threads, Begin(t) \/ LookupAbsent(t) \/ Reject(t) \/ PlanOnly(t)
                                    \/ PlanFresh(t) \/ Leave(t)
        PROVE  CapsHold'
    BY <1>1 DEF Begin, LookupAbsent, Reject, PlanOnly, PlanFresh, Leave, cacheVars,
                CapsHold, Cached, At
  <1>2. ASSUME NEW t \in Threads, LookupPresent(t)
        PROVE  CapsHold'
    <2>1. Key(t) \in Keys
      BY <1>2, KeyType DEF LookupPresent, Inv, ThreadsOK, Key
    <2> DEFINE q == ToEnd(order, Key(t))
    <2>2. /\ Len(q) = Len(order)
          /\ Distinct(q)
          /\ \A x \in Keys : At(q, x) # {} <=> At(order, x) # {}
      <3>1. At(order, Key(t)) # {}
        BY <1>2 DEF LookupPresent, Cached
      <3>2. /\ Len(q) = Len(order)
            /\ Distinct(q)
            /\ \A x \in Keys : At(q, x) # {} <=> At(order, x) # {} \/ x = Key(t)
        BY <1>0, <2>1, <3>1, ToEndProperties, Zenon
      <3> HIDE DEF q
      <3> QED
        BY <3>1, <3>2
    <2>3. order' = q /\ buckets' = buckets
      BY <1>2 DEF LookupPresent
    <2> HIDE DEF q
    <2> QED
      BY <1>0, <2>2, <2>3 DEF CapsHold, Cached, Distinct
  <1>3. ASSUME NEW t \in Threads, Accept(t)
        PROVE  CapsHold'
    <2> DEFINE i == FirstValid(snapshot[t], asked[t])
               c == snapshot[t][i]
               b == buckets[Key(t)]
    <2>1. Key(t) \in Keys /\ snapshot[t] \in Seq(Sound(Key(t))) /\ b \in Seq(Sound(Key(t)))
      BY <1>3, KeyType DEF Accept, Inv, ThreadsOK, Key, SoundCache
    <2>2. c \in Sound(Key(t))
      <3>1. i \in 1..Len(snapshot[t])
        BY <1>3, <2>1, PositionTypes DEF Accept
      <3> QED
        BY <2>1, <3>1, ElementOfSeq
    <2>3. Hoisted(b, c) \in Seq(Sound(Key(t))) /\ Len(Hoisted(b, c)) = Len(b)
      BY <2>1, <2>2, BucketProperties
    <2>4. Hoisted(b, c) = <<>> <=> b = <<>>
      <3>1. \A s \in Seq(Sound(Key(t))) : s = <<>> <=> Len(s) = 0
        BY EmptySeq
      <3> QED
        BY <2>1, <2>3, <3>1
    <2>5. order' = order /\ buckets' = [buckets EXCEPT ![Key(t)] = Hoisted(b, c)]
      BY <1>3 DEF Accept
    <2>6. buckets \in [Keys -> Seq(Candidates)]
      BY DEF Inv, TypeOK
    <2> HIDE DEF c, i
    <2>7. ASSUME NEW k \in Keys
          PROVE  /\ buckets'[k] # <<>> <=> buckets[k] # <<>>
                 /\ Len(buckets'[k]) = Len(buckets[k])
      BY <2>1, <2>3, <2>4, <2>5, <2>6
    <2> QED
      BY <2>5, <2>7 DEF CapsHold, Cached
  <1>4. ASSUME NEW t \in Threads, Store(t)
        PROVE  CapsHold'
    <2> DEFINE k == Key(t)
               c == candidate[t]
               q == ToEnd(order, k)
               d == Overflow(q)
               kept == SubSeq(q, d + 1, Len(q))
               b == Trimmed(Prepended(buckets[k], c))
    <2>1. k \in Keys /\ c \in Sound(k) /\ buckets[k] \in Seq(Sound(k))
      BY <1>4, KeyType DEF Store, Inv, ThreadsOK, Key, SoundCache
    <2>2. b # <<>> /\ Len(b) <= MaxVariants
      BY <2>1, BucketProperties
    <2>3. /\ order' = kept
          /\ buckets' = [x \in Keys |-> IF x = k THEN b
                           ELSE IF At(kept, x) = {} THEN <<>> ELSE buckets[x]]
      BY <1>4 DEF Store, Put
    <2>4. /\ q \in Seq(Keys) /\ Len(q) >= 1 /\ q[Len(q)] = k /\ Distinct(q)
          /\ \A x \in Keys : At(q, x) # {} <=> At(order, x) # {} \/ x = k
      BY <1>0, <2>1, ToEndProperties, Zenon
    <2> HIDE DEF k, c, q, b
    <2>5. Len(q) \in Nat /\ DOMAIN q = 1..Len(q) /\ \A j \in 1..Len(q) : q[j] \in Keys
      BY <2>4, LenProperties, ElementOfSeq
    <2>6. d \in Nat /\ d < Len(q) /\ Len(q) - d <= MaxEntries
      BY <1>0, <2>4, <2>5 DEF Overflow
    <2> HIDE DEF d
    <2>7. /\ kept \in Seq(Keys)
          /\ Len(kept) = Len(q) - d
          /\ \A j \in 1..(Len(q) - d) : kept[j] = q[d + j]
      BY <2>4, <2>6, SuffixProperties
    <2> HIDE DEF kept
    <2>8. DOMAIN kept = 1..(Len(q) - d)
      BY <2>7, LenProperties
    <2>9. Len(kept) <= MaxEntries
      BY <2>6, <2>7
    <2>10. Distinct(kept)
      <3>1. ASSUME NEW i \in 1..(Len(q) - d), NEW j \in 1..(Len(q) - d), kept[i] = kept[j]
            PROVE  i = j
        <4>1. d + i \in 1..Len(q) /\ d + j \in 1..Len(q)
          BY <2>5, <2>6
        <4>2. q[d + i] = q[d + j]
          BY <2>7, <3>1
        <4>3. d + i = d + j
          BY <2>4, <2>5, <4>1, <4>2 DEF Distinct
        <4> QED
          BY <2>5, <2>6, <4>3
      <3> QED
        BY <2>8, <3>1 DEF Distinct
    <2>11. At(kept, k) # {}
      <3>1. Len(q) - d \in 1..(Len(q) - d) /\ d + (Len(q) - d) = Len(q)
        BY <2>5, <2>6
      <3>2. kept[Len(q) - d] = k
        BY <2>4, <2>7, <3>1
      <3> QED
        BY <2>8, <3>1, <3>2 DEF At
    <2>12. ASSUME NEW x \in Keys, x # k, At(kept, x) # {}
           PROVE  At(order, x) # {}
      <3>1. PICK j \in 1..(Len(q) - d) : kept[j] = x
        BY <2>8, <2>12 DEF At
      <3>2. d + j \in 1..Len(q) /\ q[d + j] = x
        BY <2>5, <2>6, <2>7, <3>1
      <3>3. At(q, x) # {}
        BY <2>5, <3>2 DEF At
      <3> QED
        BY <2>4, <2>12, <3>3
    <2>13. ASSUME NEW x \in Keys
           PROVE  /\ At(kept, x) # {} <=> buckets'[x] # <<>>
                  /\ Len(buckets'[x]) <= MaxVariants
      <3>1. CASE x = k
        BY <2>2, <2>3, <2>11, <3>1
      <3>2. CASE x # k /\ At(kept, x) = {}
        <4>1. buckets'[x] = <<>>
          BY <2>3, <3>2
        <4> QED
          BY <3>2, <4>1, CapsAssumption, EmptySeq
      <3>3. CASE x # k /\ At(kept, x) # {}
        <4>1. buckets'[x] = buckets[x]
          BY <2>3, <3>3
        <4>2. buckets[x] # <<>>
          BY <2>12, <3>3 DEF CapsHold, Cached
        <4> QED
          BY <3>3, <4>1, <4>2 DEF CapsHold
      <3> QED
        BY <3>1, <3>2, <3>3
    <2> QED
      BY <2>3, <2>9, <2>10, <2>13 DEF CapsHold, Cached, Distinct
  <1>5. CASE clear
    <2>1. order' = <<>> /\ buckets' = [k \in Keys |-> <<>>]
      BY <1>5 DEF clear
    <2>2. Len(<<>>) = 0 /\ DOMAIN <<>> = {}
      BY EmptySeq
    <2>3. \A k \in Keys : buckets'[k] = <<>> /\ At(order', k) = {}
      BY <2>1, <2>2 DEF At
    <2>4. Len(order') <= MaxEntries /\ \A k \in Keys : Len(buckets'[k]) <= MaxVariants
      BY <2>1, <2>2, <2>3, CapsAssumption
    <2> QED
      BY <2>1, <2>2, <2>3, <2>4 DEF CapsHold, Cached
  <1>6. CASE UNCHANGED vars
    BY <1>6 DEF vars, cacheVars, CapsHold, Cached, At
  <1> QED
    BY <1>1, <1>2, <1>3, <1>4, <1>5, <1>6 DEF Next, Step

LEMMA CapsInit == Init => CapsHold
  <1> SUFFICES ASSUME Init PROVE CapsHold
    OBVIOUS
  <1>1. order = <<>> /\ buckets = [k \in Keys |-> <<>>]
    BY DEF Init
  <1>2. Len(<<>>) = 0 /\ DOMAIN <<>> = {}
    BY EmptySeq
  <1>3. \A k \in Keys : buckets[k] = <<>> /\ At(order, k) = {}
    BY <1>1, <1>2 DEF At
  <1>4. Len(order) <= MaxEntries /\ \A k \in Keys : Len(buckets[k]) <= MaxVariants
    BY <1>1, <1>2, <1>3, CapsAssumption
  <1> QED
    BY <1>1, <1>2, <1>3, <1>4 DEF CapsHold, Cached

\* Neither cap is ever exceeded, and the LRU list and the buckets agree on the
\* keys, for any number of threads racing get, put and clear.
THEOREM CapsAreHeld == Spec => []CapsHold
  <1>1. Init => Inv /\ CapsHold
    BY InvInit, CapsInit
  <1>2. Inv /\ CapsHold /\ [Next]_vars => (Inv /\ CapsHold)'
    BY InvNext, CapsNext
  <1> QED
    BY <1>1, <1>2, PTL DEF Spec

-----------------------------------------------------------------------------
(* Constraint sets.                                                        *)

\* Comparing constraint tuples with == is an equivalence.
LEMMA SameConstraintsEquivalence ==
    /\ \A cs : SameConstraints(cs, cs)
    /\ \A cs, ds : SameConstraints(cs, ds) => SameConstraints(ds, cs)
    /\ \A cs, ds, es : SameConstraints(cs, ds) /\ SameConstraints(ds, es) => SameConstraints(cs, es)
  <1>1. /\ \A a : PyEq(a, a)
        /\ \A a, b : PyEq(a, b) => PyEq(b, a)
        /\ \A a, b, c : PyEq(a, b) /\ PyEq(b, c) => PyEq(a, c)
    BY DEF PyEq
  <1>2. /\ \A c : SameTuple(c, c)
        /\ \A c, d : SameTuple(c, d) => SameTuple(d, c)
        /\ \A c, d, e : SameTuple(c, d) /\ SameTuple(d, e) => SameTuple(c, e)
    BY <1>1 DEF SameTuple
  <1>3. ASSUME NEW cs, NEW ds, NEW es, SameConstraints(cs, ds), SameConstraints(ds, es)
        PROVE  SameConstraints(cs, es)
    <2>1. ASSUME NEW c \in cs PROVE \E e \in es : SameTuple(c, e)
      <3>1. PICK d \in ds : SameTuple(c, d)
        BY <1>3 DEF SameConstraints
      <3>2. PICK e \in es : SameTuple(d, e)
        BY <1>3 DEF SameConstraints
      <3> QED
        BY <1>2, <3>1, <3>2
    <2>2. ASSUME NEW e \in es PROVE \E c \in cs : SameTuple(c, e)
      <3>1. PICK d \in ds : SameTuple(d, e)
        BY <1>3 DEF SameConstraints
      <3>2. PICK c \in cs : SameTuple(c, d)
        BY <1>3 DEF SameConstraints
      <3> QED
        BY <1>2, <3>1, <3>2
    <2> QED
      BY <2>1, <2>2 DEF SameConstraints
  <1>4. /\ \A cs : SameConstraints(cs, cs)
        /\ \A cs, ds : SameConstraints(cs, ds) => SameConstraints(ds, cs)
    BY <1>2 DEF SameConstraints
  <1> QED
    BY <1>3, <1>4

\* A read that observes the same of two requests records the same constraints.
LEMMA RecordedAlike ==
    ASSUME NEW f \in Facts, NEW g \in Facts, NEW r \in Reads,
           ~Raises(r, f), ~Raises(r, g), Observed(r, g) = Observed(r, f)
    PROVE  Recorded(r, g) = Recorded(r, f)
  <1> DEFINE v == f[r.input]
             w == g[r.input]
  <1>1. /\ r.kind \in ReadKinds
        /\ v \in Values \cup {ABSENT} /\ w \in Values \cup {ABSENT}
    BY DEF Reads, Facts
  <1>2. /\ \A p, q \in BOOLEAN : BoolValue(p) = BoolValue(q) => p = q
        /\ \A p \in BOOLEAN : BoolValue(p) # ABSENT
    BY DEF BoolValue, ABSENT
  <1>3. \A x : values_equal(x, r.expected) \in BOOLEAN
    BY DEF values_equal
  <1>4. CASE r.kind \in {"item", "get"}
    BY <1>4 DEF Observed, Raises, Recorded
  <1>5. CASE r.kind = "has"
    BY <1>2, <1>5 DEF Observed, Raises, Recorded
  <1>6. CASE r.kind \in {"is", "customizer"}
    <2>1. values_equal(w, r.expected) = values_equal(v, r.expected)
      BY <1>2, <1>3, <1>6 DEF Observed, Raises
    <2> QED
      BY <1>6, <2>1 DEF Recorded
  <1>7. CASE r.kind = "argIs"
    <2>1. CASE v = ABSENT
      <3>1. w = ABSENT
        BY <1>2, <1>3, <1>7, <2>1 DEF Observed, Raises
      <3> QED
        BY <1>7, <2>1, <3>1 DEF Recorded
    <2>2. CASE v # ABSENT
      <3>1. w # ABSENT /\ BoolValue(values_equal(w, r.expected)) = BoolValue(values_equal(v, r.expected))
        BY <1>2, <1>3, <1>7, <2>2 DEF Observed, Raises
      <3>2. values_equal(w, r.expected) = values_equal(v, r.expected)
        BY <1>2, <1>3, <3>1
      <3> QED
        BY <1>7, <2>2, <3>1, <3>2 DEF Recorded
    <2> QED
      BY <2>1, <2>2
  <1>8. CASE r.kind = "keys"
    BY <1>8 DEF Observed, Raises, Recorded
  <1>9. CASE r.kind \in {"source", "bound", "baked"}
    BY <1>9 DEF Recorded
  <1> QED
    BY <1>1, <1>4, <1>5, <1>6, <1>7, <1>8, <1>9 DEF ReadKinds

\* Two requests of one document whose planning observes the same are stored
\* with the same constraints.
LEMMA ConstraintsAlike ==
    ASSUME NEW a \in Requests, NEW b \in Requests,
           b.document = a.document,
           \A f \in Selection[a.document] :
             FieldDef[f].guard # NoGuard => b.facts[FieldDef[f].guard] = a.facts[FieldDef[f].guard],
           Planned(b.document, b.facts) = Planned(a.document, a.facts),
           \A f \in Planned(a.document, a.facts) :
             /\ EffectiveReads(f, b.facts) = EffectiveReads(f, a.facts)
             /\ \A r \in EffectiveReads(f, a.facts) : Recorded(r, b.facts) = Recorded(r, a.facts)
    PROVE  AllConstraints(b) = AllConstraints(a)
  <1> DEFINE d == a.document
  <1>1. directive_variable_constraints(d, b.facts) = directive_variable_constraints(d, a.facts)
    BY DEF directive_variable_constraints
  <1>2. ASSUME NEW f \in Planned(d, a.facts)
        PROVE  UNION {Recorded(r, b.facts) : r \in EffectiveReads(f, b.facts)}
             = UNION {Recorded(r, a.facts) : r \in EffectiveReads(f, a.facts)}
    OBVIOUS
  <1>3. request_constraints(d, b.facts) = request_constraints(d, a.facts)
    BY <1>2 DEF request_constraints
  <1> QED
    BY <1>1, <1>3 DEF AllConstraints

\* Hence a variant that validates for a request holds the very constraints
\* that planning this request would record.
LEMMA MatchesAlike ==
    ASSUME NEW a \in Requests, NEW b \in Requests,
           compute_cache_key(a) = compute_cache_key(b),
           Pinned(a.document), Cacheable(a),
           ~PlanRaises(a.document, a.facts),
           constraints_match(AllConstraints(a), b.facts)
    PROVE  AllConstraints(b) = AllConstraints(a)
  <1>1. a.facts \in Facts /\ b.facts \in Facts /\ b.document = a.document
    BY DocumentsAssumption DEF compute_cache_key
  <1>2. \A f \in Planned(a.document, a.facts) : \A r \in EffectiveReads(f, a.facts) :
            Recorded(r, b.facts) = Recorded(r, a.facts)
    BY <1>1, MatchAgrees, RecordedAlike
  <1> QED
    BY <1>1, <1>2, MatchAgrees, ConstraintsAlike

-----------------------------------------------------------------------------
(* One variant per request.                                                *)

\* Candidates that put takes for the same variant.
Twins(c, d) == c.built.schema = d.built.schema /\ SameConstraints(constraints(c), constraints(d))

\* No two positions of a bucket hold the same variant.
Twinless(b) == \A i, j \in DOMAIN b : Twins(b[i], b[j]) => i = j

NoTwins == \A k \in Keys : Twinless(buckets[k])

LEMMA TwinsEquivalence ==
    /\ \A c : Twins(c, c)
    /\ \A c, d : Twins(c, d) => Twins(d, c)
    /\ \A c, d, e : Twins(c, d) /\ Twins(d, e) => Twins(c, e)
  BY SameConstraintsEquivalence DEF Twins

\* Removing a position of a bucket brings no twins together, and leaves none of
\* the removed candidate.
LEMMA TwinlessRemoveAt ==
    ASSUME NEW S, NEW s \in Seq(S), NEW i \in 1..Len(s), Twinless(s)
    PROVE  /\ Twinless(RemoveAt(s, i))
           /\ \A j \in DOMAIN RemoveAt(s, i) : ~Twins(s[i], RemoveAt(s, i)[j])
  <1> DEFINE p == RemoveAt(s, i)
             from(j) == IF j < i THEN j ELSE j + 1
  <1>1. Len(s) \in Nat /\ DOMAIN s = 1..Len(s)
    BY LenProperties
  <1>2. /\ p \in Seq(S)
        /\ Len(p) = Len(s) - 1
        /\ \A j \in 1..(Len(s) - 1) : p[j] = IF j < i THEN s[j] ELSE s[j + 1]
    BY RemoveAtProperties
  <1>3. DOMAIN p = 1..(Len(s) - 1)
    BY <1>2, LenProperties
  <1> HIDE DEF p
  <1>4. ASSUME NEW j \in 1..(Len(s) - 1)
        PROVE  from(j) \in 1..Len(s) /\ from(j) # i /\ p[j] = s[from(j)]
    <2>1. CASE j < i
      BY <1>1, <1>2, <2>1
    <2>2. CASE ~ (j < i)
      BY <1>1, <1>2, <2>2
    <2> QED
      BY <2>1, <2>2
  <1>5. \A j, m \in 1..(Len(s) - 1) : from(j) = from(m) => j = m
    BY <1>1
  <1> HIDE DEF from
  <1>6. Twinless(p)
    BY <1>1, <1>3, <1>4, <1>5 DEF Twinless
  <1>7. \A j \in DOMAIN p : ~Twins(s[i], p[j])
    BY <1>1, <1>3, <1>4 DEF Twinless
  <1> QED
    BY <1>6, <1>7 DEF p

\* Putting a candidate in front of a bucket that holds none of its twins.
LEMMA TwinlessCons ==
    ASSUME NEW S, NEW c \in S, NEW s \in Seq(S), Twinless(s),
           \A j \in DOMAIN s : ~Twins(c, s[j])
    PROVE  Twinless(<<c>> \o s)
  <1> DEFINE p == <<c>> \o s
  <1>1. Len(s) \in Nat /\ DOMAIN s = 1..Len(s)
    BY LenProperties
  <1>2. p \in Seq(S) /\ Len(p) = Len(s) + 1
    BY ConsProperties
  <1>3. DOMAIN p = 1..(Len(s) + 1)
    BY <1>2, LenProperties
  <1>4. p[1] = c /\ \A j \in 2..(Len(s) + 1) : p[j] = s[j - 1]
    <2>1. <<c>> \in Seq(S) /\ Len(<<c>>) = 1 /\ <<c>>[1] = c
      OBVIOUS
    <2>2. \A j \in 1..(Len(<<c>>) + Len(s)) :
            p[j] = IF j <= Len(<<c>>) THEN <<c>>[j] ELSE s[j - Len(<<c>>)]
      BY <2>1, ConcatProperties
    <2> HIDE DEF p
    <2> QED
      BY <1>1, <2>1, <2>2
  <1> HIDE DEF p
  <1>5. ASSUME NEW i \in DOMAIN p, NEW j \in DOMAIN p, Twins(p[i], p[j]) PROVE i = j
    <2>1. CASE i = 1 /\ j = 1
      BY <2>1
    <2>2. CASE i = 1 /\ j # 1
      BY <1>1, <1>3, <1>4, <1>5, <2>2
    <2>3. CASE i # 1 /\ j = 1
      BY <1>1, <1>3, <1>4, <1>5, <2>3, TwinsEquivalence
    <2>4. CASE i # 1 /\ j # 1
      <3>1. i - 1 \in DOMAIN s /\ j - 1 \in DOMAIN s /\ Twins(s[i - 1], s[j - 1])
        BY <1>1, <1>3, <1>4, <1>5, <2>4
      <3>2. i - 1 = j - 1
        BY <3>1 DEF Twinless
      <3> QED
        BY <1>1, <1>3, <3>2
    <2> QED
      BY <2>1, <2>2, <2>3, <2>4
  <1> QED
    BY <1>5 DEF Twinless, p

\* get's hoist keeps the variants of a bucket apart, and so does put, which
\* drops the one twin the new candidate may have and trims the end.
LEMMA TwinlessBucket ==
    ASSUME NEW S, NEW b \in Seq(S), NEW c \in S, Twinless(b)
    PROVE  /\ Twinless(Hoisted(b, c))
           /\ Twinless(Trimmed(Prepended(b, c)))
  <1>1. Len(b) \in Nat /\ DOMAIN b = 1..Len(b)
    BY LenProperties
  <1>2. ASSUME NEW i \in 1..Len(b), Twins(c, b[i])
        PROVE  Twinless(<<c>> \o RemoveAt(b, i))
    <2>1. RemoveAt(b, i) \in Seq(S)
      BY RemoveAtProperties
    <2>2. Twinless(RemoveAt(b, i)) /\ \A j \in DOMAIN RemoveAt(b, i) : ~Twins(b[i], RemoveAt(b, i)[j])
      BY TwinlessRemoveAt
    <2>3. \A j \in DOMAIN RemoveAt(b, i) : ~Twins(c, RemoveAt(b, i)[j])
      BY <1>2, <2>2, TwinsEquivalence
    <2> QED
      BY <2>1, <2>2, <2>3, TwinlessCons
  <1>3. Twinless(Hoisted(b, c))
    <2>1. CASE At(b, c) = {}
      BY <2>1 DEF Hoisted
    <2>2. CASE At(b, c) # {}
      <3> DEFINE i == CHOOSE j \in At(b, c) : TRUE
      <3>1. i \in 1..Len(b) /\ b[i] = c
        BY <1>1, <2>2 DEF At
      <3>2. Hoisted(b, c) = <<c>> \o RemoveAt(b, i)
        BY <2>2, Zenon DEF Hoisted
      <3> HIDE DEF i
      <3> QED
        BY <1>2, <3>1, <3>2, TwinsEquivalence
    <2> QED
      BY <2>1, <2>2
  <1>4. Prepended(b, c) \in Seq(S) /\ Twinless(Prepended(b, c))
    <2> DEFINE same == {i \in DOMAIN b : Twins(b[i], c)}
    <2>1. Replaced(b, c) = IF same = {} THEN 0 ELSE CHOOSE i \in same : \A j \in same : i <= j
      BY DEF Replaced, Twins
    <2>2. CASE same = {}
      <3>1. \A j \in DOMAIN b : ~Twins(c, b[j])
        BY <2>2, TwinsEquivalence
      <3>2. Prepended(b, c) = <<c>> \o b
        BY <2>1, <2>2 DEF Prepended
      <3> QED
        BY <3>1, <3>2, TwinlessCons, BucketProperties
    <2>3. CASE same # {}
      <3>1. same \subseteq Nat
        BY <1>1
      <3>2. Replaced(b, c) \in same
        <4> HIDE DEF same
        <4> QED
          BY <2>1, <2>3, <3>1, LeastExists
      <3>3. Replaced(b, c) \in 1..Len(b) /\ Replaced(b, c) # 0 /\ Twins(c, b[Replaced(b, c)])
        BY <1>1, <3>2, TwinsEquivalence
      <3>4. Prepended(b, c) = <<c>> \o RemoveAt(b, Replaced(b, c))
        BY <3>3 DEF Prepended
      <3> QED
        BY <1>2, <3>3, <3>4, BucketProperties
    <2> QED
      BY <2>2, <2>3
  <1>5. ASSUME NEW p \in Seq(S), Twinless(p) PROVE Twinless(Trimmed(p))
    <2>1. Len(p) \in Nat /\ DOMAIN p = 1..Len(p) /\ \A j \in 1..Len(p) : p[j] \in S
      BY LenProperties, ElementOfSeq
    <2>2. CASE Len(p) > MaxVariants
      <3> DEFINE q == SubSeq(p, 1, MaxVariants)
      <3>1. /\ q \in Seq(S)
            /\ Len(q) = MaxVariants
            /\ \A j \in 1..MaxVariants : q[j] = p[j]
        BY <2>1, <2>2, CapsAssumption, SubSeqProperties
      <3>2. DOMAIN q = 1..MaxVariants
        BY <3>1, LenProperties
      <3>3. Trimmed(p) = q
        BY <2>2 DEF Trimmed
      <3> HIDE DEF q
      <3> QED
        BY <1>5, <2>1, <2>2, <3>1, <3>2, <3>3, CapsAssumption DEF Twinless
    <2>3. CASE ~(Len(p) > MaxVariants)
      BY <1>5, <2>3 DEF Trimmed
    <2> QED
      BY <2>2, <2>3
  <1> QED
    BY <1>3, <1>4, <1>5

LEMMA NoTwinsNext == Inv /\ NoTwins /\ [Next]_vars => NoTwins'
  <1> SUFFICES ASSUME Inv, NoTwins, [Next]_vars PROVE NoTwins'
    OBVIOUS
  <1> USE DEF NoTwins
  <1>1. Twinless(<<>>)
    <2>1. DOMAIN <<>> = {}
      OBVIOUS
    <2> QED
      BY <2>1 DEF Twinless
  <1>2. buckets' = buckets => NoTwins'
    BY DEF Twinless
  <1>3. ASSUME NEW t \in Threads, Accept(t) PROVE NoTwins'
    <2> DEFINE c == snapshot[t][FirstValid(snapshot[t], asked[t])]
    <2>1. Key(t) \in Keys /\ c \in Sound(Key(t)) /\ buckets[Key(t)] \in Seq(Sound(Key(t)))
      <3>1. Key(t) \in Keys /\ snapshot[t] \in Seq(Sound(Key(t))) /\ buckets[Key(t)] \in Seq(Sound(Key(t)))
        BY <1>3, KeyType DEF Accept, Inv, ThreadsOK, Key, SoundCache
      <3>2. FirstValid(snapshot[t], asked[t]) \in 1..Len(snapshot[t])
        BY <1>3, <3>1, PositionTypes DEF Accept
      <3> QED
        BY <3>1, <3>2, ElementOfSeq
    <2>2. buckets' = [buckets EXCEPT ![Key(t)] = Hoisted(buckets[Key(t)], c)]
      BY <1>3 DEF Accept
    <2> HIDE DEF c
    <2>3. Twinless(Hoisted(buckets[Key(t)], c))
      BY <2>1, TwinlessBucket
    <2> QED
      BY <2>1, <2>2, <2>3 DEF Inv, TypeOK
  <1>4. ASSUME NEW t \in Threads, Store(t) PROVE NoTwins'
    <2>1. /\ Key(t) \in Keys /\ candidate[t] \in Sound(Key(t))
          /\ buckets[Key(t)] \in Seq(Sound(Key(t)))
      BY <1>4, KeyType DEF Store, Inv, ThreadsOK, Key, SoundCache
    <2>2. Twinless(Trimmed(Prepended(buckets[Key(t)], candidate[t])))
      BY <2>1, TwinlessBucket
    <2> QED
      BY <1>1, <1>4, <2>1, <2>2 DEF Store, Put
  <1>5. CASE clear
    BY <1>1, <1>5 DEF clear
  <1>6. ASSUME NEW t \in Threads, Begin(t) \/ LookupAbsent(t) \/ LookupPresent(t) \/ Reject(t)
                                    \/ PlanOnly(t) \/ PlanFresh(t) \/ Leave(t)
        PROVE  NoTwins'
    <2>1. buckets' = buckets
      BY <1>6 DEF Begin, LookupAbsent, LookupPresent, Reject, PlanOnly, PlanFresh, Leave, cacheVars
    <2> QED
      BY <1>2, <2>1
  <1>7. CASE UNCHANGED vars
    BY <1>2, <1>7 DEF vars, cacheVars
  <1> QED
    BY <1>3, <1>4, <1>5, <1>6, <1>7 DEF Next, Step

\* When every observation is pinned, no interleaving of get, put and clear
\* leaves two variants in a bucket that validate for one request: both would
\* hold that request's constraints, and put keeps one candidate per tuple.
THEOREM VariantsAreExclusive ==
    (\A d \in Documents : Pinned(d)) => (Spec => []OneVariantPerRequest)
  <1> SUFFICES ASSUME \A d \in Documents : Pinned(d)
               PROVE  Spec => []OneVariantPerRequest
    OBVIOUS
  <1>1. Init => Inv /\ NoTwins
    BY InvInit DEF Init, NoTwins, Twinless
  <1>2. Inv /\ NoTwins /\ [Next]_vars => (Inv /\ NoTwins)'
    BY InvNext, NoTwinsNext
  <1>3. Inv /\ NoTwins => OneVariantPerRequest
    <2> SUFFICES ASSUME Inv, NoTwins, NEW r \in Requests,
                        NEW i \in DOMAIN buckets[compute_cache_key(r)],
                        NEW j \in DOMAIN buckets[compute_cache_key(r)],
                        validate(buckets[compute_cache_key(r)][i], r),
                        validate(buckets[compute_cache_key(r)][j], r)
                 PROVE  i = j
      BY DEF OneVariantPerRequest
    <2> DEFINE k == compute_cache_key(r)
               b == buckets[k]
    <2>1. k \in Keys /\ b \in Seq(Sound(k))
      BY KeyType DEF Inv, SoundCache
    <2>2. b[i] \in Sound(k) /\ b[j] \in Sound(k)
      BY <2>1, LenProperties, ElementOfSeq
    <2>3. ASSUME NEW c \in Sound(k), validate(c, r)
          PROVE  constraints(c) = AllConstraints(r) /\ c.built.schema = r.schema
      <3>1. c.built \in Requests /\ compute_cache_key(c.built) = compute_cache_key(r)
            /\ Cacheable(c.built) /\ ~PlanRaises(c.built.document, c.built.facts)
        BY DEF Sound, Candidates
      <3>2. Pinned(c.built.document)
        BY <3>1, DocumentsAssumption
      <3>3. constraints_match(AllConstraints(c.built), r.facts) /\ c.built.schema = r.schema
        BY <2>3 DEF validate, constraints
      <3> QED
        BY <3>1, <3>2, <3>3, MatchesAlike DEF constraints
    <2>4. Twins(b[i], b[j])
      BY <2>2, <2>3, SameConstraintsEquivalence DEF Twins
    <2> QED
      BY <2>1, <2>4 DEF NoTwins, Twinless
  <1> QED
    BY <1>1, <1>2, <1>3, PTL DEF Spec

-----------------------------------------------------------------------------
(* What put's comparison of tuples identifies.                             *)

\* The values that planning a document may compare for input i: those its
\* requests provide and those its resolvers expect.
InputValues(document, i) ==
    {r.facts[i] : r \in {q \in Requests : q.document = document}}
        \cup {rd.expected : rd \in {x \in UNION {FieldDef[f].reads : f \in Selection[document]} : x.input = i}}

(***************************************************************************)
(* No input mixes values that Python's == takes for one although their     *)
(* types differ (True and 1): GraphQL's coercion pins each variable's type *)
(* per operation, and a host keeps a context entry to one type.            *)
(***************************************************************************)
Unconfused(document) ==
    \A i \in Inputs : \A a, b \in InputValues(document, i) : PyEq(a, b) => a = b

\* The forms of the constraints a request is stored with.
IsForm(c, r) ==
    \/ c = KeysConstraint(Provided(r.facts))
    \/ \E i \in Inputs :
         \/ c = ValueConstraint(i, r.facts[i])
         \/ c = ExistsConstraint(i, r.facts[i] # ABSENT)
         \/ \E e \in InputValues(r.document, i) :
              \/ c = EqualityConstraint(i, e, values_equal(r.facts[i], e))
              \/ c = CustomizerConstraint(i, e, values_equal(r.facts[i], e))

LEMMA ReadForms ==
    ASSUME NEW r \in Requests, NEW f \in Planned(r.document, r.facts),
           NEW rd \in EffectiveReads(f, r.facts), ~Raises(rd, r.facts)
    PROVE  rd \in Reads /\ \A c \in Recorded(rd, r.facts) : IsForm(c, r)
  <1>1. /\ Selection[r.document] \subseteq Fields
        /\ f \in Selection[r.document] /\ f \in Fields
        /\ FieldDef[f] \in FieldDefs
    BY DocumentsAssumption DEF Planned
  <1>2. FieldDef[f].args \subseteq Variables /\ FieldDef[f].reads \subseteq Reads
    BY <1>1 DEF FieldDefs
  <1>3. \/ rd \in FieldDef[f].reads
        \/ rd.kind = "get" /\ rd \in Reads
    <2>1. CASE FieldDef[f].legacy \/ ArgsError(f, r.facts)
      <3>1. PICK v \in FieldDef[f].args : rd = ArgRead(v)
        BY <2>1 DEF EffectiveReads
      <3> QED
        BY <1>2, <3>1, InputsAssumption DEF ArgRead, Reads, ReadKinds, Inputs
    <2>2. CASE ~(FieldDef[f].legacy \/ ArgsError(f, r.facts))
      BY <2>2 DEF EffectiveReads
    <2> QED
      BY <2>1, <2>2
  <1>4. rd \in Reads /\ rd.input \in Inputs /\ rd.kind \in ReadKinds
    BY <1>2, <1>3 DEF Reads
  <1>5. rd.kind \in {"is", "argIs", "customizer"} => rd.expected \in InputValues(r.document, rd.input)
    BY <1>1, <1>3 DEF InputValues
  <1> DEFINE v == r.facts[rd.input]
  <1>6. CASE rd.kind \in {"item", "get"}
    BY <1>4, <1>6 DEF Recorded, IsForm
  <1>7. CASE rd.kind = "has"
    BY <1>4, <1>7 DEF Recorded, IsForm
  <1>8. CASE rd.kind = "is"
    <2>1. v # ABSENT
      BY <1>8 DEF Raises
    <2>2. Recorded(rd, r.facts) =
            {ExistsConstraint(rd.input, v # ABSENT),
             EqualityConstraint(rd.input, rd.expected, values_equal(v, rd.expected))}
      BY <1>8, <2>1 DEF Recorded, ExistsConstraint
    <2> QED
      BY <1>4, <1>5, <1>8, <2>2 DEF IsForm
  <1>9. CASE rd.kind = "argIs"
    <2>1. Recorded(rd, r.facts) \subseteq
            {ExistsConstraint(rd.input, v # ABSENT),
             EqualityConstraint(rd.input, rd.expected, values_equal(v, rd.expected))}
      BY <1>9 DEF Recorded, ExistsConstraint
    <2> QED
      BY <1>4, <1>5, <1>9, <2>1 DEF IsForm
  <1>10. CASE rd.kind = "customizer"
    BY <1>4, <1>5, <1>10 DEF Recorded, IsForm
  <1>11. CASE rd.kind = "keys"
    BY <1>4, <1>11 DEF Recorded, IsForm
  <1>12. CASE rd.kind \in {"source", "bound", "baked"}
    BY <1>4, <1>12 DEF Recorded
  <1> QED
    BY <1>4, <1>6, <1>7, <1>8, <1>9, <1>10, <1>11, <1>12 DEF ReadKinds

LEMMA ConstraintForms ==
    ASSUME NEW r \in Requests, ~PlanRaises(r.document, r.facts), NEW c \in AllConstraints(r)
    PROVE  IsForm(c, r)
  <1>1. CASE c \in directive_variable_constraints(r.document, r.facts)
    <2>1. PICK f \in Selection[r.document] :
            FieldDef[f].guard # NoGuard /\ c = ValueConstraint(FieldDef[f].guard, r.facts[FieldDef[f].guard])
      BY <1>1 DEF directive_variable_constraints
    <2>2. FieldDef[f].guard \in Inputs
      BY <2>1, DocumentsAssumption DEF FieldDefs, Inputs
    <2> QED
      BY <2>1, <2>2 DEF IsForm
  <1>2. CASE c \in request_constraints(r.document, r.facts)
    <2>1. PICK f \in Planned(r.document, r.facts) : \E rd \in EffectiveReads(f, r.facts) : c \in Recorded(rd, r.facts)
      BY <1>2 DEF request_constraints
    <2> QED
      BY <2>1, ReadForms DEF PlanRaises
  <1> QED
    BY <1>1, <1>2 DEF AllConstraints

\* A plan validates for the request it was built for.
LEMMA SelfMatch ==
    ASSUME NEW r \in Requests, ~PlanRaises(r.document, r.facts)
    PROVE  constraints_match(AllConstraints(r), r.facts)
  <1> SUFFICES ASSUME NEW c \in AllConstraints(r) PROVE matches(c, r.facts)
    BY DEF constraints_match
  <1>1. IsForm(c, r)
    BY ConstraintForms
  <1>2. \A x : values_equal(x, x)
    BY DEF values_equal, PyEq
  <1>3. \A p \in BOOLEAN : (BoolValue(p) = BoolValue(TRUE)) = p
    BY DEF BoolValue
  <1>4. CASE c = KeysConstraint(Provided(r.facts))
    BY <1>4 DEF matches, KeysConstraint
  <1>5. ASSUME NEW i \in Inputs, c = ValueConstraint(i, r.facts[i])
        PROVE  matches(c, r.facts)
    BY <1>2, <1>5 DEF matches, ValueConstraint
  <1>6. ASSUME NEW i \in Inputs, c = ExistsConstraint(i, r.facts[i] # ABSENT)
        PROVE  matches(c, r.facts)
    BY <1>3, <1>6 DEF matches, ExistsConstraint
  <1>7. ASSUME NEW i \in Inputs, NEW e,
               \/ c = EqualityConstraint(i, e, values_equal(r.facts[i], e))
               \/ c = CustomizerConstraint(i, e, values_equal(r.facts[i], e))
        PROVE  matches(c, r.facts)
    <2>1. values_equal(r.facts[i], e) \in BOOLEAN
      BY DEF values_equal
    <2>2. /\ c.class \in {"equality", "customizer"} /\ c.input = i /\ c.value = e
          /\ (c.passed = "passed") = values_equal(r.facts[i], e)
      BY <1>7, <2>1 DEF EqualityConstraint, CustomizerConstraint
    <2> QED
      BY <2>2 DEF matches
  <1> QED
    BY <1>1, <1>4, <1>5, <1>6, <1>7 DEF IsForm

\* What partners in the other tuple tell about a constraint of each form.
LEMMA Partners ==
    ASSUME NEW a \in Requests, NEW b \in Requests, NEW d \in Documents,
           a.document = d, b.document = d, Unconfused(d),
           ~PlanRaises(d, a.facts), ~PlanRaises(d, b.facts),
           SameConstraints(AllConstraints(a), AllConstraints(b)),
           NEW i \in Inputs
    PROVE  /\ ValueConstraint(i, a.facts[i]) \in AllConstraints(a)
                /\ ValueConstraint(i, b.facts[i]) \in AllConstraints(b)
              => b.facts[i] = a.facts[i]
           /\ ExistsConstraint(i, a.facts[i] # ABSENT) \in AllConstraints(a)
                /\ ExistsConstraint(i, b.facts[i] # ABSENT) \in AllConstraints(b)
              => (b.facts[i] = ABSENT <=> a.facts[i] = ABSENT)
           /\ \A e \in InputValues(d, i) :
                \/ EqualityConstraint(i, e, values_equal(a.facts[i], e)) \in AllConstraints(a)
                \/ CustomizerConstraint(i, e, values_equal(a.facts[i], e)) \in AllConstraints(a)
                => values_equal(b.facts[i], e) = values_equal(a.facts[i], e)
           /\ KeysConstraint(Provided(a.facts)) \in AllConstraints(a) => Provided(b.facts) = Provided(a.facts)
  <1> DEFINE F == a.facts
             G == b.facts
  <1>1. F[i] \in InputValues(d, i) /\ G[i] \in InputValues(d, i)
    BY DEF InputValues
  <1>2. "variables" # i
    BY InputsAssumption
  <1>3. /\ \A x : values_equal(x, x)
        /\ \A x, y : values_equal(x, y) \in BOOLEAN
    BY DEF values_equal, PyEq
  <1>4. ASSUME NEW r \in {a, b}, NEW c \in AllConstraints(r), c.input = i
        PROVE  \/ c = ValueConstraint(i, r.facts[i])
               \/ c = ExistsConstraint(i, r.facts[i] # ABSENT)
               \/ \E e \in InputValues(d, i) :
                    \/ c = EqualityConstraint(i, e, values_equal(r.facts[i], e))
                    \/ c = CustomizerConstraint(i, e, values_equal(r.facts[i], e))
    <2>1. IsForm(c, r)
      BY ConstraintForms
    <2>2. c # KeysConstraint(Provided(r.facts))
      BY <1>2, <1>4 DEF KeysConstraint
    <2>3. \A j \in Inputs :
            /\ ValueConstraint(j, r.facts[j]).input = j
            /\ ExistsConstraint(j, r.facts[j] # ABSENT).input = j
            /\ \A e : /\ EqualityConstraint(j, e, values_equal(r.facts[j], e)).input = j
                      /\ CustomizerConstraint(j, e, values_equal(r.facts[j], e)).input = j
      BY DEF ValueConstraint, ExistsConstraint, EqualityConstraint, CustomizerConstraint
    <2>4. PICK j \in Inputs :
            \/ c = ValueConstraint(j, r.facts[j])
            \/ c = ExistsConstraint(j, r.facts[j] # ABSENT)
            \/ \E e \in InputValues(r.document, j) :
                 \/ c = EqualityConstraint(j, e, values_equal(r.facts[j], e))
                 \/ c = CustomizerConstraint(j, e, values_equal(r.facts[j], e))
      BY ONLY <2>1, <2>2 DEF IsForm
    <2>5. j = i
      BY ONLY <1>4, <2>3, <2>4
    <2>6. r.document = d
      BY <1>4
    <2> QED
      BY ONLY <2>4, <2>5, <2>6
  <1>5. ASSUME NEW r \in {a, b}, NEW c \in AllConstraints(r), c.input = i, c.passed = "none"
        PROVE  \/ c.value = r.facts[i]
               \/ c.value = BoolValue(TRUE) /\ r.facts[i] # ABSENT
               \/ c.value = BoolValue(FALSE) /\ r.facts[i] = ABSENT
    <2>1. \A e, p : /\ EqualityConstraint(i, e, p).passed # "none"
                    /\ CustomizerConstraint(i, e, p).passed # "none"
      BY DEF EqualityConstraint, CustomizerConstraint
    <2>2. \/ c = ValueConstraint(i, r.facts[i])
          \/ c = ExistsConstraint(i, r.facts[i] # ABSENT)
      BY <1>4, <1>5, <2>1
    <2>3. /\ r.facts[i] = ABSENT => BoolValue(r.facts[i] # ABSENT) = BoolValue(FALSE)
          /\ r.facts[i] # ABSENT => BoolValue(r.facts[i] # ABSENT) = BoolValue(TRUE)
      BY DEF BoolValue
    <2>4. c.value = r.facts[i] \/ c.value = BoolValue(r.facts[i] # ABSENT)
      BY <2>2 DEF ValueConstraint, ExistsConstraint
    <2> QED
      BY <2>3, <2>4
  <1>6. ASSUME NEW r \in {a, b}, NEW s \in {a, b}, s # r, NEW c \in AllConstraints(r), c.input = i, c.passed = "none"
        PROVE  \/ PyEq(c.value, s.facts[i])
               \/ PyEq(c.value, BoolValue(TRUE)) /\ s.facts[i] # ABSENT
               \/ PyEq(c.value, BoolValue(FALSE)) /\ s.facts[i] = ABSENT
    <2>0. SameConstraints(AllConstraints(r), AllConstraints(s))
      BY <1>6, SameConstraintsEquivalence
    <2>1. PICK e \in AllConstraints(s) : SameTuple(c, e)
      BY <2>0 DEF SameConstraints
    <2>2. e.input = i /\ e.passed = "none" /\ PyEq(c.value, e.value)
      BY <1>6, <2>1 DEF SameTuple
    <2> QED
      BY <1>5, <1>6, <2>2
  <1>7. /\ \A x, y : PyEq(x, y) => PyEq(y, x)
        /\ \A x, y, z : PyEq(x, y) /\ PyEq(y, z) => PyEq(x, z)
        /\ ~PyEq(ABSENT, BoolValue(TRUE)) /\ ~PyEq(ABSENT, BoolValue(FALSE))
        /\ ~PyEq(BoolValue(TRUE), BoolValue(FALSE))
        /\ ~PyEq(BoolValue(FALSE), BoolValue(TRUE))
    <2>1. \A x, y : PyEq(x, y) => PyEq(y, x)
      BY DEF PyEq
    <2>2. \A x, y, z : PyEq(x, y) /\ PyEq(y, z) => PyEq(x, z)
      BY DEF PyEq
    <2>3. /\ ~PyEq(ABSENT, BoolValue(TRUE)) /\ ~PyEq(ABSENT, BoolValue(FALSE))
          /\ ~PyEq(BoolValue(TRUE), BoolValue(FALSE))
          /\ ~PyEq(BoolValue(FALSE), BoolValue(TRUE))
      BY DEF PyEq, BoolValue, ABSENT
    <2> QED
      BY <2>1, <2>2, <2>3
  <1>8. CASE a = b
    BY <1>8
  <1>9. CASE a # b
    <2>1. ASSUME ValueConstraint(i, F[i]) \in AllConstraints(a), ValueConstraint(i, G[i]) \in AllConstraints(b)
          PROVE  G[i] = F[i]
      <3>1. \A x : ValueConstraint(i, x).input = i /\ ValueConstraint(i, x).passed = "none"
                      /\ ValueConstraint(i, x).value = x
        BY DEF ValueConstraint
      <3>2. \/ PyEq(F[i], G[i])
            \/ PyEq(F[i], BoolValue(TRUE)) /\ G[i] # ABSENT
            \/ PyEq(F[i], BoolValue(FALSE)) /\ G[i] = ABSENT
        BY <1>6, <1>9, <2>1, <3>1
      <3>3. \/ PyEq(G[i], F[i])
            \/ PyEq(G[i], BoolValue(TRUE)) /\ F[i] # ABSENT
            \/ PyEq(G[i], BoolValue(FALSE)) /\ F[i] = ABSENT
        BY <1>6, <1>9, <2>1, <3>1
      <3>4. PyEq(F[i], G[i])
        <4>1. CASE PyEq(F[i], BoolValue(TRUE)) /\ PyEq(G[i], BoolValue(TRUE))
          BY <1>7, <4>1
        <4>2. CASE F[i] = ABSENT \/ G[i] = ABSENT
          <5>1. F[i] = ABSENT => ~PyEq(F[i], BoolValue(TRUE)) /\ ~PyEq(F[i], BoolValue(FALSE))
            BY <1>7, Zenon
          <5>2. G[i] = ABSENT => ~PyEq(G[i], BoolValue(TRUE)) /\ ~PyEq(G[i], BoolValue(FALSE))
            BY <1>7, Zenon
          <5>3. PyEq(G[i], F[i]) => PyEq(F[i], G[i])
            BY <1>7, Zenon
          <5> QED
            BY <3>2, <3>3, <4>2, <5>1, <5>2, <5>3, Zenon
        <4>3. CASE PyEq(F[i], G[i]) \/ PyEq(G[i], F[i])
          BY <1>7, <4>3
        <4> QED
          BY <3>2, <3>3, <4>1, <4>2, <4>3
      <3> QED
        BY <1>1, <3>4 DEF Unconfused
    <2>2. ASSUME ExistsConstraint(i, F[i] # ABSENT) \in AllConstraints(a), ExistsConstraint(i, G[i] # ABSENT) \in AllConstraints(b)
          PROVE  G[i] = ABSENT <=> F[i] = ABSENT
      <3>1. \A x : ExistsConstraint(i, x).input = i /\ ExistsConstraint(i, x).passed = "none"
                      /\ ExistsConstraint(i, x).value = BoolValue(x)
        BY DEF ExistsConstraint
      <3>2. \/ PyEq(BoolValue(F[i] # ABSENT), G[i])
            \/ PyEq(BoolValue(F[i] # ABSENT), BoolValue(TRUE)) /\ G[i] # ABSENT
            \/ PyEq(BoolValue(F[i] # ABSENT), BoolValue(FALSE)) /\ G[i] = ABSENT
        BY <1>6, <1>9, <2>2, <3>1
      <3>3. \/ PyEq(BoolValue(G[i] # ABSENT), F[i])
            \/ PyEq(BoolValue(G[i] # ABSENT), BoolValue(TRUE)) /\ F[i] # ABSENT
            \/ PyEq(BoolValue(G[i] # ABSENT), BoolValue(FALSE)) /\ F[i] = ABSENT
        BY <1>6, <1>9, <2>2, <3>1
      <3>4. F[i] # ABSENT /\ G[i] = ABSENT => FALSE
        BY <1>7, <3>2
      <3>5. G[i] # ABSENT /\ F[i] = ABSENT => FALSE
        BY <1>7, <3>3
      <3> QED
        BY <3>4, <3>5
    <2>3. ASSUME NEW e \in InputValues(d, i), NEW c \in AllConstraints(a),
                 \/ c = EqualityConstraint(i, e, values_equal(F[i], e))
                 \/ c = CustomizerConstraint(i, e, values_equal(F[i], e))
          PROVE  values_equal(G[i], e) = values_equal(F[i], e)
      <3>1. /\ c.input = i /\ c.passed # "none" /\ c.value = e
            /\ (c.passed = "passed") = values_equal(F[i], e)
        BY <1>3, <2>3 DEF EqualityConstraint, CustomizerConstraint
      <3>2. PICK c2 \in AllConstraints(b) : SameTuple(c, c2)
        BY DEF SameConstraints
      <3>3. c2.input = i /\ c2.passed = c.passed /\ PyEq(c2.value, e)
        BY <1>7, <3>1, <3>2 DEF SameTuple
      <3>4. /\ ValueConstraint(i, G[i]).passed = "none"
            /\ ExistsConstraint(i, G[i] # ABSENT).passed = "none"
        BY DEF ValueConstraint, ExistsConstraint
      <3>5. PICK e2 \in InputValues(d, i) :
              \/ c2 = EqualityConstraint(i, e2, values_equal(G[i], e2))
              \/ c2 = CustomizerConstraint(i, e2, values_equal(G[i], e2))
        BY <1>4, <3>1, <3>3, <3>4
      <3>6. c2.value = e2 /\ (c2.passed = "passed") = values_equal(G[i], e2)
        BY <1>3, <3>5 DEF EqualityConstraint, CustomizerConstraint
      <3>7. e2 = e
        BY <3>3, <3>6 DEF Unconfused
      <3> QED
        BY <3>1, <3>3, <3>6, <3>7
    <2>4. ASSUME KeysConstraint(Provided(F)) \in AllConstraints(a)
          PROVE  Provided(G) = Provided(F)
      <3>1. PICK c \in AllConstraints(b) : SameTuple(KeysConstraint(Provided(F)), c)
        BY <2>4 DEF SameConstraints
      <3>2. c.input = "variables" /\ c.keys = Provided(F)
        BY <3>1 DEF SameTuple, KeysConstraint
      <3>3. IsForm(c, b)
        BY ConstraintForms
      <3>4. \A j \in Inputs : /\ \A x : ValueConstraint(j, x).input = j /\ ExistsConstraint(j, x).input = j
                              /\ \A x, y : EqualityConstraint(j, x, y).input = j /\ CustomizerConstraint(j, x, y).input = j
        BY DEF ValueConstraint, ExistsConstraint, EqualityConstraint, CustomizerConstraint
      <3>5. c = KeysConstraint(Provided(G))
        BY <3>2, <3>3, <3>4, InputsAssumption DEF IsForm
      <3> QED
        BY <3>2, <3>5 DEF KeysConstraint
    <2> QED
      BY <2>1, <2>2, <2>3, <2>4
  <1> QED
    BY <1>8, <1>9

(***************************************************************************)
(* put takes two candidates of a key for one variant only if they hold the *)
(* same constraints: neither the class that == ignores nor Python's        *)
(* True == 1 confuses two behaviours of a document that pins what it reads.*)
(***************************************************************************)
LEMMA TwinsAreEqual ==
    ASSUME NEW a \in Requests, NEW b \in Requests,
           compute_cache_key(a) = compute_cache_key(b),
           Pinned(a.document), Unconfused(a.document),
           ~PlanRaises(a.document, a.facts), ~PlanRaises(b.document, b.facts),
           SameConstraints(AllConstraints(a), AllConstraints(b))
    PROVE  AllConstraints(b) = AllConstraints(a)
  <1> DEFINE d == a.document
             F == a.facts
             G == b.facts
  <1>1. /\ b.document = d /\ d \in Documents
        /\ F \in Facts /\ G \in Facts
        /\ Selection[d] \subseteq Fields
        /\ \A f \in Fields : FieldDef[f] \in FieldDefs /\ FieldDef[f].required \subseteq FieldDef[f].args
    BY DocumentsAssumption DEF compute_cache_key
  <1>2. ASSUME NEW i \in Inputs,
               ValueConstraint(i, F[i]) \in AllConstraints(a),
               ValueConstraint(i, G[i]) \in AllConstraints(b)
        PROVE  G[i] = F[i]
    BY <1>1, <1>2, Partners
  <1>3. ASSUME NEW f \in Selection[d], FieldDef[f].guard # NoGuard
        PROVE  G[FieldDef[f].guard] = F[FieldDef[f].guard]
    <2>1. FieldDef[f].guard \in Inputs
      BY <1>1, <1>3 DEF FieldDefs, Inputs
    <2>2. /\ ValueConstraint(FieldDef[f].guard, F[FieldDef[f].guard]) \in AllConstraints(a)
          /\ ValueConstraint(FieldDef[f].guard, G[FieldDef[f].guard]) \in AllConstraints(b)
      BY <1>1, <1>3 DEF AllConstraints, directive_variable_constraints
    <2> QED
      BY <1>2, <2>1, <2>2
  <1>4. Planned(d, G) = Planned(d, F)
    BY <1>3 DEF Planned, Included
  <1>5. ASSUME NEW r \in {a, b}, NEW f \in Planned(d, F)
        PROVE  /\ \A rd \in EffectiveReads(f, r.facts) :
                    rd \in Reads /\ ~Raises(rd, r.facts) /\ Recorded(rd, r.facts) \subseteq AllConstraints(r)
               /\ \A v \in FieldDef[f].required :
                    v \in Inputs /\ ValueConstraint(v, r.facts[v]) \in AllConstraints(r)
    <2>1. /\ r \in Requests /\ r.document = d
          /\ f \in Planned(d, r.facts) /\ f \in Selection[d] /\ f \in Fields
          /\ ~PlanRaises(d, r.facts)
      BY <1>1, <1>4 DEF Planned
    <2>2. ASSUME NEW rd \in EffectiveReads(f, r.facts)
          PROVE  rd \in Reads /\ ~Raises(rd, r.facts) /\ Recorded(rd, r.facts) \subseteq AllConstraints(r)
      <3>1. ~Raises(rd, r.facts)
        BY <2>1 DEF PlanRaises
      <3>2. Recorded(rd, r.facts) \subseteq AllConstraints(r)
        BY <2>1 DEF AllConstraints, request_constraints
      <3> QED
        BY <2>1, <3>1, <3>2, ReadForms
    <2>3. ASSUME NEW v \in FieldDef[f].required
          PROVE  v \in Inputs /\ ValueConstraint(v, r.facts[v]) \in AllConstraints(r)
      <3>1. v \in FieldDef[f].args /\ v \in Inputs
        BY <1>1, <2>1 DEF FieldDefs, Inputs
      <3>2. PICK rd \in EffectiveReads(f, r.facts) : rd.kind = "get" /\ rd.input = v
        <4>1. CASE FieldDef[f].legacy \/ ArgsError(f, r.facts)
          <5>1. ArgRead(v) \in EffectiveReads(f, r.facts)
            BY <3>1, <4>1 DEF EffectiveReads
          <5> QED
            BY <5>1 DEF ArgRead
        <4>2. CASE ~(FieldDef[f].legacy \/ ArgsError(f, r.facts))
          <5>1. PICK rd \in FieldDef[f].reads : rd.kind = "get" /\ rd.input = v
            BY <2>1, <4>2 DEF Pinned
          <5>2. rd \in EffectiveReads(f, r.facts)
            BY <4>2 DEF EffectiveReads
          <5> QED
            BY <5>1, <5>2
        <4> QED
          BY <4>1, <4>2
      <3>3. ValueConstraint(v, r.facts[v]) \in Recorded(rd, r.facts)
        BY <3>2 DEF Recorded
      <3> QED
        BY <2>2, <3>1, <3>3
    <2> QED
      BY <2>2, <2>3
  <1>6. ASSUME NEW f \in Planned(d, F)
        PROVE  EffectiveReads(f, G) = EffectiveReads(f, F)
    <2>1. \A v \in FieldDef[f].required : G[v] = F[v]
      BY <1>2, <1>5
    <2> QED
      BY <2>1 DEF EffectiveReads, ArgsError
  <1>7. ASSUME NEW f \in Planned(d, F), NEW r \in EffectiveReads(f, F)
        PROVE  Recorded(r, G) = Recorded(r, F)
    <2>1. /\ r \in Reads /\ ~Raises(r, F) /\ ~Raises(r, G)
          /\ Recorded(r, F) \subseteq AllConstraints(a)
          /\ Recorded(r, G) \subseteq AllConstraints(b)
      BY <1>5, <1>6
    <2> DEFINE i == r.input
               e == r.expected
    <2>2. i \in Inputs /\ r.kind \in ReadKinds
      BY <2>1 DEF Reads
    <2>3. /\ ExistsConstraint(i, F[i] # ABSENT) \in AllConstraints(a)
               /\ ExistsConstraint(i, G[i] # ABSENT) \in AllConstraints(b)
             => (G[i] = ABSENT <=> F[i] = ABSENT)
          /\ \A x \in InputValues(d, i) :
               \/ EqualityConstraint(i, x, values_equal(F[i], x)) \in AllConstraints(a)
               \/ CustomizerConstraint(i, x, values_equal(F[i], x)) \in AllConstraints(a)
               => values_equal(G[i], x) = values_equal(F[i], x)
          /\ KeysConstraint(Provided(F)) \in AllConstraints(a) => Provided(G) = Provided(F)
      BY <1>1, <2>2, Partners
    <2>4. r.kind \in {"is", "argIs", "customizer"} => e \in InputValues(d, i)
      <3>1. r \in FieldDef[f].reads \/ r.kind = "get"
        BY DEF EffectiveReads, ArgRead
      <3>2. f \in Selection[d]
        BY DEF Planned
      <3> QED
        BY <2>1, <3>1, <3>2 DEF InputValues
    <2>5. CASE r.kind \in {"item", "get"}
      <3>1. ValueConstraint(i, F[i]) \in AllConstraints(a) /\ ValueConstraint(i, G[i]) \in AllConstraints(b)
        BY <2>1, <2>5 DEF Recorded
      <3>2. G[i] = F[i]
        BY <1>2, <2>2, <3>1
      <3> QED
        BY <2>5, <3>2 DEF Recorded
    <2>6. CASE r.kind = "has"
      <3>1. /\ ExistsConstraint(i, F[i] # ABSENT) \in AllConstraints(a)
            /\ ExistsConstraint(i, G[i] # ABSENT) \in AllConstraints(b)
        BY <2>1, <2>6 DEF Recorded
      <3>2. (G[i] # ABSENT) = (F[i] # ABSENT)
        BY <2>3, <3>1
      <3> QED
        BY <2>6, <3>2 DEF Recorded
    <2>7. CASE r.kind = "is"
      <3>1. EqualityConstraint(i, e, values_equal(F[i], e)) \in AllConstraints(a)
        BY <2>1, <2>7 DEF Recorded
      <3>2. values_equal(G[i], e) = values_equal(F[i], e)
        BY <2>3, <2>4, <2>7, <3>1
      <3> QED
        BY <2>7, <3>2 DEF Recorded
    <2>8. CASE r.kind = "argIs"
      <3>1. /\ ExistsConstraint(i, F[i] # ABSENT) \in AllConstraints(a)
            /\ ExistsConstraint(i, G[i] # ABSENT) \in AllConstraints(b)
        <4>1. ASSUME NEW c \in {a, b}, Recorded(r, c.facts) \subseteq AllConstraints(c)
              PROVE  ExistsConstraint(i, c.facts[i] # ABSENT) \in AllConstraints(c)
          <5>1. CASE c.facts[i] = ABSENT
            BY <2>8, <4>1, <5>1 DEF Recorded, ExistsConstraint
          <5>2. CASE c.facts[i] # ABSENT
            BY <2>8, <4>1, <5>2 DEF Recorded, ExistsConstraint
          <5> QED
            BY <5>1, <5>2
        <4> QED
          BY <2>1, <4>1
      <3>2. G[i] = ABSENT <=> F[i] = ABSENT
        BY <2>3, <3>1
      <3>3. CASE F[i] = ABSENT
        BY <2>8, <3>2, <3>3 DEF Recorded
      <3>4. CASE F[i] # ABSENT
        <4>1. EqualityConstraint(i, e, values_equal(F[i], e)) \in AllConstraints(a)
          BY <2>1, <2>8, <3>4 DEF Recorded
        <4>2. values_equal(G[i], e) = values_equal(F[i], e)
          BY <2>3, <2>4, <2>8, <4>1
        <4> QED
          BY <2>8, <3>2, <3>4, <4>2 DEF Recorded
      <3> QED
        BY <3>3, <3>4
    <2>9. CASE r.kind = "customizer"
      <3>1. CustomizerConstraint(i, e, values_equal(F[i], e)) \in AllConstraints(a)
        BY <2>1, <2>9 DEF Recorded
      <3>2. values_equal(G[i], e) = values_equal(F[i], e)
        BY <2>3, <2>4, <2>9, <3>1
      <3> QED
        BY <2>9, <3>2 DEF Recorded
    <2>10. CASE r.kind = "keys"
      <3>1. KeysConstraint(Provided(F)) \in AllConstraints(a)
        BY <2>1, <2>10 DEF Recorded
      <3> QED
        BY <2>3, <2>10, <3>1 DEF Recorded
    <2>11. CASE r.kind \in {"source", "bound", "baked"}
      BY <2>11 DEF Recorded
    <2> QED
      BY <2>2, <2>5, <2>6, <2>7, <2>8, <2>9, <2>10, <2>11 DEF ReadKinds
  <1> QED
    BY <1>1, <1>3, <1>4, <1>6, <1>7, ConstraintsAlike

-----------------------------------------------------------------------------
(* No variant is lost while nothing is evicted.                            *)

LEMMA ConsElements ==
    ASSUME NEW S, NEW c \in S, NEW s \in Seq(S)
    PROVE  /\ \E j \in DOMAIN Cons(c, s) : Cons(c, s)[j] = c
           /\ \A i \in DOMAIN s : \E j \in DOMAIN Cons(c, s) : Cons(c, s)[j] = s[i]
  <1> DEFINE p == <<c>> \o s
  <1>1. Len(s) \in Nat /\ DOMAIN s = 1..Len(s)
    BY LenProperties
  <1>2. <<c>> \in Seq(S) /\ Len(<<c>>) = 1 /\ <<c>>[1] = c
    OBVIOUS
  <1>3. /\ p \in Seq(S) /\ Len(p) = 1 + Len(s)
        /\ \A j \in 1..(1 + Len(s)) : p[j] = IF j <= 1 THEN <<c>>[j] ELSE s[j - 1]
    BY <1>2, ConcatProperties
  <1>4. DOMAIN p = 1..(1 + Len(s))
    BY <1>3, LenProperties
  <1> HIDE DEF p
  <1>5. 1 \in DOMAIN p /\ p[1] = c
    BY <1>1, <1>2, <1>3, <1>4
  <1>6. ASSUME NEW i \in DOMAIN s PROVE i + 1 \in DOMAIN p /\ p[i + 1] = s[i]
    BY <1>1, <1>3, <1>4
  <1>7. \A i \in DOMAIN s : \E j \in DOMAIN p : p[j] = s[i]
    BY <1>6
  <1> QED
    BY <1>5, <1>7 DEF p, Cons

LEMMA RemoveAtElements ==
    ASSUME NEW S, NEW s \in Seq(S), NEW i \in 1..Len(s), NEW m \in DOMAIN s, m # i
    PROVE  \E j \in DOMAIN RemoveAt(s, i) : RemoveAt(s, i)[j] = s[m]
  <1> DEFINE p == RemoveAt(s, i)
  <1>1. Len(s) \in Nat /\ DOMAIN s = 1..Len(s)
    BY LenProperties
  <1>2. /\ p \in Seq(S)
        /\ Len(p) = Len(s) - 1
        /\ \A j \in 1..(Len(s) - 1) : p[j] = IF j < i THEN s[j] ELSE s[j + 1]
    BY RemoveAtProperties
  <1>3. DOMAIN p = 1..(Len(s) - 1)
    BY <1>2, LenProperties
  <1> HIDE DEF p
  <1>4. ASSUME m < i PROVE \E j \in DOMAIN p : p[j] = s[m]
    BY <1>1, <1>2, <1>3, <1>4
  <1>5. ASSUME m > i PROVE \E j \in DOMAIN p : p[j] = s[m]
    <2>1. m - 1 \in 1..(Len(s) - 1) /\ ~(m - 1 < i) /\ (m - 1) + 1 = m
      BY <1>1, <1>5
    <2> QED
      BY <1>2, <1>3, <2>1
  <1>6. \E j \in DOMAIN p : p[j] = s[m]
    BY <1>1, <1>4, <1>5
  <1> QED
    BY <1>6 DEF p

\* The hoist loses no candidate; put replaces at most a twin of the new one.
LEMMA BucketElements ==
    ASSUME NEW S, NEW b \in Seq(S), NEW c \in S, NEW i \in DOMAIN b
    PROVE  /\ \E j \in DOMAIN Hoisted(b, c) : Hoisted(b, c)[j] = b[i]
           /\ \E j \in DOMAIN Prepended(b, c) : Prepended(b, c)[j] = c
           /\ \/ Twins(b[i], c)
              \/ \E j \in DOMAIN Prepended(b, c) : Prepended(b, c)[j] = b[i]
  <1>1. Len(b) \in Nat /\ DOMAIN b = 1..Len(b)
    BY LenProperties
  <1>2. ASSUME NEW m \in 1..Len(b)
        PROVE  /\ \E j \in DOMAIN Cons(c, RemoveAt(b, m)) : Cons(c, RemoveAt(b, m))[j] = c
               /\ i # m => \E j \in DOMAIN Cons(c, RemoveAt(b, m)) : Cons(c, RemoveAt(b, m))[j] = b[i]
    <2>1. RemoveAt(b, m) \in Seq(S)
      BY RemoveAtProperties
    <2>2. i # m => \E j \in DOMAIN RemoveAt(b, m) : RemoveAt(b, m)[j] = b[i]
      BY RemoveAtElements
    <2> QED
      BY <2>1, <2>2, ConsElements
  <1>3. \E j \in DOMAIN Hoisted(b, c) : Hoisted(b, c)[j] = b[i]
    <2>1. CASE At(b, c) = {}
      BY <2>1 DEF Hoisted
    <2>2. CASE At(b, c) # {}
      <3> DEFINE m == CHOOSE j \in At(b, c) : TRUE
      <3>1. m \in 1..Len(b) /\ b[m] = c
        BY <1>1, <2>2 DEF At
      <3>2. Hoisted(b, c) = Cons(c, RemoveAt(b, m))
        BY <2>2, Zenon DEF Hoisted, Cons
      <3> HIDE DEF m
      <3> QED
        BY <1>2, <3>1, <3>2
    <2> QED
      BY <2>1, <2>2
  <1>4. /\ \E j \in DOMAIN Prepended(b, c) : Prepended(b, c)[j] = c
        /\ \/ Twins(b[i], c)
           \/ \E j \in DOMAIN Prepended(b, c) : Prepended(b, c)[j] = b[i]
    <2> DEFINE same == {m \in DOMAIN b : Twins(b[m], c)}
    <2>1. Replaced(b, c) = IF same = {} THEN 0 ELSE CHOOSE m \in same : \A j \in same : m <= j
      BY DEF Replaced, Twins
    <2>2. CASE same = {}
      <3>1. Prepended(b, c) = Cons(c, b)
        BY <2>1, <2>2 DEF Prepended, Cons
      <3> QED
        BY <3>1, ConsElements
    <2>3. CASE same # {}
      <3>1. Replaced(b, c) \in same
        <4>1. same \subseteq Nat
          BY <1>1
        <4> HIDE DEF same
        <4> QED
          BY <2>1, <2>3, <4>1, LeastExists
      <3>2. Replaced(b, c) \in 1..Len(b) /\ Replaced(b, c) # 0 /\ Twins(b[Replaced(b, c)], c)
        BY <1>1, <3>1
      <3>3. Prepended(b, c) = Cons(c, RemoveAt(b, Replaced(b, c)))
        BY <3>2 DEF Prepended, Cons
      <3> QED
        BY <1>2, <3>2, <3>3
    <2> QED
      BY <2>2, <2>3
  <1> QED
    BY <1>3, <1>4

\* Every stored request still finds a variant.
Kept == evictions = 0 => \A r \in stored : \E i \in DOMAIN buckets[compute_cache_key(r)] :
                            validate(buckets[compute_cache_key(r)][i], r)

LEMMA StoreKeeps ==
    ASSUME \A d \in Documents : Pinned(d) /\ Unconfused(d),
           Inv, CapsHold, Kept, NEW t \in Threads, Store(t)
    PROVE  Kept'
  <1> SUFFICES ASSUME evictions' = 0, NEW r \in stored'
               PROVE  \E i \in DOMAIN buckets'[compute_cache_key(r)] :
                        validate(buckets'[compute_cache_key(r)][i], r)
    BY DEF Kept, validate, constraints
  <1> DEFINE k == Key(t)
             c == candidate[t]
             b == buckets[k]
             q == ToEnd(order, k)
             kept == SubSeq(q, Overflow(q) + 1, Len(q))
             key == compute_cache_key(r)
  <1>1. /\ asked[t] \in Requests /\ k \in Keys
        /\ c \in Sound(k) /\ c.built = asked[t] /\ b \in Seq(Sound(k))
        /\ stored' = stored \cup {asked[t]} /\ stored \subseteq Requests
        /\ order \in Seq(Keys) /\ evictions \in Nat /\ Distinct(order)
    BY KeyType DEF Store, Inv, TypeOK, ThreadsOK, SoundCache, Key, CapsHold, Distinct
  <1>2. /\ buckets' = [x \in Keys |-> IF x = k THEN Trimmed(Prepended(b, c))
                        ELSE IF At(kept, x) = {} THEN <<>> ELSE buckets[x]]
        /\ evictions' = evictions + Overflow(q) + (IF Len(Prepended(b, c)) > MaxVariants THEN 1 ELSE 0)
    BY DEF Store, Put
  <1>3. /\ q \in Seq(Keys)
        /\ \A x \in Keys : At(q, x) # {} <=> At(order, x) # {} \/ x = k
    BY <1>1, ToEndProperties, Zenon
  <1>4. Overflow(q) \in Nat
    BY <1>1, PutOrderType
  <1>5. r \in Requests /\ key \in Keys
    BY <1>1, KeyType
  <1> HIDE DEF k, c, b, q, kept
  <1>6. evictions = 0 /\ Overflow(q) = 0 /\ ~(Len(Prepended(b, c)) > MaxVariants)
    BY <1>1, <1>2, <1>4
  <1>7. Trimmed(Prepended(b, c)) = Prepended(b, c)
    BY <1>6 DEF Trimmed
  <1>8. kept = q
    <2>1. Len(q) \in Nat /\ \A j \in 1..Len(q) : q[j] \in Keys
      BY <1>3, LenProperties, ElementOfSeq
    <2>2. CASE Len(q) = 0
      <3>1. q = <<>>
        BY <1>3, <2>2, EmptySeq
      <3>2. kept \in Seq(Keys) /\ Len(kept) = 0
        BY <1>6, <2>1, <2>2, SubSeqProperties DEF kept
      <3> QED
        BY <3>1, <3>2, EmptySeq
    <2>3. CASE Len(q) > 0
      <3>1. /\ kept \in Seq(Keys)
            /\ Len(kept) = Len(q) - 0
            /\ \A j \in 1..(Len(q) - 0) : kept[j] = q[0 + j]
        <4>1. 0 \in Nat /\ 0 < Len(q)
          BY <2>3
        <4> QED
          BY <1>3, <1>6, <4>1, SuffixProperties DEF kept
      <3>2. Len(kept) = Len(q) /\ \A j \in 1..Len(q) : kept[j] = q[j]
        BY <2>1, <3>1
      <3> QED
        BY <1>3, <3>1, <3>2, SeqEqual
    <2> QED
      BY <2>1, <2>2, <2>3
  <1>9. c.built = r => validate(c, r)
    <2>1. ~PlanRaises(c.built.document, c.built.facts)
      BY <1>1 DEF Sound
    <2> QED
      BY <1>5, <2>1, SelfMatch DEF validate, constraints
  <1>10. Prepended(b, c) \in Seq(Sound(k)) /\ \E j \in DOMAIN Prepended(b, c) : Prepended(b, c)[j] = c
    <2>1. Prepended(b, c) \in Seq(Sound(k))
      BY <1>1, BucketProperties
    <2>2. CASE b = <<>>
      <3>1. DOMAIN b = {}
        BY <2>2
      <3>2. Replaced(b, c) = 0
        BY <3>1 DEF Replaced
      <3>3. Prepended(b, c) = Cons(c, b)
        BY <3>2 DEF Prepended, Cons
      <3> QED
        BY <1>1, <2>1, <3>3, ConsElements
    <2>3. CASE b # <<>>
      <3>1. 1 \in DOMAIN b
        BY <1>1, <2>3, EmptySeq, LenProperties
      <3> QED
        BY <1>1, <2>1, <3>1, BucketElements
    <2> QED
      BY <2>2, <2>3
  <1>11. CASE r = asked[t]
    <2>1. key = k
      BY <1>11 DEF k, Key
    <2> QED
      BY <1>1, <1>2, <1>5, <1>7, <1>9, <1>10, <1>11, <2>1
  <1>12. CASE r # asked[t]
    <2>1. r \in stored
      BY <1>1, <1>12
    <2>2. PICK i \in DOMAIN buckets[key] : validate(buckets[key][i], r)
      BY <1>6, <2>1 DEF Kept
    <2>3. CASE key = k
      <3>1. i \in DOMAIN b /\ validate(b[i], r)
        BY <2>2, <2>3 DEF b
      <3>2. b[i] \in Sound(k)
        BY <1>1, <3>1, ElementOfSeq, LenProperties
      <3>3. CASE \E j \in DOMAIN Prepended(b, c) : Prepended(b, c)[j] = b[i]
        BY <1>2, <1>5, <1>7, <2>3, <3>1, <3>3
      <3>4. CASE Twins(b[i], c)
        <4>1. /\ b[i].built \in Requests /\ c.built \in Requests
              /\ compute_cache_key(b[i].built) = k /\ compute_cache_key(c.built) = k
              /\ ~PlanRaises(b[i].built.document, b[i].built.facts)
              /\ ~PlanRaises(c.built.document, c.built.facts)
          BY <1>1, <3>2 DEF Sound, Candidates
        <4>2. b[i].built.document \in Documents
          BY <4>1, DocumentsAssumption
        <4>3. SameConstraints(AllConstraints(b[i].built), AllConstraints(c.built))
              /\ b[i].built.schema = c.built.schema
          BY <3>4 DEF Twins, constraints
        <4>4. AllConstraints(c.built) = AllConstraints(b[i].built)
          BY <4>1, <4>2, <4>3, TwinsAreEqual
        <4>5. validate(c, r)
          BY <3>1, <4>3, <4>4 DEF validate, constraints
        <4> QED
          BY <1>2, <1>5, <1>7, <1>10, <2>3, <4>5
      <3> QED
        BY <1>1, <3>1, <3>3, <3>4, BucketElements
    <2>4. CASE key # k
      <3>1. buckets[key] # <<>>
        <4>1. DOMAIN <<>> = {}
          OBVIOUS
        <4> QED
          BY <2>2, <4>1
      <3>2. At(kept, key) # {}
        BY <1>3, <1>5, <1>8, <3>1 DEF CapsHold, Cached
      <3>3. buckets'[key] = buckets[key]
        BY <1>2, <1>5, <2>4, <3>2
      <3> QED
        BY <2>2, <3>3
    <2> QED
      BY <2>3, <2>4
  <1> QED
    BY <1>11, <1>12

LEMMA KeptNext ==
    ASSUME \A d \in Documents : Pinned(d) /\ Unconfused(d),
           Inv, CapsHold, Kept, [Next]_vars
    PROVE  Kept'
  <1>1. ASSUME NEW t \in Threads, Accept(t) PROVE Kept'
    <2> DEFINE c == snapshot[t][FirstValid(snapshot[t], asked[t])]
    <2>1. Key(t) \in Keys /\ c \in Sound(Key(t)) /\ buckets[Key(t)] \in Seq(Sound(Key(t)))
      <3>1. Key(t) \in Keys /\ snapshot[t] \in Seq(Sound(Key(t))) /\ buckets[Key(t)] \in Seq(Sound(Key(t)))
        BY <1>1, KeyType DEF Accept, Inv, ThreadsOK, Key, SoundCache
      <3>2. FirstValid(snapshot[t], asked[t]) \in 1..Len(snapshot[t])
        BY <1>1, <3>1, PositionTypes DEF Accept
      <3> QED
        BY <3>1, <3>2, ElementOfSeq
    <2>2. buckets' = [buckets EXCEPT ![Key(t)] = Hoisted(buckets[Key(t)], c)]
          /\ stored' = stored /\ evictions' = evictions
      BY <1>1 DEF Accept
    <2>3. stored \subseteq Requests /\ buckets \in [Keys -> Seq(Candidates)]
      BY DEF Inv, TypeOK
    <2> HIDE DEF c
    <2> SUFFICES ASSUME evictions' = 0, NEW r \in stored'
                 PROVE  \E i \in DOMAIN buckets'[compute_cache_key(r)] :
                          validate(buckets'[compute_cache_key(r)][i], r)
      BY DEF Kept, validate, constraints
    <2>4. PICK i \in DOMAIN buckets[compute_cache_key(r)] : validate(buckets[compute_cache_key(r)][i], r)
      BY <2>2 DEF Kept
    <2>5. compute_cache_key(r) \in Keys
      BY <2>2, <2>3, KeyType
    <2>6. \E j \in DOMAIN buckets'[compute_cache_key(r)] :
            buckets'[compute_cache_key(r)][j] = buckets[compute_cache_key(r)][i]
      <3>1. CASE compute_cache_key(r) = Key(t)
        <4>1. \E j \in DOMAIN Hoisted(buckets[Key(t)], c) :
                Hoisted(buckets[Key(t)], c)[j] = buckets[Key(t)][i]
          BY <2>1, <2>4, <3>1, BucketElements
        <4>2. buckets'[Key(t)] = Hoisted(buckets[Key(t)], c)
          BY <2>1, <2>2, <2>3
        <4> QED
          BY <3>1, <4>1, <4>2
      <3>2. CASE compute_cache_key(r) # Key(t)
        BY <2>2, <2>3, <2>4, <2>5, <3>2
      <3> QED
        BY <3>1, <3>2
    <2> QED
      BY <2>4, <2>6
  <1>2. ASSUME NEW t \in Threads, Store(t) PROVE Kept'
    BY <1>2, StoreKeeps
  <1>3. CASE clear
    BY <1>3 DEF clear, Kept
  <1>4. ASSUME buckets' = buckets, stored' = stored, evictions' = evictions PROVE Kept'
    BY <1>4 DEF Kept, validate, constraints
  <1>5. ASSUME NEW t \in Threads, Begin(t) \/ LookupAbsent(t) \/ LookupPresent(t) \/ Reject(t)
                                    \/ PlanOnly(t) \/ PlanFresh(t) \/ Leave(t)
        PROVE  Kept'
    <2>1. buckets' = buckets /\ stored' = stored /\ evictions' = evictions
      BY <1>5 DEF Begin, LookupAbsent, LookupPresent, Reject, PlanOnly, PlanFresh, Leave, cacheVars
    <2> QED
      BY <1>4, <2>1
  <1>6. CASE UNCHANGED vars
    BY <1>4, <1>6 DEF vars, cacheVars
  <1> QED
    BY <1>1, <1>2, <1>3, <1>5, <1>6 DEF Next, Step

\* While nothing has been evicted, whichever threads race, every request whose
\* plan was put since the last clear still finds a variant that serves it: put
\* replaces only a variant of the same behaviour.
THEOREM NoVariantIsLost ==
    (\A d \in Documents : Pinned(d) /\ Unconfused(d)) => (Spec => []StoredStaysServed)
  <1> SUFFICES ASSUME \A d \in Documents : Pinned(d) /\ Unconfused(d)
               PROVE  Spec => []StoredStaysServed
    OBVIOUS
  <1>1. Init => Inv /\ Kept /\ CapsHold
    BY InvInit, CapsInit DEF Init, Kept
  <1>2. Inv /\ CapsHold /\ Kept /\ [Next]_vars => (Inv /\ CapsHold /\ Kept)'
    BY InvNext, CapsNext, KeptNext
  <1>3. Kept => StoredStaysServed
    BY DEF Kept, StoredStaysServed
  <1> QED
    BY <1>1, <1>2, <1>3, PTL DEF Spec

-----------------------------------------------------------------------------
(* What eviction drops.                                                    *)

\* Touching key k keeps the order of the other keys.
LEMMA ToEndOrder ==
    ASSUME NEW s \in Seq(Keys), NEW k \in Keys,
           NEW i \in 1..Len(s), NEW j \in 1..Len(s), i < j, s[i] # k, s[j] # k
    PROVE  \E m, n \in 1..Len(ToEnd(s, k)) : m < n /\ ToEnd(s, k)[m] = s[i] /\ ToEnd(s, k)[n] = s[j]
  <1> DEFINE q == ToEnd(s, k)
  <1>1. Len(s) \in Nat /\ DOMAIN s = 1..Len(s)
    BY LenProperties
  <1>2. CASE At(s, k) = {}
    <2>1. q = Append(s, k)
      BY <1>2 DEF ToEnd
    <2>2. Len(q) = Len(s) + 1 /\ \A x \in 1..Len(s) : q[x] = s[x]
      BY <2>1, AppendProperties
    <2> HIDE DEF q
    <2>3. i \in 1..Len(q) /\ j \in 1..Len(q) /\ q[i] = s[i] /\ q[j] = s[j]
      BY <1>1, <2>2
    <2> QED
      BY <2>3 DEF q
  <1>3. CASE At(s, k) # {}
    <2> DEFINE x == CHOOSE y \in At(s, k) : TRUE
               p == RemoveAt(s, x)
               to(y) == IF y < x THEN y ELSE y - 1
    <2>1. x \in 1..Len(s) /\ s[x] = k
      BY <1>1, <1>3 DEF At
    <2>2. q = Append(p, k)
      BY <1>3, Zenon DEF ToEnd
    <2> HIDE DEF x
    <2>3. /\ p \in Seq(Keys)
          /\ Len(p) = Len(s) - 1
          /\ \A y \in 1..(Len(s) - 1) : p[y] = IF y < x THEN s[y] ELSE s[y + 1]
      BY <2>1, RemoveAtProperties
    <2> HIDE DEF p
    <2> HIDE DEF q
    <2>a. Len(q) = Len(p) + 1 /\ \A y \in 1..Len(p) : q[y] = p[y]
      BY <2>2, <2>3, AppendProperties
    <2>4. Len(q) = Len(s) /\ \A y \in 1..(Len(s) - 1) : q[y] = p[y]
      BY <1>1, <2>3, <2>a
    <2>5. ASSUME NEW y \in 1..Len(s), y # x
          PROVE  to(y) \in 1..(Len(s) - 1) /\ q[to(y)] = s[y]
      <3>1. CASE y < x
        BY <1>1, <2>1, <2>3, <2>4, <3>1
      <3>2. CASE y > x
        <4>1. to(y) = y - 1 /\ y - 1 \in 1..(Len(s) - 1) /\ ~(y - 1 < x) /\ (y - 1) + 1 = y
          BY <1>1, <2>1, <3>2
        <4>2. p[y - 1] = s[y]
          BY <2>3, <4>1
        <4> QED
          BY <2>4, <4>1, <4>2
      <3> QED
        BY <1>1, <2>1, <2>5, <3>1, <3>2
    <2>6. i # x /\ j # x
      BY <2>1
    <2>7. to(i) < to(j)
      BY <1>1, <2>1, <2>6
    <2>8. to(i) \in 1..Len(q) /\ to(j) \in 1..Len(q) /\ q[to(i)] = s[i] /\ q[to(j)] = s[j]
      BY <1>1, <2>4, <2>5, <2>6
    <2> HIDE DEF to
    <2> QED
      BY <2>7, <2>8 DEF q
  <1> QED
    BY <1>2, <1>3

\* put drops the least recently used keys, never the one it stores.
LEMMA StoreEvicts ==
    ASSUME Inv, CapsHold, NEW t \in Threads, Store(t),
           NEW k \in Keys, Cached(k), At(order', k) = {},
           NEW i \in DOMAIN order, NEW j \in At(order, k), i < j, order[i] # Key(t)
    PROVE  At(order', order[i]) = {}
  <1> DEFINE q == ToEnd(order, Key(t))
             d == Overflow(q)
             kept == SubSeq(q, d + 1, Len(q))
  <1>1. /\ order \in Seq(Keys) /\ Distinct(order) /\ Key(t) \in Keys
        /\ i \in 1..Len(order) /\ j \in 1..Len(order) /\ order[j] = k
    <2>1. order \in Seq(Keys) /\ Key(t) \in Keys
      BY KeyType DEF Inv, TypeOK, Store, ThreadsOK, Key
    <2>2. DOMAIN order = 1..Len(order)
      BY <2>1, LenProperties
    <2> QED
      BY <2>1, <2>2 DEF CapsHold, Distinct, At
  <1>2. order' = kept
    BY DEF Store, Put
  <1>3. q \in Seq(Keys) /\ Len(q) >= 1 /\ q[Len(q)] = Key(t) /\ Distinct(q)
    BY <1>1, ToEndProperties, Zenon
  <1>4. ASSUME k # Key(t)
        PROVE  \E m, n \in 1..Len(q) : m < n /\ q[m] = order[i] /\ q[n] = k
    <2>1. order[j] # Key(t)
      BY <1>1, <1>4
    <2>2. \E m, n \in 1..Len(q) : m < n /\ q[m] = order[i] /\ q[n] = order[j]
      BY <1>1, <2>1, ToEndOrder
    <2> QED
      BY <1>1, <2>2
  <1> HIDE DEF q
  <1>5. Len(q) \in Nat /\ DOMAIN q = 1..Len(q)
    BY <1>3, LenProperties
  <1>6. d \in Nat /\ d < Len(q)
    BY <1>3, <1>5, CapsAssumption DEF Overflow
  <1> HIDE DEF d
  <1>7. /\ kept \in Seq(Keys)
        /\ Len(kept) = Len(q) - d
        /\ \A y \in 1..(Len(q) - d) : kept[y] = q[d + y]
    BY <1>3, <1>6, SuffixProperties
  <1> HIDE DEF kept
  <1>8. DOMAIN kept = 1..(Len(q) - d)
    BY <1>7, LenProperties
  <1>9. ASSUME NEW n \in 1..Len(q), n > d
        PROVE  At(kept, q[n]) # {}
    <2>1. n - d \in 1..(Len(q) - d) /\ d + (n - d) = n
      BY <1>5, <1>6, <1>9
    <2>2. kept[n - d] = q[n]
      BY <1>7, <2>1
    <2> QED
      BY <1>8, <2>1, <2>2 DEF At
  <1>10. k # Key(t)
    <2>1. Len(q) \in 1..Len(q) /\ Len(q) > d
      BY <1>5, <1>6
    <2> QED
      BY <1>2, <1>3, <1>9, <2>1
  <1>11. PICK m \in 1..Len(q), n \in 1..Len(q) : m < n /\ q[m] = order[i] /\ q[n] = k
    BY <1>4, <1>10
  <1>12. n <= d
    BY <1>2, <1>5, <1>6, <1>9, <1>11
  <1>13. ASSUME NEW y \in DOMAIN kept, kept[y] = order[i] PROVE FALSE
    <2>1. y \in 1..(Len(q) - d) /\ d + y \in 1..Len(q) /\ q[d + y] = q[m]
      BY <1>5, <1>6, <1>7, <1>8, <1>11, <1>13
    <2>2. d + y = m
      BY <1>3, <1>5, <2>1 DEF Distinct
    <2> QED
      BY <1>5, <1>6, <1>11, <1>12, <2>1, <2>2
  <1> QED
    BY <1>2, <1>13 DEF At

\* A key that a step drops was touched before every key it keeps, but for the
\* key that put has just stored.
THEOREM OldestGoFirst == Spec => EvictsOldest
  <1>1. Init => Inv /\ CapsHold
    BY InvInit, CapsInit
  <1>2. Inv /\ CapsHold /\ [Next]_vars => (Inv /\ CapsHold)'
    BY InvNext, CapsNext
  <1> DEFINE Oldest ==
        \A k \in Keys : Cached(k) /\ At(order', k) = {} /\ order' # <<>> =>
          \A i \in DOMAIN order : \A j \in At(order, k) : i < j => At(order', order[i]) = {}
                \/ \E t \in Threads : pc[t] = "store" /\ order[i] = Key(t)
  <1>3. Inv /\ CapsHold /\ [Next]_vars => [Oldest]_vars
    <2> SUFFICES ASSUME Inv, CapsHold, Next,
                        NEW k \in Keys, Cached(k), At(order', k) = {}, order' # <<>>,
                        NEW i \in DOMAIN order, NEW j \in At(order, k), i < j
                 PROVE  At(order', order[i]) = {} \/ \E t \in Threads : pc[t] = "store" /\ order[i] = Key(t)
      BY Zenon
    <2>1. order' # order
      BY DEF Cached
    <2>2. ASSUME NEW t \in Threads, LookupPresent(t) PROVE FALSE
      <3>1. order \in Seq(Keys) /\ Distinct(order) /\ Key(t) \in Keys
        BY <2>2, KeyType DEF Inv, TypeOK, LookupPresent, ThreadsOK, Key, CapsHold, Distinct
      <3>2. At(ToEnd(order, Key(t)), k) # {}
        BY <3>1, ToEndProperties DEF Cached
      <3> QED
        BY <2>2, <3>2 DEF LookupPresent
    <2>3. ~clear
      BY DEF clear
    <2>4. PICK t \in Threads : Store(t)
      BY <2>1, <2>2, <2>3
         DEF Next, Step, Begin, LookupAbsent, Accept, Reject, PlanOnly, PlanFresh, Leave, cacheVars
    <2>5. pc[t] = "store"
      BY <2>4 DEF Store
    <2>6. order[i] # Key(t) => At(order', order[i]) = {}
      BY <2>4, StoreEvicts
    <2> QED
      BY <2>5, <2>6
  <1> QED
    BY <1>1, <1>2, <1>3, PTL DEF Spec, EvictsOldest

-----------------------------------------------------------------------------
(* The cache implements the uncached planner.                              *)

\* The planner of PlanService is the planner.
LEMMA SamePlanner == \A r : Service!FreshPlan(r) = FreshPlan(r)
  BY Zenon
     DEF Service!FreshPlan, Service!PlanRaises, Service!Planned, Service!Included,
         Service!EffectiveReads, Service!ArgsError, Service!ArgRead, Service!Raises,
         Service!FieldPlan, Service!Observed, Service!compute_cache_key, Service!Provided,
         Service!values_equal, Service!PyEq, Service!BoolValue, Service!ABSENT, Service!NULL,
         Service!RAISED,
         FreshPlan, PlanRaises, Planned, Included, EffectiveReads, ArgsError, ArgRead, Raises,
         FieldPlan, Observed, compute_cache_key, Provided, values_equal, PyEq, BoolValue,
         ABSENT, NULL, RAISED

\* An idle thread serves no request; only a thread that is done has a plan.
Serving ==
    \A t \in Threads :
        /\ pc[t] = "idle" => asked[t] = NoRequest
        /\ pc[t] # "done" => answer[t] = NoPlan

LEMMA ServingNext == Inv /\ Serving /\ [Next]_vars => Serving'
  <1> SUFFICES ASSUME Inv, Serving, [Next]_vars PROVE Serving'
    OBVIOUS
  <1> USE DEF Serving, Inv, TypeOK, Pcs
  <1>1. ASSUME NEW t \in Threads, Begin(t) PROVE Serving'
    BY <1>1 DEF Begin
  <1>2. ASSUME NEW t \in Threads, LookupAbsent(t) \/ LookupPresent(t) \/ Reject(t) \/ PlanFresh(t)
        PROVE  Serving'
    BY <1>2 DEF LookupAbsent, LookupPresent, Reject, PlanFresh
  <1>3. ASSUME NEW t \in Threads, Accept(t) \/ PlanOnly(t) \/ Store(t)
        PROVE  Serving'
    BY <1>3 DEF Accept, PlanOnly, Store
  <1>4. ASSUME NEW t \in Threads, Leave(t) PROVE Serving'
    BY <1>4 DEF Leave
  <1>5. CASE clear
    BY <1>5 DEF clear, threadVars
  <1>6. CASE UNCHANGED vars
    BY <1>6 DEF vars, threadVars
  <1> QED
    BY <1>1, <1>2, <1>3, <1>4, <1>5, <1>6 DEF Next, Step

(***************************************************************************)
(* When every observation is pinned, the shared cache is invisible to its  *)
(* clients: each step asks, answers with what planning afresh yields, or   *)
(* changes nothing they can see.  (That every request is answered is       *)
(* liveness, and checked by TLC.)                                          *)
(***************************************************************************)
THEOREM CacheImplementsService ==
    (\A d \in Documents : Pinned(d)) =>
        (Spec => Service!ServiceInit /\ [][Service!ServiceNext]_(Service!serviceVars))
  <1> SUFFICES ASSUME \A d \in Documents : Pinned(d)
               PROVE  Spec => Service!ServiceInit /\ [][Service!ServiceNext]_(Service!serviceVars)
    OBVIOUS
  <1>1. Init => Inv /\ ServedIsFresh /\ Serving
    BY InvInit DEF Init, ServedIsFresh, Serving
  <1>2. Inv /\ ServedIsFresh /\ Serving /\ [Next]_vars => (Inv /\ ServedIsFresh /\ Serving)'
    BY InvNext, ServedNext, ServingNext
  <1>3. Init => Service!ServiceInit
    BY DEF Init, Service!ServiceInit
  <1>4. Inv /\ ServedIsFresh /\ Serving /\ ServedIsFresh' /\ [Next]_vars
          => [Service!ServiceNext]_(Service!serviceVars)
    <2> SUFFICES ASSUME Inv, ServedIsFresh, Serving, ServedIsFresh', [Next]_vars
                 PROVE  [Service!ServiceNext]_(Service!serviceVars)
      OBVIOUS
    <2> USE DEF Inv, TypeOK, Pcs
    <2>1. ASSUME NEW t \in Threads, Begin(t) PROVE Service!Ask(t)
      BY <2>1 DEF Begin, Serving, Service!Ask
    <2>2. ASSUME NEW t \in Threads, Accept(t) \/ PlanOnly(t) \/ Store(t) PROVE Service!Answer(t)
      <3>1. pc[t] \notin {"idle", "done"} /\ pc' = [pc EXCEPT ![t] = "done"] /\ asked' = asked
        BY <2>2 DEF Accept, PlanOnly, Store
      <3>2. asked[t] # NoRequest /\ answer[t] = NoPlan
        BY <3>1, SentinelAssumption DEF ThreadsOK, Serving
      <3>3. answer'[t] = Service!FreshPlan(asked[t])
        BY <3>1, SamePlanner DEF ServedIsFresh
      <3>4. answer' = [answer EXCEPT ![t] = answer'[t]]
        BY <2>2 DEF Accept, PlanOnly, Store
      <3> QED
        BY <3>1, <3>2, <3>3, <3>4 DEF Service!Answer
    <2>3. ASSUME NEW t \in Threads, Leave(t) PROVE Service!Leave(t)
      <3>1. answer[t] # NoPlan
        BY <2>3, SentinelAssumption DEF Leave, ServedIsFresh, ThreadsOK
      <3> QED
        BY <2>3, <3>1 DEF Leave, Service!Leave
    <2>4. ASSUME NEW t \in Threads, LookupAbsent(t) \/ LookupPresent(t) \/ Reject(t) \/ PlanFresh(t)
          PROVE  UNCHANGED Service!serviceVars
      BY <2>4 DEF LookupAbsent, LookupPresent, Reject, PlanFresh, Service!serviceVars
    <2>5. clear \/ UNCHANGED vars => UNCHANGED Service!serviceVars
      BY DEF clear, vars, threadVars, Service!serviceVars
    <2> QED
      BY <2>1, <2>2, <2>3, <2>4, <2>5 DEF Next, Step, Service!ServiceNext
  <1> QED
    BY <1>1, <1>2, <1>3, <1>4, PTL DEF Spec
=============================================================================
