---------------------------- MODULE SequenceFacts ----------------------------
(***************************************************************************)
(* Lemmas about sequences put together with FlattenSeq, and the two        *)
(* inductions over naturals that they and other proofs need.               *)
(***************************************************************************)
EXTENDS Integers, FiniteSets, SequencesExt, SequenceTheorems, WellFoundedInduction, TLAPS

\* A set of naturals that is not empty has a least member.
LEMMA LeastExists ==
    ASSUME NEW E, E \subseteq Nat, E # {}
    PROVE  \E i \in E : \A j \in E : i <= j
  <1> DEFINE R == OpToRel(<, Nat)
  <1>1. IsWellFoundedOn(R, Nat)
    BY NatLessThanWellFounded
  <1>2. \A x, y \in Nat : y < x => <<y, x>> \in R
    BY DEF OpToRel
  <1> HIDE DEF R
  <1>3. PICK x \in E : \A y \in E : ~ (<<y, x>> \in R)
    BY <1>1, WFMin
  <1>4. ASSUME NEW y \in E PROVE x <= y
    <2>1. ~ (y < x)
      BY <1>2, <1>3
    <2> QED
      BY <2>1
  <1> QED
    BY <1>4

\* A set of naturals that holds 1, and the successor of each of its members up
\* to n, holds 1 .. n.
LEMMA UpTo ==
    ASSUME NEW n \in Nat, NEW good, 1 \in good \/ n = 0,
           \A m \in 1..n : m \in good /\ m < n => m + 1 \in good
    PROVE  1..n \subseteq good
  <1> DEFINE bad == 1..n \ good
  <1>1. CASE bad # {}
    <2>0. bad \subseteq Nat
      OBVIOUS
    <2>1. PICK m \in bad : \A k \in bad : m <= k
      <3> HIDE DEF bad
      <3> QED
        BY <1>1, <2>0, LeastExists
    <2>2. m \in 1..n /\ m \notin good /\ m # 1
      BY <2>1
    <2>3. m - 1 \in 1..n /\ m - 1 < n /\ m - 1 < m
      BY <2>2
    <2>4. m - 1 \in good
      BY <2>1, <2>2, <2>3
    <2>5. (m - 1) + 1 \in good
      BY <2>3, <2>4
    <2> QED
      BY <2>2, <2>5
  <1> QED
    BY <1>1

IsFlattening(f, seqs, n) ==
    f = [i \in 1..n |-> IF i = 1 THEN seqs[i] ELSE f[i - 1] \o seqs[i]]

\* The sequences put together one after the other: the recursive function of
\* FlattenSeq exists.
LEMMA FlatteningExists ==
    ASSUME NEW seqs, NEW n \in Nat
    PROVE  \E f : IsFlattening(f, seqs, n)
  <1> DEFINE good == {m \in Nat : \E f : IsFlattening(f, seqs, m)}
  <1>1. CASE n = 0
    <2>1. IsFlattening(<<>>, seqs, 0)
      BY DEF IsFlattening
    <2> QED
      BY <1>1, <2>1
  <1>2. 1 \in good
    <2> DEFINE f == [i \in 1..1 |-> seqs[1]]
    <2>1. IsFlattening(f, seqs, 1)
      BY DEF IsFlattening
    <2> QED
      BY <2>1
  <1>3. ASSUME NEW m \in 1..n, m \in good PROVE m + 1 \in good
    <2>1. PICK f : IsFlattening(f, seqs, m)
      BY <1>3
    <2> DEFINE h == [i \in 1..(m + 1) |-> IF i = m + 1 THEN f[m] \o seqs[m + 1] ELSE f[i]]
    <2>2. h = [i \in 1..(m + 1) |-> IF i = 1 THEN seqs[i] ELSE h[i - 1] \o seqs[i]]
      <3>1. ASSUME NEW i \in 1..(m + 1)
            PROVE  h[i] = IF i = 1 THEN seqs[i] ELSE h[i - 1] \o seqs[i]
        <4>1. CASE i = m + 1
          <5>1. i # 1 /\ i - 1 = m /\ m \in 1..(m + 1) /\ m # m + 1
            BY <4>1
          <5>2. h[i - 1] = f[m] /\ h[i] = f[m] \o seqs[i]
            BY <4>1, <5>1
          <5> QED
            BY <5>1, <5>2
        <4>2. CASE i # m + 1
          <5>1. i \in 1..m /\ (i # 1 => i - 1 \in 1..(m + 1) /\ i - 1 # m + 1)
            BY <4>2
          <5>2. f[i] = IF i = 1 THEN seqs[i] ELSE f[i - 1] \o seqs[i]
            BY <2>1, <5>1 DEF IsFlattening
          <5> QED
            BY <4>2, <5>1, <5>2
        <4> QED
          BY <4>1, <4>2
      <3> QED
        BY <3>1
    <2>3. IsFlattening(h, seqs, m + 1)
      BY <2>2 DEF IsFlattening
    <2> HIDE DEF h
    <2> QED
      BY <2>3
  <1> HIDE DEF good
  <1>4. n # 0 => n \in 1..n /\ 1..n \subseteq good
    BY <1>2, <1>3, UpTo
  <1> QED
    BY <1>1, <1>4 DEF good

\* FlattenSeq puts seqs[1], seqs[2] ... together.
LEMMA FlattenSeqIs ==
    ASSUME NEW S, NEW seqs \in Seq(S)
    PROVE  /\ seqs = <<>> => FlattenSeq(seqs) = <<>>
           /\ seqs # <<>> => \E f : IsFlattening(f, seqs, Len(seqs)) /\ FlattenSeq(seqs) = f[Len(seqs)]
  <1>1. CASE seqs = <<>>
    BY <1>1 DEF FlattenSeq
  <1>2. CASE seqs # <<>>
    <2> DEFINE n == Len(seqs)
               f == CHOOSE f : f = [i \in 1..n |-> IF i = 1 THEN seqs[i] ELSE f[i - 1] \o seqs[i]]
    <2>1. n \in Nat /\ n # 0
      BY <1>2
    <2>2. \E h : h = [i \in 1..n |-> IF i = 1 THEN seqs[i] ELSE h[i - 1] \o seqs[i]]
      BY <2>1, FlatteningExists DEF IsFlattening
    <2>3. f = [i \in 1..n |-> IF i = 1 THEN seqs[i] ELSE f[i - 1] \o seqs[i]]
      BY <2>2
    <2>4. FlattenSeq(seqs) = f[n]
      BY <2>1 DEF FlattenSeq
    <2> HIDE DEF f
    <2>5. IsFlattening(f, seqs, n)
      BY <2>3 DEF IsFlattening
    <2> QED
      BY <1>2, <2>4, <2>5
  <1> QED
    BY <1>1, <1>2

\* Members of one sequence after another.
LEMMA Concatenated ==
    ASSUME NEW S, NEW s \in Seq(S), NEW t \in Seq(S)
    PROVE  /\ s \o t \in Seq(S)
           /\ ToSet(s \o t) = ToSet(s) \cup ToSet(t)
           /\ IsInjective(s) /\ IsInjective(t) /\ ToSet(s) \cap ToSet(t) = {} => IsInjective(s \o t)
  <1> DEFINE st == s \o t
  <1>1. st \in Seq(S) /\ Len(st) = Len(s) + Len(t) /\ Len(s) \in Nat /\ Len(t) \in Nat
    BY ConcatProperties
  <1>2. /\ \A i \in DOMAIN s : i \in DOMAIN st /\ st[i] = s[i]
        /\ \A i \in DOMAIN t : i + Len(s) \in DOMAIN st /\ st[i + Len(s)] = t[i]
        /\ \A i \in DOMAIN st :
              i \notin DOMAIN s => i - Len(s) \in DOMAIN t /\ st[i] = t[i - Len(s)] /\ i > Len(s)
    <2>1. /\ DOMAIN s = 1..Len(s) /\ DOMAIN t = 1..Len(t) /\ DOMAIN st = 1..(Len(s) + Len(t))
          /\ \A i \in 1..(Len(s) + Len(t)) : st[i] = IF i <= Len(s) THEN s[i] ELSE t[i - Len(s)]
      BY <1>1, ConcatProperties
    <2>2. \A i \in 1..Len(t) : /\ i + Len(s) \in 1..(Len(s) + Len(t))
                               /\ (i + Len(s)) - Len(s) = i /\ ~ (i + Len(s) <= Len(s))
      BY <1>1
    <2> HIDE DEF st
    <2>3. \A i \in DOMAIN s : i \in DOMAIN st /\ st[i] = s[i]
      BY <1>1, <2>1
    <2>4. \A i \in DOMAIN t : i + Len(s) \in DOMAIN st /\ st[i + Len(s)] = t[i]
      BY <2>1, <2>2
    <2>5. \A i \in DOMAIN st :
             i \notin DOMAIN s => i - Len(s) \in DOMAIN t /\ st[i] = t[i - Len(s)] /\ i > Len(s)
      BY <1>1, <2>1
    <2> QED
      BY <2>3, <2>4, <2>5
  <1> HIDE DEF st
  <1>3. ToSet(st) = ToSet(s) \cup ToSet(t)
    BY <1>2 DEF ToSet
  <1>4. ASSUME IsInjective(s), IsInjective(t), ToSet(s) \cap ToSet(t) = {},
               NEW i \in DOMAIN st, NEW j \in DOMAIN st, st[i] = st[j]
        PROVE  i = j
    <2>1. CASE i \in DOMAIN s /\ j \in DOMAIN s
      BY <1>2, <1>4, <2>1 DEF IsInjective
    <2>2. CASE i \notin DOMAIN s /\ j \notin DOMAIN s
      <3>1. i - Len(s) = j - Len(s)
        BY <1>2, <1>4, <2>2 DEF IsInjective
      <3> QED
        BY <1>1, <3>1
    <2>3. ASSUME NEW k \in DOMAIN st, NEW l \in DOMAIN st, st[k] = st[l], k \in DOMAIN s, l \notin DOMAIN s
          PROVE  FALSE
      <3>1. st[k] \in ToSet(s)
        BY <1>2, <2>3 DEF ToSet
      <3>2. st[l] \in ToSet(t)
        BY <1>2, <2>3 DEF ToSet
      <3> QED
        BY <1>4, <2>3, <3>1, <3>2
    <2> QED
      BY <1>4, <2>1, <2>2, <2>3
  <1>5. IsInjective(s) /\ IsInjective(t) /\ ToSet(s) \cap ToSet(t) = {} => IsInjective(st)
    BY <1>4 DEF IsInjective
  <1> QED
    BY <1>1, <1>3, <1>5 DEF st

\* What is in sequences put together.
LEMMA Flattened ==
    ASSUME NEW S, NEW seqs \in Seq(Seq(S))
    PROVE  /\ FlattenSeq(seqs) \in Seq(S)
           /\ \A x : x \in ToSet(FlattenSeq(seqs)) <=> \E i \in DOMAIN seqs : x \in ToSet(seqs[i])
           /\ /\ \A i \in DOMAIN seqs : IsInjective(seqs[i])
              /\ \A i, j \in DOMAIN seqs : i # j => ToSet(seqs[i]) \cap ToSet(seqs[j]) = {}
              => IsInjective(FlattenSeq(seqs))
  <1>1. CASE seqs = <<>>
    <2>0. FlattenSeq(seqs) = <<>>
      BY <1>1, FlattenSeqIs
    <2>1. FlattenSeq(seqs) = <<>> /\ DOMAIN seqs = {}
      BY <1>1, <2>0
    <2>2. ToSet(<<>>) = {} /\ IsInjective(<<>>) /\ <<>> \in Seq(S)
      BY DEF ToSet, IsInjective
    <2> QED
      BY <2>1, <2>2
  <1>2. CASE seqs # <<>>
    <2> DEFINE n == Len(seqs)
               distinct == /\ \A i \in 1..n : IsInjective(seqs[i])
                           /\ \A i, j \in 1..n : i # j => ToSet(seqs[i]) \cap ToSet(seqs[j]) = {}
    <2>1. n \in Nat /\ n # 0 /\ DOMAIN seqs = 1..n /\ \A i \in 1..n : seqs[i] \in Seq(S)
      BY <1>2
    <2>2. PICK f : IsFlattening(f, seqs, n) /\ FlattenSeq(seqs) = f[n]
      BY FlattenSeqIs, <1>2
    <2>3. \A i \in 1..n : f[i] = IF i = 1 THEN seqs[i] ELSE f[i - 1] \o seqs[i]
      BY <2>2 DEF IsFlattening
    <2> DEFINE Good(m) == /\ f[m] \in Seq(S)
                          /\ \A x : x \in ToSet(f[m]) <=> \E i \in 1..m : x \in ToSet(seqs[i])
                          /\ distinct => IsInjective(f[m])
               good == {m \in 1..n : Good(m)}
    <2>4. Good(1)
      <3>1. 1 \in 1..n
        BY <2>1
      <3>2. f[1] = seqs[1]
        BY <2>3, <3>1
      <3>3. \A x : x \in ToSet(f[1]) <=> \E i \in 1..1 : x \in ToSet(seqs[i])
        BY <3>2
      <3> QED
        BY <2>1, <3>1, <3>2, <3>3
    <2>5. ASSUME NEW m \in 1..n, m < n, Good(m) PROVE Good(m + 1)
      <3>1. m + 1 \in 1..n /\ m + 1 # 1 /\ (m + 1) - 1 = m
        BY <2>1, <2>5
      <3>2. f[m + 1] = f[m] \o seqs[m + 1]
        BY <2>3, <3>1
      <3>3. f[m] \in Seq(S) /\ seqs[m + 1] \in Seq(S)
        BY <2>1, <2>5, <3>1
      <3>4. f[m + 1] \in Seq(S) /\ ToSet(f[m + 1]) = ToSet(f[m]) \cup ToSet(seqs[m + 1])
        BY <3>2, <3>3, Concatenated
      <3>5. \A x : x \in ToSet(f[m + 1]) <=> \E i \in 1..(m + 1) : x \in ToSet(seqs[i])
        <4>1. \A i : i \in 1..(m + 1) <=> i \in 1..m \/ i = m + 1
          OBVIOUS
        <4> HIDE DEF distinct
        <4> QED
          BY <2>5, <3>4, <4>1
      <3>6. ASSUME distinct PROVE IsInjective(f[m + 1])
        <4>1. IsInjective(f[m]) /\ IsInjective(seqs[m + 1])
          BY <2>5, <3>1, <3>6
        <4>2. \A i \in 1..m : i \in 1..n /\ i # m + 1
          BY <2>1
        <4>3. ToSet(f[m]) \cap ToSet(seqs[m + 1]) = {}
          BY <2>5, <3>1, <3>6, <4>2
        <4> QED
          BY <3>2, <3>3, <4>1, <4>3, Concatenated
      <3> QED
        BY <3>4, <3>5, <3>6
    <2> HIDE DEF Good, distinct
    <2>6. 1 \in good /\ \A m \in 1..n : m \in good /\ m < n => m + 1 \in good
      <3>1. 1 \in 1..n /\ \A m \in 1..n : m < n => m + 1 \in 1..n
        BY <2>1
      <3> QED
        BY <2>4, <2>5, <3>1
    <2>7. 1..n \subseteq good
      <3> HIDE DEF good
      <3> QED
        BY <2>1, <2>6, UpTo
    <2>8. Good(n)
      <3>1. n \in 1..n
        BY <2>1
      <3> QED
        BY <2>7, <3>1
    <2> QED
      BY <2>1, <2>2, <2>8 DEF Good, distinct
  <1> QED
    BY <1>1, <1>2

\* Where the members of two sequences are once they are put together.
LEMMA ConcatAt ==
    ASSUME NEW S, NEW s \in Seq(S), NEW t \in Seq(S)
    PROVE  /\ s \o t \in Seq(S)
           /\ \A j \in DOMAIN s : j \in DOMAIN (s \o t) /\ (s \o t)[j] = s[j]
           /\ \A j \in DOMAIN t : Len(s) + j \in DOMAIN (s \o t) /\ (s \o t)[Len(s) + j] = t[j]
  <1>1. Len(s) \in Nat /\ Len(t) \in Nat /\ DOMAIN s = 1..Len(s) /\ DOMAIN t = 1..Len(t)
    OBVIOUS
  <1>2. s \o t \in Seq(S) /\ Len(s \o t) = Len(s) + Len(t)
    BY ConcatProperties
  <1>3. DOMAIN (s \o t) = 1..(Len(s) + Len(t))
    BY <1>2
  <1>4. \A j \in 1..(Len(s) + Len(t)) : (s \o t)[j] = IF j <= Len(s) THEN s[j] ELSE t[j - Len(s)]
    BY ConcatProperties
  <1>5. \A j \in 1..Len(s) : j \in 1..(Len(s) + Len(t)) /\ j <= Len(s)
    BY <1>1
  <1>6. \A j \in 1..Len(t) : Len(s) + j \in 1..(Len(s) + Len(t)) /\ ~ (Len(s) + j <= Len(s)) /\ (Len(s) + j) - Len(s) = j
    BY <1>1
  <1> QED
    BY <1>1, <1>2, <1>3, <1>4, <1>5, <1>6

\* Where a member of the k-th sequence ends up.
LEMMA FlattenedAt ==
    ASSUME NEW S, NEW seqs \in Seq(Seq(S)), NEW k \in DOMAIN seqs, NEW i \in DOMAIN seqs[k],
           NEW before, before = Len(FlattenSeq([j \in 1..(k - 1) |-> seqs[j]]))
    PROVE  /\ before + i \in DOMAIN FlattenSeq(seqs)
           /\ FlattenSeq(seqs)[before + i] = seqs[k][i]
  <1> DEFINE n == Len(seqs)
             part == [j \in 1..(k - 1) |-> seqs[j]]
  <1>1. n \in Nat /\ DOMAIN seqs = 1..n /\ k \in 1..n /\ \A j \in 1..n : seqs[j] \in Seq(S)
    OBVIOUS
  <1>2. seqs # <<>>
    BY <1>1
  <1>3. PICK f : IsFlattening(f, seqs, n) /\ FlattenSeq(seqs) = f[n]
    BY <1>2, FlattenSeqIs
  <1>4. \A j \in 1..n : f[j] = IF j = 1 THEN seqs[j] ELSE f[j - 1] \o seqs[j]
    BY <1>3 DEF IsFlattening
  <1>5. \A j \in 1..n : f[j] \in Seq(S)
    <2> DEFINE good == {j \in 1..n : f[j] \in Seq(S)}
    <2>1. 1 \in good
      BY <1>1, <1>4
    <2>2. ASSUME NEW m \in 1..n, m \in good, m < n PROVE m + 1 \in good
      <3>1. m + 1 \in 1..n /\ m + 1 # 1 /\ (m + 1) - 1 = m
        BY <1>1, <2>2
      <3>2. f[m + 1] = f[m] \o seqs[m + 1]
        BY <1>4, <3>1
      <3> QED
        <4>1. f[m] \in Seq(S) /\ seqs[m + 1] \in Seq(S)
          BY <1>1, <2>2, <3>1
        <4>2. f[m + 1] \in Seq(S)
          BY <3>2, <4>1, ConcatAt
        <4> QED
          BY <3>1, <4>2
    <2>3. 1..n \subseteq good
      <3> HIDE DEF good
      <3> QED
        BY <1>1, <2>1, <2>2, UpTo
    <2> QED
      BY <2>3
  <1>6. part \in Seq(Seq(S)) /\ Len(part) = k - 1 /\ k - 1 \in Nat
    <2>1. k - 1 \in Nat /\ \A j \in 1..(k - 1) : j \in 1..n
      BY <1>1
    <2>2. part \in [1..(k - 1) -> Seq(S)]
      BY <1>1, <2>1
    <2>3. \A m \in Nat : \A h \in [1..m -> Seq(S)] : h \in Seq(Seq(S)) /\ Len(h) = m
      OBVIOUS
    <2> HIDE DEF part
    <2> QED
      BY <2>1, <2>2, <2>3
  <1>7. k # 1 => FlattenSeq(part) = f[k - 1]
    <2> SUFFICES ASSUME k # 1 PROVE FlattenSeq(part) = f[k - 1]
      OBVIOUS
    <2>1. part # <<>>
      BY <1>6
    <2>2. PICK g : IsFlattening(g, part, k - 1) /\ FlattenSeq(part) = g[k - 1]
      BY <1>6, <2>1, FlattenSeqIs
    <2>3. \A j \in 1..(k - 1) : g[j] = IF j = 1 THEN seqs[j] ELSE g[j - 1] \o seqs[j]
      BY <2>2 DEF IsFlattening
    <2> DEFINE good == {j \in 1..(k - 1) : g[j] = f[j]}
    <2>4. 1 \in good
      BY <1>1, <1>4, <2>3
    <2>5. ASSUME NEW m \in 1..(k - 1), m \in good, m < k - 1 PROVE m + 1 \in good
      <3>1. m + 1 \in 1..(k - 1) /\ m + 1 \in 1..n /\ m + 1 # 1 /\ (m + 1) - 1 = m
        BY <1>1, <2>5
      <3> QED
        BY <1>4, <2>3, <2>5, <3>1
    <2>6. 1..(k - 1) \subseteq good
      <3> HIDE DEF good
      <3> QED
        BY <1>6, <2>4, <2>5, UpTo
    <2> QED
      <3>1. k - 1 \in 1..(k - 1)
        BY <1>6, <2>1 DEF part
      <3> QED
        BY <2>2, <2>6, <3>1
  <1>8. before \in Nat /\ before + i \in DOMAIN f[k] /\ f[k][before + i] = seqs[k][i]
    <2>0. f[k] \in Seq(S) /\ seqs[k] \in Seq(S) /\ i \in 1..Len(seqs[k]) /\ Len(seqs[k]) \in Nat
      BY <1>1, <1>5
    <2>1. CASE k = 1
      <3>1. part = <<>>
        BY <1>6, <2>1
      <3>2. FlattenSeq(<<>>) = <<>>
        BY FlattenSeqIs, <1>6, <3>1
      <3>3. before = 0 /\ f[k] = seqs[k]
        BY <1>1, <1>4, <2>1, <3>1, <3>2
      <3> QED
        BY <2>0, <3>3
    <2>2. CASE k # 1
      <3>1. k - 1 \in 1..n
        BY <1>1, <2>2
      <3>2. f[k] = f[k - 1] \o seqs[k] /\ f[k - 1] \in Seq(S)
        BY <1>1, <1>4, <1>5, <2>2, <3>1
      <3>3. before = Len(f[k - 1]) /\ before \in Nat
        BY <1>7, <2>2, <3>2
      <3> DEFINE l == f[k - 1]
                 r == seqs[k]
      <3>4. l \in Seq(S) /\ r \in Seq(S) /\ i \in DOMAIN r /\ before = Len(l) /\ f[k] = l \o r
        BY <2>0, <3>2, <3>3
      <3> HIDE DEF l, r
      <3>5. \A j \in DOMAIN r : Len(l) + j \in DOMAIN (l \o r) /\ (l \o r)[Len(l) + j] = r[j]
        BY <3>4, ConcatProperties
      <3>6. Len(l) + i \in DOMAIN (l \o r) /\ (l \o r)[Len(l) + i] = r[i]
        BY <3>4, <3>5
      <3>7. before + i \in DOMAIN f[k] /\ f[k][before + i] = r[i]
        BY <3>4, <3>6
      <3> QED
        BY <3>3, <3>7 DEF r
    <2> QED
      BY <2>1, <2>2
  <1>9. \A m \in 1..n : k <= m => before + i \in DOMAIN f[m] /\ f[m][before + i] = seqs[k][i]
    <2> DEFINE good == {m \in 1..n : k <= m => before + i \in DOMAIN f[m] /\ f[m][before + i] = seqs[k][i]}
    <2>1. 1 \in good
      BY <1>1, <1>8
    <2>2. ASSUME NEW m \in 1..n, m \in good, m < n PROVE m + 1 \in good
      <3>1. m + 1 \in 1..n /\ m + 1 # 1 /\ (m + 1) - 1 = m
        BY <1>1, <2>2
      <3>2. f[m + 1] = f[m] \o seqs[m + 1] /\ f[m] \in Seq(S) /\ seqs[m + 1] \in Seq(S)
        BY <1>1, <1>4, <1>5, <2>2, <3>1
      <3>3. CASE k = m + 1
        BY <1>8, <3>1, <3>3
      <3>4. CASE k <= m
        <4>1. before + i \in DOMAIN f[m] /\ f[m][before + i] = seqs[k][i]
          BY <2>2, <3>4
        <4>2. \A j \in DOMAIN f[m] : j \in DOMAIN (f[m] \o seqs[m + 1]) /\ (f[m] \o seqs[m + 1])[j] = f[m][j]
          <5> HIDE DEF good
          <5>1. \A u, v \in Seq(S) : \A j \in DOMAIN u : j \in DOMAIN (u \o v) /\ (u \o v)[j] = u[j]
            BY ConcatAt
          <5> QED
            BY <3>2, <5>1
        <4> QED
          BY <3>1, <3>2, <4>1, <4>2
      <3>5. CASE ~ (k <= m + 1)
        BY <3>1, <3>5
      <3> QED
        BY <1>1, <3>3, <3>4, <3>5
    <2>3. 1..n \subseteq good
      <3> HIDE DEF good
      <3> QED
        BY <1>1, <2>1, <2>2, UpTo
    <2> QED
      BY <2>3
  <1>10. n \in 1..n /\ k <= n
    BY <1>1
  <1> QED
    BY <1>3, <1>9, <1>10
=============================================================================
