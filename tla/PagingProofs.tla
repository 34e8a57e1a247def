---------------------------- MODULE PagingProofs ----------------------------
(***************************************************************************)
(* Keyset cursors: the seek predicate selects exactly the rows that ORDER  *)
(* BY puts beyond the cursor's, and a cursor that is accepted marks a      *)
(* point of the order it is used in.  The totals and aggregates of a page  *)
(* are those of all the rows of its entry's key.                           *)
(***************************************************************************)
EXTENDS Paging, SequenceTheorems, FiniteSetTheorems, WellFoundedInduction, TLAPS

-----------------------------------------------------------------------------
(* Orders *)

\* An order is a sequence of terms.
LEMMA OrderShape ==
    ASSUME NEW terms, IsOrder(terms)
    PROVE  Len(terms) \in Nat /\ DOMAIN terms = 1..Len(terms)
  BY LenProperties DEF IsOrder

\* A sequence of terms is an order.
LEMMA OrderIntro ==
    ASSUME NEW n \in Nat, NEW terms, terms = [i \in 1..n |-> terms[i]],
           \A i \in 1..n : IsTerm(terms[i])
    PROVE  IsOrder(terms) /\ Len(terms) = n
  <1>1. DOMAIN terms = 1..n
    OBVIOUS
  <1>2. terms \in [1..n -> {terms[i] : i \in DOMAIN terms}]
    BY <1>1
  <1>3. terms \in Seq({terms[i] : i \in DOMAIN terms})
    <2> DEFINE S == {terms[i] : i \in DOMAIN terms}
    <2>1. terms \in [1..n -> S]
      BY <1>2
    <2> HIDE DEF S
    <2>2. terms \in Seq(S)
      BY ONLY <2>1, n \in Nat
    <2> QED
      BY ONLY <2>2 DEF S
  <1> QED
    BY <1>1, <1>3, LenProperties DEF IsOrder

\* The comparator's placement of NULLs is the database's.
LEMMA NullsAgree ==
    ASSUME NEW term, IsTerm(term)
    PROVE  /\ EffectiveNulls(term) \in {"first", "last"}
           /\ EffectiveNulls(term) = "first" <=> NullsComeFirst(term)
  BY NullIsNoValue DEF IsTerm, EffectiveNulls, NullsComeFirst

\* Read backwards, an order has the same columns and every term turned around.
LEMMA ReversedTerms ==
    ASSUME NEW terms, IsOrder(terms)
    PROVE  LET turned == ReverseOrder(terms)
           IN  /\ IsOrder(turned) /\ Len(turned) = Len(terms)
               /\ \A i \in 1..Len(terms) :
                    /\ turned[i].column = terms[i].column
                    /\ turned[i].descending = ~terms[i].descending
                    /\ NullsComeFirst(turned[i]) <=> ~NullsComeFirst(terms[i])
  <1> DEFINE turned == ReverseOrder(terms)
             n == Len(terms)
  <1>1. n \in Nat /\ DOMAIN terms = 1..n /\ \A i \in 1..n : IsTerm(terms[i])
    BY OrderShape DEF IsOrder
  <1>2. turned = [i \in 1..n |-> OrderTerm(terms[i].column, ~terms[i].descending, FlipNulls(terms[i]))]
    BY <1>1 DEF ReverseOrder
  <1> HIDE DEF turned, n
  <1>3. ASSUME NEW i \in 1..n
        PROVE  /\ turned[i].column = terms[i].column
               /\ turned[i].descending = ~terms[i].descending
               /\ turned[i].nulls = FlipNulls(terms[i])
    BY <1>2 DEF OrderTerm
  <1>4. ASSUME NEW i \in 1..n
        PROVE  IsTerm(turned[i]) /\ (NullsComeFirst(turned[i]) <=> ~NullsComeFirst(terms[i]))
    <2>1. IsTerm(terms[i])
      BY <1>1
    <2>2. FlipNulls(terms[i]) = "first" <=> ~NullsComeFirst(terms[i])
      BY <2>1, NullsAgree DEF FlipNulls
    <2>3. FlipNulls(terms[i]) \in {"first", "last"}
      BY DEF FlipNulls
    <2> QED
      BY <1>3, <2>2, <2>3, NullIsNoValue DEF IsTerm, NullsComeFirst
  <1>5. turned = [i \in 1..n |-> turned[i]]
    BY <1>2
  <1>6. IsOrder(turned) /\ Len(turned) = n
    BY <1>1, <1>4, <1>5, OrderIntro
  <1> QED
    BY <1>3, <1>4, <1>6 DEF turned, n

IsValue(x) == x \in Nat \cup {NULL}
Valued(terms, row) == \A i \in DOMAIN terms : IsValue(row[terms[i].column])

\* Turning a term around turns around which of two values comes first.
LEMMA ValuesTurn ==
    ASSUME NEW term, NEW turned, term.descending \in BOOLEAN,
           turned.descending = ~term.descending,
           NullsComeFirst(turned) <=> ~NullsComeFirst(term),
           NEW x, NEW y, IsValue(x), IsValue(y)
    PROVE  ValuePrecedes(turned, x, y) <=> ValuePrecedes(term, y, x)
  BY NullIsNoValue DEF ValuePrecedes, IsValue

\* Of two rows, the one that comes first in an order comes last in its reverse.
LEMMA ReverseTurnsAround ==
    ASSUME NEW terms, IsOrder(terms), NEW r, NEW q, Valued(terms, r), Valued(terms, q)
    PROVE  Precedes(ReverseOrder(terms), r, q) <=> Precedes(terms, q, r)
  <1> DEFINE turned == ReverseOrder(terms)
             n == Len(terms)
  <1>1. /\ n \in Nat /\ DOMAIN terms = 1..n /\ DOMAIN turned = 1..n
        /\ \A i \in 1..n : IsTerm(terms[i])
    <2>1. n \in Nat /\ DOMAIN terms = 1..n /\ \A i \in 1..n : IsTerm(terms[i])
      BY OrderShape DEF IsOrder
    <2>2. IsOrder(turned) /\ Len(turned) = n
      BY ReversedTerms
    <2> HIDE DEF turned
    <2>3. DOMAIN turned = 1..n
      BY <2>2, OrderShape
    <2> QED
      BY <2>1, <2>3
  <1>2. \A i \in 1..n :
          /\ turned[i].column = terms[i].column
          /\ turned[i].descending = ~terms[i].descending
          /\ NullsComeFirst(turned[i]) <=> ~NullsComeFirst(terms[i])
    BY ReversedTerms
  <1> HIDE DEF turned, n
  <1>3. ASSUME NEW i \in 1..n
        PROVE  ValuePrecedes(turned[i], r[terms[i].column], q[terms[i].column])
                 <=> ValuePrecedes(terms[i], q[terms[i].column], r[terms[i].column])
    BY <1>1, <1>2, ValuesTurn DEF Valued, IsTerm
  <1>4. \A i \in 1..n : 1..(i - 1) \subseteq 1..n
    BY <1>1
  <1>5. Precedes(turned, r, q) <=>
          \E i \in 1..n : /\ ValuePrecedes(turned[i], r[terms[i].column], q[terms[i].column])
                          /\ \A j \in 1..(i - 1) : r[terms[j].column] = q[terms[j].column]
    <2>1. \A i \in 1..n : turned[i].column = terms[i].column
      BY ONLY <1>2
    <2>2. DOMAIN turned = 1..n
      BY ONLY <1>1
    <2> QED
      BY ONLY <2>1, <2>2, <1>4 DEF Precedes
  <1>6. Precedes(terms, q, r) <=>
          \E i \in 1..n : /\ ValuePrecedes(terms[i], q[terms[i].column], r[terms[i].column])
                          /\ \A j \in 1..(i - 1) : q[terms[j].column] = r[terms[j].column]
    BY <1>1 DEF Precedes
  <1> QED
    BY <1>3, <1>5, <1>6 DEF turned

-----------------------------------------------------------------------------
(* The seek predicate *)

\* A set of positions that is not empty has a last one.
LEMMA LastExists ==
    ASSUME NEW n \in Nat, NEW E, E \subseteq 1..n, E # {}
    PROVE  \E i \in E : \A j \in E : j <= i
  <1> DEFINE R == OpToRel(<, Nat)
             D == {n - i : i \in E}
  <1>1. IsWellFoundedOn(R, Nat)
    BY NatLessThanWellFounded
  <1>2. \A x, y \in Nat : y < x => <<y, x>> \in R
    BY DEF OpToRel
  <1> HIDE DEF R
  <1>3. D \subseteq Nat /\ D # {}
    <2>1. \A i \in E : i \in 1..n
      OBVIOUS
    <2>2. \A i \in E : n - i \in Nat
      BY <2>1
    <2> QED
      BY <2>2
  <1> HIDE DEF D
  <1>4. PICK x \in D : \A y \in D : ~ (<<y, x>> \in R)
    BY <1>1, <1>3, WFMin
  <1>5. \A y \in D : ~ (y < x)
    BY <1>2, <1>3, <1>4
  <1>6. PICK i \in E : x = n - i
    BY <1>4 DEF D
  <1>7. ASSUME NEW j \in E PROVE j <= i
    <2>1. ~ (n - j < n - i)
      BY <1>5, <1>6 DEF D
    <2> QED
      BY <2>1
  <1> QED
    BY <1>7

Truth == {F, U, T}

\* gt1 OR (eq1 AND (gt2 OR ...)), evaluated from its last term.
Nests(f, n, gt, eq) ==
  f = [i \in 1..n |-> IF i = n THEN gt[i] ELSE Or(gt[i], And(eq[i], f[i + 1]))]

\* The truth values a nested predicate may take from its i-th term on: those of
\* the terms reached through equals.
Reached(n, gt, eq, i) == {gt[j] : j \in {k \in i..n : \A m \in i..(k - 1) : eq[m] = T}}

\* A nested predicate is the best of the terms it reaches.
LEMMA NestingExists ==
    ASSUME NEW n \in Nat, NEW gt \in [1..n -> Truth], NEW eq \in [1..n -> {F, T}]
    PROVE  \E f : Nests(f, n, gt, eq) /\ \A i \in 1..n : f[i] = T <=> T \in Reached(n, gt, eq, i)
  <1> DEFINE best(S) == IF T \in S THEN T ELSE IF U \in S THEN U ELSE F
             f == [i \in 1..n |-> best(Reached(n, gt, eq, i))]
  <1>1. ASSUME NEW i \in 1..n, i # n, eq[i] = T
        PROVE  Reached(n, gt, eq, i) = {gt[i]} \cup Reached(n, gt, eq, i + 1)
    <2> DEFINE at(j) == {k \in j..n : \A m \in j..(k - 1) : eq[m] = T}
    <2>1. ASSUME NEW k \in i..n, k # i
          PROVE  (\A m \in i..(k - 1) : eq[m] = T) <=> (\A m \in i + 1..(k - 1) : eq[m] = T)
      <3>1. i..(k - 1) = {i} \cup i + 1..(k - 1)
        BY <2>1
      <3> QED
        BY <1>1, <3>1
    <2>2. i..n = {i} \cup i + 1..n /\ i \notin i + 1..n
      BY <1>1
    <2>3. i \in at(i)
      OBVIOUS
    <2>4. at(i) = {i} \cup at(i + 1)
      BY <2>1, <2>2, <2>3
    <2> QED
      BY <2>4 DEF Reached
  <1>2. ASSUME NEW i \in 1..n, i = n \/ eq[i] # T
        PROVE  Reached(n, gt, eq, i) = {gt[i]}
    <2>1. ASSUME NEW k \in i..n, \A m \in i..(k - 1) : eq[m] = T PROVE k = i
      <3>1. CASE k # i
        <4>1. i \in i..(k - 1)
          BY <3>1
        <4> QED
          BY <1>2, <2>1, <3>1, <4>1
      <3> QED
        BY <3>1
    <2>2. {k \in i..n : \A m \in i..(k - 1) : eq[m] = T} = {i}
      <3>1. i \in i..n /\ i..(i - 1) = {}
        OBVIOUS
      <3> QED
        BY <2>1, <3>1
    <2> QED
      BY <2>2 DEF Reached
  <1>3. ASSUME NEW i \in 1..n
        PROVE  f[i] = IF i = n THEN gt[i] ELSE Or(gt[i], And(eq[i], f[i + 1]))
    <2>0. gt[i] \in Truth /\ f[i] = best(Reached(n, gt, eq, i))
      OBVIOUS
    <2>1. CASE i = n
      BY <1>2, <2>0, <2>1 DEF Truth
    <2>2. CASE i # n /\ eq[i] # T
      <3>1. f[i + 1] \in Truth /\ eq[i] = F
        BY <2>2 DEF Truth
      <3> HIDE DEF f
      <3> QED
        BY <1>2, <2>0, <2>2, <3>1 DEF Truth, Or, And, T, U, F
    <2>3. CASE i # n /\ eq[i] = T
      <3> DEFINE S == Reached(n, gt, eq, i + 1)
      <3>1. f[i + 1] = best(S) /\ Reached(n, gt, eq, i) = {gt[i]} \cup S
        BY <1>1, <2>3
      <3> HIDE DEF f, S
      <3>2. best({gt[i]} \cup S) = Or(gt[i], And(T, best(S)))
        BY <2>0 DEF Truth, Or, And, T, U, F
      <3> QED
        BY <2>0, <2>3, <3>1, <3>2
    <2> QED
      BY <2>1, <2>2, <2>3
  <1>4. f = [i \in 1..n |-> f[i]]
    OBVIOUS
  <1>5. \A i \in 1..n : f[i] = T <=> T \in Reached(n, gt, eq, i)
    BY DEF T, U, F
  <1> HIDE DEF f
  <1>6. Nests(f, n, gt, eq)
    BY <1>3, <1>4 DEF Nests
  <1> QED
    BY <1>5, <1>6

\* A nested predicate has one value.
LEMMA NestingIsUnique ==
    ASSUME NEW n \in Nat, NEW gt, NEW eq, NEW f, NEW g,
           Nests(f, n, gt, eq), Nests(g, n, gt, eq)
    PROVE  f = g
  <1> DEFINE E == {i \in 1..n : f[i] # g[i]}
  <1>1. DOMAIN f = 1..n /\ DOMAIN g = 1..n /\ f = [i \in 1..n |-> f[i]] /\ g = [i \in 1..n |-> g[i]]
    BY DEF Nests
  <1>2. ASSUME E # {} PROVE FALSE
    <2>1. PICK i \in E : \A j \in E : j <= i
      <3>1. E \subseteq 1..n
        OBVIOUS
      <3> HIDE DEF E
      <3> QED
        BY <1>2, <3>1, LastExists
    <2>2. i = n \/ f[i + 1] = g[i + 1]
      BY <2>1
    <2>3. f[i] = g[i]
      BY <2>1, <2>2 DEF Nests
    <2> QED
      BY <2>1, <2>3
  <1> QED
    BY <1>1, <1>2

\* The nested predicate is true exactly when some term's comparison is and all
\* the columns before it are equal.
LEMMA NestedPredicate ==
    ASSUME NEW terms, IsOrder(terms), terms # << >>, NEW values, NEW bounds, NEW row,
           \A i \in DOMAIN terms :
             ColumnAfter(terms[i], bounds[i], values[i], row[terms[i].column]) \in Truth
    PROVE  RecursiveAfter(terms, values, bounds, row) = T <=>
             \E i \in DOMAIN terms :
               /\ ColumnAfter(terms[i], bounds[i], values[i], row[terms[i].column]) = T
               /\ \A j \in 1..(i - 1) : row[terms[j].column] = bounds[j]
  <1> DEFINE n == Len(terms)
             gt == [i \in 1..n |-> ColumnAfter(terms[i], bounds[i], values[i], row[terms[i].column])]
             eq == [i \in 1..n |-> IsNotDistinctFrom(row[terms[i].column], bounds[i])]
             after == CHOOSE f : f = [i \in DOMAIN terms |->
                        IF i = Len(terms)
                        THEN ColumnAfter(terms[i], bounds[i], values[i], row[terms[i].column])
                        ELSE Or(ColumnAfter(terms[i], bounds[i], values[i], row[terms[i].column]),
                                And(IsNotDistinctFrom(row[terms[i].column], bounds[i]), f[i + 1]))]
  <1>1. n \in Nat /\ n # 0 /\ DOMAIN terms = 1..n
    BY OrderShape, EmptySeq DEF IsOrder
  <1>2. RecursiveAfter(terms, values, bounds, row) = after[1]
    BY DEF RecursiveAfter
  <1>3. /\ gt \in [1..n -> Truth] /\ eq \in [1..n -> {F, T}]
        /\ \A i \in 1..n : eq[i] = T <=> row[terms[i].column] = bounds[i]
    BY <1>1 DEF IsNotDistinctFrom, T, F
  <1>4. \A f : f = [i \in DOMAIN terms |->
                        IF i = Len(terms)
                        THEN ColumnAfter(terms[i], bounds[i], values[i], row[terms[i].column])
                        ELSE Or(ColumnAfter(terms[i], bounds[i], values[i], row[terms[i].column]),
                                And(IsNotDistinctFrom(row[terms[i].column], bounds[i]), f[i + 1]))]
               <=> Nests(f, n, gt, eq)
    <2> SUFFICES ASSUME NEW f
                 PROVE  [i \in DOMAIN terms |->
                          IF i = Len(terms)
                          THEN ColumnAfter(terms[i], bounds[i], values[i], row[terms[i].column])
                          ELSE Or(ColumnAfter(terms[i], bounds[i], values[i], row[terms[i].column]),
                                  And(IsNotDistinctFrom(row[terms[i].column], bounds[i]), f[i + 1]))]
                        = [i \in 1..n |-> IF i = n THEN gt[i] ELSE Or(gt[i], And(eq[i], f[i + 1]))]
      BY DEF Nests
    <2> QED
      BY <1>1
  <1>5. after = CHOOSE f : Nests(f, n, gt, eq)
    BY <1>4
  <1> HIDE DEF after
  <1>6. PICK g : Nests(g, n, gt, eq) /\ \A i \in 1..n : g[i] = T <=> T \in Reached(n, gt, eq, i)
    <2> HIDE DEF gt, eq, n
    <2> QED
      BY <1>1, <1>3, NestingExists
  <1>7. Nests(after, n, gt, eq)
    <2> HIDE DEF gt, eq, n
    <2> QED
      BY <1>5, <1>6
  <1>8. after = g
    <2> HIDE DEF gt, eq, n
    <2> QED
      BY <1>1, <1>6, <1>7, NestingIsUnique
  <1>9. after[1] = T <=> \E j \in 1..n : gt[j] = T /\ \A m \in 1..(j - 1) : eq[m] = T
    <2> HIDE DEF gt, eq, n
    <2> QED
      BY <1>1, <1>6, <1>8 DEF Reached
  <1>10. \A j \in 1..n : (\A m \in 1..(j - 1) : eq[m] = T)
                           <=> (\A m \in 1..(j - 1) : row[terms[m].column] = bounds[m])
    <2>1. \A j \in 1..n : 1..(j - 1) \subseteq 1..n
      BY <1>1
    <2> HIDE DEF gt, eq, n
    <2> QED
      BY <1>3, <2>1
  <1>11. \A j \in 1..n : gt[j] = ColumnAfter(terms[j], bounds[j], values[j], row[terms[j].column])
    OBVIOUS
  <1> HIDE DEF gt, eq, n
  <1>12. DOMAIN terms = 1..n
    BY <1>1
  <1> QED
    BY <1>2, <1>9, <1>10, <1>11, <1>12

\* A column's comparison is true exactly of the values ORDER BY puts later.
LEMMA ColumnAfterIsLater ==
    ASSUME NEW term, IsTerm(term), NEW value, IsValue(value), NEW x, IsValue(x)
    PROVE  /\ ColumnAfter(term, value, value, x) \in Truth
           /\ ColumnAfter(term, value, value, x) = T <=> ValuePrecedes(term, value, x)
  <1>1. EffectiveNulls(term) = "last" <=> ~NullsComeFirst(term)
    BY NullsAgree
  <1>2. term.descending \in BOOLEAN
    BY DEF IsTerm
  <1> QED
    BY <1>1, <1>2, NullIsNoValue
    DEF ColumnAfter, ValuePrecedes, IsValue, Truth, Less, NotEqual, IsNull, IsNotNull, Or, And, T, U, F

\* What a cursor bound in the seek predicate compares with is the row's own value.
LEMMA BoundIsValue ==
    ASSUME NEW column, NEW x
    PROVE  BindValue(column, EncodeValue(column, x)) = x /\ EncodeValue(column, x).value = x
  BY TextIsCast DEF BindValue, EncodeValue

\* The seek predicate of a cursor (keyset_where over what encode_keyset_cursor
\* wrote) is true of a row exactly when ORDER BY puts the row after the cursor's,
\* or before it where the page is read backwards: for every order, whatever its
\* directions and NULL placements, and every value, NULL included.
THEOREM SeekIsExact ==
    ASSUME NEW terms, IsOrder(terms), terms # << >>, NEW q, NEW row,
           Valued(terms, q), Valued(terms, row), NEW after \in BOOLEAN
    PROVE  KeysetWhere(terms, EncodeKeysetCursor(terms, q).values, after, row) = T <=>
             IF after THEN Precedes(terms, q, row) ELSE Precedes(terms, row, q)
  <1> DEFINE facing == IF after THEN terms ELSE ReverseOrder(terms)
             encoded == EncodeKeysetCursor(terms, q).values
             bounds == [i \in DOMAIN facing |-> BindValue(facing[i].column, encoded[i])]
             values == [i \in DOMAIN facing |-> encoded[i].value]
             n == Len(terms)
  <1>1. n \in Nat /\ DOMAIN terms = 1..n
    BY OrderShape
  <1>2. /\ IsOrder(facing) /\ facing # << >> /\ DOMAIN facing = 1..n
        /\ \A i \in 1..n : facing[i].column = terms[i].column
    <2>1. CASE after
      BY <1>1, <2>1
    <2>2. CASE ~after
      <3>1. /\ IsOrder(facing) /\ Len(facing) = n
            /\ \A i \in 1..n : facing[i].column = terms[i].column
        BY <2>2, ReversedTerms
      <3>2. n # 0
        BY EmptySeq DEF IsOrder
      <3> HIDE DEF facing
      <3>3. DOMAIN facing = 1..n
        BY <3>1, OrderShape
      <3>4. facing # << >>
        BY <1>1, <3>2, <3>3
      <3> QED
        BY <3>1, <3>3, <3>4
    <2> QED
      BY <2>1, <2>2
  <1>3. KeysetWhere(terms, encoded, after, row) = RecursiveAfter(facing, values, bounds, row)
    BY DEF KeysetWhere
  <1>4. \A i \in 1..n : encoded[i] = EncodeValue(terms[i].column, q[terms[i].column])
    BY <1>1 DEF EncodeKeysetCursor
  <1> HIDE DEF facing, encoded
  <1>5. \A i \in 1..n : bounds[i] = q[facing[i].column] /\ values[i] = q[facing[i].column]
    BY <1>2, <1>4, BoundIsValue
  <1>6. \A i \in 1..n : IsTerm(facing[i]) /\ IsValue(q[facing[i].column]) /\ IsValue(row[facing[i].column])
    BY <1>1, <1>2 DEF Valued, IsOrder
  <1> HIDE DEF bounds, values
  <1>7. ASSUME NEW i \in 1..n
        PROVE  /\ ColumnAfter(facing[i], bounds[i], values[i], row[facing[i].column]) \in Truth
               /\ ColumnAfter(facing[i], bounds[i], values[i], row[facing[i].column]) = T
                    <=> ValuePrecedes(facing[i], q[facing[i].column], row[facing[i].column])
    BY <1>5, <1>6, ColumnAfterIsLater
  <1>8. RecursiveAfter(facing, values, bounds, row) = T <=>
          \E i \in 1..n :
            /\ ColumnAfter(facing[i], bounds[i], values[i], row[facing[i].column]) = T
            /\ \A j \in 1..(i - 1) : row[facing[j].column] = bounds[j]
    BY <1>2, <1>7, NestedPredicate
  <1>9. \A i \in 1..n : 1..(i - 1) \subseteq 1..n
    BY <1>1
  <1>10. RecursiveAfter(facing, values, bounds, row) = T <=> Precedes(facing, q, row)
    BY <1>2, <1>5, <1>7, <1>8, <1>9 DEF Precedes
  <1>11. ~after => (Precedes(facing, q, row) <=> Precedes(terms, row, q))
    BY ReverseTurnsAround DEF facing
  <1> QED
    BY <1>3, <1>10, <1>11 DEF encoded, facing

-----------------------------------------------------------------------------
(* Digests                                                                 *)

\* Orders of one digest order rows alike, however they are written.
LEMMA DigestFixesOrder ==
    ASSUME NEW terms, NEW others, IsOrder(terms), IsOrder(others),
           OrderDigest(terms) = OrderDigest(others), NEW r, NEW q
    PROVE  Precedes(terms, r, q) <=> Precedes(others, r, q)
  <1> DEFINE n == Len(terms)
  <1>1. /\ DOMAIN terms = 1..n /\ n \in Nat /\ DOMAIN others = 1..n
        /\ \A i \in 1..n : OrderDigest(terms)[i] = OrderDigest(others)[i]
    BY OrderShape DEF OrderDigest
  <1>2. \A i \in 1..n :
          /\ OrderDigest(terms)[i] =
               <<terms[i].column, terms[i].descending, EffectiveNulls(terms[i])>>
          /\ OrderDigest(others)[i] =
               <<others[i].column, others[i].descending, EffectiveNulls(others[i])>>
    BY <1>1 DEF OrderDigest
  <1>3. \A i \in 1..n : /\ terms[i].column = others[i].column
                        /\ terms[i].descending = others[i].descending
                        /\ EffectiveNulls(terms[i]) = EffectiveNulls(others[i])
    BY <1>1, <1>2
  <1>4. \A i \in 1..n : NullsComeFirst(terms[i]) <=> NullsComeFirst(others[i])
    BY <1>1, <1>3, NullsAgree DEF IsOrder
  <1> HIDE DEF n
  <1>5. ASSUME NEW i \in 1..n, NEW x, NEW y
        PROVE  ValuePrecedes(terms[i], x, y) = ValuePrecedes(others[i], x, y)
    BY <1>3, <1>4 DEF ValuePrecedes
  <1>6. \A i \in 1..n : 1..(i - 1) \subseteq 1..n
    BY <1>1
  <1> QED
    BY <1>1, <1>3, <1>5, <1>6 DEF Precedes

\* A sequence and one more element.
LEMMA Appended ==
    ASSUME NEW R, NEW terms \in Seq(R), NEW term
    PROVE  Append(terms, term) =
             [i \in 1..(Len(terms) + 1) |-> IF i = Len(terms) + 1 THEN term ELSE terms[i]]
  <1> DEFINE S == R \cup {term}
             longer == Append(terms, term)
             n == Len(terms)
  <1>1. R \subseteq S /\ term \in S
    OBVIOUS
  <1> HIDE DEF S
  <1>2. terms \in Seq(S) /\ n \in Nat
    BY <1>1
  <1>3. /\ longer \in Seq(S) /\ Len(longer) = n + 1
        /\ \A i \in 1..n : longer[i] = terms[i]
        /\ longer[n + 1] = term
    BY <1>1, <1>2, AppendProperties
  <1> HIDE DEF longer, n
  <1>4. longer = [i \in 1..(n + 1) |-> longer[i]]
    BY <1>3
  <1>5. \A i \in 1..(n + 1) : longer[i] = IF i = n + 1 THEN term ELSE terms[i]
    <2>1. \A i \in 1..(n + 1) : i = n + 1 \/ i \in 1..n
      BY <1>2
    <2> QED
      BY <1>3, <2>1
  <1>6. longer = [i \in 1..(n + 1) |-> IF i = n + 1 THEN term ELSE terms[i]]
    BY <1>4, <1>5
  <1> QED
    BY <1>6 DEF longer, n

\* An order with one more term, and the terms it has then.
LEMMA LongerOrder ==
    ASSUME NEW terms, IsOrder(terms), NEW term, IsTerm(term)
    PROVE  LET longer == Append(terms, term)
               n == Len(terms)
           IN  /\ IsOrder(longer) /\ longer # << >>
               /\ n \in Nat /\ DOMAIN terms = 1..n /\ DOMAIN longer = 1..(n + 1)
               /\ longer = [i \in 1..(n + 1) |-> IF i = n + 1 THEN term ELSE terms[i]]
               /\ \A i \in 1..n : longer[i] = terms[i]
               /\ longer[n + 1] = term
  <1> DEFINE n == Len(terms)
             longer == Append(terms, term)
  <1>1. n \in Nat /\ DOMAIN terms = 1..n /\ \A i \in 1..n : IsTerm(terms[i])
    BY OrderShape DEF IsOrder
  <1>2. longer = [i \in 1..(n + 1) |-> IF i = n + 1 THEN term ELSE terms[i]]
    BY Appended DEF IsOrder
  <1> HIDE DEF longer, n
  <1>3. longer = [i \in 1..(n + 1) |-> longer[i]]
    BY <1>2
  <1>4. ASSUME NEW i \in 1..(n + 1) PROVE IsTerm(longer[i])
    <2>1. i = n + 1 \/ i \in 1..n
      BY <1>1
    <2> QED
      BY <1>1, <1>2, <2>1
  <1>5. IsOrder(longer) /\ Len(longer) = n + 1
    BY <1>1, <1>3, <1>4, OrderIntro
  <1>6. longer # << >>
    BY <1>1, <1>5
  <1>7. /\ \A i \in 1..n : longer[i] = terms[i]
        /\ longer[n + 1] = term
    BY <1>1, <1>2
  <1> QED
    BY <1>1, <1>2, <1>5, <1>6, <1>7 DEF longer, n

LEMMA TermsAreTerms ==
    ASSUME NEW column
    PROVE  LET term == OrderTerm(column, FALSE, NULL)
           IN  IsTerm(term) /\ term.column = column /\ term.descending = FALSE /\ term.nulls = NULL
  BY DEF IsTerm, OrderTerm

\* Every order a request pages by is an order, and has a term.
LEMMA NormalIsOrder ==
    ASSUME NEW orderBy, IsOrder(orderBy)
    PROVE  IsOrder(NormalizeOrder(orderBy, "id", FALSE)) /\ NormalizeOrder(orderBy, "id", FALSE) # << >>
  <1> DEFINE term == OrderTerm("id", FALSE, NULL)
             longer == Append(orderBy, term)
             normal == NormalizeOrder(orderBy, "id", FALSE)
  <1>1. normal = longer \/ (normal = orderBy /\ orderBy # << >>)
    BY DEF NormalizeOrder
  <1>2. IsTerm(term)
    BY TermsAreTerms
  <1> HIDE DEF term
  <1>3. IsOrder(longer) /\ longer # << >>
    BY <1>2, LongerOrder
  <1> HIDE DEF longer, normal
  <1>4. IsOrder(normal) /\ normal # << >>
    BY <1>1, <1>3
  <1> QED
    BY <1>4 DEF normal

LEMMA OrdersOfRequests ==
    ASSUME shape \in Shapes, NEW orderBy \in shape.orders
    PROVE  IsOrder(Order(orderBy)) /\ Order(orderBy) # << >>
  <1>1. IsOrder(orderBy)
    BY OrdersAreTerms
  <1>2. IsOrder(NormalizeOrder(orderBy, "id", FALSE)) /\ NormalizeOrder(orderBy, "id", FALSE) # << >>
    BY <1>1, NormalIsOrder
  <1>3. IsOrder(UnionOrder(orderBy)) /\ UnionOrder(orderBy) # << >>
    <2> DEFINE normal == NormalizeOrder(orderBy, "id", FALSE)
               term == OrderTerm("type", FALSE, NULL)
    <2>1. IsTerm(term)
      BY TermsAreTerms
    <2>2. IsOrder(normal)
      BY <1>2
    <2>3. UnionOrder(orderBy) = Append(normal, term)
      BY DEF UnionOrder
    <2> HIDE DEF normal, term
    <2> QED
      BY <2>1, <2>2, <2>3, LongerOrder
  <1> QED
    BY <1>2, <1>3 DEF Order

-----------------------------------------------------------------------------
(* A walk keeps its cursor's order                                         *)

Working == {"page", "count", "aggregate", "build"}

\* The client's cursor was minted under the order it remembers, and what a request
\* was accepted with is that cursor.
Minted ==
  bookmark.cursor # NoCursor =>
    /\ bookmark.order \in shape.orders
    /\ bookmark.cursor.digest = OrderDigest(Order(bookmark.order))

Accepted ==
  phase \in Working =>
    /\ args.order \in shape.orders
    /\ args.cursor = bookmark.cursor
    /\ args.cursor # NoCursor => DecodeAccepts(args.cursor, Order(args.order))

Cursors ==
  /\ shape \in Shapes
  /\ bookmark = [cursor |-> bookmark.cursor, offset |-> bookmark.offset, order |-> bookmark.order]
  /\ Minted
  /\ Accepted

LEMMA CursorsInit == Init => Cursors
  BY DEF Init, Cursors, Minted, Accepted, Working, NoCursor

\* The cursors of a page were minted under the order of its request.
LEMMA PagesMint ==
    ASSUME NEW group, NEW total, NEW aggs, NEW field \in {"startCursor", "endCursor"},
           BuildConnection(group, total, aggs)[field] # NoCursor
    PROVE  BuildConnection(group, total, aggs)[field].digest = OrderDigest(Order(args.order))
  <1> DEFINE page == Page(group)
             Cursor(i) == EncodeKeysetCursor(Order(args.order), page[i])
  <1>1. \A i : Cursor(i).digest = OrderDigest(Order(args.order))
    BY DEF EncodeKeysetCursor
  <1>2. \E i : BuildConnection(group, total, aggs)[field] = Cursor(i)
    <2> HIDE DEF Cursor
    <2>1. /\ BuildConnection(group, total, aggs).startCursor = IF page = << >> THEN NoCursor ELSE Cursor(1)
          /\ BuildConnection(group, total, aggs).endCursor = IF page = << >> THEN NoCursor ELSE Cursor(Len(page))
      BY DEF BuildConnection, Cursor
    <2> QED
      BY <2>1
  <1> HIDE DEF Cursor
  <1> QED
    BY <1>1, <1>2

LEMMA CursorsNext == Cursors /\ [Next]_vars => Cursors'
  <1> SUFFICES ASSUME Cursors, [Next]_vars PROVE Cursors'
    OBVIOUS
  <1> USE DEF Cursors
  <1>1. CASE Request
    <2>1. PICK order \in shape.orders :
            args'.order = order /\ args'.cursor = bookmark.cursor
      BY <1>1 DEF Request
    <2>2. phase' \in Working /\ bookmark.cursor # NoCursor =>
            DecodeAccepts(bookmark.cursor, Order(args'.order))
      BY <1>1 DEF Request, Working
    <2>3. shape' = shape /\ bookmark' = bookmark
      BY <1>1 DEF Request
    <2>4. \A o : Order(o)' = Order(o)
      BY <2>3 DEF Order
    <2>5. Minted'
      BY <2>3, <2>4 DEF Minted
    <2>6. Accepted'
      BY <2>1, <2>2, <2>3, <2>4 DEF Accepted
    <2> QED
      BY <2>3, <2>5, <2>6
  <1>2. CASE BuildResults
    <2> DEFINE mine == EntryResult(1)
    <2>1. phase' \notin Working /\ phase = "build" /\ shape' = shape /\ args' = args
      BY <1>2 DEF BuildResults, Working
    <2>2. out'[1] = mine
      BY <1>2, ShapesMatchColumns DEF BuildResults, Entries
    <2>3. CASE shape.kind \in Relay
      <3>1. /\ bookmark'.cursor = IF shape.reverse THEN mine.startCursor ELSE mine.endCursor
            /\ bookmark'.order = args.order
            /\ bookmark' = [cursor |-> bookmark'.cursor, offset |-> bookmark'.offset,
                            order |-> bookmark'.order]
        BY <1>2, <2>2, <2>3 DEF BuildResults
      <3>2. PICK group, total, aggs : mine = BuildConnection(group, total, aggs)
        BY <2>3 DEF EntryResult, ConnectionResult, UnionResult, UnionBuildConnection, Relay, Unions
      <3>3. bookmark'.cursor # NoCursor => bookmark'.cursor.digest = OrderDigest(Order(args.order))
        BY <3>1, <3>2, PagesMint
      <3>4. args.order \in shape.orders
        BY <2>1 DEF Accepted, Working
      <3>5. \A o : Order(o)' = Order(o)
        BY <2>1 DEF Order
      <3> QED
        BY <2>1, <3>1, <3>3, <3>4, <3>5 DEF Minted, Accepted, NoCursor
    <2>4. CASE shape.kind \notin Relay
      <3>1. /\ bookmark'.cursor = bookmark.cursor /\ bookmark'.order = bookmark.order
            /\ bookmark' = [cursor |-> bookmark'.cursor, offset |-> bookmark'.offset,
                            order |-> bookmark'.order]
        BY <1>2, <2>4 DEF BuildResults
      <3>2. \A o : Order(o)' = Order(o)
        BY <2>1 DEF Order
      <3> QED
        BY <2>1, <3>1, <3>2 DEF Minted, Accepted, NoCursor
    <2> QED
      BY <2>3, <2>4
  <1>3. ASSUME UNCHANGED <<shape, args, bookmark>>, phase' \in Working => phase \in Working
        PROVE  Cursors'
    <2>1. \A o : Order(o)' = Order(o)
      BY <1>3 DEF Order
    <2> QED
      BY <1>3, <2>1 DEF Minted, Accepted, NoCursor
  <1>4. CASE RunConnection \/ RunUnion \/ RunSelect \/ RunSelectAll
    <2>1. UNCHANGED <<shape, args, bookmark>> /\ phase = "page"
      BY <1>4 DEF RunConnection, RunUnion, RunSelect, RunSelectAll, PageReturned
    <2> QED
      BY <1>3, <2>1 DEF Working
  <1>5. CASE RunCount \/ RunAggregate
    <2>1. UNCHANGED <<shape, args, bookmark>> /\ phase \in {"count", "aggregate"}
      BY <1>5 DEF RunCount, RunAggregate
    <2> QED
      BY <1>3, <2>1 DEF Working
  <1>6. CASE (\E r \in Rows : Insert(r)) \/ (\E r \in Rows : Delete(r))
    <2>1. UNCHANGED <<shape, args, bookmark, phase>>
      BY <1>6 DEF Insert, Delete
    <2> QED
      BY <1>3, <2>1
  <1>7. CASE UNCHANGED vars
    <2>1. UNCHANGED <<shape, args, bookmark, phase>>
      BY <1>7 DEF vars
    <2> QED
      BY <1>3, <2>1
  <1> QED
    BY <1>1, <1>2, <1>4, <1>5, <1>6, <1>7 DEF Next

\* A cursor that is accepted was minted under the same ordering of the rows,
\* however its terms were written (order_digest, decode_keyset_cursor).
THEOREM AcceptedCursorsAreOfTheirOrder == Spec => []CursorsOfTheirOrder
  <1>1. Cursors => CursorsOfTheirOrder
    <2> SUFFICES ASSUME Cursors, phase \in Working, args.cursor # NoCursor, NEW r \in Rows, NEW q \in Rows
                 PROVE  Precedes(Order(args.order), r, q) <=> Precedes(Order(bookmark.order), r, q)
      BY DEF CursorsOfTheirOrder, Working
    <2>1. /\ args.order \in shape.orders /\ bookmark.order \in shape.orders
          /\ OrderDigest(Order(args.order)) = OrderDigest(Order(bookmark.order))
      BY DEF Cursors, Minted, Accepted, DecodeAccepts
    <2>2. IsOrder(Order(args.order)) /\ IsOrder(Order(bookmark.order))
      BY <2>1, OrdersOfRequests DEF Cursors
    <2> QED
      BY <2>1, <2>2, DigestFixesOrder
  <1> QED
    BY <1>1, CursorsInit, CursorsNext, PTL DEF Spec
-----------------------------------------------------------------------------
(* Counts and aggregates *)

\* The rows a count or an aggregate of the field is taken of.
CountScope(S) ==
  IF shape.kind = "connection" THEN Scope(S)
  ELSE UNION {CountBranchSelect(S, member) : member \in Members}

\* The key an entry's total is looked up by.
CountKey(e) == IF shape.kind \in Root THEN NULL ELSE Keys[e]

\* A key that is looked up has no missing component.
LEMMA KeysAreWhole ==
    ASSUME shape \in Shapes, NEW e \in Entries, NEW r, Keys[e] # NULL,
           GroupingKey(r, shape.match) = Keys[e]
    PROVE  \A i \in DOMAIN shape.match : r[shape.match[i]] # NULL
  <1> DEFINE raw == shape.bucket[e]
             n == Len(shape.match)
  <1>1. Keys[e] = NormalizeLookupKey(raw, n > 1)
    BY DEF Keys
  <1>2. n \in Nat /\ DOMAIN shape.match = 1..n
    BY ShapesMatchColumns, LenProperties
  <1>3. n > 1 /\ raw # NULL => DOMAIN raw = DOMAIN shape.match
    BY ShapesMatchColumns DEF Entries
  <1> HIDE DEF raw, n
  <1>4. CASE n = 1
    BY <1>2, <1>4 DEF GroupingKey, n
  <1>5. CASE n > 1
    <2>1. raw # NULL /\ Keys[e] = raw /\ \A i \in DOMAIN raw : raw[i] # NULL
      <3>1. Keys[e] = IF raw # NULL THEN IF \E i \in DOMAIN raw : raw[i] = NULL THEN NULL ELSE raw ELSE raw
        BY <1>1, <1>5 DEF NormalizeLookupKey
      <3>2. raw # NULL
        BY <3>1
      <3>3. ~ \E i \in DOMAIN raw : raw[i] = NULL
        BY <3>1, <3>2
      <3> QED
        BY <3>1, <3>2, <3>3
    <2>2. GroupingKey(r, shape.match) = [i \in DOMAIN shape.match |-> r[shape.match[i]]]
      <3>1. n # 1
        BY <1>2, <1>5
      <3> QED
        BY <3>1 DEF GroupingKey, n
    <2>3. \A i \in DOMAIN shape.match : raw[i] = r[shape.match[i]]
      BY <2>1, <2>2
    <2> QED
      BY <1>3, <1>5, <2>1, <2>3
  <1>6. CASE n = 0
    BY <1>2, <1>6
  <1> QED
    BY <1>2, <1>4, <1>5, <1>6

\* The rows of an entry are those of its key in what the count is taken of.
LEMMA ScopeIsOwn ==
    ASSUME shape \in Shapes, shape.kind \in Relay, NEW S, S \subseteq Rows, NEW e \in Entries
    PROVE  /\ shape.kind \notin Root =>
                OwnRows(e, S) = {r \in CountScope(S) : Partition(r) = Keys[e]}
           /\ shape.kind \in Root => OwnRows(e, S) = CountScope(S)
  <1>1. CountScope(S) = {r \in S : /\ r \in shape.where
                                   /\ shape.kind \in Unions \/ r.type = 1
                                   /\ shape.kind \in Root \/ MatchPredicate(r)}
    <2>1. CASE shape.kind = "connection"
      BY <2>1 DEF CountScope, Scope, Matching, Unions
    <2>2. CASE shape.kind # "connection"
      <3>1. shape.kind \in Unions
        BY <2>2 DEF Relay, Unions
      <3> QED
        BY <2>2, <3>1, RowsAreTyped DEF CountScope, CountBranchSelect, Matching
    <2> QED
      BY <2>1, <2>2
  <1>2. CASE shape.kind \in Root
    BY <1>1, <1>2 DEF OwnRows
  <1>3. CASE shape.kind \notin Root
    <2>1. ASSUME NEW r, MatchPredicate(r), GroupingKey(r, shape.match) = Keys[e]
          PROVE  Keys[e] # NULL
      BY <2>1 DEF MatchPredicate, UniqueKeys
    <2>2. ASSUME NEW r, Keys[e] # NULL, GroupingKey(r, shape.match) = Keys[e]
          PROVE  MatchPredicate(r)
      BY <2>2, KeysAreWhole DEF MatchPredicate, UniqueKeys
    <2> QED
      BY <1>1, <1>3, <2>1, <2>2 DEF OwnRows, Partition
  <1> QED
    BY <1>2, <1>3

\* What a grouped count answers for a key, present or not.
LEMMA CountsOfKeys ==
    ASSUME NEW scope, NEW k
    PROVE  Lookup(CountBy(scope), k, 0) = Cardinality({r \in scope : Partition(r) = k})
  <1>1. CASE k \in {Partition(r) : r \in scope}
    BY <1>1 DEF Lookup, CountBy
  <1>2. CASE k \notin {Partition(r) : r \in scope}
    <2>1. {r \in scope : Partition(r) = k} = {}
      BY <1>2
    <2> QED
      BY <1>2, <2>1, FS_EmptySet DEF Lookup, CountBy
  <1> QED
    BY <1>1, <1>2

-----------------------------------------------------------------------------
(* The totals of a page *)

\* The statements of the request saw one table.
OneTable == quiet \/ shape.snapshot

ExpectedAggregates(e) ==
  LET own == OwnRows(e, snap)
  IN  IF shape.groupBy
      THEN {AggregateRow({r \in own : r.a = x}, x) : x \in {r.a : r \in own}}
      ELSE {AggregateRow(own, NULL)}

RightTotals == \A e \in Entries : Lookup(totals, CountKey(e), 0) = Cardinality(OwnRows(e, snap))

RightAggregates ==
  \A e \in Entries :
    LET aggs == Lookup(aggregates, Keys[e], {})
    IN  (IF aggs = {} /\ ~shape.groupBy THEN {EmptyAggregates} ELSE aggs) = ExpectedAggregates(e)

Counting ==
  /\ shape \in Shapes
  /\ table \subseteq Rows /\ snap \subseteq Rows
  /\ quiet => snap = table
  /\ shape.kind \in Relay /\ OneTable /\ phase \in {"aggregate", "build"} /\ shape.total => RightTotals
  /\ shape.kind \in Relay /\ OneTable /\ phase = "build" /\ shape.aggregates => RightAggregates
  /\ TotalsAgree

\* A count of the page's snapshot is right for every entry.
LEMMA CountsAreRight ==
    /\ shape \in Shapes /\ shape.kind \in Relay /\ snap \subseteq Rows
    /\ totals = (IF shape.kind \in Unions THEN UnionCountQuery(snap) ELSE CountQuery(snap))
    => RightTotals
  <1> SUFFICES ASSUME shape \in Shapes, shape.kind \in Relay, snap \subseteq Rows,
                      totals = IF shape.kind \in Unions THEN UnionCountQuery(snap) ELSE CountQuery(snap),
                      NEW e \in Entries
               PROVE  Lookup(totals, CountKey(e), 0) = Cardinality(OwnRows(e, snap))
    BY DEF RightTotals
  <1>1. shape.kind \in Root => shape.kind \in Unions /\ shape.kind # "connection"
    BY DEF Relay, Root, Unions
  <1>2. shape.kind \in Unions <=> shape.kind # "connection"
    BY DEF Relay, Unions
  <1>3. CASE shape.kind \in Root
    <2>1. totals = [k \in {NULL} |-> Cardinality(CountScope(snap))]
      BY <1>1, <1>3 DEF UnionCountQuery, CountScope
    <2>2. Lookup(totals, CountKey(e), 0) = Cardinality(CountScope(snap))
      BY <1>3, <2>1 DEF Lookup, CountKey
    <2> QED
      BY <1>3, <2>2, ScopeIsOwn
  <1>4. CASE shape.kind \notin Root
    <2>1. totals = CountBy(CountScope(snap))
      BY <1>2, <1>4 DEF UnionCountQuery, CountQuery, CountScope
    <2>2. Lookup(totals, CountKey(e), 0) = Cardinality({r \in CountScope(snap) : Partition(r) = Keys[e]})
      BY <1>4, <2>1, CountsOfKeys DEF CountKey
    <2> QED
      BY <1>4, <2>2, ScopeIsOwn
  <1> QED
    BY <1>3, <1>4

\* Aggregates of the page's snapshot are right for every entry.
LEMMA AggregatesAreRight ==
    /\ shape \in Shapes /\ shape.kind = "connection" /\ snap \subseteq Rows
    /\ aggregates = AggregateQuery(snap)
    => RightAggregates
  <1> SUFFICES ASSUME shape \in Shapes, shape.kind = "connection", snap \subseteq Rows,
                      aggregates = AggregateQuery(snap), NEW e \in Entries
               PROVE  LET aggs == Lookup(aggregates, Keys[e], {})
                      IN  (IF aggs = {} /\ ~shape.groupBy THEN {EmptyAggregates} ELSE aggs)
                            = ExpectedAggregates(e)
    BY DEF RightAggregates
  <1> DEFINE scope == Scope(snap)
             k == Keys[e]
             own == {r \in scope : Partition(r) = k}
             aggs == Lookup(aggregates, k, {})
             groups == IF shape.groupBy THEN {{r \in own : r.a = q.a} : q \in own} ELSE {own}
             group(G) == IF shape.groupBy THEN (CHOOSE r \in G : TRUE).a ELSE NULL
  <1>1. OwnRows(e, snap) = own
    BY ScopeIsOwn DEF CountScope, Relay, Root
  <1>2. CASE k \in {Partition(r) : r \in scope}
    <2>1. aggs = {AggregateRow(G, group(G)) : G \in groups}
      BY <1>2 DEF AggregateQuery, Lookup
    <2>2. CASE shape.groupBy
      <3>1. ASSUME NEW q \in own
            PROVE  LET G == {r \in own : r.a = q.a} IN group(G) = q.a
        <4> DEFINE G == {r \in own : r.a = q.a}
        <4>1. q \in G
          OBVIOUS
        <4> HIDE DEF own
        <4>2. (CHOOSE r \in G : TRUE) \in G
          BY <4>1
        <4> QED
          BY <2>2, <4>2
      <3> HIDE DEF own
      <3>2. aggs = {AggregateRow({r \in own : r.a = q.a}, q.a) : q \in own}
        <4> DEFINE Part(q) == {r \in own : r.a = q.a}
                   Row(G) == AggregateRow(G, group(G))
        <4>1. aggs = {Row(G) : G \in {Part(q) : q \in own}}
          BY <2>1, <2>2
        <4>2. \A q \in own : Row(Part(q)) = AggregateRow(Part(q), q.a)
          BY <3>1
        <4> HIDE DEF Row, aggs
        <4>3. aggs = {Row(Part(q)) : q \in own}
          BY <4>1
        <4> QED
          BY <4>2, <4>3
      <3>3. aggs = {AggregateRow({r \in own : r.a = x}, x) : x \in {r.a : r \in own}}
        <4> DEFINE Of(x) == AggregateRow({r \in own : r.a = x}, x)
        <4>1. aggs = {Of(q.a) : q \in own}
          BY <3>2
        <4> HIDE DEF Of, aggs
        <4>2. aggs = {Of(x) : x \in {r.a : r \in own}}
          BY <4>1
        <4> QED
          BY <4>2 DEF Of
      <3> QED
        BY <1>1, <2>2, <3>3 DEF ExpectedAggregates
    <2>3. CASE ~shape.groupBy
      <3>1. aggs = {AggregateRow(own, NULL)}
        BY <2>1, <2>3
      <3> HIDE DEF own, aggs
      <3> QED
        BY <1>1, <2>3, <3>1 DEF ExpectedAggregates, aggs
    <2> QED
      BY <2>2, <2>3
  <1>3. CASE k \notin {Partition(r) : r \in scope}
    <2>1. own = {}
      BY <1>3
    <2>2. aggs = {}
      BY <1>3 DEF AggregateQuery, Lookup
    <2>3. EmptyAggregates = AggregateRow({}, NULL)
      BY FS_EmptySet DEF EmptyAggregates, AggregateRow
    <2> HIDE DEF own
    <2>4. ExpectedAggregates(e) = IF shape.groupBy THEN {} ELSE {EmptyAggregates}
      BY <1>1, <2>1, <2>3 DEF ExpectedAggregates
    <2> QED
      BY <2>2, <2>4
  <1> QED
    BY <1>2, <1>3
\* A bucket without a key owns no row, and its request runs no statement.
LEMMA NoKeyNoRows ==
    /\ shape \in Shapes /\ shape.kind \notin Root /\ UniqueKeys = {}
    /\ totals = << >> /\ aggregates = << >>
    => RightTotals /\ RightAggregates
  <1> SUFFICES ASSUME shape \in Shapes, shape.kind \notin Root, UniqueKeys = {},
                      totals = << >>, aggregates = << >>
               PROVE  RightTotals /\ RightAggregates
    OBVIOUS
  <1>1. \A e \in Entries : Keys[e] = NULL
    BY DEF UniqueKeys
  <1>2. \A e \in Entries : OwnRows(e, snap) = {}
    BY <1>1 DEF OwnRows
  <1>3. \A k, default : Lookup(<< >>, k, default) = default
    BY DEF Lookup
  <1>4. RightTotals
    BY <1>2, <1>3, FS_EmptySet DEF RightTotals
  <1>5. EmptyAggregates = AggregateRow({}, NULL)
    BY FS_EmptySet DEF EmptyAggregates, AggregateRow
  <1>6. \A e \in Entries : ExpectedAggregates(e) = IF shape.groupBy THEN {} ELSE {EmptyAggregates}
    BY <1>2, <1>5 DEF ExpectedAggregates
  <1>7. RightAggregates
    BY <1>3, <1>6 DEF RightAggregates
  <1> QED
    BY <1>4, <1>7

\* Nothing else of the state matters to what totals and aggregates should be.
LEMMA RightStays ==
    ASSUME UNCHANGED <<shape, snap>>
    PROVE  /\ totals' = totals => RightTotals' = RightTotals
           /\ aggregates' = aggregates => RightAggregates' = RightAggregates
  <1>1. Keys' = Keys /\ Entries' = Entries
    BY DEF Keys, Entries
  <1>2. \A e : OwnRows(e, snap)' = OwnRows(e, snap)
    BY <1>1 DEF OwnRows
  <1>3. \A e : CountKey(e)' = CountKey(e)
    BY <1>1 DEF CountKey
  <1>4. \A e : ExpectedAggregates(e)' = ExpectedAggregates(e)
    BY <1>2 DEF ExpectedAggregates
  <1> QED
    BY <1>1, <1>2, <1>3, <1>4 DEF RightTotals, RightAggregates

\* Of the state, a count and an aggregate depend on the field and its table alone.
LEMMA QueriesOfShape ==
    ASSUME UNCHANGED <<shape, snap>>
    PROVE  /\ UnionCountQuery(snap)' = UnionCountQuery(snap)
           /\ CountQuery(snap)' = CountQuery(snap)
           /\ AggregateQuery(snap)' = AggregateQuery(snap)
  <1>1. UniqueKeys' = UniqueKeys
    BY DEF UniqueKeys, Keys, Entries
  <1>2. \A r : Partition(r)' = Partition(r) /\ MatchPredicate(r)' = MatchPredicate(r)
    BY <1>1 DEF Partition, MatchPredicate
  <1>3. \A S : Matching(S)' = Matching(S)
    BY <1>2 DEF Matching
  <1>4. Scope(snap)' = Scope(snap)
    BY <1>3 DEF Scope
  <1>5. \A scope : CountBy(scope)' = CountBy(scope)
    BY <1>2 DEF CountBy
  <1>6. \A member : CountBranchSelect(snap, member)' = CountBranchSelect(snap, member)
    BY <1>3 DEF CountBranchSelect
  <1>7. CountQuery(snap)' = CountQuery(snap)
    BY <1>4, <1>5 DEF CountQuery
  <1>8. UnionCountQuery(snap)' = UnionCountQuery(snap)
    BY <1>5, <1>6 DEF UnionCountQuery
  <1>9. AggregateQuery(snap)' = AggregateQuery(snap)
    BY <1>2, <1>4 DEF AggregateQuery
  <1> QED
    BY <1>7, <1>8, <1>9

LEMMA CountingInit == Init => Counting
  <1> SUFFICES ASSUME Init PROVE Counting
    OBVIOUS
  <1>1. TotalsAgree
    BY DEF Init, TotalsAgree, Answered
  <1> QED
    BY <1>1, TablesAreOfRows DEF Init, Counting

\* A Relay field's result is a connection with the total of its key.
LEMMA RelayResults ==
    ASSUME NEW e, shape.kind \in Relay
    PROVE  /\ shape.kind = "connection" => EntryResult(e) = ConnectionResult(e)
           /\ \E group, aggs :
                EntryResult(e) = BuildConnection(group, Lookup(totals, CountKey(e), 0), aggs)
  <1>1. CASE shape.kind = "connection"
    <2>1. EntryResult(e) = ConnectionResult(e)
      BY <1>1, Zenon DEF EntryResult, Unions
    <2>2. CountKey(e) = Keys[e]
      BY <1>1 DEF CountKey, Root
    <2> QED
      BY <2>1, <2>2 DEF ConnectionResult
  <1>2. CASE shape.kind \in Unions
    <2>1. EntryResult(e) = UnionResult(e)
      BY <1>2 DEF EntryResult, Unions
    <2>2. CASE shape.kind = "union_root"
      <3>1. CountKey(e) = NULL
        BY <2>2 DEF CountKey, Root
      <3>2. UnionResult(e) = BuildConnection(rows, Lookup(totals, CountKey(e), 0), {})
        BY <2>2, <3>1 DEF UnionResult, UnionBuildConnection
      <3>3. shape.kind # "connection"
        BY <2>2
      <3> QED
        BY <2>1, <3>2, <3>3
    <2>3. CASE shape.kind # "union_root"
      <3>1. CountKey(e) = Keys[e]
        BY <1>2, <2>3 DEF CountKey, Root, Unions
      <3>2. UnionResult(e) = BuildConnection(Scatter(e), Lookup(totals, CountKey(e), 0), {})
        BY <2>3, <3>1 DEF UnionResult, UnionBuildConnection
      <3>3. shape.kind # "connection"
        BY <1>2 DEF Unions
      <3> QED
        BY <2>1, <3>2, <3>3
    <2> QED
      BY <2>2, <2>3
  <1> QED
    BY <1>1, <1>2 DEF Relay, Unions

\* What the count and the aggregate found is what the page reports.
LEMMA ReportsAgree ==
    ASSUME Counting, BuildResults
    PROVE  TotalsAgree'
  <1> SUFFICES ASSUME shape'.kind \in Relay, quiet' \/ shape'.snapshot, NEW e \in Entries'
               PROVE  LET own == OwnRows(e, snap)'
                      IN  /\ shape'.total => out'[e].totalCount = Cardinality(own)
                          /\ shape'.aggregates =>
                               IF shape'.groupBy
                               THEN out'[e].aggregates =
                                      {AggregateRow({r \in own : r.a = x}, x) : x \in {r.a : r \in own}}
                               ELSE out'[e].aggregates = {AggregateRow(own, NULL)}
    BY DEF TotalsAgree
  <1>1. /\ UNCHANGED <<shape, snap, quiet>> /\ phase = "build"
        /\ out' = [d \in Entries |-> EntryResult(d)]
    BY DEF BuildResults
  <1>2. e \in Entries /\ OneTable /\ shape.kind \in Relay
    BY <1>1 DEF Entries, OneTable
  <1>3. shape.total => RightTotals
    BY <1>1, <1>2 DEF Counting
  <1>4. shape.aggregates => RightAggregates /\ shape.kind = "connection"
    BY <1>1, <1>2, OnlyConnectionsAggregate DEF Counting
  <1>5. out'[e].totalCount = Lookup(totals, CountKey(e), 0)
    <2>1. out'[e] = EntryResult(e)
      BY <1>1, <1>2
    <2>2. PICK group, aggs : EntryResult(e) = BuildConnection(group, Lookup(totals, CountKey(e), 0), aggs)
      BY <1>2, RelayResults
    <2> QED
      BY <2>1, <2>2 DEF BuildConnection
  <1>6. shape.aggregates => out'[e].aggregates = ExpectedAggregates(e)
    <2> SUFFICES ASSUME shape.aggregates PROVE out'[e].aggregates = ExpectedAggregates(e)
      OBVIOUS
    <2> DEFINE aggs == Lookup(aggregates, Keys[e], {})
    <2>1. out'[e] = BuildConnection(Scatter(e), Lookup(totals, Keys[e], 0), aggs)
      BY <1>1, <1>2, <1>4, RelayResults DEF ConnectionResult
    <2>2. out'[e].aggregates = IF aggs = {} /\ ~shape.groupBy THEN {EmptyAggregates} ELSE aggs
      BY <2>1 DEF BuildConnection
    <2> QED
      BY <1>2, <1>4, <2>2 DEF RightAggregates
  <1>7. OwnRows(e, snap)' = OwnRows(e, snap)
    BY <1>1 DEF OwnRows, Keys, Entries
  <1>8. shape.total => out'[e].totalCount = Cardinality(OwnRows(e, snap))
    BY <1>2, <1>3, <1>5 DEF RightTotals
  <1>9. shape.aggregates =>
          IF shape.groupBy
          THEN out'[e].aggregates = {AggregateRow({r \in OwnRows(e, snap) : r.a = x}, x) :
                                       x \in {r.a : r \in OwnRows(e, snap)}}
          ELSE out'[e].aggregates = {AggregateRow(OwnRows(e, snap), NULL)}
    BY <1>6 DEF ExpectedAggregates
  <1> DEFINE own == OwnRows(e, snap)
  <1>10. OwnRows(e, snap)' = own
    BY <1>7
  <1> HIDE DEF own
  <1> QED
    BY <1>1, <1>8, <1>9, <1>10 DEF own
LEMMA CountingNext == Counting /\ [Next]_vars => Counting'
  <1> SUFFICES ASSUME Counting, [Next]_vars PROVE Counting'
    OBVIOUS
  <1>0. /\ shape \in Shapes /\ table \subseteq Rows /\ snap \subseteq Rows
        /\ quiet => snap = table
    BY DEF Counting
  <1>1. CASE Request
    <2>1. /\ UNCHANGED <<shape, table>> /\ snap' = table /\ out' = << >>
          /\ totals' = << >> /\ aggregates' = << >>
      BY <1>1 DEF Request
    <2>2. phase' \notin {"aggregate", "count"}
          /\ (phase' = "build" => shape.kind \notin Root /\ UniqueKeys = {})
      BY <1>1 DEF Request
    <2>3. TotalsAgree'
      BY <2>1 DEF TotalsAgree, Answered
    <2>4. UniqueKeys' = UniqueKeys
      BY <2>1 DEF UniqueKeys, Keys, Entries
    <2>5. phase' = "build" => RightTotals' /\ RightAggregates'
      <3>1. (/\ shape \in Shapes /\ shape.kind \notin Root /\ UniqueKeys = {}
             /\ totals = << >> /\ aggregates = << >>
             => RightTotals /\ RightAggregates)'
        BY NoKeyNoRows, PTL
      <3> QED
        BY <1>0, <2>1, <2>2, <2>4, <3>1
    <2> QED
      BY <1>0, <2>1, <2>2, <2>3, <2>5 DEF Counting
  <1>2. ASSUME NEW result, NEW next, PageReturned(result, next),
               next \in {"aggregate", "build"} => shape.kind \notin Relay \/ ~shape.total,
               next = "build" => shape.kind \notin Relay \/ ~shape.aggregates,
               next \notin {"client", "over"}
        PROVE  Counting'
    <2>1. /\ UNCHANGED <<shape, table, out, totals, aggregates>> /\ snap' = table
          /\ phase' = next /\ phase = "page"
      BY <1>2 DEF PageReturned
    <2>2. TotalsAgree'
      BY <1>2, <2>1 DEF TotalsAgree, Answered
    <2> QED
      BY <1>0, <1>2, <2>1, <2>2 DEF Counting
  <1>3. CASE RunConnection \/ RunUnion
    <2>1. PICK result : PageReturned(result, AfterPage)
      BY <1>3 DEF RunConnection, RunUnion
    <2>2. shape.aggregates => shape.kind = "connection"
      BY <1>0, OnlyConnectionsAggregate
    <2>3. /\ AfterPage \in {"aggregate", "build"} => ~shape.total
          /\ AfterPage = "build" => ~shape.aggregates
          /\ AfterPage \notin {"client", "over"}
      BY <2>2 DEF AfterPage, AfterCount
    <2> QED
      BY <1>2, <2>1, <2>3
  <1>4. CASE RunSelect \/ RunSelectAll
    <2>1. PICK result : PageReturned(result, "build")
      BY <1>4 DEF RunSelect, RunSelectAll
    <2>2. shape.kind \notin Relay
      BY <1>4 DEF RunSelect, RunSelectAll, Relay
    <2> QED
      BY <1>2, <2>1, <2>2
  <1>5. CASE RunCount
    <2>1. /\ UNCHANGED <<shape, table, out, aggregates, snap, quiet>>
          /\ phase' = AfterCount /\ phase = "count"
          /\ totals' = IF shape.kind \in Unions THEN UnionCountQuery(Visible) ELSE CountQuery(Visible)
      BY <1>5 DEF RunCount
    <2>2. shape.aggregates => shape.kind = "connection"
      BY <1>0, OnlyConnectionsAggregate
    <2>3. phase' = "build" => ~shape.aggregates
      BY <2>1, <2>2 DEF AfterCount
    <2>4. phase' \notin {"client", "over"}
      BY <2>1 DEF AfterCount
    <2>5. TotalsAgree'
      BY <2>1, <2>4 DEF TotalsAgree, Answered
    <2>6. ASSUME shape.kind \in Relay, OneTable PROVE RightTotals'
      <3>1. Visible = snap
        BY <1>0, <2>6 DEF Visible, OneTable
      <3>2. /\ UnionCountQuery(snap)' = UnionCountQuery(snap)
            /\ CountQuery(snap)' = CountQuery(snap)
        BY <2>1, QueriesOfShape
      <3>3. (/\ shape \in Shapes /\ shape.kind \in Relay /\ snap \subseteq Rows
             /\ totals = (IF shape.kind \in Unions THEN UnionCountQuery(snap) ELSE CountQuery(snap))
             => RightTotals)'
        BY CountsAreRight, PTL
      <3> QED
        BY <1>0, <2>1, <2>6, <3>1, <3>2, <3>3
    <2> QED
      BY <1>0, <2>1, <2>3, <2>5, <2>6 DEF Counting, OneTable
  <1>6. CASE RunAggregate
    <2>1. /\ UNCHANGED <<shape, table, out, totals, snap, quiet>>
          /\ phase' = "build" /\ phase = "aggregate"
          /\ aggregates' = AggregateQuery(Visible)
      BY <1>6 DEF RunAggregate
    <2>2. TotalsAgree'
      BY <2>1 DEF TotalsAgree, Answered
    <2>3. ASSUME shape.aggregates, OneTable PROVE RightAggregates'
      <3>1. Visible = snap
        BY <1>0, <2>3 DEF Visible, OneTable
      <3>2. AggregateQuery(snap)' = AggregateQuery(snap)
        BY <2>1, QueriesOfShape
      <3>3. (/\ shape \in Shapes /\ shape.kind = "connection" /\ snap \subseteq Rows
             /\ aggregates = AggregateQuery(snap)
             => RightAggregates)'
        BY AggregatesAreRight, PTL
      <3> QED
        BY <1>0, <2>1, <2>3, <3>1, <3>2, <3>3, OnlyConnectionsAggregate
    <2>4. shape.kind \in Relay /\ OneTable /\ shape.total => RightTotals'
      BY <2>1, RightStays DEF Counting
    <2> QED
      BY <1>0, <2>1, <2>2, <2>3, <2>4 DEF Counting, OneTable
  <1>7. CASE BuildResults
    <2>1. /\ UNCHANGED <<shape, table, totals, aggregates, snap, quiet>>
          /\ phase' \in {"client", "over"}
      BY <1>7 DEF BuildResults
    <2>2. TotalsAgree'
      BY <1>7, ReportsAgree
    <2> QED
      BY <1>0, <2>1, <2>2 DEF Counting
  <1>8. ASSUME UNCHANGED <<shape, phase, totals, aggregates, out, snap>>,
               table' \subseteq Rows, quiet' => quiet /\ table' = table
        PROVE  Counting'
    <2>1. OneTable' => OneTable
      BY <1>8 DEF OneTable
    <2>2. RightTotals' = RightTotals /\ RightAggregates' = RightAggregates
      BY <1>8, RightStays
    <2>3. TotalsAgree'
      <3>1. \A e : OwnRows(e, snap)' = OwnRows(e, snap)
        BY <1>8 DEF OwnRows, Keys, Entries
      <3>2. Answered' = Answered /\ Entries' = Entries
        BY <1>8 DEF Answered, Entries
      <3>3. TotalsAgree
        BY DEF Counting
      <3> QED
        BY <1>8, <3>1, <3>2, <3>3 DEF TotalsAgree
    <2> QED
      BY <1>0, <1>8, <2>1, <2>2, <2>3 DEF Counting
  <1>9. CASE (\E r \in Rows : Insert(r)) \/ (\E r \in Rows : Delete(r))
    <2>1. /\ UNCHANGED <<shape, phase, totals, aggregates, out, snap>>
          /\ table' \subseteq Rows /\ quiet' = FALSE
      BY <1>0, <1>9 DEF Insert, Delete
    <2> QED
      BY <1>8, <2>1
  <1>10. CASE UNCHANGED vars
    <2>1. UNCHANGED <<shape, phase, totals, aggregates, out, snap, table, quiet>>
      BY <1>10 DEF vars
    <2> QED
      BY <1>0, <1>8, <2>1
  <1> QED
    BY <1>1, <1>3, <1>4, <1>5, <1>6, <1>7, <1>9, <1>10 DEF Next

\* The count and the aggregates are of all the rows of the entry's key, not of its
\* page, when they saw the page's snapshot (run_queries' separate statements).
THEOREM TotalsAreOfTheirKeys == Spec => []TotalsAgree
  <1>1. Counting => TotalsAgree
    BY DEF Counting
  <1> QED
    BY <1>1, CountingInit, CountingNext, PTL DEF Spec

-----------------------------------------------------------------------------
(* Enumerations                                                            *)

\* earlier gives a strict total order of the finite set S.
StrictOrder(S, earlier) ==
  /\ IsFiniteSet(S)
  /\ earlier \in [S -> SUBSET S]
  /\ \A r \in S : r \notin earlier[r]
  /\ \A q, r \in S : q = r \/ q \in earlier[r] \/ r \in earlier[q]
  /\ \A p, q, r \in S : p \in earlier[q] /\ q \in earlier[r] => p \in earlier[r]

\* The sequence of length n has every element of S, in the order.
Lists(sequence, n, S, earlier) ==
  /\ n \in Nat
  /\ sequence \in [1..n -> S]
  /\ \A r \in S : \E i \in 1..n : sequence[i] = r
  /\ \A i, j \in 1..n : i < j => sequence[i] \in earlier[sequence[j]]

\* How many come before an element grows along the order.
LEMMA EarlierCounts ==
    ASSUME NEW S, NEW earlier, StrictOrder(S, earlier)
    PROVE  /\ Cardinality(S) \in Nat
           /\ \A r \in S : Cardinality(earlier[r]) \in 0..(Cardinality(S) - 1)
           /\ \A q, r \in S : q \in earlier[r] => Cardinality(earlier[q]) < Cardinality(earlier[r])
  <1>1. Cardinality(S) \in Nat
    BY FS_CardinalityType DEF StrictOrder
  <1>2. ASSUME NEW r \in S PROVE IsFiniteSet(earlier[r]) /\ Cardinality(earlier[r]) \in Nat
    BY <1>2, FS_Subset, FS_CardinalityType DEF StrictOrder
  <1>3. ASSUME NEW r \in S, NEW larger \in SUBSET S, earlier[r] \cup {r} \subseteq larger
        PROVE  Cardinality(earlier[r]) < Cardinality(larger)
    <2>1. Cardinality(earlier[r] \cup {r}) = Cardinality(earlier[r]) + 1
      BY <1>2, FS_AddElement DEF StrictOrder
    <2>2. IsFiniteSet(larger) /\ Cardinality(larger) \in Nat
      BY FS_Subset, FS_CardinalityType DEF StrictOrder
    <2>3. Cardinality(earlier[r] \cup {r}) <= Cardinality(larger)
      BY <1>3, <2>2, FS_Subset
    <2> QED
      BY <1>2, <2>1, <2>2, <2>3
  <1>4. ASSUME NEW r \in S PROVE Cardinality(earlier[r]) \in 0..(Cardinality(S) - 1)
    <2>1. earlier[r] \cup {r} \subseteq S
      BY DEF StrictOrder
    <2> QED
      BY <1>1, <1>2, <1>3, <2>1
  <1>5. ASSUME NEW q \in S, NEW r \in S, q \in earlier[r]
        PROVE  Cardinality(earlier[q]) < Cardinality(earlier[r])
    <2>1. earlier[q] \cup {q} \subseteq earlier[r] /\ earlier[r] \in SUBSET S
      BY <1>5 DEF StrictOrder
    <2> QED
      BY <1>3, <2>1
  <1> QED
    BY <1>1, <1>4, <1>5

\* No two elements have equally many before them.
LEMMA EarlierDistinguishes ==
    ASSUME NEW S, NEW earlier, StrictOrder(S, earlier), NEW q \in S, NEW r \in S,
           Cardinality(earlier[q]) = Cardinality(earlier[r])
    PROVE  q = r
  <1>1. \A s \in S : Cardinality(earlier[s]) \in Nat
    BY EarlierCounts
  <1>2. q \notin earlier[r] /\ r \notin earlier[q]
    BY <1>1, EarlierCounts
  <1> QED
    BY <1>2 DEF StrictOrder

\* Enumerate lists the set.
LEMMA EnumerateLists ==
    ASSUME NEW S, NEW earlier, StrictOrder(S, earlier)
    PROVE  Lists(Enumerate(S, earlier), Cardinality(S), S, earlier)
  <1> DEFINE n == Cardinality(S)
             rank == [r \in S |-> Cardinality(earlier[r])]
             places == 0..(n - 1)
             sequence == Enumerate(S, earlier)
  <1>1. n \in Nat /\ \A r \in S : Cardinality(earlier[r]) \in places
    BY EarlierCounts
  <1>2. rank \in Injection(S, places)
    <2>1. rank \in [S -> places]
      BY <1>1
    <2>2. \A q, r \in S : rank[q] = rank[r] => q = r
      BY EarlierDistinguishes
    <2> QED
      BY <2>1, <2>2 DEF Injection, IsInjective
  <1>3. IsFiniteSet(places) /\ Cardinality(places) = n
    BY <1>1, FS_Interval
  <1>4. rank \in Surjection(S, places)
    <2> HIDE DEF rank, places
    <2> QED
      BY <1>2, <1>3, FS_Injection DEF n
  <1>5. \A i \in 1..n : \E r \in S : Cardinality(earlier[r]) = i - 1
    <2>1. \A i \in 1..n : i - 1 \in places
      BY <1>1
    <2>2. \A t \in places : \E r \in S : rank[r] = t
      BY <1>4 DEF Surjection
    <2> QED
      BY <2>1, <2>2
  <1>6. \A i \in 1..n : sequence[i] \in S /\ Cardinality(earlier[sequence[i]]) = i - 1
    BY <1>5 DEF Enumerate
  <1>7. sequence = [i \in 1..n |-> sequence[i]]
    BY DEF Enumerate
  <1> HIDE DEF sequence, n
  <1>8. ASSUME NEW r \in S PROVE \E i \in 1..n : sequence[i] = r
    <2>1. Cardinality(earlier[r]) + 1 \in 1..n
      BY <1>1
    <2>2. Cardinality(earlier[sequence[Cardinality(earlier[r]) + 1]]) = Cardinality(earlier[r])
      BY <1>1, <1>6, <2>1
    <2> QED
      BY <1>6, <2>1, <2>2, EarlierDistinguishes
  <1>9. ASSUME NEW i \in 1..n, NEW j \in 1..n, i < j
        PROVE  sequence[i] \in earlier[sequence[j]]
    <2>1. sequence[i] # sequence[j]
      BY <1>1, <1>6, <1>9
    <2>2. sequence[j] \notin earlier[sequence[i]]
      BY <1>1, <1>6, <1>9, EarlierCounts
    <2> QED
      BY <1>6, <2>1, <2>2 DEF StrictOrder
  <1> QED
    BY <1>1, <1>6, <1>7, <1>8, <1>9 DEF Lists, sequence, n

\* And nothing else does.
LEMMA OnlyEnumerateLists ==
    ASSUME NEW S, NEW earlier, StrictOrder(S, earlier), NEW n, NEW sequence,
           Lists(sequence, n, S, earlier)
    PROVE  n = Cardinality(S) /\ sequence = Enumerate(S, earlier)
  <1>1. /\ n \in Nat /\ sequence \in [1..n -> S]
        /\ \A r \in S : \E i \in 1..n : sequence[i] = r
        /\ \A i, j \in 1..n : i < j => sequence[i] \in earlier[sequence[j]]
    BY DEF Lists
  <1>2. ASSUME NEW i \in 1..n, NEW j \in 1..n, sequence[i] = sequence[j] PROVE i = j
    <2>1. ~(i < j) /\ ~(j < i)
      BY <1>1, <1>2 DEF StrictOrder
    <2> QED
      BY <2>1
  <1>3. n = Cardinality(S)
    <2>1. sequence \in Bijection(1..n, S)
      BY <1>1, <1>2 DEF Bijection, Injection, Surjection, IsInjective
    <2> QED
      BY <1>1, <2>1, FS_CountingElements DEF ExistsBijection
  <1>4. ASSUME NEW i \in 1..n PROVE Cardinality(earlier[sequence[i]]) = i - 1
    <2> DEFINE E == earlier[sequence[i]]
               f == [j \in 1..(i - 1) |-> sequence[j]]
    <2>1. i - 1 \in Nat /\ \A j \in 1..(i - 1) : j \in 1..n /\ j < i
      BY <1>1
    <2>2. \A r \in E : \E j \in 1..(i - 1) : sequence[j] = r
      <3> TAKE r \in E
      <3>1. PICK j \in 1..n : sequence[j] = r
        BY <1>1 DEF StrictOrder
      <3>2. j # i /\ ~(i < j)
        BY <1>1, <3>1 DEF StrictOrder
      <3>3. j \in 1..(i - 1)
        BY <3>2
      <3> QED
        BY <3>1, <3>3
    <2>3. f \in [1..(i - 1) -> E]
      BY <1>1, <2>1
    <2>4. \A j, k \in 1..(i - 1) : f[j] = f[k] => j = k
      BY <1>2, <2>1
    <2>5. \A r \in E : \E j \in 1..(i - 1) : f[j] = r
      BY <2>2
    <2> HIDE DEF f, E
    <2>6. f \in Bijection(1..(i - 1), E)
      BY <2>3, <2>4, <2>5 DEF Bijection, Injection, Surjection, IsInjective
    <2> QED
      BY <2>1, <2>6, FS_CountingElements DEF ExistsBijection, E
  <1>5. ASSUME NEW i \in 1..n
        PROVE  sequence[i] = CHOOSE r \in S : Cardinality(earlier[r]) = i - 1
    <2>1. \A r \in S : Cardinality(earlier[r]) = i - 1 => r = sequence[i]
      BY <1>1, <1>4, EarlierDistinguishes
    <2>2. sequence[i] \in S /\ Cardinality(earlier[sequence[i]]) = i - 1
      BY <1>1, <1>4
    <2> QED
      BY <2>1, <2>2
  <1> QED
    BY <1>1, <1>3, <1>5 DEF Enumerate

\* The elements of a sequence after position lo up to hi, and the set of them.
Slice(sequence, lo, hi) == [i \in 1..(hi - lo) |-> sequence[lo + i]]
Taken(sequence, lo, hi) == {sequence[i] : i \in (lo + 1)..hi}

\* Part of an enumeration lists its part of the set.
LEMMA SliceLists ==
    ASSUME NEW S, NEW earlier, NEW n, NEW sequence, Lists(sequence, n, S, earlier),
           NEW lo \in Nat, NEW hi \in Nat, lo <= hi, hi <= n,
           NEW before, \A q, r \in Taken(sequence, lo, hi) : q \in earlier[r] => q \in before[r]
    PROVE  Lists(Slice(sequence, lo, hi), hi - lo, Taken(sequence, lo, hi), before)
  <1> DEFINE m == hi - lo
             slice == Slice(sequence, lo, hi)
             part == Taken(sequence, lo, hi)
  <1>1. n \in Nat /\ m \in Nat /\ \A i \in 1..m : lo + i \in (lo + 1)..hi /\ lo + i \in 1..n
    BY DEF Lists
  <1>2. \A i \in 1..m : slice[i] = sequence[lo + i] /\ sequence[lo + i] \in part
    BY <1>1 DEF Slice, Taken
  <1>3. slice \in [1..m -> part]
    BY <1>1, <1>2 DEF Slice
  <1>4. ASSUME NEW r \in part PROVE \E i \in 1..m : slice[i] = r
    <2>1. PICK i \in (lo + 1)..hi : sequence[i] = r
      BY DEF Taken
    <2>2. i - lo \in 1..m /\ lo + (i - lo) = i
      BY <1>1
    <2> QED
      BY <1>2, <2>1, <2>2
  <1>5. ASSUME NEW i \in 1..m, NEW j \in 1..m, i < j PROVE slice[i] \in before[slice[j]]
    <2>1. sequence[lo + i] \in earlier[sequence[lo + j]]
      BY <1>1, <1>5 DEF Lists
    <2> QED
      BY <1>2, <2>1
  <1> QED
    BY <1>1, <1>3, <1>4, <1>5 DEF Lists

\* Read backwards, an enumeration lists the set in the opposite order.
LEMMA ReversalLists ==
    ASSUME NEW S, NEW earlier, NEW n, NEW sequence, Lists(sequence, n, S, earlier),
           NEW before, \A q, r \in S : r \in earlier[q] => q \in before[r]
    PROVE  Lists([i \in 1..n |-> sequence[n + 1 - i]], n, S, before)
  <1> DEFINE turned == [i \in 1..n |-> sequence[n + 1 - i]]
  <1>1. n \in Nat /\ \A i \in 1..n : n + 1 - i \in 1..n /\ n + 1 - (n + 1 - i) = i
    BY DEF Lists
  <1>2. turned \in [1..n -> S]
    BY <1>1 DEF Lists
  <1>3. ASSUME NEW r \in S PROVE \E i \in 1..n : turned[i] = r
    <2>1. PICK i \in 1..n : sequence[i] = r
      BY DEF Lists
    <2>2. turned[n + 1 - i] = r
      BY <1>1, <2>1
    <2> QED
      BY <1>1, <2>2
  <1>4. ASSUME NEW i \in 1..n, NEW j \in 1..n, i < j PROVE turned[i] \in before[turned[j]]
    <2>1. n + 1 - j < n + 1 - i
      BY <1>1, <1>4
    <2>2. sequence[n + 1 - j] \in earlier[sequence[n + 1 - i]]
      BY <1>1, <2>1 DEF Lists
    <2> QED
      BY <1>1, <1>2, <2>2
  <1> QED
    BY <1>1, <1>2, <1>3, <1>4 DEF Lists

\* The elements of a sequence at some of its places, in the places' order.
LEMMA PlacesList ==
    ASSUME NEW N \in Nat, NEW sequence, NEW places, places \subseteq 1..N,
           NEW before, \A i, j \in places : i < j => sequence[i] \in before[sequence[j]]
    PROVE  LET place == Enumerate(places, [i \in places |-> {j \in places : j < i}])
           IN  /\ DOMAIN place = 1..Cardinality(places)
               /\ Lists([k \in DOMAIN place |-> sequence[place[k]]], Cardinality(places),
                        {sequence[i] : i \in places}, before)
  <1> DEFINE earlier == [i \in places |-> {j \in places : j < i}]
             place == Enumerate(places, earlier)
             n == Cardinality(places)
             group == [k \in 1..n |-> sequence[place[k]]]
             part == {sequence[i] : i \in places}
  <1>1. IsFiniteSet(places)
    <2>1. IsFiniteSet(1..N)
      BY FS_Interval
    <2> QED
      BY <2>1, FS_Subset
  <1>2. earlier \in [places -> SUBSET places] /\ \A i, j \in places : j \in earlier[i] <=> j < i
    OBVIOUS
  <1> HIDE DEF earlier
  <1>3. StrictOrder(places, earlier)
    <2>1. \A i \in places : i \in Int
      OBVIOUS
    <2> QED
      BY <1>1, <1>2, <2>1 DEF StrictOrder
  <1>4. Lists(place, n, places, earlier)
    BY <1>3, EnumerateLists
  <1>5. DOMAIN place = 1..n
    BY DEF Enumerate
  <1> HIDE DEF place, n
  <1>6. group \in [1..n -> part]
    BY <1>4 DEF Lists
  <1>7. ASSUME NEW r \in part PROVE \E k \in 1..n : group[k] = r
    BY <1>4 DEF Lists
  <1>8. ASSUME NEW i \in 1..n, NEW j \in 1..n, i < j PROVE group[i] \in before[group[j]]
    <2>1. place[i] \in places /\ place[j] \in places /\ place[i] < place[j]
      BY <1>2, <1>4, <1>8 DEF Lists
    <2> QED
      BY <2>1
  <1>9. Lists(group, n, part, before)
    BY <1>4, <1>6, <1>7, <1>8 DEF Lists
  <1> QED
    BY <1>5, <1>9 DEF place, n, earlier

-----------------------------------------------------------------------------
(* ORDER BY is a strict total order                                        *)

\* Of the values of a column, one order term makes a strict total order.
LEMMA ValuesAreOrdered ==
    ASSUME NEW term, IsTerm(term)
    PROVE  /\ \A x : IsValue(x) => ~ValuePrecedes(term, x, x)
           /\ \A x, y : IsValue(x) /\ IsValue(y) =>
                x = y \/ ValuePrecedes(term, x, y) \/ ValuePrecedes(term, y, x)
           /\ \A x, y, z : IsValue(x) /\ IsValue(y) /\ IsValue(z)
                           /\ ValuePrecedes(term, x, y) /\ ValuePrecedes(term, y, z) =>
                ValuePrecedes(term, x, z)
  <1> DEFINE first == NullsComeFirst(term)
  <1>1. ASSUME NEW x, IsValue(x) PROVE ~ValuePrecedes(term, x, x)
    BY <1>1, NullIsNoValue DEF IsValue, ValuePrecedes
  <1> HIDE DEF first
  <1>2. ASSUME NEW x, NEW y, IsValue(x), IsValue(y)
        PROVE  x = y \/ ValuePrecedes(term, x, y) \/ ValuePrecedes(term, y, x)
    BY <1>2, NullIsNoValue DEF IsValue, ValuePrecedes
  <1>3. ASSUME NEW x, NEW y, NEW z, IsValue(x), IsValue(y), IsValue(z),
               ValuePrecedes(term, x, y), ValuePrecedes(term, y, z)
        PROVE  ValuePrecedes(term, x, z)
    BY <1>3, NullIsNoValue DEF IsValue, ValuePrecedes
  <1> QED
    BY <1>1, <1>2, <1>3

\* A set of positions that is not empty has a first one.
LEMMA FirstExists ==
    ASSUME NEW n \in Nat, NEW E, E \subseteq 1..n, E # {}
    PROVE  \E i \in E : \A j \in E : i <= j
  <1> DEFINE G == {n + 1 - i : i \in E}
  <1>1. G \subseteq 1..n /\ G # {}
    <2>1. \A i \in E : n + 1 - i \in 1..n
      OBVIOUS
    <2> QED
      BY <2>1
  <1>2. PICK g \in G : \A h \in G : h <= g
    <2> HIDE DEF G
    <2> QED
      BY <1>1, LastExists
  <1>3. PICK i \in E : g = n + 1 - i
    OBVIOUS
  <1>4. ASSUME NEW j \in E PROVE i <= j
    <2>1. n + 1 - j <= n + 1 - i
      BY <1>2, <1>3
    <2> QED
      BY <2>1
  <1> QED
    BY <1>4

\* Rows agree on the columns of an order.
Ties(terms, q, r) == \A i \in DOMAIN terms : q[terms[i].column] = r[terms[i].column]

\* Of two rows one precedes the other, or they tie.
LEMMA RowsCompare ==
    ASSUME NEW terms, IsOrder(terms), NEW q, NEW r, Valued(terms, q), Valued(terms, r)
    PROVE  Ties(terms, q, r) \/ Precedes(terms, q, r) \/ Precedes(terms, r, q)
  <1> DEFINE n == Len(terms)
             E == {i \in 1..n : q[terms[i].column] # r[terms[i].column]}
  <1>1. n \in Nat /\ DOMAIN terms = 1..n
    BY OrderShape
  <1> HIDE DEF n
  <1>2. CASE E = {}
    BY <1>1, <1>2 DEF Ties
  <1>3. CASE E # {}
    <2>1. PICK i \in E : \A j \in E : i <= j
      BY <1>1, <1>3, FirstExists
    <2>2. \A j \in 1..(i - 1) : q[terms[j].column] = r[terms[j].column]
      <3>1. \A j \in 1..(i - 1) : j \in 1..n /\ ~(i <= j)
        BY <1>1
      <3> QED
        BY <2>1, <3>1
    <2>3. IsTerm(terms[i]) /\ IsValue(q[terms[i].column]) /\ IsValue(r[terms[i].column])
      BY <1>1 DEF IsOrder, Valued
    <2>4. \/ ValuePrecedes(terms[i], q[terms[i].column], r[terms[i].column])
          \/ ValuePrecedes(terms[i], r[terms[i].column], q[terms[i].column])
      BY <2>3, ValuesAreOrdered
    <2> QED
      BY <1>1, <2>2, <2>4 DEF Precedes
  <1> QED
    BY <1>2, <1>3

\* No row precedes one it ties with.
LEMMA TiesDoNotPrecede ==
    ASSUME NEW terms, IsOrder(terms), NEW q, NEW r, Valued(terms, q), Valued(terms, r),
           Ties(terms, q, r)
    PROVE  ~Precedes(terms, q, r)
  BY ValuesAreOrdered DEF Precedes, IsOrder, Valued, Ties

\* To precede, or to precede what a row ties with, is transitive.
LEMMA PrecedesIsTransitive ==
    ASSUME NEW terms, IsOrder(terms), NEW p, NEW q, NEW r,
           Valued(terms, p), Valued(terms, q), Valued(terms, r)
    PROVE  /\ Precedes(terms, p, q) /\ Precedes(terms, q, r) => Precedes(terms, p, r)
           /\ Ties(terms, p, q) /\ Precedes(terms, q, r) => Precedes(terms, p, r)
           /\ Precedes(terms, p, q) /\ Ties(terms, q, r) => Precedes(terms, p, r)
  <1> DEFINE n == Len(terms)
             P(i) == p[terms[i].column]
             Q(i) == q[terms[i].column]
             R(i) == r[terms[i].column]
  <1>1. n \in Nat /\ DOMAIN terms = 1..n
    BY OrderShape
  <1>2. \A i \in 1..n : IsTerm(terms[i]) /\ IsValue(P(i)) /\ IsValue(Q(i)) /\ IsValue(R(i))
    BY <1>1 DEF IsOrder, Valued
  <1> HIDE DEF n
  <1>3. \A i \in 1..n : \A j \in 1..(i - 1) : j \in 1..n
    BY <1>1
  <1>4. ASSUME Precedes(terms, p, q), Precedes(terms, q, r) PROVE Precedes(terms, p, r)
    <2>1. PICK i \in 1..n : ValuePrecedes(terms[i], P(i), Q(i)) /\ \A k \in 1..(i - 1) : P(k) = Q(k)
      BY <1>1, <1>4 DEF Precedes
    <2>2. PICK j \in 1..n : ValuePrecedes(terms[j], Q(j), R(j)) /\ \A k \in 1..(j - 1) : Q(k) = R(k)
      BY <1>1, <1>4 DEF Precedes
    <2> HIDE DEF P, Q, R
    <2>3. CASE i = j
      <3>1. ValuePrecedes(terms[i], P(i), R(i))
        BY <1>2, <2>1, <2>2, <2>3, ValuesAreOrdered
      <3>2. \A k \in 1..(i - 1) : P(k) = R(k)
        BY <2>1, <2>2, <2>3
      <3> QED
        BY <1>1, <3>1, <3>2 DEF Precedes, P, R
    <2>4. CASE i < j
      <3>1. i \in 1..(j - 1) /\ \A k \in 1..(i - 1) : k \in 1..(j - 1)
        BY <1>1, <2>4
      <3>2. ValuePrecedes(terms[i], P(i), R(i)) /\ \A k \in 1..(i - 1) : P(k) = R(k)
        BY <2>1, <2>2, <3>1
      <3> QED
        BY <1>1, <3>2 DEF Precedes, P, R
    <2>5. CASE j < i
      <3>1. j \in 1..(i - 1) /\ \A k \in 1..(j - 1) : k \in 1..(i - 1)
        BY <1>1, <2>5
      <3>2. ValuePrecedes(terms[j], P(j), R(j)) /\ \A k \in 1..(j - 1) : P(k) = R(k)
        BY <2>1, <2>2, <3>1
      <3> QED
        BY <1>1, <3>2 DEF Precedes, P, R
    <2> QED
      BY <1>1, <2>3, <2>4, <2>5
  <1>5. ASSUME Ties(terms, p, q), Precedes(terms, q, r) PROVE Precedes(terms, p, r)
    BY <1>1, <1>3, <1>5 DEF Ties, Precedes
  <1>6. ASSUME Precedes(terms, p, q), Ties(terms, q, r) PROVE Precedes(terms, p, r)
    BY <1>1, <1>3, <1>6 DEF Ties, Precedes
  <1> QED
    BY <1>4, <1>5, <1>6
\* The set an order of rows is asked of: its rows have values in the order's
\* columns, and a heap position of their own.
Sortable(S, terms) ==
  /\ IsFiniteSet(S)
  /\ \A r \in S : Valued(terms, r) /\ r.pos \in Nat
  /\ \A q, r \in S : q.pos = r.pos => q = r

Before(S, terms) == [r \in S |-> {q \in S : Comes(terms, q, r)}]

\* ORDER BY, ties by heap position, is a strict total order.
LEMMA ComesIsStrict ==
    ASSUME NEW terms, IsOrder(terms), NEW S, Sortable(S, terms)
    PROVE  StrictOrder(S, Before(S, terms))
  <1>1. \A r \in S : Valued(terms, r) /\ r.pos \in Nat
    BY DEF Sortable
  <1>2. \A q, r \in S : q \in Before(S, terms)[r] <=> Comes(terms, q, r)
    BY DEF Before
  <1>3. ASSUME NEW q \in S, NEW r \in S
        PROVE  Comes(terms, q, r) <=> Precedes(terms, q, r) \/ (Ties(terms, q, r) /\ q.pos < r.pos)
    <2>1. Ties(terms, q, r) <=> ~Precedes(terms, q, r) /\ ~Precedes(terms, r, q)
      <3>1. Ties(terms, q, r) => Ties(terms, r, q)
        BY DEF Ties
      <3> QED
        BY <1>1, <3>1, RowsCompare, TiesDoNotPrecede
    <2> QED
      BY <2>1 DEF Comes
  <1>4. ASSUME NEW r \in S PROVE ~Comes(terms, r, r)
    <2>1. Ties(terms, r, r)
      BY DEF Ties
    <2>2. ~Precedes(terms, r, r)
      BY <1>1, <2>1, TiesDoNotPrecede
    <2> QED
      BY <1>1, <2>2 DEF Comes
  <1>5. ASSUME NEW q \in S, NEW r \in S PROVE q = r \/ Comes(terms, q, r) \/ Comes(terms, r, q)
    <2>1. q = r \/ q.pos < r.pos \/ r.pos < q.pos
      BY <1>1 DEF Sortable
    <2> QED
      BY <2>1 DEF Comes
  <1>6. ASSUME NEW p \in S, NEW q \in S, NEW r \in S, Comes(terms, p, q), Comes(terms, q, r)
        PROVE  Comes(terms, p, r)
    <2>1. /\ Precedes(terms, p, q) \/ (Ties(terms, p, q) /\ p.pos < q.pos)
          /\ Precedes(terms, q, r) \/ (Ties(terms, q, r) /\ q.pos < r.pos)
      BY <1>3, <1>6
    <2>2. \/ Precedes(terms, p, r)
          \/ Ties(terms, p, q) /\ Ties(terms, q, r) /\ p.pos < q.pos /\ q.pos < r.pos
      BY <1>1, <2>1, PrecedesIsTransitive
    <2>3. CASE Ties(terms, p, q) /\ Ties(terms, q, r) /\ p.pos < q.pos /\ q.pos < r.pos
      <3>1. Ties(terms, p, r)
        BY <2>3 DEF Ties
      <3>2. p.pos < r.pos
        BY <1>1, <2>3
      <3> QED
        BY <1>3, <3>1, <3>2
    <2> QED
      BY <1>3, <2>2, <2>3
  <1>7. Before(S, terms) \in [S -> SUBSET S]
    BY DEF Before
  <1> QED
    BY <1>2, <1>4, <1>5, <1>6, <1>7 DEF StrictOrder, Sortable

\* What ORDER BY returns.
LEMMA OrderByLists ==
    ASSUME NEW terms, IsOrder(terms), NEW S, Sortable(S, terms)
    PROVE  Lists(OrderBy(S, terms), Cardinality(S), S, Before(S, terms))
  BY ComesIsStrict, EnumerateLists DEF OrderBy, Before

\* And what else lists the rows in that order is the same sequence.
LEMMA OnlyOrderByLists ==
    ASSUME NEW terms, IsOrder(terms), NEW S, Sortable(S, terms),
           NEW n, NEW sequence, Lists(sequence, n, S, Before(S, terms))
    PROVE  n = Cardinality(S) /\ sequence = OrderBy(S, terms)
  BY ComesIsStrict, OnlyEnumerateLists DEF OrderBy, Before

\* The rows from one position of an order to another are that part in order.
LEMMA OrderBySlice ==
    ASSUME NEW terms, IsOrder(terms), NEW S, Sortable(S, terms),
           NEW lo \in Nat, NEW hi \in Nat, lo <= hi, hi <= Cardinality(S)
    PROVE  LET part == Taken(OrderBy(S, terms), lo, hi)
           IN  /\ OrderBy(part, terms) = Slice(OrderBy(S, terms), lo, hi)
               /\ Cardinality(part) = hi - lo
               /\ part \subseteq S
               /\ Sortable(part, terms)
  <1> DEFINE all  == OrderBy(S, terms)
             part == Taken(all, lo, hi)
             n == Cardinality(S)
  <1>1. Lists(all, n, S, Before(S, terms))
    BY OrderByLists
  <1> HIDE DEF all
  <1>2. n \in Nat /\ part \subseteq S
    <2>1. \A i \in (lo + 1)..hi : i \in 1..n
      BY <1>1 DEF Lists
    <2> QED
      BY <1>1, <2>1 DEF Lists, Taken
  <1>3. Sortable(part, terms)
    <2> HIDE DEF part
    <2> QED
      BY <1>2, FS_Subset DEF Sortable
  <1>4. \A q, r \in part : q \in Before(S, terms)[r] => q \in Before(part, terms)[r]
    <2> HIDE DEF part
    <2> QED
      BY <1>2 DEF Before
  <1>5. Lists(Slice(all, lo, hi), hi - lo, part, Before(part, terms))
    <2>1. hi <= n
      OBVIOUS
    <2> HIDE DEF n
    <2> QED
      BY <1>1, <1>4, <2>1, SliceLists
  <1>6. hi - lo = Cardinality(part) /\ Slice(all, lo, hi) = OrderBy(part, terms)
    <2> HIDE DEF part
    <2> QED
      BY <1>3, <1>5, OnlyOrderByLists
  <1> QED
    BY <1>2, <1>3, <1>6 DEF all

\* A sequence of length n read backwards.
Mirror(f, n) == [i \in 1..n |-> f[n + 1 - i]]

\* Without ties the reverse order is the order read backwards.
LEMMA OrderByReversed ==
    ASSUME NEW terms, IsOrder(terms), NEW S, Sortable(S, terms),
           \A q, r \in S : Ties(terms, q, r) => q = r
    PROVE  OrderBy(S, terms) = Mirror(OrderBy(S, ReverseOrder(terms)), Cardinality(S))
  <1> DEFINE turned == ReverseOrder(terms)
             back == OrderBy(S, turned)
             n == Cardinality(S)
  <1>1. IsOrder(turned) /\ Len(turned) = Len(terms) /\ \A i \in 1..Len(terms) : turned[i].column = terms[i].column
    BY ReversedTerms
  <1>2. DOMAIN turned = 1..Len(terms) /\ DOMAIN terms = 1..Len(terms)
    <2> HIDE DEF turned
    <2> QED
      BY <1>1, OrderShape
  <1>3. Sortable(S, turned)
    <2> HIDE DEF turned
    <2> QED
      BY <1>1, <1>2 DEF Sortable, Valued
  <1>4. \A q, r \in S : Precedes(turned, q, r) <=> Precedes(terms, r, q)
    BY ReverseTurnsAround DEF Sortable
  <1>5. ASSUME NEW q \in S, NEW r \in S, r \in Before(S, turned)[q]
        PROVE  q \in Before(S, terms)[r]
    <2>1. Comes(turned, r, q)
      BY <1>5 DEF Before
    <2>2. Precedes(terms, q, r) \/ Precedes(terms, r, q) \/ q = r
      BY RowsCompare DEF Sortable
    <2>3. q # r
      <3>1. ~ Precedes(turned, r, r) /\ ~ (r.pos < r.pos)
        <4>1. Ties(turned, r, r) /\ Valued(turned, r) /\ r.pos \in Nat
          BY <1>3 DEF Ties, Sortable
        <4> QED
          BY <1>1, <4>1, TiesDoNotPrecede
      <3> QED
        BY <2>1, <3>1 DEF Comes
    <2>4. Precedes(terms, q, r)
      BY <1>4, <2>1, <2>2, <2>3 DEF Comes
    <2> QED
      BY <2>4 DEF Before, Comes
  <1>6. Lists(back, n, S, Before(S, turned))
    <2> HIDE DEF turned
    <2> QED
      BY <1>1, <1>3, OrderByLists
  <1> HIDE DEF turned, back, n
  <1>7. Lists(Mirror(back, n), n, S, Before(S, terms))
    BY <1>5, <1>6, ReversalLists DEF Mirror
  <1> QED
    BY <1>7, OnlyOrderByLists DEF turned, back, n

-----------------------------------------------------------------------------
(* Rows and the orders of requests                                         *)

\* A row has a value in each column.
LEMMA RowShape ==
    ASSUME NEW r \in Rows
    PROVE  /\ DOMAIN r = Columns
           /\ r = [c \in Columns |-> r[c]]
           /\ \A c \in Columns : IsValue(r[c])
           /\ r.pos \in Nat /\ r.type \in Members
  <1>1. r \in [pos : Nat, id : Nat, fk : Nat \cup {NULL}, a : Nat \cup {NULL}, type : Members]
    BY RowsAreTyped
  <1>2. /\ DOMAIN r = Columns /\ r = [c \in DOMAIN r |-> r[c]]
        /\ r.pos \in Nat /\ r.id \in Nat /\ r.type \in Nat /\ r.type \in Members
        /\ r.fk \in Nat \cup {NULL} /\ r.a \in Nat \cup {NULL}
    BY <1>1 DEF Columns, Members
  <1> QED
    BY <1>2 DEF Columns, IsValue

\* The order of a request is of the rows' columns, and ends a tie between rows of
\* one type by their id, and in a union by id and type.
LEMMA OrderColumns ==
    ASSUME shape \in Shapes, NEW orderBy \in shape.orders
    PROVE  /\ \A i \in DOMAIN Order(orderBy) : Order(orderBy)[i].column \in Columns
           /\ \E i \in DOMAIN Order(orderBy) : Order(orderBy)[i].column = "id"
           /\ shape.kind \in Unions =>
                \E i \in DOMAIN Order(orderBy) : Order(orderBy)[i].column = "type"
  <1> DEFINE Added(terms, column) == Append(terms, OrderTerm(column, FALSE, NULL))
             normal == NormalizeOrder(orderBy, "id", FALSE)
  <1>1. ASSUME NEW terms, IsOrder(terms), NEW column \in Columns,
               \A i \in DOMAIN terms : terms[i].column \in Columns
        PROVE  /\ \A i \in DOMAIN Added(terms, column) : Added(terms, column)[i].column \in Columns
               /\ \E i \in DOMAIN Added(terms, column) : Added(terms, column)[i].column = column
               /\ \A i \in DOMAIN terms : /\ i \in DOMAIN Added(terms, column)
                                          /\ Added(terms, column)[i] = terms[i]
    <2> DEFINE n == Len(terms)
               term == OrderTerm(column, FALSE, NULL)
               longer == Append(terms, term)
    <2>1. IsTerm(term) /\ term.column = column
      BY TermsAreTerms
    <2> HIDE DEF term
    <2>2. /\ n \in Nat /\ DOMAIN terms = 1..n /\ DOMAIN longer = 1..(n + 1)
          /\ \A i \in 1..n : longer[i] = terms[i]
          /\ longer[n + 1] = term
      BY <1>1, <2>1, LongerOrder
    <2> HIDE DEF n, longer
    <2>3. \A i \in 1..(n + 1) : i = n + 1 \/ i \in 1..n
      BY <2>2
    <2>4. \A i \in DOMAIN longer : longer[i].column \in Columns
      BY <1>1, <2>1, <2>2, <2>3
    <2>5. n + 1 \in DOMAIN longer
      BY <2>2
    <2>6. \A i \in DOMAIN terms : i \in DOMAIN longer
      BY <2>2
    <2> QED
      BY <2>1, <2>2, <2>4, <2>5, <2>6 DEF longer, term
  <1> HIDE DEF Added
  <1>2. IsOrder(orderBy) /\ \A i \in DOMAIN orderBy : orderBy[i].column \in Columns
    BY OrdersAreTerms
  <1>3. "id" \in Columns /\ "type" \in Columns
    BY DEF Columns
  <1>4. \/ normal = Added(orderBy, "id")
        \/ normal = orderBy /\ \E i \in DOMAIN orderBy : orderBy[i].column = "id"
    BY DEF NormalizeOrder, Added
  <1>5. /\ \A i \in DOMAIN normal : normal[i].column \in Columns
        /\ \E i \in DOMAIN normal : normal[i].column = "id"
    <2>1. CASE normal = Added(orderBy, "id")
      <3>1. /\ \A i \in DOMAIN Added(orderBy, "id") : Added(orderBy, "id")[i].column \in Columns
            /\ \E i \in DOMAIN Added(orderBy, "id") : Added(orderBy, "id")[i].column = "id"
        BY <1>1, <1>2, <1>3
      <3> HIDE DEF normal
      <3> QED
        BY <2>1, <3>1
    <2>2. CASE normal = orderBy /\ \E i \in DOMAIN orderBy : orderBy[i].column = "id"
      <3> HIDE DEF normal
      <3> QED
        BY <1>2, <2>2
    <2> QED
      BY <1>4, <2>1, <2>2
  <1>6. IsOrder(normal)
    BY <1>2, NormalIsOrder
  <1> HIDE DEF normal
  <1>7. CASE shape.kind \in Unions
    <2>1. Order(orderBy) = Added(normal, "type")
      BY <1>7 DEF Order, UnionOrder, Added, normal
    <2> QED
      BY <1>1, <1>3, <1>5, <1>6, <2>1
  <1>8. CASE shape.kind \notin Unions
    <2>1. Order(orderBy) = normal
      BY <1>8 DEF Order, normal
    <2> QED
      BY <1>5, <1>8, <2>1
  <1> QED
    BY <1>7, <1>8

\* The rows a field reads are of one type unless it is a union.
OfField(S) == S \subseteq Rows /\ (shape.kind \in Unions \/ \A r \in S : r.type = 1)

\* In the order of a request no two rows of the field tie.
LEMMA OrdersAreTotal ==
    ASSUME shape \in Shapes, NEW orderBy \in shape.orders, NEW S, OfField(S)
    PROVE  /\ Sortable(S, Order(orderBy))
           /\ \A q, r \in S : Ties(Order(orderBy), q, r) => q = r
  <1>1. S \subseteq Rows
    BY DEF OfField
  <1>2. IsFiniteSet(S)
    BY <1>1, RowsAreTyped, FS_Subset
  <1>3. \A r \in S : Valued(Order(orderBy), r) /\ r.pos \in Nat
    BY <1>1, RowShape, OrderColumns DEF Valued
  <1>4. \A q, r \in S : q.pos = r.pos => q = r
    BY <1>1, RowsAreIdentified
  <1>5. ASSUME NEW q \in S, NEW r \in S, Ties(Order(orderBy), q, r) PROVE q = r
    <2>1. q.id = r.id
      BY <1>5, OrderColumns DEF Ties
    <2>2. q.type = r.type
      BY <1>5, OrderColumns DEF Ties, OfField
    <2> QED
      BY <1>1, <2>1, <2>2, RowsAreIdentified
  <1> QED
    BY <1>2, <1>3, <1>4, <1>5 DEF Sortable

\* So it is in the order the field's statement has, which may be the reverse.
LEMMA EffectiveOrdersAreTotal ==
    ASSUME shape \in Shapes, NEW orderBy \in shape.orders
    PROVE  /\ IsOrder(EffectiveOrder(orderBy))
           /\ \A i \in DOMAIN EffectiveOrder(orderBy) : EffectiveOrder(orderBy)[i].column \in Columns
           /\ \A S : OfField(S) => Sortable(S, EffectiveOrder(orderBy))
  <1> DEFINE order == Order(orderBy)
             turned == ReverseOrder(order)
  <1>1. IsOrder(order)
    BY OrdersOfRequests
  <1>2. \A i \in DOMAIN order : order[i].column \in Columns
    BY OrderColumns
  <1>3. /\ IsOrder(turned) /\ DOMAIN turned = DOMAIN order
        /\ \A i \in DOMAIN turned : turned[i].column = order[i].column
    <2> HIDE DEF order
    <2>1. /\ IsOrder(turned) /\ Len(turned) = Len(order)
          /\ \A i \in 1..Len(order) : turned[i].column = order[i].column
      BY <1>1, ReversedTerms
    <2> HIDE DEF turned
    <2> QED
      BY <1>1, <2>1, OrderShape
  <1>4. ASSUME NEW S, OfField(S) PROVE Sortable(S, order) /\ Sortable(S, turned)
    <2>1. Sortable(S, order)
      BY <1>4, OrdersAreTotal
    <2> HIDE DEF order, turned
    <2>2. Sortable(S, turned)
      BY <1>3, <2>1 DEF Sortable, Valued
    <2> QED
      BY <2>1, <2>2
  <1>5. EffectiveOrder(orderBy) = order \/ EffectiveOrder(orderBy) = turned
    BY DEF EffectiveOrder
  <1> HIDE DEF order, turned
  <1> QED
    BY <1>1, <1>2, <1>3, <1>4, <1>5

-----------------------------------------------------------------------------
(* Places in a partition, and the rows of a window                         *)

\* The rows of one partition, and the order the window numbers them in.
PartOf(S, k) == {q \in S : Partition(q) = k}
InKey(S, k) == OrderBy(PartOf(S, k), EffectiveOrder(args.order))

\* row_number() of a row in its partition.
Place(S, r) ==
  CHOOSE i \in DOMAIN InKey(S, Partition(r)) : InKey(S, Partition(r))[i] = r

\* A row with its number, and a numbered row without it.
Ext(r, n) == [c \in DOMAIN r \cup {"rn"} |-> IF c = "rn" THEN n ELSE r[c]]
Strip(x) == [c \in DOMAIN x \ {"rn"} |-> x[c]]

\* A part of a field's rows is of the field.
LEMMA PartsAreOfField ==
    ASSUME NEW S, OfField(S), NEW k
    PROVE  OfField(PartOf(S, k)) /\ PartOf(S, k) \subseteq S
  BY DEF OfField, PartOf

\* The window lists every row of a partition, in the statement's order.
LEMMA InKeyLists ==
    ASSUME shape \in Shapes, args.order \in shape.orders, NEW S, OfField(S), NEW k
    PROVE  /\ DOMAIN InKey(S, k) = 1..Cardinality(PartOf(S, k))
           /\ Lists(InKey(S, k), Cardinality(PartOf(S, k)), PartOf(S, k),
                    Before(PartOf(S, k), EffectiveOrder(args.order)))
           /\ Sortable(PartOf(S, k), EffectiveOrder(args.order))
  <1>1. OfField(PartOf(S, k))
    BY PartsAreOfField
  <1>2. IsOrder(EffectiveOrder(args.order)) /\ Sortable(PartOf(S, k), EffectiveOrder(args.order))
    BY <1>1, EffectiveOrdersAreTotal
  <1>3. Lists(InKey(S, k), Cardinality(PartOf(S, k)), PartOf(S, k),
              Before(PartOf(S, k), EffectiveOrder(args.order)))
    BY <1>2, OrderByLists DEF InKey
  <1>4. DOMAIN InKey(S, k) = 1..Cardinality(PartOf(S, k))
    BY <1>3 DEF Lists
  <1> QED
    BY <1>2, <1>3, <1>4

\* Two rows of an enumeration are where their order puts them.
LEMMA PlacesOfLists ==
    ASSUME NEW terms, IsOrder(terms), NEW S, Sortable(S, terms),
           NEW n, NEW sequence, Lists(sequence, n, S, Before(S, terms)),
           NEW i \in 1..n, NEW j \in 1..n
    PROVE  /\ i < j <=> Comes(terms, sequence[i], sequence[j])
           /\ sequence[i] = sequence[j] => i = j
  <1>1. StrictOrder(S, Before(S, terms))
    BY ComesIsStrict
  <1>2. sequence[i] \in S /\ sequence[j] \in S /\ i \in Int /\ j \in Int
    BY DEF Lists
  <1>3. /\ i < j => sequence[i] \in Before(S, terms)[sequence[j]]
        /\ j < i => sequence[j] \in Before(S, terms)[sequence[i]]
    BY DEF Lists
  <1>4. \A q, r \in S : ~(q \in Before(S, terms)[r] /\ r \in Before(S, terms)[q])
    BY <1>1 DEF StrictOrder
  <1>5. \A r \in S : r \notin Before(S, terms)[r]
    BY <1>1 DEF StrictOrder
  <1>6. i < j \/ i = j \/ j < i
    BY <1>2
  <1>7. Comes(terms, sequence[i], sequence[j]) <=> sequence[i] \in Before(S, terms)[sequence[j]]
    BY <1>2 DEF Before
  <1> QED
    BY <1>2, <1>3, <1>4, <1>5, <1>6, <1>7

\* A row has one place, and the places of a partition are those of its order.
LEMMA PlacesAreTheOrder ==
    ASSUME shape \in Shapes, args.order \in shape.orders, NEW S, OfField(S)
    PROVE  /\ \A r \in S : /\ Place(S, r) \in 1..Cardinality(PartOf(S, Partition(r)))
                           /\ InKey(S, Partition(r))[Place(S, r)] = r
           /\ \A k : \A i \in 1..Cardinality(PartOf(S, k)) :
                /\ InKey(S, k)[i] \in PartOf(S, k)
                /\ Place(S, InKey(S, k)[i]) = i
           /\ \A q, r \in S : Partition(q) = Partition(r) =>
                (Place(S, q) < Place(S, r) <=> Comes(EffectiveOrder(args.order), q, r))
  <1> DEFINE eff == EffectiveOrder(args.order)
             n(k) == Cardinality(PartOf(S, k))
  <1>0. IsOrder(eff)
    BY EffectiveOrdersAreTotal
  <1>1. ASSUME NEW k
        PROVE  /\ DOMAIN InKey(S, k) = 1..n(k)
               /\ Lists(InKey(S, k), n(k), PartOf(S, k), Before(PartOf(S, k), eff))
               /\ Sortable(PartOf(S, k), eff)
    BY InKeyLists
  <1> HIDE DEF n, eff
  <1>2. ASSUME NEW k, NEW i \in 1..n(k), NEW j \in 1..n(k)
        PROVE  /\ i < j <=> Comes(eff, InKey(S, k)[i], InKey(S, k)[j])
               /\ InKey(S, k)[i] = InKey(S, k)[j] => i = j
    BY <1>0, <1>1, PlacesOfLists
  <1>3. ASSUME NEW r \in S
        PROVE  Place(S, r) \in 1..n(Partition(r)) /\ InKey(S, Partition(r))[Place(S, r)] = r
    <2>1. r \in PartOf(S, Partition(r))
      BY DEF PartOf
    <2>2. \E i \in 1..n(Partition(r)) : InKey(S, Partition(r))[i] = r
      BY <1>1, <2>1 DEF Lists
    <2> QED
      BY <1>1, <2>2 DEF Place
  <1>4. ASSUME NEW k, NEW i \in 1..n(k)
        PROVE  InKey(S, k)[i] \in PartOf(S, k) /\ Place(S, InKey(S, k)[i]) = i
    <2>1. InKey(S, k)[i] \in PartOf(S, k)
      BY <1>1 DEF Lists
    <2>2. InKey(S, k)[i] \in S /\ Partition(InKey(S, k)[i]) = k
      BY <2>1 DEF PartOf
    <2> QED
      BY <1>2, <1>3, <2>1, <2>2
  <1>5. ASSUME NEW q \in S, NEW r \in S, Partition(q) = Partition(r)
        PROVE  Place(S, q) < Place(S, r) <=> Comes(eff, q, r)
    BY <1>2, <1>3, <1>5
  <1> QED
    BY <1>3, <1>4, <1>5 DEF n, eff

\* Numbering a row changes none of its columns, and is undone by Project.
LEMMA Extended ==
    ASSUME NEW r \in Rows, NEW n
    PROVE  /\ Ext(r, n).rn = n
           /\ \A c \in Columns : Ext(r, n)[c] = r[c]
           /\ Ext(r, n).pos = r.pos
           /\ Strip(Ext(r, n)) = r
           /\ [c \in DOMAIN Ext(r, n) \ {"rn"} |-> Ext(r, n)[c]] = r
  <1>1. DOMAIN r = Columns /\ r = [c \in Columns |-> r[c]]
    BY RowShape
  <1>2. "rn" \notin Columns /\ "pos" \in Columns
    BY DEF Columns
  <1>3. DOMAIN Ext(r, n) = Columns \cup {"rn"}
    BY <1>1 DEF Ext
  <1>4. Ext(r, n).rn = n /\ \A c \in Columns : Ext(r, n)[c] = r[c]
    BY <1>1, <1>2 DEF Ext
  <1>5. (Columns \cup {"rn"}) \ {"rn"} = Columns
    BY <1>2
  <1>6. Strip(Ext(r, n)) = [c \in Columns |-> Ext(r, n)[c]]
    BY <1>3, <1>5 DEF Strip
  <1>7. Strip(Ext(r, n)) = r
    BY <1>1, <1>4, <1>6
  <1> QED
    BY <1>2, <1>4, <1>7 DEF Strip

\* Apart from its number, the row it was.
LEMMA ExtendedFields ==
    ASSUME NEW r \in Rows, NEW n
    PROVE  Ext(r, n).rn = n /\ Ext(r, n).pos = r.pos /\ \A c \in Columns : Ext(r, n)[c] = r[c]
  <1>1. DOMAIN r = Columns /\ "rn" \notin Columns /\ "pos" \in Columns
    BY RowShape DEF Columns
  <1> QED
    BY <1>1 DEF Ext

\* The window numbers each row with its place.
LEMMA NumberedRows ==
    ASSUME NEW S
    PROVE  Numbered(S) = {Ext(r, Place(S, r)) : r \in S}
  BY DEF Numbered, Ext, Place, InKey, PartOf

\* result has the rows of S whose places in their partitions are in I, those of
\* one partition in their order.
Windowed(result, n, S, I) ==
  /\ n \in Nat /\ result \in [1..n -> S]
  /\ \A i \in 1..n : Place(S, result[i]) \in I
  /\ \A r \in S : Place(S, r) \in I => \E i \in 1..n : result[i] = r
  /\ \A i, j \in 1..n : i < j /\ Partition(result[i]) = Partition(result[j]) =>
       Place(S, result[i]) < Place(S, result[j])

\* Rows that tie on the keys are ordered by their places.
LEMMA PlacesDecide ==
    ASSUME NEW keys, IsOrder(keys), NEW x, NEW y, Ties(keys, x, y),
           Valued(keys, x), Valued(keys, y), x.rn \in Nat, y.rn \in Nat
    PROVE  Precedes(Append(keys, Ascending("rn")), x, y) <=> x.rn < y.rn
  <1> DEFINE term == Ascending("rn")
             clauses == Append(keys, term)
             m == Len(keys)
  <1>1. IsTerm(term) /\ term.column = "rn" /\ term.descending = FALSE
    BY TermsAreTerms DEF Ascending
  <1> HIDE DEF term
  <1>2. /\ m \in Nat /\ DOMAIN keys = 1..m /\ DOMAIN clauses = 1..(m + 1)
        /\ \A i \in 1..m : clauses[i] = keys[i]
        /\ clauses[m + 1] = term
    BY <1>1, LongerOrder
  <1> HIDE DEF clauses, m
  <1>3. \A i \in 1..(m + 1) : i = m + 1 \/ i \in 1..m
    BY <1>2
  <1>4. ASSUME NEW i \in 1..m
        PROVE  /\ x[clauses[i].column] = y[clauses[i].column]
               /\ ~ValuePrecedes(clauses[i], x[clauses[i].column], y[clauses[i].column])
    <2>1. IsTerm(keys[i]) /\ IsValue(x[keys[i].column]) /\ x[keys[i].column] = y[keys[i].column]
      BY <1>2 DEF IsOrder, Valued, Ties
    <2> QED
      BY <1>2, <2>1, ValuesAreOrdered
  <1>5. ValuePrecedes(term, x.rn, y.rn) <=> x.rn < y.rn
    BY <1>1, NullIsNoValue DEF ValuePrecedes
  <1>6. m + 1 \in DOMAIN clauses /\ \A j \in 1..((m + 1) - 1) : j \in 1..m
    BY <1>2
  <1>7. Precedes(clauses, x, y) => x.rn < y.rn
    BY <1>1, <1>2, <1>3, <1>4, <1>5 DEF Precedes
  <1>8. x.rn < y.rn => Precedes(clauses, x, y)
    BY <1>1, <1>2, <1>4, <1>5, <1>6 DEF Precedes
  <1> QED
    BY <1>7, <1>8 DEF clauses, term

\* The numbered rows whose number is in I.
Outer(S, I) == {x \in Numbered(S) : x.rn \in I}

\* The statements' windows: rows numbered per partition, cut by their numbers and
\* put in the order of the key columns, then of the numbers.
LEMMA WindowRows ==
    ASSUME shape \in Shapes, args.order \in shape.orders, NEW S, OfField(S), NEW I,
           NEW keys, IsOrder(keys), \A i \in DOMAIN keys : keys[i].column \in Columns,
           \A q, r \in S : Partition(q) = Partition(r) => Ties(keys, q, r)
    PROVE  \E n : Windowed(Project(OrderBy(Outer(S, I), Append(keys, Ascending("rn")))), n, S, I)
  <1> USE DEF Outer
  <1> DEFINE outer == {x \in Numbered(S) : x.rn \in I}
             clauses == Append(keys, Ascending("rn"))
             sorted == OrderBy(outer, clauses)
             n == Cardinality(outer)
             result == Project(sorted)
             chosen == {r \in S : Place(S, r) \in I}
             Of(r) == Ext(r, Place(S, r))
             k == Len(keys)
  <1>1. S \subseteq Rows
    BY DEF OfField
  <1>2. ASSUME NEW r \in S
        PROVE  /\ Of(r).rn = Place(S, r) /\ Place(S, r) \in Nat
               /\ \A c \in Columns : Of(r)[c] = r[c]
               /\ Of(r).pos = r.pos
    <2>1. r \in Rows
      BY <1>1
    <2>2. Place(S, r) \in Nat
      BY PlacesAreTheOrder, InKeyLists DEF Lists
    <2> DEFINE p == Place(S, r)
    <2>3. /\ Ext(r, p).rn = p /\ Ext(r, p).pos = r.pos
          /\ \A c \in Columns : Ext(r, p)[c] = r[c]
      <3> HIDE DEF p
      <3> QED
        BY ONLY <2>1, ExtendedFields
    <2> QED
      BY ONLY <2>2, <2>3 DEF Of, p
  <1>a. ASSUME NEW r \in S
        PROVE  [c \in DOMAIN Of(r) \ {"rn"} |-> Of(r)[c]] = r
    <2>1. r \in Rows
      BY <1>1
    <2> QED
      BY <2>1, Extended
  <1> HIDE DEF Of
  <1>3. /\ \A r \in chosen : Of(r) \in outer
        /\ \A x \in outer : \E r \in chosen : x = Of(r)
    <2>1. Numbered(S) = {Of(r) : r \in S}
      BY NumberedRows DEF Of
    <2> QED
      BY <1>2, <2>1
  <1> HIDE DEF outer
  <1>4. /\ IsOrder(clauses) /\ k \in Nat /\ DOMAIN keys = 1..k /\ DOMAIN clauses = 1..(k + 1)
        /\ \A i \in 1..k : clauses[i] = keys[i]
        /\ clauses[k + 1].column = "rn"
    <2> DEFINE term == Ascending("rn")
    <2>1. IsTerm(term) /\ term.column = "rn"
      BY TermsAreTerms DEF Ascending
    <2> HIDE DEF term
    <2>2. /\ IsOrder(Append(keys, term)) /\ k \in Nat /\ DOMAIN keys = 1..k
          /\ DOMAIN Append(keys, term) = 1..(k + 1)
          /\ \A i \in 1..k : Append(keys, term)[i] = keys[i]
          /\ Append(keys, term)[k + 1] = term
      BY <2>1, LongerOrder
    <2> QED
      BY <2>1, <2>2 DEF term
  <1> HIDE DEF clauses, k
  <1>5. ASSUME NEW r \in S PROVE Valued(clauses, Of(r)) /\ Valued(keys, Of(r))
    <2>1. r \in Rows
      BY <1>1
    <2>2. \A c \in Columns : IsValue(Of(r)[c])
      BY <1>2, <2>1, RowShape
    <2>3. IsValue(Of(r).rn)
      BY <1>2 DEF IsValue
    <2>4. \A i \in 1..(k + 1) : i = k + 1 \/ i \in 1..k
      BY <1>4
    <2> QED
      BY <1>4, <2>2, <2>3, <2>4 DEF Valued
  <1>6. Sortable(outer, clauses)
    <2>1. IsFiniteSet(outer)
      <3> DEFINE f == [r \in chosen |-> Of(r)]
      <3>1. IsFiniteSet(chosen)
        <4>1. IsFiniteSet(S)
          BY <1>1, RowsAreTyped, FS_Subset
        <4> QED
          BY <4>1, FS_Subset
      <3>2. f \in Surjection(chosen, outer)
        BY <1>3 DEF Surjection
      <3> HIDE DEF f, chosen
      <3> QED
        BY <3>1, <3>2, FS_Surjection
    <2>2. \A r \in S : r.pos \in Nat
      BY <1>1, RowShape
    <2>3. \A q, r \in S : q.pos = r.pos => q = r
      BY <1>1, RowsAreIdentified
    <2>4. chosen \subseteq S
      OBVIOUS
    <2> HIDE DEF chosen
    <2>5. \A x \in outer : Valued(clauses, x) /\ x.pos \in Nat
      BY <1>2, <1>3, <1>5, <2>2, <2>4
    <2>6. \A x, y \in outer : x.pos = y.pos => x = y
      BY <1>2, <1>3, <2>3, <2>4
    <2> QED
      BY <2>1, <2>5, <2>6 DEF Sortable
  <1>7. Lists(sorted, n, outer, Before(outer, clauses))
    BY <1>4, <1>6, OrderByLists
  <1>8. ASSUME NEW i \in 1..n, NEW j \in 1..n
        PROVE  /\ i < j <=> Comes(clauses, sorted[i], sorted[j])
               /\ sorted[i] = sorted[j] => i = j
    BY <1>4, <1>6, <1>7, PlacesOfLists
  <1> HIDE DEF sorted, n
  <1>9. n \in Nat /\ DOMAIN sorted = 1..n /\ \A i \in 1..n : sorted[i] \in outer
    BY <1>7 DEF Lists
  <1>10. ASSUME NEW i \in 1..n
         PROVE  result[i] \in chosen /\ sorted[i] = Of(result[i])
    <2>1. PICK r \in chosen : sorted[i] = Of(r)
      BY <1>3, <1>9
    <2>2. result[i] = [c \in DOMAIN sorted[i] \ {"rn"} |-> sorted[i][c]]
      BY <1>9 DEF Project
    <2>3. result[i] = r
      BY <1>a, <2>1, <2>2
    <2> QED
      BY <2>1, <2>3
  <1>11. result \in [1..n -> S]
    <2>1. result = [i \in 1..n |-> result[i]]
      BY <1>9 DEF Project
    <2> HIDE DEF result
    <2>2. \A i \in 1..n : result[i] \in S
      BY <1>10
    <2> QED
      BY <2>1, <2>2
  <1> HIDE DEF result
  <1>12. ASSUME NEW r \in S, Place(S, r) \in I PROVE \E i \in 1..n : result[i] = r
    <2>1. Of(r) \in outer
      BY <1>3, <1>12
    <2>2. PICK i \in 1..n : sorted[i] = Of(r)
      BY <1>7, <2>1 DEF Lists
    <2>3. result[i].pos = r.pos /\ result[i] \in S
      BY <1>2, <1>10, <2>2
    <2> QED
      BY <1>1, <2>3, RowsAreIdentified
  <1>13. ASSUME NEW i \in 1..n, NEW j \in 1..n, i < j, Partition(result[i]) = Partition(result[j])
         PROVE  Place(S, result[i]) < Place(S, result[j])
    <2> DEFINE q == result[i]
               r == result[j]
               x == Of(q)
               y == Of(r)
    <2>1. q \in S /\ r \in S /\ sorted[i] = x /\ sorted[j] = y
      BY <1>10
    <2>2. x.rn = Place(S, q) /\ y.rn = Place(S, r) /\ x.rn \in Nat /\ y.rn \in Nat
      BY <1>2, <2>1
    <2>3. Ties(keys, x, y) /\ Ties(keys, y, x)
      <3>1. Ties(keys, q, r)
        BY <1>13, <2>1
      <3>2. \A i_1 \in DOMAIN keys : /\ x[keys[i_1].column] = q[keys[i_1].column]
                                    /\ y[keys[i_1].column] = r[keys[i_1].column]
        BY <1>2, <2>1
      <3> HIDE DEF x, y, q, r
      <3> QED
        BY <3>1, <3>2 DEF Ties
    <2>4. Valued(keys, x) /\ Valued(keys, y)
      BY <1>5, <2>1
    <2>5. Comes(clauses, x, y)
      BY <1>8, <1>13, <2>1
    <2>6. i # j
      BY <1>13, <1>9
    <2>7. x # y
      BY <1>8, <2>1, <2>6
    <2>8. Place(S, q) # Place(S, r)
      BY <1>13, <2>1, <2>7, PlacesAreTheOrder
    <2> HIDE DEF x, y, q, r
    <2>9. /\ Precedes(clauses, x, y) <=> x.rn < y.rn
          /\ Precedes(clauses, y, x) <=> y.rn < x.rn
      BY <2>2, <2>3, <2>4, PlacesDecide DEF clauses
    <2>10. x.rn < y.rn
      BY <2>2, <2>5, <2>8, <2>9 DEF Comes
    <2> QED
      BY <2>2, <2>10 DEF q, r
  <1>14. \A i \in 1..n : Place(S, result[i]) \in I
    BY <1>10
  <1>15. Windowed(result, n, S, I)
    BY <1>9, <1>11, <1>12, <1>13, <1>14 DEF Windowed
  <1> QED
    BY <1>15 DEF result, sorted, outer, clauses

-----------------------------------------------------------------------------
(* What the page statements return                                         *)

\* The rows of the field's keys in table S, and those on the cursor's far side.
FieldRows(S) ==
  {r \in S : /\ r \in shape.where
             /\ shape.kind \in Unions \/ r.type = 1
             /\ shape.kind \in Root \/ MatchPredicate(r)}

Source(S) == {r \in FieldRows(S) : CursorPredicate(r)}

\* What a request in progress is known to be.
Typed ==
  /\ shape \in Shapes /\ args.order \in shape.orders
  /\ args.size \in Nat \cup {NULL} /\ args.offset \in Nat \cup {NULL}
  /\ shape.kind \notin Relay => args.cursor = NoCursor

\* The places a request asks for: as many as its size from its offset, with one
\* row more for a Relay page.
Low == IF shape.kind \in Relay \/ args.offset = NULL THEN 0 ELSE args.offset
High == Low + (IF shape.kind \in Relay THEN args.size + 1 ELSE args.size)
Asked ==
  {i \in Nat : /\ i > Low /\ (args.size = NULL \/ i <= High)
               /\ ~(shape.kind \in {"select", "select_single"} /\ args.offset = NULL)}

\* Every page statement starts from the field's rows on the far side of the cursor.
LEMMA SourcesAre ==
    ASSUME Typed, NEW S, S \subseteq Rows
    PROVE  /\ OfField(Source(S)) /\ Source(S) \subseteq FieldRows(S) /\ FieldRows(S) \subseteq Rows
           /\ shape.kind \notin Unions => Scope(S) = FieldRows(S)
           /\ shape.kind \in Unions => UnionSubquery(S) = Source(S)
           /\ shape.kind \notin Relay => Source(S) = FieldRows(S)
  <1>1. shape.kind \notin Unions => Scope(S) = FieldRows(S)
    BY DEF Scope, Matching, FieldRows
  <1>2. ASSUME shape.kind \in Unions PROVE UnionSubquery(S) = Source(S)
    <2>1. \A r \in S : r.type \in Members
      BY RowsAreTyped
    <2> QED
      BY <1>2, <2>1 DEF UnionSubquery, BranchSelect, Matching, Source, FieldRows
  <1>3. shape.kind \notin Relay => Source(S) = FieldRows(S)
    BY DEF Typed, Source, CursorPredicate
  <1>4. OfField(Source(S))
    BY DEF OfField, Source, FieldRows
  <1> QED
    BY <1>1, <1>2, <1>3, <1>4 DEF Source, FieldRows

\* The key columns make an order, and rows of one key tie in it.
LEMMA KeysTie ==
    ASSUME shape \in Shapes, shape.kind \notin Root
    PROVE  LET keys == [i \in DOMAIN shape.match |-> Ascending(shape.match[i])]
           IN  /\ IsOrder(keys)
               /\ \A i \in DOMAIN keys : keys[i].column \in Columns
               /\ \A q, r : Partition(q) = Partition(r) => Ties(keys, q, r)
  <1> DEFINE keys == [i \in DOMAIN shape.match |-> Ascending(shape.match[i])]
             match == shape.match
             n == Len(match)
  <1>1. match \in Seq(Columns)
    BY ShapesMatchColumns
  <1> HIDE DEF match
  <1>2. n \in Nat /\ DOMAIN match = 1..n /\ \A i \in 1..n : match[i] \in Columns
    BY <1>1
  <1> HIDE DEF n
  <1>3. \A i \in 1..n : IsTerm(Ascending(match[i])) /\ Ascending(match[i]).column = match[i]
    BY TermsAreTerms DEF Ascending
  <1>4. keys = [i \in 1..n |-> Ascending(match[i])]
    BY <1>2 DEF match
  <1>5. DOMAIN keys = 1..n /\ \A i \in 1..n : IsTerm(keys[i]) /\ keys[i].column = match[i]
    BY <1>3, <1>4
  <1>6. keys = [i \in 1..n |-> keys[i]]
    BY <1>4
  <1> HIDE DEF keys
  <1>7. IsOrder(keys)
    BY <1>2, <1>5, <1>6, OrderIntro
  <1>8. ASSUME NEW q, NEW r, Partition(q) = Partition(r) PROVE Ties(keys, q, r)
    <2>1. GroupingKey(q, match) = GroupingKey(r, match)
      BY <1>8 DEF Partition, match
    <2>2. CASE n = 1
      <3>1. q[match[1]] = r[match[1]]
        BY <2>1, <2>2 DEF GroupingKey, n
      <3> QED
        BY <1>5, <2>2, <3>1 DEF Ties
    <2>3. CASE n # 1
      <3>1. [i \in 1..n |-> q[match[i]]] = [i \in 1..n |-> r[match[i]]]
        BY <1>2, <2>1, <2>3 DEF GroupingKey, n
      <3>2. \A i \in 1..n : q[match[i]] = r[match[i]]
        BY <3>1
      <3> QED
        BY <1>5, <3>2 DEF Ties
    <2> QED
      BY <2>2, <2>3
  <1>9. \A i \in DOMAIN keys : keys[i].column \in Columns
    BY <1>2, <1>5
  <1> QED
    BY <1>7, <1>8, <1>9 DEF keys

\* The numbers of a numbered row.
LEMMA NumbersArePlaces ==
    ASSUME shape \in Shapes, args.order \in shape.orders, NEW S, OfField(S), NEW x \in Numbered(S)
    PROVE  x.rn \in Nat /\ x.rn > 0
  <1>1. PICK r \in S : x = Ext(r, Place(S, r))
    BY NumberedRows
  <1>2. x.rn = Place(S, r)
    <2> DEFINE p == Place(S, r)
    <2>1. r \in Rows
      BY DEF OfField
    <2>2. x = Ext(r, p)
      BY <1>1
    <2> HIDE DEF p
    <2>3. x.rn = p
      BY ONLY <2>1, <2>2, ExtendedFields
    <2> QED
      BY ONLY <2>3 DEF p
  <1>3. Cardinality(PartOf(S, Partition(r))) \in Nat /\ Place(S, r) \in 1..Cardinality(PartOf(S, Partition(r)))
    BY PlacesAreTheOrder, InKeyLists DEF Lists
  <1>4. \A n \in Nat : \A p \in 1..n : p \in Nat /\ p > 0
    OBVIOUS
  <1> QED
    BY ONLY <1>2, <1>3, <1>4

\* A page of a connection with keys is the window of the places asked for.
LEMMA TopPerKeyIsWindow ==
    ASSUME Typed, shape.kind \in Relay \ Root, NEW S, S \subseteq Rows
    PROVE  \E n : Windowed(TopPerKey(Source(S)), n, Source(S), Asked)
  <1> DEFINE keys == [i \in DOMAIN shape.match |-> Ascending(shape.match[i])]
             limit == PageLimit(args.size)
             all == Numbered(Source(S))
  <1>1. OfField(Source(S))
    BY SourcesAre
  <1>2. ASSUME NEW x \in all PROVE limit = NULL \/ x.rn <= limit <=> x.rn \in Asked
    <2>1. x.rn \in Nat /\ x.rn > 0
      BY <1>1, NumbersArePlaces DEF Typed
    <2>2. args.size \in Nat => limit = args.size + 1 /\ limit # NULL
      BY NullIsNoValue DEF PageLimit
    <2>3. args.size = NULL => limit = NULL
      BY DEF PageLimit
    <2>4. Low = 0 /\ High = 0 + (args.size + 1)
      BY DEF Low, High
    <2>5. shape.kind \notin {"select", "select_single"}
      BY DEF Relay
    <2> HIDE DEF limit
    <2>6. CASE args.size = NULL
      BY ONLY <2>1, <2>3, <2>4, <2>5, <2>6 DEF Asked
    <2>7. CASE args.size \in Nat
      <3>1. limit = args.size + 1 /\ limit # NULL /\ args.size # NULL
        BY ONLY <2>2, <2>7, NullIsNoValue
      <3>2. Low = 0 /\ High = args.size + 1
        BY ONLY <2>4, <2>7
      <3>3. x.rn \in Asked <=> x.rn <= args.size + 1
        BY ONLY <2>1, <2>5, <3>1, <3>2 DEF Asked
      <3> QED
        BY ONLY <3>1, <3>3
    <2> QED
      BY <2>6, <2>7 DEF Typed
  <1>3. {x \in all : limit = NULL \/ x.rn <= limit} = {x \in all : x.rn \in Asked}
    BY <1>2
  <1>4. TopPerKey(Source(S)) = Project(OrderBy({x \in all : limit = NULL \/ x.rn <= limit},
                                               Append(keys, Ascending("rn"))))
    BY DEF TopPerKey
  <1>5. /\ IsOrder(keys) /\ \A i \in DOMAIN keys : keys[i].column \in Columns
        /\ \A q, r : Partition(q) = Partition(r) => Ties(keys, q, r)
    BY KeysTie DEF Typed
  <1>6. {x \in all : x.rn \in Asked} = Outer(Source(S), Asked)
    BY DEF Outer
  <1>7. shape \in Shapes /\ args.order \in shape.orders
    BY DEF Typed
  <1> HIDE DEF keys, limit, all
  <1>8. \E n : Windowed(Project(OrderBy(Outer(Source(S), Asked), Append(keys, Ascending("rn")))), n, Source(S), Asked)
    BY ONLY <1>1, <1>5, <1>7, WindowRows
  <1> QED
    BY ONLY <1>3, <1>4, <1>6, <1>8

\* A sequence from one position to another; it may be empty.
LEMMA SubSeqIsSlice ==
    ASSUME NEW sequence, NEW lo \in Nat, NEW hi \in Nat, NEW start, start = lo + 1
    PROVE  SubSeq(sequence, start, hi) = Slice(sequence, lo, hi)
  <1> DEFINE part == SubSeq(sequence, start, hi)
             m == hi - lo
             S == {sequence[i] : i \in start..hi}
  <1>1. CASE hi <= lo
    <2>1. part = << >>
      <3>1. hi < start /\ start \in Int
        BY <1>1
      <3> QED
        BY <3>1, SubSeqEmpty
    <2>2. 1..m = {}
      BY <1>1
    <2> QED
      BY <2>1, <2>2 DEF Slice
  <1>2. CASE lo < hi
    <2>1. start \in Int /\ \A i \in start..hi : sequence[i] \in S
      BY <1>2
    <2>2. /\ part \in Seq(S)
          /\ Len(part) = IF start <= hi THEN hi - start + 1 ELSE 0
          /\ \A i \in 1..(hi - start + 1) : part[i] = sequence[start + i - 1]
      BY <2>1, SubSeqProperties
    <2>3. hi - start + 1 = m /\ start <= hi /\ m \in Nat
      BY <1>2
    <2>4. \A i \in 1..m : start + i - 1 = lo + i
      BY <1>2
    <2> HIDE DEF part, m
    <2>5. Len(part) = m /\ \A i \in 1..m : part[i] = sequence[lo + i]
      BY <2>2, <2>3, <2>4
    <2>6. part = [i \in 1..m |-> part[i]]
      BY <2>2, <2>5
    <2>7. part = [i \in 1..m |-> sequence[lo + i]]
      BY <2>5, <2>6
    <2> QED
      BY <2>7 DEF part, m, Slice
  <1> QED
    BY <1>1, <1>2

\* A window ordered by the numbers alone.
LEMMA NumberedWindow ==
    ASSUME shape \in Shapes, args.order \in shape.orders, NEW S, OfField(S), NEW I
    PROVE  \E n : Windowed(Project(OrderBy({x \in Numbered(S) : x.rn \in I}, <<Ascending("rn")>>)), n, S, I)
  <1> DEFINE term == Ascending("rn")
             none == << >>
  <1>1. IsOrder(none) /\ DOMAIN none = {}
    <2>1. none \in Seq({none[i] : i \in DOMAIN none}) /\ DOMAIN none = {}
      BY EmptySeq
    <2> QED
      BY <2>1 DEF IsOrder
  <1>2. \A q, r : Ties(none, q, r)
    BY <1>1 DEF Ties
  <1>3. Append(none, term) = <<term>>
    BY AppendProperties
  <1> HIDE DEF none, term
  <1>4. \E n : Windowed(Project(OrderBy(Outer(S, I), Append(none, Ascending("rn")))), n, S, I)
    BY <1>1, <1>2, WindowRows
  <1> QED
    BY <1>3, <1>4 DEF term, Outer

\* Without a window, every place is asked for.
LEMMA OrderedRows ==
    ASSUME shape \in Shapes, args.order \in shape.orders, NEW S, OfField(S), NEW I,
           \A i \in Nat : i > 0 => i \in I
    PROVE  Windowed(OrderBy(S, EffectiveOrder(args.order)), Cardinality(S), S, I)
  <1> DEFINE eff == EffectiveOrder(args.order)
             n == Cardinality(S)
             all == OrderBy(S, eff)
  <1>1. IsOrder(eff) /\ Sortable(S, eff)
    BY EffectiveOrdersAreTotal
  <1>2. Lists(all, n, S, Before(S, eff))
    BY <1>1, OrderByLists
  <1>3. \A i, j \in 1..n : i < j => Comes(eff, all[i], all[j])
    BY <1>1, <1>2, PlacesOfLists
  <1> HIDE DEF all, n
  <1>4. \A r \in S : Place(S, r) \in I
    <2>1. \A r \in S : /\ Cardinality(PartOf(S, Partition(r))) \in Nat
                       /\ Place(S, r) \in 1..Cardinality(PartOf(S, Partition(r)))
      BY PlacesAreTheOrder, InKeyLists DEF Lists
    <2> QED
      BY <2>1
  <1>5. \A i \in 1..n : all[i] \in S
    BY <1>2 DEF Lists
  <1>6. \A i, j \in 1..n : i < j /\ Partition(all[i]) = Partition(all[j]) =>
          Place(S, all[i]) < Place(S, all[j])
    BY <1>3, <1>5, PlacesAreTheOrder
  <1>7. Windowed(all, n, S, I)
    BY <1>2, <1>4, <1>5, <1>6 DEF Windowed, Lists
  <1> QED
    BY <1>7 DEF all, n

\* So is a select's slice, which a field without a bound leaves whole.
LEMMA SelectIsWindow ==
    ASSUME Typed, shape.kind \in {"select", "select_single"}, NEW S, S \subseteq Rows
    PROVE  \E n : Windowed(SelectQuery(S), n, Source(S), Asked)
  <1>1. /\ OfField(Source(S)) /\ Scope(S) = Source(S)
    BY SourcesAre DEF Unions, Relay
  <1>2. CASE IsLimited
    <2> DEFINE all == Numbered(Source(S))
               wanted == {x \in {y \in all : args.offset # NULL /\ y.rn > args.offset} :
                             args.size = NULL \/ x.rn <= args.offset + args.size}
    <2>1. SelectQuery(S) = Project(OrderBy(wanted, <<Ascending("rn")>>))
      BY <1>1, <1>2 DEF SelectQuery, WindowSlice
    <2>2. ASSUME NEW x \in all
          PROVE  (args.offset # NULL /\ x.rn > args.offset /\ (args.size = NULL \/ x.rn <= args.offset + args.size))
                   <=> x.rn \in Asked
      <3>1. x.rn \in Nat
        BY <1>1, NumbersArePlaces DEF Typed
      <3>2. args.offset # NULL => Low = args.offset
        BY DEF Low, Relay
      <3>3. High = Low + args.size
        BY DEF High, Relay
      <3> QED
        BY <3>1, <3>2, <3>3 DEF Asked
    <2>3. wanted = {x \in all : x.rn \in Asked}
      BY <2>2
    <2> HIDE DEF wanted
    <2> QED
      BY <1>1, <2>1, <2>3, NumberedWindow DEF Typed
  <1>3. CASE ~IsLimited
    <2>1. args.size = NULL /\ args.offset = 0
      BY <1>3 DEF IsLimited
    <2>2. SelectQuery(S) = OrderBy(Source(S), EffectiveOrder(args.order))
      BY <1>1, <1>3 DEF SelectQuery, EffectiveOrder, Relay
    <2>3. Low = 0
      BY <2>1, NullIsNoValue DEF Low
    <2>4. \A i \in Nat : i > 0 => i \in Asked
      BY <2>1, <2>3, NullIsNoValue DEF Asked
    <2> QED
      BY <1>1, <2>2, <2>4, OrderedRows DEF Typed
  <1> QED
    BY <1>2, <1>3

\* And a root select's.
LEMMA SelectAllIsWindow ==
    ASSUME Typed, shape.kind = "select_all", NEW S, S \subseteq Rows
    PROVE  \E n : Windowed(SelectAllQuery(S), n, Source(S), Asked)
  <1>1. /\ OfField(Source(S)) /\ Scope(S) = Source(S)
    BY SourcesAre DEF Unions, Relay
  <1> DEFINE all == Numbered(Source(S))
             offset == IF args.offset = NULL THEN 0 ELSE args.offset
             wanted == {x \in all : x.rn > offset /\ (args.size = NULL \/ x.rn <= offset + args.size)}
  <1>2. SelectAllQuery(S) = Project(OrderBy(wanted, <<Ascending("rn")>>))
    BY <1>1 DEF SelectAllQuery
  <1>3. ASSUME NEW x \in all
        PROVE  (x.rn > offset /\ (args.size = NULL \/ x.rn <= offset + args.size)) <=> x.rn \in Asked
    <2>1. x.rn \in Nat
      BY <1>1, NumbersArePlaces DEF Typed
    <2>2. Low = offset
      BY DEF Low, Relay
    <2>3. High = Low + args.size
      BY DEF High, Relay
    <2> HIDE DEF offset
    <2> QED
      BY <2>1, <2>2, <2>3 DEF Asked
  <1>4. wanted = {x \in all : x.rn \in Asked}
    BY <1>3
  <1> HIDE DEF wanted
  <1> QED
    BY <1>1, <1>2, <1>4, NumberedWindow DEF Typed

\* In a root field all rows are one partition.
LEMMA RootIsOnePart ==
    ASSUME shape.kind \in Root, NEW S
    PROVE  PartOf(S, NULL) = S /\ InKey(S, NULL) = OrderBy(S, EffectiveOrder(args.order))
           /\ \A r : Partition(r) = NULL
  BY DEF PartOf, InKey, Partition

\* And the first rows of a root union, which has one partition.
LEMMA UnionRootIsWindow ==
    ASSUME Typed, shape.kind = "union_root", NEW S, S \subseteq Rows
    PROVE  \E n : Windowed(UnionPageQuery(S), n, Source(S), Asked)
  <1> DEFINE all == OrderBy(Source(S), EffectiveOrder(args.order))
             n == Cardinality(Source(S))
             limit == PageLimit(args.size)
  <1>1. /\ OfField(Source(S)) /\ UnionSubquery(S) = Source(S) /\ shape.kind \in Root
    BY SourcesAre DEF Unions, Root
  <1>2. UnionPageQuery(S) = IF limit = NULL \/ limit > Len(all) THEN all ELSE SubSeq(all, 1, limit)
    BY <1>1 DEF UnionPageQuery
  <1>3. /\ DOMAIN all = 1..n /\ n \in Nat /\ all \in [1..n -> Source(S)]
        /\ \A i \in 1..n : Place(Source(S), all[i]) = i
        /\ \A r \in Source(S) : Place(Source(S), r) \in 1..n /\ all[Place(Source(S), r)] = r
    <2>1. InKey(Source(S), NULL) = all /\ PartOf(Source(S), NULL) = Source(S) /\ \A r : Partition(r) = NULL
      BY <1>1, RootIsOnePart
    <2>2. Lists(InKey(Source(S), NULL), Cardinality(PartOf(Source(S), NULL)), PartOf(Source(S), NULL),
                Before(PartOf(Source(S), NULL), EffectiveOrder(args.order)))
      BY <1>1, InKeyLists DEF Typed
    <2>3. all \in [1..n -> Source(S)] /\ n \in Nat
      BY <2>1, <2>2 DEF Lists
    <2>4. /\ \A r \in Source(S) : /\ Place(Source(S), r) \in 1..n
                                  /\ InKey(Source(S), NULL)[Place(Source(S), r)] = r
          /\ \A i \in 1..n : Place(Source(S), InKey(Source(S), NULL)[i]) = i
      BY <1>1, <2>1, PlacesAreTheOrder DEF Typed
    <2> QED
      BY <2>1, <2>3, <2>4
  <1>4. Len(all) = n
    BY <1>3
  <1> HIDE DEF all, n
  <1>5. /\ args.size \in Nat => limit = args.size + 1 /\ limit # NULL
        /\ args.size = NULL => limit = NULL
        /\ Low = 0 /\ High = 0 + (args.size + 1)
        /\ shape.kind \notin {"select", "select_single"}
    BY NullIsNoValue DEF PageLimit, Low, High, Relay
  <1> HIDE DEF limit
  <1>6. ASSUME NEW result, NEW m \in Nat, m <= n, result \in [1..m -> Source(S)],
               \A i \in 1..m : result[i] = all[i],
               \A i \in 1..n : i \in Asked <=> i <= m
        PROVE  Windowed(result, m, Source(S), Asked)
    <2>1. \A i \in 1..m : i \in 1..n /\ i \in Asked /\ Place(Source(S), result[i]) = i
      BY <1>3, <1>6
    <2>2. ASSUME NEW r \in Source(S), Place(Source(S), r) \in Asked
          PROVE  \E i \in 1..m : result[i] = r
      <3>1. Place(Source(S), r) \in 1..m
        BY <1>3, <1>6, <2>2
      <3> QED
        BY <1>3, <1>6, <3>1
    <2> QED
      BY <1>6, <2>1, <2>2 DEF Windowed
  <1>7. CASE limit = NULL \/ limit > n
    <2>1. UnionPageQuery(S) = all
      BY <1>2, <1>4, <1>7
    <2>2. \A i \in 1..n : i \in Asked <=> i <= n
      BY <1>3, <1>5, <1>7 DEF Asked, Typed
    <2> QED
      BY <1>3, <1>6, <2>1, <2>2
  <1>8. CASE ~(limit = NULL \/ limit > n)
    <2>1. UnionPageQuery(S) = SubSeq(all, 1, limit)
      BY <1>2, <1>4, <1>8
    <2>2. limit = args.size + 1 /\ limit \in Nat /\ limit <= n /\ args.size \in Nat
      BY <1>3, <1>5, <1>8 DEF Typed
    <2>3. SubSeq(all, 1, limit) \in [1..limit -> Source(S)] /\ \A i \in 1..limit : SubSeq(all, 1, limit)[i] = all[i]
      <3>1. SubSeq(all, 1, limit) = Slice(all, 0, limit)
        <4>1. \A lo \in Nat : \A start : start = lo + 1 => SubSeq(all, start, limit) = Slice(all, lo, limit)
          BY <2>2, SubSeqIsSlice
        <4>2. 1 = 0 + 1 /\ 0 \in Nat
          OBVIOUS
        <4> QED
          BY <4>1, <4>2
      <3>2. limit - 0 = limit /\ \A i \in 1..limit : 0 + i = i /\ i \in 1..n
        BY <1>3, <2>2
      <3>3. SubSeq(all, 1, limit) = [i \in 1..limit |-> all[0 + i]]
        BY <3>1, <3>2 DEF Slice
      <3>4. \A i \in 1..limit : all[0 + i] = all[i] /\ all[i] \in Source(S)
        BY <1>3, <3>2
      <3> QED
        BY <3>3, <3>4
    <2>4. \A i \in 1..n : i \in Asked <=> i <= limit
      BY <1>3, <1>5, <2>2, NullIsNoValue DEF Asked
    <2> QED
      BY <1>6, <2>1, <2>2, <2>3, <2>4
  <1> QED
    BY <1>7, <1>8

-----------------------------------------------------------------------------
(* From the rows of a window to the groups of its keys                     *)

\* The rows of a partition whose places are in I.
Chosen(S, k, I) == {r \in PartOf(S, k) : Place(S, r) \in I}

\* What Scatter finds for a key is what the window asked for of its partition, in
\* the order of the request.
LEMMA GroupOfWindow ==
    ASSUME Typed, shape.kind \notin Root, NEW S, OfField(S), NEW I,
           NEW n, Windowed(rows, n, S, I), NEW k
    PROVE  GroupRows(k) = OrderBy(Chosen(S, k, I), EffectiveOrder(args.order))
  <1> DEFINE eff == EffectiveOrder(args.order)
             part == {r \in PartOf(S, k) : Place(S, r) \in I}
             places == {i \in DOMAIN rows : GroupingKey(rows[i], shape.match) = k}
             m == Cardinality(places)
  <1>1. /\ n \in Nat /\ DOMAIN rows = 1..n
        /\ \A i \in 1..n : rows[i] \in S /\ Place(S, rows[i]) \in I
        /\ \A r \in S : Place(S, r) \in I => \E i \in 1..n : rows[i] = r
        /\ \A i, j \in 1..n : i < j /\ Partition(rows[i]) = Partition(rows[j]) =>
             Place(S, rows[i]) < Place(S, rows[j])
    BY DEF Windowed
  <1>2. \A r : Partition(r) = GroupingKey(r, shape.match)
    BY DEF Partition
  <1>3. places = {i \in 1..n : Partition(rows[i]) = k}
    BY <1>1, <1>2
  <1>4. {rows[i] : i \in places} = part
    <2>1. ASSUME NEW i \in places PROVE rows[i] \in part
      BY <1>1, <1>3, <2>1 DEF PartOf
    <2>2. ASSUME NEW r \in part PROVE \E i \in places : rows[i] = r
      BY <1>1, <1>3, <2>2 DEF PartOf
    <2> HIDE DEF part, places
    <2> QED
      BY <2>1, <2>2
  <1>5. part \subseteq S /\ IsOrder(eff) /\ Sortable(part, eff)
    <2>1. part \subseteq S /\ OfField(part)
      BY DEF PartOf, OfField
    <2> HIDE DEF part
    <2> QED
      BY <2>1, EffectiveOrdersAreTotal DEF Typed
  <1>6. GroupRows(k) =
          LET place == Enumerate(places, [i \in places |-> {j \in places : j < i}])
          IN  [p \in DOMAIN place |-> rows[place[p]]]
    BY DEF GroupRows
  <1>7. \A i, j \in places : i < j => rows[i] \in Before(part, eff)[rows[j]]
    <2> SUFFICES ASSUME NEW i \in places, NEW j \in places, i < j
                 PROVE  rows[i] \in Before(part, eff)[rows[j]]
      OBVIOUS
    <2>1. rows[i] \in part /\ rows[j] \in part
      <3> HIDE DEF part
      <3> QED
        BY <1>4
    <2>2. Place(S, rows[i]) < Place(S, rows[j]) /\ Partition(rows[i]) = Partition(rows[j])
      BY <1>1, <1>3
    <2>3. Comes(eff, rows[i], rows[j])
      BY <1>1, <1>3, <2>2, PlacesAreTheOrder DEF Typed
    <2> HIDE DEF part
    <2> QED
      BY <2>1, <2>3 DEF Before
  <1>8. places \subseteq 1..n /\ n \in Nat
    BY <1>1
  <1> HIDE DEF places, part
  <1>9. Lists(GroupRows(k), m, part, Before(part, eff))
    <2> DEFINE before == Before(part, eff)
               place == Enumerate(places, [i \in places |-> {j \in places : j < i}])
               group == [p \in DOMAIN place |-> rows[place[p]]]
    <2>1. \A i, j \in places : i < j => rows[i] \in before[rows[j]]
      BY <1>7
    <2>2. GroupRows(k) = group
      BY <1>6
    <2> HIDE DEF before
    <2>3. Lists(group, m, {rows[i] : i \in places}, before)
      BY <1>8, <2>1, PlacesList
    <2> HIDE DEF group
    <2> QED
      BY <1>4, <2>2, <2>3 DEF before
  <1> QED
    BY <1>5, <1>9, OnlyOrderByLists DEF part, Chosen

\* A root field has all the rows of the window.
LEMMA RootOfWindow ==
    ASSUME Typed, shape.kind \in Root, NEW S, OfField(S), NEW I,
           NEW n, Windowed(rows, n, S, I)
    PROVE  rows = OrderBy(Chosen(S, NULL, I), EffectiveOrder(args.order))
  <1> DEFINE eff == EffectiveOrder(args.order)
             part == {r \in PartOf(S, NULL) : Place(S, r) \in I}
  <1>1. /\ n \in Nat /\ rows \in [1..n -> S]
        /\ \A i \in 1..n : rows[i] \in S /\ Place(S, rows[i]) \in I
        /\ \A r \in S : Place(S, r) \in I => \E i \in 1..n : rows[i] = r
        /\ \A i, j \in 1..n : i < j /\ Partition(rows[i]) = Partition(rows[j]) =>
             Place(S, rows[i]) < Place(S, rows[j])
    BY DEF Windowed
  <1>2. \A r : Partition(r) = NULL
    BY DEF Partition
  <1>3. part = {r \in S : Place(S, r) \in I}
    BY <1>2 DEF PartOf
  <1>4. part \subseteq S /\ IsOrder(eff) /\ Sortable(part, eff)
    <2>1. part \subseteq S /\ OfField(part)
      BY DEF PartOf, OfField
    <2> HIDE DEF part
    <2> QED
      BY <2>1, EffectiveOrdersAreTotal DEF Typed
  <1>5. /\ \A i \in 1..n : rows[i] \in part
        /\ \A r \in part : \E i \in 1..n : rows[i] = r
    BY <1>1, <1>3
  <1> HIDE DEF part
  <1>6. ASSUME NEW i \in 1..n, NEW j \in 1..n, i < j
        PROVE  rows[i] \in Before(part, eff)[rows[j]]
    <2>1. Comes(eff, rows[i], rows[j])
      BY <1>1, <1>2, <1>6, PlacesAreTheOrder DEF Typed
    <2> QED
      BY <1>5, <2>1 DEF Before
  <1>7. Lists(rows, n, part, Before(part, eff))
    BY <1>1, <1>5, <1>6 DEF Lists
  <1> QED
    BY <1>4, <1>7, OnlyOrderByLists DEF part, Chosen

\* Consecutive places are a slice of the partition's order.
LEMMA PlacesAreSlice ==
    ASSUME Typed, NEW S, OfField(S), NEW I, NEW k,
           NEW lo \in Nat, NEW hi \in Nat, lo <= hi, hi <= Cardinality(PartOf(S, k)),
           \A i \in 1..Cardinality(PartOf(S, k)) : i \in I <=> lo < i /\ i <= hi
    PROVE  OrderBy(Chosen(S, k, I), EffectiveOrder(args.order))
             = Slice(InKey(S, k), lo, hi)
  <1> DEFINE eff == EffectiveOrder(args.order)
             all == InKey(S, k)
             n == Cardinality(PartOf(S, k))
             part == {r \in PartOf(S, k) : Place(S, r) \in I}
  <1>1. /\ n \in Nat /\ IsOrder(eff) /\ Sortable(PartOf(S, k), eff)
    BY InKeyLists, EffectiveOrdersAreTotal DEF Typed, Lists
  <1>2. /\ \A r \in PartOf(S, k) : Place(S, r) \in 1..n /\ all[Place(S, r)] = r
        /\ \A i \in 1..n : all[i] \in PartOf(S, k) /\ Place(S, all[i]) = i
    <2>1. \A r \in PartOf(S, k) : r \in S /\ Partition(r) = k
      BY DEF PartOf
    <2> QED
      BY <2>1, PlacesAreTheOrder DEF Typed
  <1>3. part = Taken(all, lo, hi)
    <2>1. ASSUME NEW r \in part PROVE r \in Taken(all, lo, hi)
      <3>1. Place(S, r) \in (lo + 1)..hi
        BY <1>2
      <3> QED
        BY <1>2, <3>1 DEF Taken
    <2>2. ASSUME NEW i \in (lo + 1)..hi PROVE all[i] \in part
      <3>1. i \in 1..n /\ lo < i /\ i <= hi
        BY <1>1
      <3> QED
        BY <1>2, <3>1
    <2> HIDE DEF part
    <2> QED
      BY <2>1, <2>2 DEF Taken
  <1>4. OrderBy(Taken(all, lo, hi), eff) = Slice(all, lo, hi)
    <2>1. all = OrderBy(PartOf(S, k), eff)
      BY DEF InKey
    <2> HIDE DEF all
    <2> QED
      BY <1>1, <2>1, OrderBySlice
  <1> QED
    BY <1>3, <1>4 DEF Chosen

-----------------------------------------------------------------------------
(* The rows an entry should be given                                       *)

\* A row on the far side of the request's cursor, and the entry's rows there.
Beyond(r) ==
  \/ args.cursor = NoCursor
  \/ ~shape.reverse /\ Precedes(Order(args.order), CursorPoint, r)
  \/ shape.reverse /\ Precedes(Order(args.order), r, CursorPoint)
Wanted(e) == {r \in OwnRows(e, snap) : Beyond(r)}

\* The request's cursor holds the values of some row.
CursorOfRow ==
  args.cursor # NoCursor =>
    \E q \in Rows : args.cursor.values = EncodeKeysetCursor(Order(args.order), q).values

\* The far side of a cursor is the far side of the row whose values it holds.
LEMMA BeyondTheRow ==
    ASSUME Typed, args.cursor # NoCursor, NEW q \in Rows,
           args.cursor.values = EncodeKeysetCursor(Order(args.order), q).values,
           NEW r \in Rows
    PROVE  Beyond(r) <=> IF shape.reverse THEN Precedes(Order(args.order), r, q)
                         ELSE Precedes(Order(args.order), q, r)
  <1> DEFINE terms == Order(args.order)
             point == CursorPoint
  <1>1. IsOrder(terms) /\ terms # << >> /\ \A i \in DOMAIN terms : terms[i].column \in Columns
    BY OrdersOfRequests, OrderColumns DEF Typed
  <1>2. \A i \in DOMAIN terms : args.cursor.values[i].value = q[terms[i].column]
    BY BoundIsValue DEF EncodeKeysetCursor
  <1>3. \A i \in DOMAIN terms : point[terms[i].column] = q[terms[i].column]
    <2> DEFINE cols == {terms[i].column : i \in DOMAIN terms}
               At(c) == CHOOSE i \in DOMAIN terms : terms[i].column = c
    <2>1. \A i \in DOMAIN terms : terms[i].column \in cols
      OBVIOUS
    <2>2. \A c \in cols : At(c) \in DOMAIN terms /\ terms[At(c)].column = c
      OBVIOUS
    <2>3. point = [c \in cols |-> args.cursor.values[At(c)].value]
      BY DEF CursorPoint
    <2> HIDE DEF At, cols, point, terms
    <2>4. \A c \in cols : point[c] = q[c]
      BY <1>2, <2>2, <2>3
    <2> QED
      BY <2>1, <2>4
  <1> HIDE DEF terms, point
  <1>4. Valued(terms, q) /\ Valued(terms, r) /\ Valued(terms, point)
    <2>1. \A c \in Columns : IsValue(q[c]) /\ IsValue(r[c])
      BY RowShape
    <2> QED
      BY <1>1, <1>3, <2>1 DEF Valued
  <1>5. Ties(terms, q, point) /\ Ties(terms, point, q)
    BY <1>3 DEF Ties
  <1>6. /\ Precedes(terms, q, r) <=> Precedes(terms, point, r)
        /\ Precedes(terms, r, q) <=> Precedes(terms, r, point)
    BY <1>1, <1>4, <1>5, PrecedesIsTransitive
  <1>7. shape.reverse \in BOOLEAN
    BY ShapesAreKinds DEF Typed
  <1> QED
    BY <1>6, <1>7 DEF Beyond, terms, point

\* The seek predicate keeps exactly the rows on the far side of the cursor's.
LEMMA CursorSeparates ==
    ASSUME Typed, CursorOfRow, NEW r \in Rows
    PROVE  CursorPredicate(r) <=> Beyond(r)
  <1> DEFINE terms == Order(args.order)
             after == ~shape.reverse
  <1>1. CASE args.cursor = NoCursor
    BY <1>1 DEF CursorPredicate, Beyond
  <1>2. CASE args.cursor # NoCursor
    <2>1. PICK q \in Rows : args.cursor.values = EncodeKeysetCursor(terms, q).values
      BY <1>2 DEF CursorOfRow
    <2>2. IsOrder(terms) /\ terms # << >> /\ \A i \in DOMAIN terms : terms[i].column \in Columns
      BY OrdersOfRequests, OrderColumns DEF Typed
    <2>3. after \in BOOLEAN /\ (after <=> ~shape.reverse)
      BY ShapesAreKinds DEF Typed
    <2>4. CursorPredicate(r) <=> KeysetWhere(terms, args.cursor.values, after, r) = T
      BY <1>2 DEF CursorPredicate
    <2>5. Beyond(r) <=> IF shape.reverse THEN Precedes(terms, r, q) ELSE Precedes(terms, q, r)
      BY <1>2, <2>1, BeyondTheRow
    <2> HIDE DEF terms, after
    <2>6. Valued(terms, q) /\ Valued(terms, r)
      <3>1. \A c \in Columns : IsValue(q[c]) /\ IsValue(r[c])
        BY RowShape
      <3> QED
        BY <2>2, <3>1 DEF Valued
    <2>7. KeysetWhere(terms, args.cursor.values, after, r) = T <=>
            IF after THEN Precedes(terms, q, r) ELSE Precedes(terms, r, q)
      BY <2>1, <2>2, <2>3, <2>6, SeekIsExact
    <2> QED
      BY <2>3, <2>4, <2>5, <2>7
  <1> QED
    BY <1>1, <1>2

\* They are the rows the window numbers for the entry's key.
LEMMA PartsAreWanted ==
    ASSUME Typed, CursorOfRow, snap \subseteq Rows, NEW e \in Entries
    PROVE  /\ shape.kind \in Root => Wanted(e) = PartOf(Source(snap), NULL)
           /\ shape.kind \notin Root /\ Keys[e] # NULL => Wanted(e) = PartOf(Source(snap), Keys[e])
           /\ shape.kind \notin Root /\ Keys[e] = NULL => Wanted(e) = {}
  <1>1. \A r \in snap : CursorPredicate(r) <=> Beyond(r)
    BY CursorSeparates
  <1>2. CASE shape.kind \in Root
    BY <1>1, <1>2 DEF Wanted, OwnRows, PartOf, Source, FieldRows, Partition
  <1>3. CASE shape.kind \notin Root /\ Keys[e] = NULL
    BY <1>3 DEF Wanted, OwnRows
  <1>4. CASE shape.kind \notin Root /\ Keys[e] # NULL
    <2>1. ASSUME NEW r, GroupingKey(r, shape.match) = Keys[e]
          PROVE  MatchPredicate(r)
      BY <1>4, <2>1, KeysAreWhole DEF MatchPredicate, UniqueKeys, Typed
    <2> QED
      BY <1>1, <1>4, <2>1 DEF Wanted, OwnRows, PartOf, Source, FieldRows, Partition
  <1> QED
    BY <1>2, <1>3, <1>4

\* The rows a request's statement returned for an entry.
Group(e) == IF shape.kind \in Root THEN rows ELSE Scatter(e)

\* The rows are those of the page statement, or there was no key to ask for.
Queried ==
  \/ \E n : Windowed(rows, n, Source(snap), Asked)
  \/ shape.kind \notin Root /\ UniqueKeys = {}

\* The group of an entry is the slice asked for of the rows it should be given.
LEMMA GroupsAreSlices ==
    ASSUME Typed, CursorOfRow, snap \subseteq Rows, Queried, NEW e \in Entries,
           NEW lo \in Nat, NEW hi \in Nat, lo <= hi, hi <= Cardinality(Wanted(e)),
           \A i \in 1..Cardinality(Wanted(e)) : i \in Asked <=> lo < i /\ i <= hi
    PROVE  Group(e) = Slice(OrderBy(Wanted(e), EffectiveOrder(args.order)), lo, hi)
  <1> DEFINE S == Source(snap)
             eff == EffectiveOrder(args.order)
  <1>1. OfField(S)
    BY SourcesAre
  <1>2. ASSUME NEW k, Wanted(e) = PartOf(S, k),
               Group(e) = OrderBy(Chosen(S, k, Asked), eff)
        PROVE  Group(e) = Slice(OrderBy(Wanted(e), eff), lo, hi)
    <2>1. OrderBy(Chosen(S, k, Asked), eff) = Slice(InKey(S, k), lo, hi)
      BY <1>1, <1>2, PlacesAreSlice
    <2>2. InKey(S, k) = OrderBy(Wanted(e), eff)
      BY <1>2 DEF InKey
    <2> QED
      BY <1>2, <2>1, <2>2
  <1>3. CASE shape.kind \in Root
    <2>1. PICK n : Windowed(rows, n, S, Asked)
      BY <1>3 DEF Queried
    <2>2. Group(e) = OrderBy(Chosen(S, NULL, Asked), eff)
      BY <1>1, <1>3, <2>1, RootOfWindow DEF Group
    <2>3. Wanted(e) = PartOf(S, NULL)
      BY <1>3, PartsAreWanted
    <2> QED
      BY <1>2, <2>2, <2>3
  <1>4. CASE shape.kind \notin Root /\ Keys[e] # NULL
    <2>1. PICK n : Windowed(rows, n, S, Asked)
      BY <1>4 DEF Queried, UniqueKeys
    <2>2. Group(e) = GroupRows(Keys[e])
      BY <1>4 DEF Group, Scatter
    <2>3. Group(e) = OrderBy(Chosen(S, Keys[e], Asked), eff)
      BY <1>1, <1>4, <2>1, <2>2, GroupOfWindow
    <2>4. Wanted(e) = PartOf(S, Keys[e])
      BY <1>4, PartsAreWanted
    <2> QED
      BY <1>2, <2>3, <2>4
  <1>5. CASE shape.kind \notin Root /\ Keys[e] = NULL
    <2>1. Group(e) = << >>
      BY <1>5 DEF Group, Scatter
    <2>2. Cardinality(Wanted(e)) = 0
      BY <1>5, PartsAreWanted, FS_EmptySet
    <2>3. 1..(hi - lo) = {}
      BY <2>2
    <2>4. Slice(OrderBy(Wanted(e), eff), lo, hi) = << >>
      BY <2>3 DEF Slice
    <2> QED
      BY <2>1, <2>4
  <1> QED
    BY <1>3, <1>4, <1>5

-----------------------------------------------------------------------------
(* The pages                                                               *)

\* The rows ahead, as the statement orders them and as the field does.
LEMMA RowsAhead ==
    ASSUME Typed, snap \subseteq Rows, NEW e
    PROVE  LET N == Cardinality(Wanted(e))
               all == OrderBy(Wanted(e), EffectiveOrder(args.order))
           IN  /\ N \in Nat /\ Wanted(e) \subseteq Rows
               /\ DOMAIN all = 1..N /\ \A i \in 1..N : all[i] \in Rows
               /\ all = [i \in 1..N |-> all[i]]
               /\ Len(Ahead(e)) = N /\ DOMAIN Ahead(e) = 1..N
               /\ ~(shape.kind \in Relay /\ shape.reverse) => Ahead(e) = all
               /\ shape.kind \in Relay /\ shape.reverse =>
                    Ahead(e) = [i \in 1..N |-> all[N + 1 - i]]
  <1> DEFINE order == Order(args.order)
             eff == EffectiveOrder(args.order)
             W == Wanted(e)
             N == Cardinality(W)
             all == OrderBy(W, eff)
             ahead == OrderBy(W, order)
  <1>1. Ahead(e) = ahead
    BY DEF Ahead, Wanted, Beyond
  <1>2. W \subseteq Rows /\ OfField(W)
    BY DEF Wanted, OwnRows, OfField
  <1> HIDE DEF W
  <1>3. /\ Sortable(W, order) /\ IsOrder(order) /\ \A q, r \in W : Ties(order, q, r) => q = r
        /\ Sortable(W, eff) /\ IsOrder(eff)
    BY <1>2, OrdersAreTotal, EffectiveOrdersAreTotal, OrdersOfRequests DEF Typed
  <1>4. /\ Lists(all, N, W, Before(W, eff))
        /\ Lists(ahead, N, W, Before(W, order))
    BY <1>3, OrderByLists
  <1>5. shape.kind \in Relay /\ shape.reverse => eff = ReverseOrder(order)
    BY DEF EffectiveOrder
  <1>6. ~(shape.kind \in Relay /\ shape.reverse) => eff = order
    BY DEF EffectiveOrder
  <1>7. ahead = [i \in 1..N |-> OrderBy(W, ReverseOrder(order))[N + 1 - i]]
    <2> HIDE DEF order
    <2>1. OrderBy(W, order) = Mirror(OrderBy(W, ReverseOrder(order)), Cardinality(W))
      BY ONLY <1>3, OrderByReversed
    <2> QED
      BY ONLY <2>1 DEF ahead, N, Mirror
  <1> HIDE DEF N, all, ahead, eff, order
  <1>8. N \in Nat /\ DOMAIN all = 1..N /\ (\A i \in 1..N : all[i] \in W) /\ all = [i \in 1..N |-> all[i]]
    BY <1>4 DEF Lists
  <1>9. DOMAIN ahead = 1..N /\ Len(ahead) = N
    BY <1>4 DEF Lists
  <1>10. shape.kind \in Relay /\ shape.reverse => ahead = [i \in 1..N |-> all[N + 1 - i]]
    <2>1. shape.kind \in Relay /\ shape.reverse => all = OrderBy(W, ReverseOrder(order))
      BY ONLY <1>5 DEF all
    <2> QED
      BY ONLY <1>7, <2>1
  <1>11. ~(shape.kind \in Relay /\ shape.reverse) => ahead = all
    BY <1>6 DEF all, ahead
  <1> QED
    BY <1>1, <1>2, <1>8, <1>9, <1>10, <1>11 DEF N, all, W, eff

\* A page's size, or the rows there are.
Fewer(size, N) == IF size = NULL \/ size > N THEN N ELSE size

\* ExpectedNodes, kind by kind.
LEMMA ExpectedPages ==
    ASSUME NEW e
    PROVE  LET ahead == Ahead(e)
               N == Len(ahead)
               p == Fewer(args.size, N)
               skip == IF args.offset = NULL THEN 0 ELSE args.offset
           IN  /\ shape.kind \in Relay /\ shape.reverse =>
                    ExpectedNodes(e) = SubSeq(ahead, N - p + 1, N)
               /\ shape.kind \in Relay /\ ~shape.reverse =>
                    ExpectedNodes(e) = SubSeq(ahead, 1, p)
               /\ shape.kind = "select_single" =>
                    ExpectedNodes(e) = SubSeq(ahead, 1, IF ahead = << >> THEN 0 ELSE 1)
               /\ shape.kind = "select" /\ args.offset = NULL => ExpectedNodes(e) = << >>
               /\ shape.kind = "select_all" \/ (shape.kind = "select" /\ args.offset # NULL) =>
                    ExpectedNodes(e) = SubSeq(ahead, skip + 1, IF skip + p > N THEN N ELSE skip + p)
  <1> DEFINE ahead == Ahead(e)
             N == Len(ahead)
             p == Fewer(args.size, N)
             skip == IF args.offset = NULL THEN 0 ELSE args.offset
  <1>1. ExpectedNodes(e) =
          CASE shape.kind \in Relay /\ shape.reverse -> SubSeq(ahead, N - p + 1, N)
            [] shape.kind \in Relay /\ ~shape.reverse -> SubSeq(ahead, 1, p)
            [] shape.kind = "select_single" -> SubSeq(ahead, 1, IF ahead = << >> THEN 0 ELSE 1)
            [] shape.kind = "select" /\ args.offset = NULL -> << >>
            [] shape.kind = "select_all" \/ (shape.kind = "select" /\ args.offset # NULL) ->
                 SubSeq(ahead, skip + 1, IF skip + p > N THEN N ELSE skip + p)
    BY Zenon DEF ExpectedNodes, Fewer
  <1> HIDE DEF ahead, N, p, skip
  <1>2. shape.kind \in Relay => shape.kind \notin {"select", "select_single", "select_all"}
    BY DEF Relay
  <1>3. shape.kind \in Relay /\ shape.reverse => ExpectedNodes(e) = SubSeq(ahead, N - p + 1, N)
    BY <1>1, <1>2
  <1>4. shape.kind \in Relay /\ ~shape.reverse => ExpectedNodes(e) = SubSeq(ahead, 1, p)
    BY <1>1, <1>2
  <1>5. shape.kind = "select_single" =>
          ExpectedNodes(e) = SubSeq(ahead, 1, IF ahead = << >> THEN 0 ELSE 1)
    BY <1>1, <1>2
  <1>6. shape.kind = "select" /\ args.offset = NULL => ExpectedNodes(e) = << >>
    BY <1>1, <1>2
  <1>7. shape.kind = "select_all" \/ (shape.kind = "select" /\ args.offset # NULL) =>
          ExpectedNodes(e) = SubSeq(ahead, skip + 1, IF skip + p > N THEN N ELSE skip + p)
    BY <1>1, <1>2
  <1> QED
    BY <1>3, <1>4, <1>5, <1>6, <1>7 DEF ahead, N, p, skip

\* The first rows of a sequence.
LEMMA FirstRows ==
    ASSUME NEW sequence, NEW p \in Nat
    PROVE  /\ Slice(sequence, 0, p) = [i \in 1..p |-> sequence[i]]
           /\ SubSeq(sequence, 1, p) = [i \in 1..p |-> sequence[i]]
  <1>1. p - 0 = p /\ \A i \in 1..p : 0 + i = i
    OBVIOUS
  <1>2. Slice(sequence, 0, p) = [i \in 1..p |-> sequence[i]]
    BY <1>1 DEF Slice
  <1>3. SubSeq(sequence, 1, p) = Slice(sequence, 0, p)
    <2>1. \A lo \in Nat : \A start : start = lo + 1 => SubSeq(sequence, start, p) = Slice(sequence, lo, p)
      BY SubSeqIsSlice
    <2>2. 1 = 0 + 1 /\ 0 \in Nat
      OBVIOUS
    <2> QED
      BY <2>1, <2>2
  <1> QED
    BY <1>2, <1>3

\* A connection's page is the one its entry should be given, and the extra row
\* says whether there are more.
LEMMA RelayPage ==
    ASSUME Typed, CursorOfRow, snap \subseteq Rows, Queried, shape.kind \in Relay, NEW e \in Entries
    PROVE  /\ Page(Group(e)) = ExpectedNodes(e)
           /\ HasExtra(Group(e)) <=> Len(Ahead(e)) > Len(Page(Group(e)))
           /\ Page(Group(e)) \in Seq(Rows)
  <1> DEFINE N == Cardinality(Wanted(e))
             all == OrderBy(Wanted(e), EffectiveOrder(args.order))
             ahead == Ahead(e)
             size == args.size
             p == Fewer(size, N)
             hi == IF size = NULL \/ size + 1 > N THEN N ELSE size + 1
             group == Group(e)
             cut == IF HasExtra(group) THEN SubSeq(group, 1, size) ELSE group
             back == [i \in 1..p |-> all[p + 1 - i]]
             front == [i \in 1..p |-> all[i]]
  <1>1. /\ N \in Nat /\ DOMAIN all = 1..N /\ \A i \in 1..N : all[i] \in Rows
        /\ Len(ahead) = N
        /\ ~shape.reverse => ahead = all
        /\ shape.reverse => ahead = [i \in 1..N |-> all[N + 1 - i]]
    BY RowsAhead
  <1>2. /\ shape.reverse => ExpectedNodes(e) = SubSeq(ahead, N - p + 1, N)
        /\ ~shape.reverse => ExpectedNodes(e) = SubSeq(ahead, 1, p)
    BY <1>1, ExpectedPages
  <1>3. size \in Nat \/ size = NULL
    BY DEF Typed
  <1> HIDE DEF N, ahead, size
  <1>4. /\ p \in Nat /\ hi \in Nat /\ p <= hi /\ hi <= N
        /\ size # NULL => size \in Nat
        /\ size # NULL /\ hi > size <=> p < N
        /\ size # NULL /\ hi > size => p = size
        /\ ~(size # NULL /\ hi > size) => p = hi
    <2>1. CASE size = NULL
      BY <1>1, <2>1 DEF Fewer
    <2>2. CASE size \in Nat
      <3>1. size # NULL
        BY <2>2, NullIsNoValue
      <3> QED
        BY <1>1, <2>2, <3>1 DEF Fewer
    <2> QED
      BY <1>3, <2>1, <2>2
  <1>5. \A i \in 1..N : i \in Asked <=> 0 < i /\ i <= hi
    <2>1. Low = 0 /\ High = 0 + (size + 1) /\ shape.kind \notin {"select", "select_single"}
      BY DEF Low, High, size, Relay
    <2>2. \A i \in 1..N : i \in Asked <=> size = NULL \/ i <= High
      BY <2>1 DEF Asked, size
    <2>3. CASE size = NULL
      BY <1>1, <2>2, <2>3
    <2>4. CASE size \in Nat
      <3>1. size # NULL
        BY <2>4, NullIsNoValue
      <3> QED
        BY <1>1, <2>1, <2>2, <2>4, <3>1
    <2> QED
      BY <1>3, <2>3, <2>4
  <1> HIDE DEF hi, p
  <1>6. group = Slice(all, 0, hi)
    <2>1. 0 \in Nat /\ 0 <= hi
      BY <1>4
    <2>2. \A lo \in Nat : lo <= hi /\ (\A i \in 1..N : i \in Asked <=> lo < i /\ i <= hi) =>
            group = Slice(all, lo, hi)
      BY <1>4, GroupsAreSlices DEF N
    <2> QED
      BY <1>5, <2>1, <2>2
  <1> HIDE DEF all, group
  <1>7. group = [i \in 1..hi |-> all[i]]
    BY <1>4, <1>6, FirstRows
  <1>8. Len(group) = hi /\ DOMAIN group = 1..hi
    BY <1>4, <1>7
  <1>9. HasExtra(group) <=> p < N
    BY <1>4, <1>8 DEF HasExtra, size
  <1>10. cut = front
    <2>1. CASE HasExtra(group)
      <3>1. size \in Nat /\ p = size
        BY <1>4, <1>8, <2>1 DEF HasExtra, size
      <3>2. cut = [i \in 1..p |-> group[i]]
        BY <2>1, <3>1, FirstRows
      <3>3. \A i \in 1..p : group[i] = all[i]
        <4>1. \A i \in 1..p : i \in 1..hi
          BY <1>4
        <4> QED
          BY <1>7, <4>1
      <3> QED
        BY <3>2, <3>3
    <2>2. CASE ~HasExtra(group)
      BY <1>4, <1>7, <1>8, <2>2 DEF HasExtra, size
    <2> QED
      BY <2>1, <2>2
  <1>11. \A i \in 1..p : i \in 1..N /\ p + 1 - i \in 1..N /\ p + 1 - i \in 1..p
    BY <1>1, <1>4
  <1>12. front \in Seq(Rows) /\ Len(front) = p /\ back \in Seq(Rows) /\ Len(back) = p
    <2>1. \A i \in 1..p : all[i] \in Rows /\ all[p + 1 - i] \in Rows
      BY <1>1, <1>11
    <2> QED
      BY <1>4, <2>1
  <1>13. Page(group) = IF shape.reverse THEN Reversed(cut) ELSE cut
    BY DEF Page, size
  <1> HIDE DEF cut
  <1>14. CASE shape.reverse
    <2>1. Reversed(cut) = back
      <3>1. DOMAIN front = 1..p /\ Len(front) = p
        BY <1>12
      <3>2. \A i \in 1..p : front[p + 1 - i] = all[p + 1 - i]
        BY <1>11
      <3> HIDE DEF front
      <3>3. Reversed(front) = [i \in 1..p |-> front[p + 1 - i]]
        BY <3>1 DEF Reversed
      <3> QED
        BY <1>10, <3>2, <3>3
    <2>2. ExpectedNodes(e) = back
      <3>1. N - p \in Nat /\ N - (N - p) = p
        BY <1>1, <1>4
      <3>2. SubSeq(ahead, N - p + 1, N) = Slice(ahead, N - p, N)
        <4> DEFINE lo == N - p
                   start == N - p + 1
        <4>1. lo \in Nat /\ start = lo + 1 /\ N \in Nat
          BY ONLY <1>1, <3>1
        <4> HIDE DEF lo, start
        <4>2. SubSeq(ahead, start, N) = Slice(ahead, lo, N)
          BY ONLY <4>1, SubSeqIsSlice
        <4> QED
          BY ONLY <4>2 DEF lo, start
      <3>3. Slice(ahead, N - p, N) = [i \in 1..p |-> ahead[(N - p) + i]]
        BY ONLY <3>1 DEF Slice
      <3>4. \A i \in 1..p : (N - p) + i \in 1..N /\ N + 1 - ((N - p) + i) = p + 1 - i
        BY <1>1, <1>4
      <3>5. \A i \in 1..p : ahead[(N - p) + i] = all[p + 1 - i]
        BY <1>1, <1>14, <3>4
      <3> QED
        BY <1>2, <1>14, <3>2, <3>3, <3>5
    <2>3. Page(group) = back
      BY <1>13, <1>14, <2>1
    <2> HIDE DEF back
    <2> QED
      BY <1>1, <1>9, <1>12, <2>2, <2>3, <1>4 DEF group, ahead
  <1>15. CASE ~shape.reverse
    <2>1. ExpectedNodes(e) = front
      BY <1>1, <1>2, <1>4, <1>15, FirstRows
    <2>2. Page(group) = front
      BY <1>10, <1>13, <1>15
    <2> HIDE DEF front
    <2> QED
      BY <1>1, <1>9, <1>12, <2>1, <2>2, <1>4 DEF group, ahead
  <1> QED
    BY <1>14, <1>15 DEF group, ahead

\* A select's slice is the one its entry should be given.
LEMMA SelectPage ==
    ASSUME Typed, CursorOfRow, snap \subseteq Rows, Queried, shape.kind \notin Relay, NEW e \in Entries,
           shape.kind \in Kinds
    PROVE  /\ shape.kind # "select_single" => Group(e) = ExpectedNodes(e)
           /\ shape.kind = "select_single" /\ args.size = NULL /\ args.offset = 0 =>
                FirstOnly(Group(e)) = ExpectedNodes(e)
           /\ Group(e) \in Seq(Rows)
  <1> DEFINE N == Cardinality(Wanted(e))
             all == OrderBy(Wanted(e), EffectiveOrder(args.order))
             ahead == Ahead(e)
             size == args.size
             offset == args.offset
             skip == IF offset = NULL THEN 0 ELSE offset
             p == Fewer(size, N)
             upto == IF skip + p > N THEN N ELSE skip + p
             none == shape.kind # "select_all" /\ offset = NULL
             lo == IF none THEN 0 ELSE IF skip > N THEN N ELSE skip
             hi == IF none THEN 0 ELSE IF upto < lo THEN lo ELSE upto
             group == Group(e)
  <1>1. /\ N \in Nat /\ DOMAIN all = 1..N /\ \A i \in 1..N : all[i] \in Rows
        /\ Len(ahead) = N /\ ahead = all
    BY RowsAhead
  <1>2. shape.kind \in {"select", "select_single", "select_all"}
    BY DEF Kinds, Relay
  <1>3. /\ shape.kind = "select_single" =>
             ExpectedNodes(e) = SubSeq(ahead, 1, IF ahead = << >> THEN 0 ELSE 1)
        /\ shape.kind = "select" /\ offset = NULL => ExpectedNodes(e) = << >>
        /\ shape.kind = "select_all" \/ (shape.kind = "select" /\ offset # NULL) =>
             ExpectedNodes(e) = SubSeq(ahead, skip + 1, upto)
    BY <1>1, ExpectedPages
  <1>4. /\ size \in Nat \/ size = NULL
        /\ skip \in Nat /\ Low = skip /\ High = skip + size
    BY DEF Typed, Low, High
  <1>5. \A i \in 1..N : i \in Asked <=> ~none /\ i > skip /\ (size = NULL \/ i <= skip + size)
    BY <1>2, <1>4 DEF Asked
  <1> HIDE DEF N, all, ahead, skip, none, size
  <1>6. p \in Nat /\ upto \in Nat /\ lo \in Nat /\ hi \in Nat /\ lo <= hi /\ hi <= N
    <2>1. CASE size = NULL
      BY <1>1, <1>4, <2>1 DEF Fewer
    <2>2. CASE size \in Nat
      BY <1>1, <1>4, <2>2, NullIsNoValue DEF Fewer
    <2> QED
      BY <1>4, <2>1, <2>2
  <1>7. \A i \in 1..N : i \in Asked <=> lo < i /\ i <= hi
    <2>1. CASE none
      BY <1>5, <2>1
    <2>2. CASE ~none /\ size = NULL
      BY <1>1, <1>4, <1>5, <2>2 DEF Fewer
    <2>3. CASE ~none /\ size \in Nat
      <3>1. size # NULL
        BY <2>3, NullIsNoValue
      <3> QED
        BY <1>1, <1>4, <1>5, <2>3, <3>1 DEF Fewer
    <2> QED
      BY <1>4, <2>1, <2>2, <2>3
  <1>8. ~none /\ skip <= N => lo = skip /\ hi = upto
    <2>1. CASE size = NULL
      BY <1>1, <1>4, <2>1 DEF Fewer
    <2>2. CASE size \in Nat
      BY <1>1, <1>4, <2>2, NullIsNoValue DEF Fewer
    <2> QED
      BY <1>4, <2>1, <2>2
  <1>9. /\ none => lo = 0 /\ hi = 0
        /\ ~none /\ skip > N => lo = N /\ hi = N /\ upto < skip
    <2>1. ~none /\ skip > N => upto = N
      BY <1>1, <1>4, <1>6
    <2> QED
      BY <1>1, <1>4, <2>1
  <1> HIDE DEF lo, hi, upto
  <1>10. group = Slice(all, lo, hi)
    BY <1>6, <1>7, GroupsAreSlices DEF N, all
  <1> HIDE DEF group
  <1>11. group \in Seq(Rows)
    <2> DEFINE m == hi - lo
    <2>1. m \in Nat /\ \A i \in 1..m : all[lo + i] \in Rows
      BY <1>1, <1>6
    <2>2. group = [i \in 1..m |-> all[lo + i]]
      BY <1>10 DEF Slice
    <2> HIDE DEF m
    <2> QED
      BY <2>1, <2>2
  <1>12. ASSUME none PROVE group = << >>
    <2>1. 1..(hi - lo) = {}
      BY <1>9, <1>12
    <2> QED
      BY <1>10, <2>1 DEF Slice
  <1>13. ASSUME ~none PROVE SubSeq(ahead, skip + 1, upto) = group
    <2>1. SubSeq(ahead, skip + 1, upto) = Slice(all, skip, upto)
      <3> DEFINE start == skip + 1
      <3>1. start = skip + 1
        OBVIOUS
      <3> HIDE DEF start
      <3>2. SubSeq(ahead, start, upto) = Slice(ahead, skip, upto)
        BY <1>4, <1>6, <3>1, SubSeqIsSlice
      <3> QED
        BY <1>1, <3>1, <3>2
    <2>2. CASE skip <= N
      BY <1>8, <1>10, <1>13, <2>1, <2>2
    <2>3. CASE skip > N
      <3>1. 1..(hi - lo) = {} /\ 1..(upto - skip) = {}
        BY <1>1, <1>4, <1>6, <1>9, <1>13, <2>3
      <3> QED
        BY <1>10, <2>1, <3>1 DEF Slice
    <2> QED
      BY <1>1, <1>4, <2>2, <2>3
  <1>14. ASSUME shape.kind # "select_single" PROVE group = ExpectedNodes(e)
    <2>1. none <=> shape.kind = "select" /\ offset = NULL
      BY <1>2, <1>14 DEF none
    <2> QED
      BY <1>2, <1>3, <1>12, <1>13, <1>14, <2>1
  <1>15. ASSUME shape.kind = "select_single", size = NULL, offset = 0
         PROVE  FirstOnly(group) = ExpectedNodes(e)
    <2>1. ~none /\ skip = 0
      BY <1>15, NullIsNoValue DEF none, skip
    <2>2. p = N
      BY <1>15 DEF Fewer
    <2>3. lo = 0 /\ hi = N
      <3>1. upto = N
        BY <1>1, <2>1, <2>2 DEF upto
      <3> QED
        BY <1>1, <1>8, <2>1, <3>1
    <2>4. group = [i \in 1..N |-> all[i]]
      BY <1>1, <1>10, <2>3, FirstRows
    <2>5. ahead = group
      <3>1. all = [i \in 1..N |-> all[i]]
        BY RowsAhead DEF N, all
      <3> QED
        BY <1>1, <2>4, <3>1
    <2>6. CASE group = << >>
      <3>1. ExpectedNodes(e) = SubSeq(ahead, 1, 0)
        BY <1>3, <1>15, <2>5, <2>6
      <3>2. SubSeq(ahead, 1, 0) = << >>
        BY SubSeqEmpty
      <3> QED
        BY <2>6, <3>1, <3>2 DEF FirstOnly
    <2>7. CASE group # << >>
      <3>1. ExpectedNodes(e) = SubSeq(group, 1, 1)
        BY <1>3, <1>15, <2>5, <2>7
      <3>2. SubSeq(group, 1, 1) = [i \in 1..1 |-> group[i]]
        BY FirstRows
      <3>3. SubSeq(group, 1, 1) = <<group[1]>>
        <4> DEFINE first == group[1]
                   one == SubSeq(group, 1, 1)
        <4>1. one \in Seq({first}) /\ Len(one) = 1 /\ one[1] = first
          BY <3>2
        <4>2. <<first>> \in Seq({first}) /\ Len(<<first>>) = 1 /\ <<first>>[1] = first
          OBVIOUS
        <4> HIDE DEF first, one
        <4>3. \A i \in 1..1 : one[i] = <<first>>[i]
          BY <4>1, <4>2
        <4>4. one = <<first>>
          BY <4>1, <4>2, <4>3, SeqEqual
        <4> QED
          BY <4>4 DEF first, one
      <3>4. Head(group) = group[1]
        BY <1>11, <2>7
      <3> QED
        BY <2>7, <3>1, <3>3, <3>4 DEF FirstOnly
    <2> QED
      BY <2>6, <2>7
  <1> QED
    BY <1>11, <1>14, <1>15 DEF group, size

-----------------------------------------------------------------------------
(* The invariant of a walk's pages                                         *)

\* What the client holds is the place of a row of the order it remembers.
Marked ==
  bookmark.cursor # NoCursor =>
    \E q \in Rows : bookmark.cursor = EncodeKeysetCursor(Order(bookmark.order), q)

\* A slice has natural bounds; a single row is asked for once, from the start.
Slicing ==
  /\ args.size \in Nat \cup {NULL} /\ args.offset \in Nat \cup {NULL}
  /\ bookmark.offset \in Nat \cup {NULL}
  /\ seen \in Seq(Rows)
  /\ shape.kind \notin Relay => bookmark.cursor = NoCursor
  /\ shape.kind = "select_single" =>
       /\ phase = "client" => bookmark.offset = 0
       /\ phase \in Working => args.offset = 0 /\ args.size = NULL

\* The inductive invariant of the pages.
Paged ==
  /\ Cursors
  /\ table \subseteq Rows /\ snap \subseteq Rows
  /\ Slicing
  /\ Marked
  /\ phase \in {"count", "aggregate", "build"} => Queried
  /\ EntriesIndependent
  /\ MoreIsHonest

\* It holds at first.
LEMMA PagedInit == Init => Paged
  <1> SUFFICES ASSUME Init PROVE Paged
    OBVIOUS
  <1>1. Cursors
    BY CursorsInit
  <1>2. Slicing
    <2>1. shape.offset \in Nat \cup {NULL} /\ (shape.kind = "select_single" => shape.offset = 0)
      BY SlicesAreNatural DEF Init
    <2>2. seen = << >> /\ seen \in Seq(Rows)
      BY DEF Init
    <2> QED
      BY <2>1, <2>2 DEF Init, Slicing, Working
  <1>3. Marked
    BY DEF Init, Marked
  <1>4. EntriesIndependent /\ MoreIsHonest
    BY DEF Init, EntriesIndependent, MoreIsHonest, Answered
  <1> QED
    BY <1>1, <1>2, <1>3, <1>4, TablesAreOfRows DEF Init, Paged

\* A cursor that is accepted holds the values of its row in the request's columns,
\* and both orders rank the rows alike.
LEMMA AcceptedValues ==
    ASSUME Cursors, phase \in Working, args.cursor # NoCursor
    PROVE  /\ \A q : bookmark.cursor = EncodeKeysetCursor(Order(bookmark.order), q) =>
                args.cursor.values = EncodeKeysetCursor(Order(args.order), q).values
           /\ \A q, r : Precedes(Order(args.order), q, r) <=> Precedes(Order(bookmark.order), q, r)
  <1> DEFINE terms == Order(args.order)
             others == Order(bookmark.order)
  <1>1. /\ args.cursor = bookmark.cursor /\ args.cursor.digest = OrderDigest(terms)
        /\ bookmark.cursor.digest = OrderDigest(others)
        /\ args.order \in shape.orders /\ bookmark.order \in shape.orders
    BY DEF Cursors, Accepted, Minted, DecodeAccepts
  <1>2. IsOrder(terms) /\ IsOrder(others)
    BY <1>1, OrdersOfRequests DEF Cursors
  <1>3. OrderDigest(terms) = OrderDigest(others)
    BY <1>1
  <1> HIDE DEF terms, others
  <1>4. /\ DOMAIN terms = DOMAIN others
        /\ \A i \in DOMAIN terms : OrderDigest(terms)[i] = OrderDigest(others)[i]
    BY <1>3 DEF OrderDigest
  <1>5. \A i \in DOMAIN terms :
          /\ OrderDigest(terms)[i] =
               <<terms[i].column, terms[i].descending, EffectiveNulls(terms[i])>>
          /\ OrderDigest(others)[i] =
               <<others[i].column, others[i].descending, EffectiveNulls(others[i])>>
    BY <1>4 DEF OrderDigest
  <1>6. \A i \in DOMAIN terms : terms[i].column = others[i].column
    BY <1>4, <1>5
  <1>7. ASSUME NEW q, bookmark.cursor = EncodeKeysetCursor(others, q)
        PROVE  args.cursor.values = EncodeKeysetCursor(terms, q).values
    BY <1>1, <1>4, <1>6, <1>7 DEF EncodeKeysetCursor
  <1>8. \A q, r : Precedes(terms, q, r) <=> Precedes(others, q, r)
    BY <1>2, <1>3, DigestFixesOrder
  <1> QED
    BY <1>7, <1>8 DEF terms, others

\* What is accepted is typed, and its cursor is some row's.
LEMMA AcceptedCursor ==
    ASSUME Cursors, Slicing, Marked, phase \in Working
    PROVE  Typed /\ CursorOfRow
  <1>1. Typed
    BY DEF Cursors, Accepted, Slicing, Typed
  <1>2. ASSUME args.cursor # NoCursor
        PROVE  \E q \in Rows : args.cursor.values = EncodeKeysetCursor(Order(args.order), q).values
    <2>1. args.cursor = bookmark.cursor
      BY DEF Cursors, Accepted
    <2>2. PICK q \in Rows : bookmark.cursor = EncodeKeysetCursor(Order(bookmark.order), q)
      BY <1>2, <2>1 DEF Marked
    <2> QED
      BY <1>2, <2>2, AcceptedValues
  <1> QED
    BY <1>1, <1>2 DEF CursorOfRow

\* What the request and the shape fix.
LEMMA RequestFixes ==
    ASSUME UNCHANGED <<shape, args>>
    PROVE  /\ Asked' = Asked
           /\ \A S : Source(S)' = Source(S)
           /\ \A S, r : Place(S, r)' = Place(S, r)
           /\ \A r : Partition(r)' = Partition(r)
           /\ UniqueKeys' = UniqueKeys /\ Entries' = Entries
           /\ \A o : Order(o)' = Order(o)
  <1>1. \A o : Order(o)' = Order(o)
    BY DEF Order
  <1>2. \A o : EffectiveOrder(o)' = EffectiveOrder(o)
    BY <1>1 DEF EffectiveOrder
  <1>3. \A r : Partition(r)' = Partition(r)
    BY DEF Partition
  <1>4. \A S, k : InKey(S, k)' = InKey(S, k)
    BY <1>2, <1>3 DEF InKey, PartOf
  <1>5. \A S, r : Place(S, r)' = Place(S, r)
    BY <1>3, <1>4 DEF Place
  <1>6. Entries' = Entries /\ UniqueKeys' = UniqueKeys
    BY DEF Entries, UniqueKeys, Keys
  <1>7. \A r : MatchPredicate(r)' = MatchPredicate(r)
    BY <1>6 DEF MatchPredicate
  <1>8. \A r : CursorPredicate(r)' = CursorPredicate(r)
    BY <1>1 DEF CursorPredicate
  <1>9. \A S : Source(S)' = Source(S)
    BY <1>7, <1>8 DEF Source, FieldRows
  <1>10. Asked' = Asked
    BY DEF Asked, Low, High
  <1> QED
    BY <1>1, <1>3, <1>5, <1>6, <1>9, <1>10

\* What the snapshot of the page statement fixes besides.
LEMMA AnswersStay ==
    ASSUME UNCHANGED <<shape, args, snap>>
    PROVE  /\ \A e : Ahead(e)' = Ahead(e)
           /\ \A e : ExpectedNodes(e)' = ExpectedNodes(e)
           /\ rows' = rows /\ Queried => Queried'
  <1>1. Order(args.order)' = Order(args.order)
    BY DEF Order
  <1>2. \A e : OwnRows(e, snap)' = OwnRows(e, snap)
    BY DEF OwnRows, Keys, Entries
  <1>3. CursorPoint' = CursorPoint
    BY <1>1 DEF CursorPoint
  <1>4. \A e : Ahead(e)' = Ahead(e)
    BY <1>1, <1>2, <1>3 DEF Ahead
  <1>5. \A e : ExpectedNodes(e)' = ExpectedNodes(e)
    BY <1>4 DEF ExpectedNodes
  <1>6. rows' = rows /\ Queried => Queried'
    BY RequestFixes DEF Queried, Windowed
  <1> QED
    BY <1>4, <1>5, <1>6

\* What EntryResult makes of an entry's group.
LEMMA ResultsOfGroups ==
    ASSUME NEW e, shape.kind \in Kinds
    PROVE  /\ shape.kind \in Relay =>
                \E total, aggs : EntryResult(e) = BuildConnection(Group(e), total, aggs)
           /\ shape.kind = "select_single" => EntryResult(e) = [nodes |-> FirstOnly(Group(e))]
           /\ shape.kind \in {"select", "select_all"} => EntryResult(e) = [nodes |-> Group(e)]
  <1>1. CASE shape.kind = "connection"
    <2>1. EntryResult(e) = ConnectionResult(e)
      BY <1>1, Zenon DEF EntryResult, Unions
    <2>2. Group(e) = Scatter(e)
      BY <1>1 DEF Group, Root
    <2> QED
      BY <1>1, <2>1, <2>2 DEF ConnectionResult
  <1>2. CASE shape.kind \in Unions
    <2>1. EntryResult(e) = UnionResult(e)
      BY <1>2 DEF EntryResult, Unions
    <2>2. shape.kind = "union_root" <=> shape.kind \in Root
      BY <1>2 DEF Root, Unions
    <2>3. shape.kind \notin {"select_single", "select", "select_all"}
      BY <1>2 DEF Unions
    <2> QED
      BY <2>1, <2>2, <2>3 DEF UnionResult, UnionBuildConnection, Group
  <1>3. CASE shape.kind = "select_all"
    <2>1. EntryResult(e) = [nodes |-> rows]
      BY <1>3 DEF EntryResult, Unions
    <2>2. Group(e) = rows
      BY <1>3 DEF Group, Root
    <2> QED
      BY <1>3, <2>1, <2>2 DEF Relay
  <1>4. CASE shape.kind = "select_single"
    <2>1. EntryResult(e) = [nodes |-> FirstOnly(Scatter(e))]
      BY <1>4 DEF EntryResult, Unions
    <2>2. Group(e) = Scatter(e)
      BY <1>4 DEF Group, Root
    <2> QED
      BY <1>4, <2>1, <2>2 DEF Relay
  <1>5. CASE shape.kind = "select"
    <2>1. EntryResult(e) = [nodes |-> Scatter(e)]
      BY <1>5 DEF EntryResult, Unions
    <2>2. Group(e) = Scatter(e)
      BY <1>5 DEF Group, Root
    <2> QED
      BY <1>5, <2>1, <2>2 DEF Relay
  <1> QED
    BY <1>1, <1>2, <1>3, <1>4, <1>5 DEF Kinds, Unions

\* The page statement of a field returns the window of its request.
LEMMA StatementsAreWindows ==
    ASSUME Typed, NEW S, S \subseteq Rows
    PROVE  /\ shape.kind = "connection" => \E n : Windowed(ConnectionPageQuery(S), n, Source(S), Asked)
           /\ shape.kind \in Unions => \E n : Windowed(UnionPageQuery(S), n, Source(S), Asked)
           /\ shape.kind \in {"select", "select_single"} => \E n : Windowed(SelectQuery(S), n, Source(S), Asked)
           /\ shape.kind = "select_all" => \E n : Windowed(SelectAllQuery(S), n, Source(S), Asked)
  <1>1. ASSUME shape.kind = "connection"
        PROVE  \E n : Windowed(ConnectionPageQuery(S), n, Source(S), Asked)
    <2>1. ConnectionPageQuery(S) = TopPerKey(Source(S))
      <3>1. Scope(S) = FieldRows(S)
        BY <1>1, SourcesAre DEF Unions
      <3> QED
        BY <3>1 DEF ConnectionPageQuery, Source
    <2>2. shape.kind \in Relay \ Root
      BY <1>1 DEF Relay, Root
    <2> QED
      BY <2>1, <2>2, TopPerKeyIsWindow
  <1>2. ASSUME shape.kind \in Unions
        PROVE  \E n : Windowed(UnionPageQuery(S), n, Source(S), Asked)
    <2>1. CASE shape.kind = "union_root"
      BY <2>1, UnionRootIsWindow
    <2>2. CASE shape.kind # "union_root"
      <3>1. shape.kind \in Relay \ Root
        BY <1>2, <2>2 DEF Relay, Root, Unions
      <3>2. UnionPageQuery(S) = TopPerKey(Source(S))
        BY <1>2, <3>1, SourcesAre DEF UnionPageQuery
      <3> QED
        BY <3>1, <3>2, TopPerKeyIsWindow
    <2> QED
      BY <2>1, <2>2
  <1> QED
    BY <1>1, <1>2, SelectIsWindow, SelectAllIsWindow

\* The page statement leaves the window of its request in the table it saw.
LEMMA PagedReads ==
    ASSUME Paged, NEW result, NEW next, PageReturned(result, next),
           next \notin {"client", "over"},
           phase \in Working => \E n : Windowed(result, n, Source(table), Asked)
    PROVE  Queried' /\ EntriesIndependent' /\ MoreIsHonest'
  <1>1. /\ UNCHANGED <<shape, args>> /\ rows' = result /\ snap' = table
        /\ phase' = next /\ phase = "page"
    BY DEF PageReturned
  <1>2. PICK n : Windowed(result, n, Source(table), Asked)
    BY <1>1 DEF Working
  <1>4. Source(snap)' = Source(table)
    BY <1>1 DEF Source, FieldRows, CursorPredicate, MatchPredicate, UniqueKeys, Keys, Entries, Order
  <1>5. Windowed(rows, n, Source(snap), Asked)'
    BY <1>1, <1>2, <1>4, RequestFixes DEF Windowed
  <1>6. ~Answered'
    BY <1>1 DEF Answered
  <1> QED
    BY <1>5, <1>6 DEF Queried, EntriesIndependent, MoreIsHonest

\* A connection that is built has its page's outer cursors, and the flag of its
\* direction is the extra row.
LEMMA ConnectionsAreBuilt ==
    ASSUME Paged, BuildResults, shape.kind \in Relay, NEW e \in Entries
    PROVE  LET result == out'[e]
               page == result.nodes
               At(i) == EncodeKeysetCursor(Order(args.order), page[i])
           IN  /\ page = ExpectedNodes(e) /\ page \in Seq(Rows)
               /\ (IF shape.reverse THEN result.hasPreviousPage ELSE result.hasNextPage)
                    <=> Len(Ahead(e)) > Len(page)
               /\ (IF shape.reverse THEN result.hasPreviousPage ELSE result.hasNextPage) \in BOOLEAN
               /\ result.startCursor = IF page = << >> THEN NoCursor ELSE At(1)
               /\ result.endCursor = IF page = << >> THEN NoCursor ELSE At(Len(page))
  <1>1. /\ phase = "build" /\ out'[e] = EntryResult(e)
    BY DEF BuildResults
  <1>2. Typed /\ CursorOfRow /\ Queried /\ snap \subseteq Rows /\ shape.kind \in Kinds
    BY <1>1, AcceptedCursor, ShapesAreKinds DEF Paged, Working, Typed
  <1>3. PICK total, aggs : out'[e] = BuildConnection(Group(e), total, aggs)
    BY <1>1, <1>2, ResultsOfGroups
  <1> DEFINE page == Page(Group(e))
             At(i) == EncodeKeysetCursor(Order(args.order), page[i])
  <1>4. /\ out'[e].nodes = page
        /\ shape.reverse => out'[e].hasPreviousPage = HasExtra(Group(e))
        /\ ~shape.reverse => out'[e].hasNextPage = HasExtra(Group(e))
        /\ out'[e].startCursor = IF page = << >> THEN NoCursor ELSE At(1)
        /\ out'[e].endCursor = IF page = << >> THEN NoCursor ELSE At(Len(page))
    BY <1>3 DEF BuildConnection
  <1>5. /\ page = ExpectedNodes(e) /\ page \in Seq(Rows)
        /\ HasExtra(Group(e)) <=> Len(Ahead(e)) > Len(page)
    BY <1>2, RelayPage
  <1>6. HasExtra(Group(e)) \in BOOLEAN
    BY DEF HasExtra
  <1> HIDE DEF page
  <1> QED
    BY <1>4, <1>5, <1>6

\* The pages built are those their entries should be given.
LEMMA PagesAreBuilt ==
    ASSUME Paged, BuildResults
    PROVE  /\ EntriesIndependent' /\ MoreIsHonest'
           /\ out'[1].nodes \in Seq(Rows)
           /\ shape.kind \in Relay =>
                \A field \in {"startCursor", "endCursor"} :
                  out'[1][field] # NoCursor =>
                    \E q \in Rows : out'[1][field] = EncodeKeysetCursor(Order(args.order), q)
  <1>1. /\ UNCHANGED <<shape, args, rows, snap>> /\ phase = "build"
        /\ out' = [e \in Entries |-> EntryResult(e)]
    BY DEF BuildResults
  <1>2. /\ Typed /\ CursorOfRow /\ Queried /\ snap \subseteq Rows /\ Slicing /\ shape.kind \in Kinds
        /\ 1 \in Entries
    BY <1>1, AcceptedCursor, ShapesAreKinds, ShapesMatchColumns DEF Paged, Working, Typed, Entries
  <1>3. ASSUME NEW e \in Entries
        PROVE  /\ out'[e].nodes = ExpectedNodes(e)
               /\ out'[e].nodes \in Seq(Rows)
               /\ shape.kind \in Relay =>
                    ((IF shape.reverse THEN out'[e].hasPreviousPage ELSE out'[e].hasNextPage)
                       <=> Len(Ahead(e)) > Len(out'[e].nodes))
    <2>1. out'[e] = EntryResult(e)
      BY <1>1
    <2>2. CASE shape.kind \in Relay
      BY <2>2, ConnectionsAreBuilt
    <2>3. CASE shape.kind \notin Relay
      <3>1. CASE shape.kind = "select_single"
        <4>1. args.size = NULL /\ args.offset = 0
          BY <1>1, <1>2, <3>1 DEF Slicing, Working
        <4>2. out'[e].nodes = FirstOnly(Group(e))
          BY <1>2, <2>1, <3>1, ResultsOfGroups
        <4>3. /\ FirstOnly(Group(e)) = ExpectedNodes(e)
              /\ Group(e) \in Seq(Rows)
          BY <1>2, <2>3, <3>1, <4>1, SelectPage
        <4>4. FirstOnly(Group(e)) \in Seq(Rows)
          BY <4>3 DEF FirstOnly
        <4> QED
          BY <2>3, <4>2, <4>3, <4>4
      <3>2. CASE shape.kind # "select_single"
        <4>1. shape.kind \in {"select", "select_all"}
          BY <1>2, <2>3, <3>2 DEF Kinds, Relay
        <4>2. out'[e].nodes = Group(e)
          BY <1>2, <2>1, <4>1, ResultsOfGroups
        <4> QED
          BY <1>2, <2>3, <3>2, <4>2, SelectPage
      <3> QED
        BY <3>1, <3>2
    <2> QED
      BY <2>2, <2>3
  <1>4. EntriesIndependent'
    BY <1>1, <1>3, AnswersStay, RequestFixes DEF EntriesIndependent
  <1>5. MoreIsHonest'
    BY <1>1, <1>3, AnswersStay, RequestFixes DEF MoreIsHonest
  <1>6. ASSUME shape.kind \in Relay, NEW field \in {"startCursor", "endCursor"},
               out'[1][field] # NoCursor
        PROVE  \E q \in Rows : out'[1][field] = EncodeKeysetCursor(Order(args.order), q)
    <2> DEFINE page == out'[1].nodes
               At(i) == EncodeKeysetCursor(Order(args.order), page[i])
    <2>1. /\ page \in Seq(Rows)
          /\ out'[1].startCursor = IF page = << >> THEN NoCursor ELSE At(1)
          /\ out'[1].endCursor = IF page = << >> THEN NoCursor ELSE At(Len(page))
      BY <1>2, <1>6, ConnectionsAreBuilt
    <2> HIDE DEF page
    <2>2. page # << >> => page[1] \in Rows /\ page[Len(page)] \in Rows
      BY <2>1
    <2> QED
      BY <1>6, <2>1, <2>2
  <1> QED
    BY <1>2, <1>3, <1>4, <1>5, <1>6

\* Every step keeps the invariant.
LEMMA PagedNext == Paged /\ [Next]_vars => Paged'
  <1> SUFFICES ASSUME Paged, [Next]_vars PROVE Paged'
    OBVIOUS
  <1>1. Cursors'
    BY CursorsNext DEF Paged
  <1>2. /\ Cursors /\ table \subseteq Rows /\ snap \subseteq Rows /\ Slicing /\ Marked
        /\ EntriesIndependent /\ MoreIsHonest
    BY DEF Paged
  <1>3. shape \in Shapes /\ shape.kind \in Kinds
    BY <1>2, ShapesAreKinds DEF Cursors
  <1>4. ASSUME UNCHANGED <<shape, args, snap, out, bookmark, seen, rows>>,
               phase' \in {"client", "over"} => phase' = phase,
               phase' \in Working => phase \in Working,
               phase' \in {"count", "aggregate", "build"} => Queried,
               table' \subseteq Rows
        PROVE  Paged'
    <2>1. /\ \A e : ExpectedNodes(e)' = ExpectedNodes(e)
          /\ \A e : Ahead(e)' = Ahead(e)
          /\ Queried => Queried'
          /\ Entries' = Entries
          /\ \A o : Order(o)' = Order(o)
      BY <1>4, AnswersStay, RequestFixes
    <2>2. Answered' => Answered
      BY <1>4 DEF Answered
    <2>3. EntriesIndependent' /\ MoreIsHonest'
      BY <1>2, <1>4, <2>1, <2>2 DEF EntriesIndependent, MoreIsHonest
    <2>4. Slicing'
      BY <1>2, <1>4 DEF Slicing
    <2>5. Marked'
      BY <1>2, <1>4, <2>1 DEF Marked
    <2> QED
      BY <1>1, <1>2, <1>4, <2>1, <2>3, <2>4, <2>5 DEF Paged
  <1>5. CASE Request
    <2>1. /\ UNCHANGED <<shape, table, bookmark, seen>>
          /\ phase = "client" /\ snap' = table /\ out' = << >>
          /\ phase' \in {"rejected", "build", "page"}
          /\ phase' = "build" => shape.kind \notin Root /\ UniqueKeys = {}
      BY <1>5 DEF Request
    <2>2. PICK order \in shape.orders, size \in IF shape.kind = "select_single" THEN {NULL} ELSE Sizes :
            args' = [order |-> order, size |-> size,
                     cursor |-> bookmark.cursor, offset |-> bookmark.offset]
      BY <1>5 DEF Request
    <2>3. /\ args'.size = size /\ args'.offset = bookmark.offset
          /\ size \in Nat \cup {NULL} /\ (shape.kind = "select_single" => size = NULL)
      BY <2>2, SlicesAreNatural
    <2>4. Slicing'
      BY <1>2, <2>1, <2>3 DEF Slicing
    <2>5. Marked'
      BY <1>2, <2>1 DEF Marked, Order, UnionOrder
    <2>6. ~Answered'
      BY <2>1 DEF Answered
    <2>7. phase' = "build" => Queried'
      BY <2>1 DEF Queried, UniqueKeys, Keys, Entries
    <2> QED
      BY <1>1, <1>2, <2>1, <2>4, <2>5, <2>6, <2>7 DEF Paged, EntriesIndependent, MoreIsHonest
  <1>6. ASSUME NEW result, NEW next, PageReturned(result, next),
               next \in {"count", "aggregate", "build"},
               Typed => \E n : Windowed(result, n, Source(table), Asked)
        PROVE  Paged'
    <2>1. /\ UNCHANGED <<shape, table, args, bookmark, seen>> /\ snap' = table
          /\ phase' = next /\ phase = "page"
      BY <1>6 DEF PageReturned
    <2>2. Typed
      BY <1>2, <2>1, AcceptedCursor DEF Working
    <2>3. Queried' /\ EntriesIndependent' /\ MoreIsHonest'
      BY <1>6, <2>2, PagedReads
    <2>4. Slicing'
      BY <1>2, <1>6, <2>1 DEF Slicing, Working
    <2>5. Marked'
      BY <1>2, <2>1 DEF Marked, Order, UnionOrder
    <2> QED
      BY <1>1, <1>2, <2>1, <2>3, <2>4, <2>5 DEF Paged
  <1>7. CASE RunConnection
    <2>1. shape.kind = "connection" /\ PageReturned(ConnectionPageQuery(table), AfterPage)
      BY <1>7 DEF RunConnection
    <2>2. AfterPage \in {"count", "aggregate", "build"}
      BY DEF AfterPage, AfterCount
    <2> QED
      BY <1>2, <1>6, <2>1, <2>2, StatementsAreWindows
  <1>8. CASE RunUnion
    <2>1. shape.kind \in Unions /\ PageReturned(UnionPageQuery(table), AfterPage)
      BY <1>8 DEF RunUnion
    <2>2. AfterPage \in {"count", "aggregate", "build"}
      BY DEF AfterPage, AfterCount
    <2> QED
      BY <1>2, <1>6, <2>1, <2>2, StatementsAreWindows
  <1>9. CASE RunSelect
    <2>1. shape.kind \in {"select", "select_single"} /\ PageReturned(SelectQuery(table), "build")
      BY <1>9 DEF RunSelect
    <2> QED
      BY <1>2, <1>6, <2>1, StatementsAreWindows
  <1>10. CASE RunSelectAll
    <2>1. shape.kind = "select_all" /\ PageReturned(SelectAllQuery(table), "build")
      BY <1>10 DEF RunSelectAll
    <2> QED
      BY <1>2, <1>6, <2>1, StatementsAreWindows
  <1>11. CASE RunCount \/ RunAggregate
    <2>1. /\ UNCHANGED <<shape, table, args, bookmark, rows, out, seen, snap>>
          /\ phase \in {"count", "aggregate"} /\ phase' \in {"aggregate", "build"}
      BY <1>11 DEF RunCount, RunAggregate, AfterCount
    <2>2. Queried
      BY <2>1 DEF Paged
    <2> QED
      BY <1>2, <1>4, <2>1, <2>2 DEF Working
  <1>12. CASE BuildResults
    <2> DEFINE mine == out'[1]
    <2>1. /\ UNCHANGED <<shape, table, args, snap>> /\ phase = "build"
          /\ phase' \in {"client", "over"}
          /\ seen' = IF shape.kind \in Relay /\ shape.reverse THEN mine.nodes \o seen ELSE seen \o mine.nodes
          /\ shape.kind \in Relay =>
               bookmark' = [bookmark EXCEPT
                              !.cursor = IF shape.reverse THEN mine.startCursor ELSE mine.endCursor,
                              !.order = args.order]
          /\ shape.kind \notin Relay => bookmark' = [bookmark EXCEPT !.offset = Len(seen')]
          /\ shape.kind = "select_single" => phase' = "over"
      BY <1>12 DEF BuildResults, Relay
    <2>2. /\ EntriesIndependent' /\ MoreIsHonest'
          /\ mine.nodes \in Seq(Rows)
          /\ shape.kind \in Relay =>
               \A field \in {"startCursor", "endCursor"} :
                 mine[field] # NoCursor =>
                   \E q \in Rows : mine[field] = EncodeKeysetCursor(Order(args.order), q)
      BY <1>12, PagesAreBuilt
    <2>3. bookmark = [cursor |-> bookmark.cursor, offset |-> bookmark.offset, order |-> bookmark.order]
      BY <1>2 DEF Cursors
    <2> HIDE DEF mine
    <2>4. seen' \in Seq(Rows)
      BY <1>2, <2>1, <2>2 DEF Slicing
    <2>5. Len(seen') \in Nat
      BY <2>4
    <2>6. \A o : Order(o)' = Order(o)
      BY <2>1, RequestFixes
    <2>7. CASE shape.kind \in Relay
      <3>1. /\ bookmark'.cursor = IF shape.reverse THEN mine.startCursor ELSE mine.endCursor
            /\ bookmark'.order = args.order /\ bookmark'.offset = bookmark.offset
        BY <2>1, <2>3, <2>7
      <3>2. Marked'
        BY <2>1, <2>2, <2>6, <2>7, <3>1 DEF Marked
      <3>3. shape.kind # "select_single"
        BY <2>7 DEF Relay
      <3>4. Slicing'
        BY <1>2, <2>1, <2>4, <2>7, <3>1, <3>3 DEF Slicing
      <3> QED
        BY <1>1, <1>2, <2>1, <2>2, <3>2, <3>4 DEF Paged
    <2>8. CASE shape.kind \notin Relay
      <3>1. bookmark'.cursor = bookmark.cursor /\ bookmark'.offset = Len(seen')
        BY <2>1, <2>3, <2>8
      <3>2. bookmark'.cursor = NoCursor
        BY <1>2, <2>8, <3>1 DEF Slicing
      <3>3. Marked'
        BY <3>2 DEF Marked, NoCursor
      <3>4. Slicing'
        BY <1>2, <2>1, <2>4, <2>5, <2>8, <3>1, <3>2 DEF Slicing, Working, NoCursor
      <3> QED
        BY <1>1, <1>2, <2>1, <2>2, <3>3, <3>4 DEF Paged
    <2> QED
      BY <2>7, <2>8
  <1>13. CASE (\E r \in Rows : Insert(r)) \/ (\E r \in Rows : Delete(r))
    <2>1. /\ UNCHANGED <<shape, args, snap, out, bookmark, seen, rows, phase>>
          /\ table' \subseteq Rows
      BY <1>2, <1>13 DEF Insert, Delete
    <2> QED
      BY <1>4, <2>1 DEF Paged
  <1>14. CASE UNCHANGED vars
    <2>1. UNCHANGED <<shape, args, snap, out, bookmark, seen, rows, phase, table>>
      BY <1>14 DEF vars
    <2> QED
      BY <1>2, <1>4, <2>1 DEF Paged
  <1> QED
    BY <1>5, <1>7, <1>8, <1>9, <1>10, <1>11, <1>12, <1>13, <1>14 DEF Next

\* Each entry of a bucket is given exactly the page its own key has on its own: for
\* every table, every order, size and cursor a request may have, every bucket of
\* keys, missing and repeated ones among them, and every kind of field, the window,
\* the seek predicate, the grouping and the scatter of execute together come to the
\* slice of the entry's rows in the field's order.
THEOREM PagesAreOfTheirKeys == Spec => []EntriesIndependent
  <1>1. Paged => EntriesIndependent
    BY DEF Paged
  <1> QED
    BY <1>1, PagedInit, PagedNext, PTL DEF Spec

\* hasNextPage, or hasPreviousPage going backwards, is true exactly when rows of the
\* entry's key lay beyond the page when it was read (the extra row of page_limit
\* and build_connection).
THEOREM FlagsAreHonest == Spec => []MoreIsHonest
  <1>1. Paged => MoreIsHonest
    BY DEF Paged
  <1> QED
    BY <1>1, PagedInit, PagedNext, PTL DEF Spec

-----------------------------------------------------------------------------
(* A walk over a Relay field                                               *)

\* Every row of the sequence comes before the later ones.
Rising(terms, sequence) ==
  \A i, j \in DOMAIN sequence : i < j => Precedes(terms, sequence[i], sequence[j])

\* r comes after q in the direction of travel.
Past(terms, q, r) == IF shape.reverse THEN Precedes(terms, r, q) ELSE Precedes(terms, q, r)

\* The rows ahead of a request are all those its entry should be given, in order.
LEMMA AheadRises ==
    ASSUME Typed, snap \subseteq Rows, NEW e
    PROVE  LET N == Cardinality(Wanted(e))
           IN  /\ N \in Nat /\ Len(Ahead(e)) = N /\ DOMAIN Ahead(e) = 1..N
               /\ \A i \in 1..N : Ahead(e)[i] \in Wanted(e)
               /\ \A r \in Wanted(e) : \E i \in 1..N : Ahead(e)[i] = r
               /\ \A i, j \in 1..N : i < j => Precedes(Order(args.order), Ahead(e)[i], Ahead(e)[j])
  <1> DEFINE order == Order(args.order)
             W == Wanted(e)
             N == Cardinality(W)
             ahead == OrderBy(W, order)
             before == Before(W, order)
  <1>1. Ahead(e) = ahead
    BY DEF Ahead, Wanted, Beyond
  <1>2. W \subseteq Rows /\ OfField(W)
    BY DEF Wanted, OwnRows, OfField
  <1> HIDE DEF W
  <1>3. Sortable(W, order) /\ IsOrder(order) /\ \A q, r \in W : Ties(order, q, r) => q = r
    BY <1>2, OrdersAreTotal, OrdersOfRequests DEF Typed
  <1>4. Lists(ahead, N, W, before)
    BY <1>3, OrderByLists
  <1>5. \A q, r \in W : Valued(order, q) /\ Valued(order, r)
    BY <1>3 DEF Sortable
  <1>6. ASSUME NEW q \in W, NEW r \in W, q # r, q \in before[r] PROVE Precedes(order, q, r)
    <2>1. Comes(order, q, r)
      BY <1>6 DEF Before
    <2>2. Ties(order, q, r) \/ Precedes(order, q, r) \/ Precedes(order, r, q)
      BY <1>3, <1>5, RowsCompare
    <2>3. ~Ties(order, q, r)
      BY <1>3, <1>6
    <2> HIDE DEF order
    <2> QED
      BY <2>1, <2>2, <2>3 DEF Comes
  <1>7. \A r \in W : r \notin before[r]
    BY <1>3, ComesIsStrict DEF StrictOrder
  <1> HIDE DEF N, ahead, before, order
  <1>8. /\ N \in Nat /\ ahead \in [1..N -> W]
        /\ \A r \in W : \E i \in 1..N : ahead[i] = r
        /\ \A i, j \in 1..N : i < j => ahead[i] \in before[ahead[j]]
    BY <1>4 DEF Lists
  <1>9. DOMAIN ahead = 1..N /\ Len(ahead) = N /\ \A i \in 1..N : ahead[i] \in W
    BY <1>8
  <1>10. ASSUME NEW i \in 1..N, NEW j \in 1..N, i < j PROVE Precedes(order, ahead[i], ahead[j])
    <2>1. ahead[i] \in before[ahead[j]]
      BY <1>8, <1>10
    <2>2. ahead[i] # ahead[j]
      BY <1>7, <1>9, <2>1
    <2> QED
      BY <1>6, <1>9, <2>1, <2>2
  <1> QED
    BY <1>1, <1>8, <1>9, <1>10 DEF N, W, order

\* A page is in the field's order, of rows its entry should be given; a row that
\* should be given and is not on it lies past every row of the page, and then
\* there are more rows ahead than the page has.
LEMMA PageIsNearest ==
    ASSUME Typed, snap \subseteq Rows, shape.kind \in Relay, NEW e
    PROVE  LET nodes == ExpectedNodes(e)
               order == Order(args.order)
           IN  /\ nodes \in Seq(Wanted(e))
               /\ Rising(order, nodes)
               /\ \A r \in Wanted(e) :
                    \/ \E k \in DOMAIN nodes : nodes[k] = r
                    \/ /\ Len(Ahead(e)) > Len(nodes)
                       /\ \A k \in DOMAIN nodes : Past(order, nodes[k], r)
  <1> DEFINE N == Cardinality(Wanted(e))
             W == Wanted(e)
             ahead == Ahead(e)
             order == Order(args.order)
             p == Fewer(args.size, N)
             lo == IF shape.reverse THEN N - p ELSE 0
             nodes == Slice(ahead, lo, lo + p)
  <1>1. /\ N \in Nat /\ Len(ahead) = N
        /\ \A i \in 1..N : ahead[i] \in W
        /\ \A r \in W : \E i \in 1..N : ahead[i] = r
        /\ \A i, j \in 1..N : i < j => Precedes(order, ahead[i], ahead[j])
    BY AheadRises
  <1>2. /\ shape.reverse => ExpectedNodes(e) = SubSeq(ahead, N - p + 1, N)
        /\ ~shape.reverse => ExpectedNodes(e) = SubSeq(ahead, 1, p)
    BY <1>1, ExpectedPages
  <1>3. shape.reverse \in BOOLEAN
    BY ShapesAreKinds DEF Typed
  <1>4. args.size \in Nat \/ args.size = NULL
    BY DEF Typed
  <1> HIDE DEF N, W, ahead, order
  <1>5. p \in Nat /\ p <= N
    BY <1>1, <1>4, NullIsNoValue DEF Fewer
  <1> HIDE DEF p
  <1>6. /\ lo \in Nat /\ lo + p \in Nat /\ lo + p <= N /\ (lo + p) - lo = p
        /\ shape.reverse => lo + p = N /\ N - p + 1 = lo + 1
        /\ ~shape.reverse => lo = 0 /\ lo + p = p
    BY <1>1, <1>3, <1>5
  <1>7. ExpectedNodes(e) = nodes
    <2>1. \A l, h \in Nat : \A start : start = l + 1 => SubSeq(ahead, start, h) = Slice(ahead, l, h)
      BY SubSeqIsSlice
    <2>2. CASE shape.reverse
      <3> HIDE DEF lo
      <3>1. SubSeq(ahead, N - p + 1, lo + p) = nodes
        BY <1>6, <2>1, <2>2
      <3> QED
        BY <1>2, <1>6, <2>2, <3>1
    <2>3. CASE ~shape.reverse
      <3>1. 1 = 0 + 1 /\ 0 \in Nat
        OBVIOUS
      <3>2. SubSeq(ahead, 1, p) = Slice(ahead, 0, p)
        BY <1>5, <2>1, <3>1
      <3> HIDE DEF lo
      <3> QED
        BY <1>2, <1>6, <2>3, <3>2
    <2> QED
      BY <2>2, <2>3
  <1> HIDE DEF lo
  <1>8. nodes = [i \in 1..p |-> ahead[lo + i]]
    BY <1>6 DEF Slice
  <1>9. \A i \in 1..p : lo + i \in 1..N
    BY <1>1, <1>5, <1>6
  <1> HIDE DEF nodes
  <1>10. nodes \in Seq(W) /\ DOMAIN nodes = 1..p /\ Len(nodes) = p
    BY <1>1, <1>5, <1>8, <1>9
  <1>11. Rising(order, nodes)
    <2> SUFFICES ASSUME NEW i \in 1..p, NEW j \in 1..p, i < j
                 PROVE  Precedes(order, nodes[i], nodes[j])
      BY <1>10 DEF Rising
    <2>1. lo + i < lo + j /\ lo + i \in 1..N /\ lo + j \in 1..N
      BY <1>6, <1>9
    <2>2. Precedes(order, ahead[lo + i], ahead[lo + j])
      BY <1>1, <2>1
    <2> QED
      BY <1>8, <2>2
  <1>12. ASSUME NEW r \in W, ~\E k \in DOMAIN nodes : nodes[k] = r
         PROVE  N > p /\ \A k \in DOMAIN nodes : Past(order, nodes[k], r)
    <2>1. PICK i \in 1..N : ahead[i] = r
      BY <1>1
    <2>2. ~(lo < i /\ i <= lo + p)
      <3> SUFFICES ASSUME lo < i, i <= lo + p PROVE FALSE
        OBVIOUS
      <3>1. i - lo \in 1..p /\ lo + (i - lo) = i
        BY <1>5, <1>6
      <3>2. nodes[i - lo] = ahead[lo + (i - lo)]
        BY <1>8, <3>1
      <3> QED
        BY <1>10, <1>12, <2>1, <3>1, <3>2
    <2>3. shape.reverse => i <= lo
      BY <1>6, <2>2
    <2>4. ~shape.reverse => i > lo + p
      BY <1>6, <2>2
    <2>5. N > p
      BY <1>1, <1>3, <1>5, <1>6, <2>3, <2>4
    <2>6. ASSUME NEW k \in 1..p PROVE Past(order, nodes[k], r)
      <3>1. nodes[k] = ahead[lo + k] /\ lo + k \in 1..N
        BY <1>8, <1>9
      <3>2. CASE shape.reverse
        <4>1. i < lo + k
          BY <1>6, <2>3, <3>2
        <4> QED
          BY <1>1, <2>1, <3>1, <3>2, <4>1 DEF Past
      <3>3. CASE ~shape.reverse
        <4>1. lo + k < i
          BY <1>6, <2>4, <3>3
        <4> QED
          BY <1>1, <2>1, <3>1, <3>3, <4>1 DEF Past
      <3> QED
        BY <3>2, <3>3
    <2> QED
      BY <1>10, <2>5, <2>6
  <1> QED
    BY <1>1, <1>7, <1>10, <1>11, <1>12 DEF W, ahead, order

\* Two rising sequences, every row of the first before every row of the second,
\* make one.
LEMMA JoinedRise ==
    ASSUME NEW terms, NEW R, NEW s \in Seq(R), NEW t \in Seq(R),
           Rising(terms, s), Rising(terms, t),
           \A i \in DOMAIN s : \A k \in DOMAIN t : Precedes(terms, s[i], t[k])
    PROVE  Rising(terms, s \o t)
  <1> DEFINE m == Len(s)
             n == Len(t)
             both == s \o t
  <1>1. /\ m \in Nat /\ n \in Nat /\ DOMAIN s = 1..m /\ DOMAIN t = 1..n /\ DOMAIN both = 1..(m + n)
        /\ \A i \in 1..(m + n) : both[i] = IF i <= m THEN s[i] ELSE t[i - m]
    OBVIOUS
  <1> HIDE DEF m, n, both
  <1> SUFFICES ASSUME NEW i \in 1..(m + n), NEW j \in 1..(m + n), i < j
               PROVE  Precedes(terms, both[i], both[j])
    BY <1>1 DEF Rising, both
  <1>2. CASE j <= m
    <2>1. i \in DOMAIN s /\ j \in DOMAIN s /\ both[i] = s[i] /\ both[j] = s[j]
      BY <1>1, <1>2
    <2> QED
      BY <2>1 DEF Rising
  <1>3. CASE i <= m /\ j > m
    <2>1. i \in DOMAIN s /\ j - m \in DOMAIN t /\ both[i] = s[i] /\ both[j] = t[j - m]
      BY <1>1, <1>3
    <2> QED
      BY <2>1
  <1>4. CASE i > m
    <2>1. /\ i - m \in DOMAIN t /\ j - m \in DOMAIN t /\ i - m < j - m
          /\ both[i] = t[i - m] /\ both[j] = t[j - m]
      BY <1>1, <1>4
    <2> QED
      BY <2>1 DEF Rising
  <1> QED
    BY <1>1, <1>2, <1>3, <1>4

\* The row the client's cursor marks, and the rows it has been given.
Has(sequence, x) == \E i \in DOMAIN sequence : sequence[i] = x
Edge == IF shape.reverse THEN seen[1] ELSE seen[Len(seen)]
Given(r) == Has(seen, r)

\* What stayed in the table is what the page statement saw.
Stayed ==
  /\ stable \subseteq table
  /\ phase \in Working => stable \subseteq snap

\* While the walk goes on, the cursor is that of the last row given.
Followed ==
  phase # "over" =>
    /\ bookmark.cursor = NoCursor => seen = << >>
    /\ bookmark.cursor # NoCursor =>
         /\ seen # << >>
         /\ bookmark.cursor = EncodeKeysetCursor(Order(bookmark.order), Edge)

\* What has stayed is given or lies past that row; at the walk's end it is given.
Remaining ==
  /\ phase # "over" /\ bookmark.cursor # NoCursor =>
       \A r \in OwnRows(1, stable) : Given(r) \/ Past(Order(bookmark.order), Edge, r)
  /\ phase = "over" /\ ~more => \A r \in OwnRows(1, stable) : Given(r)

\* The inductive invariant of a walk, on top of Paged.
Walked ==
  shape.kind \in Relay =>
    /\ Rising(Order(bookmark.order), seen)
    /\ Stayed
    /\ Followed
    /\ Remaining

\* When a page is built, what the client was given before is in its order, and
\* comes before the page in the direction of travel; a row that stayed is given or
\* is one the page's entry should be given.
LEMMA PageGoesOn ==
    ASSUME Paged, Walked, phase = "build", shape.kind \in Relay
    PROVE  LET order == Order(args.order)
           IN  /\ Rising(order, seen)
               /\ \A i \in DOMAIN seen : \A r \in Wanted(1) : Past(order, seen[i], r)
               /\ \A r \in OwnRows(1, stable) : Given(r) \/ r \in Wanted(1)
  <1> DEFINE order == Order(args.order)
             old == Order(bookmark.order)
             W == Wanted(1)
  <1>1. /\ Cursors /\ Slicing /\ Marked /\ phase \in Working /\ snap \subseteq Rows
        /\ seen \in Seq(Rows) /\ args.cursor = bookmark.cursor
    BY DEF Paged, Working, Slicing, Cursors, Accepted
  <1>2. Typed /\ CursorOfRow
    BY <1>1, AcceptedCursor
  <1>3. /\ Rising(old, seen) /\ stable \subseteq snap
        /\ bookmark.cursor = NoCursor => seen = << >>
        /\ bookmark.cursor # NoCursor =>
             /\ seen # << >> /\ bookmark.cursor = EncodeKeysetCursor(old, Edge)
             /\ \A r \in OwnRows(1, stable) : Given(r) \/ Past(old, Edge, r)
    BY <1>1 DEF Walked, Stayed, Followed, Remaining, Working
  <1>4. OwnRows(1, stable) \subseteq OwnRows(1, snap) /\ OwnRows(1, snap) \subseteq Rows
    BY <1>1, <1>3 DEF OwnRows
  <1>5. /\ W \subseteq Rows
        /\ \A r : r \in W <=> r \in OwnRows(1, snap) /\ Beyond(r)
    BY <1>4 DEF Wanted
  <1> HIDE DEF W, order, old
  <1>6. CASE args.cursor = NoCursor
    <2>1. seen = << >> /\ \A r : Beyond(r)
      BY <1>1, <1>3, <1>6 DEF Beyond
    <2> QED
      BY <1>4, <1>5, <2>1 DEF Rising, W, order
  <1>7. CASE args.cursor # NoCursor
    <2>1. /\ args.cursor.values = EncodeKeysetCursor(order, Edge).values
          /\ \A q, r : Precedes(order, q, r) <=> Precedes(old, q, r)
      BY <1>1, <1>3, <1>7, AcceptedValues DEF order, old
    <2>2. /\ shape.reverse \in BOOLEAN /\ Len(seen) \in Nat /\ Len(seen) >= 1
          /\ DOMAIN seen = 1..Len(seen) /\ \A i \in DOMAIN seen : seen[i] \in Rows
      BY <1>1, <1>2, <1>3, <1>7, ShapesAreKinds DEF Typed
    <2>3. Edge \in Rows
      BY <2>2 DEF Edge
    <2>4. \A r \in Rows : Beyond(r) <=> Past(order, Edge, r)
      BY <1>2, <1>7, <2>1, <2>3, BeyondTheRow DEF Past, order
    <2>5. Rising(order, seen)
      BY <1>3, <2>1 DEF Rising
    <2>6. \A r \in OwnRows(1, stable) : Given(r) \/ r \in W
      <3>1. \A r : Past(old, Edge, r) => Past(order, Edge, r)
        BY <2>1 DEF Past
      <3> QED
        BY <1>1, <1>3, <1>4, <1>5, <1>7, <2>4, <3>1
    <2>7. ASSUME NEW i \in DOMAIN seen, NEW r \in W PROVE Past(order, seen[i], r)
      <3>1. r \in Rows /\ Past(order, Edge, r)
        BY <1>5, <2>4
      <3>2. IsOrder(order) /\ \A q \in Rows : Valued(order, q)
        <4>1. IsOrder(order) /\ \A t \in DOMAIN order : order[t].column \in Columns
          BY <1>2, OrdersOfRequests, OrderColumns DEF Typed, order
        <4> QED
          BY <4>1, RowShape DEF Valued
      <3>3. Edge = seen[i] \/ Past(order, seen[i], Edge)
        <4>1. CASE shape.reverse
          <5>1. Edge = seen[1] /\ 1 \in DOMAIN seen /\ (i = 1 \/ 1 < i)
            BY <2>2, <4>1 DEF Edge
          <5> QED
            BY <2>5, <4>1, <5>1 DEF Rising, Past
        <4>2. CASE ~shape.reverse
          <5>1. Edge = seen[Len(seen)] /\ Len(seen) \in DOMAIN seen /\ (i = Len(seen) \/ i < Len(seen))
            BY <2>2, <4>2 DEF Edge
          <5> QED
            BY <2>5, <4>2, <5>1 DEF Rising, Past
        <4> QED
          BY <4>1, <4>2
      <3> QED
        BY <2>2, <2>3, <3>1, <3>2, <3>3, PrecedesIsTransitive DEF Past
    <2> QED
      BY <2>5, <2>6, <2>7 DEF W, order
  <1> QED
    BY <1>6, <1>7

\* The rows of one sequence or the other are those of the two joined.
LEMMA JoinedRows ==
    ASSUME NEW R, NEW s \in Seq(R), NEW t \in Seq(R)
    PROVE  /\ s \o t \in Seq(R)
           /\ \A x : Has(s, x) \/ Has(t, x) => Has(s \o t, x)
           /\ s # << >> => s \o t # << >> /\ (s \o t)[1] = s[1]
           /\ t # << >> => s \o t # << >> /\ (s \o t)[Len(s \o t)] = t[Len(t)]
  <1> DEFINE m == Len(s)
             n == Len(t)
             both == s \o t
  <1>1. /\ m \in Nat /\ n \in Nat /\ DOMAIN s = 1..m /\ DOMAIN t = 1..n /\ DOMAIN both = 1..(m + n)
        /\ both \in Seq(R) /\ Len(both) = m + n
        /\ \A i \in 1..(m + n) : both[i] = IF i <= m THEN s[i] ELSE t[i - m]
        /\ s # << >> => m >= 1
        /\ t # << >> => n >= 1
        /\ both = << >> => m + n = 0
    OBVIOUS
  <1> HIDE DEF m, n, both
  <1>2. ASSUME NEW i \in DOMAIN s PROVE Has(both, s[i])
    <2>1. i \in 1..(m + n) /\ both[i] = s[i]
      BY <1>1
    <2> QED
      BY <1>1, <2>1 DEF Has
  <1>3. ASSUME NEW i \in DOMAIN t PROVE Has(both, t[i])
    <2>1. m + i \in 1..(m + n) /\ ~(m + i <= m) /\ (m + i) - m = i
      <3>1. i \in 1..n /\ i \in Int /\ m \in Nat /\ n \in Nat
        BY <1>1, <1>3
      <3> QED
        BY <3>1
    <2>2. both[m + i] = t[(m + i) - m]
      BY <1>1, <2>1
    <2> QED
      BY <1>1, <2>1, <2>2 DEF Has
  <1>4. ASSUME s # << >> PROVE both # << >> /\ both[1] = s[1]
    <2>1. m >= 1 /\ 1 \in 1..(m + n)
      BY <1>1, <1>4
    <2> QED
      BY <1>1, <2>1
  <1>5. ASSUME t # << >> PROVE both # << >> /\ both[m + n] = t[n]
    <2>1. n >= 1 /\ m + n \in 1..(m + n) /\ ~(m + n <= m) /\ (m + n) - m = n
      BY <1>1, <1>5
    <2>2. both[m + n] = t[(m + n) - m]
      BY <1>1, <2>1
    <2> QED
      BY <1>1, <2>1, <2>2
  <1>6. \A x : Has(s, x) \/ Has(t, x) => Has(both, x)
    BY <1>2, <1>3 DEF Has
  <1> QED
    BY <1>1, <1>4, <1>5, <1>6 DEF both, m, n

\* Which rows the client has a claim to and what comes first in the walk's order
\* depend on the shape and the bookmark alone.
LEMMA ShapeFixes ==
    ASSUME UNCHANGED shape
    PROVE  /\ \A o : Order(o)' = Order(o)
           /\ \A e, S : OwnRows(e, S)' = OwnRows(e, S)
  BY DEF Order, OwnRows, Keys, Entries

\* A page goes on where the walk had come to.
LEMMA WalkedBuilds == Paged /\ Walked /\ BuildResults => Walked'
  <1> SUFFICES ASSUME Paged, Walked, BuildResults, shape.kind \in Relay PROVE Walked'
    BY DEF BuildResults, Walked
  <1> DEFINE mine == out'[1]
             nodes == mine.nodes
             order == Order(args.order)
             W == Wanted(1)
             flag == IF shape.reverse THEN mine.hasPreviousPage ELSE mine.hasNextPage
             At(i) == EncodeKeysetCursor(order, nodes[i])
  <1>1. /\ phase = "build" /\ UNCHANGED <<shape, table, args, stable, snap>>
        /\ seen' = IF shape.reverse THEN nodes \o seen ELSE seen \o nodes
        /\ more' = flag
        /\ bookmark' = [bookmark EXCEPT
                          !.cursor = IF shape.reverse THEN mine.startCursor ELSE mine.endCursor,
                          !.order = args.order]
        /\ phase' = IF more' /\ nodes # << >> THEN "client" ELSE "over"
    BY DEF BuildResults
  <1>2. /\ Cursors /\ Slicing /\ Marked /\ phase \in Working /\ snap \subseteq Rows
        /\ seen \in Seq(Rows)
    BY <1>1 DEF Paged, Working, Slicing
  <1>3. Typed /\ shape.reverse \in BOOLEAN /\ 1 \in Entries
    BY <1>2, AcceptedCursor, ShapesAreKinds, ShapesMatchColumns DEF Typed, Entries
  <1>4. /\ nodes = ExpectedNodes(1) /\ nodes \in Seq(Rows)
        /\ flag <=> Len(Ahead(1)) > Len(nodes)
        /\ mine.startCursor = IF nodes = << >> THEN NoCursor ELSE At(1)
        /\ mine.endCursor = IF nodes = << >> THEN NoCursor ELSE At(Len(nodes))
    BY <1>3, ConnectionsAreBuilt
  <1>5. /\ Rising(order, nodes) /\ \A k \in DOMAIN nodes : nodes[k] \in W
        /\ \A r \in W : \/ \E k \in DOMAIN nodes : nodes[k] = r
                        \/ flag /\ \A k \in DOMAIN nodes : Past(order, nodes[k], r)
    BY <1>2, <1>3, <1>4, PageIsNearest
  <1>6. /\ Rising(order, seen)
        /\ \A i \in DOMAIN seen : \A r \in W : Past(order, seen[i], r)
        /\ \A r \in OwnRows(1, stable) : Given(r) \/ r \in W
    BY <1>1, PageGoesOn
  <1>7. bookmark'.order = args.order
        /\ bookmark'.cursor = IF shape.reverse THEN mine.startCursor ELSE mine.endCursor
    BY <1>1, <1>2 DEF Cursors
  <1>8. /\ \A o : Order(o)' = Order(o)
        /\ OwnRows(1, stable)' = OwnRows(1, stable)
    BY <1>1, ShapeFixes
  <1>9. Order(bookmark.order)' = order
    BY <1>7, <1>8
  <1>10. \A r \in Rows : EncodeKeysetCursor(order, r) # NoCursor
    BY <1>3, CursorsAreText DEF Typed, Order, NoCursor
  <1> HIDE DEF mine, order, W, nodes
  <1>11. Rising(order, seen')
    <2>1. CASE shape.reverse
      <3>1. \A i \in DOMAIN nodes : \A k \in DOMAIN seen : Precedes(order, nodes[i], seen[k])
        BY <1>5, <1>6, <2>1 DEF Past
      <3> QED
        BY <1>1, <1>2, <1>4, <1>5, <1>6, <2>1, <3>1, JoinedRise
    <2>2. CASE ~shape.reverse
      <3>1. \A i \in DOMAIN seen : \A k \in DOMAIN nodes : Precedes(order, seen[i], nodes[k])
        BY <1>5, <1>6, <2>2 DEF Past
      <3> QED
        BY <1>1, <1>2, <1>4, <1>5, <1>6, <2>2, <3>1, JoinedRise
    <2> QED
      BY <2>1, <2>2
  <1>12. \A x : Has(seen, x) \/ Has(nodes, x) => Has(seen, x)'
    BY <1>1, <1>2, <1>4, JoinedRows
  <1>13. nodes # << >> => /\ seen' # << >>
                          /\ Edge' = IF shape.reverse THEN nodes[1] ELSE nodes[Len(nodes)]
    BY <1>1, <1>2, <1>4, JoinedRows DEF Edge
  <1>14. nodes # << >> => /\ 1 \in DOMAIN nodes /\ Len(nodes) \in DOMAIN nodes
                          /\ nodes[1] \in Rows /\ nodes[Len(nodes)] \in Rows
    BY <1>4
  <1>15. Stayed'
    <2>1. phase' \notin Working
      BY <1>1 DEF Working
    <2> QED
      BY <1>1, <2>1 DEF Walked, Stayed
  <1>16. phase' # "over" => nodes # << >>
    BY <1>1
  <1>17. nodes # << >> => bookmark'.cursor = EncodeKeysetCursor(order, Edge') /\ bookmark'.cursor # NoCursor
    BY <1>4, <1>7, <1>10, <1>13, <1>14
  <1>18. Followed'
    BY <1>9, <1>13, <1>16, <1>17 DEF Followed, NoCursor
  <1>19. ASSUME NEW r \in OwnRows(1, stable)
         PROVE  \/ Given(r)'
                \/ flag /\ \A k \in DOMAIN nodes : Past(order, nodes[k], r)
    BY <1>5, <1>6, <1>12, <1>19 DEF Given, Has
  <1>20. Remaining'
    <2>1. ASSUME phase' # "over", NEW r \in OwnRows(1, stable)
          PROVE  Given(r)' \/ Past(Order(bookmark.order), Edge, r)'
      <3>1. nodes # << >>
        BY <1>16, <2>1
      <3>2. Given(r)' \/ Past(order, Edge', r)
        BY <1>13, <1>14, <1>19, <3>1
      <3> QED
        BY <1>1, <1>9, <3>2 DEF Past
    <2>2. ASSUME phase' = "over", ~more', NEW r \in OwnRows(1, stable) PROVE Given(r)'
      BY <1>1, <1>19, <2>2
    <2> QED
      BY <1>8, <2>1, <2>2 DEF Remaining
  <1> QED
    BY <1>9, <1>11, <1>15, <1>18, <1>20 DEF Walked

\* A walk starts with nothing given.
LEMMA WalkedInit == Init => Walked
  <1> SUFFICES ASSUME Init PROVE Walked
    OBVIOUS
  <1>1. /\ seen = << >> /\ stable = table /\ snap = table /\ phase = "client"
        /\ bookmark.cursor = NoCursor
    BY DEF Init
  <1> QED
    BY <1>1 DEF Walked, Rising, Stayed, Followed, Remaining, Working

\* Until a page is built, rows may only leave what stayed.
LEMMA WalkedStays ==
    ASSUME Walked, UNCHANGED <<shape, bookmark, seen, more>>,
           stable' \subseteq stable, phase' = "over" <=> phase = "over", Stayed => Stayed'
    PROVE  Walked'
  <1> SUFFICES ASSUME shape.kind \in Relay PROVE Walked'
    BY DEF Walked
  <1>1. /\ Rising(Order(bookmark.order), seen) /\ Stayed' /\ Followed /\ Remaining
    BY DEF Walked
  <1>2. /\ Order(bookmark.order)' = Order(bookmark.order) /\ Edge' = Edge
        /\ \A r : Given(r)' = Given(r)
        /\ \A S : OwnRows(1, S)' = OwnRows(1, S)
    BY ShapeFixes DEF Edge, Given, Has
  <1>3. OwnRows(1, stable)' \subseteq OwnRows(1, stable)
    BY <1>2 DEF OwnRows
  <1>4. \A q, r : Past(Order(bookmark.order), q, r)' = Past(Order(bookmark.order), q, r)
    BY <1>2 DEF Past
  <1>5. Followed'
    BY <1>1, <1>2 DEF Followed
  <1>6. Remaining'
    BY <1>1, <1>2, <1>3, <1>4 DEF Remaining
  <1>7. Rising(Order(bookmark.order), seen)'
    BY <1>1, <1>2 DEF Rising
  <1> QED
    BY <1>1, <1>5, <1>6, <1>7 DEF Walked

\* Every step keeps the invariant.
LEMMA WalkedNext == Paged /\ Walked /\ [Next]_vars => Walked'
  <1> SUFFICES ASSUME Paged, Walked, [Next]_vars PROVE Walked'
    OBVIOUS
  <1>1. CASE Request
    <2>1. /\ UNCHANGED <<shape, bookmark, seen, more, stable, table>> /\ snap' = table
          /\ phase = "client" /\ phase' \in {"rejected", "build", "page"}
      BY <1>1 DEF Request
    <2> QED
      BY <2>1, WalkedStays DEF Stayed
  <1>2. ASSUME NEW result, NEW next, PageReturned(result, next), next # "over" PROVE Walked'
    <2>1. /\ UNCHANGED <<shape, bookmark, seen, more, stable, table>> /\ snap' = table
          /\ phase = "page" /\ phase' = next
      BY <1>2 DEF PageReturned
    <2> QED
      BY <1>2, <2>1, WalkedStays DEF Stayed
  <1>3. CASE RunConnection \/ RunUnion
    <2>1. AfterPage # "over"
      BY DEF AfterPage, AfterCount
    <2> QED
      BY <1>2, <1>3, <2>1 DEF RunConnection, RunUnion
  <1>4. CASE RunSelect \/ RunSelectAll
    BY <1>2, <1>4 DEF RunSelect, RunSelectAll
  <1>5. CASE RunCount \/ RunAggregate
    <2>1. /\ UNCHANGED <<shape, bookmark, seen, more, stable, table, snap>>
          /\ phase \in {"count", "aggregate"} /\ phase' \in {"aggregate", "build"}
      BY <1>5 DEF RunCount, RunAggregate, AfterCount
    <2> QED
      BY <2>1, WalkedStays DEF Stayed, Working
  <1>6. CASE BuildResults
    BY <1>6, WalkedBuilds
  <1>7. ASSUME NEW r \in Rows, Insert(r) \/ Delete(r) PROVE Walked'
    <2>1. /\ UNCHANGED <<shape, bookmark, seen, more, snap, phase>>
          /\ \/ stable' = stable /\ table' = table \cup {r}
             \/ stable' = stable \ {r} /\ table' = table \ {r}
      BY <1>7 DEF Insert, Delete
    <2> QED
      BY <2>1, WalkedStays DEF Stayed
  <1>8. CASE UNCHANGED vars
    <2>1. UNCHANGED <<shape, bookmark, seen, more, stable, table, snap, phase>>
      BY <1>8 DEF vars
    <2> QED
      BY <2>1, WalkedStays DEF Stayed
  <1> QED
    BY <1>1, <1>3, <1>4, <1>5, <1>6, <1>7, <1>8 DEF Next

\* Both invariants hold in every state.
LEMMA WalksAreWalked == Spec => [](Paged /\ Walked)
  <1>1. Init => Paged /\ Walked
    BY PagedInit, WalkedInit
  <1>2. Paged /\ Walked /\ [Next]_vars => (Paged /\ Walked)'
    BY PagedNext, WalkedNext
  <1> QED
    BY <1>1, <1>2, PTL DEF Spec

\* The pages of a walk over a Relay field put together are in the field's order
\* without a repetition, forwards and backwards, whatever comes and goes between
\* its statements.
THEOREM WalksAreInOrder == Spec => [](shape.kind \in Relay => InOrder)
  <1>1. Paged /\ Walked => (shape.kind \in Relay => InOrder)
    <2> SUFFICES ASSUME Paged, Walked, shape.kind \in Relay PROVE InOrder
      OBVIOUS
    <2>1. Rising(Order(bookmark.order), seen) /\ seen \in Seq(Rows)
      BY DEF Walked, Paged, Slicing
    <2>2. DOMAIN seen = 1..Len(seen) /\ Len(seen) \in Nat
      BY <2>1
    <2>3. ASSUME NEW j \in DOMAIN seen, NEW i \in 1..(j - 1)
          PROVE  Precedes(Order(bookmark.order), seen[i], seen[j])
      <3>1. i \in DOMAIN seen /\ i < j
        BY <2>2
      <3> QED
        BY <2>1, <3>1 DEF Rising
    <2> QED
      BY <2>3 DEF InOrder
  <1> QED
    BY <1>1, WalksAreWalked, PTL

\* A walk over a Relay field that has been told there is no more has been given
\* every row of its first key that was in the table throughout, in spite of the
\* rows that came and went.
THEOREM WalksAreComplete == Spec => [](shape.kind \in Relay => SeesStableRows)
  <1>1. Paged /\ Walked => (shape.kind \in Relay => SeesStableRows)
    BY DEF Walked, Remaining, Given, Has, SeesStableRows
  <1> QED
    BY <1>1, WalksAreWalked, PTL
=============================================================================
