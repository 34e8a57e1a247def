------------------------------- MODULE Keyset -------------------------------
(***************************************************************************)
(* Keyset (seek) cursors and the order specifications they belong to:      *)
(* pg/ordering.py and pg/cursor.py.  A row is a record, a column the name  *)
(* of one of its fields, and a column value a natural number or NULL (text *)
(* is represented by its rank in the database's collation).                *)
(*                                                                         *)
(* The predicates are SQL expressions, so they have three truth values,    *)
(* ordered so that OR is the maximum and AND the minimum; a WHERE clause   *)
(* keeps the rows for which its predicate is T.                            *)
(***************************************************************************)
EXTENDS Integers, Sequences, FiniteSets

CONSTANTS
  NULL,            \* SQL NULL and Python None
  TextColumns,     \* columns whose values encode_value turns into text
  ColumnTypes      \* columns with a declared SQL type (resource.column_types)

\* The text of a cursor value is only comparable to its column through a cast.
ASSUME TextIsCast == TextColumns \subseteq ColumnTypes
ASSUME NullIsNoValue == NULL \notin Nat /\ NULL \notin {"first", "last"}

T == 2
U == 1
F == 0
Or(p, q) == IF p > q THEN p ELSE q
And(p, q) == IF p > q THEN q ELSE p
IsNull(x) == IF x = NULL THEN T ELSE F
IsNotNull(x) == IF x = NULL THEN F ELSE T
Less(x, y) == IF x = NULL \/ y = NULL THEN U ELSE IF x < y THEN T ELSE F
NotEqual(x, y) == IF x = NULL \/ y = NULL THEN U ELSE IF x # y THEN T ELSE F
IsNotDistinctFrom(x, y) == IF x = y THEN T ELSE F

-----------------------------------------------------------------------------
(* Order specifications *)

OrderTerm(column, descending, nulls) ==
  [column |-> column, descending |-> descending, nulls |-> nulls]

\* OrderTerm raises for any other placement.
IsTerm(term) == term.descending \in BOOLEAN /\ term.nulls \in {NULL, "first", "last"}

IsOrder(terms) ==
  /\ terms \in Seq({terms[i] : i \in DOMAIN terms})
  /\ \A i \in DOMAIN terms : IsTerm(terms[i])

\* An order that names no primary key gets it as its last tie-break, unless the
\* caller vouches that the order is unique; no select is left unordered.
NormalizeOrder(orderBy, primaryKey, orderIsUnique) ==
  IF orderBy = << >> \/ (~orderIsUnique /\ \A i \in DOMAIN orderBy : orderBy[i].column # primaryKey)
  THEN Append(orderBy, OrderTerm(primaryKey, FALSE, NULL))
  ELSE orderBy

\* The placement the comparator assumes: Postgres puts NULLs last ascending and
\* first descending unless the term says otherwise.
EffectiveNulls(term) ==
  IF term.nulls # NULL THEN term.nulls
  ELSE IF term.descending THEN "first" ELSE "last"

FlipNulls(term) == IF EffectiveNulls(term) = "first" THEN "last" ELSE "first"

\* The order read backwards: every direction and every NULL placement flipped.
ReverseOrder(terms) ==
  [i \in DOMAIN terms |->
     OrderTerm(terms[i].column, ~terms[i].descending, FlipNulls(terms[i]))]

-----------------------------------------------------------------------------
(* ORDER BY, as the database evaluates the clauses of order_clauses *)

\* An explicit NULLS clause is emitted only where the term has one; the rest is
\* the database's own default.
NullsComeFirst(clause) ==
  \/ clause.nulls = "first"
  \/ clause.nulls = NULL /\ clause.descending

ValuePrecedes(clause, x, y) ==
  \/ x = NULL /\ y # NULL /\ NullsComeFirst(clause)
  \/ x # NULL /\ y = NULL /\ ~NullsComeFirst(clause)
  \/ x # NULL /\ y # NULL /\ IF clause.descending THEN x > y ELSE x < y

\* Lexicographic order of two functions from column names to values.
Precedes(clauses, r, q) ==
  \E i \in DOMAIN clauses :
    /\ ValuePrecedes(clauses[i], r[clauses[i].column], q[clauses[i].column])
    /\ \A j \in 1 .. i - 1 : r[clauses[j].column] = q[clauses[j].column]

\* The elements of S in the order in which earlier[r] is the set of those before r.
Enumerate(S, earlier) ==
  [i \in 1 .. Cardinality(S) |-> CHOOSE r \in S : Cardinality(earlier[r]) = i - 1]

\* The rows of S in order.  The database returns ties in any order: here in the
\* order of their heap positions, field pos.
Comes(clauses, q, r) ==
  Precedes(clauses, q, r) \/ (~Precedes(clauses, r, q) /\ q.pos < r.pos)

OrderBy(S, clauses) == Enumerate(S, [r \in S |-> {q \in S : Comes(clauses, q, r)}])

-----------------------------------------------------------------------------
(* Cursors *)

\* The sha256 digest of the canonical order, represented by what it digests:
\* two orders have one digest exactly when they are canonically equal.
OrderDigestWithoutNulls(terms) ==
  [i \in DOMAIN terms |-> <<terms[i].column, terms[i].descending>>]

OrderDigest(terms) ==
  [i \in DOMAIN terms |->
     <<terms[i].column, terms[i].descending, EffectiveNulls(terms[i])>>]

\* Dates and decimals become text, everything else stays a JSON value.
EncodeValue(column, x) ==
  [text |-> column \in TextColumns /\ x # NULL, value |-> x]

EncodeKeysetCursor(terms, row) ==
  [digest |-> OrderDigest(terms),
   values |-> [i \in DOMAIN terms |-> EncodeValue(terms[i].column, row[terms[i].column])]]

\* decode_keyset_cursor raises for a digest of another order or a wrong arity.
DecodeAccepts(cursor, terms) ==
  /\ cursor.digest = OrderDigest(terms)
  /\ Len(cursor.values) = Len(terms)

\* A value is bound with a cast to its column's declared type; text bound
\* without one is no value of the column, so comparing with it says nothing.
BindValue(column, encoded) ==
  IF encoded.text /\ column \notin ColumnTypes THEN NULL ELSE encoded.value

-----------------------------------------------------------------------------
(* The seek predicate *)

\* x comes strictly after the bound value in the term's direction.
ColumnAfter(term, bound, value, x) ==
  LET beyond == IF term.descending THEN Less(x, bound) ELSE Less(bound, x)
  IN  IF EffectiveNulls(term) = "last"
      THEN IF value = NULL THEN NotEqual(x, x) ELSE Or(IsNull(x), beyond)
      ELSE IF value = NULL THEN IsNotNull(x) ELSE And(IsNotNull(x), beyond)

\* gt1 OR (eq1 AND (gt2 OR (eq2 AND ...))).
RecursiveAfterWithEquals(terms, values, bounds, row) ==
  LET after[i \in DOMAIN terms] ==
        LET x  == row[terms[i].column]
            gt == ColumnAfter(terms[i], bounds[i], values[i], x)
            eq == IF x = NULL \/ bounds[i] = NULL THEN U ELSE IsNotDistinctFrom(x, bounds[i])
        IN  IF i = Len(terms) THEN gt ELSE Or(gt, And(eq, after[i + 1]))
  IN  after[1]

RecursiveAfter(terms, values, bounds, row) ==
  LET after[i \in DOMAIN terms] ==
        LET x  == row[terms[i].column]
            gt == ColumnAfter(terms[i], bounds[i], values[i], x)
            eq == IsNotDistinctFrom(x, bounds[i])
        IN  IF i = Len(terms) THEN gt ELSE Or(gt, And(eq, after[i + 1]))
  IN  after[1]

\* The predicate on row of a page after (or, in the reversed order, before) the
\* decoded cursor values.
KeysetWhere(orderBy, encoded, after, row) ==
  LET terms  == IF after THEN orderBy ELSE ReverseOrder(orderBy)
      bounds == [i \in DOMAIN terms |-> BindValue(terms[i].column, encoded[i])]
      values == [i \in DOMAIN terms |-> encoded[i].value]
  IN  RecursiveAfter(terms, values, bounds, row)
=============================================================================
