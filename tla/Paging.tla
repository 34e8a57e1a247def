------------------------------- MODULE Paging -------------------------------
(***************************************************************************)
(* A client that walks a paged field of pg/: a Relay connection on one     *)
(* table (pg/connection.py), a pgUnionAll connection over several          *)
(* (pg/union.py), or a select sliced by first and offset (pg/steps.py,     *)
(* pg/pagination.py), for a bucket of parent keys, while other clients     *)
(* insert and delete rows between its statements.                          *)
(*                                                                         *)
(* The walk follows the bucket's first entry; the other entries are its    *)
(* neighbours in the same batched statements.                              *)
(***************************************************************************)
EXTENDS Keyset

CONSTANTS
  Rows,          \* every row that may ever exist: [pos, id, fk, a, type]
  Tables,        \* the sets of rows a walk may start from
  Shapes,        \* the fields walked: see Shape
  Sizes,         \* page sizes a request may ask for, NULL for none
  MaxChanges,    \* rows inserted or deleted during a walk
  MaxRequests    \* requests of a walk

Kinds == {"connection", "union", "union_root", "select", "select_single", "select_all"}
Relay == {"connection", "union", "union_root"}
Root == {"union_root", "select_all"}
Unions == {"union", "union_root"}
Members == {1, 2}     \* the member types of a union; any other field reads type 1

Columns == {"pos", "id", "fk", "a", "type"}

ASSUME BoundsAreNatural == MaxChanges \in Nat /\ MaxRequests \in Nat \ {0}
ASSUME TablesAreOfRows == \A t \in Tables : t \subseteq Rows

\* A member table has a primary key; a heap position is one row's.
ASSUME RowsAreTyped ==
  /\ IsFiniteSet(Rows)
  /\ \A r \in Rows : r \in [pos : Nat, id : Nat, fk : Nat \cup {NULL}, a : Nat \cup {NULL}, type : Members]
ASSUME RowsAreIdentified ==
  \A q, r \in Rows : q.pos = r.pos \/ (q.id = r.id /\ q.type = r.type) => q = r

\* A key has a component for every column it is matched with; only a connection
\* has aggregates; no page is a negative number of rows.
ASSUME ShapesAreKinds == \A s \in Shapes : s.kind \in Kinds /\ s.reverse \in BOOLEAN
ASSUME ShapesMatchColumns ==
  \A s \in Shapes :
    /\ 1 \in DOMAIN s.bucket
    /\ s.match \in Seq(Columns)
    /\ \A e \in DOMAIN s.bucket :
         Len(s.match) > 1 /\ s.bucket[e] # NULL => DOMAIN s.bucket[e] = DOMAIN s.match
ASSUME OnlyConnectionsAggregate == \A s \in Shapes : s.aggregates => s.kind = "connection"
ASSUME OrdersAreTerms ==
  \A s \in Shapes : \A order \in s.orders :
    IsOrder(order) /\ \A i \in DOMAIN order : order[i].column \in Columns
ASSUME SlicesAreNatural ==
  /\ \A size \in Sizes : size \in Nat \cup {NULL}
  /\ \A s \in Shapes : /\ s.offset \in Nat \cup {NULL}
                       /\ s.kind = "select_single" => s.offset = 0

VARIABLES
  shape,      \* what is walked, fixed by Init
  table,      \* the rows in the database
  phase,      \* "client", "page", "count", "aggregate", "build", "over" or "rejected"
  args,       \* the last request's order, size, cursor (Relay) and offset (selects)
  bookmark,   \* the client's: cursor or offset to go on from, and the cursor's order
  rows,       \* what the page statement returned, a sequence
  totals,     \* key -> __total, as the count statement returned it
  aggregates, \* key -> set of aggregate rows
  out,        \* the step's column: one result for each entry of the bucket
  seen,       \* the rows the client has been given for entry 1, in field order
  more,       \* the last page said that there are more
  stable,     \* rows that were in the table throughout the walk
  snap,       \* the table as the page statement saw it
  quiet,      \* no row changed since the page statement
  changes,
  requests

vars == <<shape, table, phase, args, bookmark, rows, totals, aggregates, out, seen, more,
          stable, snap, quiet, changes, requests>>

NoCursor == NULL

-----------------------------------------------------------------------------
(* Keys of the bucket *)

\* A composite key with a missing component matches nothing, like a missing key.
NormalizeLookupKey(raw, composite) ==
  IF composite /\ raw # NULL
  THEN IF \E i \in DOMAIN raw : raw[i] = NULL THEN NULL ELSE raw
  ELSE raw

GroupingKey(row, match) ==
  IF Len(match) = 1 THEN row[match[1]] ELSE [i \in DOMAIN match |-> row[match[i]]]

Entries == DOMAIN shape.bucket
Keys == [e \in Entries |-> NormalizeLookupKey(shape.bucket[e], Len(shape.match) > 1)]
UniqueKeys == {Keys[e] : e \in Entries} \ {NULL}

\* Row r satisfies match = ANY(keys): NULL equals nothing.
MatchPredicate(r) ==
  /\ \A i \in DOMAIN shape.match : r[shape.match[i]] # NULL
  /\ GroupingKey(r, shape.match) \in UniqueKeys

-----------------------------------------------------------------------------
(* The order a request pages by *)

\* Union members share no key: their type tag is the last tie-break.
UnionOrder(orderBy) ==
  Append(NormalizeOrder(orderBy, "id", FALSE), OrderTerm("type", FALSE, NULL))

\* A cursor is text, never None.
ASSUME CursorsAreText ==
  \A s \in Shapes : \A order \in s.orders : \A r \in Rows :
    \A terms \in {NormalizeOrder(order, "id", FALSE), UnionOrder(order)} :
      EncodeKeysetCursor(terms, r) # NULL

Order(orderBy) ==
  IF shape.kind \in Unions THEN UnionOrder(orderBy)
  ELSE NormalizeOrder(orderBy, "id", FALSE)

EffectiveOrder(orderBy) ==
  IF shape.kind \in Relay /\ shape.reverse THEN ReverseOrder(Order(orderBy)) ELSE Order(orderBy)

-----------------------------------------------------------------------------
(* The statements *)

\* One row more than the page, to learn whether there are more.
PageLimitWithoutExtra(size) == size

PageLimit(size) == IF size = NULL THEN NULL ELSE size + 1

\* The seek predicate on a row; a union leg compares its type tag like a column.
CursorPredicate(r) ==
  \/ args.cursor = NoCursor
  \/ KeysetWhere(Order(args.order), args.cursor.values, ~shape.reverse, r) = T

\* The rows every statement starts from: the key match, left out by a root field,
\* and the predicates its customizers added.
Matching(S) == {r \in S : r \in shape.where /\ (shape.kind \in Root \/ MatchPredicate(r))}

Scope(S) == Matching({r \in S : r.type = 1})

Partition(r) == IF shape.kind \in Root THEN NULL ELSE GroupingKey(r, shape.match)

\* row_number() OVER (PARTITION BY match ORDER BY order), as an extra column rn.
NumberedTogether(S) ==
  LET all == OrderBy(S, EffectiveOrder(args.order))
      Rn(r) == CHOOSE i \in DOMAIN all : all[i] = r
  IN  {[c \in DOMAIN r \cup {"rn"} |-> IF c = "rn" THEN Rn(r) ELSE r[c]] : r \in S}

Numbered(S) ==
  LET Rn(r) == LET part == OrderBy({q \in S : Partition(q) = Partition(r)}, EffectiveOrder(args.order))
               IN  CHOOSE i \in DOMAIN part : part[i] = r
  IN  {[c \in DOMAIN r \cup {"rn"} |-> IF c = "rn" THEN Rn(r) ELSE r[c]] : r \in S}

Project(sequence) ==
  [i \in DOMAIN sequence |-> [c \in DOMAIN sequence[i] \ {"rn"} |-> sequence[i][c]]]

Ascending(column) == OrderTerm(column, FALSE, NULL)

\* The first rows of every key, keys together.
TopPerKey(S) ==
  LET limit == PageLimit(args.size)
      outer == {r \in Numbered(S) : limit = NULL \/ r.rn <= limit}
      keys  == [i \in DOMAIN shape.match |-> Ascending(shape.match[i])]
  IN  Project(OrderBy(outer, Append(keys, Ascending("rn"))))

ConnectionPageQuery(S) == TopPerKey({r \in Scope(S) : CursorPredicate(r)})

\* One member's leg of the UNION ALL, under its own predicates.
BranchSelect(S, member) == {r \in Matching({q \in S : q.type = member}) : CursorPredicate(r)}

UnionSubquery(S) == UNION {BranchSelect(S, member) : member \in Members}

UnionPageQuery(S) ==
  LET all   == OrderBy(UnionSubquery(S), EffectiveOrder(args.order))
      limit == PageLimit(args.size)
  IN  IF shape.kind \notin Root THEN TopPerKey(UnionSubquery(S))
      ELSE IF limit = NULL \/ limit > Len(all) THEN all ELSE SubSeq(all, 1, limit)

\* A comparison with a NULL offset is not true, so it selects no row.
WindowSlice(S) ==
  LET above == {r \in Numbered(Scope(S)) : args.offset # NULL /\ r.rn > args.offset}
      outer == {r \in above : args.size = NULL \/ r.rn <= args.offset + args.size}
  IN  Project(OrderBy(outer, <<Ascending("rn")>>))

\* OFFSET NULL skips nothing and a missing LIMIT keeps everything.
SelectAllQuery(S) ==
  LET offset == IF args.offset = NULL THEN 0 ELSE args.offset
      outer  == {r \in Numbered(Scope(S)) : r.rn > offset /\ (args.size = NULL \/ r.rn <= offset + args.size)}
  IN  Project(OrderBy(outer, <<Ascending("rn")>>))

\* A bound taken from a variable is sliced whatever its value is.
IsLimited == shape.variable \/ args.size # NULL \/ args.offset # 0

SelectQuery(S) ==
  IF IsLimited THEN WindowSlice(S) ELSE OrderBy(Scope(S), Order(args.order))

\* Key |-> number of rows.  The count ignores the cursor but not the customizers'
\* predicates.
CountBy(scope) == [k \in {Partition(r) : r \in scope} |-> Cardinality({r \in scope : Partition(r) = k})]

CountQueryUnfiltered(S) == CountBy({r \in S : r.type = 1 /\ MatchPredicate(r)})

CountQuery(S) == CountBy(Scope(S))

CountBranchSelect(S, member) == Matching({r \in S : r.type = member})

\* A root union has one count, under the key NULL.
UnionCountQuery(S) ==
  LET scope == UNION {CountBranchSelect(S, member) : member \in Members}
  IN  IF shape.kind \in Root THEN [k \in {NULL} |-> Cardinality(scope)] ELSE CountBy(scope)

\* count(*) and max(a) of a set of rows; an aggregate ignores NULLs.
AggregateRow(S, group) ==
  LET present == {r.a : r \in S} \ {NULL}
  IN  [group |-> group, count |-> Cardinality(S),
       max |-> IF present = {} THEN NULL
               ELSE CHOOSE x \in present : \A y \in present : y <= x]

AggregateQuery(S) ==
  LET scope   == Scope(S)
      Of(k)   == {r \in scope : Partition(r) = k}
      Groups(k) == IF shape.groupBy THEN {{r \in Of(k) : r.a = q.a} : q \in Of(k)} ELSE {Of(k)}
  IN  [k \in {Partition(r) : r \in scope} |->
         {AggregateRow(G, IF shape.groupBy THEN (CHOOSE r \in G : TRUE).a ELSE NULL) : G \in Groups(k)}]

-----------------------------------------------------------------------------
(* From rows to the bucket's results *)

Lookup(map, key, default) == IF key \in DOMAIN map THEN map[key] ELSE default

Reversed(sequence) == [i \in DOMAIN sequence |-> sequence[Len(sequence) + 1 - i]]

EmptyAggregates == [group |-> NULL, count |-> 0, max |-> NULL]

HasExtra(group) == args.size # NULL /\ Len(group) > args.size

\* The page is cut back to its size and, read backwards, turned around again.
PageUnturned(group) == IF HasExtra(group) THEN SubSeq(group, 1, args.size) ELSE group

Page(group) ==
  LET cut == IF HasExtra(group) THEN SubSeq(group, 1, args.size) ELSE group
  IN  IF shape.reverse THEN Reversed(cut) ELSE cut

\* The extra row is the flag in the direction of travel, the cursor the other one.
BuildConnection(group, total, aggs) ==
  LET extra == HasExtra(group)
      page  == Page(group)
      Cursor(i) == EncodeKeysetCursor(Order(args.order), page[i])
  IN  [nodes |-> page,
       hasNextPage |-> IF shape.reverse THEN args.cursor # NoCursor ELSE extra,
       hasPreviousPage |-> IF shape.reverse THEN extra ELSE args.cursor # NoCursor,
       startCursor |-> IF page = << >> THEN NoCursor ELSE Cursor(1),
       endCursor |-> IF page = << >> THEN NoCursor ELSE Cursor(Len(page)),
       totalCount |-> total,
       aggregates |-> IF aggs = {} /\ shape.aggregates /\ ~shape.groupBy
                      THEN {EmptyAggregates} ELSE aggs]

GroupRows(key) ==
  LET places == {i \in DOMAIN rows : GroupingKey(rows[i], shape.match) = key}
      place  == Enumerate(places, [i \in places |-> {j \in places : j < i}])
  IN  [n \in DOMAIN place |-> rows[place[n]]]

\* Every entry gets the group of its own key, whatever its place in the bucket.
Scatter(e) == IF Keys[e] = NULL THEN << >> ELSE GroupRows(Keys[e])

\* PgSelectSingleStep.scatter keeps the first row of a group.
FirstOnly(group) == IF group = << >> THEN << >> ELSE <<Head(group)>>

ConnectionResult(e) ==
  BuildConnection(Scatter(e), Lookup(totals, Keys[e], 0), Lookup(aggregates, Keys[e], {}))

\* The union's own build_connection: the same page, flags and cursors.
UnionBuildConnection(group, total) == BuildConnection(group, total, {})

UnionResult(e) ==
  IF shape.kind = "union_root" THEN UnionBuildConnection(rows, Lookup(totals, NULL, 0))
  ELSE UnionBuildConnection(Scatter(e), Lookup(totals, Keys[e], 0))

EntryResult(e) ==
  CASE shape.kind = "connection" -> ConnectionResult(e)
    [] shape.kind \in Unions -> UnionResult(e)
    [] shape.kind = "select_all" -> [nodes |-> rows]
    [] shape.kind = "select_single" -> [nodes |-> FirstOnly(Scatter(e))]
    [] shape.kind = "select" -> [nodes |-> Scatter(e)]

-----------------------------------------------------------------------------
(* The walk *)

Init ==
  /\ shape \in Shapes
  /\ table \in Tables
  /\ phase = "client"
  /\ bookmark = [cursor |-> NoCursor, offset |-> shape.offset, order |-> << >>]
  /\ args = [order |-> << >>, size |-> NULL, cursor |-> NoCursor, offset |-> shape.offset]
  /\ rows = << >> /\ totals = << >> /\ aggregates = << >> /\ out = << >>
  /\ seen = << >> /\ more = TRUE
  /\ stable = table /\ snap = table /\ quiet = TRUE
  /\ changes = 0 /\ requests = 0

\* The client asks for a page: its order may be written differently from the one
\* its cursor was minted under.  A cursor of another ordering raises; a bucket
\* without a key answers without a statement.
Request ==
  /\ phase = "client"
  /\ requests < MaxRequests
  /\ requests' = requests + 1
  /\ \E order \in shape.orders, size \in IF shape.kind = "select_single" THEN {NULL} ELSE Sizes :
       args' = [order |-> order, size |-> size,
                cursor |-> bookmark.cursor, offset |-> bookmark.offset]
  /\ phase' = IF bookmark.cursor # NoCursor /\ ~DecodeAccepts(bookmark.cursor, Order(args'.order))
              THEN "rejected"
              ELSE IF shape.kind \notin Root /\ UniqueKeys = {} THEN "build" ELSE "page"
  /\ rows' = << >> /\ totals' = << >> /\ aggregates' = << >> /\ out' = << >>
  /\ snap' = table /\ quiet' = TRUE
  /\ UNCHANGED <<shape, table, bookmark, seen, more, stable, changes>>

PageReturned(result, next) ==
  /\ phase = "page"
  /\ rows' = result
  /\ snap' = table /\ quiet' = TRUE
  /\ phase' = next
  /\ UNCHANGED <<shape, table, args, bookmark, totals, aggregates, out, seen, more, stable, changes, requests>>

AfterCount == IF shape.kind = "connection" /\ shape.aggregates THEN "aggregate" ELSE "build"
AfterPage == IF shape.total THEN "count" ELSE AfterCount

RunConnection == shape.kind = "connection" /\ PageReturned(ConnectionPageQuery(table), AfterPage)

RunUnion == shape.kind \in Unions /\ PageReturned(UnionPageQuery(table), AfterPage)

RunSelect == shape.kind \in {"select", "select_single"} /\ PageReturned(SelectQuery(table), "build")

RunSelectAll == shape.kind = "select_all" /\ PageReturned(SelectAllQuery(table), "build")

\* Later statements of a request see the first one's snapshot only when the
\* request runs in one shared transaction.
Visible == IF shape.snapshot THEN snap ELSE table

RunCount ==
  /\ phase = "count"
  /\ totals' = IF shape.kind \in Unions THEN UnionCountQuery(Visible) ELSE CountQuery(Visible)
  /\ phase' = AfterCount
  /\ UNCHANGED <<shape, table, args, bookmark, rows, aggregates, out, seen, more, stable, snap, quiet,
                 changes, requests>>

RunAggregate ==
  /\ phase = "aggregate"
  /\ aggregates' = AggregateQuery(Visible)
  /\ phase' = "build"
  /\ UNCHANGED <<shape, table, args, bookmark, rows, totals, out, seen, more, stable, snap, quiet,
                 changes, requests>>

\* The client follows the flag of its direction to the page's outer cursor, or
\* counts on by the rows it has been given.
BuildResults ==
  /\ phase = "build"
  /\ out' = [e \in Entries |-> EntryResult(e)]
  /\ LET mine == out'[1]
     IN  /\ seen' = IF shape.kind \in Relay /\ shape.reverse
                    THEN mine.nodes \o seen ELSE seen \o mine.nodes
         /\ IF shape.kind \in Relay
            THEN /\ more' = IF shape.reverse THEN mine.hasPreviousPage ELSE mine.hasNextPage
                 /\ bookmark' = [bookmark EXCEPT
                                   !.cursor = IF shape.reverse THEN mine.startCursor
                                              ELSE mine.endCursor,
                                   !.order = args.order]
            ELSE /\ more' = (args.size # NULL /\ Len(mine.nodes) >= args.size
                             /\ shape.kind # "select_single")
                 /\ bookmark' = [bookmark EXCEPT !.offset = Len(seen')]
         /\ phase' = IF more' /\ mine.nodes # << >> THEN "client" ELSE "over"
  /\ UNCHANGED <<shape, table, args, rows, totals, aggregates, stable, snap, quiet, changes, requests>>

Insert(r) ==
  /\ phase # "over" /\ changes < MaxChanges
  /\ r \notin table
  /\ table' = table \cup {r}
  /\ quiet' = FALSE /\ changes' = changes + 1
  /\ UNCHANGED <<shape, phase, args, bookmark, rows, totals, aggregates, out, seen, more, stable, snap, requests>>

Delete(r) ==
  /\ phase # "over" /\ changes < MaxChanges
  /\ r \in table
  /\ table' = table \ {r}
  /\ stable' = stable \ {r}
  /\ quiet' = FALSE /\ changes' = changes + 1
  /\ UNCHANGED <<shape, phase, args, bookmark, rows, totals, aggregates, out, seen, more, snap, requests>>

Next ==
  \/ Request
  \/ RunConnection
  \/ RunUnion
  \/ RunSelect
  \/ RunSelectAll
  \/ RunCount
  \/ RunAggregate
  \/ BuildResults
  \/ \E r \in Rows : Insert(r)
  \/ \E r \in Rows : Delete(r)

Spec == Init /\ [][Next]_vars

-----------------------------------------------------------------------------
(* What a page should be, said without a window or a seek predicate *)

\* The rows of entry e's own key, or all of a root field's, in table S.
OwnRows(e, S) ==
  {r \in S : /\ r \in shape.where
             /\ shape.kind \in Unions \/ r.type = 1
             /\ \/ shape.kind \in Root
                \/ /\ Keys[e] # NULL
                   /\ GroupingKey(r, shape.match) = Keys[e]}

\* The point of the order that a cursor marks.
CursorPoint ==
  LET terms == Order(args.order)
  IN  [c \in {terms[i].column : i \in DOMAIN terms} |->
         args.cursor.values[CHOOSE i \in DOMAIN terms : terms[i].column = c].value]

\* The rows of entry e on the far side of the cursor, in field order.
Ahead(e) ==
  LET order == Order(args.order)
  IN  OrderBy({r \in OwnRows(e, snap) :
                 \/ args.cursor = NoCursor
                 \/ ~shape.reverse /\ Precedes(order, CursorPoint, r)
                 \/ shape.reverse /\ Precedes(order, r, CursorPoint)}, order)

\* (A select whose offset is a variable the request left out matches no row: its
\* window compares with NULL.)
ExpectedNodes(e) ==
  LET ahead == Ahead(e)
      size  == IF args.size = NULL \/ args.size > Len(ahead) THEN Len(ahead) ELSE args.size
      skip  == IF args.offset = NULL THEN 0 ELSE args.offset
      upto  == skip + size
  IN  CASE shape.kind \in Relay /\ shape.reverse ->
             SubSeq(ahead, Len(ahead) - size + 1, Len(ahead))
        [] shape.kind \in Relay /\ ~shape.reverse -> SubSeq(ahead, 1, size)
        [] shape.kind = "select_single" -> SubSeq(ahead, 1, IF ahead = << >> THEN 0 ELSE 1)
        [] shape.kind = "select" /\ args.offset = NULL -> << >>
        [] shape.kind = "select_all" \/ (shape.kind = "select" /\ args.offset # NULL) ->
             SubSeq(ahead, skip + 1, IF upto > Len(ahead) THEN Len(ahead) ELSE upto)

Answered == out # << >> /\ phase \in {"client", "over"}

-----------------------------------------------------------------------------
(* Properties *)

\* Each entry of a bucket gets exactly the page its own key has on its own,
\* whatever keys, duplicates and missing keys share its statement: the window, the
\* seek predicate, the grouping and the scatter of execute together.
EntriesIndependent ==
  Answered => \A e \in Entries : out[e].nodes = ExpectedNodes(e)

\* hasNextPage, or hasPreviousPage going backwards, is true exactly when rows of
\* the entry's key lay beyond the page when it was read (the extra row of
\* page_limit and build_connection).
MoreIsHonest ==
  Answered /\ shape.kind \in Relay =>
    \A e \in Entries :
      (IF shape.reverse THEN out[e].hasPreviousPage ELSE out[e].hasNextPage)
        <=> Len(Ahead(e)) > Len(out[e].nodes)

\* The count and the aggregates are of all the rows of the entry's key, not of its
\* page, when they saw the page's snapshot (run_queries' separate statements).
TotalsAgree ==
  Answered /\ shape.kind \in Relay /\ (quiet \/ shape.snapshot) =>
    \A e \in Entries :
      LET own == OwnRows(e, snap)
      IN  /\ shape.total => out[e].totalCount = Cardinality(own)
          /\ shape.aggregates =>
               IF shape.groupBy
               THEN out[e].aggregates =
                      {AggregateRow({r \in own : r.a = x}, x) : x \in {r.a : r \in own}}
               ELSE out[e].aggregates = {AggregateRow(own, NULL)}

\* A walk that has been told there is no more has seen every row that was in the
\* table throughout, in spite of the rows that came and went (selects page by
\* offset and promise it only for a table at rest and an offset that is there).
SeesStableRows ==
  phase = "over" /\ ~more /\ shape.kind # "select_single" /\ shape.offset # NULL
  /\ (shape.kind \in Relay \/ changes = 0) =>
    \A r \in OwnRows(1, stable) : \E i \in DOMAIN seen : seen[i] = r

\* The pages of a walk put together are in the field's order without a
\* repetition, forwards and backwards.
InOrder ==
  shape.kind \in Relay \/ changes = 0 =>
    \A j \in DOMAIN seen : \A i \in 1 .. j - 1 :
      Precedes(Order(IF shape.kind \in Relay THEN bookmark.order ELSE args.order), seen[i], seen[j])

\* A cursor that is accepted was minted under the same ordering of the rows,
\* however its terms were written (order_digest, decode_keyset_cursor).
CursorsOfTheirOrder ==
  phase \in {"page", "count", "aggregate", "build"} /\ args.cursor # NoCursor =>
    \A r, q \in Rows :
      Precedes(Order(args.order), r, q) <=> Precedes(Order(bookmark.order), r, q)
=============================================================================
