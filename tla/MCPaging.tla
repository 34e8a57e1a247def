------------------------------ MODULE MCPaging ------------------------------
(***************************************************************************)
(* Small tables for Paging: two parents, a nullable order column with      *)
(* equal values, and two member types whose rows share ids.                *)
(***************************************************************************)
EXTENDS Paging

Row(pos, id, fk, a, type) == [pos |-> pos, id |-> id, fk |-> fk, a |-> a, type |-> type]

MCRows ==
  {Row(1, 1, 1, NULL, 1), Row(2, 2, 1, 1, 1), Row(3, 3, 1, 1, 1), Row(4, 4, 2, 0, 1),
   Row(5, 2, 1, 1, 2), Row(6, 5, NULL, 0, 2), Row(7, 6, 1, NULL, 1)}

MCTables == {MCRows, {r \in MCRows : r.pos \notin {2, 5}}}

By(column, descending, nulls) == <<OrderTerm(column, descending, nulls)>>

\* Orders of a: each direction and NULL placement, and one by the key alone.
Orders == {By("a", d, n) : d \in BOOLEAN, n \in {"first", "last"}} \cup {<< >>}

\* Two spellings of one ordering, and one that differs in its NULLs only.
Respelled == {By("a", FALSE, NULL), By("a", FALSE, "last"), By("a", FALSE, "first")}

Shape(kind, orders, reverse, bucket) ==
  [kind |-> kind, orders |-> orders, reverse |-> reverse, bucket |-> bucket,
   match |-> <<"fk">>, where |-> MCRows, total |-> FALSE, aggregates |-> FALSE,
   groupBy |-> FALSE, snapshot |-> FALSE, variable |-> FALSE, offset |-> 0]

Bucket == <<1, NULL, 2, 1>>
Filter == {r \in MCRows : r.pos # 3}

RelayShapes ==
  {Shape(k, {o}, rev, Bucket) : k \in Relay, o \in Orders, rev \in BOOLEAN}
  \cup {Shape("connection", Respelled, rev, <<1>>) : rev \in BOOLEAN}
  \cup {[Shape(k, {By("a", TRUE, NULL)}, FALSE, Bucket)
           EXCEPT !.total = TRUE, !.where = Filter, !.snapshot = shared] :
           k \in Relay, shared \in BOOLEAN}
  \cup {[Shape("connection", {<< >>}, FALSE, <<2, 1, 3>>)
           EXCEPT !.aggregates = TRUE, !.total = total, !.groupBy = group] :
           total \in BOOLEAN, group \in BOOLEAN}
  \cup {[Shape("connection", {By("id", TRUE, NULL)}, FALSE, <<<<1, 1>>, <<1, NULL>>, NULL>>)
           EXCEPT !.match = <<"fk", "a">>],
        [Shape("connection", {<< >>}, FALSE, <<NULL>>) EXCEPT !.aggregates = TRUE]}

SelectShapes ==
  {[Shape(k, {By("a", d, NULL)}, FALSE, Bucket) EXCEPT !.variable = v] :
     k \in {"select", "select_all"}, d \in BOOLEAN, v \in BOOLEAN}
  \cup {Shape("select_single", {<< >>}, FALSE, Bucket)}

\* Slices whose offset is a variable the request left out.
AbsentShapes ==
  {[Shape(k, {<< >>}, FALSE, Bucket) EXCEPT !.variable = TRUE, !.offset = NULL] :
     k \in {"select", "select_all"}}

MCShapes == RelayShapes \cup SelectShapes \cup AbsentShapes
=============================================================================
