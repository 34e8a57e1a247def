---------------------------- MODULE MCPgRequest ----------------------------
EXTENDS PgRequest

T(write, count, after, needs) ==
    [write |-> write, count |-> count, after |-> after, needs |-> needs]
Read(needs) == T(FALSE, 1, {}, needs)

\* Two sibling fields, each with a child layer.
Query == <<Read({}), Read({}), Read({1}), Read({2})>>

\* A write of two bucket entries, two layers of its payload, the next root field.
Mutation == <<T(TRUE, 2, {}, {}), Read({1}), Read({1}), T(TRUE, 1, {1, 2, 3}, {})>>

MCOperations == {Query, Mutation}
MCQueries == {Query}

=============================================================================
