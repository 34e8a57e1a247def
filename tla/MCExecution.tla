---------------------------- MODULE MCExecution ----------------------------
(***************************************************************************)
(* Small operations for Execution, over the query                          *)
(*     { n  l { x y { z } } }                                              *)
(* where l is a list of two objects, with the schema's nullability, the    *)
(* resolvers' outcomes and their timing varied.                            *)
(***************************************************************************)
EXTENDS Execution

FieldNames == [root |-> <<"n", "l">>, L |-> <<"x", "y">>, Y |-> <<"z">>]

ItemLabels == <<"i1", "i2">>
L == {<<"l", "i1">>, <<"l", "i2">>}
X == {p \o <<"x">> : p \in L}
Y == {p \o <<"y">> : p \in L}
Z == {p \o <<"y", "z">> : p \in L}
AllPaths == {<<"n">>, <<"l">>} \cup L \cup X \cup Y \cup Z

\* The operation in which the paths of `fails` raise, those of `nulls` are null
\* and those of `slow` are awaitable.
Operation(nonNull, itemNonNull, load, fails, nulls, slow) ==
    [fields |-> FieldNames, owner |-> [L |-> "l", Y |-> "y"],
     nonNull |-> nonNull, list |-> {"l"}, itemNonNull |-> itemNonNull,
     items |-> [l |-> ItemLabels], load |-> load,
     outcome |-> [p \in AllPaths |-> IF p \in fails THEN "error" ELSE IF p \in nulls THEN "null" ELSE "ok"],
     slow |-> slow]

x1 == <<"l", "i1", "x">>
x2 == <<"l", "i2", "x">>
y1 == <<"l", "i1", "y">>
y2 == <<"l", "i2", "y">>
z1 == <<"l", "i1", "y", "z">>
z2 == <<"l", "i2", "y", "z">>

\* Every timing of some leaves, or of those below a list or an item awaited.
Timings == SUBSET {x1, y2, z1} \cup {{x1, z1, <<"l">>}, {x1, y2, <<"l", "i1">>}}

MCOperations ==
    {Operation(nn, inn, load, fails, {z2}, slow) :
        nn \in {{"x", "z"}, {"x", "y", "z", "l"}}, inn \in {{}, {"l"}},
        load \in {{}, {"n", "z"}}, fails \in {{}, {x1}, {z1, <<"n">>}, {x1, x2}},
        slow \in Timings}
=============================================================================
