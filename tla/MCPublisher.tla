---------------------------- MODULE MCPublisher ----------------------------
(***************************************************************************)
(* Small @defer/@stream responses for Publisher.  A shape says what the    *)
(* operation captures; Outcomes adds every way its resolvers may behave.   *)
(***************************************************************************)
EXTENDS Publisher, TLC

NoStreams == [streams |-> {}, items |-> <<>>, iterator |-> {}, yields |-> <<>>]

Reveals(g) == [r \in g |-> <<>>]

\* ...A @defer { x ...C @defer { y } }
Nested ==
    NoStreams @@
    [defers |-> {"A", "C"}, parent |-> [A |-> NoParent, C |-> "A"], depth |-> [A |-> 0, C |-> 0],
     groups |-> {"gA", "gC"}, records |-> [gA |-> <<"A">>, gC |-> <<"C">>],
     spec |-> [gA |-> 1, gC |-> 2],
     order |-> <<"gA", "gC">>, initial |-> <<"gA", "gC">>, reveals |-> Reveals({"gA", "gC"}),
     mayFail |-> {"gA"}, mayNull |-> {}]

\* ...A @defer { x y } ...B @defer { x z }: x is one group of both
Overlapping ==
    NoStreams @@
    [defers |-> {"A", "B"}, parent |-> [A |-> NoParent, B |-> NoParent], depth |-> [A |-> 0, B |-> 0],
     groups |-> {"gA", "gB", "gAB"},
     records |-> [gA |-> <<"A">>, gB |-> <<"B">>, gAB |-> <<"A", "B">>],
     spec |-> [gA |-> 1, gB |-> 2, gAB |-> 3],
     order |-> <<"gAB", "gA", "gB">>, initial |-> <<"gAB", "gA", "gB">>,
     reveals |-> Reveals({"gA", "gB", "gAB"}),
     mayFail |-> {"gA", "gAB"}, mayNull |-> {}]

\* ...A @defer { x } ...B @defer { ...C @defer { y } }: B has no group
EmptyMiddle ==
    NoStreams @@
    [defers |-> {"A", "B", "C"}, parent |-> [A |-> NoParent, B |-> NoParent, C |-> "B"],
     depth |-> [A |-> 0, B |-> 0, C |-> 0],
     groups |-> {"gA", "gC"}, records |-> [gA |-> <<"A">>, gC |-> <<"C">>],
     spec |-> [gA |-> 1, gC |-> 2],
     order |-> <<"gA", "gC">>, initial |-> <<"gA", "gC">>, reveals |-> Reveals({"gA", "gC"}),
     mayFail |-> {"gA"}, mayNull |-> {"gA", "gC"}]

\* items { ...A @defer { tags @stream } } over two items: one plan, one batch
ListItems ==
    [defers |-> {"A1", "A2"}, parent |-> [A1 |-> NoParent, A2 |-> NoParent],
     depth |-> [A1 |-> 2, A2 |-> 2],
     groups |-> {"g1", "g2"}, records |-> [g1 |-> <<"A1">>, g2 |-> <<"A2">>],
     spec |-> [g1 |-> 1, g2 |-> 1],
     streams |-> {"s"}, items |-> [s |-> 1], iterator |-> {"s"},
     order |-> <<"g1", "g2", "s">>, initial |-> <<"g1", "g2">>,
     reveals |-> [g1 |-> <<>>, g2 |-> <<"s">>], yields |-> [s |-> <<<<>>>>],
     mayFail |-> {"g1", "s"}, mayNull |-> {"s"}]

\* list @stream { ...X @defer { y } } and a second, empty, stream
Streamed ==
    [defers |-> {"X"}, parent |-> [X |-> NoParent], depth |-> [X |-> 2],
     groups |-> {"gX"}, records |-> [gX |-> <<"X">>], spec |-> [gX |-> 1],
     streams |-> {"s", "t"}, items |-> [s |-> 2, t |-> 0], iterator |-> {"t"},
     order |-> <<"s", "t", "gX">>, initial |-> <<"s", "t">>,
     reveals |-> Reveals({"gX"}), yields |-> [s |-> <<<<>>, <<"gX">>>>, t |-> <<>>],
     mayFail |-> {"gX", "t"}, mayNull |-> {}]

\* ...B @defer { o { x z } } o { ...A @defer { x y } }, and y again inside x
Deeper ==
    NoStreams @@
    [defers |-> {"A", "B"}, parent |-> [A |-> NoParent, B |-> NoParent], depth |-> [A |-> 1, B |-> 0],
     groups |-> {"gA", "gB", "gAB", "hA"},
     records |-> [gA |-> <<"A">>, gB |-> <<"B">>, gAB |-> <<"B", "A">>, hA |-> <<"A">>],
     spec |-> [gA |-> 1, gB |-> 2, gAB |-> 3, hA |-> 4],
     order |-> <<"gAB", "gA", "gB", "hA">>, initial |-> <<"gAB", "gA", "gB">>,
     reveals |-> [Reveals({"gA", "gB", "gAB", "hA"}) EXCEPT !["gAB"] = <<"hA">>],
     mayFail |-> {}, mayNull |-> {"hA"}]

\* As Overlapping, but A has a field inside x and A breaks.
BrokenSharer ==
    [Deeper EXCEPT !.depth = [A |-> 0, B |-> 0], !.mayFail = {"gA"}, !.mayNull = {}]

Outcomes(shape, slows, consumers) ==
    {shape @@ [fails |-> f, nulled |-> n, slow |-> s, early |-> e, consumer |-> c] :
        f \in SUBSET shape.mayFail, n \in SUBSET shape.mayNull, s \in slows,
        e \in BOOLEAN, c \in consumers}

Clients == {"prompt", "slow"}

SharerResponses == Outcomes(BrokenSharer, {{"gAB"}, {"gA"}, {"gA", "gAB", "hA"}}, {"prompt"})

MCResponses ==
    UNION {Outcomes(shape, SUBSET shape.groups, Clients) :
             shape \in {Nested, Overlapping, EmptyMiddle, ListItems, Streamed, Deeper}}
      \cup SharerResponses

\* The responses are ones the theorems speak of.
ASSUME MCResponsesConfined == \A r \in MCResponses : Confined(r)

SlowClient == Outcomes(Nested, {{"gC"}}, {"slow"})
=============================================================================
