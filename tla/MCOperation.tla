---------------------------- MODULE MCOperation ----------------------------
(***************************************************************************)
(* Small operations for Operation: each built-in step over buckets with    *)
(* duplicates, nulls, carried errors and lists, and layers whose loads     *)
(* contend for the permits, fail, hang and are cancelled.                  *)
(***************************************************************************)
EXTENDS Operation

Step(kind, deps) == [kind |-> kind, deps |-> deps, async |-> FALSE, outcome |-> "ok"]
Constant(v) == [Step("constant", << >>) EXCEPT !.kind = "constant"] @@ [data |-> v]
Access(dep, path) == Step("access", <<dep>>) @@ [path |-> path]
ObjectOf(keys, deps) == Step("object", deps) @@ [keys |-> keys]
Resolve1(dep, argsError) == Step("resolve", <<dep>>) @@ [argsError |-> argsError]
Load(dep, async, outcome) == [Step("load", <<dep>>) EXCEPT !.async = async, !.outcome = outcome]
Node(dep, failing, async) ==
  [Step("node", <<dep>>) EXCEPT !.async = async] @@ [loaders |-> {"A", "B"}, failing |-> failing]
Each(dep, mapper, async, outcome) ==
  [Step("each", <<dep>>) EXCEPT !.async = async, !.outcome = outcome] @@ [mapper |-> mapper]

\* Every bucket of at most three of these rows.
Buckets(rows) == UNION {[1 .. n -> rows] : n \in 0 .. 3}
Scalars == {Number(1), Number(2), None, Error("upstream")}
Lists == {List(<<Number(2), Number(1), Number(2)>>), List(<< >>), None, List(<<Number(3)>>)}
Ids == <<GlobalId("A", <<Number(1)>>), GlobalId("B", <<Number(2)>>), Number(7), GlobalId("C", <<Number(1)>>),
         Error("upstream"), GlobalId("A", <<Number(2), Number(3)>>), GlobalId("A", <<Number(1)>>)>>

Layer(plan, seed) == [plan |-> plan, seed |-> seed]

Op(layers) ==
  [layers |-> layers, prepare |-> "ok", planning |-> "ok", bubbles |-> FALSE,
   entry |-> "plain", events |-> 1, timeout |-> FALSE]

\* Every kind of step, loads both synchronous and awaited.
ValuePlan(async) ==
  <<Load(0, async, "ok"), Access(1, <<"pair", "0">>), Step("lambda", <<2>>), Constant(Number(5)),
    Step("lambda", <<4>>), Step("list", <<3, 5>>), ObjectOf(<<"x", "y">>, <<3, 6>>),
    Load(7, async, "ok"), Resolve1(2, FALSE), Step("filter", <<6>>), Step("last", <<10>>)>>

ListPlan(async) ==
  <<Step("filter", <<0>>), Step("reverse", <<1>>), Step("first", <<2>>), Each(0, "load", async, "ok"),
    Each(1, "lambda", FALSE, "ok"), Step("last", <<5>>), Resolve1(3, TRUE)>>

BatchingOps ==
  {Op(<<Layer(ValuePlan(async), seed)>>) : async \in BOOLEAN, seed \in Buckets(Scalars)}
  \cup {Op(<<Layer(ListPlan(async), seed)>>) : async \in BOOLEAN, seed \in Buckets(Lists)}
  \cup {Op(<<Layer(<<Node(0, failing, async), Access(1, <<"n">>)>>, Ids)>>) :
          failing \in {{}, {"B"}}, async \in BOOLEAN}

\* A root whose own load is awaited or not, and three children that load.
Loads(first, second) == <<Load(0, TRUE, first), Load(0, TRUE, second)>>
Short == <<Number(1), Number(1)>>
Family(root, a, b) ==
  Op(<<Layer(root, <<Number(1)>>), Layer(Loads(a, "ok"), Short), Layer(Loads("ok", b), Short),
       Layer(<<Load(0, TRUE, "ok")>>, Short)>>)

Roots == {<<Load(0, TRUE, "ok")>>, <<Step("lambda", <<0>>)>>}

ContendingOps ==
  {Family(root, a, b) : root \in Roots, a \in {"ok", "raise", "short"}, b \in {"ok", "hang"}}
  \cup {[Family(root, a, "hang") EXCEPT !.timeout = TRUE] : root \in Roots, a \in {"ok", "short", "hang"}}
  \cup {Op(<<Layer(<<Load(0, FALSE, "short")>>, Short)>>),
        Op(<<Layer(<<Step("lambda", <<0>>)>>, Short), Layer(<<Load(0, TRUE, "ok")>>, Short),
             Layer(<<Step("first", <<0>>)>>, Short)>>)}

EntryOps ==
  {[Family(<<Load(0, TRUE, "ok")>>, "ok", "ok") EXCEPT !.events = 2, !.entry = "incremental", !.bubbles = TRUE],
   [Family(<<Load(0, TRUE, "ok")>>, "raise", "hang") EXCEPT !.events = 2, !.timeout = TRUE],
   [Op(<<Layer(<<Step("lambda", <<0>>)>>, Short)>>) EXCEPT !.prepare = "invalid"],
   [Op(<<Layer(<<Step("lambda", <<0>>)>>, Short)>>) EXCEPT !.planning = "error"]}

MCOperations == BatchingOps \cup ContendingOps \cup EntryOps

EarlyOps == {Family(root, "ok", "ok") : root \in Roots}
=============================================================================
