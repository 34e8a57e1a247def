---------------------------- MODULE MCPlanCache ----------------------------
(***************************************************************************)
(* A small process for PlanCache: documents that between them read request *)
(* inputs in every way the plan-time API offers.                           *)
(***************************************************************************)
EXTENDS PlanCache

CONSTANTS t1, t2

MCThreads == {t1, t2}
MCVariables == {"show", "status"}
MCContextKeys == {"role"}

Str(n) == [type |-> "str", data |-> n]
Admin == Str(1)
Draft == Str(2)
Yes == BoolValue(TRUE)
No == BoolValue(FALSE)

MCValues == {Admin, Draft, Yes, No, NULL}

Read(kind, input, expected) == [kind |-> kind, input |-> input, expected |-> expected]

\* A field with a plan resolver.
Planner(guard, args, required, reads) ==
    [guard |-> guard, legacy |-> FALSE, abstract |-> FALSE, args |-> args,
     required |-> required, reads |-> reads]

\* A field with a classic resolver.
Resolver(abstract, args) ==
    [guard |-> "none", legacy |-> TRUE, abstract |-> abstract, args |-> args,
     required |-> {}, reads |-> {}]

MCFields ==
    {"mine", "things", "search", "echo", "vars", "node", "tenant", "sample"}

MCFieldDef == [f \in MCFields |->
    \* mine @include(if: $show): branches on the context's role
    CASE f = "mine" -> Planner("show", {}, {}, {Read("is", "role", Admin)})
    \* things(status: $status): inlines the argument
    [] f = "things" -> Planner("none", {"status"}, {"status"}, {Read("get", "status", NULL)})
    \* search(status: $status): a placeholder, an eval_is, a tenant customizer
    [] f = "search" -> Planner("none", {"status"}, {},
                    {Read("source", "status", NULL), Read("argIs", "status", Draft),
                     Read("has", "show", NULL), Read("customizer", "role", Admin)})
    \* echo(v: $status) with a classic resolver
    [] f = "echo" -> Resolver(FALSE, {"status"})
    \* a plan resolver that enumerates the variables and evals the role
    [] f = "vars" -> Planner("none", {}, {}, {Read("keys", "status", NULL), Read("item", "role", NULL)})
    \* an interface, planned per concrete type at execute time
    [] f = "node" -> Resolver(TRUE, {})
    \* a customizer that inlines the role
    [] f = "tenant" -> Planner("none", {}, {}, {Read("baked", "role", NULL)})
    \* sample(status: $status), a non-null argument the resolver placeholders
    [] f = "sample" -> Planner("none", {"status"}, {"status"}, {Read("source", "status", NULL)})]

MCDocuments == {"Feed", "Search", "Classic", "Node", "Sample"}

MCSelection == [d \in MCDocuments |->
    CASE d = "Feed" -> {"mine", "things"}
      [] d = "Search" -> {"search"}
      [] d = "Classic" -> {"echo", "vars"}
      [] d = "Node" -> {"node", "tenant"}
      [] d = "Sample" -> {"sample"}]

Request(document, show, status, role) ==
    [schema |-> "s", document |-> document, config |-> "c",
     facts |-> [i \in Inputs |->
        CASE i = "show" -> show [] i = "status" -> status [] i = "role" -> role]]

\* Requests that differ in exactly the inputs their documents observe.
VariantRequests ==
    {Request("Feed", Yes, Draft, Admin),
     Request("Feed", No, Draft, ABSENT),
     Request("Feed", Yes, Draft, ABSENT),
     Request("Search", Yes, ABSENT, Admin),
     Request("Search", ABSENT, Draft, NULL),
     Request("Classic", Yes, Draft, Admin),
     Request("Node", Yes, Draft, Admin)}

\* The argument's variable provided, and explicitly null.
PlaceholderRequests ==
    {Request("Sample", Yes, status, Admin) : status \in {Draft, NULL}}
=============================================================================
