----------------------------- MODULE Constraints -----------------------------
(***************************************************************************)
(* What plan-time code may observe of a request, and the re-checkable      *)
(* constraints each observation records (constraints.py, schema.FieldArgs, *)
(* plan.plan_object, pg/customize.py).                                     *)
(*                                                                         *)
(* The request's inputs are one function `facts` from input names (the     *)
(* operation's variables and the context's keys) to values.  A value keeps *)
(* the Python type it has, because `==` of the code identifies True with 1 *)
(* and the type-pinned values_equal does not.                              *)
(***************************************************************************)
EXTENDS Integers, FiniteSets

CONSTANTS
    Variables,      \* names of the operation's $variables
    ContextKeys,    \* names of the request context's entries
    Values          \* the values an input may hold, records [type, data]

Inputs == Variables \cup ContextKeys

\* An input the request does not provide.
ABSENT == [type |-> "absent", data |-> 0]

\* GraphQL's explicit null.
NULL == [type |-> "NoneType", data |-> 0]

BoolValue(b) == [type |-> "bool", data |-> IF b THEN 1 ELSE 0]

Facts == [Inputs -> Values \cup {ABSENT}]

ASSUME InputsAssumption ==
    /\ Variables \cap ContextKeys = {}
    /\ "variables" \notin Inputs      \* the path of a KeysConstraint is empty
    /\ NULL \in Values /\ ABSENT \notin Values
    /\ \A a, b \in Values \cup {ABSENT} : a.type = b.type /\ a.data = b.data => a = b

(***************************************************************************)
(* Equality.  values_equal pins the type; PyEq is the `==` two tuples of   *)
(* constraints are compared with, for which bool is an int.                *)
(***************************************************************************)
PyEq(a, b) ==
    \/ a = b
    \/ {a.type, b.type} \subseteq {"bool", "int"} /\ a.data = b.data

values_equal(a, b) == a.type = b.type /\ PyEq(a, b)

Provided(facts) == {v \in Variables : facts[v] # ABSENT}

(***************************************************************************)
(* Constraints.  All four classes are NamedTuples, so one record shape     *)
(* serves: `value` is the pinned value, the expected one, or the presence; *)
(* `passed` is an EqualityConstraint's outcome; `keys` the variables a     *)
(* KeysConstraint pins.                                                    *)
(***************************************************************************)
Outcome3 == {"none", "passed", "failed"}

ValueConstraint(i, v) ==
    [class |-> "value", input |-> i, value |-> v, passed |-> "none", keys |-> {}]

EqualityConstraint(i, expected, passed) ==
    [class |-> "equality", input |-> i, value |-> expected,
     passed |-> IF passed THEN "passed" ELSE "failed", keys |-> {}]

ExistsConstraint(i, exists) ==
    [class |-> "exists", input |-> i, value |-> BoolValue(exists),
     passed |-> "none", keys |-> {}]

KeysConstraint(keys) ==
    [class |-> "keys", input |-> "variables", value |-> NULL,
     passed |-> "none", keys |-> keys]

\* The predicate shape a resource's select_customizer produced.
CustomizerConstraint(i, expected, shape) ==
    [class |-> "customizer", input |-> i, value |-> expected,
     passed |-> IF shape THEN "passed" ELSE "failed", keys |-> {}]

matches(c, facts) ==
    CASE c.class = "value" -> values_equal(facts[c.input], c.value)
      [] c.class = "equality" ->
            values_equal(facts[c.input], c.value) = (c.passed = "passed")
      [] c.class = "exists" ->
            (facts[c.input] # ABSENT) = (c.value = BoolValue(TRUE))
      [] c.class = "keys" -> Provided(facts) = c.keys
      [] c.class = "customizer" ->
            values_equal(facts[c.input], c.value) = (c.passed = "passed")

constraints_match(constraints, facts) ==
    \A c \in constraints : matches(c, facts)

(***************************************************************************)
(* `current.constraints == value.constraints`: tuples of NamedTuples       *)
(* compare position by position with ==, which does not look at the class. *)
(* One document records in one order, so sets of constraints stand for the *)
(* tuples.                                                                 *)
(***************************************************************************)
SameTuple(c, d) ==
    /\ c.input = d.input
    /\ PyEq(c.value, d.value)
    /\ c.passed = d.passed
    /\ c.keys = d.keys

SameConstraints(cs, ds) ==
    /\ \A c \in cs : \E d \in ds : SameTuple(c, d)
    /\ \A d \in ds : \E c \in cs : SameTuple(c, d)

(***************************************************************************)
(* Plan-time reads.  A read has a kind, the input it looks at and, for the *)
(* outcome-constraining ones, the value it compares with.                  *)
(*   item    info.context.eval(k), info.variable_values[k]: raises if      *)
(*           absent                                                        *)
(*   get     info.variable_values.get(k), args.get/eval of a variable arg  *)
(*   has     eval_has, `in`                                                *)
(*   is      info.context.eval_is: raises if absent                        *)
(*   argIs   args.eval_is: an omitted variable reads the argument default  *)
(*   keys    iterating info.variable_values                                *)
(*   source  args.source: the placeholder channel, records nothing         *)
(*   bound   args.source plus args[k], the value only bound: records       *)
(*           nothing, raises KeyError if absent                            *)
(*   customizer  a context-resolved select_customizer                      *)
(*   baked       a customizer that inlines the context value as a literal  *)
(***************************************************************************)
ReadKinds == {"item", "get", "has", "is", "argIs", "keys", "source", "bound",
              "customizer", "baked"}

Reads == [kind : ReadKinds, input : Inputs, expected : Values]

RAISED == [type |-> "raised", data |-> 0]

Raises(r, facts) ==
    r.kind \in {"item", "is", "bound"} /\ facts[r.input] = ABSENT

\* What planning learns from a read: all it can branch on.
Observed(r, facts) ==
    LET v == facts[r.input] IN
    CASE Raises(r, facts) -> <<RAISED, {}>>
      [] ~Raises(r, facts) /\ r.kind \in {"item", "get", "baked"} -> <<v, {}>>
      [] r.kind = "has" -> <<BoolValue(v # ABSENT), {}>>
      [] ~Raises(r, facts) /\ r.kind \in {"is", "customizer"} ->
            <<BoolValue(values_equal(v, r.expected)), {}>>
      [] r.kind = "argIs" ->
            <<IF v = ABSENT THEN ABSENT ELSE BoolValue(values_equal(v, r.expected)), {}>>
      [] r.kind = "keys" -> <<NULL, Provided(facts)>>
      [] ~Raises(r, facts) /\ r.kind \in {"source", "bound"} -> <<NULL, {}>>

\* The constraints the read appends to plan.request_constraints.
Recorded(r, facts) ==
    LET v == facts[r.input] IN
    CASE r.kind \in {"item", "get"} -> {ValueConstraint(r.input, v)}
      [] r.kind = "has" -> {ExistsConstraint(r.input, v # ABSENT)}
      [] r.kind = "is" ->
            {ExistsConstraint(r.input, TRUE),
             EqualityConstraint(r.input, r.expected, values_equal(v, r.expected))}
      [] r.kind = "argIs" ->
            IF v = ABSENT
            THEN {ExistsConstraint(r.input, FALSE)}
            ELSE {ExistsConstraint(r.input, TRUE),
                  EqualityConstraint(r.input, r.expected, values_equal(v, r.expected))}
      [] r.kind = "keys" -> {KeysConstraint(Provided(facts))}
      [] r.kind = "customizer" ->
            {CustomizerConstraint(r.input, r.expected, values_equal(v, r.expected))}
      [] r.kind \in {"source", "bound", "baked"} -> {}
=============================================================================
