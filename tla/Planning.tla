------------------------------ MODULE Planning ------------------------------
(***************************************************************************)
(* plan.plan_operation as a function of the request: which fields it       *)
(* plans, what its plan resolvers observe on the way, the plan that comes  *)
(* out, and the constraints it would be stored with.                       *)
(*                                                                         *)
(* A document selects fields; a field has                                  *)
(*   guard     the variable of its @include, or NoGuard                    *)
(*   legacy    TRUE when it has a classic resolver and no plan resolver    *)
(*   abstract  TRUE when its type is an interface or a union               *)
(*   args      the variables its arguments mention                         *)
(*   required  those of them in a non-null position                        *)
(*   reads     what its plan resolver reads                                *)
(***************************************************************************)
EXTENDS Constraints

CONSTANTS
    NoGuard,
    Schemas,        \* schemas served in the process
    Documents,      \* printed operations with their fragments
    Fields,         \* the fields they select
    Selection,      \* [Documents -> SUBSET Fields]
    FieldDef,       \* [Fields -> FieldDefs]
    Configs,        \* plan-affecting configurations (config_fingerprint)
    Requests        \* the requests clients send

FieldDefs ==
    [guard : Variables \cup {NoGuard}, legacy : BOOLEAN, abstract : BOOLEAN,
     args : SUBSET Variables, required : SUBSET Variables, reads : SUBSET Reads]

ASSUME DocumentsAssumption ==
    /\ NoGuard \notin Variables
    /\ Selection \in [Documents -> SUBSET Fields]
    /\ FieldDef \in [Fields -> FieldDefs]
    /\ Requests \subseteq [schema : Schemas, document : Documents,
                           config : Configs, facts : Facts]
    /\ \A f \in Fields : FieldDef[f].required \subseteq FieldDef[f].args

\* compute_cache_key: everything but the request's facts.
compute_cache_key(r) ==
    [schema |-> r.schema, document |-> r.document, config |-> r.config]

Keys == [schema : Schemas, document : Documents, config : Configs]

\* collect_fields: the field is planned iff its directive lets it through.
Included(f, facts) ==
    FieldDef[f].guard = NoGuard \/ facts[FieldDef[f].guard] = BoolValue(TRUE)

\* get_argument_values fails on an explicit null in a non-null position (an
\* omitted variable falls back to a default).
ArgsError(f, facts) == \E v \in FieldDef[f].required : facts[v] = NULL

ArgRead(v) == [kind |-> "get", input |-> v, expected |-> NULL]

\* A classic resolver's field, and one whose arguments fail to coerce, freeze
\* the argument values; a plan resolver is run and reads what it likes.
EffectiveReads(f, facts) ==
    IF FieldDef[f].legacy \/ ArgsError(f, facts) 
    THEN {ArgRead(v) : v \in FieldDef[f].args}
    ELSE FieldDef[f].reads

\* plan_object for one field.
FieldPlan(f, facts) ==
    [argsError |-> ArgsError(f, facts),
     seen |-> [r \in EffectiveReads(f, facts) |-> Observed(r, facts)]]

Planned(document, facts) == {f \in Selection[document] : Included(f, facts)}

PlanRaises(document, facts) ==
    \E f \in Planned(document, facts) :
        \E r \in EffectiveReads(f, facts) : Raises(r, facts)

\* The plan fresh planning of request r builds; planning that raises reaches
\* the client as the failure it is.
FreshPlan(r) ==
    IF PlanRaises(r.document, r.facts)
    THEN [key |-> compute_cache_key(r), raised |-> TRUE, fields |-> <<>>]
    ELSE [key |-> compute_cache_key(r), raised |-> FALSE,
          fields |-> [f \in Planned(r.document, r.facts) |-> FieldPlan(f, r.facts)]]

\* Mutant: the directives' variables are not pinned.
NoDirectiveConstraints(document, facts) == {}

\* directive_variable_constraints: the whole document is scanned, whether the
\* fields are planned or not.
directive_variable_constraints(document, facts) ==
    {ValueConstraint(FieldDef[f].guard, facts[FieldDef[f].guard]) :
        f \in {g \in Selection[document] : FieldDef[g].guard # NoGuard}}

\* plan.request_constraints, with the customizers' constraints.
request_constraints(document, facts) ==
    UNION {UNION {Recorded(r, facts) : r \in EffectiveReads(f, facts)} :
           f \in Planned(document, facts)}

AllConstraints(r) ==
    directive_variable_constraints(r.document, r.facts)
        \cup request_constraints(r.document, r.facts)

\* Plan.cacheable: no literal-baking customizer, no abstract field.
Cacheable(r) ==
    \A f \in Planned(r.document, r.facts) :
        /\ ~FieldDef[f].abstract
        /\ \A rd \in EffectiveReads(f, r.facts) : rd.kind # "baked"

(***************************************************************************)
(* A document every one of whose observations is pinned: no argument is    *)
(* both read and placeholdered, and an argument whose coercion may fail is *)
(* read by value.                                                          *)
(***************************************************************************)
Pinned(document) ==
    \A f \in Selection[document] : FieldDef[f].legacy \/
        /\ \A r \in FieldDef[f].reads : r.kind # "bound"
        /\ \A v \in FieldDef[f].required : \E r \in FieldDef[f].reads : r.kind = "get" /\ r.input = v
=============================================================================
