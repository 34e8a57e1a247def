CONSTANTS
    t1 = t1
    t2 = t2
    Threads <- MCThreads
    Variables <- MCVariables
    ContextKeys <- MCContextKeys
    Values <- MCValues
    NoGuard = "none"
    Schemas = {"s"}
    Configs = {"c"}
    Documents <- MCDocuments
    Fields <- MCFields
    Selection <- MCSelection
    FieldDef <- MCFieldDef
    Requests <- VariantRequests
    NoRequest = NoRequest
    NoPlan = NoPlan
    MaxEntries = 2
    MaxVariants = 2
    MaxCalls = 3
SPECIFICATION Spec
INVARIANTS
    TypeOK
    CapsHold
    ServedIsFresh
    OneVariantPerRequest
    StoredStaysServed
PROPERTIES
    
    ImplementsPlanService
CHECK_DEADLOCK FALSE
