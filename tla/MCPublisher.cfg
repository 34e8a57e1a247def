CONSTANTS
    NoParent = NoParent
    Responses <- MCResponses
    MaxItems = 2
SPECIFICATION Spec
INVARIANTS
    TypeOK
    IdsWellFormed
    Reassembled
    NestedAfterParent
    HasNextIsHonest
PROPERTY
    PromptClientsFinish
CHECK_DEADLOCK FALSE
