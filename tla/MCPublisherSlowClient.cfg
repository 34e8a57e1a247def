CONSTANTS
    NoParent = NoParent
    Responses <- SlowClient
    MaxItems = 2
SPECIFICATION Spec
PROPERTY
    EveryClientFinishes
CHECK_DEADLOCK FALSE
