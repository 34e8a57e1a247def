CONSTANTS
    Operations <- MCOperations
    Permits = 1
SPECIFICATION Spec
INVARIANTS
    TypeOK
    DataIsSynchronous
    ErrorsExplainNulls
    OnlyTheDeadAreAbandoned
PROPERTY
    Responds
CHECK_DEADLOCK FALSE
