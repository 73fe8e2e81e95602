CONSTANTS
    Node <- MCNode
    Trees <- MCTrees
    Statuses <- MCStatuses
    IntMax <- MCIntMax
    BitOr <- MCBitOr
SPECIFICATION Spec
INVARIANTS
    TypeOK
    QuietBelow
    StopsAtFailure
    SuccessIsTotal
    UndoInReverse
    FailureIsCompensated
PROPERTY
    ImplementsSaga
CHECK_DEADLOCK FALSE
