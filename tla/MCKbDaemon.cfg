CONSTANTS
    RootLists <- MCRootLists
    Statuses <- MCStatuses
SPECIFICATION Spec
INVARIANTS
    TypeOK
    NoRunOnFreedTree
PROPERTIES
    EndsOnSignal
CHECK_DEADLOCK FALSE
