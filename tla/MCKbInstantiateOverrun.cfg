CONSTANTS
    Id <- MCId
    Missing <- MCMissing
    Signals <- MCSignals
    Configs <- MCTwoHandlers
SPECIFICATION Spec
INVARIANT HandlersFit
CHECK_DEADLOCK FALSE
