CONSTANTS
    Id <- MCId
    Missing <- MCMissing
    Signals <- MCSignals
    Configs <- MCConfigs
SPECIFICATION Spec
INVARIANTS
    TypeOK
    ErrorsIffIllFormed
    BoundedDepth
    TreesAreComplete
    JobsFreedOnce
PROPERTY WalkEnds
CHECK_DEADLOCK FALSE
