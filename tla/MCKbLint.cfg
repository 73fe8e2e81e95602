CONSTANTS
    Key <- MCKey
    IsReadOnly <- MCIsReadOnly
    Token <- MCToken
    ValidPeriods <- MCValidPeriods
    ValidCounters <- MCValidCounters
    Inputs <- MCInputs
SPECIFICATION Spec
INVARIANTS
    TypeOK
    LaunchedIffSound
CHECK_DEADLOCK FALSE
