CONSTANTS
    CommandLines <- MCCommandLines
    Disks <- MCDisks
    Hidden <- MCHidden
    Config <- MCConfig
SPECIFICATION Spec
INVARIANTS
    TypeOK
    RunsOnlyAsAsked
PROPERTY
    OptionsAsWritten
CHECK_DEADLOCK FALSE
