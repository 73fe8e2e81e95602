CONSTANTS
    d = d
    NoDir = NoDir
    NoStatus = NoStatus
    Dirs <- MCDirs
    Programs <- MCPrograms
    Statuses <- MCStatuses
    Faults <- MCFaults
    MaxFaults = 1
SPECIFICATION Spec
INVARIANTS
    TypeOK
    StatusIsCommands
    NoWriterAfterReturn
    TemporaryStays
PROPERTY AllCallsReturn
CHECK_DEADLOCK FALSE
