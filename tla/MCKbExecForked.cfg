CONSTANTS
    d = d
    NoDir = NoDir
    NoStatus = NoStatus
    Dirs <- MCDirs
    Programs <- MCOneThread
    Statuses <- MCStatuses
    Faults = {}
    MaxFaults = 1
SPECIFICATION Spec
INVARIANT ForkedExits
CHECK_DEADLOCK FALSE
