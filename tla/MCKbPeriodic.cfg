CONSTANTS
    UintRange = 1000
    Horizon = 4
    Values <- MCShortValues
    Counters <- MCCounters
    SizeMax = 7
    Statuses <- MCStatuses
    MaxRuns = 4
SPECIFICATION Spec
INVARIANTS
    TypeOK
    CounterIsRight
    StopsForAReason
    AtMostOneRunAfterEnd
PROPERTIES
    SignalEnds
    IsWorker
CHECK_DEADLOCK FALSE
