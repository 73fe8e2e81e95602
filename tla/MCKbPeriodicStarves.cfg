CONSTANTS
    UintRange = 1000
    Horizon = 4
    Values <- MCThreeSeconds
    Counters <- MCNoCounter
    SizeMax = 7
    Statuses <- MCStatuses
    MaxRuns = 4
SPECIFICATION Spec
PROPERTY KeepsRunning
CHECK_DEADLOCK FALSE
