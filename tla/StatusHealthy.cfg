CONSTANTS
    MaxIntervals = 3
    MaxFaults = 3
SPECIFICATION ServiceSpec
PROPERTY KeepsHealthyConnection
CHECK_DEADLOCK FALSE
