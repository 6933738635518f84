CONSTANTS
    DayMinutes = 3
    LastDay = 3
    WindowIds = {w1, w2}
    MaxDate = 4
SPECIFICATION MCSpec
SYMMETRY Symmetry
INVARIANT MirrorAgrees
CHECK_DEADLOCK FALSE
