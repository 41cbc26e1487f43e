SPECIFICATION ScheduleSpec
CONSTANTS
    Timelapses = {t1, t2}
    Cleanups = {c1}
    Given <- MCGiven
    MaxHandled = 2
    MaxReboots = 1
SYMMETRY Symmetry
INVARIANTS
    RealignedFiresThere
CHECK_DEADLOCK FALSE
