SPECIFICATION MediaSpec
CONSTANTS
    MaxFrames = 3
    MaxAttempts = 1
    MinRows = 3
    MaxFaults = 1
CHECK_DEADLOCK FALSE
INVARIANT SweepSparesFiles
