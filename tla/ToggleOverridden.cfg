SPECIFICATION ProfileSpec
CONSTANTS
    Intervals = {1, 2}
    Threshold = 1
    MaxAsked = 1
    MaxMishaps = 0
CHECK_DEADLOCK FALSE
INVARIANT ToggleNeverOverridden
