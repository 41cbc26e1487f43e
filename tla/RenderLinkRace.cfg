CHECK_DEADLOCK FALSE
SPECIFICATION Spec
CONSTANTS
    Jobs = {j1}
    NoJob = NoJob
    Prints = {j1}
    Stages = 1
    Notify = FALSE
    Env = {"delete_print"}
    MaxRestarts = 0
INVARIANT RowHasOutput
