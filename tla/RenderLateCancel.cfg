CHECK_DEADLOCK FALSE
SPECIFICATION Spec
CONSTANTS
    Jobs = {j1}
    NoJob = NoJob
    Prints = {}
    Stages = 1
    Notify = FALSE
    Env = {"cancel"}
    MaxRestarts = 0
INVARIANT CancelHonouredToTheEnd
