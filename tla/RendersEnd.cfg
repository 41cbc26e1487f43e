CHECK_DEADLOCK FALSE
SPECIFICATION FairSpec
CONSTANTS
    Jobs = {j1, j2}
    NoJob = NoJob
    Prints = {j1}
    Stages = 1
    Notify = FALSE
    Env = {"cancel", "delete_timelapse", "delete_print", "delete_profile", "restart", "crash", "db_error"}
    MaxRestarts = 1
PROPERTIES
    EveryRequestEnds
