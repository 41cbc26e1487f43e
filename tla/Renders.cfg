CHECK_DEADLOCK FALSE
SPECIFICATION Spec
CONSTANTS
    Jobs = {j1, j2, j3}
    NoJob = NoJob
    Prints = {j1}
    Stages = 1
    Notify = TRUE
    Env = {"cancel", "delete_timelapse", "delete_profile", "restart"}
    MaxRestarts = 1
INVARIANTS
    TypeOK
    OneEncoder
    ListedAsQueued
    EventWhileAlive
    CancelHonoured
    OutputHasOwner
    RowHasOutput
    ReportIsTrue
PROPERTIES
    KeepsPromise
