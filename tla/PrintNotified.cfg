SPECIFICATION Spec
CONSTANTS
    Streams = {s1}
    NoStream = NoStream
    JobIds = {j1, j2}
    NoJob = NoJob
    NoReply = NoReply
    Estimates = {TRUE}
    GenerateOnFinish = TRUE
    GenerateOnCancel = FALSE
    Notify = TRUE
    Threshold = 2
    Env = {"flap", "disable", "rebind", "delete_stream", "restart", "crash", "poll_db_error"}
    MaxPrints = 2
    MaxRestarts = 1
SYMMETRY Symmetry
INVARIANTS
    OpenPrintIsFilmed
