SPECIFICATION FairSpec
CONSTANTS
    Streams = {s1}
    NoStream = NoStream
    JobIds = {j1}
    NoJob = NoJob
    NoReply = NoReply
    Estimates = {TRUE}
    GenerateOnFinish = TRUE
    GenerateOnCancel = FALSE
    Notify = TRUE
    Threshold = 2
    Env = {"power_off", "disable", "delete_stream", "restart", "poll_db_error"}
    MaxPrints = 2
    MaxRestarts = 1
PROPERTIES
    PowerOffClosesPrint
