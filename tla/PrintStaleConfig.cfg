SPECIFICATION Spec
CONSTANTS
    Streams = {s1}
    NoStream = NoStream
    JobIds = {j1, j2}
    NoJob = NoJob
    NoReply = NoReply
    Estimates = {TRUE}
    GenerateOnFinish = TRUE
    GenerateOnCancel = FALSE
    Notify = TRUE
    Threshold = 2
    Env = {"disable"}
    MaxPrints = 2
    MaxRestarts = 0
INVARIANT OffMeansNoOpenPrint
