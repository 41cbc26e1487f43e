SPECIFICATION Spec
CONSTANTS
    Streams = {s1}
    NoStream = NoStream
    JobIds = {j1}
    NoJob = NoJob
    NoReply = NoReply
    Estimates = {TRUE}
    GenerateOnFinish = TRUE
    GenerateOnCancel = FALSE
    Notify = TRUE
    Threshold = 2
    Env = {"flap"}
    MaxPrints = 1
    MaxRestarts = 0
INVARIANT NoCaptureWithoutPrint
