SPECIFICATION Spec
CONSTANTS
    Streams = {s1}
    NoStream = NoStream
    JobIds = {j1, j2}
    NoJob = NoJob
    NoReply = NoReply
    Estimates = {TRUE, FALSE}
    GenerateOnFinish = TRUE
    GenerateOnCancel = FALSE
    Notify = FALSE
    Threshold = 2
    Env = {"flap", "delete_stream", "restart", "crash"}
    MaxPrints = 2
    MaxRestarts = 1
SYMMETRY Symmetry
INVARIANTS
    NoCaptureWithoutPrint
    OpenPrintIsFilmed
    JobMatchesRow
    RenderedOnce
PROPERTIES
    ClosedStaysClosed
