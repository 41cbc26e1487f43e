SPECIFICATION Spec
CONSTANTS
    Streams = {s1, s2}
    NoStream = NoStream
    JobIds = {j1}
    NoJob = NoJob
    NoReply = NoReply
    Estimates = {TRUE}
    GenerateOnFinish = TRUE
    GenerateOnCancel = FALSE
    Notify = TRUE
    Threshold = 2
    Env = {"disable", "delete_stream", "restart"}
    MaxPrints = 2
    MaxRestarts = 1
SYMMETRY Symmetry
INVARIANTS
    TypeOK
    AtMostOneOpen
    NoCaptureWithoutPrint
    OpenPrintIsFilmed
    JobMatchesRow
    OffMeansNoOpenPrint
