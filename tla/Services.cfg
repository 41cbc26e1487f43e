SPECIFICATION ServicesSpec
CONSTANTS
    FailureThreshold = 3
    MaxOutages = 3
    Readers = {p1, p2}
    TTL = 2
    ProbeLimit = 1
    MaxSaves = 1
    MaxTime = 4
    Watched = {1, 2}
    Windowed = {1}
    MaxBoots = 1
    MaxDroughts = 1
    Files <- MCFiles
    MaxFailures = 3
    Intervals = {1, 2}
    Timelapses = {t1, t2}
    Cleanups = {c1}
    Given <- MCGiven
    MaxHandled = 2
    MaxReboots = 1
    Threshold = 1
    MaxAsked = 2
    MaxMishaps = 1
    MaxFrames = 2
    MaxAttempts = 2
    MinRows = 2
    MaxFaults = 1
    HourSlots = 2
    DaySlots = 8
    ManualWindows <- MCWindows
    SunWindows <- MCSun
    Paces = {1, 2, 3, 4}
    MaxDays = 2
    MaxResets = 2
    MaxTokens = 2
    MaxStep = 2
    Listed <- MCListed
    MaxImages = 5
    Blends = {3, 5}
    MaxHeld = 4
    MaxChunk = 2
    MaxReceived = 6
INVARIANTS
    ServicesTypeOK
    MediaAccounted
    JobsFollowRows
    UserToggleStands
    SchedulesFollowRows
    OneAlertPerOutage
    StaleNoLongerThanTTL
    ExitNeedsRefusals
    RecordedIsComplete
    FramesOnTheGrid
    DaysOfWeekKept
    BlurReadsOriginals
    FirstImageReturned
PROPERTIES
    HiddenTreeKeepsRows
    DanglingRowsGo
    OwnershipHeals
    BootConverges
CHECK_DEADLOCK FALSE
