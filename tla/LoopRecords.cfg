SPECIFICATION PaceSpec
CONSTANTS
    None = None
    Ids <- MCIds
    Slots <- MCSlots
    Dates <- MCDates
    InitialPages <- MCInitialPages
    ReminderBefore = 2
    DayWindow = 4
    SixHourWindow = 2
    LongInterval = 3
    MidInterval = 2
    ShortInterval = 2
    DayLength = 4
    DaysPerWeek = 2
    JstOffset = 0
    EpochWeekday = 1
    CheckTime = 2
    WebhookUrlValid = TRUE
    RoleIdValid = TRUE
    HttpStatuses = {204, 400, 429, 500}
    MaxTime = 9
    Poll = 1
    RetryDelay = 2
    ConfigDelay = 3
    ClockDelay = 1
    FetchInterval = 3
    MaxBackoff = 3
    ClocksAgree = TRUE
    CallDelays = {0}
    StoreDelays = {0}
    MaxEdits = 1
    MaxCrashes = 1
    Faults = {"db", "fetch", "send"}
INVARIANTS
    TypeOK
    SentMeansPosted
    PostedMeansRecorded
    RestartKeepsProgress
    AdvanceAlwaysInserts
    StatusCoherent
    NormalNotRepeated
    DueReminderRetried
    AbsenceNotRepeated
PROPERTIES
    RecordsNeverRegress
    FetchesApart
