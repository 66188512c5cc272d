SPECIFICATION ClockSpec
CONSTANTS
    None = None
    Ids <- MCIds
    Slots <- MCSlots
    Dates <- MCDates
    InitialPages <- MCInitialPages
    ReminderBefore = 2
    DayWindow = 4
    SixHourWindow = 2
    LongInterval = 3
    MidInterval = 2
    ShortInterval = 2
    DayLength = 4
    DaysPerWeek = 2
    JstOffset = 0
    EpochWeekday = 1
    CheckTime = 1
    WebhookUrlValid = TRUE
    RoleIdValid = TRUE
    HttpStatuses = {204, 400, 429, 500}
    MaxTime = 9
    Poll = 1
    RetryDelay = 2
    ConfigDelay = 3
    ClockDelay = 1
    FetchInterval = 3
    MaxBackoff = 3
    ClocksAgree = FALSE
    CallDelays = {0}
    StoreDelays = {0}
    MaxEdits = 0
    MaxCrashes = 0
    MaxSetBacks = 2
    Faults = {"fetch", "rows", "send"}
INVARIANTS
    TimersBounded
    AdvanceAlwaysInserts
    NormalNotRepeated
    AbsencePostsAreTrue
    AbsenceNotRepeated
