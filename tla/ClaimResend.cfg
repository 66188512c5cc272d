SPECIFICATION Spec
CONSTANTS
    None = None
    Ids <- MCIds
    Slots <- MCSlots
    Dates <- MCDates
    InitialPages <- MCInitialPages
    ReminderBefore = 4
    DayWindow = 4
    SixHourWindow = 4
    LongInterval = 1
    MidInterval = 1
    ShortInterval = 1
    DayLength = 8
    DaysPerWeek = 7
    JstOffset = 0
    EpochWeekday = 0
    CheckTime = 2
    WebhookUrlValid = TRUE
    RoleIdValid = TRUE
    HttpStatuses = {204, 400, 429, 500}
    MaxTime = 9
    Poll = 1
    RetryDelay = 1
    ConfigDelay = 1
    ClockDelay = 1
    FetchInterval = 1
    MaxBackoff = 1
    ClocksAgree = TRUE
    CallDelays = {0}
    StoreDelays = {0}
    MaxEdits = 3
    MaxCrashes = 0
    Faults = {}
INVARIANT
    RecordedNotResent
