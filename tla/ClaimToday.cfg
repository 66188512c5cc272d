SPECIFICATION Spec
CONSTANTS
    None = None
    Ids <- MCIds
    Slots <- MCSlots
    Dates <- MCDates
    InitialPages <- MCInitialPages
    ReminderBefore = 4
    DayWindow = 4
    SixHourWindow = 4
    LongInterval = 3
    MidInterval = 2
    ShortInterval = 1
    DayLength = 8
    DaysPerWeek = 7
    JstOffset = 0
    EpochWeekday = 0
    CheckTime = 2
    WebhookUrlValid = TRUE
    RoleIdValid = TRUE
    HttpStatuses = {204, 400, 429, 500}
    MaxTime = 9
    Poll = 1
    RetryDelay = 1
    ConfigDelay = 2
    ClockDelay = 1
    FetchInterval = 3
    MaxBackoff = 3
    ClocksAgree = TRUE
    CallDelays = {0}
    StoreDelays = {0}
    MaxEdits = 1
    MaxCrashes = 0
    Faults = {}
INVARIANT
    TodayMeansToday
