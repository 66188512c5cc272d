SPECIFICATION LiveSpec
CONSTANTS
    None = None
    Ids <- MCIds
    Slots <- MCSlots
    Dates <- MCDates
    InitialPages <- MCInitialPages
    ReminderBefore = 0
    DayWindow = 2
    SixHourWindow = 1
    LongInterval = 2
    MidInterval = 1
    ShortInterval = 1
    DayLength = 4
    DaysPerWeek = 7
    JstOffset = 0
    EpochWeekday = 0
    CheckTime = 2
    WebhookUrlValid = TRUE
    RoleIdValid = FALSE
    HttpStatuses = {204, 500}
    MaxTime = 4
    Poll = 1
    RetryDelay = 1
    ConfigDelay = 1
    ClockDelay = 1
    FetchInterval = 2
    MaxBackoff = 2
    ClocksAgree = TRUE
    CallDelays = {0}
    StoreDelays = {0}
    MaxEdits = 1
    MaxCrashes = 1
    Faults = {"rows", "db", "send"}
PROPERTIES
    TargetChosen
    TargetFollowed
    NoticesResolved
