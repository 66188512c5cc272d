SPECIFICATION Spec
CONSTANTS
    None = None
    BadNumber = BadNumber
    OtherLink = OtherLink
    Ids <- MCIds
    Slots <- MCSlots
    InitialPages <- MCInitialPages
    RequestTimes <- MCRequestTimes
    TimeText <- MCTimeText
    DurationText <- MCDurationText
    GetLimit = 4
    PostLimit = 1
    Pieces = {1, 3}
    MaxBody = 6
    RequestTimeout = 30
    Tick = 15
    MaxRedirects = 3
    HttpStatuses = {200, 302, 429, 503}
    WebhookUrlValid = TRUE
    RoleIdValid = TRUE
    DayLength = 86400
    DaysPerWeek = 7
    JstOffset = 32400
    EpochWeekday = 4
    CheckTime = 68400
    ReminderBefore = 7200
    DayWindow = 86400
    SixHourWindow = 21600
    LongInterval = 3600
    MidInterval = 900
    ShortInterval = 300
INVARIANTS
    TypeOK
    BodyBounded
    CompleteOrError
    ConflictsDropped
    ReadingIsTrue
PROPERTIES
    ImplementsAnswers
    RequestEnds
CHECK_DEADLOCK FALSE
