SPECIFICATION Spec
CONSTANTS
    None = None
    Ids <- MCIds
    Slots <- MCSlots
    States <- MCStates
    Times = {1, 2, 4}
    Dates = {6}
    ReminderBefore = 1
    DayWindow = 4
    SixHourWindow = 2
    LongInterval = 3
    MidInterval = 2
    ShortInterval = 1
INVARIANTS
    TypeOK
    NoTransactionLeaks
PROPERTIES
    OkMeansPerformed
    OtherwiseUnchanged
    ImplementsStore
