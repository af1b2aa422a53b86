SPECIFICATION Spec
CONSTANTS
    HourLength = 7
    HoursPerDay = 4
    StartHour = 1
    EndHour = 3
    WeekdaysOnly = TRUE
    Step = 3
    CapDays = 14
    Window = 4
    Limit = 1
    Multiplier = 2
    Consent = 20
    Starts <- ThursdayOrFriday
    MaxRun = 7
    Budgets <- SomeBudgets
INVARIANTS HourIsBounded SilenceIsWorkingTime
CHECK_DEADLOCK FALSE
