\* The questions about free times, asked of a branch whose clock is put forward
\* at midnight.
CONSTANTS
    MinutesPerDay = 4
    DaysPerWeek = 3
    MaxPerDay = 2
    MaxOverrides = 1
    MaxTimeOff = 8
    MaxWindowsRange = 12
    MaxServices = 2
    WalkInGrace = 1
    Barbers = {1, 2}
    Locations <- MidnightLocations
SPECIFICATION AskSpec
CHECK_DEADLOCK FALSE
INVARIANTS
    OfferedIsBookable
