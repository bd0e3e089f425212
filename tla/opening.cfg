\* The scenes of booking.cfg, with nobody to change or expire a booking.
SPECIFICATION SceneSpec
CONSTANTS
    u1 = u1
    u2 = u2
    staff1 = staff1
    k1 = k1
    k2 = k2
    strict = strict
    easy = easy
    slow = slow
    None = None
    AnyBarber = AnyBarber
    Procs = {p1, p2, p3}
    Changers = {}
    Expirers = {}
    Users <- MCUsers
    Branches <- MCBranches
    Keys = {k1, k2}
    Barbers = {1, 2}
    Selections = {"cut"}
    Duration <- MCDuration
    Policy <- MCPolicy
    Member <- MCMember
    Requests <- MCRequests
    DayLen = 4
    MaxTime = 1
    ExpiryBatch = 1
    WalkInGrace = 1
    Openings <- MCHours
    Schedules <- MCHours
    TimeOffs <- MCTimeOffs
SYMMETRY Symmetry
CHECK_DEADLOCK FALSE
PROPERTY
    InsideOpeningHours
