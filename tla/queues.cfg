\* One event, two releases and two workers, one fault; four connections, three
\* bookings and a change of hours.
CONSTANTS
    Events = {e1}
    sub1 = sub1
    sub2 = sub2
    Subscribers = {sub1, sub2}
    Workers = {w1, w2}
    Knows <- TwoReleases
    Releases = {1, 2}
    JobAttempts = 2
    UnknownWait = 1
    ObHorizon = 1
    MaxFaults = 1
    Nil = Nil
    Bookings = {b1, b2, b3}
    HoursChanges = {h1}
    Barbers = {s1, s2}
    MaxConns = 4
    None = None
SPECIFICATION QueuesSpec
CHECK_DEADLOCK FALSE
INVARIANTS
    NoEventLost
    BookingsLeaveRoom
PROPERTIES
    EveryoneHears
    EveryoneFinishes
