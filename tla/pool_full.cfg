\* Three connections, so that one booking at a time is in flight, beside two
\* changes of hours.
CONSTANTS
    Bookings = {b1, b2}
    HoursChanges = {h1, h2}
    Barbers = {s1, s2}
    MaxConns = 3
    None = None
SPECIFICATION FairSpec
CHECK_DEADLOCK FALSE
INVARIANT SecondConnectionThere
