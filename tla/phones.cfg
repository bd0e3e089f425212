\* Codes: two callers, a lockout after three failures, windows of two ticks, so
\* that windows, lockouts and hours begin and end within three.  Sessions: one
\* session and three refreshes of it, tokens that expire.  Pushes: two users,
\* four phones, two workers, two tries, two faults.  Copies: two versions of a
\* branch, a release that brings a subscriber, two workers, two attempts, within a
\* day (queues.cfg has the clock).
CONSTANTS
    Callers = {x1, x2}
    TTL = 2
    ResendCooldown = 1
    MaxAttempts = 2
    MaxFailures = 3
    FailureWindow = 2
    Lockout = 2
    MaxPerHour = 2
    Hour = 2
    OtpHorizon = 3
    SignIns = {s1}
    Refreshes = {r1, r2, r3}
    Users = {u1}
    RefreshTTL = 2
    AccessTTL = 1
    MaxTime = 3
    None = None
    PushUsers = {"u1", "u2"}
    Phones = {"p1", "p2", "p3", "p4"}
    BadTokens = {"bad"}
    Pushers = {"w1", "w2"}
    Signers = {"c1", "c2"}
    Notices <- MCNotices
    WalkIn = "nobody"
    MaxDevicesPerUser = 2
    SendAttempts = 2
    MaxStamps = 4
    MaxTrouble = 2
    MaxBranchCopy = 1
    Events = {1, 2}
    sub1 = sub1
    sub2 = sub2
    Subscribers = {sub1, sub2}
    Workers = {w1, w2}
    Knows <- TwoReleases
    Releases = {1, 2}
    JobAttempts = 2
    UnknownWait = 1
    ObHorizon = 0
    MaxFaults = 1
    Nil = Nil
SYMMETRY Symmetric
SPECIFICATION PhonesSpec
CHECK_DEADLOCK FALSE
INVARIANTS
    OneUsableToken
    AccessEndsSoon
    GuessingIsLimited
    EveryoneToldOnce
    PushesStayCheap
PROPERTIES
    RefusalsEndTheSession
    RevokedIsFinal
    CodesAreWorthOneSignIn
    CopiesKeepUp
