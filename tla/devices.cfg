\* Two requests that register phones of one user at once.
CONSTANTS
    Callers = {x1, x2}
    TTL = 2
    ResendCooldown = 1
    MaxAttempts = 2
    MaxFailures = 3
    FailureWindow = 2
    Lockout = 2
    MaxPerHour = 2
    Hour = 2
    OtpHorizon = 1
    SignIns = {s1}
    Refreshes = {r1}
    Users = {u1}
    RefreshTTL = 2
    AccessTTL = 1
    MaxTime = 1
    None = None
    PushUsers = {"u1", "u2"}
    Phones = {"p1", "p2", "p3", "p4"}
    BadTokens = {"bad"}
    Pushers = {"w1", "w2"}
    Signers = {"c1", "c2"}
    Notices <- MCNotices
    WalkIn = "nobody"
    MaxDevicesPerUser = 2
    SendAttempts = 2
    MaxStamps = 4
    MaxTrouble = 0
    MaxBranchCopy = 1
    Events = {1}
    sub1 = sub1
    sub2 = sub2
    Subscribers = {sub1, sub2}
    Workers = {w1}
    Knows <- TwoReleases
    Releases = {1, 2}
    JobAttempts = 1
    UnknownWait = 1
    ObHorizon = 0
    MaxFaults = 0
    Nil = Nil
SYMMETRY Symmetric
SPECIFICATION PhonesSpec
CHECK_DEADLOCK FALSE
INVARIANT KeepsNewestDevices
