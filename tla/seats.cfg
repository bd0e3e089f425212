\* The trial's only seat: an acceptance, and an invitation as the first lapses.
CONSTANTS
    StShops = {s1}
    StPeople = {p1, p2}
    StRequests = {r1, r2}
    StApproved = {s1}
    StBranches <- MCStBranches
    StForms <- MCStForms
    MaxStaffNameLen = 2
    MaxStaffBranches = 1
    InvitationTTL = 1
    InviteWindow = 1
    InviteCooldown = 1
    MaxInvitesPerPhone = 2
    MaxInvitesPerBusiness = 3
    StHorizon = 2
    MaxInvitations = 2
    NoOne = NoOne
    TrialLength = 1
    FreeStaff = 0
    FreeBranches = 1
    ProStaff = 1
    ProBranches = 1
SPECIFICATION StSpec
SYMMETRY Alike
CHECK_DEADLOCK FALSE
INVARIANTS
    LastSeatTakenOnce
