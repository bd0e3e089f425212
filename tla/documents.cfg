\* One business and one upload; the answer of a commit may be lost.
CONSTANTS
    Businesses = {b1}
    Users = {omar, admin}
    Admins = {admin}
    CRs = {c1}
    Uploads = {u1}
    Screens = {d1}
    Nobody = Nobody
    MaxOpenRegistrations = 1
    MaxVerificationDocuments = 1
    BranchLimit = 1
    LostAnswers = TRUE
    MaxSaves = 3
SPECIFICATION Spec
CHECK_DEADLOCK FALSE
INVARIANT DocumentsHaveFiles
