\* Small numbers with every boundary in reach: a week of three days of four
\* minutes, a trial with one seat and one branch and a free plan with none, two
\* concurrent requests everywhere, pages of one result.  Onboarding: two
\* businesses, two users (one of them an admin), two pages, two uploads, enough
\* saves to be rejected, mended, submitted again and approved.
CONSTANTS
    MinutesPerDay = 4
    DaysPerWeek = 3
    MaxPerDay = 2
    MaxOverrides = 1
    MaxTimeOff = 8
    MaxWindowsRange = 12
    MaxServices = 2
    WalkInGrace = 1
    Barbers = {1, 2}
    Locations <- SteadyLocations
    SchedClients = {"c1", "c2"}
    SchedUser <- MCSchedUser
    SchedStaff <- MCSchedStaff
    SchedBranches = {"b1", "b2"}
    SchedKeys <- MCSchedKeys
    WeekChoices <- MCWeeks
    OverrideChoices <- MCOverrides
    OffChoices <- MCOffs
    MaxVersion = 2
    NoStaff = "none"
    biz1 = biz1
    biz2 = biz2
    cr1 = cr1
    cr2 = cr2
    up1 = up1
    up2 = up2
    page1 = page1
    page2 = page2
    Businesses = {biz1, biz2}
    Users = {omar, admin}
    Admins = {admin}
    CRs = {cr1, cr2}
    Uploads = {up1, up2}
    Screens = {page1, page2}
    Nobody = Nobody
    MaxOpenRegistrations = 1
    MaxVerificationDocuments = 2
    BranchLimit = 1
    LostAnswers = TRUE
    MaxSaves = 5
    s1 = s1
    s2 = s2
    StShops = {s1, s2}
    StPeople = {p1, p2}
    StRequests = {r1, r2}
    StApproved = {s1}
    StBranches <- MCStBranches
    StForms <- MCStForms
    MaxStaffNameLen = 2
    MaxStaffBranches = 1
    InvitationTTL = 1
    InviteWindow = 1
    InviteCooldown = 1
    MaxInvitesPerPhone = 1
    MaxInvitesPerBusiness = 2
    StHorizon = 2
    MaxInvitations = 2
    NoOne = NoOne
    TrialLength = 1
    FreeStaff = 0
    FreeBranches = 0
    ProStaff = 1
    ProBranches = 1
    BrIds = {"b1", "b2"}
    BrStaff <- MCBrStaff
    BrRequests = {r1, r2}
    BrBarbers = {a1}
    BrProfiles <- MCBrProfiles
    BrPolicies <- MCBrPolicies
    MaxText = 2
    Cities = {"riyadh"}
    Zones = {"Asia/Riyadh", "Asia/Dubai"}
    MaxBranchVersion = 2
    BrHorizon = 1
    MaxFacts = 2
    h1 = h1
    ServiceIds = {v1}
    CatStaff <- MCCatStaff
    CatBranch = h1
    CatBranches = {h1}
    CatRequests = {r1, r2}
    CatDetails <- MCDetails
    CatOfferings <- MCOfferings
    CategoryCodes = {"hair"}
    MaxNameLen = 2
    MaxDescriptionLen = 2
    MinDuration = 5
    MaxDuration = 480
    DurationStep = 5
    MaxPrice = 100
    MaxSortOrder = 3
    MaxOfferings = 2
    MaxServiceVersion = 3
    ListingAt <- MCListingAt
    OfferAt <- MCOfferAt
    OpenAt <- MCOpenAt
    Searches <- MCSearches
    PageSize = 1
    MaxRadius = 2
    MinQueryLen = 2
    Week = 4
    AnyOf = AnyOf
SPECIFICATION ShopSpec
CHECK_DEADLOCK FALSE
INVARIANTS
    HoursExact
    OfferedIsBookable
    NobodyInTwoShops
    InvitesBounded
    ToldAsSet
    PagesAgree
    PagingMissesNothing
    EdgeIsSound
    RegistrationsBounded
    MissingFilesUnused
    DocumentsAreThere
PROPERTIES
    SavedAsSeen
    LimitsHold
    ApprovedAsSeen
    FrozenUnderReview
