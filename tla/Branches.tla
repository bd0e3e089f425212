------------------------------ MODULE Branches ------------------------------
(***************************************************************************)
(* Branches of a business: created within the plan, edited under a version *)
(* check, published once the business is active and the branch could take  *)
(* a booking, and unpublished.                                             *)
(*                                                                         *)
(* Durations are in seconds, as the API may send them; rows keep minutes.  *)
(* Publish reads the business and the branch's readiness, which is three   *)
(* reads of two other modules, before it locks the branch.                 *)
(***************************************************************************)
EXTENDS Billing, Access, SequencesExt, Integers

CONSTANTS
    BrIds,              \* branch ids that may be given
    BrStaff,            \* the business's staff, as in Access
    BrRequests,         \* requests in progress
    BrBarbers,          \* barbers who may perform and be scheduled
    BrProfiles,         \* profiles people send, good and bad
    BrPolicies,         \* booking policies people send, good and bad
    MaxText,            \* the longest name, district or address
    Cities, Zones,      \* the codes and time zones that exist
    MaxBranchVersion,   \* bound: no branch changes more often
    BrHorizon,          \* bound: the last instant
    MaxFacts            \* bound: changes of hours, services and schedules

ASSUME BranchesAssumption ==
    /\ MaxText \in Nat /\ MaxBranchVersion \in Nat /\ MaxFacts \in Nat
    /\ "Asia/Riyadh" \in Zones
    /\ IsFiniteSet(BrIds)
    /\ BrPolicies \subseteq
          [MinLead: Int, HorizonDays: Int, SlotInterval: Int, Buffer: Int,
           CancellationWindow: Int, AutoConfirm: BOOLEAN, PendingExpiry: Int,
           MaxActiveBookings: Int]

VARIABLES
    brClock,
    brApprovedAt,       \* when an admin approved the business, 0 if not
    brSub,              \* its subscription
    rows,               \* rows[b]: the branch, or NoBranch
    facts,              \* what catalog and scheduling know of the branches
    brEvents,           \* branch events handed to the outbox
    brReq               \* brReq[r]: a request in progress

brPlan == <<brClock, brApprovedAt, brSub>>

brVars == <<brPlan, rows, facts, brEvents, brReq>>

NoBranch == [status |-> "none", version |-> 0, profile |-> [zone |-> "none"],
             policy |-> << >>]

NoBrRequest == [pc |-> "idle", user |-> "nobody", branch |-> "none", version |-> 0,
                created |-> 0, standing |-> SetupStanding, was |-> "none",
                performers |-> {}, open |-> FALSE, barber |-> FALSE]

BrDone(r) == brReq' = [brReq EXCEPT ![r] = NoBrRequest]

Member(user) == MemberOf(BrStaff, user)

\* The business's status: under review, then active.
BrStatus == IF brApprovedAt = 0 THEN "pending_review" ELSE "active"

-----------------------------------------------------------------------------
(***************************************************************************)
(* Values.                                                                 *)
(***************************************************************************)
\* checkTimezone: IANA names only.
TimezoneKnown(zone) == zone \in Zones \ {"", "Local"}

\* BranchProfile.validate; texts count their characters once trimmed.
ProfileError(p) ==
    CASE p.name = 0 -> "arabic_required"
      [] p.name > MaxText -> "text_too_long"
      [] p.city \notin Cities -> "city_code"
      [] p.address = 0 -> "address_required"
      [] p.address > MaxText \/ p.district > MaxText -> "text_too_long"
      [] p.location = <<0, 0>> -> "coordinates"
      [] ~ TimezoneKnown(p.zone) -> "timezone"
      [] OTHER -> "none"

wholeMinutes(d) == d % 60 = 0

Within(d, least, most) == least <= d /\ d <= most

\* NewBookingPolicy.
PolicyAccepted(p) ==
    /\ wholeMinutes(p.MinLead) /\ Within(p.MinLead, 0, 7 * 86400)
    /\ p.HorizonDays \in 1 .. 180
    /\ p.SlotInterval \in {300, 600, 900, 1200, 1800, 3600}
    /\ wholeMinutes(p.Buffer) /\ Within(p.Buffer, 0, 3600)
    /\ wholeMinutes(p.CancellationWindow) /\ Within(p.CancellationWindow, 0, 48 * 3600)
    /\ wholeMinutes(p.PendingExpiry) /\ Within(p.PendingExpiry, 300, 7200)
    /\ p.MaxActiveBookings \in 1 .. 10

DefaultBookingPolicy ==
    [MinLead |-> 1800, HorizonDays |-> 30, SlotInterval |-> 900, Buffer |-> 0,
     CancellationWindow |-> 7200, AutoConfirm |-> TRUE, PendingExpiry |-> 900,
     MaxActiveBookings |-> 2]

\* toInt16, toInt32: two's complement, or an error.
Int16(n) == Within(n, -32768, 32767)
Int32(n) == Within(n, -2147483647 - 1, 2147483647)

Durations == {"MinLead", "SlotInterval", "Buffer", "CancellationWindow", "PendingExpiry"}

\* toBranchRow: minutes, in columns of 16 and 32 bits.
toBranchRow(p) == [f \in DOMAIN p |-> IF f \in Durations THEN p[f] \div 60 ELSE p[f]]

RowFits(p) ==
    /\ \A f \in {"MinLead", "CancellationWindow"} : Int32(toBranchRow(p)[f])
    /\ \A f \in {"HorizonDays", "SlotInterval", "Buffer", "PendingExpiry", "MaxActiveBookings"} :
          Int16(toBranchRow(p)[f])

\* toBranch: the policy as it is loaded.
toBranch(row) == [f \in DOMAIN row |-> IF f \in Durations THEN row[f] * 60 ELSE row[f]]

-----------------------------------------------------------------------------
(***************************************************************************)
(* Creating a branch.                                                      *)
(***************************************************************************)
BrAsk(r, user, need) ==
    /\ brReq[r] = NoBrRequest
    /\ authorize(Member(user), need) = "none"

\* Create, by the owner: the form is checked and where the business stands is
\* read, all before the transaction.
CreateAsk(r, user, p, policy) ==
    /\ BrAsk(r, user, "owner")
    /\ ProfileError(p) = "none" /\ PolicyAccepted(policy)
    /\ brReq' = [brReq EXCEPT ![r] = [NoBrRequest EXCEPT !.pc = "create", !.user = user,
                       !.branch = [profile |-> p, policy |-> policy], !.created = brClock,
                       !.standing = Standing(brSub, brClock)]]
    /\ UNCHANGED <<brPlan, rows, facts, brEvents>>

\* lockBusiness, to the commit.
Adding == \E r \in BrRequests : brReq[r].pc = "add"

\* CountBranches, as Add's transaction sees them.
CountBranches == Cardinality({b \in BrIds : rows[b].version > 0})

\* Add: the business is locked and its branches counted against the plan read.
AddCount(r) ==
    /\ brReq[r].pc = "create"
    /\ ~ Adding
    /\ IF AllowBranch(brReq[r].standing.plan, CountBranches)
       THEN brReq' = [brReq EXCEPT ![r].pc = "add"] ELSE BrDone(r)
    /\ UNCHANGED <<brPlan, rows, facts, brEvents>>

\* NewBranch, InsertBranch: a draft of version 1, of which nobody hears.
AddInsert(r, b) ==
    /\ brReq[r].pc = "add"
    /\ rows[b] = NoBranch
    /\ rows' = [rows EXCEPT ![b] = [status |-> "draft", version |-> 1,
                    profile |-> brReq[r].branch.profile,
                    policy |-> toBranchRow(brReq[r].branch.policy)]]
    /\ BrDone(r)
    /\ UNCHANGED <<brPlan, facts, brEvents>>

-----------------------------------------------------------------------------
(***************************************************************************)
(* Changing a branch: a page, and its version as If-Match.                 *)
(***************************************************************************)
\* Get: any active staff of the business.
GetBranch(r, user, b) ==
    /\ BrAsk(r, user, "barber")
    /\ rows[b] # NoBranch /\ rows[b].version < MaxBranchVersion
    /\ brReq' = [brReq EXCEPT ![r] = [NoBrRequest EXCEPT !.pc = "page", !.user = user,
                       !.branch = b, !.version = rows[b].version]]
    /\ UNCHANGED <<brPlan, rows, facts, brEvents>>

\* BranchStore.Update: the row is locked and has the version expected.
BranchIsAsSeen(r) == rows[brReq[r].branch].version = brReq[r].version

\* touch, UpdateBranch and the event with its snapshot, in one transaction.
SaveBranch(r, type, row) ==
    LET next == [row EXCEPT !.version = @ + 1]
    IN  /\ rows' = [rows EXCEPT ![brReq[r].branch] = next]
        /\ brEvents' = Append(brEvents, [type |-> type, branch |-> brReq[r].branch,
                                  version |-> next.version, status |-> next.status,
                                  zone |-> next.profile.zone])
        /\ BrDone(r)
        /\ UNCHANGED <<brPlan, facts>>

\* Update: a manager of the branch; the time zone is the owner's alone.
MayEdit(m, b, p) ==
    /\ AuthorizeMemberAt(m, "manager", b)
    /\ p.zone # rows[b].profile.zone => m.role = "owner"

\* apply and Edit: what was not sent stays.
EditBranch(r, p, policy) ==
    LET b == brReq[r].branch
    IN  /\ brReq[r].pc = "page" /\ BranchIsAsSeen(r)
        /\ MayEdit(Member(brReq[r].user), b, p)
        /\ ProfileError(p) = "none" /\ PolicyAccepted(policy)
        /\ SaveBranch(r, "updated",
              [rows[b] EXCEPT !.profile = p, !.policy = toBranchRow(policy)])

\* Publish, by the owner: the business as it is now.
PublishStatus(r) ==
    /\ brReq[r].pc = "page"
    /\ authorize(Member(brReq[r].user), "owner") = "none"
    /\ brReq' = [brReq EXCEPT ![r].pc = "status", ![r].was = BrStatus]
    /\ UNCHANGED <<brPlan, rows, facts, brEvents>>

\* BranchReadiness: who performs a service, then whether the branch has
\* opening hours, then who of the performers is scheduled.
PublishPerformers(r) ==
    /\ brReq[r].pc = "status"
    /\ brReq' = [brReq EXCEPT ![r].pc = "performers", ![r].performers = facts.performers]
    /\ UNCHANGED <<brPlan, rows, facts, brEvents>>

PublishReadiness(r) ==
    /\ brReq[r].pc = "performers"
    /\ brReq' = [brReq EXCEPT ![r].pc = "ready", ![r].open = facts.open,
                       ![r].barber = brReq[r].performers \cap facts.scheduled # {}]
    /\ UNCHANGED <<brPlan, rows, facts, brEvents>>

\* Branch.Publish.
MayPublish(r) ==
    /\ brReq[r].was = "active"
    /\ rows[brReq[r].branch].status # "published"
    /\ brReq[r].open /\ brReq[r].performers # {} /\ brReq[r].barber

PublishSave(r) ==
    /\ brReq[r].pc = "ready" /\ BranchIsAsSeen(r)
    /\ MayPublish(r)
    /\ SaveBranch(r, "published", [rows[brReq[r].branch] EXCEPT !.status = "published"])

\* Unpublish, by the owner.
Unpublish(r) ==
    /\ brReq[r].pc = "page" /\ BranchIsAsSeen(r)
    /\ authorize(Member(brReq[r].user), "owner") = "none"
    /\ rows[brReq[r].branch].status = "published"
    /\ SaveBranch(r, "unpublished", [rows[brReq[r].branch] EXCEPT !.status = "unpublished"])

\* Refused, given up or broken off: nothing was saved.
BrAbort(r) ==
    /\ brReq[r].pc # "idle"
    /\ BrDone(r)
    /\ UNCHANGED <<brPlan, rows, facts, brEvents>>

-----------------------------------------------------------------------------
(* Approval, which nothing takes back, and billing hearing of it, any number  *)
(* of times.                                                                 *)

BrApprove ==
    /\ brApprovedAt = 0
    /\ brApprovedAt' = brClock
    /\ UNCHANGED <<brClock, brSub, rows, facts, brEvents, brReq>>

\* OnApproved, StartTrial.
BrOnApproved ==
    /\ brApprovedAt # 0
    /\ brSub' = AddIfAbsent(brSub, StartTrial(brApprovedAt))
    /\ UNCHANGED <<brClock, brApprovedAt, rows, facts, brEvents, brReq>>

BrTick ==
    /\ brClock < BrHorizon
    /\ brClock' = brClock + 1
    /\ UNCHANGED <<brApprovedAt, brSub, rows, facts, brEvents, brReq>>

\* Catalog and scheduling change meanwhile.
BrFacts ==
    /\ facts.n < MaxFacts
    /\ \E ps \in SUBSET BrBarbers, ss \in SUBSET BrBarbers, o \in BOOLEAN :
          facts' = [performers |-> ps, scheduled |-> ss, open |-> o, n |-> facts.n + 1]
    /\ UNCHANGED <<brPlan, rows, brEvents, brReq>>

BrInit ==
    /\ brClock = 1 /\ brApprovedAt = 0 /\ brSub = NoSubscription
    /\ rows = [b \in BrIds |-> NoBranch]
    /\ facts = [performers |-> {}, scheduled |-> {}, open |-> FALSE, n |-> 0]
    /\ brEvents = << >>
    /\ brReq = [r \in BrRequests |-> NoBrRequest]

BrNext ==
    \/ \E r \in BrRequests :
          \/ \E m \in BrStaff, p \in BrProfiles, q \in BrPolicies : CreateAsk(r, m.user, p, q)
          \/ AddCount(r)
          \/ \E b \in BrIds : AddInsert(r, b)
          \/ \E m \in BrStaff, b \in BrIds : GetBranch(r, m.user, b)
          \/ \E p \in BrProfiles, q \in BrPolicies : EditBranch(r, p, q)
          \/ PublishStatus(r)
          \/ PublishPerformers(r)
          \/ PublishReadiness(r)
          \/ PublishSave(r)
          \/ Unpublish(r)
          \/ BrAbort(r)
    \/ BrApprove
    \/ BrOnApproved
    \/ BrTick
    \/ BrFacts

BrSpec == BrInit /\ [][BrNext]_brVars

-----------------------------------------------------------------------------
\* The branches of the plan a request found (see SeatsThen in Staffing).
BranchesThen(q) ==
    IF q.standing.status = "setup" \/ q.created < brSub.periodEnd
    THEN ProBranches ELSE FreeBranches

\* Of every step: a branch is added within the plan the business had when the
\* request read it, the trial's or Free's, however many are created at once and
\* although the trial may end meanwhile.
BranchesWithinPlan ==
    \A r \in BrRequests :
        (brReq[r].pc = "add" /\ brReq'[r] # brReq[r] /\ rows' # rows)
            => CountBranches' <= BranchesThen(brReq[r])

\* Others hear of every change of a branch after its creation, once and in
\* order, and the last they hear is the branch as it is.
BranchEventsTellIt ==
    \A b \in {x \in BrIds : rows[x] # NoBranch} :
        LET mine == {n \in DOMAIN brEvents : brEvents[n].branch = b}
        IN  /\ {brEvents[n].version : n \in mine} = 2 .. rows[b].version
            /\ \A m, n \in mine : m < n => brEvents[m].version < brEvents[n].version
            /\ \A n \in mine : brEvents[n].version = rows[b].version
                                  => /\ brEvents[n].status = rows[b].status
                                     /\ brEvents[n].zone = rows[b].profile.zone

\* Of every step: opening hours and schedules are wall-clock times, so nobody
\* but the owner moves a branch to another time zone, and what a save keeps
\* of the branch is what its page showed, a publication included, which reads
\* the business and the branch's readiness before it locks the branch.
ZoneIsTheOwners ==
    \A r \in BrRequests :
        (/\ brReq[r].pc \in {"page", "ready"}
         /\ rows' # rows /\ brReq'[r].pc = "idle")
            => LET b == brReq[r].branch
               IN  /\ rows[b].version = brReq[r].version
                   /\ rows'[b].profile.zone # rows[b].profile.zone
                          => Member(brReq[r].user).role = "owner"

\* A booking policy is loaded as someone sent it: no value is cut when it is
\* written in minutes and in 16 bits.
PolicyIsKept ==
    \A b \in {x \in BrIds : rows[x] # NoBranch} :
        LET p == toBranch(rows[b].policy)
        IN  p \in BrPolicies /\ RowFits(p)
=============================================================================
