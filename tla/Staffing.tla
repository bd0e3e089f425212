------------------------------ MODULE Staffing ------------------------------
(***************************************************************************)
(* Staff: owners invite people by phone, within the plan's seats and under *)
(* sending limits; an invited person accepts with the texted token, signed *)
(* in with the invited phone.  A person stands for their user and their    *)
(* phone, which iam keeps one to one.                                      *)
(*                                                                         *)
(* Invite is in steps: the clock and the plan, the business's lock, the    *)
(* phone's lock and the history, the revocation and the seats, the insert  *)
(* with the commit.  Accept is two: the invitation's row is locked and the *)
(* clock read, then both rows are written and committed.  Revoke does      *)
(* nothing between its lock and its commit and is one action.              *)
(***************************************************************************)
EXTENDS Billing, Access, SequencesExt

CONSTANTS
    StShops,                    \* businesses
    StPeople,                   \* people who may be invited
    StRequests,                 \* requests in progress
    StApproved,                 \* businesses an admin approves
    StBranches,                 \* StBranches[shop]: its branches
    StForms,                    \* what owners fill in: [role, name, branches]
    MaxStaffNameLen, MaxStaffBranches,
    InvitationTTL, InviteWindow, InviteCooldown,
    MaxInvitesPerPhone, MaxInvitesPerBusiness,
    StHorizon,                  \* bound: the last instant
    MaxInvitations,             \* bound: invitations in all
    NoOne

ASSUME StaffingAssumption ==
    /\ {InvitationTTL, InviteWindow, InviteCooldown, MaxInvitesPerPhone,
        MaxInvitesPerBusiness} \subseteq Nat \ {0}
    /\ NoOne \notin StPeople \cup StShops

VARIABLES
    stClock,
    approvedAt,     \* approvedAt[shop]: when an admin approved it, 0 if not
    subs,           \* subs[shop]: its subscription
    invs,           \* business.invitations, in the order of the inserts
    team,           \* business.staff_members but the owners
    req             \* req[r]: a request in progress

stVars == <<stClock, approvedAt, subs, invs, team, req>>

NoRequest == [pc |-> "idle", shop |-> NoOne, person |-> NoOne, role |-> "none",
              branches |-> {}, created |-> 0, standing |-> SetupStanding, inv |-> 0]

Finish(r) == req' = [req EXCEPT ![r] = NoRequest]

Pending(shop) == {i \in DOMAIN invs : invs[i].shop = shop /\ invs[i].status = "pending"}

ExpiresAt(inv) == inv.created + InvitationTTL

IsOpen(inv, now) == inv.status = "pending" /\ now < ExpiresAt(inv)

-----------------------------------------------------------------------------
(***************************************************************************)
(* Inviting.                                                               *)
(***************************************************************************)
\* ParseRole and NewInvitation: a name counts its characters.
NewInvitationError(form) ==
    CASE form.role \notin {"manager", "barber"} -> "invalid_role"
      [] form.name = 0 -> "name_required"
      [] form.name > MaxStaffNameLen -> "text_too_long"
      [] Cardinality(form.branches) \notin 1 .. MaxStaffBranches -> "branch_required"
      [] OTHER -> "none"

\* Plans.Standing, as BillingPlans and Module.Standing hand it on.
StandingOf(shop) == Standing(subs[shop], stClock)

\* Invite by the shop's owner: the form is checked, the clock and the plan
\* are read, all before the transaction.
InviteAsk(r, shop, person, form) ==
    /\ req[r] = NoRequest /\ Len(invs) < MaxInvitations
    /\ \/ NewInvitationError(form) # "none" /\ UNCHANGED req
       \/ /\ NewInvitationError(form) = "none"
          /\ req' = [req EXCEPT ![r] = [NoRequest EXCEPT
                !.pc = "asked", !.shop = shop, !.person = person, !.role = form.role,
                !.branches = form.branches, !.created = stClock,
                !.standing = StandingOf(shop)]]
    /\ UNCHANGED <<stClock, approvedAt, subs, invs, team>>

\* LockBusiness, to the commit.
ShopLocked(shop) ==
    \E r \in StRequests : req[r].pc \in {"locked", "counted", "seated"} /\ req[r].shop = shop

\* CountBranchesIn: every branch is the business's.
KnownBranches(r) == req[r].branches \subseteq StBranches[req[r].shop]

InviteLock(r) ==
    /\ req[r].pc = "asked"
    /\ ~ ShopLocked(req[r].shop)
    /\ IF KnownBranches(r) THEN req' = [req EXCEPT ![r].pc = "locked"] ELSE Finish(r)
    /\ UNCHANGED <<stClock, approvedAt, subs, invs, team>>

\* Mutant: invitations to one phone do not take turns.
PhoneLockedNever(person) == FALSE

\* AdvisoryLock on the phone, to the commit.
PhoneLocked(person) ==
    \E r \in StRequests : req[r].pc \in {"counted", "seated"} /\ req[r].person = person

\* InviteHistory since created_at - InviteWindow.
InviteHistory(shop, person, created) ==
    LET recent == {i \in DOMAIN invs : invs[i].created + InviteWindow > created}
    IN  [ToPhone    |-> {i \in recent : invs[i].phone = person},
         ByBusiness |-> {i \in recent : invs[i].shop = shop}]

\* AllowInvite: the cooldown, and both counts.  A count at its limit always
\* means a wait, since the oldest of the window frees up later.
AllowInvite(h, created) ==
    /\ \A i \in h.ToPhone \cap h.ByBusiness : invs[i].created + InviteCooldown <= created
    /\ Cardinality(h.ToPhone) < MaxInvitesPerPhone
    /\ Cardinality(h.ByBusiness) < MaxInvitesPerBusiness

InviteCount(r) ==
    LET q == req[r]
    IN  /\ q.pc = "locked"
        /\ ~ PhoneLocked(q.person)
        /\ IF AllowInvite(InviteHistory(q.shop, q.person, q.created), q.created)
           THEN req' = [req EXCEPT ![r].pc = "counted"]
           ELSE Finish(r)
        /\ UNCHANGED <<stClock, approvedAt, subs, invs, team>>

\* RevokePendingInvitations: a resent invitation replaces the earlier one.
RevokeOlder(shop, person) ==
    [i \in DOMAIN invs |->
        IF i \in Pending(shop) /\ invs[i].phone = person
        THEN [invs[i] EXCEPT !.status = "revoked"] ELSE invs[i]]

\* CountStaffSeats: the staff, and the invitations that can be accepted.
CountStaffSeats(rows, shop, now) ==
    Cardinality({m \in team : m.shop = shop})
        + Cardinality({i \in DOMAIN rows : rows[i].shop = shop /\ IsOpen(rows[i], now)})

\* The row is locked: by the person accepting it, or by the invitation that
\* is about to replace it.
InvitationHeld(i) ==
    \E r \in StRequests :
        \/ req[r].pc = "accepting" /\ req[r].inv = i
        \/ /\ req[r].pc = "seated" /\ i \in Pending(req[r].shop)
           /\ invs[i].phone = req[r].person

\* The rows InviteSeats revokes are someone else's for now.
RevokeWaits(r) ==
    \E i \in Pending(req[r].shop) : invs[i].phone = req[r].person /\ InvitationHeld(i)

\* Within the transaction: what the revocation leaves, counted.
InviteSeats(r) ==
    LET q    == req[r]
        rest == RevokeOlder(q.shop, q.person)
    IN  /\ q.pc = "counted"
        /\ ~ RevokeWaits(r)
        /\ IF AllowStaff(q.standing.plan, CountStaffSeats(rest, q.shop, q.created))
           THEN req' = [req EXCEPT ![r].pc = "seated"]
           ELSE Finish(r)
        /\ UNCHANGED <<stClock, approvedAt, subs, invs, team>>

\* InsertInvitation and the commit; then SendInvitation: the link arrives or
\* it does not.
InviteSave(r) ==
    LET q == req[r]
    IN  /\ q.pc = "seated"
        /\ \E arrives \in BOOLEAN :
              invs' = Append(RevokeOlder(q.shop, q.person),
                             [shop |-> q.shop, phone |-> q.person, role |-> q.role,
                              branches |-> q.branches, status |-> "pending",
                              created |-> q.created, sent |-> arrives])
        /\ Finish(r)
        /\ UNCHANGED <<stClock, approvedAt, subs, team>>

-----------------------------------------------------------------------------
(***************************************************************************)
(* Accepting and revoking.                                                 *)
(***************************************************************************)
\* Accept: InvitationByTokenForUpdate, the phone, Invitation.Accept's check.
AcceptLock(r, person, i) ==
    /\ req[r] = NoRequest
    /\ invs[i].sent /\ ~ InvitationHeld(i)
    /\ invs[i].phone = person /\ IsOpen(invs[i], stClock)
    /\ req' = [req EXCEPT ![r] = [NoRequest EXCEPT !.pc = "accepting", !.person = person,
                                        !.shop = invs[i].shop, !.inv = i]]
    /\ UNCHANGED <<stClock, approvedAt, subs, invs, team>>

\* staff_members_user_business_key.
AlreadyStaff(shop, person) == \E m \in team : m.shop = shop /\ m.user = person

\* insertStaff: the member, with the branches of the invitation.
NewStaff(i) ==
    [shop |-> invs[i].shop, user |-> invs[i].phone, role |-> invs[i].role,
     branches |-> invs[i].branches, inv |-> i, late |-> stClock >= ExpiresAt(invs[i])]

\* saveInvitation and insertStaff, together.
AcceptSave(r) ==
    LET i == req[r].inv
    IN  /\ req[r].pc = "accepting"
        /\ IF AlreadyStaff(req[r].shop, req[r].person)
           THEN UNCHANGED <<invs, team>>
           ELSE /\ invs' = [invs EXCEPT ![i].status = "accepted"]
                /\ team' = team \cup {NewStaff(i)}
        /\ Finish(r)
        /\ UNCHANGED <<stClock, approvedAt, subs>>

\* Revoke by the owner: pending, expired or not.
Revoke(i) ==
    /\ invs[i].status = "pending" /\ ~ InvitationHeld(i)
    /\ invs' = [invs EXCEPT ![i].status = "revoked"]
    /\ UNCHANGED <<stClock, approvedAt, subs, team, req>>

\* A request's connection breaks: its transaction is rolled back.
StAbort(r) ==
    /\ req[r].pc # "idle"
    /\ Finish(r)
    /\ UNCHANGED <<stClock, approvedAt, subs, invs, team>>

-----------------------------------------------------------------------------
(* Billing hears of an approval, any number of times.                       *)

StApprove(shop) ==
    /\ approvedAt[shop] = 0
    /\ approvedAt' = [approvedAt EXCEPT ![shop] = stClock]
    /\ UNCHANGED <<stClock, subs, invs, team, req>>

\* OnApproved, StartTrial.
OnApproved(shop) ==
    /\ approvedAt[shop] # 0
    /\ subs' = [subs EXCEPT ![shop] = AddIfAbsent(@, StartTrial(approvedAt[shop]))]
    /\ UNCHANGED <<stClock, approvedAt, invs, team, req>>

StTick ==
    /\ stClock < StHorizon
    /\ stClock' = stClock + 1
    /\ UNCHANGED <<approvedAt, subs, invs, team, req>>

StInit ==
    /\ stClock = 1
    /\ approvedAt = [s \in StShops |-> 0]
    /\ subs = [s \in StShops |-> NoSubscription]
    /\ invs = << >>
    /\ team = {}
    /\ req = [r \in StRequests |-> NoRequest]

StNext ==
    \/ \E r \in StRequests :
          \/ \E s \in StShops, p \in StPeople, f \in StForms : InviteAsk(r, s, p, f)
          \/ InviteLock(r)
          \/ InviteCount(r)
          \/ InviteSeats(r)
          \/ InviteSave(r)
          \/ \E p \in StPeople, i \in DOMAIN invs : AcceptLock(r, p, i)
          \/ AcceptSave(r)
          \/ StAbort(r)
    \/ \E i \in DOMAIN invs : Revoke(i)
    \/ \E s \in StApproved : StApprove(s) \/ OnApproved(s)
    \/ StTick

StSpec == StInit /\ [][StNext]_stVars

-----------------------------------------------------------------------------
\* The seats of the plan a request found: the trial's until its end and, as
\* long as billing has not heard of the approval, before it; then Free's.
SeatsThen(q) ==
    IF q.standing.status = "setup" \/ q.created < subs[q.shop].periodEnd
    THEN ProStaff ELSE FreeStaff

\* Of every step: whoever is invited has a seat under the plan the business had
\* when the request read it, the trial's or Free's: with them, staff and open
\* invitations are within it, however invitations, acceptances and the end of a
\* trial race.  Excepted are people whose acceptance was under way when their
\* invitation expired: see LastSeatTakenOnce.
SeatsWithinPlan ==
    \A r \in StRequests, s \in StShops :
        (req[r].pc = "seated" /\ req[r].shop = s /\ req'[r] # req[r] /\ invs' # invs)
            => CountStaffSeats(invs, s, stClock)'
                   <= SeatsThen(req[r]) + Cardinality({m \in team : m.shop = s /\ m.late})'

\* ADR-0019: "Two requests at once can't both take the last place."  The code
\* lets them: an acceptance that locked the invitation before its expiry commits
\* after it, and an invitation in between counts the seat as free.
LastSeatTakenOnce ==
    \A s \in StShops : CountStaffSeats(invs, s, stClock) <= ProStaff

\* Every invitation is a paid SMS to someone who did not ask: in no window
\* does a phone get, or a business send, more than the limit, and a business
\* leaves a phone alone for the cooldown, whatever the order in which
\* requests read the clock and commit.
InvitesBounded ==
    \A i \in DOMAIN invs :
        LET since == {j \in DOMAIN invs : /\ invs[j].created >= invs[i].created
                                          /\ invs[j].created < invs[i].created + InviteWindow}
        IN  /\ Cardinality({j \in since : invs[j].phone = invs[i].phone}) <= MaxInvitesPerPhone
            /\ Cardinality({j \in since : invs[j].shop = invs[i].shop}) <= MaxInvitesPerBusiness
            /\ \A j \in since \ {i} :
                  invs[j].phone = invs[i].phone /\ invs[j].shop = invs[i].shop
                      => invs[j].created >= invs[i].created + InviteCooldown

\* Of every step: an invitation that was revoked, replaced or accepted stays
\* so, and people join by exactly one accepted invitation of theirs each.
ClosedForGood ==
    /\ \A i \in DOMAIN invs : invs[i].status # "pending" => invs'[i] = invs[i]
    /\ {m.inv : m \in team'} = {i \in DOMAIN invs' : invs'[i].status = "accepted"}
=============================================================================
