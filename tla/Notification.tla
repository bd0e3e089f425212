----------------------------- MODULE Notification -----------------------------
(***************************************************************************)
(* Notification: the phones that receive pushes, and telling customers     *)
(* what happened to their bookings.  Phones register and sign out while    *)
(* workers go through a customer's devices, pushing through Firebase (FCM) *)
(* with one cached access token between them.  Workers die, the network    *)
(* loses answers, Google throttles and revokes.                            *)
(*                                                                         *)
(* An event's wording is left out; what decides whether and to whom it is  *)
(* told is kept.  A device's id is the stamp of the registration that      *)
(* created it.                                                             *)
(***************************************************************************)
EXTENDS Integers, FiniteSets, Sequences

CONSTANTS
    PushUsers, Phones,      \* a phone is its push token
    BadTokens,          \* strings that are no push token
    Pushers, Signers,   \* workers, and requests that register a phone
    Notices,            \* Notices[e]: [what, status, by, customer] of an event
    WalkIn,             \* the customer of a walk-in: no user
    MaxDevicesPerUser,
    SendAttempts,       \* retryPolicy.attempts
    MaxStamps,          \* bound: registrations
    MaxTrouble,         \* bound: faults of workers, network and Google
    MaxBranchCopy       \* bound: versions of the branch

NoticeEvents == DOMAIN Notices

Stamps == 1 .. MaxStamps

\* What booking publishes of an appointment: a booking is pending or confirmed,
\* and only a cancellation says by whom.
BookingEvent(n) ==
    /\ n.what \in {"booked", "confirmed", "rejected", "expired", "cancelled", "completed", "no_show"}
    /\ n.what = "booked" => n.status \in {"pending", "confirmed"}
    /\ n.by \in (IF n.what = "cancelled" THEN {"customer", "staff"} ELSE {""})
    /\ n.customer \in PushUsers \cup {WalkIn}

ASSUME NotificationAssumption ==
    /\ WalkIn \notin PushUsers
    /\ \A e \in NoticeEvents : BookingEvent(Notices[e])
    /\ IsFiniteSet(Pushers) /\ IsFiniteSet(Signers)
    /\ MaxDevicesPerUser \in Nat \ {0} /\ SendAttempts \in Nat \ {0}
    /\ MaxStamps \in Nat /\ MaxTrouble \in Nat /\ MaxBranchCopy \in Nat \ {0}

VARIABLES
    devices,            \* notification.devices
    stamp,              \* registrations so far: ids and times
    signer,             \* signer[c]: a registration's transaction
    branchCopy,         \* version of notification's copy of the branch; 0: none
    uninstalled,        \* phones FCM no longer knows
    deliveries,         \* notification.deliveries: <<event, device id, outcome>>
    told,               \* events the outbox has marked completed
    pusher,             \* pusher[w]: what a worker is at
    google,             \* the access tokens: cached, valid, fetches
    pushes,             \* history: pushes[<<e, id>>], accepted by FCM
    due,                \* history: due[e], the customer's devices at the first attempt
    excused,            \* history: excused[e], faults that justify a second push
    trouble             \* bound: faults so far

ntVars == <<devices, stamp, signer, branchCopy, uninstalled, deliveries, told,
            pusher, google, pushes, due, excused, trouble>>

\* What only workers change, and what only phones do.
workVars == <<deliveries, told, pusher, google, pushes, due, excused>>

phoneVars == <<stamp, signer, branchCopy, uninstalled>>

NoSigning == [step |-> "idle"]

NoWork == [step |-> "idle"]

Of(user) == {d \in devices : d.user = user}

\* One more fault, of those the instance allows.
Trouble == trouble < MaxTrouble /\ trouble' = trouble + 1

Excuse(e) == excused' = [excused EXCEPT ![e] = @ + 1]

-----------------------------------------------------------------------------
(***************************************************************************)
(* Phones.                                                                 *)
(***************************************************************************)
ParseToken(t) == t \notin BadTokens

\* SaveDevice: registered by its token.  The same user keeps the device; for
\* another it is a new one.
SavedDevice(t, user) ==
    LET old == {d \in devices : d.token = t}
        id  == IF \E d \in old : d.user = user THEN (CHOOSE d \in old : TRUE).id ELSE stamp + 1
    IN  [id |-> id, user |-> user, token |-> t, at |-> stamp + 1]

\* The newest of a user's devices, the one being saved included.
Newest(rows) ==
    {d \in rows : Cardinality({x \in rows : x.at > d.at}) < MaxDevicesPerUser}

\* TrimDevices, in the same transaction: it sees what is committed, and row.
TrimDevices(row) ==
    LET rows == {d \in Of(row.user) : d.token # row.token} \cup {row}
    IN  {d.id : d \in rows \ Newest(rows)}

\* A row a registration has not committed yet cannot be changed meanwhile.
Unlocked(d) ==
    \A c \in Signers : signer[c] # NoSigning =>
        signer[c].row.token # d.token /\ d.id \notin signer[c].drop

\* POST /v1/me/devices, up to the commit.  Another transaction with the same
\* token makes this one wait.
RegisterDevice(c, user, t) ==
    /\ signer[c] = NoSigning
    /\ ParseToken(t) /\ t \notin uninstalled
    /\ stamp < MaxStamps
    /\ \A d \in devices : d.token = t => Unlocked(d)
    /\ \A o \in Signers : signer[o] # NoSigning => signer[o].row.token # t
    /\ LET row == SavedDevice(t, user)
       IN  signer' = [signer EXCEPT ![c] =
               [step |-> "saving", row |-> row, drop |-> TrimDevices(row)]]
    /\ stamp' = stamp + 1
    /\ UNCHANGED <<devices, branchCopy, uninstalled, workVars, trouble>>

\* The transaction commits, or is rolled back.  A row to drop that another one
\* has saved is waited for.
Registered(c) ==
    /\ signer[c] # NoSigning
    /\ \A o \in Signers \ {c} : signer[o] # NoSigning => signer[o].row.id \notin signer[c].drop
    /\ LET row == signer[c].row
       IN  \/ devices' = {d \in devices : /\ d.token # row.token
                                          /\ d.id \notin signer[c].drop} \cup {row}
           \/ UNCHANGED devices
    /\ signer' = [signer EXCEPT ![c] = NoSigning]
    /\ UNCHANGED <<stamp, branchCopy, uninstalled, workVars, trouble>>

\* DELETE /v1/me/devices/{id}: the caller's own, else not found.
RemoveDevice(user, d) ==
    /\ d \in Of(user) /\ Unlocked(d)
    /\ devices' = devices \ {d}
    /\ UNCHANGED <<phoneVars, workVars, trouble>>

\* The app is removed from a phone: its token is dead (a new install gets
\* another).
Uninstall(t) ==
    /\ t \in Phones \ uninstalled
    /\ Trouble
    /\ uninstalled' = uninstalled \cup {t}
    /\ UNCHANGED <<devices, stamp, signer, branchCopy, workVars>>

\* KeepBranch: an event of business, kept if it is newer.
KeepBranch(v) ==
    /\ branchCopy < v
    /\ branchCopy' = v
    /\ UNCHANGED <<devices, stamp, signer, uninstalled, workVars, trouble>>

-----------------------------------------------------------------------------
(***************************************************************************)
(* Notify.                                                                 *)
(***************************************************************************)
\* Whether there is something to tell.
CustomerNotice(n) ==
    \/ n.what = "booked" /\ n.status \in {"pending", "confirmed"}
    \/ n.what \in {"confirmed", "rejected", "expired"}
    \/ n.what = "cancelled" /\ n.by = "staff"

\* Mutant: a push that failed is left at that.
GoOnAnyway(w, e, todo, failed) ==
    /\ pusher' = [pusher EXCEPT ![w] =
          IF todo = {} THEN NoWork
                         ELSE [step |-> "push", event |-> e, todo |-> todo, failed |-> failed]]
    /\ told' = IF todo = {} THEN told \cup {e} ELSE told

\* The worker goes on with these devices; with none left the event is done, or
\* is left for the outbox's next attempt if a push failed.
GoOn(w, e, todo, failed) ==
    /\ pusher' = [pusher EXCEPT ![w] =
          IF todo = {} THEN NoWork
                         ELSE [step |-> "push", event |-> e, todo |-> todo, failed |-> failed]]
    /\ told' = IF todo = {} /\ ~ failed THEN told \cup {e} ELSE told

\* An event comes from the outbox: it is not done, and either nobody is at it
\* or a worker that is was taken to be dead.
Notify(w, e) ==
    /\ pusher[w] = NoWork
    /\ e \notin told
    /\ IF \E o \in Pushers : pusher[o] # NoWork /\ pusher[o].event = e
       THEN Trouble /\ Excuse(e) ELSE UNCHANGED <<trouble, excused>>
    /\ due' = IF due[e] # {0} THEN due
              ELSE [due EXCEPT ![e] = {d.id : d \in Of(Notices[e].customer)}]
    /\ LET n == Notices[e]
       IN  IF ~ CustomerNotice(n) \/ n.customer = WalkIn
           THEN GoOn(w, e, {}, FALSE)
           ELSE branchCopy > 0 /\ GoOn(w, e, Of(n.customer), FALSE)
    /\ UNCHANGED <<devices, phoneVars, deliveries, google, pushes>>

Recorded(e, id) == \E o \in {"sent", "rejected"} : <<e, id, o>> \in deliveries

\* Delivered: this event was pushed to this device, or refused for it.
Delivered(e, id) == Recorded(e, id)

Doing(w, step) == pusher[w] # NoWork /\ pusher[w].step = step

\* The worker's next device: the devices are listed newest first.
Dev(w) == CHOOSE d \in pusher[w].todo : \A x \in pusher[w].todo : x.at <= d.at

\* pushOnce is over for this device.
NextDevice(w, failed) ==
    GoOn(w, pusher[w].event, pusher[w].todo \ {Dev(w)}, pusher[w].failed \/ failed)

\* pushOnce: a device already reached is skipped; the others are sent to.
PushOnce(w) ==
    /\ Doing(w, "push")
    /\ IF Delivered(pusher[w].event, Dev(w).id)
       THEN NextDevice(w, FALSE)
       ELSE /\ pusher' = [pusher EXCEPT ![w] =
                  [step |-> "post", event |-> @.event, todo |-> @.todo, failed |-> @.failed,
                   n |-> 0, refreshed |-> FALSE, tries |-> 0, access |-> 0]]
            /\ UNCHANGED told
    /\ UNCHANGED <<devices, phoneVars, deliveries, google, pushes, due, excused, trouble>>

\* RecordDelivery: once, whatever was recorded first.
RecordDelivery(w, outcome) ==
    /\ Doing(w, outcome)
    /\ deliveries' = deliveries \cup
          (IF Recorded(pusher[w].event, Dev(w).id) THEN {}
           ELSE {<<pusher[w].event, Dev(w).id, outcome>>})
    /\ NextDevice(w, FALSE)
    /\ UNCHANGED <<devices, phoneVars, google, pushes, due, excused, trouble>>

\* ForgetDevice: the row with this id, whoever's it is; none is fine.
ForgetDevice(w) ==
    /\ Doing(w, "gone")
    /\ \A d \in devices : d.id = Dev(w).id => Unlocked(d)
    /\ devices' = {d \in devices : d.id # Dev(w).id}
    /\ NextDevice(w, FALSE)
    /\ UNCHANGED <<phoneVars, deliveries, google, pushes, due, excused, trouble>>

\* A query fails, or the push did: the next device is tried all the same.
PushFailed(w) ==
    /\ \/ Doing(w, "failed") /\ UNCHANGED trouble
       \/ \E s \in {"push", "sent", "rejected", "gone"} : Doing(w, s) /\ Trouble
    /\ IF Doing(w, "sent") THEN Excuse(pusher[w].event) ELSE UNCHANGED excused
    /\ NextDevice(w, TRUE)
    /\ UNCHANGED <<devices, phoneVars, deliveries, google, pushes, due>>

\* The worker dies.
PusherDies(w) ==
    /\ pusher[w] # NoWork
    /\ Trouble
    /\ IF Doing(w, "sent") THEN Excuse(pusher[w].event) ELSE UNCHANGED excused
    /\ pusher' = [pusher EXCEPT ![w] = NoWork]
    /\ UNCHANGED <<devices, phoneVars, deliveries, told, google, pushes, due>>

-----------------------------------------------------------------------------
(***************************************************************************)
(* FCM.Send: up to SendAttempts tries, and one more with a new token.      *)
(***************************************************************************)
Turn(w, step) == pusher' = [pusher EXCEPT ![w].step = step]

\* A try failed in a way that may pass: another one, or none.  A longer wait
\* than maxWait is left to the outbox.
TryAgain(w) ==
    LET p == pusher[w]
    IN  pusher' = [pusher EXCEPT ![w] =
            IF p.n + 1 < SendAttempts
            THEN [p EXCEPT !.step = "post", !.n = p.n + 1, !.access = 0]
            ELSE [p EXCEPT !.step = "failed"]]

\* accessTokens.get, under its lock: the cached token if there is one and it is
\* not about to expire, else a new one; Google may not give one.
GetToken(w) ==
    /\ Doing(w, "post") /\ pusher[w].access = 0
    /\ \/ /\ google.cached # 0
          /\ pusher' = [pusher EXCEPT ![w].access = google.cached, ![w].tries = @ + 1]
          /\ UNCHANGED <<google, trouble>>
       \/ /\ google.cached = 0
          /\ google' = [google EXCEPT !.cached = google.valid, !.fetches = @ + 1]
          /\ pusher' = [pusher EXCEPT ![w].access = google.valid, ![w].tries = @ + 1]
          /\ UNCHANGED trouble
       \/ /\ google.cached = 0
          /\ Trouble
          /\ TryAgain(w) \/ Turn(w, "failed")
          /\ UNCHANGED google
    /\ UNCHANGED <<devices, phoneVars, deliveries, told, pushes, due, excused>>

\* Mutant: whatever token is cached is dropped.
ForgetAny(token) == [google EXCEPT !.cached = 0]

\* accessTokens.forget: only the token that was refused.
Forget(token) == IF google.cached = token THEN [google EXCEPT !.cached = 0] ELSE google

\* Refused: a new token and another try at once, once.
Unauthorized(p) ==
    IF p.refreshed THEN [p EXCEPT !.step = "failed"]
    ELSE [p EXCEPT !.step = "post", !.access = 0, !.refreshed = TRUE]

Accepted(w) == [pushes EXCEPT ![<<pusher[w].event, Dev(w).id>>] = @ + 1]

\* What FCM makes of a push that reaches it.
Answer(w) ==
    \/ \* a phone it does not know
       /\ Dev(w).token \in uninstalled
       /\ Turn(w, "gone")
       /\ UNCHANGED <<google, pushes, excused, trouble>>
    \/ \* 200
       /\ Dev(w).token \notin uninstalled
       /\ Turn(w, "sent")
       /\ pushes' = Accepted(w)
       /\ UNCHANGED <<google, excused, trouble>>
    \/ \* 400
       /\ Trouble
       /\ Turn(w, "rejected")
       /\ UNCHANGED <<google, pushes, excused>>
    \/ \* 429 and 5xx, or 403: our setup is wrong
       /\ Trouble
       /\ TryAgain(w) \/ Turn(w, "failed")
       /\ UNCHANGED <<google, pushes, excused>>
    \/ \* accepted, but the answer is lost
       /\ Dev(w).token \notin uninstalled
       /\ Trouble
       /\ pushes' = Accepted(w) /\ Excuse(pusher[w].event)
       /\ TryAgain(w)
       /\ UNCHANGED google

\* post: one request.
Post(w) ==
    /\ Doing(w, "post") /\ pusher[w].access # 0
    /\ IF pusher[w].access = google.valid
       THEN Answer(w)
       ELSE /\ google' = Forget(pusher[w].access)
            /\ pusher' = [pusher EXCEPT ![w] = Unauthorized(@)]
            /\ UNCHANGED <<pushes, excused, trouble>>
    /\ UNCHANGED <<devices, phoneVars, deliveries, told, due>>

\* Google revokes the account's tokens, or the cached one comes within the
\* margin of its expiry.
GoogleChanges ==
    /\ Trouble
    /\ \/ google' = [google EXCEPT !.valid = @ + 1, !.changes = @ + 1]
       \/ google' = [google EXCEPT !.cached = 0, !.changes = @ + 1]
    /\ UNCHANGED <<devices, phoneVars, deliveries, told, pusher, pushes, due, excused>>

-----------------------------------------------------------------------------
\* With these phones registered, in this order, and this copy of the branch.
NtInitWith(rows, v) ==
    /\ devices = {[id |-> i, user |-> rows[i].user, token |-> rows[i].token, at |-> i] :
                     i \in DOMAIN rows}
    /\ stamp = Len(rows)
    /\ branchCopy = v
    /\ signer = [c \in Signers |-> NoSigning]
    /\ uninstalled = {} /\ deliveries = {} /\ told = {}
    /\ pusher = [w \in Pushers |-> NoWork]
    /\ google = [cached |-> 0, valid |-> 1, fetches |-> 0, changes |-> 0]
    /\ pushes = [k \in NoticeEvents \X Stamps |-> 0]
    /\ due = [e \in NoticeEvents |-> {0}]      \* {0}: not attempted yet
    /\ excused = [e \in NoticeEvents |-> 0]
    /\ trouble = 0

NtInit == NtInitWith(<<>>, 0)

\* What phones and their owners do.
PhonesNext ==
    \/ \E c \in Signers :
          \/ Registered(c)
          \/ \E u \in PushUsers, t \in Phones \cup BadTokens : RegisterDevice(c, u, t)
    \/ \E u \in PushUsers, d \in devices : RemoveDevice(u, d)
    \/ \E t \in Phones : Uninstall(t)

\* What the outbox's workers and Google do.
PushesNext ==
    \/ \E v \in 1 .. MaxBranchCopy : KeepBranch(v)
    \/ \E w \in Pushers :
          \/ \E e \in NoticeEvents : Notify(w, e)
          \/ PushOnce(w) \/ GetToken(w) \/ Post(w)
          \/ \E o \in {"sent", "rejected"} : RecordDelivery(w, o)
          \/ ForgetDevice(w) \/ PushFailed(w) \/ PusherDies(w)
    \/ GoogleChanges

NtNext == PhonesNext \/ PushesNext

NtSpec == NtInit /\ [][NtNext]_ntVars

-----------------------------------------------------------------------------
(***************************************************************************)
(* Properties.                                                             *)
(***************************************************************************)
\* What a customer should hear: what others did to their booking, and that they
\* booked; not what they did themselves, nor what comes after the visit.
ShouldHear(n) ==
    /\ n.customer # WalkIn
    /\ n.by # "customer"
    /\ n.what \notin {"completed", "no_show"}

\* An event is done only when every device its customer had, and still has, was
\* pushed to or refused; a push that failed keeps the event in the outbox.  And
\* nobody hears what is not for them.
DoneMeansTold ==
    \A e \in NoticeEvents :
        IF ShouldHear(Notices[e])
        THEN e \in told => \A d \in Of(Notices[e].customer) : d.id \in due[e] => Recorded(e, d.id)
        ELSE \A i \in Stamps : pushes[<<e, i>>] = 0

\* A device gets a second push of an event only for a cause: the answer was
\* lost, the worker died or failed before it recorded the first, or a worker
\* taken to be dead was not.  A retry for the sake of another device is none.
RepeatsExplained ==
    \A e \in NoticeEvents, i \in Stamps : pushes[<<e, i>>] <= 1 + excused[e]

\* Google is spared: one sign-in per token, although workers are refused at
\* different times and the first has already replaced the token; and at most
\* one try more than SendAttempts for a push.
GoogleIsSpared ==
    /\ google.fetches <= 1 + google.changes
    /\ \A w \in Pushers : Doing(w, "post") => pusher[w].tries <= SendAttempts + 1

\* "A user keeps at most 10 devices, and registering an 11th drops the oldest"
\* (ADR-0033).
KeepsNewestDevices ==
    \A u \in PushUsers : Cardinality(Of(u)) <= MaxDevicesPerUser

\* What does hold of it: registrations committing at once do not see each
\* other's device, so there may be as many more as there were others at it.
DevicesBounded ==
    \A u \in PushUsers : Cardinality(Of(u)) <= MaxDevicesPerUser + Cardinality(Signers) - 1

\* Every device that should hear of an event does, and hears of it again only
\* for a cause: a lost answer, a worker that died or could not record it, or one
\* taken to be dead that was not.
EveryoneToldOnce == DoneMeansTold /\ RepeatsExplained

\* What the module promises to keep small: the devices of a user, and the calls
\* to Google, for access tokens and for a push that keeps failing.
PushesStayCheap == GoogleIsSpared /\ DevicesBounded
=============================================================================
