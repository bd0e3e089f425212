------------------------------- MODULE Booking -------------------------------
(***************************************************************************)
(* The booking module at work: requests that look for a free barber and    *)
(* then book in one Postgres transaction, customers and staff that change  *)
(* appointments under a row lock, the expiry job, and the schedule changes *)
(* that race with all of them.                                             *)
(*                                                                         *)
(* Isolation is READ COMMITTED.  A request's transaction is its program    *)
(* counter from "claimed" to "working"; what it holds is read off the      *)
(* counter: its key from the claim on and its customer's advisory lock     *)
(* from the limit check on.  Staff locks are taken and given back draft by *)
(* draft, so they are state of their own.  The statements from the insert  *)
(* to the commit touch only what the locks already protect, so they are    *)
(* one step; a crash before the commit is an Abort from "working".         *)
(*                                                                         *)
(* Requests are their own appointment IDs: a request saves at most one.    *)
(***************************************************************************)
EXTENDS Appointment, Sequences, FiniteSets

CONSTANTS
    Procs,          \* booking requests (and the appointments they make)
    Changers,       \* changes to appointments: one attempt each
    Expirers,       \* workers that may run the expiry job
    Users, Branches, Keys,
    Barbers,        \* staff IDs, naturals: freeAt breaks ties by ID
    Selections,     \* sets of services a request may choose
    Duration,       \* Duration[sel][barber]; 0: the barber does not offer it
    Policy,         \* Policy[branch]: the branch's booking policy
    Member,         \* Member[user]: role, staff ID, branches
    Requests,       \* the commands requests may carry
    DayLen,         \* time units in a day
    MaxTime,        \* bound: the clock stops here
    ExpiryBatch,
    WalkInGrace,
    Openings,       \* opening hours a branch may set, as sets of time units
    Schedules,      \* working hours a barber may be given at a branch
    TimeOffs,       \* stretches of time off
    AnyBarber,      \* no barber named
    None            \* no row, no key, no appointment

VARIABLES
    now,
    opening,        \* opening[branch]
    sched,          \* sched[<<branch, barber>>]
    off,            \* off[barber]: stretches of time off
    rows,           \* booking.appointments
    keys,           \* booking.idempotency_keys: committed rows
    published,      \* published[a]: the status changes handed to the outbox
    pc, cmd,        \* a request's step and command
    seen,           \* attempt.Now: the moment the request read the clock
    drafts,         \* the barbers it has yet to try, in order
    locks,          \* the barbers whose staff lock its transaction holds
    answer,         \* what its caller got
    changes,        \* changes[c]: a change in progress, with the row it loaded
    expiring        \* expiring[e]: an expiry run, with the rows it locked

hours   == <<opening, sched, off>>
ledger  == <<rows, keys, published>>
request == <<pc, cmd, seen, drafts, locks, answer>>
vars    == <<now, hours, ledger, request, changes, expiring>>

Times == Nat
KeyIds == Users \X Keys
Places == Branches \X Barbers
Sources == {"customer_app", "staff"}
Events == (Statuses \cup {"none"}) \X Statuses

Row == [branch: Branches, barber: Barbers, customer: Users \cup {WalkIn},
        source: Sources, start: Nat, busyUntil: Nat, status: Statuses,
        pendingUntil: Int, cancellableUntil: Int,
        cancelledBy: {"nobody", "customer", "staff"}, version: Nat]

Command == [kind: Sources, requester: Users, key: Keys, branch: Branches,
            start: Nat, sel: Selections, barber: Barbers \cup {AnyBarber}]

\* requestHash and staffRequestHash: everything asked for but who asked and
\* under which key.  The staff hash is prefixed, so the two never meet.
Hash(c) == <<c.kind, c.branch, c.start, c.sel, c.barber>>

KeyRow == [hash: {Hash(r) : r \in Requests}, appt: Procs]

Codes == {"none", "forbidden", "refused", "invalid_start", "booked",
          "replayed", "reused", "unavailable", "too_many", "error", "lost"}

ASSUME SizesAssumption ==
    /\ DayLen \in Nat \ {0}
    /\ MaxTime \in Nat
    /\ ExpiryBatch \in Nat \ {0}
    /\ WalkInGrace \in Nat
    /\ Barbers \subseteq Nat
    /\ IsFiniteSet(Barbers)
    /\ IsFiniteSet(Procs)

ASSUME HoursAssumption ==
    /\ \A s \in Openings \cup Schedules \cup TimeOffs : s \subseteq Nat
    /\ Openings # {}
    /\ Schedules # {}

ASSUME CatalogAssumption ==
    /\ Duration \in [Selections -> [Barbers -> Nat]]
    /\ Policy \in [Branches ->
          [minLead: Nat, horizonDays: Nat, slotInterval: Nat \ {0},
           buffer: Nat, autoConfirm: BOOLEAN, pendingExpiry: Nat,
           cancellationWindow: Nat, maxActive: Nat]]
    /\ Member \in [Users -> [role: {"none", "barber", "manager", "owner"},
                             staff: Barbers \cup {None},
                             branches: SUBSET Branches]]
    /\ Requests \subseteq Command
    /\ \A r \in Requests : r.kind = "staff" => r.barber # AnyBarber

ASSUME NoneAssumption ==
    /\ None \notin Procs
    /\ None \notin Row
    /\ None \notin KeyRow
    /\ AnyBarber \notin Barbers
    /\ WalkIn \notin Users

-----------------------------------------------------------------------------
(***************************************************************************)
(* Locks and what a request reads.                                         *)
(***************************************************************************)
InTx(p) == pc[p] \in {"claimed", "allowed", "locked", "working"}

KeyOf(p) == <<cmd[p].requester, cmd[p].key>>

IsCustomer(p) == cmd[p].kind = "customer_app"

\* Mutant: the key is looked up, not claimed; nobody waits.
KeyClaimedByNobody(k) == FALSE

\* The uncommitted key row another transaction inserted: a claim waits for it.
KeyClaimed(k) == \E q \in Procs : InTx(q) /\ KeyOf(q) = k

\* Mutant: the limit is counted without the customer's lock.
CustomerLockedNever(u, br) == FALSE

\* LockCustomerAtBranch.
CustomerLocked(u, br) ==
    \E q \in Procs :
        /\ pc[q] \in {"allowed", "locked", "working"}
        /\ IsCustomer(q)
        /\ cmd[q].requester = u
        /\ cmd[q].branch = br

\* Mutant: nobody takes the staff lock.
StaffLockedNever(b) == FALSE

\* database.LockStaff.
StaffLocked(b) == \E q \in Procs : b \in locks[q]

\* A change has its row's lock from the load to the commit.
Holding(c) == changes[c].pc \in {"held", "decided"}

\* Mutant: the row is read without FOR UPDATE.
RowLockedNever(a) == FALSE

\* SELECT ... FOR UPDATE on an appointment.
RowLocked(a) ==
    \/ \E c \in Changers : Holding(c) /\ changes[c].appt = a
    \/ \E e \in Expirers : expiring[e].pc = "held" /\ a \in expiring[e].batch

\* A barber's own hours at a branch, and the windows booking may use there.
OwnHours(br, b) == sched[<<br, b>>] \ UNION off[b]

WorkingWindows(br, b) == opening[br] \cap OwnHours(br, b)

Span(r) == r.start .. (r.busyUntil - 1)

ActiveRows(b) ==
    {a \in Procs : rows[a] # None /\ rows[a].barber = b /\ IsActive(rows[a])}

\* What the request would save with barber b.
Draft(p, b) ==
    LET c == cmd[p]
    IN  Book([ branch   |-> c.branch,
               barber   |-> b,
               customer |-> IF IsCustomer(p) THEN c.requester ELSE WalkIn,
               source   |-> c.kind,
               start    |-> c.start,
               duration |-> Duration[c.sel][b] ],
             Policy[c.branch], seen[p])

CanTake(p, b) ==
    LET d == Draft(p, b)
    IN  /\ d.start < d.busyUntil
        /\ Span(d) \subseteq WorkingWindows(d.branch, b)
        /\ \A a \in ActiveRows(b) : ~ Overlaps(rows[a], d)

\* Minutes booked on start's day.  Active appointments of a barber do not
\* overlap, so their union has the sum of their lengths.
Load(b, start) ==
    LET day == start \div DayLen
    IN  Cardinality({t \in (day * DayLen) .. ((day + 1) * DayLen - 1) :
                        \E a \in ActiveRows(b) : t \in Span(rows[a])})

\* offersFor and stillThere, then the barber named, if any.
Offers(c) ==
    {b \in Barbers : Duration[c.sel][b] > 0 /\ c.barber \in {b, AnyBarber}}

\* freeAt: the orders of the free barbers by load, then by ID.
FreeAt(p) ==
    LET free == {b \in Offers(cmd[p]) : CanTake(p, b)}
        at   == cmd[p].start
        Less(b, c) == \/ Load(b, at) < Load(c, at)
                      \/ Load(b, at) = Load(c, at) /\ b < c
    IN  {s \in [1 .. Cardinality(free) -> free] :
            \A i, j \in DOMAIN s : i < j => Less(s[i], s[j])}

\* The booking horizon: the end of its last day, exclusive.
Latest(c, t) ==
    (t \div DayLen + Policy[c.branch].horizonDays + 1) * DayLen

CheckStart(c, t) ==
    /\ c.start % Policy[c.branch].slotInterval = 0
    /\ c.start >= t + Policy[c.branch].minLead
    /\ c.start < Latest(c, t)

CheckStaffStart(c, t) ==
    /\ c.start >= t - WalkInGrace
    /\ c.start < Latest(c, t)

WorksAt(u, br) == Member[u].role = "owner" \/ br \in Member[u].branches

MayBook(c) ==
    \/ c.kind = "customer_app"
    \/ /\ Member[c.requester].role # "none"
       /\ WorksAt(c.requester, c.branch)
       /\ Member[c.requester].role = "barber"
             => c.barber = Member[c.requester].staff

MayActOn(u, r) ==
    /\ WorksAt(u, r.branch)
    /\ Member[u].role = "barber" => r.barber = Member[u].staff

CountActive(u, br, t) ==
    Cardinality({a \in Procs : /\ rows[a] # None
                               /\ rows[a].customer = u
                               /\ rows[a].branch = br
                               /\ IsActive(rows[a])
                               /\ rows[a].start > t})

-----------------------------------------------------------------------------
(***************************************************************************)
(* A booking request.                                                      *)
(***************************************************************************)
NoAnswer == [code |-> "none", appt |-> None]

\* The request ends, and with it its transaction and every lock it held.
Answer(p, code, a) ==
    /\ pc' = [pc EXCEPT ![p] = "done"]
    /\ locks' = [locks EXCEPT ![p] = {}]
    /\ answer' = [answer EXCEPT ![p] = [code |-> code, appt |-> a]]

\* Mutant: the hash is not compared.
ReplayCodeAlways(c) == "replayed"

\* replay: what the key's committed row says to a request asking for c.
ReplayCode(c) ==
    IF keys[<<c.requester, c.key>>].hash = Hash(c) THEN "replayed" ELSE "reused"

ReplayAppt(c) ==
    IF ReplayCode(c) = "replayed" THEN keys[<<c.requester, c.key>>].appt
                                  ELSE None

\* The request arrives: who may ask, then whether the key has booked before.
Submit(p) ==
    /\ pc[p] = "idle"
    /\ \/ /\ ~ MayBook(cmd[p])
          /\ Answer(p, "forbidden", None)
       \/ /\ MayBook(cmd[p])
          /\ keys[KeyOf(p)] # None
          /\ Answer(p, ReplayCode(cmd[p]), ReplayAppt(cmd[p]))
       \/ /\ MayBook(cmd[p])
          /\ keys[KeyOf(p)] = None
          /\ pc' = [pc EXCEPT ![p] = "reading"]
          /\ UNCHANGED <<locks, answer>>
    /\ UNCHANGED <<now, hours, ledger, cmd, seen, drafts, changes, expiring>>

\* The reads before the transaction: the clock, the rules for the start, the
\* offers and who is free.  All of it may be stale when the transaction runs.
Look(p) ==
    /\ pc[p] = "reading"
    /\ seen' = [seen EXCEPT ![p] = now]
    /\ \/ /\ ~ IF IsCustomer(p) THEN CheckStart(cmd[p], now)
                                ELSE CheckStaffStart(cmd[p], now)
          /\ Answer(p, "invalid_start", None)
          /\ UNCHANGED drafts
       \/ /\ IF IsCustomer(p) THEN CheckStart(cmd[p], now)
                              ELSE CheckStaffStart(cmd[p], now)
          /\ cmd[p].barber # AnyBarber => Offers(cmd[p]) # {}
          /\ \E s \in FreeAt(p) : drafts' = [drafts EXCEPT ![p] = s]
          /\ pc' = [pc EXCEPT ![p] = "ready"]
          /\ UNCHANGED <<locks, answer>>
    /\ UNCHANGED <<now, hours, ledger, cmd, changes, expiring>>

\* A read refuses the request (the branch takes no bookings, a service or the
\* barber is gone: other modules' answers) or fails.
Refuse(p) ==
    /\ pc[p] = "reading"
    /\ Answer(p, "refused", None)
    /\ UNCHANGED <<now, hours, ledger, cmd, seen, drafts, changes, expiring>>

\* ClaimIdempotencyKey: waits for a transaction that holds the key.
ClaimKey(p) ==
    /\ pc[p] = "ready"
    /\ ~ KeyClaimed(KeyOf(p))
    /\ \/ /\ keys[KeyOf(p)] # None
          /\ Answer(p, ReplayCode(cmd[p]), ReplayAppt(cmd[p]))
       \/ /\ keys[KeyOf(p)] = None
          /\ drafts[p] = << >>
          /\ Answer(p, "unavailable", None)
       \/ /\ keys[KeyOf(p)] = None
          /\ drafts[p] # << >>
          /\ pc' = [pc EXCEPT ![p] = IF IsCustomer(p) THEN "claimed"
                                                      ELSE "allowed"]
          /\ UNCHANGED <<locks, answer>>
    /\ UNCHANGED <<now, hours, ledger, cmd, seen, drafts, changes, expiring>>

\* LockCustomerAtBranch, CountActiveBookings and attempt.Allow.
Allow(p) ==
    LET c == cmd[p]
        full == CountActive(c.requester, c.branch, seen[p])
                    >= Policy[c.branch].maxActive
    IN  /\ pc[p] = "claimed"
        /\ ~ CustomerLocked(c.requester, c.branch)
        /\ \/ full /\ Answer(p, "too_many", None)
           \/ /\ ~ full
              /\ pc' = [pc EXCEPT ![p] = "allowed"]
              /\ UNCHANGED <<locks, answer>>
        /\ UNCHANGED <<now, hours, ledger, cmd, seen, drafts, changes, expiring>>

\* try: the savepoint opens and locks the draft's barber.
LockStaff(p) ==
    /\ pc[p] = "allowed"
    /\ ~ StaffLocked(Head(drafts[p]))
    /\ pc' = [pc EXCEPT ![p] = "locked"]
    /\ locks' = [locks EXCEPT ![p] = @ \cup {Head(drafts[p])}]
    /\ UNCHANGED <<now, hours, ledger, cmd, seen, drafts, answer, changes, expiring>>

\* Mutant: the savepoint's lock is kept to the end of the transaction.
NextDraftKeepsLock(p) ==
    /\ drafts' = [drafts EXCEPT ![p] = Tail(@)]
    /\ \/ /\ Tail(drafts[p]) # << >>
          /\ pc' = [pc EXCEPT ![p] = "allowed"]
          /\ UNCHANGED <<locks, answer>>
       \/ /\ Tail(drafts[p]) = << >>
          /\ Answer(p, "unavailable", None)

\* The savepoint is rolled back, lock and all: the next draft, or nobody.
NextDraft(p) ==
    /\ drafts' = [drafts EXCEPT ![p] = Tail(@)]
    /\ \/ /\ Tail(drafts[p]) # << >>
          /\ pc' = [pc EXCEPT ![p] = "allowed"]
          /\ locks' = [locks EXCEPT ![p] = @ \ {Head(drafts[p])}]
          /\ UNCHANGED answer
       \/ /\ Tail(drafts[p]) = << >>
          /\ Answer(p, "unavailable", None)

\* stillWorking re-reads the barber's windows on another connection.
StillWorking(p) ==
    LET d == Draft(p, Head(drafts[p]))
        works == Span(d) \subseteq WorkingWindows(d.branch, d.barber)
    IN  /\ pc[p] = "locked"
        /\ \/ /\ works
              /\ pc' = [pc EXCEPT ![p] = "working"]
              /\ UNCHANGED <<drafts, locks, answer>>
           \/ ~ works /\ NextDraft(p)
        /\ UNCHANGED <<now, hours, ledger, cmd, seen, changes, expiring>>

\* Mutant: the constraint counts confirmed appointments only.
TakenByConfirmed(d) ==
    \E a \in Procs :
        rows[a] # None /\ rows[a].status = "confirmed" /\ Conflicts(rows[a], d)

\* What the exclusion constraint holds against saving d.
Taken(d) == \E a \in Procs : rows[a] # None /\ Conflicts(rows[a], d)

\* The insert is refused: someone was booked meanwhile.
InsertRefused(p) ==
    /\ pc[p] = "working"
    /\ Taken(Draft(p, Head(drafts[p])))
    /\ NextDraft(p)
    /\ UNCHANGED <<now, hours, ledger, cmd, seen, changes, expiring>>

\* The insert succeeds: the key is settled, the event published and the
\* transaction committed.  The caller may not hear of it.
InsertAndCommit(p) ==
    LET d == Draft(p, Head(drafts[p]))
    IN  /\ pc[p] = "working"
        /\ ~ Taken(d)
        /\ rows' = [rows EXCEPT ![p] = d]
        /\ keys' = [keys EXCEPT ![KeyOf(p)] =
                        [hash |-> Hash(cmd[p]), appt |-> p]]
        /\ published' = [published EXCEPT ![p] = Append(@, <<"none", d.status>>)]
        /\ \E code \in {"booked", "lost"} :
              Answer(p, code, IF code = "booked" THEN p ELSE None)
        /\ UNCHANGED <<now, hours, cmd, seen, drafts, changes, expiring>>

\* The transaction fails: a timeout, a lost connection, a crashed server.
Abort(p) ==
    /\ InTx(p)
    /\ Answer(p, "error", None)
    /\ UNCHANGED <<now, hours, ledger, cmd, seen, drafts, changes, expiring>>

-----------------------------------------------------------------------------
(***************************************************************************)
(* A change to an appointment: CancelMine and Act, over Store.change.      *)
(***************************************************************************)
StaffActs == {"confirm", "reject", "cancel_staff", "complete", "no_show"}

Change(step) == [pc |-> step, act |-> "none", user |-> None,
                 appt |-> None, row |-> None, at |-> 0]

NoChange == Change("idle")

\* The row is loaded under FOR UPDATE, which waits for another change.  A
\* customer finds only their own appointments, staff only their business's.
ChangeLock(c, u, act, a) ==
    /\ changes[c].pc = "idle"
    /\ rows[a] # None
    /\ \/ act = "cancel_customer" /\ rows[a].customer = u
       \/ act \in StaffActs /\ Member[u].role # "none"
    /\ ~ RowLocked(a)
    /\ changes' = [changes EXCEPT ![c] =
          [pc |-> "held", act |-> act, user |-> u, appt |-> a,
           row |-> rows[a], at |-> 0]]
    /\ UNCHANGED <<now, hours, ledger, request, expiring>>

\* May the change go ahead at this moment?
ChangeAllowed(c) ==
    LET x == changes[c]
    IN  /\ x.act \in StaffActs => MayActOn(x.user, x.row)
        /\ Allowed(x.act, x.row, now)

\* The callback: the clock is read once the row is locked, and the domain
\* applies the change to what was loaded.  Nothing is written yet.
ChangeDecide(c) ==
    /\ changes[c].pc = "held"
    /\ ChangeAllowed(c)
    /\ changes' = [changes EXCEPT ![c].pc = "decided", ![c].at = now]
    /\ UNCHANGED <<now, hours, ledger, request, expiring>>

\* save writes where the version is still the one loaded.
SaveFinds(a, loaded) == rows[a].version = loaded.version

\* What was decided is saved and its event published, in the transaction that
\* holds the row; it may commit well after the clock was read.
ChangeApply(c) ==
    LET x == changes[c]
        r == After(x.act, x.row)
    IN  /\ x.pc = "decided"
        /\ SaveFinds(x.appt, x.row)
        /\ rows' = [rows EXCEPT ![x.appt] = r]
        /\ published' = [published EXCEPT ![x.appt] =
                            Append(@, <<x.row.status, r.status>>)]
        /\ changes' = [changes EXCEPT ![c] = Change("done")]
        /\ UNCHANGED <<now, hours, keys, request, expiring>>

\* The domain refuses, the save finds another version, or the transaction
\* fails: nothing is written and the row is released.
ChangeGivesUp(c) ==
    /\ Holding(c)
    /\ changes' = [changes EXCEPT ![c] = Change("done")]
    /\ UNCHANGED <<now, hours, ledger, request, expiring>>

-----------------------------------------------------------------------------
(***************************************************************************)
(* The expiry job: Expirer.Run over Store.ExpireDue.                       *)
(***************************************************************************)
NoRun == [pc |-> "idle", at |-> 0, batch |-> {}]

\* The clock is read before the transaction begins.
ExpireStart(e) ==
    /\ expiring[e].pc = "idle"
    /\ expiring' = [expiring EXCEPT ![e] =
                       [pc |-> "started", at |-> now, batch |-> {}]]
    /\ UNCHANGED <<now, hours, ledger, request, changes>>

\* Mutant: only bookings that have not started yet are looked at.
DueUpcoming(at) ==
    {a \in Procs : /\ rows[a] # None
                   /\ rows[a].status = "pending"
                   /\ rows[a].pendingUntil <= at
                   /\ rows[a].start > at
                   /\ ~ RowLocked(a)}

\* What DuePendingForUpdate finds: due rows nobody holds.
Due(at) ==
    {a \in Procs : /\ rows[a] # None
                   /\ rows[a].status = "pending"
                   /\ rows[a].pendingUntil <= at
                   /\ ~ RowLocked(a)}

\* ORDER BY pending_until LIMIT: nothing left out is older than what is in.
OldestFirst(batch, due) ==
    /\ batch \subseteq due
    /\ Cardinality(batch) <= ExpiryBatch
    /\ batch # due => Cardinality(batch) = ExpiryBatch
    /\ \A a \in batch, b \in due \ batch :
          rows[a].pendingUntil <= rows[b].pendingUntil

ExpireLock(e) ==
    /\ expiring[e].pc = "started"
    /\ \E batch \in SUBSET Due(expiring[e].at) :
          /\ OldestFirst(batch, Due(expiring[e].at))
          /\ expiring' = [expiring EXCEPT ![e] =
                [pc |-> "held", at |-> expiring[e].at, batch |-> batch]]
    /\ UNCHANGED <<now, hours, ledger, request, changes>>

\* Every row of the batch still takes Expire, or none is written.
BatchExpires(e) ==
    \A a \in expiring[e].batch : Expire(rows[a], expiring[e].at)

\* All or nothing; a full batch means there may be more, and Run loops.
ExpireCommit(e) ==
    LET x == expiring[e]
    IN  /\ x.pc = "held"
        /\ BatchExpires(e)
        /\ rows' = [a \in Procs |->
              IF a \in x.batch THEN After("expire", rows[a]) ELSE rows[a]]
        /\ published' = [a \in Procs |->
              IF a \in x.batch
              THEN Append(published[a], <<rows[a].status, "expired">>)
              ELSE published[a]]
        /\ expiring' = [expiring EXCEPT ![e] =
              IF Cardinality(x.batch) < ExpiryBatch
              THEN NoRun
              ELSE [pc |-> "started", at |-> now, batch |-> {}]]
        /\ UNCHANGED <<now, hours, keys, request, changes>>

\* The worker dies or a statement fails: the next run starts afresh.
ExpireAbort(e) ==
    /\ expiring[e].pc = "held"
    /\ expiring' = [expiring EXCEPT ![e] = NoRun]
    /\ UNCHANGED <<now, hours, ledger, request, changes>>

-----------------------------------------------------------------------------
(***************************************************************************)
(* The hours booking depends on, changed by the scheduling module.         *)
(***************************************************************************)
\* Schedules.Update: under the person's lock.
SetSchedule(br, b, s) ==
    /\ ~ StaffLocked(b)
    /\ sched' = [sched EXCEPT ![<<br, b>>] = s]
    /\ UNCHANGED <<now, opening, off, ledger, request, changes, expiring>>

\* TimeOffs.Add: under the person's lock; time_off_no_overlap.
AddTimeOff(b, s) ==
    /\ ~ StaffLocked(b)
    /\ \A o \in off[b] : o \cap s = {}
    /\ off' = [off EXCEPT ![b] = @ \cup {s}]
    /\ UNCHANGED <<now, opening, sched, ledger, request, changes, expiring>>

\* TimeOffs.Delete: no lock, it only gives time back.
DeleteTimeOff(b, s) ==
    /\ s \in off[b]
    /\ off' = [off EXCEPT ![b] = @ \ {s}]
    /\ UNCHANGED <<now, opening, sched, ledger, request, changes, expiring>>

\* Calendars.Update: locks the calendar's row and no barber.
SetOpeningHours(br, s) ==
    /\ opening' = [opening EXCEPT ![br] = s]
    /\ UNCHANGED <<now, sched, off, ledger, request, changes, expiring>>

Tick ==
    /\ now < MaxTime
    /\ now' = now + 1
    /\ UNCHANGED <<hours, ledger, request, changes, expiring>>

-----------------------------------------------------------------------------
Init ==
    /\ now = 0
    /\ opening \in [Branches -> Openings]
    /\ sched \in [Places -> Schedules]
    /\ off = [b \in Barbers |-> {}]
    /\ rows = [p \in Procs |-> None]
    /\ keys = [k \in KeyIds |-> None]
    /\ published = [p \in Procs |-> << >>]
    /\ pc = [p \in Procs |-> "idle"]
    /\ cmd \in [Procs -> Requests]
    /\ seen = [p \in Procs |-> 0]
    /\ drafts = [p \in Procs |-> << >>]
    /\ locks = [p \in Procs |-> {}]
    /\ answer = [p \in Procs |-> NoAnswer]
    /\ changes = [c \in Changers |-> NoChange]
    /\ expiring = [e \in Expirers |-> NoRun]

\* What a request does by itself, failures apart.
Step(p) ==
    \/ Submit(p) \/ Look(p) \/ Refuse(p) \/ ClaimKey(p) \/ Allow(p)
    \/ LockStaff(p) \/ StillWorking(p) \/ InsertRefused(p) \/ InsertAndCommit(p)

ChangeStep(c) ==
    \/ \E u \in Users, act \in StaffActs \cup {"cancel_customer"}, a \in Procs :
          ChangeLock(c, u, act, a)
    \/ ChangeDecide(c)
    \/ ChangeApply(c)
    \/ ChangeGivesUp(c)

HoursChange ==
    \/ \E br \in Branches, b \in Barbers, s \in Schedules : SetSchedule(br, b, s)
    \/ \E b \in Barbers, s \in TimeOffs : AddTimeOff(b, s) \/ DeleteTimeOff(b, s)
    \/ \E br \in Branches, s \in Openings : SetOpeningHours(br, s)

Next ==
    \/ \E p \in Procs : Step(p) \/ Abort(p)
    \/ \E c \in Changers : ChangeStep(c)
    \/ \E e \in Expirers : ExpireStart(e) \/ ExpireLock(e) \/ ExpireCommit(e)
                              \/ ExpireAbort(e)
    \/ HoursChange
    \/ Tick

Spec == Init /\ [][Next]_vars

\* A request's own steps are not put off for ever: the server runs every
\* handler, and a lock is granted once its holder is gone.
RequestFairness ==
    /\ \A p \in Procs : WF_vars(Step(p))
    /\ \A c \in Changers : WF_vars(ChangeDecide(c) \/ ChangeApply(c) \/ ChangeGivesUp(c))

\* Workers run the expiry job every minute, a run ends one way or the other, and
\* not every run that found something dies half way.
ExpiryFairness(e) ==
    /\ WF_vars(ExpireStart(e))
    /\ WF_vars(ExpireLock(e))
    /\ WF_vars(ExpireCommit(e) \/ ExpireAbort(e))
    /\ SF_vars(ExpireCommit(e) /\ expiring[e].batch # {})

Fairness == RequestFairness /\ \A e \in Expirers : ExpiryFairness(e)

FairSpec == Spec /\ Fairness

-----------------------------------------------------------------------------
(***************************************************************************)
(* Properties.                                                             *)
(***************************************************************************)
\* Every variable holds what the tables and the request's locals can hold.
TypeOK ==
    /\ now \in Nat
    /\ opening \in [Branches -> Openings]
    /\ sched \in [Places -> Schedules]
    /\ off \in [Barbers -> SUBSET TimeOffs]
    /\ rows \in [Procs -> Row \cup {None}]
    /\ keys \in [KeyIds -> KeyRow \cup {None}]
    /\ published \in [Procs -> Seq(Events)]
    /\ pc \in [Procs -> {"idle", "reading", "ready", "claimed", "allowed",
                         "locked", "working", "done"}]
    /\ cmd \in [Procs -> Requests]
    /\ seen \in [Procs -> Nat]
    /\ drafts \in [Procs -> Seq(Barbers)]
    /\ locks \in [Procs -> SUBSET Barbers]
    /\ answer \in [Procs -> [code: Codes, appt: Procs \cup {None}]]
    /\ changes \in [Changers -> [pc: {"idle", "held", "decided", "done"},
                                 act: Actions \cup {"none"},
                                 user: Users \cup {None},
                                 appt: Procs \cup {None},
                                 row: Row \cup {None},
                                 at: Nat]]
    /\ expiring \in [Expirers -> [pc: {"idle", "started", "held"},
                                  at: Nat, batch: SUBSET Procs]]

\* A barber never has two active appointments at once, however many requests
\* race and whatever is cancelled or expires meanwhile (ADR-0008).
NoDoubleBooking ==
    \A a, b \in Procs :
        a # b /\ rows[a] # None /\ rows[b] # None => ~ Conflicts(rows[a], rows[b])

\* Requests under one Idempotency-Key make one appointment between them, and
\* whoever of them is told of an appointment is told of that one: racing
\* retries, a commit whose answer was lost and a failed first try included.
OneBookingPerKey ==
    \A p, q \in Procs :
        KeyOf(p) = KeyOf(q) =>
            /\ rows[p] # None /\ rows[q] # None => p = q
            /\ rows[p] # None /\ answer[q].appt # None => answer[q].appt = p

\* A replay answers the question asked: the appointment it returns was booked
\* by the same requester for the same branch, start, services and barber; a
\* key reused for something else never gets one.
ReplayIsFaithful ==
    \A p \in Procs :
        answer[p].appt # None =>
            LET a == answer[p].appt
            IN  /\ rows[a] # None
                /\ KeyOf(a) = KeyOf(p)
                /\ Hash(cmd[a]) = Hash(cmd[p])
                /\ rows[a].branch = cmd[p].branch
                /\ rows[a].start = cmd[p].start
                /\ rows[a].barber = cmd[p].barber \/ cmd[p].barber = AnyBarber

\* All or nothing: a request that was refused or failed left no appointment,
\* no settled key and no event; one that committed left all three.
NoHalfBooking ==
    \A p \in Procs :
        IF answer[p].code \in {"booked", "lost"}
        THEN /\ rows[p] # None
             /\ keys[KeyOf(p)] # None
             /\ keys[KeyOf(p)].appt = p
             /\ published[p] # << >>
        ELSE /\ rows[p] = None
             /\ published[p] = << >>
             /\ keys[KeyOf(p)] # None => keys[KeyOf(p)].appt # p

\* A customer never has more upcoming active bookings at a branch than its
\* policy allows, even when two requests race for the last place.
LimitRespected ==
    \A u \in Users, br \in Branches :
        CountActive(u, br, now) <= Policy[br].maxActive

\* The constraints of migration 00017: pending rows and no others have an
\* expiry, cancelled rows and no others say who cancelled.
RowsPassChecks ==
    \A a \in Procs : rows[a] # None =>
        /\ rows[a].status = "pending" <=> rows[a].pendingUntil # NoTime
        /\ rows[a].status = "cancelled" <=> rows[a].cancelledBy # "nobody"
        /\ rows[a].start < rows[a].busyUntil

\* The row a change loaded is the row it will overwrite: the save can never
\* find that it "changed meanwhile, despite the lock".
LockedRowIsCurrent ==
    \A c \in Changers :
        Holding(c) => changes[c].row = rows[changes[c].appt]

\* Whatever the expiry job has locked it can still expire, although it read
\* the clock before the lock: one row never fails the whole batch.
LockedBatchExpires ==
    \A e \in Expirers :
        expiring[e].pc = "held" =>
            \A a \in expiring[e].batch :
                rows[a] # None /\ Expire(rows[a], expiring[e].at)

\* The outbox tells an appointment's whole story: its events start with the
\* booking, each continues where the last one ended, the last is the row's
\* status, and there are as many as the row has versions.
EventsTellTheStory ==
    \A a \in Procs : rows[a] # None =>
        LET es == published[a]
        IN  /\ Len(es) = rows[a].version
            /\ es[1][1] = "none"
            /\ es[Len(es)][2] = rows[a].status
            /\ \A i \in 1 .. (Len(es) - 1) : es[i + 1][1] = es[i][2]

\* An appointment is only ever entered into hours its barber has at the branch
\* at that moment: their schedule without their time off, however late those
\* were changed (LockStaff: "a booking can't slip into hours that are being
\* taken away at the same moment").
InsideOwnHours ==
    [][\A p \in Procs :
          rows[p] = None /\ rows'[p] # None =>
              Span(rows'[p]) \subseteq OwnHours(rows'[p].branch, rows'[p].barber)]_vars

\* The same for the branch's opening hours, which are part of the windows the
\* booking checked ("hours can't be taken away between the check and the
\* insert", ADR-0024).
InsideOpeningHours ==
    [][\A p \in Procs :
          rows[p] = None /\ rows'[p] # None =>
              Span(rows'[p]) \subseteq opening[rows'[p].branch]]_vars

\* A pending booking whose expiry has passed, and that nobody decided about in
\* time: a change that read the clock before the expiry may still commit.
Lapsed(a) ==
    /\ rows[a] # None
    /\ Expire(rows[a], now)
    /\ \A c \in Changers :
          changes[c].pc = "decided" => changes[c].appt # a

\* Once a pending booking has lapsed it is never answered: the only thing that
\* still happens to it is that it expires.  An answer in progress counts if it
\* was decided, under the row's lock, before the expiry, however late it is
\* committed; one that only held the lock then is refused.  And no booking
\* expires a moment too soon.
ExpiryIsFinal ==
    [][\A a \in Procs :
          /\ Lapsed(a) => Lapsed(a)' \/ rows'[a] = After("expire", rows[a])
          /\ rows[a] # None /\ rows'[a] # rows[a] /\ rows'[a].status = "expired"
                => Expire(rows[a], now)]_vars

\* Booking keeps the ledger's promise.
Ledger == INSTANCE BookingLedger WITH Appts <- Procs

LedgerSpec == Ledger!Spec

\* Every request gets its answer, without anyone having to time out: the key,
\* customer and staff locks are never waited for in a circle, although two
\* requests may try the same barbers in opposite orders.
RequestsAnswered == <>(\A p \in Procs : pc[p] = "done")

\* What is due is dealt with: a pending booking past its expiry does not stay
\* pending, however often it was skipped, left out of a full batch or lost with
\* a run that died.  Unless it was answered in time, all it can become by then
\* is expired (ExpiryIsFinal).
DueExpires ==
    \A a \in Procs :
        (rows[a] # None /\ Expire(rows[a], now))
            ~> (rows[a] # None /\ rows[a].status # "pending")

\* What a caller was told holds: an answer to a retried key is the booking it
\* made, and no booking is there in part.
AnswersHold == ReplayIsFaithful /\ NoHalfBooking

\* The rows keep the table's checks and the events beside them tell how each
\* got where it is, whoever changes them at once.
HistoryHolds == EventsTellTheStory /\ RowsPassChecks

\* What a transaction read under a row lock is still so when it writes: the
\* appointment a change decided on, and the batch the expiry job took.
LocksMeanSomething == LockedRowIsCurrent /\ LockedBatchExpires
=============================================================================
