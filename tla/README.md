# Barbershop backend: a TLA+ verification project

The backend books appointments at barbershops.  It is one Go program, started
as an API server or as a worker, over one Postgres database; its modules
(`internal/booking`, `scheduling`, `business`, `catalog`, `discovery`, `iam`,
`notification`, `billing`, `media`) own their tables and tell each other what
happened through an outbox (`internal/platform/outbox`, on the River job queue).

Everything that is hard about it happens between processes: requests that race
for one time, retries of requests that already committed, hours that change
under a booking, jobs that run twice, tokens presented twice.  None of that is
reached by a test that runs one request after another, and all of it is decided
by a few row locks, advisory locks, unique and exclusion constraints and
version checks.  This project models those decisions.

Paths below are relative to `src/`.

## 1. Inventory

| Component | State | Operations | Where it is hard |
|---|---|---|---|
| **booking: appointments** (`booking/domain`, `adapters/postgres/change.go`) | `booking.appointments`, one event per change | confirm, decline, cancel, complete, no-show, expire | two people and the expiry job on one row; a lifecycle that reads the clock |
| **booking: booking a slot** (`app/book.go`, `app/staff_book.go`, `adapters/postgres/book.go`) | appointments, `booking.idempotency_keys` | `Book`, `StaffBook`, replay | races for a time, retries, a limit per customer, hours re-read under a lock, a transaction with savepoints |
| **booking: expiry job** (`app/expire.go`) | due pending rows | `ExpireDue` in batches | clock read before the lock, `SKIP LOCKED`, overlapping runs, runs that die |
| **booking: availability** (`domain/availability.go`, `app/availability.go`) | none | `Slots`, `CanTake`, `freeAt`, `Query` | grid, buffers, days whose clock is put forward or back; what is offered must be bookable |
| **booking: connections** (`book.go`, `platform/database`) | semaphore, pool | `Book` takes a second connection | a pool waiting on itself |
| **scheduling** (`scheduling/...`) | calendars, schedules, date overrides, time off | versioned updates, working windows | pages read in several statements, first saves without a row to lock, one person at two branches; interval arithmetic on a circular week |
| **iam: sessions** (`iam/domain/session.go`, `app/sessions.go`) | sessions, refresh tokens | sign-in, rotate, logout, block | racing refreshes, lost answers, two transactions where one may not run |
| **iam: one-time codes** (`iam/app/*otp*.go`, `domain/otp*.go`) | codes, a guard per phone | request, verify | racing guesses, windows, lockouts, hourly limit |
| **platform: outbox** (`platform/outbox`) | River jobs | publish, fan out, deliver, snooze | at-least-once delivery, rolling releases |
| **discovery** (`discovery/...`) | copies of branches, services, hours | `Keep*`, three searches with cursors, the branch page | late, double and disordered deliveries; pages while copies change; ties |
| **business: onboarding** (`business/app/register.go`, `review.go`, `documents.go`) | businesses, verification documents | register, rename, upload, submit, approve, reject | racing registrations and claims, pages that are stale, an upload that outlives what allowed it |
| **media** (`media/app/app.go`, `adapters/disk`) | `media.objects`, files on disk | store, delete | two stores without a common transaction, failures, crashes and lost answers between them |
| **business: branches** (`business/app/branches.go`) | branches, their policies | add, edit, publish, unpublish | limits counted under a lock, of a plan read before it, statuses read before one, durations stored as minutes |
| **business: staff, invitations** (`business/app/staff.go`) | staff, invitations | invite, accept, revoke | seats and text limits under racing locks; plans and expiries read before they are used; locks that could wait in a circle |
| **billing** (`billing/...`) | subscriptions | start a trial, standing | a trial whose end is computed when read |
| **catalog** (`catalog/...`) | services, offerings | versioned updates, menu | menu read in two statements |
| **notification** (`notification/...`) | devices, deliveries, copies of branches, one access token to Google | register, notify, push | a crash between sending and recording, devices registered at once or moving, a token refused to several workers |
| **HTTP edge** (`platform/httpx`, `apigen`, `*/adapters/httpapi`) | a request under way | authenticate, validate, bind, decode, handle, reply | uploads that go around the validator, failures and panics after a reply began |
| **configuration, start-up** | limits, time-outs | read once | little that interleaves |

How they interact.  A booking reads the menu (catalog), the branch and its
policy (business) and the working windows (scheduling) before its transaction
and reads the windows again inside it, on a second connection, while it holds
the barber's advisory lock (`platform/database/locks.go`); schedule and time-off
changes take the same lock.  Every change of an appointment or a branch
publishes an event in its own transaction (`PublishTx`); a worker fans the event
out into one delivery job per subscriber; discovery and notification keep
copies, notification pushes.  Authentication is by short-lived access tokens
that nobody looks up, so ending a session works through its refresh token.

What makes each part correct: no barber has two active appointments at once,
one `Idempotency-Key` books once, nothing is half booked, an appointment is
entered only into hours its barber has, its lifecycle is followed and each step
published exactly once, everything due expires; a session has one usable token,
a spent token ends it and a revoked one stays revoked; a code works once and
guesses are bounded; no subscriber is skipped and copies never go back; a CR
number belongs to one business, an admin approves what they saw, and every
document can be opened; nobody works at two branches at once, what is offered
can be booked, staff and branches are added within the plan, pages show one state and lose no result,
nobody overwrites what they did not see, everyone is told once, and every
request is answered once.

## 2. Modules

| Module | Models | Extends / uses |
|---|---|---|
| `Appointment` | the lifecycle: statuses, guards, edges (`booking/domain`) | |
| `BookingLedger` | *abstract*: the ledger of appointments and keys | `Appointment` |
| `Booking` | requests, changes, expiry runs, changes of hours | `Appointment`; instance of `BookingLedger` |
| `MCBooking` | the scenes TLC plays: requests, policies, hours | `Booking` |
| `BookingProofs` | theorems about `Booking` | `Booking`, `TLAPS` |
| `ConnPool`, `ConnPoolProofs` | pool, semaphore and staff locks as resources | |
| `Sessions`, `SessionsProofs` | sign-in, refresh, logout, block | |
| `Otp` | one-time codes of one phone | |
| `Notification` | devices, pushes, the client of Google's push service | |
| `PhonesProofs` | theorems about codes and pushes | `Otp`, `Notification`, `TLAPS` |
| `Outbox` | events, jobs, workers, releases | |
| `Copies` | a saved branch and its copies, on top of the outbox | `Outbox` |
| `OutboxProofs` | theorems about events and copies | `Copies`, `TLAPS` |
| `MCQueues` | the outbox and the pool, for TLC | `Outbox`, `ConnPool` |
| `MCPhones` | sign-in, codes, pushes and copies, for TLC | `Sessions`, `Otp`, `Notification`, `Copies` |
| `Onboarding`, `OnboardingProofs` | registration, review, documents and their files | |
| `Hours` | pure: intervals, circular weeks, local dates, working windows | |
| `Availability` | pure: the grid, slots, offers, the rules for a start | `Hours` |
| `Questions` | questions to the two pure modules, and what their answers must be | `Availability` |
| `Access` | pure: roles and who may see which branch | |
| `Scheduling` | pages of hours and schedules, their saves, time off | `Hours`, `Access` |
| `Billing` | pure: plans, trials, limits | |
| `Staffing` | invitations, seats, trials that start and end | `Billing` |
| `Branches` | adding, editing, publishing branches | `Billing`, `Access` |
| `Catalog` | services, offerings, the menu | `Access` |
| `Discovery` | copies as customers see them: searches, branch pages | |
| `Api` | tables: what every operation binds, decodes, demands and replies | |
| `Http` | a request's way through the edge | `Api` |
| `MCStaffing` | one shop with one seat, for TLC | `Staffing` |
| `MCShop` | `Onboarding` and the modules from `Hours` to `Http`, for TLC | all of them |
| `BusinessProofs` | theorems about staff, seats and branches | `Staffing`, `Branches`, `TLAPS` |
| `ShopProofs` | theorems about weekly hours, scheduling, catalog, searches and the edge, and about the modules together | `MCShop`, and lemmas of `BusinessProofs` |

A definition whose comment starts with "Mutant:" is not part of a model.  It is
a wrong version of the definition after it, kept to show that a property notices
the mistake; `PROJECT.json` pairs each property with one.

### Booking

State.  `rows`, `keys` and `published` are the tables, committed rows only:
`booking.appointments`, `booking.idempotency_keys`, and what went into the
outbox.  `opening`, `sched` and `off` are scheduling's tables, as sets of time
units.  A request is `pc`, `cmd`, `seen` (the clock it read), `drafts` (barbers
it may still try), `locks` (the staff locks it holds) and `answer`; a request is its own
appointment ID.

Actions, in the order of the code: `Submit` (requester allowed, key looked up,
clock read), `Look` (menu, policy, windows and busy times read; `freeAt` orders
the barbers), `Refuse`, `ClaimKey` (insert of the key row, which waits for
another transaction's uncommitted one and then replays it), `Allow` (customer's
advisory lock, active bookings counted), `LockStaff`, `StillWorking` (windows
read again), `InsertRefused` (exclusion constraint, savepoint rolled back and with it
the barber's lock, next draft), `InsertAndCommit` (row, key, event, commit; the answer may be lost),
`Abort` (any failure before the commit).  Isolation is READ COMMITTED.  The key and the
customer's lock that a request holds are read off its `pc`.  The statements from the insert to the
commit touch only what its locks protect, so they are one step; a failure
between them is the `Abort` before it.

A change is `ChangeLock` (row `FOR UPDATE`, loaded), `ChangeDecide` (the callback: clock
read under the lock, guard) and `ChangeApply` (save with version check, event,
commit), or `ChangeGivesUp` before either.  Time may pass between any two of these.  So an
answer decided a moment before a booking's expiry may commit after it, and
confirm a booking that others have already taken for free; the exclusion
constraint still decides about the barber's time, and no doc says otherwise.
What the code does promise is `ExpiryIsFinal`: an answer that only waited for the
lock before the expiry is refused.
An expiry run is `ExpireStart` (clock), `ExpireLock` (batch, `SKIP LOCKED`),
`ExpireCommit` or `ExpireAbort`.  Hours change by `SetSchedule`, `AddTimeOff`,
`DeleteTimeOff`, `SetOpeningHours`, with exactly the locks the code takes.

Left out: prices, names, notes, reasons and texts; the menu, memberships and
policies are constants (a policy that changes during a request is read once, so
it is one of the policies a request might have seen).  Time is one line of whole
units; time zones and the clock grid are in `Hours` and `Availability`.

### BookingLedger

An appointment is entered together with the key that asked for it, at version 1
and in conflict with nobody; appointments move along lifecycle edges, one
version at a time.  `Booking` implements it with the identity mapping of
`rows` and `keys`: checked in run `booking`, proved for every instance in
`BookingProofs`.

### ConnPool

Each request holds connections as a function of its `pc`: a booking one from
`Begin`, two while it re-reads the hours; a change of hours one.  Bookings
first take one of `Half` slots (`max(1, MaxConns / 2)`).  `LockTimeout` is Postgres's
`lock_timeout`, set on every connection.

### Sessions

`Verify`/`Start` are the end of `verify_otp.go` (user checked in one
transaction, session started in another), `Present`, `RotateTx`, `LoadUser`,
`RevokeBlocked`, `RefreshFails` the steps of a refresh, `Logout`, `Block`.  The
clock of a refresh is read in `Present`, before the row lock, as in the code.
Clients are arbitrary: any token ever delivered may be presented again by
anyone, and an answer may never be delivered.  Tokens are names; hashing
and signing are assumed to work.

### Otp

One phone, `Callers` at once.  `Request`/`VerifyOTP` take the phone's advisory
lock, `AddCode`, `SendOTP`, `Settle`, `Refuse` and `Abort` are the rest of the two
handlers, with the guard (`otp_guard.go`) and the codes as read under the lock.
Guesses are any code ever delivered, or a wrong one.  `failedAt` keeps the instants of
the wrong ones, for the property that bounds them.

### Outbox and Copies

A job is River's row (external code, modelled from how `outbox.go` uses it):
`Fetch`, `Complete`, `Fails`, `Snooze`, `Drop`, and `Crash`/`Rescue` for a worker that
dies.  `PublishTx` writes down the subscribers its release knows; `FanOut` adds
those the worker's release knows.  `DeployApi` and `DeployWorker` roll a release
out one process at a time.  `Copies` adds a branch whose every save publishes
an event carrying its version, and subscribers that keep the newest version.

### Onboarding

`biz` is `business.businesses`, `docs` the verification documents, `branches` how many
branches a business has, `objects` and `stored` media's rows and files.  Every
change of a business is one transaction under its row lock, and so one action:
`Rename`, `Submit` (documents and branches counted under the lock, CR number claimed by
the partial unique index), `Approve`, `Reject`, `AddBranch`.  A registration is two
steps, so that others can come between counting and inserting
(`RegisterCount`, `RegisterInsert`, or `RegisterAbort`), under the owner's advisory lock.  A
`screen` is a client's page: `ReadBusiness`, then `ReadDocuments`, two statements; it sends
back the version it read.  An upload goes through `UploadRead`, `UploadCheck`, `PutFile`,
`AddRow`, `Attach`; what fails goes through `Cleanup`, or `DeleteRow` and `RemoveFile`, and
`Crash` may end it anywhere.  `LostAnswers` says whether a commit may take effect and
be reported as failed.

Left out: names, texts, reasons, dates, signed links; staff other than the owner
(an admin who works at the business may not decide either; the two modules are
not composed).  The status `suspended` is set by no operation.

### Hours, Availability, Questions

The algorithms as the code writes them: `NewWeeklyHours` with its comparison of
neighbours around the week, `normalize`, `intersect`, `subtract` and `clip` on
sorted lists, `At` and `DateOf` with a time zone whose offset changes at an
instant (`time.Date` and `Location` are external), `Slots` on the clock grid,
`offersFor`, `candidates`, `checkStart`, `freeAt`.  They are folds and not recursive.
`OnCircle` and `CircleOf`, the minutes of the circular week that an interval and a week
cover, are what the properties compare with.
`Questions` asks them: a state is a question with its inputs, and the
invariants compare the answers with sets of minutes on a circle, with sets of
instants, and with each other (a slot that `Query` offers is one that `Book`
would accept, and the other way round).  `checkTimezone` accepts any IANA zone.
`SteadyLocations` have a fixed offset, or a clock changed by day, put back at midnight, or put
forward at midnight in the east; `MidnightLocations` put it forward at midnight in the
west, where `time.Date` answers an instant of the day before.  The latter have a run of
their own, a violation (section 4), since `OfferedIsBookable` and `WindowsExact` are false there.

### Scheduling

A key is a page: a branch's hours, or a person's schedule at a branch.  `GetRow`,
`GetHours`, `GetOverrides` are the three statements of a page, `Put` the checks
before the transaction, `Lock` the person's advisory lock (schedules only),
`Load` the row `FOR UPDATE` with the version check and the hours elsewhere,
`Save` the rest.  `Put` keeps the hours as `NewWeeklyHours` sorted them.  Two first saves find no row to lock: the primary key
refuses the second.  `AddTimeOff` and `DeleteTimeOff` are single statements under
the same lock and an exclusion constraint.

### Staffing, Billing, Branches

`InviteAsk` and `CreateAsk` read the business's `Standing` before their transactions, and
keep it with the moment they read it (`standing`, `created`): its limits are used however
long the locks take.  `InviteLock` (business row locked, branches counted), `InviteCount`
(phone's advisory lock, history, limits, older invitations revoked), `InviteSeats`,
`InviteSave`; `AcceptLock` (invitation row, clock read), `AcceptSave`; `Revoke`.
`OnApproved` and `BrOnApproved` start the trial, once; `Standing` computes its end, so a plan
is the trial's, Free's, or what a business is set up with, by the clock.  `Branches` has
the count under the business's lock (`AddCount`), edits and status changes under versions,
`PublishStatus`, `PublishPerformers`, `PublishReadiness` as the reads before the
lock, and the policy as it is stored and read back (`toBranchRow`, `toBranch`).

### Catalog

`ListServices` and `ListOfferings` are the menu's two statements.  A save changes
details or offerings, never both, and publishes the service with its lowest
price (`Tells` are the events of a service).

### Notification

`RegisterDevice`/`Registered` are a registration's transaction, which moves a token
between users and trims the oldest; `Notify` goes through the devices it read, the
newest first (`todo` is the set that is left, `Dev` its newest):
`Delivered`, `GetToken`, `Post`, `Answer`, then `RecordDelivery`, `ForgetDevice` or
`PushFailed`, and `PusherDies` anywhere.  The access token is cached for all
workers; Google may revoke it (`GoogleChanges`), refuse, be slow, or answer into
nothing.  `MCPhones` starts from devices already registered where the subject is
the pushing.

### Discovery

Copies are versions of each branch, service and week, kept in any order.  A
search is one of three queries with a keyset cursor: `Found` are the branches after it,
`Rows` those with fewer than the limit ahead of them (ORDER BY and LIMIT), `LastRow` the
one the next cursor is made of.  A page is
two statements in one REPEATABLE READ transaction (`BranchPage`, `BranchMenu`).
Names, distances and scores are numbers: only their order counts.  Each branch has its
offset from the one clock (`WallClock`), by which "open now" is answered.

### Api, Http

`Api` holds, for each of the API's operations, the parameters its generated
wrapper binds, the body its strict handler decodes, the status its reply sends,
whether its handler demands a caller and an If-Match, and each module's table
from errors to statuses.  `PublicOperations` are those with `security: []` in
`api/openapi.yaml`; all others are protected.  `Http` takes a request through `NewRouter`, `BearerAuth`,
`Transfers`, `Validate` (external, from the options given to it), `CheckedUpload`, `Bind`,
`DecodeBody`, `Handle`, `Visit`, `Sending`, `ResponseError` and `Recover`.  A handler that
panics may do so with `http.ErrAbortHandler` (`aborts`), which `Recover` passes on: the
connection is cut and nothing is written.

## 3. Runs

| Run | Shows |
|---|---|
| `booking` | three scenes.  *race*: three requests for one time (a key raced, retried, reused; one customer under two keys; a named barber; a walk-in).  *hours*: schedules, time off and opening hours change under two requests.  *life*: one appointment, two changes, two expiry workers.  `NoDoubleBooking`, `OneBookingPerKey`, `AnswersHold` (a key's answer is its appointment's, nothing is half booked), `LimitRespected`, `InsideOwnHours`, `HistoryHolds` (rows and events tell one story), `LocksMeanSomething` (what is locked stays as loaded, and due), `ExpiryIsFinal` (what lapsed unanswered only expires), the refinement `LedgerSpec` |
| `answered` | liveness, in two scenes.  *locks*: three requests in transactions at once, both barbers to try in opposite orders, a key and a customer's lock contended: `RequestsAnswered`.  *due*: two bookings due at once, a batch of one, a change and a worker that may die: `DueExpires` |
| `opening` | *violation*: opening hours change without the lock: `InsideOpeningHours` |
| `queues` | a rolling release, two workers, a fault anywhere: `NoEventLost` (nobody skipped, nothing discarded without failing), `EveryoneHears` (liveness); three bookings, a change of hours, four connections: `BookingsLeaveRoom`, `EveryoneFinishes` (liveness) |
| `pool_full` | *violation*: `SecondConnectionThere` |
| `phones` | sessions: `OneUsableToken`, `AccessEndsSoon`, `RefusalsEndTheSession`, `RevokedIsFinal`; codes: `GuessingIsLimited`, `CodesAreWorthOneSignIn`; pushes: `EveryoneToldOnce`, `PushesStayCheap`; copies of a branch: `CopiesKeepUp` (they only go forward, and are current when all is quiet) |
| `devices` | *violation*: two phones of one user register at once: `KeepsNewestDevices` |
| `documents` | *violation*: the answer of the commit that attaches a document is lost: `DocumentsHaveFiles` |
| `files` | *violation*: the answer of the insert of a media row is lost: `RowsHaveFiles` |
| `shop` | pure functions: `HoursExact`, `OfferedIsBookable`; scheduling: `NobodyInTwoShops`; onboarding: `RegistrationsBounded`, `ApprovedAsSeen`, `FrozenUnderReview`, and with answers lost anywhere `DocumentsAreThere` (a document without its file is one whose upload was told of a failure after all) and `MissingFilesUnused` (so is a row without its file, and it is nobody's document); invitations: `InvitesBounded`; plans: `LimitsHold` (people and branches are added within the plan the request read); across modules: `ToldAsSet` (events and stored rows are what was set), `SavedAsSeen` (nothing overwritten unseen), `PagesAgree` (pages show one state); searches: `PagingMissesNothing`; HTTP: `EdgeIsSound` |
| `midnight` | *violation*: a clock put forward at midnight in the west: `OfferedIsBookable` |
| `seats` | *violation*: an invitation accepted as it lapses: `LastSeatTakenOnce` |

A run asks its questions of several scenes or modules.  Scenes are in `MCBooking`: each is played at
a branch of its own, with the policy that suits it.  `MCQueues`, `MCPhones` and `MCShop` hold modules that
share no state: a behaviour is about one of them (`focus`) and the others stand still, so their state
spaces add up and do not multiply.  A module that stands still in `MCQueues` has nothing left to do,
since fairness is assumed of both.

**Bounds.**  *Booking.*  A race for a time or a key needs two requests; the third is there
to come after them (a retry after a commit, a second barber).  Two barbers
make `freeAt` choose and a request fall back.  In *locks* a circle of waits would need two requests
that hold one barber's lock each and want the other's; the third request adds a key and a customer
to wait for, and makes the two see the barbers in opposite orders; a barber may take off the time
one of them is about to book.  A limit of one makes two requests of one customer race for the last
place.  The clock (`MaxTime`) moves once in *race*, so that a clock read early is stale, stands still in
*hours*, where what races are the hours, and in *life* runs past the pending expiry and the start of
the appointment.  In *due*, two due bookings and a batch of one leave one out.

*Queues.*  One event and one fault, a failure or a crash at any step, after which the job runs
again.  Faults and attempts are bounded (`MaxFaults`, `JobAttempts`) because otherwise nothing need
ever arrive.  Four connections are two bookings in flight with two each; the third booking and the change
of hours wait.

*Phones.*  Sessions run one tick past the life of a refresh token, codes through a failure window and
a lockout of two units each.  Two workers push two events to three devices, with two faults, and one
device over the limit can register (in `devices` two at once).  A branch is saved twice, with one fault,
within a day (`ObHorizon`): what a job's waiting adds is in `queues`.

*Shop.*  A week of three days of four minutes, in which a shift past midnight, past the week's end
and round the clock all occur, with zones whose clock is put forward or back; two requests everywhere;
pages of one result, over branches with equal names.  Onboarding has three casts: *registering*, two
businesses and an upload; *reviewing*, one business with two uploads and two pages; *losing*, one business with two
uploads, whose answers may be lost.  `MaxSaves` versions in all (a registration is the first of its
business) let one business be registered, submitted, rejected, changed and submitted again under a
stale page, or two be registered, submitted and one decided; three are enough where the files are
the subject.  One open registration per user and two documents per business put both limits
within reach.  The trial has one seat and one branch and Free has none, there is more to
add than either has room for, and the trial may begin and end between a request's read of its plan and its insert.
`seats` has one seat, `documents` and `files` one upload.

**Symmetry** is used only where no liveness is checked, over requests, changers,
expirers, callers and people; barbers are ordered by ID and are not symmetric.

**Deadlock** is not checked: in every run all requests, jobs and uploads may be finished, and the
clock at its bound.  That nobody waits for ever on the way there is what the liveness properties say.

**Fairness.**  `Booking`: every request's steps are weakly fair (the server runs
every handler, Postgres grants a lock once it is free); a change that holds a
lock goes on to decide and commit, or gives up; the expiry job is started every minute, so starting and locking are
weakly fair, as is ending, by commit or by death; the commit of a run that found
something is strongly fair: such a run may die, but not every one.  `WaitSpec` assumes this of both
scenes, and of the job's start where there is a job.
`ConnPool`: weak fairness for every request, `lock_timeout` included.  `Outbox`: a
queued job is fetched again and again (strong, since workers may be busy), a
worker that is running goes on, an abandoned job is rescued, and the roll-out of
a release ends (strong).  No fairness is assumed of crashes, clients or the clock.

## 4. Findings

1. **Opening hours are not under the lock** (`opening`).
   `docs/adr/0024-booking-an-appointment.md:35` says "hours can't be taken away
   between the check and the insert: one of them waits for the other".
   `Calendars.Update` (`internal/scheduling/adapters/postgres/repository.go:61`) takes
   only the calendar's row lock, so opening hours can.  For schedules and time off
   the sentence is true, and proved (`HoursCannotSlipAway`).
2. **The second connection is not always there** (`pool_full`).
   `internal/booking/adapters/postgres/book.go:70` says "at most half the pool books at
   once, so that connection is always there".  Half the pool is enough for
   bookings alone (proved, `HalfThePoolIsEnough`), but changes of hours take
   connections too and wait for the very lock the booking holds; then only
   `lock_timeout` frees one.  Everyone is still answered (`EveryoneFinishes` in `queues`).
3. **A document can lose its file** (`documents`).  `Upload`
   (`internal/business/app/documents.go:101`) discards the file when `Attach` returns an
   error, which it also does when the transaction committed and the answer was lost.
   `documents.go:30` calls the file one "that ended up unused" and `documents.go:135` says
   "nothing links to it"; here the business's document does, and there is no
   foreign key between the two modules' tables.  Every other document has its
   file, whatever fails or crashes (proved, `FilesBehindDocuments`).
4. **A media row can lose its bytes** (`files`).  `Store` (`internal/media/app/app.go:104`)
   deletes the bytes when `Add` returns an error, which it also does when the row was
   committed and the answer was lost.  `app.go:67` says "A crash in between leaves an
   unreferenced file, never a row pointing at nothing".  What it costs is bounded: such a
   row's uploader was told of a failure and no document points at it (proved,
   `MissingFilesAreUnused`; checked in `shop`).
5. **A user can keep more than ten devices** (`devices`).  `SaveDevice`
   (`internal/notification/adapters/postgres/store.go:44`) trims to the newest
   `MaxDevicesPerUser` without locking anything of the user's, so two registrations at once
   do not see each other's device.  `docs/adr/0033-notifications-devices-and-pushes.md:35` says "A
   user keeps at most 10 devices, and registering an 11th drops the oldest".  The excess is
   less than the registrations at once (part of `PushesStayCheap`, proved), and gone at the
   user's next one.
6. **Days without a midnight** (`midnight`).  `Day.Start`
   (`internal/booking/domain/day.go:37`) is 00:00 by `time.Date`, which in a zone west of
   Greenwich that puts its clock forward at midnight (America/Santiago, America/Havana) is
   23:00 of the day before.  The day's grid then starts an hour early and its own last
   hour is on the next day's page only.  `day.go:35` says "Start returns the first instant of
   the day in loc"; `availability.go:42` says `Slots` returns the start times "on day".  The
   default zone, Asia/Riyadh, does not change its clock, but `checkTimezone`
   (`internal/business/domain/branch.go:97`) accepts any.
7. **The last seat can be taken twice** (`seats`).  `Accept`
   (`internal/business/app/staff.go:190`) finds the invitation open at a moment read under its
   row lock and commits later, without the business's lock.  If the invitation lapses in
   between, an `Invite` no longer counts it and gives its seat away.
   `docs/adr/0019-outbox-delivery-and-billing-trial.md:64` says "Two requests at once can't both take
   the last place."  Nobody else gets past the plan (proved, `LimitsAreKept`).

## 5. Proofs

Checked by TLAPS for every value of the constants that satisfies the named
assumptions of the modules (`SizesAssumption`, `HoursAssumption`,
`CatalogAssumption`, `PolicyAssumption`, ...): sizes are naturals, the sets that are
counted (requests, barbers, businesses, branches, workers, registrations under way) are
finite, policies, keys and notices have their types, null values are not values, a
lockout is no shorter than the window of its failures and allows more than one.
The versions that `Discovery` is told of are positive and their prices not negative, as
the tables check (`migrations/00024_discovery_branch_services.sql:12,15`); names,
distances and scores are numbers because only their order counts.
`UnknownAssumption` is a fact about the tables of `Api` that TLC evaluates: the
prover cannot expand how the tables are put together.

Every invariant is proved the same way: an inductive strengthening, one step per
action, and a lemma that it means the property.

**`BookingProofs`.**  `TypeOK` is not inductive: a change saves the row it loaded
and a request takes the head of its drafts.  `TypeInv` adds that drafts are left
inside a transaction and what a change and a batch hold (`TypeCorrect`).  `RowInv`
adds who owns a row (`NewUntilDone`: rows appear at the commit, `RowExclusive`: a row
is held by one change or one run) and that pending rows have an expiry; from it
`LocksHold` proves `LocksMeanSomething`, both of its conjuncts: what is
locked stays as loaded, and due.  `NeverDoubleBooked` then needs only that a change
never turns an inactive row into an active one (`AllowedEdges`, `MoveFacts`) and that the
insert checks the exclusion constraint.  `KeyInv` ties keys, rows, claims and
answers together: a settled key knows its appointment and the appointment its
key, and one transaction at a time holds a key (`KeysBookOnce`).
`BookingKeepsTheLedger` maps initial states to initial states and every step to a
step of the ledger or a stutter.  `HoursKept` says that the hours a request
re-read stay, because whoever would take them waits for its lock
(`LockKeepsHours`): `HoursCannotSlipAway`.

`AskedInv` says that drafts and rows are what was asked for.  With it `HistoryInv`
(rows and events appear together, events tell the row's story, rows pass the
table's checks) is inductive: `HistoryIsTold`.  `BookedMeansRow`, that a request has a row
exactly when it was told so or the telling was lost, gives `AnswersAreTrue`.
`ClocksRead`, that nobody acts on a moment still to come, gives `ExpiredStaysExpired`: an
expiry run never comes early, and a booking that lapsed with nobody having decided about it
(`Lapsed`) is refused to everyone who reads the clock from then on.  A change that has
decided and not committed is the one exception, and its row is locked.  `LimitIsKept` needs `CustomerAlone` (the customer's lock) and `RoomLeft`: the
count a request made at an earlier moment still holds when it inserts, since others
cannot add, and time only takes bookings away.

**`SessionsProofs`.**  `Inv` adds to `TypeOK` that sign-ins and refreshes own fresh
tokens until they save them and that tokens belong to sessions that exist;
`OneTokenEndsTheChain` and `RevokedStaysRevoked` follow action by action.  For
`NoAccessLongAfter` the clock a refresh read before its lock matters: `RotatedInTime` says
that a refresh that rotated and is not yet answered had read it before its session
ended, however long ago, so the access token it signs expires in time.
`RefusedMeansEnded` needs that a refresh nobody has looked at yet has no answer
(`SentUnanswered`).

**`ConnPoolProofs`.**  At most `Half` bookings are in flight, and twice `Half` fits into
the pool (`HalfThePoolIsEnough`).

**`OnboardingProofs`.**  `Inv` adds to `TypeOK` what a page and an upload in progress
have: a business that exists (`ScreensShow`, `UploadsBelong`; `TypeCorrect`).
`SubmittedStaysSubmitted`, `CRClaimedOnce` and `ReviewHasWhatItNeeds` (what is under
review or approved has a document and a branch, `ReviewedComplete`) go over the few steps
that change a row (`BusinessStep`) or a document (`DocsStep`).  For
`AdminApprovesWhatWasSeen` the invariant is `PagesAreExact`: a page of a business under
review whose version is still the row's shows exactly its documents, because
documents change only while the business is editable and leaving that state
changes the version.  The two theorems about files hold whether answers are lost or not.
`MissingFilesAreUnused`: an upload that goes on has its bytes, one that
discards them after an insert was never given to a business, and only a lost answer
leaves a row behind (`UploadsInStep`).  `FilesBehindDocuments` adds that what is about to
be attached has its row, and that what is attached is discarded only for want of an answer
(`DocumentsInStep`).
`RegistrationsKeepTheLimit` carries `OneAtATime` (the owner's lock) and `PlaceKept`: whoever
counted and has not inserted still finds a place.

**`OutboxProofs`.**  `Inv` says of each job that its attempts are its failures, and the
one under way: a job is discarded for failures and nothing else, not for snoozes or
crashes of others.  `EveryFanReaches`: whoever is owed an event either travels with its
job or is known to every worker that may fan it out.  `EventsAreNotLost` assumes
`ReleasesOnlyAdd`, that no release takes a subscriber away; one that did would drop that
subscriber's deliveries, as `outbox.go` says it should.
`CopiesAreCurrent` proves `CopiesKeepUp` on top of it, under the same assumption.  A step of
`Copies` is a step of the outbox, so its invariants carry over (`DeliveryStep`); `CopiesInv` adds
that no copy is ahead of the branch (`Numbered`), that the events published are those of the
versions so far (`OnlyPublished`), and that what was handled was kept: its subscriber's copy is
of that version or a later one (`HandledIsKept`).  When nothing is under way (`Quiet`), whoever is owed the newest version has
a finished delivery of it, and so the copy.

**`PhonesProofs`.**  Codes: under the phone's lock the codes a call read are current
(`LockedIsCurrent`), so a code is used up before another call sees it: `CodesSignInOnce`.
`GuessesAreLimited` bounds the wrong guesses of any stretch as long as a window, although the
windows the guard counts are fixed by their first failure.  `Explains` relates the guard to the
whole history: what windows before the current one leave to a stretch that reaches
into it is at most `MaxFailures - 2`, since the one just before was given up unlocked and
a full one ended a lockout ago.  Pushes: `NtInv` has what each step of a push
owes and has (`CallsInv`: tries and token fetches, `RepeatInv`: a device gets at most one
push more than the deaths and failures that excuse it, `DoneInv`: what is not on
record is still in a worker's `todo`), and the device table's keys under registrations
that overlap (`TablesInv`, `Within`: whichever of them commit, the bound is exceeded by
fewer than there are registrations at once).  `PushesAreCheap` and `EveryDeviceIsTold` follow.

**`BusinessProofs`.**  `StInv` is behind everything about staff.  The limits alone
are not inductive: a request that counted and waits must still find room when it
inserts (`Turn`), because the business's, the phone's and the invitation's lock keep
apart those who could take it (`KeptApart`), and team rows come from accepted
invitations (`Joined`).  An invitation accepted on a clock read before it expired takes a seat
that may have been given away since; `late` names these people, and they are the only ones
beside the count.  `StReads` says what a request knows of the plan: the standing it has is
that of the moment it was read at, whatever billing heard since, so that its limits are
the trial's before the trial's end and Free's after it (`SeatsAreThePlans`); then an invitation
is inserted within them (`SeatsStep`).  The windows of texts are bounded although requests insert
with a clock read earlier, because `AllowInvite` counts later rows too
(`InvitesAreLimited`).  `InvitationsStayClosed` is an action property of the same steps.
`BrInv` has the branches: what a request read of its plan is so (`BrReads`), one request at a
time is between its count and its insert (`BrCounted`), the events of a branch are
its versions in order (`BrTold`), and policies are as written (`BrKept`); with it
`BranchesStep`.

**`ShopProofs`.**  *Weekly hours.*  Two intervals overlap, this week or with a copy a week
away, exactly when they share a minute of the circular week (`IntervalsShare`, from `SameMinute`
about remainders): `OverlapIsASharedMinute`.  In a sorted list in which each interval ends before the
next starts and the last before the first a week later, every two are apart
(`NeighboursAreEnough`), so `AcceptedExactly`: `NewWeeklyHours` accepts what it should and
nothing else.  That theorem has one hypothesis, that `ByWeekStart` returns its list
rearranged and sorted, which is Go's `slices.SortFunc` and which the prover cannot derive.
`ClockIsTheInterval` is about what pages show and forms send.

*Scheduling.*  `SchedInv`: what a page has is the row's if the version is the same
(`ClientFits`), the person's and the row's lock keep savers apart (`Apart`), and the hours
elsewhere read under the lock still are all there are (`ElsewhereIs`); then no two schedules of a
person overlap, and by `WeeksShare` no minute is in two of them (`OneShopAtATime`).

*Catalog.*  `CatInv` is the same for the menu's page.  `SoldInv` adds that the events of a
service are its versions, in order and each as it was saved, and that what a page read first
is one of them; a menu mixes two reads, but one save between them changes details or
offerings and never both, so what is shown is the version before or after
(`MenusAreVersions`).  `FromIsBookable`: the lowest price told is one that a performer charges.

*Discovery.*  `DiscInv`: copies are of versions there are, and a page's two statements see one
snapshot.  For searches, `Place` orders branches totally (`BeforeIsAnOrder`, `PlacesDiffer`), a page is an
initial piece of what was found and its last row has all others ahead of it
(`FirstRowsAreFirst`, `HasLastRow`); `PagesSplit` says that a branch that keeps its place is on this page
or after the new cursor and not both.  So `seen` is 1 for what is before the cursor and 0
after it, as long as the search goes on: `PagingIsComplete`.

*The edge.*  `WebInv` says where a request is in the edge and what has been sent
and read by then: `TheEdgeHolds`.

*Together.*  `LimitsAreKept` (`SeatsStep` and `BranchesStep`), `ToldWhatWasSet`, `NothingLostUnseen` and
`PagesTellTheTruth` combine the modules: their specifications are conjoined, they share
no state, so a step of one is a stutter of the others and every interleaving of
them is covered.

Only model-checked:

- liveness (`RequestsAnswered`, `DueExpires`, `EveryoneFinishes`, `EveryoneHears`): fairness
  and ENABLED are beyond the prover;
- `WindowsExact` (of `HoursExact`) and `OfferedIsBookable`: what `normalize`, `subtract`, `Slots`
  and the other folds, sorts and selections compute for every input needs induction over
  lists, which the prover cannot do.  They are compared with their meaning on all inputs
  within the bounds, at `SteadyLocations`; a clock put forward at midnight in the west is
  excluded from this, since there they are false (run `midnight`).  The other two parts of
  `HoursExact`, `HoursAcceptedExactly` and `OverlapIsShared`, are what `AcceptedExactly`,
  `ClockIsTheInterval` and `OverlapIsASharedMinute` state of every input, short of the sort.

## 6. Not modelled

- Text: names, reasons, notes, wording of messages, search normalisation,
  the fields of JSON bodies.  The control around them is modelled.
- Cryptography and byte formats: hashing, signing and verifying tokens and
  links, sniffing of uploads.  They are assumed to work.
- Reading the environment, wiring, logging, metrics.
- Reads of one statement that decide nothing (a user's own appointments, a
  branch's day, the review queue, memberships, the profile).
- Generated types and row scanning; `Api` has the rest of the generated code.
- A user blocked between the check in `verify_otp.go:103` and the start of
  the session gets one; by design (ADR-0014) it ends at its next refresh, so
  `AccessEndsSoon` speaks of sessions that existed when the user was blocked.
- The strength of row locks.  That `FOR NO KEY UPDATE` on a business lets an
  acceptance insert a row that references it is PostgreSQL's table of lock modes and not
  a behaviour of this code; whoever waits for the same row lock does wait in the model.
- That a published branch stays ready: `Publish` reads the readiness before it locks
  the branch (`business/app/branches.go:101`, "a gate, not a promise"), and performers and
  hours may be taken away at any time after.
- An admin who accepts an invitation while deciding (`review.go:171`):
  `Onboarding` and `Staffing` are not composed.

`PROJECT.json` lists every component with its status.

## 7. Plan

Done: booking with its expiry, connections and availability; scheduling; sessions,
codes, pushes; outbox, copies and search; onboarding, staff, branches, billing,
catalog; the HTTP edge.

Proved: every safety property of the runs but those listed at the end of section 5.

Left to do if the code grows: closures of a branch, which `WorkingWindows` has a parameter
for and no operation sets; composing `Onboarding` with `Staffing` for admins who join a business.
