----------------------------- MODULE Scheduling -----------------------------
(***************************************************************************)
(* The scheduling module at work: pages of opening hours and of barbers'   *)
(* schedules are read in several statements, changed under a version check *)
(* (If-Match) and saved in a transaction; time off is added and deleted.   *)
(*                                                                         *)
(* A key names what a page is about: <<"hours", branch, None>> or          *)
(* <<"schedule", branch, staff>>.  A record never saved has version 0.     *)
(* Isolation is READ COMMITTED.  A transaction is a client's pc from       *)
(* "locked" (the staff lock, for schedules) over "held" (the row read FOR  *)
(* UPDATE) to the commit; the statements that write touch only what the    *)
(* locks protect, so they and the commit are one step.                     *)
(***************************************************************************)
EXTENDS Hours, Access

CONSTANTS
    SchedClients,       \* people with a scheduling page open
    SchedUser,          \* SchedUser[client]: the user signed in
    SchedStaff,         \* the staff of the business
    SchedBranches,      \* the branches of the business
    SchedKeys,          \* the pages clients may open
    WeekChoices,        \* weekly hours a client may send
    OverrideChoices,    \* date overrides a client may send
    OffChoices,         \* time off a client may ask for: <<staff, span>>
    MaxVersion,         \* bound: no page is changed more often
    NoStaff             \* opening hours are about no one

ASSUME SchedAssumption ==
    /\ MaxVersion \in Nat
    /\ \A k \in SchedKeys : \/ k \in {"hours"} \X SchedBranches \X {NoStaff}
                            \/ k \in {"schedule"} \X SchedBranches \X {m.id : m \in SchedStaff}

VARIABLES
    calendars,             \* calendars[key]: the row and its hours
    timeOff,            \* timeOff[staff]: spans
    hoursEvents,        \* the OpeningHoursChanged events handed to the outbox
    clients             \* clients[c]: the page a client has and its request

schedVars == <<calendars, timeOff, hoursEvents, clients>>

Empty == [weekly |-> << >>, overrides |-> << >>]

\* NewBranchCalendar, NewBarberSchedule: never set, works no hours.
NeverSaved == [version |-> 0, content |-> Empty]

NoClient == [pc |-> "idle", key |-> <<"none", NoStaff, NoStaff>>, page |-> NeverSaved,
             put |-> Empty, elsewhere |-> {}]

IsHours(key) == key[1] = "hours"

Me(c) == MemberOf(SchedStaff, SchedUser[c])

Step(c, pc) == clients' = [clients EXCEPT ![c].pc = pc]

\* The request is over, answered or refused; the client forgets its page.
Done(c) == clients' = [clients EXCEPT ![c] = NoClient]

-----------------------------------------------------------------------------
(***************************************************************************)
(* Who may do what.                                                        *)
(***************************************************************************)
\* canRead: the caller works at the branch, and so does the person.
canRead(c, key) ==
    LET branch == AuthorizeBranch(Me(c), "barber", SchedBranches, key[2])
        target == StaffMember(SchedStaff, key[3])
    IN  CASE branch # "none" -> branch
          [] target = NoMember \/ ~ WorksAt(target, key[2]) -> "not_found"
          [] OTHER -> "none"

\* canWrite: and the caller is the person, or manages the branch.
canWrite(c, key) ==
    CASE canRead(c, key) # "none" -> canRead(c, key)
      [] Me(c).id = key[3] -> "none"
      [] OTHER -> AuthorizeBranch(Me(c), "manager", SchedBranches, key[2])

\* canManageTimeOff: the person, the owner, or a manager of one of their
\* branches.
canManageTimeOff(c, id) ==
    LET target == StaffMember(SchedStaff, id)
    IN  CASE Me(c) = NoMember \/ target = NoMember -> "not_found"
          [] Me(c).id = id \/ Me(c).role = "owner" -> "none"
          [] Me(c).role = "manager" /\ \E b \in target.branches : WorksAt(Me(c), b) -> "none"
          [] OTHER -> "forbidden"

\* CalendarHandlers.OpeningHours and ScheduleHandlers.Schedule.
MayRead(c, key) ==
    IF IsHours(key) THEN AuthorizeBranch(Me(c), "barber", SchedBranches, key[2])
                    ELSE canRead(c, key)

\* CalendarHandlers.SetOpeningHours and ScheduleHandlers.SetSchedule.
MayWrite(c, key) ==
    IF IsHours(key) THEN AuthorizeBranch(Me(c), "manager", SchedBranches, key[2])
                    ELSE canWrite(c, key)

-----------------------------------------------------------------------------
(***************************************************************************)
(* GET: Calendars.Get and Schedules.Get, a statement a step.               *)
(***************************************************************************)
\* The row: no row is an empty page at version 0.
GetRow(c, key) ==
    /\ clients[c].pc = "idle"
    /\ MayRead(c, key) = "none"
    /\ clients' = [clients EXCEPT ![c] =
          [NoClient EXCEPT !.key = key, !.page.version = calendars[key].version,
                           !.pc = IF calendars[key].version = 0 THEN "page" ELSE "row"]]
    /\ UNCHANGED <<calendars, timeOff, hoursEvents>>

\* loadCalendar's and loadSchedule's weekly hours, as they are by now.
GetHours(c) ==
    /\ clients[c].pc = "row"
    /\ clients' = [clients EXCEPT
          ![c].page.content.weekly = calendars[clients[c].key].content.weekly,
          ![c].pc = IF IsHours(clients[c].key) THEN "page" ELSE "hours"]
    /\ UNCHANGED <<calendars, timeOff, hoursEvents>>

\* loadSchedule's overrides.
GetOverrides(c) ==
    /\ clients[c].pc = "hours"
    /\ clients' = [clients EXCEPT
          ![c].page.content.overrides = calendars[clients[c].key].content.overrides,
          ![c].pc = "page"]
    /\ UNCHANGED <<calendars, timeOff, hoursEvents>>

-----------------------------------------------------------------------------
(***************************************************************************)
(* PUT: the page's version as If-Match.                                    *)
(***************************************************************************)
\* SetOpeningHours' and SetBarberSchedule's checks before the transaction;
\* hours is what NewWeeklyHours made of the weekly hours sent.
PutError(c, hours) ==
    LET key == clients[c].key
    IN  CASE MayWrite(c, key) # "none" -> MayWrite(c, key)
          [] OTHER -> hours.err

Put(c) ==
    /\ clients[c].pc = "page"
    /\ clients[c].page.version < MaxVersion
    /\ \E w \in WeekChoices, o \in OverrideChoices :
          LET hours == NewWeeklyHours(w)
              put   == [weekly |-> hours.hours, overrides |-> o]
              err   == PutError(c, hours)
          IN  /\ IsHours(clients[c].key) => o = << >>
              /\ \/ err # "none" /\ Done(c)
                 \/ /\ err = "none"
                    /\ clients' = [clients EXCEPT ![c].put = put, ![c].pc = "asked"]
    /\ UNCHANGED <<calendars, timeOff, hoursEvents>>

\* Mutant: nobody takes the person's lock.
PersonLockedNever(id) == FALSE

\* database.LockStaff: held by the transactions that change a person's hours.
PersonLocked(id) ==
    \E c \in SchedClients : /\ clients[c].pc \in {"locked", "held"}
                            /\ clients[c].key[3] = id

\* The row another transaction read FOR UPDATE; a row that is not there
\* cannot be locked.
RowHeld(key) ==
    \E c \in SchedClients : /\ clients[c].pc = "held"
                            /\ clients[c].key = key
                            /\ clients[c].page.version > 0

\* Schedules.Update begins with the person's lock; calendars have none.
Lock(c) ==
    /\ clients[c].pc = "asked"
    /\ ~ IsHours(clients[c].key) => ~ PersonLocked(clients[c].key[3])
    /\ Step(c, "locked")
    /\ UNCHANGED <<calendars, timeOff, hoursEvents>>

\* hoursElsewhere: the person's weekly hours at other branches.
hoursElsewhere(key) ==
    {calendars[k].content.weekly :
        k \in {x \in SchedKeys : /\ ~ IsHours(x)
                                 /\ x[3] = key[3]
                                 /\ x[2] # key[2]
                                 /\ ~ IsClosed(calendars[x].content.weekly)}}

VersionIs(key, expected) == calendars[key].version = expected

\* CalendarForUpdate and ScheduleForUpdate, and the version check.
Load(c) ==
    LET key == clients[c].key
    IN  /\ clients[c].pc = "locked"
        /\ ~ RowHeld(key)
        /\ \/ /\ ~ VersionIs(key, clients[c].page.version)
              /\ Done(c)
           \/ /\ VersionIs(key, clients[c].page.version)
              /\ clients' = [clients EXCEPT ![c].pc = "held",
                     ![c].elsewhere = IF IsHours(key) THEN {} ELSE hoursElsewhere(key)]
        /\ UNCHANGED <<calendars, timeOff, hoursEvents>>

\* Mutant: a first save that finds a row writes over it.
InsertConflictNever(key, expected) == FALSE

\* The primary key refuses the second of two first saves.
InsertConflict(key, expected) == expected = 0 /\ calendars[key].version > 0

\* BarberSchedule.Set's refusals, under the lock.
SaveError(c) ==
    LET key == clients[c].key
    IN  CASE /\ ~ IsHours(key)
             /\ SetError(clients[c].put.weekly, clients[c].put.overrides,
                         clients[c].elsewhere) # "none" -> "invalid"
          [] InsertConflict(key, clients[c].page.version) -> "version_conflict"
          [] OTHER -> "none"

\* saveHours, saveSchedule: the row's version and all of its hours.
Saved(c) ==
    [version |-> clients[c].page.version + 1, content |-> clients[c].put]

\* publish: only calendars tell other modules.
HoursEvent(c) ==
    [branch |-> clients[c].key[2], version |-> Saved(c).version,
     hours |-> Saved(c).content.weekly]

Save(c) ==
    /\ clients[c].pc = "held"
    /\ \/ /\ SaveError(c) # "none"
          /\ UNCHANGED <<calendars, hoursEvents>>
       \/ /\ SaveError(c) = "none"
          /\ calendars' = [calendars EXCEPT ![clients[c].key] = Saved(c)]
          /\ hoursEvents' = IF IsHours(clients[c].key)
                            THEN Append(hoursEvents, HoursEvent(c)) ELSE hoursEvents
    /\ Done(c)
    /\ UNCHANGED timeOff

\* The client leaves its page, or the connection breaks: nothing was saved.
SchedAbort(c) ==
    /\ clients[c].pc # "idle"
    /\ Done(c)
    /\ UNCHANGED <<calendars, timeOff, hoursEvents>>

-----------------------------------------------------------------------------
(***************************************************************************)
(* Time off.                                                               *)
(***************************************************************************)
\* InsertTimeOff: the exclusion constraint time_off_no_overlap.
OverlapsOff(id, span) == \E o \in timeOff[id] : SpansOverlap(o, span)

\* AddTimeOff: one insert, under the person's lock.
AddTimeOff(c, id, span) ==
    LET err == CASE canManageTimeOff(c, id) # "none" -> canManageTimeOff(c, id)
                 [] NewTimeOffError(span.s, span.e) # "none" -> "invalid"
                 [] OverlapsOff(id, span) -> "time_off_overlaps"
                 [] OTHER -> "none"
    IN  /\ clients[c].pc = "idle"
        /\ ~ PersonLocked(id)
        /\ timeOff' = IF err = "none" THEN [timeOff EXCEPT ![id] = @ \cup {span}]
                                      ELSE timeOff
        /\ UNCHANGED <<calendars, hoursEvents, clients>>

\* DeleteTimeOff: a single statement that waits for no one.
DeleteTimeOff(c, id, span) ==
    LET err == CASE canManageTimeOff(c, id) # "none" -> canManageTimeOff(c, id)
                 [] span \notin timeOff[id] -> "not_found"
                 [] OTHER -> "none"
    IN  /\ clients[c].pc = "idle"
        /\ timeOff' = IF err = "none" THEN [timeOff EXCEPT ![id] = @ \ {span}]
                                      ELSE timeOff
        /\ UNCHANGED <<calendars, hoursEvents, clients>>

-----------------------------------------------------------------------------
StaffIds == {m.id : m \in SchedStaff}

SchedInit ==
    /\ calendars = [k \in SchedKeys |-> NeverSaved]
    /\ timeOff = [id \in StaffIds |-> {}]
    /\ hoursEvents = << >>
    /\ clients = [c \in SchedClients |-> NoClient]

PagesNext ==
    \E c \in SchedClients :
        \/ \E k \in SchedKeys : GetRow(c, k)
        \/ GetHours(c)
        \/ GetOverrides(c)
        \/ Put(c)
        \/ Lock(c)
        \/ Load(c)
        \/ Save(c)
        \/ SchedAbort(c)

TimeOffNext ==
    \E c \in SchedClients, o \in OffChoices :
        AddTimeOff(c, o[1], o[2]) \/ DeleteTimeOff(c, o[1], o[2])

SchedNext == PagesNext \/ TimeOffNext

SchedSpec == SchedInit /\ [][SchedNext]_schedVars

-----------------------------------------------------------------------------
\* Nobody works in two shops at once: the weekly hours of one person at two
\* branches never share a minute, and stretches of time off are apart,
\* however saves at the two branches interleave.
NobodyInTwoShops ==
    /\ \A k, l \in SchedKeys :
          (~ IsHours(k) /\ ~ IsHours(l) /\ k[3] = l[3] /\ k[2] # l[2])
              => CircleOf(calendars[k].content.weekly)
                    \cap CircleOf(calendars[l].content.weekly) = {}
    /\ \A id \in StaffIds : \A a, b \in timeOff[id] : a # b => ~ SpansOverlap(a, b)

\* Of every step: nothing is overwritten unseen. A save replaces exactly what
\* the page it was made from showed, although the page's version, hours and
\* overrides were read in separate statements.
SavedOverWhatWasSeen ==
    \A c \in SchedClients :
        (/\ clients[c].pc = "held"
         /\ clients'[c].pc = "idle"
         /\ calendars'[clients[c].key] # calendars[clients[c].key])
            => calendars[clients[c].key] = clients[c].page

\* Other modules hear of every calendar exactly as saved: per branch the
\* events carry the versions 1, 2, ... in order, and the last one the hours
\* the branch has.
EventsTellTheHours ==
    \A k \in {x \in SchedKeys : IsHours(x)} :
        LET mine == {n \in DOMAIN hoursEvents : hoursEvents[n].branch = k[2]}
        IN  /\ {hoursEvents[n].version : n \in mine} = 1 .. calendars[k].version
            /\ \A m, n \in mine : m < n => hoursEvents[m].version < hoursEvents[n].version
            /\ \A n \in mine : hoursEvents[n].version = calendars[k].version
                                  => hoursEvents[n].hours = calendars[k].content.weekly
=============================================================================
