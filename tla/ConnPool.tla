------------------------------- MODULE ConnPool -------------------------------
(***************************************************************************)
(* Who holds the pool's connections.  A booking holds one for its          *)
(* transaction and, while it holds its barber's lock, needs a second to    *)
(* re-read the barber's hours; a semaphore lets at most half the pool      *)
(* book.  A change of hours holds one and waits for the same lock.         *)
(*                                                                         *)
(* Reads that take a connection and give it back are left out: they always *)
(* finish.                                                                 *)
(***************************************************************************)
EXTENDS Naturals, FiniteSets

CONSTANTS
    Bookings,       \* booking requests that reached Store.Book
    HoursChanges,   \* Schedules.Update and TimeOffs.Add requests
    Barbers,
    MaxConns,       \* DATABASE_MAX_CONNS, at least 2
    None

Requests == Bookings \cup HoursChanges

ASSUME PoolAssumption ==
    /\ MaxConns \in Nat /\ MaxConns >= 2
    /\ Bookings \cap HoursChanges = {}
    /\ IsFiniteSet(Requests)
    /\ None \notin Barbers

VARIABLES
    pc,
    barber,         \* the barber whose lock a request holds or waits for
    left            \* the barbers a booking has yet to try

vars == <<pc, barber, left>>

\* Mutant: the semaphore lets the whole pool book.
WholePool == MaxConns

\* NewStore's semaphore: max(1, MaxConns / 2).
Half == IF MaxConns \div 2 > 1 THEN MaxConns \div 2 ELSE 1

\* Mutant: the slot is never given back.
InFlightLeaked == {b \in Bookings : pc[b] # "idle"}

\* Bookings that hold a slot.
InFlight == {b \in Bookings : pc[b] \in {"slot", "waiting", "locked", "reading", "checked"}}

InTx == {x \in Requests : pc[x] \in {"waiting", "locked", "reading", "checked"}}

Reading == {b \in Bookings : pc[b] = "reading"}

Used == Cardinality(InTx) + Cardinality(Reading)

\* database.LockStaff: held until the savepoint or the transaction ends.
Locked(s) == \E x \in InTx : pc[x] # "waiting" /\ barber[x] = s

-----------------------------------------------------------------------------
Move(x, to) == pc' = [pc EXCEPT ![x] = to]

\* inFlight.Acquire.
TakeSlot(b) ==
    /\ pc[b] = "idle"
    /\ Cardinality(InFlight) < Half
    /\ Move(b, "slot")
    /\ UNCHANGED <<barber, left>>

\* A booking's transaction begins and comes to its first draft.
Begin(b) ==
    /\ pc[b] = "slot"
    /\ Used < MaxConns
    /\ \E s \in left[b] :
          /\ barber' = [barber EXCEPT ![b] = s]
          /\ left' = [left EXCEPT ![b] = @ \ {s}]
    /\ Move(b, "waiting")

BeginHours(h) ==
    /\ pc[h] = "idle"
    /\ Used < MaxConns
    /\ Move(h, "waiting")
    /\ UNCHANGED <<barber, left>>

LockStaff(x) ==
    /\ pc[x] = "waiting"
    /\ ~ Locked(barber[x])
    /\ Move(x, "locked")
    /\ UNCHANGED <<barber, left>>

\* Postgres's lock_timeout: a request that waited for a lock fails.
LockTimeout(x) ==
    /\ pc[x] = "waiting"
    /\ Locked(barber[x])
    /\ Move(x, "done")
    /\ UNCHANGED <<barber, left>>

\* stillWorking takes another connection, reads, and gives it back.
TakeSecond(b) ==
    /\ pc[b] = "locked"
    /\ Used < MaxConns
    /\ Move(b, "reading")
    /\ UNCHANGED <<barber, left>>

GiveBackSecond(b) ==
    /\ pc[b] = "reading"
    /\ Move(b, "checked")
    /\ UNCHANGED <<barber, left>>

\* Not working then, or the slot taken: the savepoint and its lock go, and the
\* next draft is tried.
NextDraft(b) ==
    /\ pc[b] = "checked"
    /\ \E s \in left[b] :
          /\ barber' = [barber EXCEPT ![b] = s]
          /\ left' = [left EXCEPT ![b] = @ \ {s}]
    /\ Move(b, "waiting")

\* The transaction ends, either way, and with it lock, connection and slot.
End(x) ==
    /\ pc[x] = IF x \in Bookings THEN "checked" ELSE "locked"
    /\ Move(x, "done")
    /\ UNCHANGED <<barber, left>>

\* The client goes away: its context is cancelled wherever the request waits.
Leave(x) ==
    /\ pc[x] \in {"idle", "slot", "waiting", "locked"}
    /\ Move(x, "done")
    /\ UNCHANGED <<barber, left>>

Init ==
    /\ pc = [x \in Requests |-> "idle"]
    /\ \E s \in [HoursChanges -> Barbers] :
          barber = [x \in Requests |-> IF x \in HoursChanges THEN s[x] ELSE None]
    /\ left \in [Bookings -> SUBSET Barbers \ {{}}]

BookingStep(b) ==
    TakeSlot(b) \/ Begin(b) \/ LockStaff(b) \/ LockTimeout(b) \/ TakeSecond(b)
        \/ GiveBackSecond(b) \/ NextDraft(b) \/ End(b)

HoursStep(h) == BeginHours(h) \/ LockStaff(h) \/ LockTimeout(h) \/ End(h)

Next ==
    \/ \E b \in Bookings : BookingStep(b)
    \/ \E h \in HoursChanges : HoursStep(h)
    \/ \E x \in Requests : Leave(x)

\* The semaphore, the pool and the lock queue serve whoever waits, and
\* lock_timeout fires; a client need not leave.
Fairness ==
    /\ \A b \in Bookings : WF_vars(BookingStep(b))
    /\ \A h \in HoursChanges : WF_vars(HoursStep(h))

Spec == Init /\ [][Next]_vars

FairSpec == Spec /\ Fairness

-----------------------------------------------------------------------------
\* Bookings alone never fill the pool while one of them still needs its second
\* connection ("if bookings held every connection, none of them could get that
\* second one, and all would wait forever").
BookingsLeaveRoom ==
    (\E b \in Bookings : pc[b] = "locked") =>
        Cardinality(InTx \cap Bookings) + Cardinality(Reading) < MaxConns

\* Everyone is answered in the end: waiting for the slot, for a connection, for
\* the lock and for the second connection is never a circle for good.
EveryoneFinishes == <>(\A x \in Requests : pc[x] = "done")

\* Somebody who has a connection can go on, and give it back, without waiting
\* for a timeout or for a client to leave.
SomeoneCanGoOn ==
    \E x \in InTx :
        \/ pc[x] \in {"reading", "checked"}
        \/ x \in HoursChanges /\ pc[x] = "locked"
        \/ pc[x] = "waiting" /\ ~ Locked(barber[x])

\* "At most half the pool books at once, so that connection is always there":
\* a booking that needs its second connection finds it free, or some holder
\* gives one back without waiting for the booking itself.
SecondConnectionThere ==
    (\E b \in Bookings : pc[b] = "locked") => Used < MaxConns \/ SomeoneCanGoOn
=============================================================================
