---------------------------- MODULE BookingLedger ----------------------------
(***************************************************************************)
(* What booking promises, without saying how: a ledger of appointments and *)
(* of settled Idempotency-Keys that changes in two ways only.  An          *)
(* appointment is entered together with the key that asked for it, and     *)
(* only if its barber is free; an appointment in the ledger moves along    *)
(* the lifecycle, one version at a time, and nothing else of it changes.   *)
(* Requests, locks, transactions, crashes and the clock do not exist here. *)
(***************************************************************************)
EXTENDS Appointment

CONSTANTS Appts,    \* the appointments there may ever be
          KeyIds,   \* (requester, key) pairs
          None      \* no row

VARIABLES rows,     \* rows[a]: the appointment, or None
          keys      \* keys[k]: the settled key, [hash, appt], or None

ledger == <<rows, keys>>

Init ==
    /\ rows = [a \in Appts |-> None]
    /\ keys = [k \in KeyIds |-> None]

\* Appointment a is entered under key k: version 1, in conflict with nobody.
Enter(a, k) ==
    /\ rows[a] = None
    /\ keys[k] = None
    /\ rows'[a] # None
    /\ rows'[a].status \in ActiveStatuses
    /\ rows'[a].version = 1
    /\ \A b \in Appts \ {a} :
          rows[b] # None => ~ Conflicts(rows'[a], rows[b])
    /\ rows' = [rows EXCEPT ![a] = rows'[a]]
    /\ keys'[k] # None
    /\ keys'[k].appt = a
    /\ keys' = [keys EXCEPT ![k] = keys'[k]]

\* How one appointment may change: along an edge of the lifecycle, its
\* version one higher, everything about who, where and when as it was.
Moves(old, new) ==
    /\ <<old.status, new.status>> \in Edges
    /\ new = [old EXCEPT !.status       = new.status,
                         !.pendingUntil = NoTime,
                         !.cancelledBy  = new.cancelledBy,
                         !.version      = @ + 1]

\* Some appointments move at once (the expiry job changes a batch).
Advance ==
    /\ \A a \in Appts :
          \/ rows'[a] = rows[a]
          \/ rows[a] # None /\ rows'[a] # None /\ Moves(rows[a], rows'[a])
    /\ rows' = [a \in Appts |-> rows'[a]]
    /\ UNCHANGED keys

Next ==
    \/ \E a \in Appts, k \in KeyIds : Enter(a, k)
    \/ Advance

Spec == Init /\ [][Next]_ledger
=============================================================================
