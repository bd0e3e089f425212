---------------------------- MODULE Appointment ----------------------------
(***************************************************************************)
(* The booking domain's aggregate: what an appointment is, how a booking   *)
(* becomes one, and which action moves it where and when.  Everything here *)
(* is a pure operator over an appointment record and a moment, as the Go   *)
(* methods are functions of the receiver and now.                          *)
(*                                                                         *)
(* Time is a natural number of units; an appointment holds its barber over *)
(* the half-open span [start, busyUntil), the buffer included.             *)
(***************************************************************************)
EXTENDS Integers

\* A pending booking has an expiry; every other row's pending_until is NULL.
NoTime == -1

\* customer_id of a walk-in: NULL.
WalkIn == "walk_in"

Statuses == {"pending", "confirmed", "rejected", "expired",
             "cancelled", "completed", "no_show"}

\* "Pending and Confirmed are active: they hold the barber's time."
ActiveStatuses == {"pending", "confirmed"}

IsActive(a) == a.status \in ActiveStatuses

\* shared.Interval.Overlaps on what two appointments hold of a barber.
Overlaps(a, b) == a.start < b.busyUntil /\ b.start < a.busyUntil

\* The row conflict the exclusion constraint appointments_no_overlap refuses.
Conflicts(a, b) ==
    /\ IsActive(a)
    /\ IsActive(b)
    /\ a.barber = b.barber
    /\ Overlaps(a, b)

-----------------------------------------------------------------------------
(***************************************************************************)
(* Booking.  A customer's booking waits for the shop's answer unless the   *)
(* branch confirms by itself; the shop's own is confirmed at once.  at is  *)
(* the moment the request was handled (attempt.Now).                       *)
(***************************************************************************)
Book(b, policy, at) ==
    LET waits  == ~policy.autoConfirm /\ b.source = "customer_app"
        window == IF b.source = "staff" THEN 0 ELSE policy.cancellationWindow
    IN  [ branch           |-> b.branch,
          barber           |-> b.barber,
          customer         |-> b.customer,
          source           |-> b.source,
          start            |-> b.start,
          busyUntil        |-> b.start + b.duration + policy.buffer,
          status           |-> IF waits THEN "pending" ELSE "confirmed",
          pendingUntil     |-> IF waits THEN at + policy.pendingExpiry
                                        ELSE NoTime,
          cancellableUntil |-> b.start - window,
          cancelledBy      |-> "nobody",
          version          |-> 1 ]

-----------------------------------------------------------------------------
(***************************************************************************)
(* The lifecycle.  An action on an appointment is one of Actions; Allowed  *)
(* is the check its method makes and After the appointment it leaves.      *)
(***************************************************************************)
Actions == {"confirm", "reject", "cancel_customer", "cancel_staff",
            "complete", "no_show", "expire"}

\* Mutant: the status as stored, whatever the clock says.
CurrentAsStored(a, now) == a.status

\* A pending booking past its expiry counts as expired even before the expiry
\* job has written it down.
Current(a, now) ==
    IF a.status = "pending" /\ a.pendingUntil # NoTime /\ now >= a.pendingUntil
    THEN "expired"
    ELSE a.status

\* Until when the customer may cancel: a booking the shop has not taken on
\* until it starts, a confirmed one until the deadline it was booked with.
CancelDeadline(a, now) ==
    IF Current(a, now) = "pending" THEN a.start ELSE a.cancellableUntil

Confirm(a, now) == Current(a, now) = "pending"

Reject(a, now) == Current(a, now) = "pending"

CancelByCustomer(a, now) ==
    /\ Current(a, now) \in ActiveStatuses
    /\ now < CancelDeadline(a, now)

CancelByStaff(a, now) == Current(a, now) \in ActiveStatuses

\* finish: complete and no-show, once it has started.
Finish(a, now) ==
    /\ Current(a, now) = "confirmed"
    /\ now >= a.start

Expire(a, now) ==
    /\ a.status = "pending"
    /\ a.pendingUntil # NoTime
    /\ now >= a.pendingUntil

Allowed(act, a, now) ==
    \/ act = "confirm"             /\ Confirm(a, now)
    \/ act = "reject"              /\ Reject(a, now)
    \/ act = "cancel_customer"     /\ CancelByCustomer(a, now)
    \/ act = "cancel_staff"        /\ CancelByStaff(a, now)
    \/ act \in {"complete", "no_show"} /\ Finish(a, now)
    \/ act = "expire"              /\ Expire(a, now)

\* The status an action leads to.
Target(act) ==
    CASE act = "confirm"  -> "confirmed"
      [] act = "reject"   -> "rejected"
      [] act = "complete" -> "completed"
      [] act = "no_show"  -> "no_show"
      [] act = "expire"   -> "expired"
      [] OTHER            -> "cancelled"

\* Who a cancellation is recorded as.
Canceller(act) ==
    CASE act = "cancel_customer" -> "customer"
      [] act = "cancel_staff"    -> "staff"
      [] OTHER                   -> "nobody"

\* Mutant: the version is not bumped.
AfterSameVersion(act, a) ==
    [a EXCEPT !.status       = Target(act),
              !.pendingUntil = NoTime,
              !.cancelledBy  = Canceller(act)]

\* change (and cancel's record of who did it): only a pending booking keeps an
\* expiry, and every change bumps the version.
After(act, a) ==
    [a EXCEPT !.status       = Target(act),
              !.pendingUntil = NoTime,
              !.cancelledBy  = Canceller(act),
              !.version      = @ + 1]

\* The lifecycle diagram: the moves an appointment may ever make.
Edges == {<<"pending", "confirmed">>, <<"pending", "rejected">>,
          <<"pending", "cancelled">>, <<"pending", "expired">>,
          <<"confirmed", "cancelled">>, <<"confirmed", "completed">>,
          <<"confirmed", "no_show">>}
=============================================================================
