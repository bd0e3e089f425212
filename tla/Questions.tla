----------------------------- MODULE Questions -----------------------------
(***************************************************************************)
(* Questions to the pure functions of scheduling and booking.  Every state *)
(* is one question; the invariants compare the functions' answers with     *)
(* what they stand for: sets of minutes on a circular week, sets of        *)
(* instants, and each other.                                               *)
(***************************************************************************)
EXTENDS Availability

CONSTANTS Locations, Barbers

VARIABLE question

-----------------------------------------------------------------------------
(***************************************************************************)
(* The inputs.                                                             *)
(***************************************************************************)
\* Some days' hours: a morning, a night past midnight, the last night of the
\* week into the first day, two shifts that touch, round the clock.
Iv(d, s, m) == [day |-> d, start |-> s, minutes |-> m]

Lists == {<<a>> : a \in WeeklyInterval} \cup
         {<<a, b>> : a, b \in WeeklyInterval} \cup
         {<<Iv(0, s, 1), a, b>> : s \in {0, 2}, a, b \in WeeklyInterval} \cup
         {<< >>, <<Iv(DaysPerWeek, 0, 1)>>, <<Iv(0, 0, MinutesPerDay + 1)>>,
          <<Iv(0, 0, 0)>>}

Weeks == {<<a, b>> : a, b \in WeeklyInterval} \cup {<<a>> : a \in WeeklyInterval}

Openings == {<<Iv(0, 0, 4), Iv(1, 0, 4), Iv(2, 0, 4)>>,
             <<Iv(0, 1, 2), Iv(0, 3, 1), Iv(1, 3, 4)>>,
             <<Iv(1, 1, 1), Iv(1, 3, 1), Iv(2, 2, 4)>>}

Shifts == {<<Iv(0, 3, 3), Iv(1, 3, 3), Iv(2, 3, 3)>>,
           <<Iv(0, 0, 4), Iv(1, 0, 4), Iv(2, 0, 4)>>,
           <<Iv(0, 0, 2), Iv(0, 2, 1), Iv(2, 1, 4)>>,
           << >>}

Overrides == {<< >>, (1 :> << >>), (1 :> <<[start |-> 2, minutes |-> 3]>>)}

TimesOff == {<< >>, <<Span(2, 7)>>, <<Span(3, 5), Span(7, 8)>>}

Ranges == {r \in (0 .. 10) \X (0 .. 12) : r[1] <= r[2] /\ (r[1] + r[2]) % 5 = 0}

Policies == {[minLead |-> 1, horizonDays |-> 1, slotInterval |-> 2 - b, buffer |-> b] : b \in 0 .. 1}

\* Service 1: both barbers; service 2: only barber 2, who takes longer.
Menu == <<[id |-> 1, performers |-> <<[staff |-> 1, duration |-> 1, price |-> 5],
                                      [staff |-> 2, duration |-> 2, price |-> 3]>>],
          [id |-> 2, performers |-> <<[staff |-> 2, duration |-> 1, price |-> 4]>>]>>

Worlds ==
    {[loc |-> l, policy |-> p, menu |-> Menu, opening |-> o,
      there |-> IF o[1].day = 1 THEN {2} ELSE {1, 2},
      schedule |-> (1 :> [weekly |-> s, overrides |-> << >>]) @@
                   (2 :> [weekly |-> o, overrides |-> (1 :> <<[start |-> 2, minutes |-> 4]>>)]),
      off |-> (1 :> << >>) @@ (2 :> <<Span(9, 10)>>), busy |-> b] :
        l \in Locations, p \in Policies, o \in Openings, s \in Shifts,
        b \in {(1 :> {}) @@ (2 :> {}), (1 :> {Span(4, 5)}) @@ (2 :> {Span(6, 8)}),
               (1 :> {Span(3, 5), Span(6, 7)}) @@ (2 :> {Span(7, 9)})}}

\* Time zones: fixed; the clock put forward in the middle of a day; put back;
\* put back at midnight, west and east of Greenwich; and put forward at midnight
\* in the east, where time.Date answers the day's first instant.
SteadyLocations == {[shiftAt |-> 0, before |-> 0, after |-> 0],
                    [shiftAt |-> 7, before |-> -1, after |-> 0],
                    [shiftAt |-> 6, before |-> 1, after |-> 0],
                    [shiftAt |-> 5, before |-> -1, after |-> -2],
                    [shiftAt |-> 2, before |-> 2, after |-> 1],
                    [shiftAt |-> 3, before |-> 1, after |-> 2]}

\* Put forward at midnight in the west (America/Santiago, America/Havana):
\* there is no 00:00 that day, and time.Date answers 23:00 of the day before,
\* so that a later wall clock may be an earlier instant.
MidnightLocations == {[shiftAt |-> 5, before |-> -1, after |-> 0],
                      [shiftAt |-> 6, before |-> -2, after |-> 0]}

-----------------------------------------------------------------------------
Nothing == [kind |-> "nothing"]

AskHours == \E l \in Lists : question' = [kind |-> "hours", intervals |-> l]

AskTwoWeeks ==
    \E w \in Weeks, o \in {x \in Weeks : x[1] \in {Iv(0, 0, 2), Iv(DaysPerWeek - 1, 3, 3)}} :
        /\ NewWeeklyHours(w).err = "none"
        /\ NewWeeklyHours(o).err = "none"
        /\ question' = [kind |-> "two", w |-> w, o |-> o]

AskWindows ==
    \E l \in Locations, o \in Openings, s \in Shifts, v \in Overrides,
       off \in TimesOff, r \in Ranges :
        question' = [kind |-> "windows", loc |-> l, opening |-> o,
                     schedule |-> [weekly |-> s, overrides |-> v],
                     off |-> off, from |-> r[1], to |-> r[2]]

AskSlots ==
    \E w \in Worlds, day \in 0 .. 2, sv \in {<<1>>, <<2>>, <<1, 2>>}, b \in 0 .. 2 :
        question' = [kind |-> "slots", world |-> w, now |-> 3, day |-> day,
                     services |-> sv, barber |-> b]

AskInit == question = Nothing

AskNext ==
    \/ question = Nothing /\ (AskHours \/ AskTwoWeeks \/ AskWindows \/ AskSlots)
    \/ question # Nothing /\ question' = Nothing

AskSpec == AskInit /\ [][AskNext]_question

-----------------------------------------------------------------------------
(***************************************************************************)
(* The references.                                                         *)
(***************************************************************************)
Disjoint(w) ==
    \A m, n \in DOMAIN w : m # n => OnCircle(w[m]) \cap OnCircle(w[n]) = {}

\* NewWeeklyHours, which compares neighbours only, accepts exactly the lists
\* of valid intervals, few enough a day, of which no two share a minute of
\* the circular week; the clock times a page shows give the interval back.
HoursAcceptedExactly ==
    question.kind = "hours" =>
        LET l == question.intervals
        IN  /\ (NewWeeklyHours(l).err = "none") =
                  (/\ Range(l) \subseteq WeeklyInterval
                   /\ \A d \in 0 .. DaysPerWeek - 1 :
                          Cardinality({n \in DOMAIN l : l[n].day = d}) <= MaxPerDay
                   /\ Disjoint(l))
            /\ \A i \in Range(l) \cap WeeklyInterval :
                  IntervalFromClock(i.day, Clock(i)[1], Clock(i)[2]) = i

\* Two weeks of accepted hours overlap, as far as the rule that keeps a
\* person out of two shops can tell, exactly when they share a minute.
OverlapIsShared ==
    question.kind = "two" =>
        WeeksOverlap(question.w, question.o)
            = (CircleOf(question.w) \cap CircleOf(question.o) # {})

\* The instants covered by the intervals that start on any date at all.
Covered(loc, t, Starting(_)) ==
    \E d \in -3 .. 8 :
        \E n \in DOMAIN Starting(d) :
            /\ At(loc, d, Starting(d)[n].start) <= t
            /\ t < At(loc, d, Starting(d)[n].start + Starting(d)[n].minutes)

\* Working windows hold exactly the instants of the range at which the branch
\* is open, the barber scheduled and not off, in order and never touching:
\* a booking fits in one window or not at all.  (Of SteadyLocations: where At is
\* not monotone, an hour that starts at midnight lies before its own date.)
WindowsExact ==
    question.kind = "windows" =>
        LET q == question
            w == WorkingWindows(q.loc, q.opening, q.schedule, q.off, q.from, q.to)
        IN  /\ \A n \in 1 .. Len(w) - 1 : w[n].e < w[n + 1].s
            /\ \A n \in DOMAIN w : NonEmpty(w[n].s, w[n].e)
            /\ \A t \in -4 .. 20 :
                  (\E n \in DOMAIN w : w[n].s <= t /\ t < w[n].e) =
                      (/\ q.from <= t /\ t < q.to
                       /\ Covered(q.loc, t, LAMBDA d : startingOn(q.opening, Weekday(d)))
                       /\ Covered(q.loc, t, LAMBDA d : IntervalsStarting(q.schedule, d))
                       /\ \A n \in DOMAIN q.off : ~ (q.off[n].s <= t /\ t < q.off[n].e))

\* Whether a barber is free for the services at t, read off the world: they
\* perform them all, work at the branch, and every instant of the booking and
\* its buffer is in opening hours, in their schedule, outside time off and
\* outside their appointments.
FreeFor(w, services, b, t) ==
    LET does(id)  == {p \in Performers(w.menu, id) : p.staff = b}
        length    == FoldLeft(LAMBDA sum, id : sum + SumSet({p.duration : p \in does(id)}),
                              w.policy.buffer, services)
    IN  /\ b \in w.there
        /\ \A id \in Range(services) : does(id) # {}
        /\ \A i \in t .. t + length - 1 :
              /\ Covered(w.loc, i, LAMBDA d : startingOn(w.opening, Weekday(d)))
              /\ Covered(w.loc, i, LAMBDA d : IntervalsStarting(w.schedule[b], d))
              /\ \A n \in DOMAIN w.off[b] : ~ (w.off[b][n].s <= i /\ i < w.off[b][n].e)
              /\ \A x \in w.busy[b] : ~ (x.s <= i /\ i < x.e)

\* The page of a day offers a start exactly for the barbers who are free for
\* the whole booking then, within the branch's rules; and what it offers is
\* what Book, reading again, would take, in time and in money, and what the
\* check under the barber's lock lets through.  (Slots: "returns the start times
\* on day at which at least one candidate can take the booking".)  True of every
\* location but MidnightLocations, where the day's start, and so its grid and
\* the windows read for it, lies in the day before: the last hour is missing
\* from its own page and on the next day's, and Book finds only some of it free.
OfferedIsBookable ==
    question.kind = "slots" =>
        LET q == question
            w == q.world
            page == Query(w, q.now, q.day, q.services, q.barber)
            offered(t) == UNION {Range(page.slots[n].staff) :
                                    n \in {k \in DOMAIN page.slots : page.slots[k].start = t}}
            asked == IF q.barber = 0 THEN Barbers ELSE {q.barber}
        IN  \A t \in 0 .. 14 : DateOf(w.loc, t) = q.day =>
               /\ offered(t) = {b \in asked : /\ FreeFor(w, q.services, b, t)
                                              /\ checkStart(w, q.now, t)}
               /\ offered(t) = Range(FreeBarbers(w, q.now, t, q.services, q.barber, FALSE))
               /\ \A b \in offered(t) :
                     LET offer == offersFor(q.services, w.menu)[b]
                         items == itemsFor(q.services, w.menu, b)
                         end   == t + offer.duration + w.policy.buffer
                     IN  /\ stillWorking(w, b, Span(t, end))
                         /\ offer.duration = FoldLeft(LAMBDA n, i : n + i.duration, 0, items)
                         /\ offer.price = FoldLeft(LAMBDA n, i : n + i.price, 0, items)

\* The arithmetic of hours is what it stands for: a circular week of which no
\* minute is in two intervals, and windows of exactly the instants worked.
HoursExact == HoursAcceptedExactly /\ OverlapIsShared /\ WindowsExact
=============================================================================
