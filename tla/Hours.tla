-------------------------------- MODULE Hours --------------------------------
(***************************************************************************)
(* The arithmetic of scheduling: weekly hours on a circular week, the      *)
(* calendar dates of a branch's time zone, and the sorted lists of spans   *)
(* that working windows are made of.  The real day has 1440 minutes in     *)
(* steps of 5 and the week 7 days; here a minute is one step, and the      *)
(* sizes are constants.                                                    *)
(*                                                                         *)
(* A date is a day number and a weekly interval [day, start, minutes].  A  *)
(* span [s, e) of instants is [s |-> , e |-> ].  A location is a time zone *)
(* whose offset changes once, at the instant shiftAt.                      *)
(***************************************************************************)
EXTENDS Integers, Sequences, SequencesExt, FiniteSets, FiniteSetsExt, Folds, TLC

CONSTANTS
    MinutesPerDay,
    DaysPerWeek,
    MaxPerDay,          \* intervals starting on one weekday
    MaxOverrides,       \* dates with hours of their own
    MaxTimeOff,         \* the longest time off
    MaxWindowsRange     \* the longest range of one windows query

ASSUME HoursSizes ==
    /\ MinutesPerDay \in Nat \ {0}
    /\ DaysPerWeek \in Nat \ {0, 1}
    /\ {MaxPerDay, MaxOverrides, MaxTimeOff, MaxWindowsRange} \subseteq Nat

MinutesPerWeek == DaysPerWeek * MinutesPerDay

later(a, b) == IF a > b THEN a ELSE b

earlier(a, b) == IF a < b THEN a ELSE b

-----------------------------------------------------------------------------
(***************************************************************************)
(* Spans: shared.Interval.                                                 *)
(***************************************************************************)
Span(s, e) == [s |-> s, e |-> e]

NonEmpty(s, e) == e > s

SpansOverlap(i, o) == i.s < o.e /\ o.s < i.e

Covers(i, o) == o.s >= i.s /\ o.e <= i.e

\* A span that may have come out empty or reversed, as a list to append.
SpanOrNone(s, e) == IF NonEmpty(s, e) THEN <<Span(s, e)>> ELSE << >>

Concat(lists) == FoldLeft(LAMBDA acc, l : acc \o l, << >>, lists)

\* Sorted, and what overlaps or touches merged.
normalize(spans) ==
    FoldLeft(LAMBDA out, s :
                 IF out # << >> /\ s.s <= Last(out).e
                 THEN Front(out) \o <<Span(Last(out).s, later(Last(out).e, s.e))>>
                 ELSE Append(out, s),
             << >>, SortSeq(spans, LAMBDA a, b : a.s < b.s))

\* The walk with one finger on each list: the span that ends first is done.
intersect(a, b) ==
    LET common[i \in 1 .. Len(a) + 1, j \in 1 .. Len(b) + 1] ==
            IF i > Len(a) \/ j > Len(b)
            THEN << >>
            ELSE SpanOrNone(later(a[i].s, b[j].s), earlier(a[i].e, b[j].e))
                 \o IF a[i].e < b[j].e THEN common[i + 1, j] ELSE common[i, j + 1]
    IN  common[1, 1]

\* The spans b[j], b[j + 1], ... that begin before s ends cut s in pieces.
Cut(s, b, j) ==
    LET ahead == SelectSeq(SubSeq(b, j, Len(b)), LAMBDA x : x.s < s.e)
        left  == FoldLeft(LAMBDA acc, x :
                              [start |-> later(acc.start, x.e),
                               out   |-> acc.out \o SpanOrNone(acc.start, x.s)],
                          [start |-> s.s, out |-> << >>], ahead)
    IN  left.out \o SpanOrNone(left.start, s.e)

\* The first span of b, from j on, that ends after start.
SkipEnded(b, j, start) == Min({k \in j .. Len(b) + 1 : k > Len(b) \/ b[k].e > start})

\* One pass over both lists: j never goes back.
subtract(a, b) ==
    FoldLeft(LAMBDA acc, s :
                 LET j == SkipEnded(b, acc.j, s.s)
                 IN  [j |-> j, out |-> acc.out \o Cut(s, b, j)],
             [j |-> 1, out |-> << >>], a).out

clip(spans, from, to) ==
    Concat([n \in DOMAIN spans |->
               SpanOrNone(later(spans[n].s, from), earlier(spans[n].e, to))])

-----------------------------------------------------------------------------
(***************************************************************************)
(* Weekly hours.                                                           *)
(***************************************************************************)
WeeklyInterval == [day: 0 .. DaysPerWeek - 1, start: 0 .. MinutesPerDay - 1,
                   minutes: 1 .. MinutesPerDay]

weekStart(i) == i.day * MinutesPerDay + i.start

IntervalFromClock(day, opens, closes) ==
    LET m == (closes - opens) % MinutesPerDay
    IN  [day |-> day, start |-> opens,
         minutes |-> IF m = 0 THEN MinutesPerDay ELSE m]

Clock(i) ==
    LET end == i.start + i.minutes
    IN  <<i.start, IF end = MinutesPerDay THEN end ELSE end % MinutesPerDay>>

\* Mutant: the last interval is not compared with next week's first.
OverlapsNextLinear(sorted, n) ==
    /\ n < Len(sorted)
    /\ weekStart(sorted[n]) + sorted[n].minutes > weekStart(sorted[n + 1])

\* The n-th interval runs into the one after it; after the last comes the
\* first, a week later.
OverlapsNext(sorted, n) ==
    LET end == weekStart(sorted[n]) + sorted[n].minutes
    IN  IF n < Len(sorted)
        THEN end > weekStart(sorted[n + 1])
        ELSE n > 1 /\ end > weekStart(sorted[1]) + MinutesPerWeek

\* What NewWeeklyHours has against the n-th of the sorted intervals.
IntervalError(sorted, n) ==
    LET i == sorted[n]
    IN  CASE i.day \notin 0 .. DaysPerWeek - 1 -> "invalid_weekday"
          [] \/ i.start \notin 0 .. MinutesPerDay - 1
             \/ i.minutes \notin 1 .. MinutesPerDay -> "invalid_interval"
          [] Cardinality({k \in 1 .. n : sorted[k].day = i.day}) > MaxPerDay
                -> "too_many"
          [] OTHER -> "none"

\* The intervals by weekday, then start.
ByWeekStart(intervals) ==
    SortSeq(intervals, LAMBDA a, b : weekStart(a) < weekStart(b))

\* The hours, sorted, or the first complaint.
NewWeeklyHours(intervals) ==
    LET sorted == ByWeekStart(intervals)
        bad    == {n \in DOMAIN sorted : IntervalError(sorted, n) # "none"}
    IN  CASE bad # {} -> [err |-> IntervalError(sorted, Min(bad)), hours |-> << >>]
          [] \E n \in DOMAIN sorted : OverlapsNext(sorted, n)
                -> [err |-> "overlapping", hours |-> << >>]
          [] OTHER -> [err |-> "none", hours |-> sorted]

\* WeeklyHours.Overlaps: last week's and next week's copies count.
WeeksOverlap(w, o) ==
    \E a \in Range(w), b \in Range(o), shift \in {-MinutesPerWeek, 0, MinutesPerWeek} :
        /\ weekStart(a) < weekStart(b) + shift + b.minutes
        /\ weekStart(b) + shift < weekStart(a) + a.minutes

\* For the properties: the minutes of the circular week that an interval, and
\* a week, cover.
OnCircle(i) == {(weekStart(i) + k) % MinutesPerWeek : k \in 0 .. i.minutes - 1}

CircleOf(w) == UNION {OnCircle(i) : i \in Range(w)}

IsClosed(w) == w = << >>

startingOn(w, weekday) ==
    LET i == SelectSeq(w, LAMBDA x : x.day = weekday)
    IN  [n \in DOMAIN i |-> [start |-> i[n].start, minutes |-> i[n].minutes]]

-----------------------------------------------------------------------------
(***************************************************************************)
(* Dates and instants.                                                     *)
(***************************************************************************)
Weekday(date) == date % DaysPerWeek

Offset(loc, t) == IF t < loc.shiftAt THEN loc.before ELSE loc.after

\* time.Date (Go's library): the offset is looked up as if the wall clock
\* were UTC, and once more when the instant it gives is not in that zone.
TimeDate(loc, wall) ==
    LET guess == Offset(loc, wall)
        utc   == wall - guess
        valid == (wall < loc.shiftAt) = (utc < loc.shiftAt)
    IN  IF guess = 0 THEN wall
        ELSE IF valid THEN utc ELSE wall - Offset(loc, utc)

\* Date.At: the instant a number of minutes after midnight, on the wall clock.
At(loc, date, minute) == TimeDate(loc, date * MinutesPerDay + minute)

\* DateOf(t.In(loc)).
DateOf(loc, t) == (t + Offset(loc, t)) \div MinutesPerDay

-----------------------------------------------------------------------------
(***************************************************************************)
(* A barber's schedule [weekly, overrides]: overrides maps some dates to   *)
(* the intervals that start on them.                                       *)
(***************************************************************************)
CheckDayIntervals(day) ==
    NewWeeklyHours([n \in DOMAIN day |->
        [day |-> 0, start |-> day[n].start, minutes |-> day[n].minutes]])

\* What BarberSchedule.Set has against a new schedule; elsewhere are the
\* person's weekly hours at other branches.  Which of several bad dates it
\* complains of is up to the order of Go's map.
SetError(weekly, overrides, elsewhere) ==
    CASE Cardinality(DOMAIN overrides) > MaxOverrides -> "too_many_overrides"
      [] \E o \in elsewhere : WeeksOverlap(weekly, o) -> "schedule_clash"
      [] \E d \in DOMAIN overrides : CheckDayIntervals(overrides[d]).err # "none"
            -> "invalid_override"
      [] OTHER -> "none"

IntervalsStarting(schedule, date) ==
    IF date \in DOMAIN schedule.overrides
    THEN schedule.overrides[date]
    ELSE startingOn(schedule.weekly, Weekday(date))

NewTimeOffError(from, to) ==
    IF ~ NonEmpty(from, to) \/ to - from > MaxTimeOff THEN "invalid_time_off"
                                                      ELSE "none"

\* The spans the intervals starting on the dates cover.
SpansOf(loc, first, last, starting) ==
    Concat([k \in 1 .. last - first + 1 |->
               LET d == first + k - 1
                   day == starting[d]
               IN  Concat([n \in DOMAIN day |->
                              SpanOrNone(At(loc, d, day[n].start),
                                         At(loc, d, day[n].start + day[n].minutes))])])

\* The first date looked at: the night before's shift may run into from's day.
FirstDate(loc, from) == DateOf(loc, from) - 1

\* WorkingWindows: opening hours and schedule in common, less time off.
\* (Closed dates are always empty: the code has no closures yet.)
WorkingWindows(loc, opening, schedule, timeOff, from, to) ==
    LET first == FirstDate(loc, from)
        last  == DateOf(loc, to)
        open  == SpansOf(loc, first, last, [d \in first .. last |-> startingOn(opening, Weekday(d))])
        work  == SpansOf(loc, first, last, [d \in first .. last |-> IntervalsStarting(schedule, d)])
    IN  IF ~ NonEmpty(from, to) THEN << >>
        ELSE clip(subtract(intersect(normalize(open), normalize(work)),
                           normalize(timeOff)), from, to)
=============================================================================
