---------------------------- MODULE Availability ----------------------------
(***************************************************************************)
(* The free times booking offers, and the free barbers it finds when one   *)
(* of them is booked: two reads that must agree.  Both are functions of a  *)
(* world, what the other modules answer at one moment:                     *)
(*   loc, policy   the branch's time zone and booking policy               *)
(*   menu          its active services, each with its performers           *)
(*   there         the barbers who work at the branch now                  *)
(*   opening, schedule[b], off[b]   scheduling's hours and time off        *)
(*   busy[b]       a barber's active appointments with their buffers       *)
(***************************************************************************)
EXTENDS Hours

CONSTANTS
    MaxServices,        \* services in one booking
    WalkInGrace

ASSUME AvailabilitySizes == MaxServices \in Nat /\ WalkInGrace \in Nat

\* Day.Start.
DayStart(loc, day) == At(loc, day, 0)

OnGrid(loc, t, interval) == ((t + Offset(loc, t)) % MinutesPerDay) % interval = 0

\* grid: the day's instants whose clock reads a multiple of the interval.
grid(loc, day, interval) ==
    SetToSortSeq({t \in DayStart(loc, day) .. DayStart(loc, day + 1) - 1 :
                     OnGrid(loc, t, interval)}, <)

\* Mutant: half of the appointment may lie outside the window.
CanTakeStart(c, start) ==
    /\ c.length > 0
    /\ \E n \in DOMAIN c.windows : Covers(c.windows[n], Span(start, start + 1))
    /\ \A i \in c.busy : ~ SpansOverlap(i, Span(start, start + c.length))

\* Candidate.CanTake.
CanTake(c, start) ==
    LET span == Span(start, start + c.length)
    IN  /\ c.length > 0
        /\ \E n \in DOMAIN c.windows : Covers(c.windows[n], span)
        /\ \A i \in c.busy : ~ SpansOverlap(i, span)

\* The start times of a day within [earliest, latest), each with who is free.
Slots(loc, day, interval, earliest, latest, cands) ==
    LET at(t) == [start |-> t, staff |-> SelectSeq(cands, LAMBDA c : CanTake(c, t))]
        times == SelectSeq(grid(loc, day, interval),
                           LAMBDA t : /\ t >= earliest
                                      /\ t < latest
                                      /\ at(t).staff # << >>)
    IN  [n \in DOMAIN times |->
            [start |-> times[n],
             staff |-> [k \in DOMAIN at(times[n]).staff |-> at(times[n]).staff[k].staff]]]

BadServices(services) ==
    \/ Len(services) \notin 1 .. MaxServices
    \/ \E i, j \in DOMAIN services : i # j /\ services[i] = services[j]

\* The performers of a service, as a set; a service off the menu has none.
Performers(menu, id) ==
    UNION {Range(m.performers) : m \in {x \in Range(menu) : x.id = id}}

Missing(menu, services) ==
    \E id \in Range(services) : \A m \in Range(menu) : m.id # id

\* offersFor: the barbers who perform every chosen service, with the totals
\* of their durations and prices.
offersFor(services, menu) ==
    LET all == {b \in {p.staff : p \in Performers(menu, services[1])} :
                   \A id \in Range(services) :
                       \E p \in Performers(menu, id) : p.staff = b}
        of(b, id) == CHOOSE p \in Performers(menu, id) : p.staff = b
        total(b, F(_)) == FoldLeft(LAMBDA sum, id : sum + F(of(b, id)), 0, services)
    IN  [b \in all |-> [duration |-> total(b, LAMBDA p : p.duration),
                        price    |-> total(b, LAMBDA p : p.price)]]

\* stillThere, and the one barber asked for, if any.
stillThere(offers, there) == Restrict(offers, DOMAIN offers \cap there)

\* WindowsHandlers.compute, for one barber; an empty or long range is refused.
WindowsFor(w, b, from, to) ==
    IF from >= to \/ to - from > MaxWindowsRange THEN << >>
    ELSE WorkingWindows(w.loc, w.opening, w.schedule[b],
                        SelectSeq(w.off[b], LAMBDA o : o.e > from), from, to)

\* How far the reads go: a booking may start late and end after midnight.
CandidatesUntil(w, day, offers) ==
    DayStart(w.loc, day + 1)
        + Max({0} \cup {offers[b].duration + w.policy.buffer : b \in DOMAIN offers})

\* candidates: by ID, each with its windows and appointments around the day.
candidates(w, day, offers) ==
    LET ids  == SetToSortSeq(DOMAIN offers, <)
        from == DayStart(w.loc, day)
        to   == CandidatesUntil(w, day, offers)
    IN  [n \in DOMAIN ids |->
            [staff   |-> ids[n],
             length  |-> offers[ids[n]].duration + w.policy.buffer,
             windows |-> WindowsFor(w, ids[n], from, to),
             busy    |-> {i \in w.busy[ids[n]] : SpansOverlap(i, Span(from, to))}]]

Today(w, now) == DateOf(w.loc, now)

Latest(w, now) == DayStart(w.loc, Today(w, now) + w.policy.horizonDays + 1)

\* Query: the availability page of a day; barber 0 asks for any.
Query(w, now, day, services, barber) ==
    LET offers == stillThere(offersFor(services, w.menu), w.there)
        chosen == IF barber = 0 THEN offers ELSE Restrict(offers, {barber} \cap DOMAIN offers)
        off    == day < Today(w, now) \/ day > Today(w, now) + w.policy.horizonDays
    IN  CASE BadServices(services) -> [err |-> "no_services", slots |-> << >>]
          [] Missing(w.menu, services) -> [err |-> "service_unavailable", slots |-> << >>]
          [] barber # 0 /\ barber \notin DOMAIN offers
                -> [err |-> "barber_unavailable", slots |-> << >>]
          [] OTHER ->
                [err |-> "none",
                 slots |-> IF off THEN << >>
                           ELSE Slots(w.loc, day, w.policy.slotInterval,
                                      now + w.policy.minLead, Latest(w, now),
                                      candidates(w, day, chosen))]

checkStart(w, now, start) ==
    /\ OnGrid(w.loc, start, w.policy.slotInterval)
    /\ start >= now + w.policy.minLead
    /\ start < Latest(w, now)

checkStaffStart(w, now, start) ==
    /\ start >= now - WalkInGrace
    /\ start < Latest(w, now)

\* Minutes of a candidate's appointments that lie on the day.
Booked(w, day, c) ==
    LET from == DayStart(w.loc, day)
        to   == DayStart(w.loc, day + 1)
    IN  Cardinality({t \in from .. to - 1 : \E i \in c.busy : i.s <= t /\ t < i.e})

\* freeAt: who can take start, the least booked that day first, then by ID.
freeAt(w, day, start, cands) ==
    LET free == SelectSeq(cands, LAMBDA c : CanTake(c, start))
        less(a, b) == \/ Booked(w, day, a) < Booked(w, day, b)
                      \/ Booked(w, day, a) = Booked(w, day, b) /\ a.staff < b.staff
        sorted == SortSeq(free, less)
    IN  [n \in DOMAIN sorted |-> sorted[n].staff]

\* The reads of Book and StaffBook before their transaction: the barbers who
\* could take the booking, in the order they are tried.
FreeBarbers(w, now, start, services, barber, staff) ==
    LET offers == stillThere(offersFor(services, w.menu), w.there)
        chosen == IF barber = 0 THEN offers ELSE Restrict(offers, {barber} \cap DOMAIN offers)
        day    == DateOf(w.loc, start)
        ok     == /\ ~ BadServices(services)
                  /\ ~ Missing(w.menu, services)
                  /\ IF staff THEN checkStaffStart(w, now, start)
                              ELSE checkStart(w, now, start)
    IN  IF ok THEN freeAt(w, day, start, candidates(w, day, chosen)) ELSE << >>

\* itemsFor: the services as the barber performs them, for the appointment.
itemsFor(services, menu, b) ==
    [n \in DOMAIN services |->
        LET p == CHOOSE x \in Performers(menu, services[n]) : x.staff = b
        IN  [service |-> services[n], duration |-> p.duration, price |-> p.price]]

\* stillWorking, under the barber's lock: the busy span in one window.
stillWorking(w, b, busy) ==
    \E i \in Range(WindowsFor(w, b, busy.s, busy.e)) : Covers(i, busy)
=============================================================================
