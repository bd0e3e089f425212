----------------------------- MODULE ShopProofs -----------------------------
(***************************************************************************)
(* The modules around booking, for any number of shops, staff, services,   *)
(* branches and requests: hours and schedules, services, the HTTP edge,    *)
(* searches and branch pages, and what they and the business module        *)
(* promise together.                                                       *)
(***************************************************************************)
EXTENDS MCShop, BusinessProofs, SequenceTheorems, WellFoundedInduction

-----------------------------------------------------------------------------
(***************************************************************************)
(* Numbers.                                                                *)
(***************************************************************************)
\* A set of numbers has a least one.
LEMMA LeastNumber ==
    ASSUME NEW S, S \subseteq Nat, S # {}
    PROVE  \E n \in S : \A m \in S : n <= m
<1>1. PICK x \in S : \A y \in S : ~ (<<y, x>> \in OpToRel(<, Nat))
  BY NatLessThanWellFounded, WFMin
<1>2. \A y \in S : y < x => <<y, x>> \in OpToRel(<, Nat)
  BY DEF OpToRel
<1>3. \A y \in S : ~ (y < x)
  BY <1>1, <1>2
<1>4. QED
  BY <1>3

\* A minute of two weeks falls on a minute of the week.
LEMMA GoesRound ==
    ASSUME NEW W \in Nat \ {0}, NEW t \in Nat, t < 2 * W, NEW m \in 0 .. W - 1
    PROVE  t % W = m <=> t = m \/ t = m + W
<1>1. \A u \in Nat : u < W => u % W = u /\ (u + W) % W = u
  OBVIOUS
<1>2. CASE t < W
  BY <1>1, <1>2
<1>3. CASE ~ (t < W)
  <2>1. t - W \in Nat /\ t - W < W /\ t = (t - W) + W
    BY <1>3
  <2>2. t % W = t - W
    BY <1>1, <2>1
  <2>3. QED
    BY <2>1, <2>2
<1>4. QED
  BY <1>2, <1>3

\* Two minutes of two weeks fall on the same one.
LEMMA SameMinute ==
    ASSUME NEW W \in Nat \ {0}, NEW t \in Nat, t < 2 * W, NEW u \in Nat, u < 2 * W
    PROVE  t % W = u % W <=> t = u \/ t = u + W \/ u = t + W
<1>1. u % W \in 0 .. W - 1
  OBVIOUS
<1>2. t % W = u % W <=> t = u % W \/ t = (u % W) + W
  BY <1>1, GoesRound
<1>3. u = u % W \/ u = (u % W) + W
  BY <1>1, GoesRound
<1> DEFINE r == u % W
<1> HIDE DEF r
<1>4. r \in Nat /\ r < W /\ (u = r \/ u = r + W)
  BY <1>1, <1>3 DEF r
<1>5. t = r \/ t = r + W <=> t = u \/ t = u + W \/ u = t + W
  BY <1>4
<1>6. QED
  BY <1>2, <1>5 DEF r

-----------------------------------------------------------------------------
(***************************************************************************)
(* Weekly hours as minutes of the circular week.                           *)
(***************************************************************************)
\* An interval starts in the week and is no longer than it.
InWeek(a) ==
    /\ weekStart(a) \in Nat /\ weekStart(a) < MinutesPerWeek
    /\ a.minutes \in Nat \ {0} /\ a.minutes <= MinutesPerWeek

IsWeek(w) == \A a \in Range(w) : InWeek(a)

LEMMA AWeekIsLong == MinutesPerWeek \in Nat \ {0} /\ MinutesPerDay <= MinutesPerWeek
<1>1. MinutesPerDay \in Nat \ {0} /\ DaysPerWeek \in Nat /\ DaysPerWeek >= 2
  BY HoursSizes
<1>2. QED
  BY <1>1 DEF MinutesPerWeek

LEMMA IntervalInWeek ==
    ASSUME NEW a, a.day \in 0 .. DaysPerWeek - 1, a.start \in 0 .. MinutesPerDay - 1,
           a.minutes \in 1 .. MinutesPerDay
    PROVE  InWeek(a)
<1>1. MinutesPerDay \in Nat \ {0} /\ DaysPerWeek \in Nat
  BY HoursSizes
<1> DEFINE d == a.day
           M == MinutesPerDay
           D == DaysPerWeek
<1>2. d \in Nat /\ D - d >= 1 /\ D - d \in Nat /\ M \in Nat /\ M > 0 /\ D \in Nat
  BY <1>1
<1>3. weekStart(a) = d * M + a.start /\ a.start \in Nat /\ a.start < M
  BY <1>1 DEF weekStart
<1>4. MinutesPerWeek = D * M
  BY DEF MinutesPerWeek
<1> HIDE DEF d, M, D
<1>5. D * M = d * M + (D - d) * M /\ (D - d) * M >= M
  BY <1>2
<1>6. d * M \in Nat /\ D * M \in Nat
  BY <1>2
<1>7. weekStart(a) \in Nat /\ weekStart(a) < MinutesPerWeek
  BY <1>2, <1>3, <1>4, <1>5, <1>6
<1>8. QED
  BY <1>1, <1>7, AWeekIsLong DEF InWeek

\* Two intervals overlap, in this week or with a copy a week away, exactly when
\* they share a minute of the circular week.
LEMMA IntervalsShare ==
    ASSUME NEW a, NEW b, InWeek(a), InWeek(b)
    PROVE  (\E shift \in {-MinutesPerWeek, 0, MinutesPerWeek} :
               /\ weekStart(a) < weekStart(b) + shift + b.minutes
               /\ weekStart(b) + shift < weekStart(a) + a.minutes)
           <=> OnCircle(a) \cap OnCircle(b) # {}
<1> DEFINE W == MinutesPerWeek
           x == weekStart(a)
           y == weekStart(b)
           m == a.minutes
           n == b.minutes
<1>1. W \in Nat \ {0}
  BY AWeekIsLong
<1>2. /\ x \in Nat /\ x < W /\ m \in Nat \ {0} /\ m <= W
      /\ y \in Nat /\ y < W /\ n \in Nat \ {0} /\ n <= W
  BY DEF InWeek
<1>3. OnCircle(a) = {(x + k) % W : k \in 0 .. m - 1} /\ OnCircle(b) = {(y + k) % W : k \in 0 .. n - 1}
  BY DEF OnCircle
<1> HIDE DEF W, x, y, m, n
<1>4. \A k \in 0 .. m - 1 : x + k \in Nat /\ x + k < 2 * W
  BY <1>1, <1>2
<1>5. \A k \in 0 .. n - 1 : y + k \in Nat /\ y + k < 2 * W
  BY <1>1, <1>2
<1>6. \A k \in 0 .. m - 1, l \in 0 .. n - 1 :
          (x + k) % W = (y + l) % W <=> x + k = y + l \/ x + k = y + l + W \/ y + l = x + k + W
  BY <1>1, <1>4, <1>5, SameMinute
<1>7. ASSUME NEW shift \in {-W, 0, W}, x < y + shift + n, y + shift < x + m
      PROVE  OnCircle(a) \cap OnCircle(b) # {}
  <2> DEFINE k == IF x < y + shift THEN y + shift - x ELSE 0
             l == IF x < y + shift THEN 0 ELSE x - (y + shift)
  <2>1. k \in 0 .. m - 1 /\ l \in 0 .. n - 1 /\ x + k = y + l + shift
    BY <1>1, <1>2, <1>7
  <2> HIDE DEF k, l
  <2>2. x + k = y + l \/ x + k = y + l + W \/ y + l = x + k + W
    BY <1>1, <1>2, <2>1
  <2>3. (x + k) % W = (y + l) % W
    BY <1>6, <2>1, <2>2
  <2>4. (x + k) % W \in OnCircle(a) /\ (y + l) % W \in OnCircle(b)
    BY <1>3, <2>1
  <2>5. QED
    BY <2>3, <2>4
<1>8. ASSUME NEW k \in 0 .. m - 1, NEW l \in 0 .. n - 1, (x + k) % W = (y + l) % W
      PROVE  \E shift \in {-W, 0, W} : x < y + shift + n /\ y + shift < x + m
  <2>1. PICK shift \in {-W, 0, W} : x + k = y + l + shift
    <3>1. x + k = y + l \/ x + k = y + l + W \/ y + l = x + k + W
      BY <1>6, <1>8
    <3>2. x \in Int /\ y \in Int /\ k \in Int /\ l \in Int /\ W \in Int
      BY <1>1, <1>2
    <3>3. x + k = y + l + 0 \/ x + k = y + l + W \/ x + k = y + l + (-W)
      BY <3>1, <3>2
    <3>4. QED
      BY <3>3
  <2>2. x < y + shift + n /\ y + shift < x + m
    BY <1>1, <1>2, <2>1
  <2>3. QED
    BY <2>2
<1>9. OnCircle(a) \cap OnCircle(b) # {} =>
          \E k \in 0 .. m - 1, l \in 0 .. n - 1 : (x + k) % W = (y + l) % W
  BY <1>3
<1>10. (\E shift \in {-W, 0, W} : x < y + shift + n /\ y + shift < x + m)
           <=> OnCircle(a) \cap OnCircle(b) # {}
  BY <1>7, <1>8, <1>9
<1>11. QED
  BY <1>10 DEF W, x, y, m, n

LEMMA WeeksShare ==
    ASSUME NEW w, NEW o, IsWeek(w), IsWeek(o)
    PROVE  WeeksOverlap(w, o) <=> CircleOf(w) \cap CircleOf(o) # {}
<1>1. \A a \in Range(w), b \in Range(o) :
          (\E shift \in {-MinutesPerWeek, 0, MinutesPerWeek} :
               /\ weekStart(a) < weekStart(b) + shift + b.minutes
               /\ weekStart(b) + shift < weekStart(a) + a.minutes)
          <=> OnCircle(a) \cap OnCircle(b) # {}
  BY IntervalsShare DEF IsWeek
<1>2. WeeksOverlap(w, o) <=>
          \E a \in Range(w), b \in Range(o) : OnCircle(a) \cap OnCircle(b) # {}
  BY <1>1 DEF WeeksOverlap
<1>3. QED
  BY <1>2 DEF CircleOf
\* Sorted by weekday and start, as ByWeekStart leaves a list.
Sorted(w) == \A m, n \in DOMAIN w : m < n => weekStart(w[m]) <= weekStart(w[n])

End(a) == weekStart(a) + a.minutes

\* What follows is apart from an interval when each ends before the next.
LEMMA EndsBefore ==
    ASSUME NEW w \in Seq(WeeklyInterval), IsWeek(w), Sorted(w),
           \A n \in DOMAIN w : ~ OverlapsNext(w, n),
           NEW m \in DOMAIN w, NEW n \in DOMAIN w, m < n
    PROVE  End(w[m]) <= weekStart(w[n])
<1>1. DOMAIN w = 1 .. Len(w) /\ Len(w) \in Nat
  OBVIOUS
<1>2. m \in Nat /\ n \in Nat /\ m + 1 \in DOMAIN w /\ m < Len(w)
  BY <1>1
<1>3. \A k \in DOMAIN w : weekStart(w[k]) \in Nat /\ w[k].minutes \in Nat
  BY DEF IsWeek, InWeek, Range
<1>4. End(w[m]) <= weekStart(w[m + 1])
  <2>1. ~ OverlapsNext(w, m)
    OBVIOUS
  <2>2. ~ (weekStart(w[m]) + w[m].minutes > weekStart(w[m + 1]))
    BY <1>2, <2>1 DEF OverlapsNext
  <2>3. QED
    BY <1>2, <1>3, <2>2 DEF End
<1>5. weekStart(w[m + 1]) <= weekStart(w[n])
  <2>1. m + 1 = n \/ m + 1 < n
    BY <1>2
  <2>2. QED
    BY <1>2, <1>3, <2>1 DEF Sorted
<1>6. End(w[m]) \in Nat
  BY <1>3 DEF End
<1>7. QED
  BY <1>2, <1>3, <1>4, <1>5, <1>6

\* Comparing each interval with the next one, and the last with the first a
\* week later, is comparing all of them on the circular week.
LEMMA NeighboursAreEnough ==
    ASSUME NEW w \in Seq(WeeklyInterval), IsWeek(w), Sorted(w)
    PROVE  (\E n \in DOMAIN w : OverlapsNext(w, n)) <=> ~ Disjoint(w)
<1> DEFINE W == MinutesPerWeek
           s(n) == weekStart(w[n])
           l(n) == w[n].minutes
<1>1. DOMAIN w = 1 .. Len(w) /\ Len(w) \in Nat
  OBVIOUS
<1>2. \A k \in DOMAIN w : InWeek(w[k])
  BY DEF IsWeek, Range
<1>3. W \in Nat \ {0}
  BY AWeekIsLong
<1>4. \A k \in DOMAIN w : s(k) \in Nat /\ s(k) < W /\ l(k) \in Nat \ {0} /\ l(k) <= W
  BY <1>2 DEF InWeek
<1>5. \A m, n \in DOMAIN w : OnCircle(w[m]) \cap OnCircle(w[n]) # {} <=>
          \E shift \in {-W, 0, W} : s(m) < s(n) + shift + l(n) /\ s(n) + shift < s(m) + l(m)
  BY <1>2, IntervalsShare
<1>6. \A m, n \in DOMAIN w : m < n => s(m) <= s(n)
  BY DEF Sorted
<1>7. ASSUME NEW n \in DOMAIN w, OverlapsNext(w, n)
      PROVE  ~ Disjoint(w)
  <2>1. ASSUME n < Len(w)
        PROVE  ~ Disjoint(w)
    <3>1. n + 1 \in DOMAIN w /\ n \in Nat
      BY <1>1, <2>1
    <3>2. s(n) + l(n) > s(n + 1)
      BY <1>7, <2>1 DEF OverlapsNext
    <3>3. s(n) <= s(n + 1)
      BY <1>6, <3>1
    <3> HIDE DEF W, s, l
    <3>4. s(n) < s(n + 1) + 0 + l(n + 1) /\ s(n + 1) + 0 < s(n) + l(n)
      BY <1>4, <3>1, <3>2, <3>3
    <3>5. OnCircle(w[n]) \cap OnCircle(w[n + 1]) # {}
      BY <1>5, <3>1, <3>4
    <3>6. QED
      BY <3>1, <3>5 DEF Disjoint
  <2>2. ASSUME ~ (n < Len(w))
        PROVE  ~ Disjoint(w)
    <3>1. n > 1 /\ s(n) + l(n) > s(1) + W
      BY <1>7, <2>2 DEF OverlapsNext
    <3>2. 1 \in DOMAIN w /\ n \in Nat /\ 1 # n
      BY <1>1, <3>1
    <3> HIDE DEF W, s, l
    <3>3. s(n) < s(1) + W + l(1) /\ s(1) + W < s(n) + l(n)
      BY <1>3, <1>4, <3>1, <3>2
    <3>4. OnCircle(w[n]) \cap OnCircle(w[1]) # {}
      BY <1>5, <3>2, <3>3
    <3>5. QED
      BY <3>2, <3>4 DEF Disjoint
  <2>3. QED
    BY <2>1, <2>2
<1>8. ASSUME \A n \in DOMAIN w : ~ OverlapsNext(w, n), NEW m \in DOMAIN w, NEW n \in DOMAIN w, m < n
      PROVE  OnCircle(w[m]) \cap OnCircle(w[n]) = {}
  <2>1. s(m) + l(m) <= s(n)
    BY <1>8, EndsBefore DEF End
  <2>2. Len(w) \in DOMAIN w /\ 1 \in DOMAIN w /\ Len(w) > 1
    BY <1>1, <1>8
  <2>3. s(n) + l(n) <= s(m) + W
    <3>1. ~ OverlapsNext(w, Len(w))
      BY <1>8, <2>2
    <3>2. s(Len(w)) + l(Len(w)) <= s(1) + W
      <4>1. ~ (s(Len(w)) + l(Len(w)) > s(1) + W)
        BY <1>1, <2>2, <3>1 DEF OverlapsNext
      <4> HIDE DEF W, s, l
      <4>2. QED
        BY <1>3, <1>4, <2>2, <4>1
    <3>3. n = Len(w) \/ n < Len(w)
      BY <1>1
    <3>4. n < Len(w) => s(n) + l(n) <= s(Len(w))
      BY <1>8, <2>2, EndsBefore DEF End
    <3>5. s(1) <= s(m)
      <4>1. m = 1 \/ 1 < m
        BY <1>1
      <4>2. s(1) \in Nat
        BY <1>4, <2>2
      <4>3. QED
        BY <1>6, <2>2, <4>1, <4>2
    <3>6. /\ s(Len(w)) \in Nat /\ l(Len(w)) \in Nat /\ s(1) \in Nat /\ s(m) \in Nat
          /\ s(n) \in Nat /\ l(n) \in Nat /\ W \in Nat
      BY <1>3, <1>4, <2>2
    <3> HIDE DEF W, s, l
    <3>7. QED
      BY <3>2, <3>3, <3>4, <3>5, <3>6
  <2> HIDE DEF W, s, l
  <2>4. ~ \E shift \in {-W, 0, W} : s(m) < s(n) + shift + l(n) /\ s(n) + shift < s(m) + l(m)
    BY <1>3, <1>4, <2>1, <2>3
  <2>5. QED
    BY <1>5, <2>4
<1>9. (\A n \in DOMAIN w : ~ OverlapsNext(w, n)) => Disjoint(w)
  <2>1. SUFFICES ASSUME \A n \in DOMAIN w : ~ OverlapsNext(w, n),
                        NEW m \in DOMAIN w, NEW n \in DOMAIN w, m # n
                 PROVE  OnCircle(w[m]) \cap OnCircle(w[n]) = {}
    BY DEF Disjoint
  <2>2. m < n \/ n < m
    BY <1>1, <2>1
  <2>3. QED
    BY <1>8, <2>1, <2>2
<1>10. QED
  BY <1>7, <1>9

\* The list NewWeeklyHours keeps, or why not.
LEMMA AcceptedIs ==
    ASSUME NEW l, DOMAIN ByWeekStart(l) \subseteq Nat
    PROVE  NewWeeklyHours(l).err = "none" <=>
               \A n \in DOMAIN ByWeekStart(l) :
                   IntervalError(ByWeekStart(l), n) = "none" /\ ~ OverlapsNext(ByWeekStart(l), n)
<1> DEFINE sorted == ByWeekStart(l)
           bad == {n \in DOMAIN sorted : IntervalError(sorted, n) # "none"}
           over == \E n \in DOMAIN sorted : OverlapsNext(sorted, n)
           e == IntervalError(sorted, Min(bad))
<1>1. NewWeeklyHours(l) = CASE bad # {} -> [err |-> e, hours |-> << >>]
                            [] over -> [err |-> "overlapping", hours |-> << >>]
                            [] OTHER -> [err |-> "none", hours |-> sorted]
  BY DEF NewWeeklyHours
<1>2. bad # {} => e # "none"
  <2>1. bad \subseteq Nat
    OBVIOUS
  <2>2. bad # {} => Min(bad) \in bad
    <3> HIDE DEF bad
    <3>1. QED
      BY <2>1, LeastNumber DEF Min
  <2>3. QED
    BY <2>2
<1>3. (bad = {} /\ ~ over) <=>
          \A n \in DOMAIN sorted : IntervalError(sorted, n) = "none" /\ ~ OverlapsNext(sorted, n)
  OBVIOUS
<1> HIDE DEF sorted, bad, over, e
<1>4. NewWeeklyHours(l).err = "none" <=> bad = {} /\ ~ over
  BY <1>1, <1>2
<1>5. QED
  BY <1>3, <1>4 DEF sorted

\* An interval as sent, before it is checked.
AnyInterval == [day: Int, start: Int, minutes: Int]

\* Few enough of each day when each is few enough with those before it.
LEMMA CountedInOrder ==
    ASSUME NEW w \in Seq(AnyInterval)
    PROVE  (\A n \in DOMAIN w : Cardinality({k \in 1 .. n : w[k].day = w[n].day}) <= MaxPerDay)
           <=> \A d \in {w[n].day : n \in DOMAIN w} :
                   Cardinality({n \in DOMAIN w : w[n].day = d}) <= MaxPerDay
<1> DEFINE Upto(n) == {k \in 1 .. n : w[k].day = w[n].day}
           ofDay(d) == {n \in DOMAIN w : w[n].day = d}
<1>1. DOMAIN w = 1 .. Len(w) /\ Len(w) \in Nat /\ MaxPerDay \in Nat
  BY HoursSizes
<1>2. IsFiniteSet(DOMAIN w)
  BY <1>1, FS_Interval
<1>3. \A d : IsFiniteSet(ofDay(d)) /\ Cardinality(ofDay(d)) \in Nat
  BY <1>2, FS_Subset, FS_CardinalityType
<1>4. ASSUME NEW n \in DOMAIN w, \A d \in {w[k].day : k \in DOMAIN w} : Cardinality(ofDay(d)) <= MaxPerDay
      PROVE  Cardinality(Upto(n)) <= MaxPerDay
  <2>1. Upto(n) \subseteq ofDay(w[n].day)
    BY <1>1
  <2>2. Cardinality(Upto(n)) <= Cardinality(ofDay(w[n].day)) /\ Cardinality(Upto(n)) \in Nat
    BY <1>3, <2>1, FS_Subset, FS_CardinalityType
  <2>3. Cardinality(ofDay(w[n].day)) <= MaxPerDay
    BY <1>4
  <2> HIDE DEF Upto, ofDay
  <2>4. QED
    BY <1>1, <1>3, <2>2, <2>3
<1>5. ASSUME \A n \in DOMAIN w : Cardinality(Upto(n)) <= MaxPerDay, NEW m \in DOMAIN w
      PROVE  Cardinality(ofDay(w[m].day)) <= MaxPerDay
  <2> DEFINE d == w[m].day
             left == {Len(w) - n : n \in ofDay(d)}
  <2>1. left \subseteq Nat /\ left # {}
    BY <1>1
  <2>2. PICK a \in left : \A b \in left : a <= b
    BY <2>1, LeastNumber
  <2>3. PICK n \in ofDay(d) : a = Len(w) - n
    BY <2>2
  <2>4. ASSUME NEW k \in ofDay(d)
        PROVE  k <= n
    <3>1. Len(w) - k \in left /\ k \in Nat /\ n \in Nat /\ Len(w) \in Nat
      BY <1>1, <2>3
    <3>2. Len(w) - n <= Len(w) - k
      BY <2>2, <2>3, <3>1
    <3>3. QED
      BY <3>1, <3>2
  <2>5. Upto(n) = ofDay(d)
    <3>1. n \in DOMAIN w /\ w[n].day = d
      BY <2>3
    <3>2. \A k : k \in 1 .. n => k \in DOMAIN w
      BY <1>1, <3>1
    <3>3. \A k \in ofDay(d) : k \in 1 .. n
      BY <1>1, <2>4, <3>1
    <3>4. QED
      BY <3>1, <3>2, <3>3
  <2>6. QED
    BY <1>5, <2>3, <2>5
<1>6. QED
  BY <1>4, <1>5

\* What IntervalError has nothing against.
LEMMA NoError ==
    ASSUME NEW w \in Seq(AnyInterval)
    PROVE  (\A n \in DOMAIN w : IntervalError(w, n) = "none")
           <=> /\ Range(w) \subseteq WeeklyInterval
               /\ \A d \in 0 .. DaysPerWeek - 1 :
                      Cardinality({n \in DOMAIN w : w[n].day = d}) <= MaxPerDay
<1> DEFINE Upto(n) == {k \in 1 .. n : w[k].day = w[n].day}
           ofDay(d) == {n \in DOMAIN w : w[n].day = d}
<1>1. \A n \in DOMAIN w : w[n] \in AnyInterval
  OBVIOUS
<1>2. \A i \in AnyInterval :
          i \in WeeklyInterval <=> /\ i.day \in 0 .. DaysPerWeek - 1
                                   /\ i.start \in 0 .. MinutesPerDay - 1
                                   /\ i.minutes \in 1 .. MinutesPerDay
  BY DEF WeeklyInterval, AnyInterval
<1>3. \A n \in DOMAIN w : Cardinality(Upto(n)) \in Nat /\ MaxPerDay \in Nat
  <2>1. \A n \in DOMAIN w : IsFiniteSet(1 .. n)
    BY FS_Interval
  <2>2. QED
    BY <2>1, HoursSizes, FS_Subset, FS_CardinalityType
<1>4. ASSUME NEW n \in DOMAIN w
      PROVE  IntervalError(w, n) = "none" <=> w[n] \in WeeklyInterval /\ Cardinality(Upto(n)) <= MaxPerDay
  <2>1. Cardinality(Upto(n)) > MaxPerDay <=> ~ (Cardinality(Upto(n)) <= MaxPerDay)
    <3> HIDE DEF Upto
    <3>1. QED
      BY <1>3
  <2>2. IntervalError(w, n) =
            CASE w[n].day \notin 0 .. DaysPerWeek - 1 -> "invalid_weekday"
              [] w[n].start \notin 0 .. MinutesPerDay - 1 \/ w[n].minutes \notin 1 .. MinutesPerDay
                    -> "invalid_interval"
              [] Cardinality(Upto(n)) > MaxPerDay -> "too_many"
              [] OTHER -> "none"
    BY DEF IntervalError
  <2>3. w[n] \in WeeklyInterval <=> /\ w[n].day \in 0 .. DaysPerWeek - 1
                                    /\ w[n].start \in 0 .. MinutesPerDay - 1
                                    /\ w[n].minutes \in 1 .. MinutesPerDay
    BY <1>1, <1>2
  <2> HIDE DEF Upto
  <2>4. QED
    BY <2>1, <2>2, <2>3
<1>5. (\A n \in DOMAIN w : Cardinality(Upto(n)) <= MaxPerDay)
      <=> \A d \in {w[n].day : n \in DOMAIN w} : Cardinality(ofDay(d)) <= MaxPerDay
  BY CountedInOrder
<1>6. \A d : d \notin {w[n].day : n \in DOMAIN w} => Cardinality(ofDay(d)) <= MaxPerDay
  <2>1. Cardinality({}) = 0 /\ 0 <= MaxPerDay
    BY FS_EmptySet, HoursSizes
  <2>2. \A d : d \notin {w[n].day : n \in DOMAIN w} => ofDay(d) = {}
    OBVIOUS
  <2>3. QED
    BY <2>1, <2>2
<1>7. Range(w) \subseteq WeeklyInterval => {w[n].day : n \in DOMAIN w} \subseteq 0 .. DaysPerWeek - 1
  BY <1>1, <1>2 DEF Range
<1>8. Range(w) \subseteq WeeklyInterval <=> \A n \in DOMAIN w : w[n] \in WeeklyInterval
  BY DEF Range
<1> HIDE DEF Upto, ofDay
<1>9. Range(w) \subseteq WeeklyInterval =>
          ((\A n \in DOMAIN w : Cardinality(Upto(n)) <= MaxPerDay)
              <=> \A d \in 0 .. DaysPerWeek - 1 : Cardinality(ofDay(d)) <= MaxPerDay)
  BY <1>5, <1>6, <1>7
<1>10. (\A n \in DOMAIN w : IntervalError(w, n) = "none")
           <=> /\ Range(w) \subseteq WeeklyInterval
               /\ \A n \in DOMAIN w : Cardinality(Upto(n)) <= MaxPerDay
  BY <1>4, <1>8
<1>11. QED
  BY <1>9, <1>10 DEF ofDay

\* The intervals of a day.
OnDay(w, d) == {n \in DOMAIN w : w[n].day = d}

\* w is l in another order.
Rearranged(w, l) ==
    \E p \in Bijection(DOMAIN l, DOMAIN l) : w = [n \in DOMAIN l |-> l[p[n]]]

\* The order makes no difference to what hours are asked to be.
LEMMA OrderIsNothing ==
    ASSUME NEW w, NEW l \in Seq(AnyInterval), Rearranged(w, l)
    PROVE  /\ w \in Seq(AnyInterval)
           /\ Range(w) = Range(l)
           /\ Disjoint(w) <=> Disjoint(l)
           /\ \A d : Cardinality(OnDay(w, d)) = Cardinality(OnDay(l, d))
<1>1. PICK p \in [DOMAIN l -> DOMAIN l] :
          /\ \A m, n \in DOMAIN l : p[m] = p[n] => m = n
          /\ \A n \in DOMAIN l : \E m \in DOMAIN l : p[m] = n
          /\ w = [n \in DOMAIN l |-> l[p[n]]]
  BY DEF Rearranged, Bijection, Injection, Surjection, IsInjective
<1>2. DOMAIN l = 1 .. Len(l) /\ Len(l) \in Nat /\ DOMAIN w = DOMAIN l
  BY <1>1
<1>3. w \in Seq(AnyInterval)
  <2>1. w \in [1 .. Len(l) -> AnyInterval]
    BY <1>1, <1>2
  <2>2. QED
    BY <1>2, <2>1, SeqDef
<1>4. Range(w) = Range(l)
  <2>1. \A n \in DOMAIN w : p[n] \in DOMAIN l /\ w[n] = l[p[n]]
    BY <1>1, <1>2
  <2>2. \A n \in DOMAIN l : \E m \in DOMAIN w : w[m] = l[n]
    BY <1>1, <1>2
  <2>3. \A n \in DOMAIN w : w[n] \in Range(l)
    BY <2>1 DEF Range
  <2>4. \A n \in DOMAIN l : l[n] \in Range(w)
    BY <2>2 DEF Range
  <2>5. QED
    BY <2>3, <2>4 DEF Range
<1>5. Disjoint(l) => Disjoint(w)
  BY <1>1, <1>2 DEF Disjoint
<1>6. Disjoint(w) => Disjoint(l)
  <2>1. SUFFICES ASSUME Disjoint(w), NEW m \in DOMAIN l, NEW n \in DOMAIN l, m # n
                 PROVE  OnCircle(l[m]) \cap OnCircle(l[n]) = {}
    BY DEF Disjoint
  <2>2. PICK i \in DOMAIN l : p[i] = m
    BY <1>1
  <2>3. PICK j \in DOMAIN l : p[j] = n
    BY <1>1
  <2>4. i # j /\ w[i] = l[m] /\ w[j] = l[n]
    BY <1>1, <2>1, <2>2, <2>3
  <2>5. QED
    BY <1>2, <2>1, <2>4 DEF Disjoint
<1>7. ASSUME NEW d
      PROVE  Cardinality(OnDay(w, d)) = Cardinality(OnDay(l, d))
  <2> DEFINE A == {n \in DOMAIN w : w[n].day = d}
             B == {n \in DOMAIN l : l[n].day = d}
             f == [n \in A |-> p[n]]
  <2>1. IsFiniteSet(A)
    <3>1. IsFiniteSet(DOMAIN l)
      BY <1>2, FS_Interval
    <3>2. A \in SUBSET DOMAIN l
      BY <1>2
    <3>3. QED
      BY <3>1, <3>2, FS_Subset
  <2>2. f \in [A -> B]
    BY <1>1, <1>2
  <2>3. \A m, n \in A : f[m] = f[n] => m = n
    BY <1>1, <1>2
  <2>4. \A n \in B : \E m \in A : f[m] = n
    BY <1>1, <1>2
  <2> HIDE DEF A, B, f
  <2>5. f \in Bijection(A, B)
    BY <2>2, <2>3, <2>4 DEF Bijection, Injection, Surjection, IsInjective
  <2>6. ExistsBijection(A, B)
    BY <2>5 DEF ExistsBijection
  <2>7. Cardinality(B) = Cardinality(A)
    BY <2>1, <2>6, FS_Bijection
  <2>8. QED
    BY <2>7 DEF OnDay, A, B
<1>8. QED
  BY <1>3, <1>4, <1>5, <1>6, <1>7

LEMMA WeeklyInWeek == \A a \in WeeklyInterval : InWeek(a)
<1>1. \A a \in WeeklyInterval : /\ a.day \in 0 .. DaysPerWeek - 1
                                  /\ a.start \in 0 .. MinutesPerDay - 1
                                  /\ a.minutes \in 1 .. MinutesPerDay
  BY DEF WeeklyInterval
<1>2. QED
  BY <1>1, IntervalInWeek

\* The opening and closing times that a page shows of an interval give the
\* interval back, round the clock and past midnight too (IntervalFromClock,
\* WeeklyInterval.Clock).
THEOREM ClockIsTheInterval ==
    ASSUME NEW i \in WeeklyInterval
    PROVE  IntervalFromClock(i.day, Clock(i)[1], Clock(i)[2]) = i
<1> DEFINE M == MinutesPerDay
           s == i.start
           m == i.minutes
           closes == IF s + m = M THEN s + m ELSE (s + m) % M
           back == (closes - s) % M
<1>1. M \in Nat \ {0}
  BY HoursSizes
<1>2. s \in Nat /\ s < M /\ m \in Nat \ {0} /\ m <= M
  BY <1>1 DEF WeeklyInterval
<1>3. i = [day |-> i.day, start |-> s, minutes |-> m]
  BY DEF WeeklyInterval
<1>4. IntervalFromClock(i.day, Clock(i)[1], Clock(i)[2])
          = [day |-> i.day, start |-> s, minutes |-> IF back = 0 THEN M ELSE back]
  BY DEF IntervalFromClock, Clock
<1> HIDE DEF M, s, m
<1>5. (IF back = 0 THEN M ELSE back) = m
  <2>1. \A u \in Nat : u < M => u % M = u /\ (u + M) % M = u /\ (u - M) % M = u
    BY <1>1
  <2>2. M % M = 0 /\ 0 % M = 0
    BY <1>1
  <2>3. CASE s + m < M
    <3>1. closes = s + m
      BY <1>1, <1>2, <2>1, <2>3
    <3>2. closes - s = m /\ m < M
      BY <1>1, <1>2, <2>3, <3>1
    <3> HIDE DEF closes
    <3>3. back = m
      BY <1>1, <1>2, <2>1, <3>2
    <3>4. QED
      BY <1>2, <3>3
  <2>4. CASE s + m = M
    <3>1. closes - s = m
      BY <1>1, <1>2, <2>4
    <3> HIDE DEF closes
    <3>2. back = IF m = M THEN 0 ELSE m
      BY <1>1, <1>2, <2>1, <2>2, <3>1
    <3>3. QED
      BY <1>2, <3>2
  <2>5. CASE s + m > M
    <3>1. s + m - M \in Nat /\ s + m - M < M /\ s + m = (s + m - M) + M
      BY <1>1, <1>2, <2>5
    <3>2. (s + m) % M = s + m - M
      BY <2>1, <3>1
    <3>3. closes = s + m - M
      BY <1>1, <1>2, <2>5, <3>2
    <3>4. closes - s = m - M
      BY <1>1, <1>2, <3>3
    <3> HIDE DEF closes
    <3>5. back = IF m = M THEN 0 ELSE m
      <4>1. back = (m - M) % M
        BY <3>4
      <4>2. CASE m = M
        <5>1. m - M = 0
          BY <1>1, <4>2
        <5>2. QED
          BY <2>2, <4>1, <4>2, <5>1
      <4>3. CASE m # M
        <5>1. m < M
          BY <1>1, <1>2, <4>3
        <5>2. QED
          BY <1>2, <2>1, <4>1, <4>3, <5>1
      <4>4. QED
        BY <4>2, <4>3
    <3>6. QED
      BY <1>2, <3>5
  <2>6. QED
    BY <1>1, <1>2, <2>3, <2>4, <2>5
<1>6. QED
  BY <1>3, <1>4, <1>5

\* NewWeeklyHours, which compares neighbours only, accepts exactly the lists of
\* valid intervals, few enough a day, of which no two share a minute of the
\* circular week, for a day and a week of any length and any number of
\* intervals, given that ByWeekStart sorts (Go's slices.SortFunc).
THEOREM AcceptedExactly ==
    ASSUME NEW l \in Seq(AnyInterval),
           Rearranged(ByWeekStart(l), l), Sorted(ByWeekStart(l))
    PROVE  NewWeeklyHours(l).err = "none" <=>
               /\ Range(l) \subseteq WeeklyInterval
               /\ \A d \in 0 .. DaysPerWeek - 1 :
                      Cardinality({n \in DOMAIN l : l[n].day = d}) <= MaxPerDay
               /\ Disjoint(l)
<1> DEFINE w == ByWeekStart(l)
<1>1. /\ w \in Seq(AnyInterval)
      /\ Range(w) = Range(l)
      /\ Disjoint(w) <=> Disjoint(l)
      /\ \A d : Cardinality(OnDay(w, d)) = Cardinality(OnDay(l, d))
  BY OrderIsNothing
<1> HIDE DEF w
<1>2. NewWeeklyHours(l).err = "none" <=>
          \A n \in DOMAIN w : IntervalError(w, n) = "none" /\ ~ OverlapsNext(w, n)
  <2>1. DOMAIN w \subseteq Nat
    BY <1>1
  <2>2. QED
    BY <2>1, AcceptedIs DEF w
<1>3. (\A n \in DOMAIN w : IntervalError(w, n) = "none")
      <=> /\ Range(w) \subseteq WeeklyInterval
          /\ \A d \in 0 .. DaysPerWeek - 1 : Cardinality(OnDay(w, d)) <= MaxPerDay
  BY <1>1, NoError DEF OnDay
<1>4. ASSUME Range(w) \subseteq WeeklyInterval
      PROVE  (\A n \in DOMAIN w : ~ OverlapsNext(w, n)) <=> Disjoint(w)
  <2>1. \A n \in DOMAIN w : w[n] \in WeeklyInterval
    BY <1>4 DEF Range
  <2>2. w \in Seq(WeeklyInterval)
    <3>1. w \in [1 .. Len(w) -> WeeklyInterval] /\ Len(w) \in Nat
      BY <1>1, <2>1
    <3>2. QED
      BY <3>1, SeqDef
  <2>3. IsWeek(w)
    BY <1>4, WeeklyInWeek DEF IsWeek
  <2>4. QED
    BY <2>2, <2>3, NeighboursAreEnough DEF w
<1>5. NewWeeklyHours(l).err = "none" <=>
          /\ Range(l) \subseteq WeeklyInterval
          /\ \A d \in 0 .. DaysPerWeek - 1 : Cardinality(OnDay(l, d)) <= MaxPerDay
          /\ Disjoint(l)
  BY <1>1, <1>2, <1>3, <1>4
<1>6. QED
  BY <1>5 DEF OnDay

\* The rule that keeps a person out of two shops calls two weeks overlapping
\* exactly when they share a minute of the circular week (WeeklyHours.Overlaps).
THEOREM OverlapIsASharedMinute ==
    \A w, o \in Seq(WeeklyInterval) : WeeksOverlap(w, o) <=> CircleOf(w) \cap CircleOf(o) # {}
<1>1. \A w \in Seq(WeeklyInterval) : IsWeek(w)
  BY WeeklyInWeek DEF IsWeek, Range
<1>2. QED
  BY <1>1, WeeksShare

-----------------------------------------------------------------------------
(***************************************************************************)
(* Opening hours, schedules and time off.  A calendar is saved under its   *)
(* version, so a page whose version still matches shows the calendar as it *)
(* is; a barber's schedules are checked against each other under one lock. *)
(***************************************************************************)
\* Weekly hours that NewWeeklyHours made of what people send.
SchedWeeks == {NewWeeklyHours(w).hours : w \in WeekChoices} \cup {<< >>}

SchedOverrides == OverrideChoices \cup {<< >>}

SchedContents == [weekly: SchedWeeks, overrides: SchedOverrides]

SchedRecords == [version: Nat, content: SchedContents]

SchedPcs == {"idle", "row", "hours", "page", "asked", "locked", "held"}

SchedSubjects == SchedKeys \cup {<<"none", NoStaff, NoStaff>>}

SchedElsewhere == SUBSET SchedWeeks

SchedCalls == [pc: SchedPcs, key: SchedSubjects, page: SchedRecords, put: SchedContents,
               elsewhere: SchedElsewhere]

SchedEvents == [branch: SchedBranches, version: Nat, hours: SchedWeeks]

SchedTypes ==
    /\ calendars \in [SchedKeys -> SchedRecords]
    /\ clients \in [SchedClients -> SchedCalls]
    /\ hoursEvents \in Seq(SchedEvents)

\* A row that was never saved is empty, and opening hours have no overrides.
CalendarFits(k, row) ==
    /\ row.version = 0 => row = NeverSaved
    /\ IsHours(k) => row.content.overrides = << >>

\* The hours of the person of key at other branches are among those read.
ElsewhereIs(read, key, cal) ==
    \A k \in SchedKeys :
        (~ IsHours(k) /\ k[3] = key[3] /\ k[2] # key[2] /\ ~ IsClosed(cal[k].content.weekly))
            => cal[k].content.weekly \in read

\* What a client has is no newer than the row, and as far as it was read it
\* is the row if the row still has the version read first.  Whoever holds a
\* row that is there holds the version it expects.
ClientFits(me, cal) ==
    me.pc # "idle" =>
        /\ me.key \in SchedKeys
        /\ me.page.version <= cal[me.key].version
        /\ IsHours(me.key) => me.pc # "hours" /\ me.put.overrides = << >>
        /\ (IsHours(me.key) \/ me.pc \in {"row", "hours"}) => me.page.content.overrides = << >>
        /\ (me.pc # "row" /\ me.page.version = cal[me.key].version)
              => me.page.content.weekly = cal[me.key].content.weekly
        /\ (me.pc \notin {"row", "hours"} /\ me.page.version = cal[me.key].version)
              => me.page.content.overrides = cal[me.key].content.overrides
        /\ (me.pc = "held" /\ me.page.version > 0) => me.page.version = cal[me.key].version
        /\ (me.pc = "held" /\ ~ IsHours(me.key)) => ElsewhereIs(me.elsewhere, me.key, cal)

\* The person's lock, and the lock of a row that is there.
Apart(me, you) ==
    /\ (/\ me.pc \in {"locked", "held"} /\ you.pc \in {"locked", "held"}
        /\ ~ IsHours(me.key) /\ ~ IsHours(you.key)) => me.key[3] # you.key[3]
    /\ (me.pc = "held" /\ you.pc = "held" /\ me.key = you.key)
           => me.page.version = 0 \/ you.page.version = 0

SchedFits ==
    /\ \A k \in SchedKeys : CalendarFits(k, calendars[k])
    /\ \A c \in SchedClients : ClientFits(clients[c], calendars)
    /\ \A c, d \in SchedClients : c # d => Apart(clients[c], clients[d])

-----------------------------------------------------------------------------
\* Steps of a request that save nothing.
SchedGoesOn(c, me) ==
    /\ me \in SchedCalls
    /\ ClientFits(me, calendars)
    /\ \A d \in SchedClients : d # c => Apart(me, clients[d])
    /\ clients' = [clients EXCEPT ![c] = me]
    /\ UNCHANGED <<calendars, timeOff, hoursEvents>>

LEMMA SchedConstants ==
    /\ Empty \in SchedContents /\ NeverSaved \in SchedRecords /\ NoClient \in SchedCalls
    /\ SchedKeys \subseteq SchedSubjects /\ {} \in SchedElsewhere
    /\ << >> \in SchedWeeks /\ << >> \in SchedOverrides
    /\ \A w \in WeekChoices : NewWeeklyHours(w).hours \in SchedWeeks
    /\ OverrideChoices \subseteq SchedOverrides
<1>1. << >> \in SchedWeeks /\ << >> \in SchedOverrides /\ {} \in SchedElsewhere
  BY DEF SchedWeeks, SchedOverrides, SchedElsewhere
<1>2. Empty \in SchedContents
  BY <1>1 DEF SchedContents, Empty
<1>3. NeverSaved \in SchedRecords
  BY <1>2 DEF NeverSaved, SchedRecords
<1>4. <<"none", NoStaff, NoStaff>> \in SchedSubjects /\ SchedKeys \subseteq SchedSubjects
  BY DEF SchedSubjects
<1>5. NoClient \in SchedCalls
  BY <1>1, <1>2, <1>3, <1>4 DEF NoClient, SchedCalls, SchedPcs
<1> QED
  BY <1>1, <1>2, <1>3, <1>4, <1>5 DEF SchedWeeks, SchedOverrides

LEMMA IdleFits ==
    ASSUME NEW me, me.pc = "idle", NEW cal, NEW you
    PROVE  ClientFits(me, cal) /\ Apart(me, you) /\ Apart(you, me)
BY DEF ClientFits, Apart

LEMMA ApartIsMutual ==
    ASSUME NEW me, NEW you, Apart(me, you)
    PROVE  Apart(you, me)
BY DEF Apart

LEMMA SchedOver ==
    ASSUME SchedTypes, NEW c \in SchedClients, Done(c), UNCHANGED <<calendars, timeOff, hoursEvents>>
    PROVE  \E me : SchedGoesOn(c, me)
<1>1. NoClient.pc = "idle" /\ NoClient \in SchedCalls
  BY SchedConstants DEF NoClient
<1>2. SchedGoesOn(c, NoClient)
  BY <1>1, IdleFits DEF SchedGoesOn, Done
<1> QED
  BY <1>2

LEMMA SchedGetRow ==
    ASSUME SchedTypes, SchedFits, NEW c \in SchedClients, NEW key \in SchedKeys, GetRow(c, key)
    PROVE  \E me : SchedGoesOn(c, me)
<1> DEFINE v == calendars[key].version
           st == IF v = 0 THEN "page" ELSE "row"
           page == [NeverSaved EXCEPT !.version = v]
           me == [NoClient EXCEPT !.key = key, !.page = page, !.pc = st]
<1>1. v \in Nat /\ CalendarFits(key, calendars[key])
  BY DEF SchedTypes, SchedRecords, SchedFits
<1>2. page = [version |-> v, content |-> Empty]
  BY DEF NeverSaved
<1>4. clients' = [clients EXCEPT ![c] = me] /\ UNCHANGED <<calendars, timeOff, hoursEvents>>
  BY DEF GetRow, NoClient, NeverSaved
<1>5. st \in {"page", "row"} /\ (st = "page" => v = 0)
  OBVIOUS
<1> HIDE DEF st, v
<1>6. page \in SchedRecords
  BY <1>1, <1>2, SchedConstants DEF SchedRecords
<1> HIDE DEF page
<1>a. st \in SchedPcs /\ key \in SchedSubjects
  BY <1>5 DEF SchedPcs, SchedSubjects
<1>3. NoClient \in SchedCalls /\ NoClient.put = Empty
  BY SchedConstants DEF NoClient
<1>7. me \in SchedCalls /\ me.pc = st /\ me.key = key /\ me.page = page /\ me.put = NoClient.put
  BY <1>a, <1>3, <1>6 DEF SchedCalls
<1> HIDE DEF me
<1>8. /\ me.pc = st /\ me.key = key /\ me.page.version = v /\ me.page.content.weekly = << >>
      /\ me.page.content.overrides = << >> /\ me.put.overrides = << >>
  BY <1>2, <1>3, <1>7 DEF Empty
<1>9. v = 0 => calendars[key].content.weekly = << >> /\ calendars[key].content.overrides = << >>
  BY <1>1 DEF CalendarFits, NeverSaved, Empty, v
<1>10. ClientFits(me, calendars)
  BY <1>1, <1>5, <1>8, <1>9 DEF ClientFits, v
<1>11. \A d \in SchedClients : Apart(me, clients[d])
  BY <1>5, <1>8 DEF Apart
<1>12. SchedGoesOn(c, me)
  BY <1>4, <1>7, <1>10, <1>11 DEF SchedGoesOn
<1> QED
  BY <1>12

\* The client reads on, puts or waits: its new record is like the old one
\* but for what the step sets.
LEMMA SchedGetHours ==
    ASSUME SchedTypes, SchedFits, NEW c \in SchedClients, GetHours(c)
    PROVE  \E me : SchedGoesOn(c, me)
<1> DEFINE old == clients[c]
           key == old.key
           w == calendars[key].content.weekly
           st == IF IsHours(key) THEN "page" ELSE "hours"
           content == [old.page.content EXCEPT !.weekly = w]
           page == [old.page EXCEPT !.content = content]
           me == [old EXCEPT !.page = page, !.pc = st]
<1>1. /\ old \in SchedCalls /\ old.pc = "row" /\ key \in SchedKeys
      /\ ClientFits(old, calendars) /\ CalendarFits(key, calendars[key])
  BY DEF SchedTypes, SchedFits, GetHours, ClientFits
<1>2. w \in SchedWeeks
  BY <1>1 DEF SchedTypes, SchedRecords, SchedContents
<1>3. clients' = [clients EXCEPT ![c] = me] /\ UNCHANGED <<calendars, timeOff, hoursEvents>>
  BY DEF GetHours, SchedTypes
<1>4. st \in {"page", "hours"} /\ (st = "page" <=> IsHours(key))
  OBVIOUS
<1> HIDE DEF st, w
<1>5. content \in SchedContents /\ content.weekly = w /\ content.overrides = old.page.content.overrides
  BY <1>1, <1>2 DEF SchedCalls, SchedRecords, SchedContents
<1> HIDE DEF content
<1>6. page \in SchedRecords /\ page.version = old.page.version /\ page.content = content
  BY <1>1, <1>5 DEF SchedCalls, SchedRecords
<1> HIDE DEF page
<1>7. /\ me \in SchedCalls /\ me.pc = st /\ me.key = key /\ me.page = page /\ me.put = old.put
  BY <1>1, <1>4, <1>6 DEF SchedCalls, SchedPcs
<1> HIDE DEF me
<1>8. ClientFits(me, calendars)
  BY <1>1, <1>4, <1>5, <1>6, <1>7 DEF ClientFits, CalendarFits, w
<1>9. \A d \in SchedClients : Apart(me, clients[d])
  BY <1>4, <1>7 DEF Apart
<1>10. SchedGoesOn(c, me)
  BY <1>3, <1>7, <1>8, <1>9 DEF SchedGoesOn
<1> QED
  BY <1>10

LEMMA SchedGetOverrides ==
    ASSUME SchedTypes, SchedFits, NEW c \in SchedClients, GetOverrides(c)
    PROVE  \E me : SchedGoesOn(c, me)
<1> DEFINE old == clients[c]
           key == old.key
           o == calendars[key].content.overrides
           content == [old.page.content EXCEPT !.overrides = o]
           page == [old.page EXCEPT !.content = content]
           me == [old EXCEPT !.page = page, !.pc = "page"]
<1>1. /\ old \in SchedCalls /\ old.pc = "hours" /\ key \in SchedKeys
      /\ ClientFits(old, calendars) /\ CalendarFits(key, calendars[key])
  BY DEF SchedTypes, SchedFits, GetOverrides, ClientFits
<1>2. o \in SchedOverrides
  BY <1>1 DEF SchedTypes, SchedRecords, SchedContents
<1>3. clients' = [clients EXCEPT ![c] = me] /\ UNCHANGED <<calendars, timeOff, hoursEvents>>
  BY DEF GetOverrides, SchedTypes
<1> HIDE DEF o
<1>5. content \in SchedContents /\ content.overrides = o /\ content.weekly = old.page.content.weekly
  BY <1>1, <1>2 DEF SchedCalls, SchedRecords, SchedContents
<1> HIDE DEF content
<1>6. page \in SchedRecords /\ page.version = old.page.version /\ page.content = content
  BY <1>1, <1>5 DEF SchedCalls, SchedRecords
<1> HIDE DEF page
<1>7. /\ me \in SchedCalls /\ me.pc = "page" /\ me.key = key /\ me.page = page /\ me.put = old.put
  BY <1>1, <1>6 DEF SchedCalls, SchedPcs
<1> HIDE DEF me
<1>8. ClientFits(me, calendars)
  BY <1>1, <1>5, <1>6, <1>7 DEF ClientFits, CalendarFits, o
<1>9. \A d \in SchedClients : Apart(me, clients[d])
  BY <1>7 DEF Apart
<1>10. SchedGoesOn(c, me)
  BY <1>3, <1>7, <1>8, <1>9 DEF SchedGoesOn
<1> QED
  BY <1>10

LEMMA SchedPut ==
    ASSUME SchedTypes, SchedFits, NEW c \in SchedClients, Put(c)
    PROVE  \E me : SchedGoesOn(c, me)
<1>1. PICK w \in WeekChoices, o \in OverrideChoices :
          /\ IsHours(clients[c].key) => o = << >>
          /\ \/ Done(c)
             \/ clients' = [clients EXCEPT ![c].put = [weekly |-> NewWeeklyHours(w).hours, overrides |-> o],
                                           ![c].pc = "asked"]
  BY DEF Put
<1>2. CASE Done(c)
  BY <1>2, SchedOver DEF Put
<1>3. CASE clients' = [clients EXCEPT ![c].put = [weekly |-> NewWeeklyHours(w).hours, overrides |-> o],
                                      ![c].pc = "asked"]
  <2> DEFINE old == clients[c]
             h == NewWeeklyHours(w).hours
             put == [weekly |-> h, overrides |-> o]
             me == [old EXCEPT !.put = put, !.pc = "asked"]
  <2>1. /\ old \in SchedCalls /\ old.pc = "page" /\ ClientFits(old, calendars)
        /\ UNCHANGED <<calendars, timeOff, hoursEvents>>
    BY DEF Put, SchedTypes, SchedFits
  <2>2. h \in SchedWeeks /\ o \in SchedOverrides
    BY SchedConstants
  <2>3. clients' = [clients EXCEPT ![c] = me]
    BY <1>3 DEF SchedTypes
  <2> HIDE DEF h
  <2>4. put \in SchedContents /\ put.overrides = o
    BY <2>2 DEF SchedContents
  <2> HIDE DEF put
  <2>5. /\ me \in SchedCalls /\ me.pc = "asked" /\ me.put = put /\ me.key = old.key
        /\ me.page = old.page
    BY <2>1, <2>4 DEF SchedCalls, SchedPcs
  <2> HIDE DEF me
  <2>6. ClientFits(me, calendars)
    BY <1>1, <2>1, <2>4, <2>5 DEF ClientFits
  <2>7. \A d \in SchedClients : Apart(me, clients[d])
    BY <2>5 DEF Apart
  <2>8. SchedGoesOn(c, me)
    BY <2>1, <2>3, <2>5, <2>6, <2>7 DEF SchedGoesOn
  <2> QED
    BY <2>8
<1> QED
  BY <1>1, <1>2, <1>3

LEMMA SchedLock ==
    ASSUME SchedTypes, SchedFits, NEW c \in SchedClients, Lock(c)
    PROVE  \E me : SchedGoesOn(c, me)
<1> DEFINE old == clients[c]
           me == [old EXCEPT !.pc = "locked"]
<1>1. /\ old \in SchedCalls /\ old.pc = "asked" /\ ClientFits(old, calendars)
      /\ UNCHANGED <<calendars, timeOff, hoursEvents>>
      /\ clients' = [clients EXCEPT ![c] = me]
  BY DEF Lock, Step, SchedTypes, SchedFits
<1>2. /\ me \in SchedCalls /\ me.pc = "locked" /\ me.key = old.key /\ me.put = old.put
      /\ me.page = old.page
  BY <1>1 DEF SchedCalls, SchedPcs
<1> HIDE DEF me
<1>3. ClientFits(me, calendars)
  BY <1>1, <1>2 DEF ClientFits
<1>4. ASSUME NEW d \in SchedClients
      PROVE  Apart(me, clients[d])
  BY <1>2 DEF Apart, Lock, PersonLocked
<1>5. SchedGoesOn(c, me)
  BY <1>1, <1>2, <1>3, <1>4 DEF SchedGoesOn
<1> QED
  BY <1>5

LEMMA SchedLoad ==
    ASSUME SchedTypes, SchedFits, NEW c \in SchedClients, Load(c)
    PROVE  \E me : SchedGoesOn(c, me)
<1>1. CASE Done(c)
  BY <1>1, SchedOver DEF Load
<1>2. CASE ~ Done(c)
  <2> DEFINE old == clients[c]
             key == old.key
             es == IF IsHours(key) THEN {} ELSE hoursElsewhere(key)
             me == [old EXCEPT !.pc = "held", !.elsewhere = es]
  <2>1. /\ old \in SchedCalls /\ old.pc = "locked" /\ ClientFits(old, calendars)
        /\ key \in SchedKeys
        /\ UNCHANGED <<calendars, timeOff, hoursEvents>>
        /\ calendars[key].version = old.page.version
        /\ ~ RowHeld(key)
        /\ clients' = [clients EXCEPT ![c] = me]
    BY <1>2 DEF Load, VersionIs, SchedTypes, SchedFits, ClientFits
  <2>2. ASSUME NEW k \in SchedKeys
        PROVE  calendars[k].content.weekly \in SchedWeeks
    BY DEF SchedTypes, SchedRecords, SchedContents
  <2>3. es \in SchedElsewhere
    BY <2>2 DEF hoursElsewhere, SchedElsewhere
  <2>4. ~ IsHours(key) => ElsewhereIs(es, key, calendars)
    BY DEF hoursElsewhere, ElsewhereIs
  <2> HIDE DEF es
  <2>5. /\ me \in SchedCalls /\ me.pc = "held" /\ me.key = key /\ me.put = old.put
        /\ me.page = old.page /\ me.elsewhere = es
    BY <2>1, <2>3 DEF SchedCalls, SchedPcs
  <2> HIDE DEF me
  <2>6. ClientFits(me, calendars)
    BY <2>1, <2>4, <2>5 DEF ClientFits
  <2>7. ASSUME NEW d \in SchedClients, d # c
        PROVE  Apart(me, clients[d])
    <3>1. Apart(old, clients[d])
      BY <2>7 DEF SchedFits
    <3>2. clients[d].pc = "held" /\ clients[d].key = key => clients[d].page.version = 0
      <4>1. clients[d].page.version \in Nat
        BY DEF SchedTypes, SchedCalls, SchedRecords
      <4> QED
        BY <2>1, <4>1 DEF RowHeld
    <3> QED
      BY <2>1, <2>5, <3>1, <3>2 DEF Apart
  <2>8. SchedGoesOn(c, me)
    BY <2>1, <2>5, <2>6, <2>7 DEF SchedGoesOn
  <2> QED
    BY <2>8
<1> QED
  BY <1>1, <1>2

-----------------------------------------------------------------------------
\* A save that is not refused: the row is the page it was made from, and what
\* is put there is clear of the person's hours elsewhere.
SchedSavedAs(c, row) ==
    LET key == clients[c].key
    IN  /\ clients[c].pc = "held" /\ key \in SchedKeys
        /\ row \in SchedRecords
        /\ row.version = calendars[key].version + 1
        /\ calendars[key].version = clients[c].page.version
        /\ IsHours(key) => row.content.overrides = << >>
        /\ ~ IsHours(key) => \A o \in clients[c].elsewhere : ~ WeeksOverlap(row.content.weekly, o)
        /\ calendars' = [calendars EXCEPT ![key] = row]
        /\ hoursEvents' = IF IsHours(key)
                          THEN Append(hoursEvents, [branch |-> key[2], version |-> row.version,
                                                    hours |-> row.content.weekly])
                          ELSE hoursEvents
        /\ clients' = [clients EXCEPT ![c] = NoClient]
        /\ UNCHANGED timeOff

LEMMA SetErrorMeans ==
    ASSUME NEW w, NEW o, NEW es, SetError(w, o, es) = "none"
    PROVE  \A x \in es : ~ WeeksOverlap(w, x)
BY DEF SetError

LEMMA SchedSave ==
    ASSUME SchedTypes, SchedFits, NEW c \in SchedClients, Save(c)
    PROVE  \E me : SchedGoesOn(c, me) \/ SchedSavedAs(c, me)
<1>1. CASE SaveError(c) # "none"
  BY <1>1, SchedOver DEF Save
<1>2. CASE SaveError(c) = "none"
  <2> DEFINE old == clients[c]
             key == old.key
             v == old.page.version
             put == old.put
             row == [version |-> v + 1, content |-> put]
  <2>1. /\ old \in SchedCalls /\ old.pc = "held" /\ key \in SchedKeys
        /\ ClientFits(old, calendars)
    BY DEF Save, SchedTypes, SchedFits, ClientFits
  <2>2. v \in Nat /\ put \in SchedContents /\ calendars[key].version \in Nat
    BY <2>1 DEF SchedCalls, SchedRecords, SchedTypes
  <2>3. /\ ~ InsertConflict(key, v)
        /\ ~ IsHours(key) => SetError(put.weekly, put.overrides, old.elsewhere) = "none"
    BY <1>2 DEF SaveError
  <2>4. calendars[key].version = v
    BY <2>1, <2>2, <2>3 DEF InsertConflict, ClientFits
  <2>5. IsHours(key) => put.overrides = << >>
    BY <2>1 DEF ClientFits
  <2>6. ~ IsHours(key) => \A x \in old.elsewhere : ~ WeeksOverlap(put.weekly, x)
    BY <2>3, SetErrorMeans
  <2>7. Saved(c) = row
    BY DEF Saved
  <2>8. /\ calendars' = [calendars EXCEPT ![key] = row]
        /\ hoursEvents' = IF IsHours(key)
                          THEN Append(hoursEvents, [branch |-> key[2], version |-> row.version,
                                                    hours |-> row.content.weekly])
                          ELSE hoursEvents
        /\ clients' = [clients EXCEPT ![c] = NoClient]
        /\ UNCHANGED timeOff
    BY <1>2, <2>7 DEF Save, HoursEvent, Done
  <2> HIDE DEF put, v
  <2>9. row \in SchedRecords /\ row.version = v + 1 /\ row.content = put
    BY <2>2 DEF SchedRecords
  <2> HIDE DEF row
  <2>10. SchedSavedAs(c, row)
    BY <2>1, <2>4, <2>5, <2>6, <2>8, <2>9 DEF SchedSavedAs, v
  <2> QED
    BY <2>10
<1> QED
  BY <1>1, <1>2

\* Every step is of one of these kinds.
LEMMA SchedSteps ==
    ASSUME SchedTypes, SchedFits, PagesNext
    PROVE  \E c \in SchedClients : \E me : SchedGoesOn(c, me) \/ SchedSavedAs(c, me)
<1>1. ASSUME NEW c \in SchedClients, SchedAbort(c) PROVE \E me : SchedGoesOn(c, me)
  BY <1>1, SchedOver DEF SchedAbort
<1> QED
  BY <1>1, SchedGetRow, SchedGetHours, SchedGetOverrides, SchedPut, SchedLock, SchedLoad, SchedSave
     DEF PagesNext

-----------------------------------------------------------------------------
(* Weekly hours that NewWeeklyHours accepts are weeks, and overlapping is   *)
(* mutual.                                                                  *)

LEMMA HoursAreWeeks ==
    ASSUME NEW w
    PROVE  IsWeek(NewWeeklyHours(w).hours)
<1> DEFINE sorted == ByWeekStart(w)
           bad == {n \in DOMAIN sorted : IntervalError(sorted, n) # "none"}
           over == \E n \in DOMAIN sorted : OverlapsNext(sorted, n)
           e == IntervalError(sorted, Min(bad))
<1>1. NewWeeklyHours(w) = CASE bad # {} -> [err |-> e, hours |-> << >>]
                            [] over -> [err |-> "overlapping", hours |-> << >>]
                            [] OTHER -> [err |-> "none", hours |-> sorted]
  BY DEF NewWeeklyHours
<1>2. ASSUME NEW n \in DOMAIN sorted, n \notin bad
      PROVE  InWeek(sorted[n])
  <2>1. IntervalError(sorted, n) = "none"
    BY <1>2
  <2> HIDE DEF sorted
  <2>2. /\ sorted[n].day \in 0 .. DaysPerWeek - 1
        /\ sorted[n].start \in 0 .. MinutesPerDay - 1
        /\ sorted[n].minutes \in 1 .. MinutesPerDay
    BY <2>1 DEF IntervalError
  <2> QED
    BY <2>2, IntervalInWeek
<1>3. IsWeek(<< >>)
  BY DEF IsWeek, Range
<1>4. bad = {} => IsWeek(sorted)
  <2> HIDE DEF sorted
  <2> QED
    BY <1>2 DEF IsWeek, Range
<1> HIDE DEF sorted, bad, over, e
<1>5. bad # {} \/ over => NewWeeklyHours(w).hours = << >>
  BY <1>1
<1>6. ~ (bad # {} \/ over) => NewWeeklyHours(w).hours = sorted
  BY <1>1
<1> QED
  BY <1>3, <1>4, <1>5, <1>6

LEMMA WeeksAreWeeks == \A w \in SchedWeeks : IsWeek(w)
<1>1. IsWeek(<< >>)
  BY DEF IsWeek, Range
<1> QED
  BY <1>1, HoursAreWeeks DEF SchedWeeks

LEMMA OverlapIsMutual ==
    ASSUME NEW w, NEW o, IsWeek(w), IsWeek(o), WeeksOverlap(w, o)
    PROVE  WeeksOverlap(o, w)
<1>1. PICK a \in Range(w), b \in Range(o), shift \in {-MinutesPerWeek, 0, MinutesPerWeek} :
          /\ weekStart(a) < weekStart(b) + shift + b.minutes
          /\ weekStart(b) + shift < weekStart(a) + a.minutes
  BY DEF WeeksOverlap
<1>2. MinutesPerWeek \in Int
  BY HoursSizes DEF MinutesPerWeek
<1>3. /\ weekStart(a) \in Int /\ a.minutes \in Int /\ weekStart(b) \in Int /\ b.minutes \in Int
  BY DEF IsWeek, InWeek
<1>4. shift \in Int /\ -shift \in {-MinutesPerWeek, 0, MinutesPerWeek}
  BY <1>2
<1>5. /\ weekStart(b) < weekStart(a) + (-shift) + a.minutes
      /\ weekStart(a) + (-shift) < weekStart(b) + b.minutes
  BY <1>1, <1>3, <1>4
<1> QED
  BY <1>4, <1>5 DEF WeeksOverlap

LEMMA ClosedOverlapsNothing ==
    ASSUME NEW w
    PROVE  ~ WeeksOverlap(w, << >>)
BY DEF WeeksOverlap, Range

-----------------------------------------------------------------------------
\* Nobody works in two shops at once; stretches of time off are apart.
OneShop ==
    \A k, l \in SchedKeys :
        (~ IsHours(k) /\ ~ IsHours(l) /\ k[3] = l[3] /\ k[2] # l[2])
            => ~ WeeksOverlap(calendars[k].content.weekly, calendars[l].content.weekly)

OffApart ==
    /\ timeOff = [id \in StaffIds |-> timeOff[id]]
    /\ \A id \in StaffIds : \A a, b \in timeOff[id] : a # b => ~ SpansOverlap(a, b)

\* The events of a branch's hours: the versions of the row, each once and in
\* order, and the last one tells what the row says.
HoursTold ==
    \A k \in {x \in SchedKeys : IsHours(x)} :
        /\ \A n \in DOMAIN hoursEvents :
              hoursEvents[n].branch = k[2] => hoursEvents[n].version \in 1 .. calendars[k].version
        /\ \A v \in 1 .. calendars[k].version :
              \E n \in DOMAIN hoursEvents : hoursEvents[n].branch = k[2] /\ hoursEvents[n].version = v
        /\ \A m, n \in DOMAIN hoursEvents :
              hoursEvents[m].branch = k[2] /\ hoursEvents[n].branch = k[2] /\ m < n
                  => hoursEvents[m].version < hoursEvents[n].version
        /\ \A n \in DOMAIN hoursEvents :
              hoursEvents[n].branch = k[2] /\ hoursEvents[n].version = calendars[k].version
                  => hoursEvents[n].hours = calendars[k].content.weekly

SchedInv == SchedTypes /\ SchedFits /\ OneShop /\ OffApart /\ HoursTold

LEMMA KeysAreTriples ==
    ASSUME NEW k \in SchedKeys
    PROVE  /\ k[2] \in SchedBranches
           /\ IsHours(k) => k = <<"hours", k[2], NoStaff>>
BY SchedAssumption DEF IsHours

LEMMA SchedInitially == SchedInit => SchedInv
<1> SUFFICES ASSUME SchedInit PROVE SchedInv
  OBVIOUS
<1>1. SchedTypes
  BY SchedConstants DEF SchedInit, SchedTypes
<1>2. NoClient.pc = "idle" /\ NeverSaved.version = 0 /\ NeverSaved.content.weekly = << >>
      /\ NeverSaved.content.overrides = << >>
  BY DEF NoClient, NeverSaved, Empty
<1>3. SchedFits
  BY <1>2, IdleFits DEF SchedInit, SchedFits, CalendarFits
<1>4. OneShop
  BY <1>2, ClosedOverlapsNothing DEF SchedInit, OneShop
<1>5. OffApart
  BY DEF SchedInit, OffApart
<1>6. HoursTold
  BY <1>2 DEF SchedInit, HoursTold
<1> QED
  BY <1>1, <1>3, <1>4, <1>5, <1>6 DEF SchedInv

LEMMA SchedGoesOnInv ==
    ASSUME SchedInv, NEW c \in SchedClients, NEW me, SchedGoesOn(c, me)
    PROVE  SchedInv'
<1>1. SchedTypes'
  BY DEF SchedInv, SchedTypes, SchedGoesOn
<1>2. \A d \in SchedClients : clients'[d] = IF d = c THEN me ELSE clients[d]
  BY DEF SchedInv, SchedTypes, SchedGoesOn
<1>3. calendars' = calendars /\ timeOff' = timeOff /\ hoursEvents' = hoursEvents
  BY DEF SchedGoesOn
<1>4. ASSUME NEW x \in SchedClients, NEW y \in SchedClients, x # y
      PROVE  Apart(clients'[x], clients'[y])
  <2>1. CASE x = c
    BY <1>2, <1>4, <2>1 DEF SchedGoesOn
  <2>2. CASE y = c
    BY <1>2, <1>4, <2>2, ApartIsMutual DEF SchedGoesOn
  <2>3. CASE x # c /\ y # c
    BY <1>2, <1>4, <2>3 DEF SchedInv, SchedFits
  <2> QED
    BY <2>1, <2>2, <2>3
<1>5. \A d \in SchedClients : ClientFits(clients'[d], calendars')
  BY <1>2, <1>3 DEF SchedGoesOn, SchedInv, SchedFits
<1>6. SchedFits'
  BY <1>3, <1>4, <1>5 DEF SchedInv, SchedFits
<1>7. OneShop' /\ OffApart' /\ HoursTold'
  BY <1>3 DEF SchedInv, OneShop, OffApart, HoursTold
<1> QED
  BY <1>1, <1>6, <1>7 DEF SchedInv

\* Another client's record after a save.
LEMMA OthersStillFit ==
    ASSUME SchedInv, NEW c \in SchedClients, NEW row, SchedSavedAs(c, row),
           NEW d \in SchedClients, d # c
    PROVE  ClientFits(clients[d], calendars')
<1> DEFINE key == clients[c].key
           you == clients[d]
<1>1. /\ key \in SchedKeys /\ calendars' = [calendars EXCEPT ![key] = row]
      /\ row.version = calendars[key].version + 1 /\ clients[c].pc = "held"
      /\ calendars[key].version = clients[c].page.version
  BY DEF SchedSavedAs
<1>2. /\ ClientFits(you, calendars) /\ Apart(clients[c], you)
      /\ calendars[key].version \in Nat /\ you.page.version \in Nat
  BY <1>1 DEF SchedInv, SchedTypes, SchedFits, SchedCalls, SchedRecords
<1>3. \A k \in SchedKeys : calendars'[k] = IF k = key THEN row ELSE calendars[k]
  BY <1>1 DEF SchedInv, SchedTypes
<1>4. CASE you.pc = "idle"
  BY <1>4, IdleFits
<1>5. CASE you.pc # "idle"
  <2>1. you.key \in SchedKeys
    BY <1>2, <1>5 DEF ClientFits
  <2>2. ~ (you.pc = "held" /\ you.page.version > 0 /\ you.key = key)
    BY <1>1, <1>2, <1>5 DEF Apart, ClientFits
  <2>3. ASSUME you.pc = "held", ~ IsHours(you.key)
        PROVE  ElsewhereIs(you.elsewhere, you.key, calendars')
    <3>1. ElsewhereIs(you.elsewhere, you.key, calendars)
      BY <1>2, <1>5, <2>3 DEF ClientFits
    <3>2. IsHours(key) \/ key[3] # you.key[3]
      BY <1>1, <1>2, <2>3 DEF Apart
    <3> QED
      BY <1>3, <3>1, <3>2 DEF ElsewhereIs
  <2>4. CASE you.key # key
    <3>1. calendars'[you.key] = calendars[you.key]
      BY <1>3, <2>1, <2>4
    <3> QED
      BY <1>2, <1>5, <2>3, <3>1 DEF ClientFits
  <2>5. CASE you.key = key
    <3>1. calendars'[you.key].version = calendars[you.key].version + 1
      BY <1>1, <1>3, <2>1, <2>5
    <3>2. you.page.version <= calendars[you.key].version
      BY <1>2, <1>5 DEF ClientFits
    <3>3. /\ you.page.version # calendars'[you.key].version
          /\ you.page.version <= calendars'[you.key].version
      BY <1>2, <2>5, <3>1, <3>2
    <3>4. ~ (you.pc = "held" /\ you.page.version > 0)
      BY <2>2, <2>5
    <3>5. /\ IsHours(you.key) => you.pc # "hours" /\ you.put.overrides = << >>
          /\ (IsHours(you.key) \/ you.pc \in {"row", "hours"}) => you.page.content.overrides = << >>
      BY <1>2, <1>5 DEF ClientFits
    <3>6. (you.pc = "held" /\ ~ IsHours(you.key)) => ElsewhereIs(you.elsewhere, you.key, calendars')
      BY <2>3
    <3>7. /\ ~ (you.pc # "row" /\ you.page.version = calendars'[you.key].version)
          /\ ~ (you.pc \notin {"row", "hours"} /\ you.page.version = calendars'[you.key].version)
      BY <3>3
    <3> QED
      BY <2>1, <3>3, <3>4, <3>5, <3>6, <3>7 DEF ClientFits
  <2> QED
    BY <2>4, <2>5
<1> QED
  BY <1>4, <1>5

LEMMA SchedSavedInv ==
    ASSUME SchedInv, NEW c \in SchedClients, NEW row, SchedSavedAs(c, row)
    PROVE  SchedInv'
<1> DEFINE key == clients[c].key
           e == [branch |-> key[2], version |-> row.version, hours |-> row.content.weekly]
<1>1. /\ key \in SchedKeys /\ row \in SchedRecords
      /\ row.version = calendars[key].version + 1
      /\ IsHours(key) => row.content.overrides = << >>
      /\ calendars' = [calendars EXCEPT ![key] = row]
      /\ clients' = [clients EXCEPT ![c] = NoClient]
      /\ timeOff' = timeOff
  BY DEF SchedSavedAs
<1>2. hoursEvents' = IF IsHours(key) THEN Append(hoursEvents, e) ELSE hoursEvents
  BY DEF SchedSavedAs
<1>3. row.version \in Nat /\ row.content.weekly \in SchedWeeks /\ key[2] \in SchedBranches
      /\ calendars[key].version \in Nat
  BY <1>1, KeysAreTriples DEF SchedRecords, SchedContents, SchedInv, SchedTypes
<1>4. e \in SchedEvents /\ e.branch = key[2] /\ e.version = row.version /\ e.hours = row.content.weekly
  BY <1>3 DEF SchedEvents
<1> HIDE DEF e
<1>5. SchedTypes'
  BY <1>1, <1>2, <1>4, SchedConstants DEF SchedInv, SchedTypes
<1>6. \A k \in SchedKeys : calendars'[k] = IF k = key THEN row ELSE calendars[k]
  BY <1>1 DEF SchedInv, SchedTypes
<1>7. /\ \A d \in SchedClients : clients'[d] = IF d = c THEN NoClient ELSE clients[d]
      /\ NoClient.pc = "idle"
  BY <1>1 DEF SchedInv, SchedTypes, NoClient
<1>8. SchedFits'
  <2>1. \A k \in SchedKeys : CalendarFits(k, calendars'[k])
    BY <1>1, <1>3, <1>6 DEF SchedInv, SchedFits, CalendarFits
  <2>2. \A d \in SchedClients : ClientFits(clients'[d], calendars')
    BY <1>7, IdleFits, OthersStillFit
  <2>3. \A x, y \in SchedClients : x # y => Apart(clients'[x], clients'[y])
    BY <1>7, IdleFits DEF SchedInv, SchedFits
  <2> QED
    BY <2>1, <2>2, <2>3 DEF SchedFits
<1>9. ASSUME NEW l \in SchedKeys, ~ IsHours(key), ~ IsHours(l), l[3] = key[3], l[2] # key[2]
      PROVE  /\ ~ WeeksOverlap(row.content.weekly, calendars[l].content.weekly)
             /\ ~ WeeksOverlap(calendars[l].content.weekly, row.content.weekly)
  <2> DEFINE w == row.content.weekly
             o == calendars[l].content.weekly
  <2>1. o \in SchedWeeks
    BY DEF SchedInv, SchedTypes, SchedRecords, SchedContents
  <2>2. ~ IsClosed(o) => o \in clients[c].elsewhere
    <3>1. ElsewhereIs(clients[c].elsewhere, key, calendars)
      BY <1>9 DEF SchedInv, SchedFits, ClientFits, SchedSavedAs
    <3> QED
      BY <1>9, <3>1 DEF ElsewhereIs
  <2>3. ~ WeeksOverlap(w, o)
    BY <1>9, <2>2, ClosedOverlapsNothing DEF SchedSavedAs, IsClosed
  <2>4. IsWeek(w) /\ IsWeek(o)
    BY <1>3, <2>1, WeeksAreWeeks
  <2> HIDE DEF w, o
  <2>5. ~ WeeksOverlap(o, w)
    BY <2>3, <2>4, OverlapIsMutual
  <2> QED
    BY <2>3, <2>5 DEF w, o
<1>10. OneShop'
  <2> SUFFICES ASSUME NEW k \in SchedKeys, NEW l \in SchedKeys,
                      ~ IsHours(k), ~ IsHours(l), k[3] = l[3], k[2] # l[2]
               PROVE  ~ WeeksOverlap(calendars'[k].content.weekly, calendars'[l].content.weekly)
    BY DEF OneShop
  <2>1. CASE k = key
    BY <1>6, <1>9, <2>1
  <2>2. CASE l = key
    BY <1>6, <1>9, <2>2
  <2>3. CASE k # key /\ l # key
    BY <1>6, <2>3 DEF SchedInv, OneShop
  <2> QED
    BY <2>1, <2>2, <2>3
<1>11. OffApart'
  BY <1>1 DEF SchedInv, OffApart
<1>12. HoursTold'
  <2>1. CASE ~ IsHours(key)
    BY <1>2, <1>6, <2>1 DEF SchedInv, HoursTold
  <2>2. CASE IsHours(key)
    <3> DEFINE v == calendars[key].version
               N == Len(hoursEvents)
    <3>1. /\ hoursEvents \in Seq(SchedEvents) /\ N \in Nat
          /\ DOMAIN hoursEvents = 1 .. N
          /\ DOMAIN hoursEvents' = 1 .. N + 1
          /\ \A n \in 1 .. N : hoursEvents'[n] = hoursEvents[n]
          /\ hoursEvents'[N + 1] = e
      BY <1>2, <1>4, <2>2 DEF SchedInv, SchedTypes
    <3>2. /\ \A n \in DOMAIN hoursEvents : n \in DOMAIN hoursEvents' /\ hoursEvents'[n] = hoursEvents[n]
          /\ \A n \in DOMAIN hoursEvents' : n \in DOMAIN hoursEvents \/ n = N + 1
          /\ N + 1 \in DOMAIN hoursEvents'
      BY <3>1
    <3>3. HoursTold /\ v \in Nat /\ row.version = v + 1 /\ e.version = v + 1
      BY <1>1, <1>3, <1>4 DEF SchedInv
    <3> SUFFICES ASSUME NEW k \in SchedKeys, IsHours(k)
                 PROVE  /\ \A n \in DOMAIN hoursEvents' :
                              hoursEvents'[n].branch = k[2] => hoursEvents'[n].version \in 1 .. calendars'[k].version
                        /\ \A u \in 1 .. calendars'[k].version :
                              \E n \in DOMAIN hoursEvents' : hoursEvents'[n].branch = k[2] /\ hoursEvents'[n].version = u
                        /\ \A m, n \in DOMAIN hoursEvents' :
                              hoursEvents'[m].branch = k[2] /\ hoursEvents'[n].branch = k[2] /\ m < n
                                  => hoursEvents'[m].version < hoursEvents'[n].version
                        /\ \A n \in DOMAIN hoursEvents' :
                              hoursEvents'[n].branch = k[2] /\ hoursEvents'[n].version = calendars'[k].version
                                  => hoursEvents'[n].hours = calendars'[k].content.weekly
      BY DEF HoursTold
    <3>4. CASE k # key
      <4>1. k[2] # key[2]
        BY <3>4, <2>2, <1>1, KeysAreTriples
      <4>2. \A n \in DOMAIN hoursEvents' : hoursEvents'[n].branch = k[2] => n \in DOMAIN hoursEvents
        BY <3>1, <3>2, <4>1, <1>4
      <4>3. calendars'[k] = calendars[k]
        BY <3>4, <1>6
      <4> QED
        BY <3>2, <3>3, <4>2, <4>3 DEF HoursTold
    <3>5. CASE k = key
      <4>1. calendars'[key] = row
        BY <1>1, <1>6
      <4>2. ASSUME NEW n \in DOMAIN hoursEvents, hoursEvents[n].branch = key[2]
            PROVE  hoursEvents[n].version \in 1 .. v
        BY <4>2, <2>2, <3>3, <1>1 DEF HoursTold
      <4>3. ASSUME NEW n \in DOMAIN hoursEvents', hoursEvents'[n].branch = key[2]
            PROVE  hoursEvents'[n].version \in 1 .. v + 1
        <5>1. CASE n \in DOMAIN hoursEvents
          <6>1. hoursEvents[n].version \in 1 .. v /\ hoursEvents'[n] = hoursEvents[n]
            BY <4>2, <4>3, <5>1, <3>2
          <6>2. v \in Nat
            BY <3>3
          <6> HIDE DEF v
          <6>3. 1 .. v \subseteq 1 .. v + 1
            BY <6>2
          <6> QED
            BY <6>1, <6>3
        <5>2. CASE n = N + 1
          BY <5>2, <3>1, <3>3
        <5> QED
          BY <5>1, <5>2, <3>2
      <4>4. ASSUME NEW u \in 1 .. v + 1
            PROVE  \E n \in DOMAIN hoursEvents' : hoursEvents'[n].branch = key[2] /\ hoursEvents'[n].version = u
        <5>1. CASE u = v + 1
          BY <5>1, <3>1, <3>2, <3>3, <1>4
        <5>2. CASE u \in 1 .. v
          <6>1. PICK n \in DOMAIN hoursEvents : hoursEvents[n].branch = key[2] /\ hoursEvents[n].version = u
            BY <5>2, <2>2, <3>3, <1>1 DEF HoursTold
          <6> QED
            BY <6>1, <3>2
        <5> QED
          BY <5>1, <5>2, <3>3
      <4>5. ASSUME NEW m \in DOMAIN hoursEvents', NEW n \in DOMAIN hoursEvents', m < n,
                   hoursEvents'[m].branch = key[2], hoursEvents'[n].branch = key[2]
            PROVE  hoursEvents'[m].version < hoursEvents'[n].version
        <5>1. m \in DOMAIN hoursEvents
          BY <4>5, <3>1
        <5>2. hoursEvents'[m] = hoursEvents[m]
          BY <5>1, <3>2
        <5>3. hoursEvents[m].version \in 1 .. v
          BY <4>2, <4>5, <5>1, <5>2
        <5>4. CASE n \in DOMAIN hoursEvents
          <6>1. hoursEvents'[n] = hoursEvents[n]
            BY <5>4, <3>2
          <6> QED
            BY <4>5, <5>1, <5>2, <5>4, <6>1, <3>3, <2>2, <1>1 DEF HoursTold
        <5>5. CASE n = N + 1
          BY <5>2, <5>3, <5>5, <3>1, <3>3
        <5> QED
          BY <5>4, <5>5, <3>2
      <4>6. ASSUME NEW n \in DOMAIN hoursEvents', hoursEvents'[n].branch = key[2],
                   hoursEvents'[n].version = v + 1
            PROVE  hoursEvents'[n].hours = row.content.weekly
        <5>1. n \notin DOMAIN hoursEvents
          <6> SUFFICES ASSUME n \in DOMAIN hoursEvents PROVE FALSE
            OBVIOUS
          <6>1. hoursEvents'[n] = hoursEvents[n]
            BY <3>2
          <6> QED
            BY <4>2, <4>6, <6>1, <3>3
        <5> QED
          BY <5>1, <3>1, <3>2, <1>4
      <4> QED
        BY <3>3, <3>5, <4>1, <4>3, <4>4, <4>5, <4>6
    <3> QED
      BY <3>4, <3>5
  <2> QED
    BY <2>1, <2>2
<1> QED
  BY <1>5, <1>8, <1>10, <1>11, <1>12 DEF SchedInv

LEMMA SchedOffInv ==
    ASSUME SchedInv, TimeOffNext
    PROVE  SchedInv'
<1>1. UNCHANGED <<calendars, hoursEvents, clients>>
  BY DEF TimeOffNext, AddTimeOff, DeleteTimeOff
<1>2. SchedTypes' /\ SchedFits' /\ OneShop' /\ HoursTold'
  BY <1>1 DEF SchedInv, SchedTypes, SchedFits, OneShop, HoursTold
<1>3. OffApart'
  <2>1. PICK c \in SchedClients, o \in OffChoices : AddTimeOff(c, o[1], o[2]) \/ DeleteTimeOff(c, o[1], o[2])
    BY DEF TimeOffNext
  <2> DEFINE id == o[1]
             span == o[2]
  <2>2. \/ timeOff' = timeOff
        \/ timeOff' = [timeOff EXCEPT ![id] = timeOff[id] \cup {span}] /\ ~ OverlapsOff(id, span)
        \/ timeOff' = [timeOff EXCEPT ![id] = timeOff[id] \ {span}]
    BY <2>1 DEF AddTimeOff, DeleteTimeOff
  <2> HIDE DEF id, span
  <2>3. CASE timeOff' = timeOff
    BY <2>3 DEF SchedInv, OffApart
  <2>4. CASE timeOff' = [timeOff EXCEPT ![id] = timeOff[id] \cup {span}] /\ ~ OverlapsOff(id, span)
    <3>1. \A x \in StaffIds : timeOff'[x] = IF x = id THEN timeOff[id] \cup {span} ELSE timeOff[x]
      BY <2>4 DEF SchedInv, OffApart
    <3>2. timeOff' = [x \in StaffIds |-> timeOff'[x]]
      BY <2>4 DEF SchedInv, OffApart
    <3>3. \A a \in timeOff[id] : ~ SpansOverlap(a, span) /\ ~ SpansOverlap(span, a)
      BY <2>4 DEF OverlapsOff, SpansOverlap
    <3> QED
      BY <3>1, <3>2, <3>3 DEF SchedInv, OffApart
  <2>5. CASE timeOff' = [timeOff EXCEPT ![id] = timeOff[id] \ {span}]
    <3>1. \A x \in StaffIds : timeOff'[x] = IF x = id THEN timeOff[id] \ {span} ELSE timeOff[x]
      BY <2>5 DEF SchedInv, OffApart
    <3>2. timeOff' = [x \in StaffIds |-> timeOff'[x]]
      BY <2>5 DEF SchedInv, OffApart
    <3> QED
      BY <3>1, <3>2 DEF SchedInv, OffApart
  <2> QED
    BY <2>2, <2>3, <2>4, <2>5
<1> QED
  BY <1>2, <1>3 DEF SchedInv

LEMMA SchedInvHolds == SchedSpec => []SchedInv
<1>1. SchedInit => SchedInv
  BY SchedInitially
<1>2. SchedInv /\ [SchedNext]_schedVars => SchedInv'
  <2> SUFFICES ASSUME SchedInv, [SchedNext]_schedVars PROVE SchedInv'
    OBVIOUS
  <2>1. CASE PagesNext
    BY <2>1, SchedSteps, SchedGoesOnInv, SchedSavedInv DEF SchedInv
  <2>2. CASE TimeOffNext
    BY <2>2, SchedOffInv
  <2>3. CASE UNCHANGED schedVars
    BY <2>3 DEF schedVars, SchedInv, SchedTypes, SchedFits, OneShop, OffApart, HoursTold
  <2> QED
    BY <2>1, <2>2, <2>3 DEF SchedNext
<1> QED
  BY <1>1, <1>2, PTL DEF SchedSpec

\* Nobody is scheduled in two branches at once, however the owners and
\* managers of the branches save their schedules (scheduling/app/schedules.go).
THEOREM OneShopAtATime == SchedSpec => []NobodyInTwoShops
<1>1. ASSUME SchedInv, NEW k \in SchedKeys, NEW l \in SchedKeys,
             ~ WeeksOverlap(calendars[k].content.weekly, calendars[l].content.weekly)
      PROVE  CircleOf(calendars[k].content.weekly) \cap CircleOf(calendars[l].content.weekly) = {}
  <2>1. calendars[k].content.weekly \in SchedWeeks /\ calendars[l].content.weekly \in SchedWeeks
    BY <1>1 DEF SchedInv, SchedTypes, SchedRecords, SchedContents
  <2>2. IsWeek(calendars[k].content.weekly) /\ IsWeek(calendars[l].content.weekly)
    BY <2>1, WeeksAreWeeks
  <2> QED
    BY <1>1, <2>2, WeeksShare
<1>2. SchedInv => NobodyInTwoShops
  BY <1>1 DEF SchedInv, OneShop, OffApart, NobodyInTwoShops
<1> QED
  BY <1>2, SchedInvHolds, PTL

LEMMA SchedInvTells ==
    ASSUME SchedInv
    PROVE  EventsTellTheHours
<1> SUFFICES ASSUME NEW k \in SchedKeys, IsHours(k)
             PROVE  LET mine == {n \in DOMAIN hoursEvents : hoursEvents[n].branch = k[2]}
                    IN  /\ {hoursEvents[n].version : n \in mine} = 1 .. calendars[k].version
                        /\ \A m, n \in mine : m < n => hoursEvents[m].version < hoursEvents[n].version
                        /\ \A n \in mine : hoursEvents[n].version = calendars[k].version
                                  => hoursEvents[n].hours = calendars[k].content.weekly
  BY DEF EventsTellTheHours
<1>1. HoursTold
  BY DEF SchedInv
<1> DEFINE mine == {n \in DOMAIN hoursEvents : hoursEvents[n].branch = k[2]}
           told == {hoursEvents[n].version : n \in mine}
<1>2. told \subseteq 1 .. calendars[k].version
  BY <1>1 DEF HoursTold
<1>3. 1 .. calendars[k].version \subseteq told
  BY <1>1 DEF HoursTold
<1>4. told = 1 .. calendars[k].version
  BY <1>2, <1>3
<1> QED
  BY <1>1, <1>4 DEF HoursTold

LEMMA SchedSavesStep ==
    ASSUME SchedInv, [SchedNext]_schedVars
    PROVE  SavedOverWhatWasSeen
<1> SUFFICES ASSUME NEW c \in SchedClients, clients[c].pc = "held", clients'[c].pc = "idle",
                    calendars'[clients[c].key] # calendars[clients[c].key]
             PROVE  calendars[clients[c].key] = clients[c].page
  BY DEF SavedOverWhatWasSeen
<1>1. PagesNext
  BY DEF SchedNext, schedVars, TimeOffNext, AddTimeOff, DeleteTimeOff
<1>2. PICK d \in SchedClients : \E me : SchedSavedAs(d, me)
  BY <1>1, SchedSteps DEF SchedInv, SchedGoesOn
<1>3. PICK row : SchedSavedAs(d, row)
  BY <1>2
<1>4. d = c
  BY <1>3 DEF SchedSavedAs, SchedInv, SchedTypes
<1> DEFINE me == clients[c]
           key == me.key
<1>5. /\ key \in SchedKeys /\ calendars[key].version = me.page.version
      /\ ClientFits(me, calendars)
  BY <1>3, <1>4 DEF SchedSavedAs, SchedInv, SchedFits
<1>6. /\ me.page.content.weekly = calendars[key].content.weekly
      /\ me.page.content.overrides = calendars[key].content.overrides
  BY <1>5 DEF ClientFits
<1>7. me.page \in SchedRecords /\ calendars[key] \in SchedRecords
  BY <1>5 DEF SchedInv, SchedTypes, SchedCalls
<1>8. me.page.content = calendars[key].content
  BY <1>6, <1>7 DEF SchedRecords, SchedContents
<1> HIDE DEF me, key
<1>9. me.page = calendars[key]
  BY <1>5, <1>7, <1>8 DEF SchedRecords
<1> QED
  BY <1>9 DEF me, key

-----------------------------------------------------------------------------
(***************************************************************************)
(* Services.  A menu is read in two statements, but a version that did not *)
(* change since the first means that nothing did.                          *)
(***************************************************************************)
CatOffered == CatOfferings \cup {<< >>}
ServiceRows == [version: Nat, active: BOOLEAN, details: CatDetails \cup {<< >>},
                offerings: CatOffered]
CatSeen == {<< >>} \cup [ServiceIds -> ServiceRows]
CatMenus == {<< >>} \cup [ServiceIds -> CatOffered]
CatUsers == {m.user : m \in CatStaff} \cup {"nobody"}
CatPages == [pc: {"idle", "services", "page"}, user: CatUsers, seen: CatSeen, menu: CatMenus,
             id: {"none"}]

\* What a page shows, while the service has the version it had then.
ShowsService(q, sold) ==
    q.pc # "idle" =>
        \A id \in ServiceIds :
            /\ q.seen[id].version \in Nat /\ q.seen[id].version <= sold[id].version
            /\ q.seen[id].version = sold[id].version =>
                  /\ q.seen[id].details = sold[id].details
                  /\ q.pc = "page" => q.menu[id] = sold[id].offerings

CatInv ==
    /\ services \in [ServiceIds -> ServiceRows]
    /\ DOMAIN catReq = CatRequests
    /\ \A r \in CatRequests : catReq[r] \in CatPages /\ ShowsService(catReq[r], services)
    /\ \A r \in CatRequests : catReq[r].pc = "services" =>
          \A id \in ServiceIds : catReq[r].seen[id].version = services[id].version =>
              catReq[r].seen[id] = services[id]

LEMMA NoServiceFits == NoService \in ServiceRows /\ NoCatRequest \in CatPages
<1>1. NoService \in ServiceRows
  BY DEF NoService, ServiceRows, CatOffered
<1>2. NoCatRequest \in CatPages
  BY DEF NoCatRequest, CatPages, CatSeen, CatMenus, CatUsers
<1> QED
  BY <1>1, <1>2

\* A service is created, or saved over with a version more.
LEMMA ServiceChanges ==
    ASSUME CatInv, NEW id \in ServiceIds, NEW s \in ServiceRows,
           s.version = services[id].version + 1,
           services' = [services EXCEPT ![id] = s],
           DOMAIN catReq' = CatRequests,
           \A r \in CatRequests : catReq'[r] = catReq[r] \/ catReq'[r] = NoCatRequest
    PROVE  CatInv'
<1>1. services' \in [ServiceIds -> ServiceRows]
  BY DEF CatInv
<1>2. services'[id] = s /\ \A x \in ServiceIds : x # id => services'[x] = services[x]
  BY DEF CatInv
<1>3. services[id].version \in Nat /\ s.version \in Nat
  BY DEF CatInv, ServiceRows
<1>4. NoCatRequest.pc = "idle"
  BY DEF NoCatRequest
<1>5. ASSUME NEW r \in CatRequests
      PROVE  catReq'[r] \in CatPages /\ ShowsService(catReq'[r], services')
  <2>1. CASE catReq'[r] = NoCatRequest
    BY <1>4, <2>1, NoServiceFits DEF ShowsService
  <2>2. CASE catReq'[r] = catReq[r]
    <3>1. catReq[r] \in CatPages /\ ShowsService(catReq[r], services)
      BY DEF CatInv
    <3>2. ShowsService(catReq[r], services')
      <4> SUFFICES ASSUME catReq[r].pc # "idle", NEW x \in ServiceIds
                   PROVE  /\ catReq[r].seen[x].version \in Nat
                          /\ catReq[r].seen[x].version <= services'[x].version
                          /\ catReq[r].seen[x].version = services'[x].version =>
                                /\ catReq[r].seen[x].details = services'[x].details
                                /\ catReq[r].pc = "page" => catReq[r].menu[x] = services'[x].offerings
        BY DEF ShowsService
      <4>1. CASE x # id
        BY <1>2, <3>1, <4>1 DEF ShowsService
      <4>2. CASE x = id
        <5> DEFINE v == catReq[r].seen[id].version
                   w == services[id].version
        <5>1. v \in Nat /\ v <= w /\ w \in Nat /\ services'[id].version = w + 1
          BY <1>2, <1>3, <3>1 DEF ShowsService
        <5> HIDE DEF v, w
        <5>2. v <= w + 1 /\ v # w + 1
          BY <5>1
        <5> QED
          BY <4>2, <5>1, <5>2 DEF v
      <4> QED
        BY <4>1, <4>2
    <3> QED
      BY <2>2, <3>1, <3>2
  <2> QED
    BY <2>1, <2>2
<1>6. ASSUME NEW r \in CatRequests, catReq'[r].pc = "services", NEW x \in ServiceIds,
             catReq'[r].seen[x].version = services'[x].version
      PROVE  catReq'[r].seen[x] = services'[x]
  <2>1. catReq'[r] = catReq[r]
    BY <1>4, <1>6
  <2>2. CASE x = id
    <3>1. ShowsService(catReq[r], services) /\ catReq[r].pc # "idle"
      BY <1>6, <2>1 DEF CatInv
    <3> DEFINE v == catReq[r].seen[id].version
               w == services[id].version
    <3>2. v \in Nat /\ v <= w /\ w \in Nat /\ v = w + 1
      BY <1>2, <1>3, <1>6, <2>1, <2>2, <3>1 DEF ShowsService
    <3> HIDE DEF v, w
    <3> QED
      BY <3>2
  <2>3. CASE x # id
    BY <1>2, <1>6, <2>1, <2>3 DEF CatInv
  <2> QED
    BY <2>2, <2>3
<1> QED
  BY <1>1, <1>5, <1>6 DEF CatInv

LEMMA CreateServiceKeeps ==
    ASSUME CatInv, NEW user, NEW id \in ServiceIds, NEW d \in CatDetails, CreateService(user, id, d)
    PROVE  CatInv'
<1> DEFINE s == [version |-> 1, active |-> TRUE, details |-> d, offerings |-> << >>]
<1>1. s \in ServiceRows
  BY DEF ServiceRows, CatOffered
<1>2. s.version = services[id].version + 1
  BY DEF CreateService, NoService
<1>3. services' = [services EXCEPT ![id] = s] /\ UNCHANGED catReq
  BY DEF CreateService
<1>4. DOMAIN catReq' = CatRequests
  BY <1>3 DEF CatInv
<1> HIDE DEF s
<1> QED
  BY <1>1, <1>2, <1>3, <1>4, ServiceChanges

LEMMA SaveServiceKeeps ==
    ASSUME CatInv, NEW r \in CatRequests, NEW id \in ServiceIds, NEW s \in ServiceRows,
           s.version = services[id].version, SaveService(r, id, s)
    PROVE  CatInv'
<1> DEFINE next == [s EXCEPT !.version = @ + 1]
<1>1. next \in ServiceRows /\ next.version = services[id].version + 1
  BY DEF ServiceRows
<1>2. services' = [services EXCEPT ![id] = next] /\ CatDone(r)
  BY DEF SaveService
<1>3. DOMAIN catReq' = CatRequests /\ \A x \in CatRequests : catReq'[x] = catReq[x] \/ catReq'[x] = NoCatRequest
  BY <1>2 DEF CatInv, CatDone
<1> HIDE DEF next
<1> QED
  BY <1>1, <1>2, <1>3, ServiceChanges

LEMMA UpdateServiceKeeps ==
    ASSUME CatInv, NEW r \in CatRequests, NEW id \in ServiceIds, NEW d \in CatDetails,
           NEW a \in BOOLEAN, UpdateService(r, id, d, a)
    PROVE  CatInv'
<1>1. services[id] \in ServiceRows
  BY DEF CatInv
<1>2. Edited(services[id], d, a) \in ServiceRows /\ Edited(services[id], d, a).version = services[id].version
  BY <1>1 DEF Edited, ServiceRows
<1> QED
  BY <1>2, SaveServiceKeeps DEF UpdateService

LEMMA SetOfferingsKeeps ==
    ASSUME CatInv, NEW r \in CatRequests, NEW id \in ServiceIds, NEW os \in CatOfferings,
           SetOfferings(r, id, os)
    PROVE  CatInv'
<1>1. services[id] \in ServiceRows /\ os \in CatOffered
  BY DEF CatInv, CatOffered
<1> DEFINE s == [services[id] EXCEPT !.offerings = os]
<1>2. s \in ServiceRows /\ s.version = services[id].version
  BY <1>1 DEF ServiceRows
<1>3. SaveService(r, id, s)
  BY DEF SetOfferings
<1> HIDE DEF s
<1> QED
  BY <1>2, <1>3, SaveServiceKeeps

\* Only a page changes.
LEMMA PageChanges ==
    ASSUME CatInv, NEW r \in CatRequests, NEW q \in CatPages, UNCHANGED services,
           catReq' = [catReq EXCEPT ![r] = q], ShowsService(q, services),
           q.pc = "services" => \A id \in ServiceIds :
               q.seen[id].version = services[id].version => q.seen[id] = services[id]
    PROVE  CatInv'
<1>1. catReq'[r] = q /\ DOMAIN catReq' = CatRequests /\ \A x \in CatRequests : x # r => catReq'[x] = catReq[x]
  BY DEF CatInv
<1> QED
  BY <1>1 DEF CatInv

LEMMA ListServicesKeeps ==
    ASSUME CatInv, NEW r \in CatRequests, NEW m \in CatStaff, ListServices(r, m.user)
    PROVE  CatInv'
<1> DEFINE u == m.user
           sv == services
           q == [NoCatRequest EXCEPT !.pc = "services", !.user = u, !.seen = sv]
<1>1. catReq' = [catReq EXCEPT ![r] = q] /\ UNCHANGED services
  BY DEF ListServices
<1>2. u \in CatUsers /\ sv \in CatSeen
  BY DEF CatUsers, CatSeen, CatInv
<1> HIDE DEF u, sv
<1>3. q \in CatPages /\ q.pc = "services" /\ q.seen = sv
  BY <1>2, NoServiceFits DEF CatPages
<1> HIDE DEF q
<1>4. \A id \in ServiceIds : services[id].version \in Nat
  BY DEF CatInv, ServiceRows
<1>5. ShowsService(q, services)
  BY <1>3, <1>4 DEF ShowsService, sv
<1> QED
  BY <1>1, <1>3, <1>5, PageChanges DEF sv

LEMMA ListOfferingsKeeps ==
    ASSUME CatInv, NEW r \in CatRequests, ListOfferings(r)
    PROVE  CatInv'
<1> DEFINE menu == [id \in ServiceIds |-> services[id].offerings]
           q == [catReq[r] EXCEPT !.pc = "page", !.menu = menu]
<1>0. catReq[r] \in CatPages /\ ShowsService(catReq[r], services) /\ catReq[r].pc = "services"
  BY DEF CatInv, ListOfferings
<1>1. catReq' = [catReq EXCEPT ![r].pc = "page", ![r].menu = menu] /\ UNCHANGED services
  BY DEF ListOfferings
<1>2. menu \in CatMenus
  BY DEF CatInv, ServiceRows, CatMenus
<1>3. \A id \in ServiceIds : menu[id] = services[id].offerings
  OBVIOUS
<1> HIDE DEF menu
<1>4. catReq' = [catReq EXCEPT ![r] = q]
  BY <1>0, <1>1 DEF CatInv, CatPages
<1>5. q \in CatPages /\ q.pc = "page" /\ q.menu = menu /\ q.seen = catReq[r].seen
  BY <1>0, <1>2 DEF CatPages
<1> HIDE DEF q
<1>6. ShowsService(q, services)
  BY <1>0, <1>3, <1>5 DEF ShowsService
<1> QED
  BY <1>1, <1>4, <1>5, <1>6, PageChanges

LEMMA CatAbortKeeps ==
    ASSUME CatInv, NEW r \in CatRequests, CatAbort(r)
    PROVE  CatInv'
<1>1. NoCatRequest.pc = "idle"
  BY DEF NoCatRequest
<1> QED
  BY <1>1, NoServiceFits, PageChanges DEF CatAbort, CatDone, ShowsService

LEMMA CatInvHolds == CatSpec => []CatInv
<1>1. CatInit => CatInv
  <2>1. NoCatRequest.pc = "idle"
    BY DEF NoCatRequest
  <2> QED
    BY <2>1, NoServiceFits DEF CatInit, CatInv, ShowsService
<1>2. CatInv /\ [CatNext]_catVars => CatInv'
  <2> SUFFICES ASSUME CatInv, [CatNext]_catVars PROVE CatInv'
    OBVIOUS
  <2>1. CASE UNCHANGED catVars
    BY <2>1 DEF catVars, CatInv
  <2>2. ASSUME NEW m \in CatStaff, NEW id \in ServiceIds, NEW d \in CatDetails,
               CreateService(m.user, id, d)
        PROVE  CatInv'
    BY <2>2, CreateServiceKeeps
  <2>3. ASSUME NEW r \in CatRequests, NEW m \in CatStaff, ListServices(r, m.user)
        PROVE  CatInv'
    BY <2>3, ListServicesKeeps
  <2>4. ASSUME NEW r \in CatRequests, ListOfferings(r) \/ CatAbort(r)
        PROVE  CatInv'
    BY <2>4, ListOfferingsKeeps, CatAbortKeeps
  <2>5. ASSUME NEW r \in CatRequests, NEW id \in ServiceIds, NEW d \in CatDetails,
               NEW a \in BOOLEAN, UpdateService(r, id, d, a)
        PROVE  CatInv'
    BY <2>5, UpdateServiceKeeps
  <2>6. ASSUME NEW r \in CatRequests, NEW id \in ServiceIds, NEW os \in CatOfferings,
               SetOfferings(r, id, os)
        PROVE  CatInv'
    BY <2>6, SetOfferingsKeeps
  <2> QED
    BY <2>1, <2>2, <2>3, <2>4, <2>5, <2>6 DEF CatNext
<1> QED
  BY <1>1, <1>2, PTL DEF CatSpec

\* A save closes the page it was made from; what it replaces is what was shown.
LEMMA SavedIsShown ==
    ASSUME CatInv, NEW r \in CatRequests, NEW id \in ServiceIds, catReq[r].pc = "page",
           ServiceIsAsSeen(r, id)
    PROVE  /\ services[id].details = catReq[r].seen[id].details
           /\ services[id].offerings = catReq[r].menu[id]
<1>1. ShowsService(catReq[r], services) /\ catReq[r].pc # "idle"
  BY DEF CatInv
<1> QED
  BY <1>1 DEF ShowsService, ServiceIsAsSeen

LEMMA CatSavesStep ==
    ASSUME CatInv, [CatNext]_catVars
    PROVE  ServiceSavedAsSeen
<1> SUFFICES ASSUME NEW r \in CatRequests, NEW id \in ServiceIds, catReq[r].pc = "page",
                    catReq'[r].pc = "idle", services'[id] # services[id]
             PROVE  /\ services[id].details = catReq[r].seen[id].details
                    /\ services[id].offerings = catReq[r].menu[id]
  BY DEF ServiceSavedAsSeen
<1>1. ASSUME NEW x \in CatRequests, NEW y \in ServiceIds, NEW s, SaveService(x, y, s),
             catReq[x].pc = "page", ServiceIsAsSeen(x, y)
      PROVE  /\ services[id].details = catReq[r].seen[id].details
             /\ services[id].offerings = catReq[r].menu[id]
  <2>1. x = r
    <3>1. CatDone(x)
      BY <1>1 DEF SaveService
    <3> QED
      BY <3>1 DEF CatDone, CatInv
  <2>2. y = id
    <3>1. PICK t : services' = [services EXCEPT ![y] = t]
      BY <1>1 DEF SaveService
    <3> QED
      BY <3>1 DEF CatInv
  <2> QED
    BY <1>1, <2>1, <2>2, SavedIsShown
<1>2. CASE UNCHANGED catVars
  BY <1>2 DEF catVars
<1>3. ASSUME NEW m \in CatStaff, NEW y \in ServiceIds, NEW d \in CatDetails,
             CreateService(m.user, y, d)
      PROVE  FALSE
  BY <1>3 DEF CreateService
<1>4. ASSUME NEW x \in CatRequests,
             (\E m \in CatStaff : ListServices(x, m.user)) \/ ListOfferings(x) \/ CatAbort(x)
      PROVE  FALSE
  BY <1>4 DEF ListServices, ListOfferings, CatAbort
<1>5. ASSUME NEW x \in CatRequests, NEW y \in ServiceIds, NEW d \in CatDetails, NEW a \in BOOLEAN,
             UpdateService(x, y, d, a)
      PROVE  /\ services[id].details = catReq[r].seen[id].details
             /\ services[id].offerings = catReq[r].menu[id]
  BY <1>1, <1>5 DEF UpdateService
<1>6. ASSUME NEW x \in CatRequests, NEW y \in ServiceIds, NEW os \in CatOfferings,
             SetOfferings(x, y, os)
      PROVE  /\ services[id].details = catReq[r].seen[id].details
             /\ services[id].offerings = catReq[r].menu[id]
  BY <1>1, <1>6 DEF SetOfferings
<1> QED
  BY <1>2, <1>3, <1>4, <1>5, <1>6 DEF CatNext

-----------------------------------------------------------------------------
(***************************************************************************)
(* What is told of a service, and what a menu shows of it.                 *)
(***************************************************************************)
\* What is saved of a service was checked.
Priced(s) ==
    /\ validPrice(s.details.price)
    /\ \A i \in DOMAIN s.offerings :
          s.offerings[i].price = Own \/ validPrice(s.offerings[i].price)

Notices == {ServiceChanged(id, s) : id \in ServiceIds, s \in ServiceRows}

\* The events of a service are the versions of its row, each once and in
\* order, and the last one is of the row as it is.
ServiceTold(id) ==
    /\ \A n \in Tells(id) : svcEvents[n].version \in 1 .. services[id].version
    /\ \A v \in 1 .. services[id].version : \E n \in Tells(id) : svcEvents[n].version = v
    /\ \A m, n \in Tells(id) : m < n => svcEvents[m].version < svcEvents[n].version
    /\ \A n \in Tells(id) : svcEvents[n].version = services[id].version
                               => svcEvents[n].snapshot = services[id]

\* What a menu read in two statements is of, for as long as the service was
\* saved at most once since the first.
MenuFits(q, id) ==
    LET old == q.seen[id]
        new == services[id]
    IN  /\ old # NoService => old \in Versions(id)
        /\ q.pc = "services" /\ old # NoService /\ new.version = old.version + 1 =>
              new.details = old.details \/ new.offerings = old.offerings
        /\ q.pc = "page" /\ old # NoService /\ new.version <= old.version + 1 =>
              \E v \in Versions(id) : /\ v.version \in {old.version, old.version + 1}
                                      /\ v.details = old.details
                                      /\ v.offerings = q.menu[id]

MenusFit == \A r \in CatRequests : catReq[r].pc # "idle" => \A id \in ServiceIds : MenuFits(catReq[r], id)

SoldInv ==
    /\ svcEvents \in Seq(Notices)
    /\ \A id \in ServiceIds :
          services[id] = NoService \/ (services[id].version > 0 /\ Priced(services[id]))
    /\ \A id \in ServiceIds : ServiceTold(id)
    /\ MenusFit

LEMMA NoticeIs ==
    ASSUME NEW id \in ServiceIds, NEW s \in ServiceRows
    PROVE  LET e == ServiceChanged(id, s)
           IN  e \in Notices /\ e.id = id /\ e.version = s.version /\ e.snapshot = s
<1> DEFINE o == s.active /\ PriceFrom(s) # Own
           f == IF PriceFrom(s) = Own THEN s.details.price ELSE PriceFrom(s)
           e == [id |-> id, version |-> s.version, offered |-> o, from |-> f, snapshot |-> s]
<1>1. ServiceChanged(id, s) = e
  BY DEF ServiceChanged
<1> HIDE DEF o, f
<1>2. e.id = id /\ e.version = s.version /\ e.snapshot = s
  OBVIOUS
<1> HIDE DEF e
<1>3. e \in Notices
  BY <1>1 DEF Notices
<1>4. QED
  BY <1>1, <1>2, <1>3

LEMMA NoticesTell ==
    ASSUME NEW e \in Notices
    PROVE  e.id \in ServiceIds /\ e.snapshot \in ServiceRows /\ e = ServiceChanged(e.id, e.snapshot)
           /\ e.version = e.snapshot.version
<1>1. PICK id \in ServiceIds, s \in ServiceRows : e = ServiceChanged(id, s)
  BY DEF Notices
<1>2. QED
  BY <1>1, NoticeIs

\* A service was created or saved: one version more, and its event.
ServiceGains(id, s) ==
    /\ id \in ServiceIds /\ s \in ServiceRows /\ s.version = services[id].version + 1
    /\ services' = [services EXCEPT ![id] = s]
    /\ svcEvents' = Append(svcEvents, ServiceChanged(id, s))
    /\ DOMAIN catReq' = CatRequests
    /\ \A r \in CatRequests : catReq'[r] = catReq[r] \/ catReq'[r] = NoCatRequest
    /\ services[id] # NoService =>
          s.details = services[id].details \/ s.offerings = services[id].offerings

LEMMA EventsGrow ==
    ASSUME CatInv, SoldInv, NEW id, NEW s, ServiceGains(id, s)
    PROVE  /\ svcEvents' \in Seq(Notices)
           /\ DOMAIN svcEvents' = 1 .. Len(svcEvents) + 1 /\ DOMAIN svcEvents = 1 .. Len(svcEvents)
           /\ Len(svcEvents) \in Nat
           /\ \A n \in DOMAIN svcEvents : svcEvents'[n] = svcEvents[n]
           /\ LET e == svcEvents'[Len(svcEvents) + 1]
              IN  e.id = id /\ e.version = s.version /\ e.snapshot = s
           /\ \A x \in ServiceIds : x # id => Tells(x)' = Tells(x)
           /\ Tells(id)' = Tells(id) \cup {Len(svcEvents) + 1}
           /\ \A x \in ServiceIds : Versions(x) \subseteq Versions(x)'
           /\ s \in Versions(id)'
<1> DEFINE e == ServiceChanged(id, s)
           k == Len(svcEvents)
<1>1. e \in Notices /\ e.id = id /\ e.version = s.version /\ e.snapshot = s
  BY NoticeIs DEF ServiceGains
<1>2. svcEvents \in Seq(Notices) /\ svcEvents' = Append(svcEvents, e)
  BY DEF SoldInv, ServiceGains
<1> HIDE DEF e
<1>3. /\ svcEvents' \in Seq(Notices) /\ Len(svcEvents') = k + 1 /\ k \in Nat
      /\ \A i \in 1 .. k : svcEvents'[i] = svcEvents[i]
      /\ svcEvents'[k + 1] = e
  BY <1>1, <1>2, AppendProperties
<1>4. DOMAIN svcEvents' = 1 .. k + 1 /\ DOMAIN svcEvents = 1 .. k
  BY <1>2, <1>3
<1> HIDE DEF k
<1>5. \A x \in ServiceIds : x # id => Tells(x)' = Tells(x)
  BY <1>1, <1>3, <1>4 DEF Tells
<1>6. Tells(id)' = Tells(id) \cup {k + 1}
  BY <1>1, <1>3, <1>4 DEF Tells
<1>7. \A x \in ServiceIds : Versions(x) \subseteq Versions(x)'
  BY <1>3, <1>4 DEF Versions, Tells
<1>8. s \in Versions(id)'
  BY <1>1, <1>3, <1>6 DEF Versions
<1>9. QED
  BY <1>1, <1>3, <1>4, <1>5, <1>6, <1>7, <1>8 DEF k

LEMMA ServiceToldStep ==
    ASSUME CatInv, SoldInv, NEW id, NEW s, ServiceGains(id, s), NEW x \in ServiceIds
    PROVE  ServiceTold(x)'
<1>1. ServiceTold(x)
  BY DEF SoldInv
<1>2. \A n \in Tells(x) : svcEvents'[n] = svcEvents[n] /\ n \in 1 .. Len(svcEvents)
  BY EventsGrow DEF Tells
<1>3. CASE x # id
  <2>1. services'[x] = services[x]
    BY <1>3 DEF ServiceGains, CatInv
  <2>2. Tells(x)' = Tells(x)
    BY <1>3, EventsGrow
  <2>3. QED
    BY <1>1, <1>2, <2>1, <2>2 DEF ServiceTold
<1>4. CASE x = id
  <2> DEFINE k == Len(svcEvents) + 1
             v == services[id].version
  <2>1. services'[id] = s /\ s.version = v + 1 /\ v \in Nat
    BY <1>4 DEF ServiceGains, CatInv, ServiceRows
  <2>2. Tells(id)' = Tells(id) \cup {k} /\ k \in Nat /\ Len(svcEvents) \in Nat
    BY EventsGrow
  <2>3. svcEvents'[k].version = v + 1 /\ svcEvents'[k].snapshot = s
    BY <2>1, EventsGrow
  <2>4. \A n \in Tells(id) : n < k /\ n # k
    BY <1>2, <1>4, <2>2
  <2>5. \A n \in Tells(id) : /\ svcEvents'[n].version = svcEvents[n].version
                             /\ svcEvents[n].version \in 1 .. v
    BY <1>1, <1>2, <1>4 DEF ServiceTold
  <2> HIDE DEF k, v
  <2>6. \A n \in Tells(id) : svcEvents[n].version \in Nat /\ svcEvents[n].version < v + 1
    BY <2>1, <2>5
  <2>7. \A n \in Tells(id)' : svcEvents'[n].version \in 1 .. v + 1
    BY <2>1, <2>2, <2>3, <2>5
  <2>8. ASSUME NEW w \in 1 .. v + 1
        PROVE  \E n \in Tells(id)' : svcEvents'[n].version = w
    <3>1. CASE w = v + 1
      BY <2>2, <2>3, <3>1
    <3>2. CASE w # v + 1
      <4>1. w \in 1 .. v
        BY <2>1, <3>2
      <4>2. PICK n \in Tells(id) : svcEvents[n].version = w
        BY <1>1, <1>4, <4>1 DEF ServiceTold, v
      <4>3. QED
        BY <2>2, <2>5, <4>2
    <3>3. QED
      BY <3>1, <3>2
  <2>9. ASSUME NEW m \in Tells(id)', NEW n \in Tells(id)', m < n
        PROVE  svcEvents'[m].version < svcEvents'[n].version
    <3>1. m # k
      <4> SUFFICES ASSUME m = k PROVE FALSE
        OBVIOUS
      <4>1. n = k \/ n < k
        BY <2>2, <2>4
      <4>2. n \in Nat
        BY <1>2, <1>4, <2>2
      <4>3. QED
        BY <2>2, <2>9, <4>1, <4>2
    <3>2. m \in Tells(id)
      BY <2>2, <3>1
    <3>3. CASE n = k
      BY <2>3, <2>5, <2>6, <3>2, <3>3
    <3>4. CASE n # k
      <4>1. n \in Tells(id)
        BY <2>2, <3>4
      <4>2. QED
        BY <1>1, <1>4, <2>5, <2>9, <3>2, <4>1 DEF ServiceTold
    <3>5. QED
      BY <3>3, <3>4
  <2>10. ASSUME NEW n \in Tells(id)', svcEvents'[n].version = v + 1
         PROVE  svcEvents'[n].snapshot = s
    <3>1. n = k
      BY <2>2, <2>5, <2>6, <2>10
    <3>2. QED
      BY <2>3, <3>1
  <2>11. QED
    BY <1>4, <2>1, <2>7, <2>8, <2>9, <2>10 DEF ServiceTold
<1>5. QED
  BY <1>3, <1>4

LEMMA MenusFitStep ==
    ASSUME CatInv, SoldInv, NEW id, NEW s, ServiceGains(id, s)
    PROVE  MenusFit'
<1> SUFFICES ASSUME NEW r \in CatRequests, catReq'[r].pc # "idle", NEW x \in ServiceIds
             PROVE  MenuFits(catReq[r], x)' 
  BY DEF MenusFit
<1>1. catReq'[r] = catReq[r]
  BY DEF ServiceGains, NoCatRequest
<1> DEFINE q == catReq[r]
           old == q.seen[x]
           was == services[x]
           new == services'[x]
<1>2. MenuFits(q, x) /\ q \in CatPages /\ ShowsService(q, services) /\ q.pc # "idle"
      /\ (q.pc = "services" => (old.version = was.version => old = was))
  BY <1>1 DEF SoldInv, MenusFit, CatInv
<1>3. Versions(x) \subseteq Versions(x)'
  BY EventsGrow
<1>4. /\ old.version \in Nat /\ old.version <= was.version /\ was.version \in Nat
  BY <1>2 DEF ShowsService, CatInv, ServiceRows
<1>5. \/ new = was
      \/ /\ new.version = was.version + 1
         /\ was # NoService => new.details = was.details \/ new.offerings = was.offerings
  BY DEF ServiceGains, CatInv
<1> HIDE DEF new, was
<1>6. old # NoService => old \in Versions(x)'
  BY <1>2, <1>3 DEF MenuFits
<1>7. ASSUME q.pc = "services", old # NoService, new.version = old.version + 1
      PROVE  new.details = old.details \/ new.offerings = old.offerings
  <2>1. CASE new = was
    BY <1>2, <1>7, <2>1 DEF MenuFits, was
  <2>2. CASE new # was
    <3>1. new.version = was.version + 1
      BY <1>5, <2>2
    <3>2. old.version = was.version
      BY <1>4, <1>7, <3>1
    <3>3. old = was
      BY <1>2, <1>7, <3>2
    <3>4. QED
      BY <1>5, <1>7, <2>2, <3>3
  <2>3. QED
    BY <2>1, <2>2
<1>8. ASSUME q.pc = "page", old # NoService, new.version <= old.version + 1
      PROVE  \E v \in Versions(x)' : /\ v.version \in {old.version, old.version + 1}
                                     /\ v.details = old.details
                                     /\ v.offerings = q.menu[x]
  <2>1. was.version <= old.version + 1
    BY <1>4, <1>5, <1>8
  <2>2. \E v \in Versions(x) : /\ v.version \in {old.version, old.version + 1}
                               /\ v.details = old.details
                               /\ v.offerings = q.menu[x]
    BY <1>2, <1>8, <2>1 DEF MenuFits, was
  <2>3. QED
    BY <1>3, <2>2
<1>9. QED
  BY <1>1, <1>6, <1>7, <1>8 DEF MenuFits, new

LEMMA SoldGains ==
    ASSUME CatInv, SoldInv, NEW id, NEW s, ServiceGains(id, s), Priced(s)
    PROVE  SoldInv'
<1>1. svcEvents' \in Seq(Notices)
  BY EventsGrow
<1>2. s.version > 0
  BY DEF ServiceGains, CatInv, ServiceRows
<1>3. \A x \in ServiceIds :
          services'[x] = NoService \/ (services'[x].version > 0 /\ Priced(services'[x]))
  BY <1>2 DEF ServiceGains, CatInv, SoldInv
<1>4. \A x \in ServiceIds : ServiceTold(x)'
  BY ServiceToldStep
<1>5. QED
  BY <1>1, <1>3, <1>4, MenusFitStep DEF SoldInv, Priced

LEMMA CreateSold ==
    ASSUME CatInv, SoldInv, NEW user, NEW id \in ServiceIds, NEW d \in CatDetails,
           CreateService(user, id, d)
    PROVE  SoldInv'
<1> DEFINE s == [version |-> 1, active |-> TRUE, details |-> d, offerings |-> << >>]
<1>1. s \in ServiceRows
  BY DEF ServiceRows, CatOffered
<1>2. s.version = services[id].version + 1
  BY DEF CreateService, NoService
<1>3. /\ services' = [services EXCEPT ![id] = s] /\ UNCHANGED catReq
      /\ svcEvents' = Append(svcEvents, ServiceChanged(id, s))
      /\ services[id] = NoService /\ DetailsError(d) = "none"
  BY DEF CreateService
<1>4. DOMAIN catReq' = CatRequests
  BY <1>3 DEF CatInv
<1>5. s.details = d /\ DOMAIN s.offerings = {}
  OBVIOUS
<1> HIDE DEF s
<1>6. validPrice(d.price)
  BY <1>3 DEF DetailsError
<1>7. Priced(s)
  BY <1>5, <1>6 DEF Priced
<1>8. ServiceGains(id, s)
  BY <1>1, <1>2, <1>3, <1>4 DEF ServiceGains
<1>9. QED
  BY <1>7, <1>8, SoldGains

LEMMA SaveSold ==
    ASSUME CatInv, SoldInv, NEW r \in CatRequests, NEW id \in ServiceIds, NEW s \in ServiceRows,
           s.version = services[id].version, SaveService(r, id, s), Priced(s),
           s.details = services[id].details \/ s.offerings = services[id].offerings
    PROVE  SoldInv'
<1> DEFINE next == [s EXCEPT !.version = @ + 1]
<1>1. /\ next \in ServiceRows /\ next.version = services[id].version + 1
      /\ next.details = s.details /\ next.offerings = s.offerings
  BY DEF ServiceRows
<1>2. /\ services' = [services EXCEPT ![id] = next] /\ CatDone(r)
      /\ svcEvents' = Append(svcEvents, ServiceChanged(id, next))
  BY DEF SaveService
<1>3. DOMAIN catReq' = CatRequests /\ \A x \in CatRequests : catReq'[x] = catReq[x] \/ catReq'[x] = NoCatRequest
  BY <1>2 DEF CatInv, CatDone
<1> HIDE DEF next
<1>4. ServiceGains(id, next)
  BY <1>1, <1>2, <1>3 DEF ServiceGains
<1>5. Priced(next)
  BY <1>1 DEF Priced
<1>6. QED
  BY <1>4, <1>5, SoldGains

LEMMA UpdateSold ==
    ASSUME CatInv, SoldInv, NEW r \in CatRequests, NEW id \in ServiceIds, NEW d \in CatDetails,
           NEW a \in BOOLEAN, UpdateService(r, id, d, a)
    PROVE  SoldInv'
<1> DEFINE s == Edited(services[id], d, a)
<1>1. services[id] \in ServiceRows
  BY DEF CatInv
<1>2. /\ s \in ServiceRows /\ s.version = services[id].version
      /\ s.details = d /\ s.offerings = services[id].offerings
  BY <1>1 DEF Edited, ServiceRows
<1>3. services[id] # NoService /\ DetailsError(d) = "none" /\ SaveService(r, id, s)
  BY DEF UpdateService, ServiceIsAsSeen
<1> HIDE DEF s
<1>4. Priced(services[id]) /\ validPrice(d.price)
  BY <1>3 DEF SoldInv, DetailsError
<1>5. Priced(s)
  BY <1>2, <1>4 DEF Priced
<1>6. QED
  BY <1>2, <1>3, <1>5, SaveSold

LEMMA SetSold ==
    ASSUME CatInv, SoldInv, NEW r \in CatRequests, NEW id \in ServiceIds, NEW os \in CatOfferings,
           SetOfferings(r, id, os)
    PROVE  SoldInv'
<1> DEFINE s == [services[id] EXCEPT !.offerings = os]
<1>1. services[id] \in ServiceRows /\ os \in CatOffered
  BY DEF CatInv, CatOffered
<1>2. /\ s \in ServiceRows /\ s.version = services[id].version
      /\ s.details = services[id].details /\ s.offerings = os
  BY <1>1 DEF ServiceRows
<1>3. services[id] # NoService /\ OfferingsError(os) = "none" /\ SaveService(r, id, s)
  BY DEF SetOfferings, ServiceIsAsSeen
<1> HIDE DEF s
<1>4. \A i \in DOMAIN os : os[i].price = Own \/ validPrice(os[i].price)
  BY <1>3 DEF OfferingsError
<1>5. Priced(services[id])
  BY <1>3 DEF SoldInv
<1>6. Priced(s)
  BY <1>2, <1>4, <1>5 DEF Priced
<1>7. QED
  BY <1>2, <1>3, <1>6, SaveSold

\* Only one request moves on.
LEMMA ReadSold ==
    ASSUME CatInv, SoldInv, NEW r \in CatRequests, NEW q, catReq' = [catReq EXCEPT ![r] = q],
           UNCHANGED <<services, svcEvents>>,
           q.pc # "idle" => \A id \in ServiceIds : MenuFits(q, id)
    PROVE  SoldInv'
<1>1. \A x \in CatRequests : catReq'[x] = IF x = r THEN q ELSE catReq[x]
  BY DEF CatInv
<1>2. MenusFit'
  BY <1>1 DEF SoldInv, MenusFit, MenuFits, Versions, Tells
<1>3. \A id \in ServiceIds : ServiceTold(id)'
  BY DEF SoldInv, ServiceTold, Tells
<1>4. QED
  BY <1>2, <1>3 DEF SoldInv, Priced

LEMMA CurrentIsAVersion ==
    ASSUME CatInv, SoldInv, NEW id \in ServiceIds, services[id] # NoService
    PROVE  services[id] \in Versions(id)
<1>1. services[id].version \in Nat /\ services[id].version > 0 /\ ServiceTold(id)
  BY DEF SoldInv, CatInv, ServiceRows
<1>2. services[id].version \in 1 .. services[id].version
  BY <1>1
<1>3. PICK n \in Tells(id) : svcEvents[n].version = services[id].version
  BY <1>1, <1>2 DEF ServiceTold
<1>4. QED
  BY <1>1, <1>3 DEF ServiceTold, Versions

LEMMA ListServicesSold ==
    ASSUME CatInv, SoldInv, NEW r \in CatRequests, NEW user, ListServices(r, user)
    PROVE  SoldInv'
<1> DEFINE sv == services
           q == [NoCatRequest EXCEPT !.pc = "services", !.user = user, !.seen = sv]
<1>1. catReq' = [catReq EXCEPT ![r] = q] /\ UNCHANGED <<services, svcEvents>>
  BY DEF ListServices
<1> HIDE DEF sv
<1>2. q.pc = "services" /\ q.seen = sv
  BY DEF NoCatRequest
<1> HIDE DEF q
<1>3. \A id \in ServiceIds : services[id].version \in Nat
  BY DEF CatInv, ServiceRows
<1>4. \A id \in ServiceIds : services[id].version # services[id].version + 1
  BY <1>3
<1>5. \A id \in ServiceIds : MenuFits(q, id)
  BY <1>2, <1>4, CurrentIsAVersion DEF MenuFits, sv
<1>6. QED
  BY <1>1, <1>5, ReadSold

LEMMA ListOfferingsSold ==
    ASSUME CatInv, SoldInv, NEW r \in CatRequests, ListOfferings(r)
    PROVE  SoldInv'
<1> DEFINE menu == [id \in ServiceIds |-> services[id].offerings]
           was == catReq[r]
           q == [was EXCEPT !.pc = "page", !.menu = menu]
<1>1. /\ was \in CatPages /\ ShowsService(was, services) /\ was.pc = "services"
      /\ \A id \in ServiceIds : MenuFits(was, id)
      /\ \A id \in ServiceIds :
            was.seen[id].version = services[id].version => was.seen[id] = services[id]
  BY DEF CatInv, ListOfferings, SoldInv, MenusFit
<1>2. catReq' = [catReq EXCEPT ![r].pc = "page", ![r].menu = menu] /\ UNCHANGED <<services, svcEvents>>
  BY DEF ListOfferings
<1>3. \A id \in ServiceIds : menu[id] = services[id].offerings
  OBVIOUS
<1> HIDE DEF menu
<1>4. catReq' = [catReq EXCEPT ![r] = q]
  BY <1>1, <1>2 DEF CatInv, CatPages
<1>5. q.pc = "page" /\ q.menu = menu /\ q.seen = was.seen
  BY <1>1 DEF CatPages
<1> HIDE DEF q, was
<1>6. ASSUME NEW id \in ServiceIds PROVE MenuFits(q, id)
  <2> DEFINE old == was.seen[id]
             new == services[id]
  <2>1. old # NoService => old \in Versions(id)
    BY <1>1 DEF MenuFits
  <2>2. old.version \in Nat /\ new.version \in Nat /\ old.version <= new.version
    BY <1>1 DEF ShowsService, CatInv, ServiceRows
  <2>3. ASSUME old # NoService, new.version <= old.version + 1
        PROVE  \E v \in Versions(id) : /\ v.version \in {old.version, old.version + 1}
                                       /\ v.details = old.details
                                       /\ v.offerings = new.offerings
    <3>1. CASE new.version = old.version
      BY <1>1, <2>1, <2>3, <3>1
    <3>2. CASE new.version # old.version
      <4>1. new.version = old.version + 1
        BY <2>2, <2>3, <3>2
      <4>2. new # NoService
        BY <2>2, <4>1 DEF NoService
      <4>3. new \in Versions(id)
        BY <4>2, CurrentIsAVersion
      <4>4. new.details = old.details \/ new.offerings = old.offerings
        BY <1>1, <2>3, <4>1 DEF MenuFits
      <4>5. QED
        BY <2>1, <2>3, <4>1, <4>3, <4>4
    <3>3. QED
      BY <3>1, <3>2
  <2>4. QED
    BY <1>3, <1>5, <2>1, <2>3 DEF MenuFits
<1>7. QED
  BY <1>4, <1>2, <1>6, ReadSold

LEMMA SoldInvHolds == CatSpec => []SoldInv
<1>1. CatInit => SoldInv
  <2> SUFFICES ASSUME CatInit PROVE SoldInv
    OBVIOUS
  <2>1. svcEvents = << >> /\ \A id \in ServiceIds : services[id] = NoService
    BY DEF CatInit
  <2>2. svcEvents \in Seq(Notices) /\ \A id \in ServiceIds : Tells(id) = {}
    BY <2>1 DEF Tells
  <2>3. NoService.version = 0 /\ NoCatRequest.pc = "idle"
    BY DEF NoService, NoCatRequest
  <2>4. \A id \in ServiceIds : ServiceTold(id)
    BY <2>1, <2>2, <2>3 DEF ServiceTold
  <2>5. MenusFit
    BY <2>3 DEF CatInit, MenusFit
  <2>6. QED
    BY <2>1, <2>2, <2>4, <2>5 DEF SoldInv
<1>2. CatInv /\ SoldInv /\ [CatNext]_catVars => SoldInv'
  <2> SUFFICES ASSUME CatInv, SoldInv, [CatNext]_catVars PROVE SoldInv'
    OBVIOUS
  <2>1. CASE UNCHANGED catVars
    BY <2>1 DEF catVars, SoldInv, Priced, ServiceTold, MenusFit, MenuFits, Versions, Tells
  <2>2. ASSUME NEW m \in CatStaff, NEW id \in ServiceIds, NEW d \in CatDetails,
               CreateService(m.user, id, d)
        PROVE  SoldInv'
    BY <2>2, CreateSold
  <2>3. ASSUME NEW r \in CatRequests, NEW m \in CatStaff, ListServices(r, m.user)
        PROVE  SoldInv'
    BY <2>3, ListServicesSold
  <2>4. ASSUME NEW r \in CatRequests, ListOfferings(r) PROVE SoldInv'
    BY <2>4, ListOfferingsSold
  <2>5. ASSUME NEW r \in CatRequests, CatAbort(r) PROVE SoldInv'
    <3>1. NoCatRequest.pc = "idle"
      BY DEF NoCatRequest
    <3>2. QED
      BY <2>5, <3>1, ReadSold DEF CatAbort, CatDone
  <2>6. ASSUME NEW r \in CatRequests, NEW id \in ServiceIds, NEW d \in CatDetails,
               NEW a \in BOOLEAN, UpdateService(r, id, d, a)
        PROVE  SoldInv'
    BY <2>6, UpdateSold
  <2>7. ASSUME NEW r \in CatRequests, NEW id \in ServiceIds, NEW os \in CatOfferings,
               SetOfferings(r, id, os)
        PROVE  SoldInv'
    BY <2>7, SetSold
  <2>8. QED
    BY <2>1, <2>2, <2>3, <2>4, <2>5, <2>6, <2>7 DEF CatNext
<1>3. QED
  BY <1>1, <1>2, CatInvHolds, PTL DEF CatSpec

LEMMA MenusAreVersions == CatInv /\ SoldInv => MenuIsAVersion
<1> SUFFICES ASSUME CatInv, SoldInv, NEW r \in CatRequests, NEW id \in ServiceIds,
                    catReq[r].pc = "page", catReq[r].seen[id] # NoService,
                    services[id].version <= catReq[r].seen[id].version + 1
             PROVE  \E v \in Versions(id) :
                       /\ v.version \in {catReq[r].seen[id].version, catReq[r].seen[id].version + 1}
                       /\ MenuItem(catReq[r].seen[id].details, catReq[r].menu[id])
                             = MenuItem(v.details, v.offerings)
  BY DEF MenuIsAVersion
<1>1. MenuFits(catReq[r], id)
  BY DEF SoldInv, MenusFit
<1>2. QED
  BY <1>1 DEF MenuFits

\* The least of the performers' prices, if anyone performs the service.
LEMMA FromIsTheLeast ==
    ASSUME NEW s \in ServiceRows, Priced(s)
    PROVE  LET P == {PriceOr(s.offerings[i], s.details.price) : i \in DOMAIN s.offerings}
           IN  /\ P = {} => PriceFrom(s) = Own
               /\ P # {} => PriceFrom(s) # Own /\ PriceFrom(s) \in P
                               /\ \A p \in P : p >= PriceFrom(s)
<1> DEFINE P == {PriceOr(s.offerings[i], s.details.price) : i \in DOMAIN s.offerings}
<1>1. P \subseteq Nat
  BY CatalogAssumption DEF Priced, PriceOr, validPrice
<1>2. s.offerings # << >> => P # {}
  <2>1. s.offerings \in CatOfferings \cup {<< >>}
    BY DEF ServiceRows, CatOffered
  <2>2. s.offerings # << >> => s.offerings \in Seq(Range(s.offerings))
    BY <2>1, CatalogAssumption
  <2>3. s.offerings # << >> => 1 \in DOMAIN s.offerings
    BY <2>2
  <2>4. QED
    BY <2>3
<1>3. s.offerings = << >> => P = {}
  OBVIOUS
<1>4. P # {} => Min(P) \in P /\ \A p \in P : Min(P) <= p
  <2> HIDE DEF P
  <2>1. P # {} => \E n \in P : \A m \in P : n <= m
    BY <1>1, LeastNumber
  <2>2. QED
    BY <2>1 DEF Min
<1>5. PriceFrom(s) = IF s.offerings = << >> THEN Own ELSE Min(P)
  BY DEF PriceFrom
<1> HIDE DEF P
<1>6. P = {} => PriceFrom(s) = Own
  BY <1>2, <1>5
<1>7. P # {} => PriceFrom(s) = Min(P)
  BY <1>3, <1>5
<1>8. ASSUME P # {}
      PROVE  PriceFrom(s) # Own /\ PriceFrom(s) \in P /\ \A p \in P : p >= PriceFrom(s)
  <2>1. PriceFrom(s) \in P /\ PriceFrom(s) \in Nat /\ \A p \in P : p \in Nat /\ PriceFrom(s) <= p
    BY <1>1, <1>4, <1>7, <1>8
  <2>2. QED
    BY <2>1 DEF Own
<1>9. QED
  BY <1>6, <1>8 DEF P

LEMMA FromIsBookable == CatInv /\ SoldInv => FromPriceIsBookable
<1> SUFFICES ASSUME CatInv, SoldInv, NEW id \in ServiceIds
             PROVE  LET s    == services[id]
                        item == MenuItem(s.details, s.offerings)
                    IN  /\ {svcEvents[n].version : n \in Tells(id)} = 1 .. s.version
                        /\ \A m, n \in Tells(id) : m < n => svcEvents[m].version < svcEvents[n].version
                        /\ \A n \in Tells(id) : svcEvents[n].version = s.version =>
                              /\ svcEvents[n].offered <=> s.active /\ item.performers # {}
                              /\ item.performers # {}
                                    => /\ \E p \in item.performers : p.price = svcEvents[n].from
                                       /\ \A p \in item.performers : p.price >= svcEvents[n].from
  BY DEF FromPriceIsBookable
<1> DEFINE s == services[id]
           performers == MenuItem(s.details, s.offerings).performers
           P == {PriceOr(s.offerings[i], s.details.price) : i \in DOMAIN s.offerings}
<1>1. ServiceTold(id) /\ s \in ServiceRows
  BY DEF SoldInv, CatInv
<1>2. {svcEvents[n].version : n \in Tells(id)} = 1 .. s.version
  BY <1>1 DEF ServiceTold
<1>3. \A m, n \in Tells(id) : m < n => svcEvents[m].version < svcEvents[n].version
  BY <1>1 DEF ServiceTold
<1>4. (\A p \in performers : p.price \in P) /\ (\A x \in P : \E p \in performers : p.price = x)
  <2> DEFINE line(i) == [staff |-> s.offerings[i].staff,
                         price |-> PriceOr(s.offerings[i], s.details.price),
                         duration |-> DurationOr(s.offerings[i], s.details.duration)]
  <2>1. performers = {line(i) : i \in DOMAIN s.offerings}
    BY DEF MenuItem
  <2>2. \A i \in DOMAIN s.offerings : line(i).price = PriceOr(s.offerings[i], s.details.price)
    OBVIOUS
  <2> HIDE DEF line
  <2>3. QED
    BY <2>1, <2>2
<1>5. performers # {} <=> P # {}
  <2> HIDE DEF performers, P
  <2>1. QED
    BY <1>4
<1>6. ASSUME NEW n \in Tells(id), svcEvents[n].version = s.version
      PROVE  /\ svcEvents[n].offered <=> s.active /\ performers # {}
             /\ performers # {}
                   => /\ \E p \in performers : p.price = svcEvents[n].from
                      /\ \A p \in performers : p.price >= svcEvents[n].from
  <2>1. s # NoService
    <3>1. svcEvents[n].version \in 1 .. s.version /\ s.version \in Nat
      BY <1>1 DEF ServiceTold, ServiceRows
    <3>2. s.version # 0
      BY <3>1
    <3>3. QED
      BY <3>2 DEF NoService
  <2>2. Priced(s)
    BY <2>1 DEF SoldInv
  <2>3. svcEvents[n] \in Notices /\ svcEvents[n].id = id
    <3>1. n \in DOMAIN svcEvents /\ svcEvents \in Seq(Notices)
      BY DEF Tells, SoldInv
    <3>2. QED
      BY <3>1 DEF Tells
  <2>4. svcEvents[n] = ServiceChanged(id, s)
    BY <1>1, <1>6, <2>3, NoticesTell DEF ServiceTold
  <2>5. /\ svcEvents[n].offered = (s.active /\ PriceFrom(s) # Own)
        /\ svcEvents[n].from = IF PriceFrom(s) = Own THEN s.details.price ELSE PriceFrom(s)
    BY <2>4 DEF ServiceChanged
  <2>6. /\ P = {} => PriceFrom(s) = Own
        /\ P # {} => PriceFrom(s) # Own /\ PriceFrom(s) \in P /\ \A p \in P : p >= PriceFrom(s)
    BY <1>1, <2>2, FromIsTheLeast
  <2> HIDE DEF s, performers, P
  <2>7. svcEvents[n].offered <=> s.active /\ performers # {}
    BY <1>5, <2>5, <2>6
  <2>8. performers # {} => /\ \E p \in performers : p.price = svcEvents[n].from
                           /\ \A p \in performers : p.price >= svcEvents[n].from
    BY <1>4, <1>5, <2>5, <2>6
  <2>9. QED
    BY <2>7, <2>8
<1>7. QED
  BY <1>2, <1>3, <1>6

-----------------------------------------------------------------------------
(***************************************************************************)
(* The HTTP edge: where a request is, and what that says of it.            *)
(***************************************************************************)
HttpErrors ==
    {"ErrUnauthenticated", "ErrNoPrincipal", "ErrBadIfMatch", "other"}
        \cup UNION {DOMAIN Problems[Handlers[o].module] : o \in Operations}

HttpReplies ==
    {Replies[o] : o \in Operations} \cup {0}
        \cup {problem(Handlers[o].module, e) : o \in Operations, e \in HttpErrors}

HttpCodes == HttpReplies \cup {400, 401, 404, 405, 413, 500}

HttpFaults == {"none"} \cup UNION {Params(o) : o \in Operations}

Early == {"auth", "transfer", "validate", "restore", "bind", "decode", "handle"}

HttpOps == Operations \cup Unknown

HttpRequests == [op: HttpOps, header: Headers, fault: HttpFaults, match: IfMatches,
                 body: Bodies, typed: BOOLEAN]

Webs == [step: Early \cup {"visit", "sending", "failed", "panic", "done"},
         req: HttpRequests, principal: BOOLEAN, body: Bodies, seen: Bodies, ran: BOOLEAN,
         reply: HttpReplies, sent: Seq(HttpCodes), cut: BOOLEAN, aborts: BOOLEAN]

\* A request nobody vouches for, to an operation for principals.
Stranger(w) ==
    w.req.op \in Operations /\ Protected(w.req.op) /\ w.req.header # "good token"

\* What a stranger may be told: to sign in, or that the body is too large.
StrangerGets(w, s) == s = 401 \/ (s = 413 /\ w.req.body = "huge" /\ ~ Upload(w.req.op))

\* Where a request is, and what that says of it.
WebFits(w) ==
    /\ w \in Webs
    /\ w.step # "done" => w.req.op \in Operations
    /\ w.step \in Early \cup {"visit"} => w.sent = << >>
    /\ w.step = "sending" => Len(w.sent) = 1
    /\ w.step = "done" => Len(w.sent) = 1 \/ (w.aborts /\ w.cut)
    /\ Len(w.sent) <= 1
    /\ w.step \in Early => ~ w.ran
    /\ w.ran => w.seen = w.req.body
    /\ w.step \in {"auth", "transfer", "bind", "decode", "handle"} => w.body = w.req.body
    /\ w.step = "validate" => w.body = IF Upload(w.req.op) THEN "none" ELSE w.req.body
    /\ w.step = "auth" => ~ w.principal
    /\ w.principal => w.req.header = "good token"
    /\ Stranger(w) =>
          /\ ~ w.ran
          /\ w.step \in {"auth", "transfer", "validate", "done"}
          /\ w.step = "done" => \/ w.sent = <<401>>
                                \/ /\ w.sent = <<413>> /\ w.req.body = "huge"
                                   /\ ~ Upload(w.req.op)

WebInv == web = Idle \/ WebFits(web)

\* The status line of an answer, the first one.
LEMMA AnswerIs ==
    ASSUME NEW w \in Webs, NEW s \in HttpCodes, w.sent = << >>
    PROVE  /\ Answer(w, s) = [w EXCEPT !.step = "done", !.sent = <<s>>]
           /\ Sent(w, s) = [w EXCEPT !.sent = <<s>>]
           /\ <<s>> \in Seq(HttpCodes) /\ Len(<<s>>) = 1
<1>1. Append(w.sent, s) = <<s>>
  OBVIOUS
<1>2. <<s>> \in Seq(HttpCodes) /\ Len(<<s>>) = 1
  OBVIOUS
<1>3. Sent(w, s) = [w EXCEPT !.sent = <<s>>]
  BY <1>1 DEF Sent
<1> DEFINE one == <<s>>
<1> HIDE DEF one
<1>4. [[w EXCEPT !.sent = one] EXCEPT !.step = "done"] = [w EXCEPT !.step = "done", !.sent = one]
  BY DEF Webs
<1> QED
  BY <1>2, <1>3, <1>4 DEF Answer, one

\* Who is a stranger is said by the request.
LEMMA StrangersAsk ==
    ASSUME NEW w, NEW a, a.req = w.req
    PROVE  Stranger(a) <=> Stranger(w)
  BY Zenon DEF Stranger

\* An answer of the layers before the handler to someone who is no stranger,
\* or the one a stranger gets.
LEMMA AnswerFits ==
    ASSUME NEW w, WebFits(w), NEW s \in HttpCodes, w.step \in Early \cup {"visit", "failed", "panic"},
           w.sent = << >>,
           Stranger(w) => StrangerGets(w, s)
    PROVE  WebFits(Answer(w, s))
<1> DEFINE one == <<s>>
           a == [w EXCEPT !.step = "done", !.sent = one]
<1>0. /\ w.ran => w.seen = w.req.body
      /\ w.principal => w.req.header = "good token"
      /\ Stranger(w) => ~ w.ran
      /\ w \in Webs
  BY Zenon DEF WebFits
<1>1. Answer(w, s) = a /\ one \in Seq(HttpCodes) /\ Len(one) = 1
  <2>1. w \in Webs
    BY Zenon, <1>0
  <2>2. Answer(w, s) = [w EXCEPT !.step = "done", !.sent = <<s>>]
    BY Zenon, <2>1, AnswerIs
  <2>3. <<s>> \in Seq(HttpCodes) /\ Len(<<s>>) = 1
    OBVIOUS
  <2> QED
    BY Zenon, <2>2, <2>3
<1>2. s = 401 => one = <<401>>
  OBVIOUS
<1>3. s = 413 => one = <<413>>
  OBVIOUS
<1> HIDE DEF one
<1>4. /\ a \in Webs /\ a.step = "done" /\ a.sent = one /\ a.req = w.req /\ a.ran = w.ran
      /\ a.seen = w.seen /\ a.body = w.body /\ a.principal = w.principal
  BY <1>0, <1>1 DEF Webs
<1> HIDE DEF a
<1>5. Stranger(a) <=> Stranger(w)
  <2>1. a.req = w.req
    BY Zenon, <1>4
  <2> QED
    BY Zenon, <2>1, StrangersAsk
<1>6. WebFits(a)
  <2>1. a.step \notin Early
    BY <1>4 DEF Early
  <2>2. (a.ran => a.seen = a.req.body) /\ (a.principal => a.req.header = "good token")
    BY <1>0, <1>4
  <2>3. Stranger(a) => ~ a.ran
    BY <1>0, <1>4, <1>5
  <2>4. Stranger(a) => \/ a.sent = <<401>>
                       \/ a.sent = <<413>> /\ a.req.body = "huge" /\ ~ Upload(a.req.op)
    BY <1>2, <1>3, <1>4, <1>5 DEF StrangerGets
  <2>5. Len(a.sent) = 1 /\ Len(a.sent) <= 1
    <3>1. Len(a.sent) = 1
      BY <1>1, <1>4
    <3> QED
      BY <3>1
  <2> QED
    BY <1>4, <2>1, <2>2, <2>3, <2>4, <2>5 DEF WebFits
<1> QED
  BY <1>1, <1>6

\* A request that goes on: only where it is and what it learned changes.
LEMMA GoesOnFits ==
    ASSUME NEW w, WebFits(w), NEW a \in Webs, a.req = w.req, w.step # "done",
           a.step \in Early, w.step \in Early,
           a.sent = w.sent, a.ran = w.ran, a.seen = w.seen,
           a.step # "auth",
           a.principal => w.req.header = "good token",
           a.step \in {"transfer", "bind", "decode", "handle"} => a.body = w.req.body,
           a.step = "validate" => a.body = IF Upload(w.req.op) THEN "none" ELSE w.req.body,
           Stranger(w) => a.step \in {"transfer", "validate"}
    PROVE  WebFits(a)
<1>1. Stranger(a) <=> Stranger(w)
  BY DEF Stranger
<1> QED
  BY <1>1 DEF WebFits, Early

\* What NewRouter makes of a request, and where the router sends it.
NewWeb(r) ==
    [step |-> "auth", req |-> r, principal |-> FALSE, body |-> r.body, seen |-> "none",
     ran |-> FALSE, reply |-> 0, sent |-> << >>, cut |-> FALSE, aborts |-> FALSE]

LEMMA WebNewRouter ==
    ASSUME NewRouter
    PROVE  WebFits(web')
<1>1. PICK o \in HttpOps, h \in Headers, v \in IfMatches, b \in Bodies, t \in BOOLEAN :
       \E f \in Faults(o) :
         LET r == [op |-> o, header |-> h, fault |-> f, match |-> v,
                   body |-> b, typed |-> t]
             w == [step |-> "auth", req |-> r, principal |-> FALSE, body |-> b,
                   seen |-> "none", ran |-> FALSE, reply |-> 0, sent |-> <<>>,
                   cut |-> FALSE, aborts |-> FALSE]
         IN  /\ Plain(r)
             /\ web' = CASE o = "no such route" -> Answer(w, 404)
                         [] o = "wrong method"  -> Answer(w, 405)
                         [] OTHER               -> w
  BY Zenon DEF NewRouter, HttpOps
<1>0. PICK f \in Faults(o) :
         LET r == [op |-> o, header |-> h, fault |-> f, match |-> v,
                   body |-> b, typed |-> t]
             w == [step |-> "auth", req |-> r, principal |-> FALSE, body |-> b,
                   seen |-> "none", ran |-> FALSE, reply |-> 0, sent |-> <<>>,
                   cut |-> FALSE, aborts |-> FALSE]
         IN  /\ Plain(r)
             /\ web' = CASE o = "no such route" -> Answer(w, 404)
                         [] o = "wrong method"  -> Answer(w, 405)
                         [] OTHER               -> w
  BY <1>1
<1> DEFINE r == [op |-> o, header |-> h, fault |-> f, match |-> v, body |-> b, typed |-> t]
           w == NewWeb(r)
           none == 404
           other == 405
<1>2. /\ o = "no such route" => web' = Answer(w, none)
      /\ o = "wrong method" => web' = Answer(w, other)
      /\ o \notin Unknown => web' = w
  <2>1. w = [step |-> "auth", req |-> r, principal |-> FALSE, body |-> b,
                   seen |-> "none", ran |-> FALSE, reply |-> 0, sent |-> <<>>,
                   cut |-> FALSE, aborts |-> FALSE]
    BY DEF NewWeb
  <2>2. web' = CASE o = "no such route" -> Answer(w, 404)
                 [] o = "wrong method"  -> Answer(w, 405)
                 [] OTHER               -> w
    BY <1>0, <2>1
  <2> HIDE DEF w
  <2> QED
    BY <2>2 DEF Unknown
<1>3. f \in HttpFaults
  BY DEF Faults, HttpFaults
<1>4. r \in HttpRequests /\ r.op = o /\ r.body = b /\ r.header = h
  BY <1>3 DEF HttpRequests
<1> HIDE DEF r
<1>6. << >> \in Seq(HttpCodes) /\ 0 \in HttpReplies /\ "none" \in Bodies /\ Len(<< >>) = 0
  BY DEF HttpReplies, Bodies
<1>7. w \in Webs
  BY <1>4, <1>6 DEF Webs, Early, NewWeb
<1>8. /\ w.step = "auth" /\ w.req = r /\ w.principal = FALSE /\ w.body = b /\ w.ran = FALSE
      /\ w.sent = << >>
  BY <1>4 DEF NewWeb
<1> HIDE DEF w
<1>9. none \in HttpCodes /\ other \in HttpCodes
  BY DEF HttpCodes
<1> HIDE DEF none, other
<1>10. CASE o \in Operations
  <2>1. web' = w
    BY <1>2, <1>10, UnknownAssumption
  <2>2. w.step \in Early /\ w.step \in {"auth", "transfer", "validate", "done"}
    BY <1>8 DEF Early
  <2>a. Len(w.sent) = 0
    BY <1>6, <1>8
  <2>b. Len(w.sent) <= 1
    BY <2>a
  <2>3. WebFits(w)
    <3>1. w.req.op \in Operations /\ w.body = w.req.body
      BY <1>4, <1>8, <1>10
    <3>2. ~ w.ran /\ ~ w.principal /\ w.step = "auth" /\ w.sent = << >>
      BY <1>8
    <3> QED
      BY <1>7, <3>1, <3>2, <2>2, <2>b DEF WebFits
  <2> QED
    BY <2>1, <2>3
<1>11. CASE o \notin Operations
  <2>1. o \in Unknown
    BY <1>11 DEF HttpOps
  <2>2. PICK s \in {none, other} : web' = Answer(w, s)
    <3>1. CASE o = "no such route"
      BY Zenon, <1>2, <3>1
    <3>2. CASE o = "wrong method"
      BY Zenon, <1>2, <3>2
    <3>3. o = "no such route" \/ o = "wrong method"
      BY <2>1 DEF Unknown
    <3> QED
      BY Zenon, <3>1, <3>2, <3>3
  <2>a. s \in HttpCodes
    BY <1>9
  <2> DEFINE one == <<s>>
             a == [w EXCEPT !.step = "done", !.sent = one]
  <2>3. Answer(w, s) = a /\ one \in Seq(HttpCodes) /\ Len(one) = 1
    BY <1>7, <1>8, <2>a, AnswerIs
  <2> HIDE DEF one
  <2>4. /\ a \in Webs /\ a.step = "done" /\ a.sent = one /\ a.req = r /\ a.ran = FALSE
        /\ a.principal = FALSE
    BY <1>7, <1>8, <2>3 DEF Webs
  <2> HIDE DEF a
  <2>5. ~ Stranger(a)
    BY <1>4, <1>11, <2>4 DEF Stranger
  <2>6. Len(a.sent) = 1
    BY <2>3, <2>4
  <2>b. Len(a.sent) <= 1
    BY <2>6
  <2>c. a.step \notin Early
    BY <2>4 DEF Early
  <2>7. WebFits(a)
    BY <2>4, <2>5, <2>6, <2>b, <2>c DEF WebFits
  <2> QED
    BY <2>2, <2>3, <2>7
<1> QED
  BY <1>10, <1>11

LEMMA WebBearerAuth ==
    ASSUME WebFits(web), BearerAuth
    PROVE  WebFits(web')
<1> DEFINE good == bearerToken(web.req.header) /\ web.req.header = "good token"
           a == [web EXCEPT !.step = "transfer", !.principal = good]
<1>1. web' = a /\ web.step = "auth"
  BY DEF BearerAuth
<1>2. good \in BOOLEAN /\ (good => web.req.header = "good token")
  OBVIOUS
<1> HIDE DEF good
<1>3. /\ a \in Webs /\ a.step = "transfer" /\ a.req = web.req /\ a.sent = web.sent /\ a.ran = web.ran
      /\ a.seen = web.seen /\ a.body = web.body /\ a.principal = good
  BY <1>2 DEF WebFits, Webs, Early
<1> HIDE DEF a
<1>4. web.step \in Early /\ a.step \in Early /\ web.body = web.req.body
  BY <1>1, <1>3 DEF Early, WebFits
<1> QED
  BY <1>1, <1>2, <1>3, <1>4, GoesOnFits

LEMMA WebTransfers ==
    ASSUME WebFits(web), Transfers
    PROVE  WebFits(web')
<1> DEFINE b == IF Upload(web.req.op) THEN "none" ELSE web.body
           a == [web EXCEPT !.step = "validate", !.body = b]
<1>1. web' = a /\ web.step = "transfer"
  BY DEF Transfers
<1>2. b \in Bodies /\ b = IF Upload(web.req.op) THEN "none" ELSE web.req.body
  BY <1>1 DEF WebFits, Webs, Bodies
<1> HIDE DEF b
<1>3. /\ a \in Webs /\ a.step = "validate" /\ a.req = web.req /\ a.sent = web.sent /\ a.ran = web.ran
      /\ a.seen = web.seen /\ a.body = b /\ a.principal = web.principal
  BY <1>2 DEF WebFits, Webs, Early
<1> HIDE DEF a
<1>4. web.step \in Early /\ a.step \in Early
  BY <1>1, <1>3 DEF Early
<1>5. web.principal => web.req.header = "good token"
  BY DEF WebFits
<1> QED
  BY <1>1, <1>2, <1>3, <1>4, <1>5, GoesOnFits

\* What the validator answers a stranger.
LEMMA StrangersAreTold ==
    ASSUME WebFits(web), web.step = "validate", Stranger(web), NEW s \in Validator(web)
    PROVE  StrangerGets(web, s)
<1>1. Protected(web.req.op) /\ ~ web.principal
  BY DEF WebFits, Stranger
<1>2. web.body = "huge" => web.req.body = "huge" /\ ~ Upload(web.req.op)
  BY DEF WebFits
<1>3. s \in {401} \union IF web.body = "huge" THEN {413} ELSE {}
  BY <1>1 DEF Validator
<1> QED
  BY <1>2, <1>3 DEF StrangerGets

LEMMA ValidatorCodes ==
    ASSUME NEW s \in Validator(web)
    PROVE  s \in {200, 400, 401, 413}
BY DEF Validator

LEMMA WebValidate ==
    ASSUME WebFits(web), Validate
    PROVE  WebFits(web')
<1>1. PICK s \in Validator(web) :
          web' = IF s # 200 THEN Answer(web, s)
                 ELSE [web EXCEPT !.step = IF Upload(web.req.op) THEN "restore" ELSE "bind"]
  BY DEF Validate
<1>2. web.step = "validate" /\ web.step \in Early /\ web.sent = << >>
  BY DEF Validate, Early, WebFits
<1>3. Stranger(web) => StrangerGets(web, s)
  BY <1>2, StrangersAreTold
<1>4. CASE s # 200
  <2>1. s \in HttpCodes
    BY <1>4, ValidatorCodes DEF HttpCodes
  <2>2. WebFits(Answer(web, s))
    BY <1>2, <1>3, <2>1, AnswerFits
  <2> QED
    BY <1>1, <1>4, <2>2
<1>5. CASE s = 200
  <2> DEFINE st == IF Upload(web.req.op) THEN "restore" ELSE "bind"
             a == [web EXCEPT !.step = st]
  <2>1. web' = a /\ ~ Stranger(web)
    BY <1>1, <1>3, <1>5 DEF StrangerGets
  <2>2. st \in {"restore", "bind"} /\ (st = "bind" => ~ Upload(web.req.op))
    OBVIOUS
  <2> HIDE DEF st
  <2>3. /\ a \in Webs /\ a.step = st /\ a.req = web.req /\ a.sent = web.sent /\ a.ran = web.ran
        /\ a.seen = web.seen /\ a.body = web.body /\ a.principal = web.principal
    BY <2>2 DEF WebFits, Webs, Early
  <2> HIDE DEF a
  <2>4. a.step \in Early /\ (a.step = "bind" => web.body = web.req.body)
        /\ (web.principal => web.req.header = "good token")
    BY <1>2, <2>2, <2>3 DEF Early, WebFits
  <2> QED
    BY <1>2, <2>1, <2>2, <2>3, <2>4, GoesOnFits
<1> QED
  BY <1>4, <1>5

\* Past the validator nobody is a stranger.
LEMMA NoStranger ==
    ASSUME WebFits(web), web.step \notin {"auth", "transfer", "validate", "done"}
    PROVE  ~ Stranger(web)
BY DEF WebFits

LEMMA WebCheckedUpload ==
    ASSUME WebFits(web), CheckedUpload
    PROVE  WebFits(web')
<1>1. web.step = "restore" /\ web.step \in Early /\ web.sent = << >> /\ ~ Stranger(web)
  BY NoStranger DEF CheckedUpload, Early, WebFits
<1>2. CASE ~ web.req.typed
  <2>1. WebFits(Answer(web, 400))
    BY <1>1, AnswerFits DEF HttpCodes
  <2> QED
    BY <1>2, <2>1 DEF CheckedUpload
<1>3. CASE web.req.typed
  <2> DEFINE b == web.req.body
             a == [web EXCEPT !.step = "bind", !.body = b]
  <2>1. web' = a
    BY <1>3 DEF CheckedUpload
  <2>2. b \in Bodies
    BY DEF WebFits, Webs, HttpRequests
  <2> HIDE DEF b
  <2>3. /\ a \in Webs /\ a.step = "bind" /\ a.req = web.req /\ a.sent = web.sent /\ a.ran = web.ran
        /\ a.seen = web.seen /\ a.body = b /\ a.principal = web.principal
    BY <2>2 DEF WebFits, Webs, Early
  <2> HIDE DEF a
  <2>4. a.step \in Early /\ (web.principal => web.req.header = "good token")
    BY <2>3 DEF Early, WebFits
  <2> QED
    BY <1>1, <2>1, <2>3, <2>4, GoesOnFits DEF b
<1> QED
  BY <1>2, <1>3

\* The wrapper and the strict handler: refused, or a step further.
LEMMA WebStepFits ==
    ASSUME WebFits(web), web.step \in {"bind", "decode"}, NEW st \in {"decode", "handle"},
           \/ web' = Answer(web, 400)
           \/ web' = [web EXCEPT !.step = st]
    PROVE  WebFits(web')
<1>1. web.step \in Early /\ web.sent = << >> /\ ~ Stranger(web) /\ web.body = web.req.body
  BY NoStranger DEF Early, WebFits
<1>2. WebFits(Answer(web, 400))
  BY <1>1, AnswerFits DEF HttpCodes
<1> DEFINE a == [web EXCEPT !.step = st]
<1>3. /\ a \in Webs /\ a.step = st /\ a.req = web.req /\ a.sent = web.sent /\ a.ran = web.ran
      /\ a.seen = web.seen /\ a.body = web.body /\ a.principal = web.principal
  BY DEF WebFits, Webs, Early
<1>4. web' = Answer(web, 400) \/ web' = a
  OBVIOUS
<1> HIDE DEF a
<1>5. a.step \in Early /\ (web.principal => web.req.header = "good token")
  BY <1>3 DEF Early, WebFits
<1>6. WebFits(a)
  BY <1>1, <1>3, <1>5, GoesOnFits
<1> QED
  BY <1>2, <1>4, <1>6

LEMMA WebBindDecode ==
    ASSUME WebFits(web), Bind \/ DecodeBody
    PROVE  WebFits(web')
<1>1. CASE Bind
  BY <1>1, WebStepFits DEF Bind
<1>2. CASE DecodeBody
  BY <1>2, WebStepFits DEF DecodeBody
<1> QED
  BY <1>1, <1>2

\* A request past the layers: what is left is what it ran and what it sent.
LEMMA LateFits ==
    ASSUME NEW w, WebFits(w), NEW a \in Webs, a.req = w.req, ~ Stranger(w),
           w.step # "done",
           a.step \in {"visit", "sending", "failed", "panic", "done"},
           a.principal = w.principal,
           a.ran => a.seen = w.req.body,
           Len(a.sent) <= 1,
           a.step = "visit" => a.sent = << >>,
           a.step = "sending" => Len(a.sent) = 1,
           a.step = "done" => Len(a.sent) = 1 \/ (a.aborts /\ a.cut)
    PROVE  WebFits(a)
<1>1. ~ Stranger(a)
  BY DEF Stranger
<1>2. a.step \notin Early
  BY DEF Early
<1> QED
  BY <1>1, <1>2 DEF WebFits

\* The handler refused, or its use case ran: an answer, an error or a panic.
LEMMA WebHandled ==
    ASSUME WebFits(web), web.step = "handle", NEW st \in {"visit", "panic"},
           NEW b \in Bodies, NEW ran \in BOOLEAN, NEW c \in HttpReplies,
           NEW ab \in BOOLEAN, ran => b = web.body,
           web' = [web EXCEPT !.step = st, !.ran = ran, !.seen = b, !.reply = c, !.aborts = ab]
    PROVE  WebFits(web')
<1>1. web.sent = << >> /\ ~ Stranger(web) /\ web.body = web.req.body /\ web.step # "done"
  BY NoStranger DEF Early, WebFits
<1> DEFINE a == [web EXCEPT !.step = st, !.ran = ran, !.seen = b, !.reply = c, !.aborts = ab]
<1>2. /\ a \in Webs /\ a.step = st /\ a.req = web.req /\ a.sent = web.sent /\ a.ran = ran
      /\ a.seen = b /\ a.principal = web.principal
  BY DEF WebFits, Webs
<1>3. web' = a
  OBVIOUS
<1> HIDE DEF a
<1>4. Len(web.sent) <= 1
  BY DEF WebFits
<1> QED
  BY <1>1, <1>2, <1>3, <1>4, LateFits

LEMMA WebHandle ==
    ASSUME WebFits(web), Handle
    PROVE  WebFits(web')
<1> DEFINE h == Handlers[web.req.op]
<1>1. web.step = "handle" /\ web.req.op \in Operations /\ web.ran = FALSE
  BY DEF Handle, Early, WebFits, Webs
<1>2. /\ web.seen \in Bodies /\ web.body \in Bodies /\ web.reply \in HttpReplies /\ web \in Webs
      /\ web.aborts \in BOOLEAN
  BY DEF WebFits, Webs
<1>3. ASSUME NEW e \in HttpErrors
      PROVE  problem(h.module, e) \in HttpReplies
  BY <1>1, <1>3 DEF HttpReplies
<1>4. Replies[web.req.op] \in HttpReplies
  BY <1>1 DEF HttpReplies
<1>5. DOMAIN Problems[h.module] \subseteq HttpErrors /\ "other" \in HttpErrors
  BY <1>1 DEF HttpErrors
<1>6. \/ \E e \in {"ErrUnauthenticated", "ErrNoPrincipal", "ErrBadIfMatch"} :
            web' = [web EXCEPT !.step = "visit", !.reply = problem(h.module, e)]
      \/ web' = [web EXCEPT !.step = "visit", !.ran = TRUE, !.seen = web.body,
                            !.reply = Replies[web.req.op]]
      \/ \E e \in DOMAIN Problems[h.module] \union {"other"} :
           web' = [web EXCEPT !.step = "visit", !.ran = TRUE, !.seen = web.body,
                              !.reply = problem(h.module, e)]
      \/ \E deliberate \in BOOLEAN :
           web' = [web EXCEPT !.step = "panic", !.ran = TRUE, !.seen = web.body,
                              !.aborts = deliberate]
  BY Zenon DEF Handle
<1> HIDE DEF h
<1>7. CASE \E e \in {"ErrUnauthenticated", "ErrNoPrincipal", "ErrBadIfMatch"} :
            web' = [web EXCEPT !.step = "visit", !.reply = problem(h.module, e)]
  <2>1. PICK e \in {"ErrUnauthenticated", "ErrNoPrincipal", "ErrBadIfMatch"} :
            web' = [web EXCEPT !.step = "visit", !.reply = problem(h.module, e)]
    BY <1>7
  <2>2. e \in HttpErrors
    BY DEF HttpErrors
  <2> DEFINE c == problem(h.module, e)
  <2>3. c \in HttpReplies
    BY <1>3, <2>2
  <2> HIDE DEF c
  <2>4. web' = [web EXCEPT !.step = "visit", !.ran = FALSE, !.seen = web.seen, !.reply = c,
                           !.aborts = web.aborts]
    <3>1. web' = [web EXCEPT !.step = "visit", !.reply = c]
      BY <2>1 DEF c
    <3> QED
      BY <1>1, <1>2, <3>1 DEF Webs
  <2> QED
    BY <1>1, <1>2, <2>3, <2>4, WebHandled
<1>8. CASE web' = [web EXCEPT !.step = "visit", !.ran = TRUE, !.seen = web.body,
                              !.reply = Replies[web.req.op]]
  <2> DEFINE c == Replies[web.req.op]
  <2> HIDE DEF c
  <2>1. web' = [web EXCEPT !.step = "visit", !.ran = TRUE, !.seen = web.body, !.reply = c,
                           !.aborts = web.aborts]
    <3>1. web' = [web EXCEPT !.step = "visit", !.ran = TRUE, !.seen = web.body, !.reply = c]
      BY <1>8 DEF c
    <3> QED
      BY <1>2, <3>1 DEF Webs
  <2>2. c \in HttpReplies
    BY <1>4 DEF c
  <2> QED
    BY <1>1, <1>2, <2>1, <2>2, WebHandled
<1>9. CASE \E e \in DOMAIN Problems[h.module] \union {"other"} :
             web' = [web EXCEPT !.step = "visit", !.ran = TRUE, !.seen = web.body,
                                !.reply = problem(h.module, e)]
  <2>1. PICK e \in HttpErrors :
             web' = [web EXCEPT !.step = "visit", !.ran = TRUE, !.seen = web.body,
                                !.reply = problem(h.module, e)]
    BY <1>5, <1>9
  <2> DEFINE c == problem(h.module, e)
  <2>2. c \in HttpReplies
    BY <1>3
  <2> HIDE DEF c
  <2>3. web' = [web EXCEPT !.step = "visit", !.ran = TRUE, !.seen = web.body, !.reply = c,
                           !.aborts = web.aborts]
    <3>1. web' = [web EXCEPT !.step = "visit", !.ran = TRUE, !.seen = web.body, !.reply = c]
      BY <2>1 DEF c
    <3> QED
      BY <1>2, <3>1 DEF Webs
  <2> QED
    BY <1>1, <1>2, <2>2, <2>3, WebHandled
<1>10. CASE \E deliberate \in BOOLEAN :
              web' = [web EXCEPT !.step = "panic", !.ran = TRUE, !.seen = web.body,
                                 !.aborts = deliberate]
  <2>1. PICK ab \in BOOLEAN :
            web' = [web EXCEPT !.step = "panic", !.ran = TRUE, !.seen = web.body, !.aborts = ab]
    BY <1>10
  <2>2. web' = [web EXCEPT !.step = "panic", !.ran = TRUE, !.seen = web.body,
                           !.reply = web.reply, !.aborts = ab]
    BY <1>2, <2>1 DEF Webs
  <2> QED
    BY <1>1, <1>2, <2>2, WebHandled
<1> QED
  BY <1>6, <1>7, <1>8, <1>9, <1>10

\* Only the step changes, or the step and the cut.
LEMMA WebLate ==
    ASSUME WebFits(web), web.step \in {"visit", "sending", "failed", "panic"},
           NEW st \in {"failed", "panic", "done"}, NEW cut \in BOOLEAN,
           st = "done" => Len(web.sent) = 1 \/ (web.aborts /\ cut)
    PROVE  WebFits([web EXCEPT !.step = st, !.cut = cut])
<1> DEFINE a == [web EXCEPT !.step = st, !.cut = cut]
<1>1. /\ a \in Webs /\ a.step = st /\ a.req = web.req /\ a.sent = web.sent /\ a.ran = web.ran
      /\ a.seen = web.seen /\ a.principal = web.principal /\ a.aborts = web.aborts /\ a.cut = cut
  BY DEF WebFits, Webs
<1>2. ~ Stranger(web) /\ web.step # "done"
  BY NoStranger
<1>3. Len(web.sent) <= 1 /\ (web.ran => web.seen = web.req.body)
  BY DEF WebFits
<1> HIDE DEF a
<1>4. WebFits(a)
  BY <1>1, <1>2, <1>3, LateFits
<1> QED
  BY <1>4 DEF a

LEMMA WebVisit ==
    ASSUME WebFits(web), Visit
    PROVE  WebFits(web')
<1>1. web.step = "visit" /\ web.sent = << >> /\ web \in Webs /\ web.cut \in BOOLEAN
  BY DEF Visit, WebFits, Webs
<1>2. CASE web' = [web EXCEPT !.step = "failed"]
  <2>1. web' = [web EXCEPT !.step = "failed", !.cut = web.cut]
    BY <1>1, <1>2 DEF Webs
  <2> QED
    BY <1>1, <2>1, WebLate
<1>3. CASE web' = [Sent(web, web.reply) EXCEPT !.step = "sending"]
  <2> DEFINE one == <<web.reply>>
             a == [web EXCEPT !.step = "sending", !.sent = one]
  <2>1. web.reply \in HttpCodes
    BY <1>1 DEF Webs, HttpCodes
  <2>2. /\ Sent(web, web.reply) = [web EXCEPT !.sent = one] /\ one \in Seq(HttpCodes)
        /\ Len(one) = 1
    BY <1>1, <2>1, AnswerIs
  <2> HIDE DEF one
  <2>3. web' = a
    BY <1>1, <1>3, <2>2 DEF Webs
  <2>4. /\ a \in Webs /\ a.step = "sending" /\ a.req = web.req /\ a.sent = one
        /\ a.ran = web.ran /\ a.seen = web.seen /\ a.principal = web.principal
    BY <1>1, <2>2 DEF Webs
  <2> HIDE DEF a
  <2>5. Len(a.sent) = 1
    BY <2>2, <2>4
  <2>6. Len(a.sent) <= 1
    BY <2>5
  <2>7. ~ Stranger(web) /\ (web.ran => web.seen = web.req.body) /\ web.step # "done"
    BY <1>1, NoStranger DEF WebFits
  <2>8. WebFits(a)
    BY <2>4, <2>5, <2>6, <2>7, LateFits
  <2> QED
    BY <2>3, <2>8
<1> QED
  BY <1>2, <1>3 DEF Visit

LEMMA WebSending ==
    ASSUME WebFits(web), Sending
    PROVE  WebFits(web')
<1>1. web.step = "sending" /\ Len(web.sent) = 1 /\ web \in Webs /\ web.cut \in BOOLEAN
  BY DEF Sending, WebFits, Webs
<1>2. PICK st \in {"failed", "panic", "done"} : web' = [web EXCEPT !.step = st]
  BY DEF Sending
<1>3. web' = [web EXCEPT !.step = st, !.cut = web.cut]
  BY <1>1, <1>2 DEF Webs
<1> QED
  BY <1>1, <1>3, WebLate

\* What a failure or a panic ends in: a 500 if no reply began, a cut otherwise.
LEMMA WebAborts ==
    ASSUME WebFits(web), web.step = "panic", web.aborts,
           web' = [web EXCEPT !.step = "done", !.cut = TRUE]
    PROVE  WebFits(web')
BY WebLate

LEMMA WebEnds ==
    ASSUME WebFits(web), web.step \in {"failed", "panic"},
           web' = IF responseStarted(web) THEN [web EXCEPT !.step = "done", !.cut = TRUE]
                  ELSE Answer(web, 500)
    PROVE  WebFits(web')
<1>1. CASE responseStarted(web)
  <2>1. web.sent # << >> /\ web.sent \in Seq(HttpCodes)
    BY <1>1 DEF responseStarted, WebFits, Webs
  <2>2. Len(web.sent) <= 1
    BY DEF WebFits
  <2>a. Len(web.sent) # 0
    BY <2>1, EmptySeq
  <2>3. Len(web.sent) = 1
    <3> DEFINE n == Len(web.sent)
    <3>1. n \in Nat /\ n # 0 /\ n <= 1
      BY <2>1, <2>2, <2>a
    <3> HIDE DEF n
    <3>2. n = 1
      BY <3>1, SMT
    <3> QED
      BY <3>2 DEF n
  <2>4. WebFits([web EXCEPT !.step = "done", !.cut = TRUE])
    BY <2>3, WebLate
  <2> QED
    BY <1>1, <2>4
<1>2. CASE ~ responseStarted(web)
  <2>1. web.sent = << >> /\ ~ Stranger(web)
    BY <1>2, NoStranger DEF responseStarted
  <2>2. WebFits(Answer(web, 500))
    BY <2>1, AnswerFits DEF HttpCodes
  <2> QED
    BY <1>2, <2>2
<1> QED
  BY <1>1, <1>2

\* Every step of the edge keeps the request where its invariant says.
LEMMA WebInvHolds == HttpSpec => []WebInv
<1>1. HttpInit => WebInv
  BY DEF HttpInit, WebInv
<1>2. WebInv /\ [HttpNext]_httpVars => WebInv'
  <2> SUFFICES ASSUME WebInv, [HttpNext]_httpVars PROVE WebInv'
    OBVIOUS
  <2>1. CASE UNCHANGED httpVars
    BY <2>1 DEF httpVars, WebInv
  <2>2. CASE NewRouter
    BY <2>2, WebNewRouter DEF WebInv
  <2>3. CASE NextRequest
    BY <2>3 DEF NextRequest, WebInv, Idle
  <2>4. CASE web # Idle /\ (BearerAuth \/ Transfers \/ Validate \/ CheckedUpload \/ Bind
                 \/ DecodeBody \/ Handle \/ Visit \/ Sending \/ ResponseError \/ Recovered)
    <3>1. WebFits(web)
      BY <2>4 DEF WebInv
    <3>2. CASE BearerAuth \/ Transfers \/ Validate \/ CheckedUpload \/ Bind \/ DecodeBody
      <4>1. WebFits(web')
        BY <3>1, <3>2, WebBearerAuth, WebTransfers, WebValidate, WebCheckedUpload, WebBindDecode
      <4> QED
        BY <4>1 DEF WebInv
    <3>3. CASE Handle \/ Visit \/ Sending
      <4>1. WebFits(web')
        BY <3>1, <3>3, WebHandle, WebVisit, WebSending
      <4> QED
        BY <4>1 DEF WebInv
    <3>4. CASE ResponseError
      <4>1. WebFits(web')
        BY <3>1, <3>4, WebEnds DEF ResponseError
      <4> QED
        BY <4>1 DEF WebInv
    <3>5. CASE Recovered
      <4>1. WebFits(web')
        <5>1. CASE web.aborts
          BY <3>1, <3>5, <5>1, WebAborts DEF Recovered, Recover
        <5>2. CASE ~ web.aborts
          BY <3>1, <3>5, <5>2, WebEnds DEF Recovered, Recover
        <5> QED
          BY <5>1, <5>2
      <4> QED
        BY <4>1 DEF WebInv
    <3> QED
      BY <2>4, <3>2, <3>3, <3>4, <3>5
  <2> QED
    BY <2>1, <2>2, <2>3, <2>4 DEF HttpNext
<1> QED
  BY <1>1, <1>2, PTL DEF HttpSpec

\* Whatever a request is and whichever layer refuses, fails or panics
\* (platform/httpx/middleware.go, api.go): strangers get 401, everyone one
\* answer, and use cases the body that was sent.
THEOREM TheEdgeHolds == HttpSpec => []EdgeIsSound
<1>1. WebInv => EdgeIsSound
  BY DEF WebInv, WebFits, EdgeIsSound, StrangersGet401, AnsweredOnce, Stranger
<1> QED
  BY <1>1, WebInvHolds, PTL

-----------------------------------------------------------------------------
(***************************************************************************)
(* Discovery: the copies, the pages of a search and a branch's page.       *)
(***************************************************************************)
\* The order of the rows is total.
LEMMA BeforeIsAnOrder ==
    \A p, q, r \in Int \X Int :
        /\ ~ Before(p, p)
        /\ Before(p, q) /\ Before(q, r) => Before(p, r)
        /\ p # q => Before(p, q) \/ Before(q, p)
        /\ ~ (Before(p, q) /\ Before(q, p))
  BY DEF Before

Placed(c, q, S) ==
    IsFiniteSet(S) /\ \A b \in S : b \in Int /\ Place(c, b, q) \in Int \X Int

LEMMA PlacesDiffer ==
    ASSUME NEW c, NEW q, NEW x, NEW y, x # y
    PROVE  Place(c, x, q) # Place(c, y, q)
  BY DEF Place

LEMMA AheadIs ==
    ASSUME NEW c, NEW q, NEW S, Placed(c, q, S), NEW b \in S
    PROVE  /\ IsFiniteSet(Ahead(c, q, S, b))
           /\ Cardinality(Ahead(c, q, S, b)) \in Nat
           /\ Cardinality(Ahead(c, q, S, b)) <= Cardinality(S)
           /\ b \notin Ahead(c, q, S, b)
<1>1. Ahead(c, q, S, b) \subseteq S /\ IsFiniteSet(S)
  BY DEF Ahead, Placed
<1>2. b \notin Ahead(c, q, S, b)
  BY BeforeIsAnOrder DEF Ahead, Placed
<1>3. QED
  BY <1>1, <1>2, FS_Subset, FS_CardinalityType

LEMMA AheadGrows ==
    ASSUME NEW c, NEW q, NEW S, Placed(c, q, S), NEW x \in S, NEW b \in S,
           Before(Place(c, x, q), Place(c, b, q))
    PROVE  Cardinality(Ahead(c, q, S, x)) < Cardinality(Ahead(c, q, S, b))
<1> DEFINE X == Ahead(c, q, S, x)
           B == Ahead(c, q, S, b)
<1>1. X \subseteq B
  BY BeforeIsAnOrder DEF Ahead, Placed
<1>2. x \in B /\ x \notin X
  BY AheadIs DEF Ahead
<1>3. IsFiniteSet(B) /\ Cardinality(X) \in Nat /\ Cardinality(B) \in Nat
  BY AheadIs
<1> HIDE DEF X, B
<1>4. Cardinality(X) <= Cardinality(B) /\ (Cardinality(X) = Cardinality(B) => X = B)
  BY <1>1, <1>3, FS_Subset
<1>5. Cardinality(X) < Cardinality(B)
  BY <1>2, <1>3, <1>4
<1>6. QED
  BY <1>5 DEF X, B

LEMMA HasLastRow ==
    ASSUME NEW c, NEW q, NEW S, Placed(c, q, S), S # {}
    PROVE  LastRow(c, q, S) \in S /\ S \ {LastRow(c, q, S)} = Ahead(c, q, S, LastRow(c, q, S))
<1> DEFINE nth(b) == Cardinality(Ahead(c, q, S, b))
           N == {Cardinality(S) - nth(b) : b \in S}
<1>1. \A b \in S : nth(b) \in Nat /\ nth(b) <= Cardinality(S)
  BY AheadIs
<1>2. Cardinality(S) \in Nat
  BY FS_CardinalityType DEF Placed
<1>3. \A x, b \in S : Before(Place(c, x, q), Place(c, b, q)) => nth(x) < nth(b)
  BY AheadGrows
<1> HIDE DEF nth
<1>4. N \subseteq Nat /\ N # {}
  BY <1>1, <1>2
<1>5. PICK b \in S : \A m \in N : Cardinality(S) - nth(b) <= m
  BY <1>4, LeastNumber
<1>6. \A x \in S : nth(x) <= nth(b)
  <2> TAKE x \in S
  <2>1. Cardinality(S) - nth(b) <= Cardinality(S) - nth(x)
    BY <1>5
  <2>2. QED
    BY <1>1, <1>2, <2>1
<1>7. ASSUME NEW x \in S, x # b PROVE Before(Place(c, x, q), Place(c, b, q))
  <2>1. ~ Before(Place(c, b, q), Place(c, x, q))
    BY <1>1, <1>3, <1>6
  <2>2. Place(c, x, q) # Place(c, b, q)
    BY <1>7, PlacesDiffer
  <2>3. Place(c, x, q) \in Int \X Int /\ Place(c, b, q) \in Int \X Int
    BY DEF Placed
  <2>4. QED
    BY <2>1, <2>2, <2>3, BeforeIsAnOrder
<1>8. S \ {b} = Ahead(c, q, S, b)
  <2>1. b \notin Ahead(c, q, S, b)
    BY AheadIs
  <2>2. QED
    BY <1>7, <2>1 DEF Ahead
<1>9. QED
  BY <1>8 DEF LastRow

\* The first rows: every one of them is ahead of every one left out, and when
\* fewer than the limit came, none was left out.
FirstRows(c, q, S, limit) == {b \in S : Cardinality(Ahead(c, q, S, b)) < limit}

LEMMA FirstRowsAreFirst ==
    ASSUME NEW c, NEW q, NEW S, Placed(c, q, S), NEW limit \in Nat,
           NEW x \in FirstRows(c, q, S, limit), NEW y \in S \ FirstRows(c, q, S, limit)
    PROVE  Before(Place(c, x, q), Place(c, y, q))
<1>1. x \in S /\ y \in S /\ x # y
  BY DEF FirstRows
<1>2. /\ Cardinality(Ahead(c, q, S, x)) < limit /\ ~ (Cardinality(Ahead(c, q, S, y)) < limit)
      /\ Cardinality(Ahead(c, q, S, x)) \in Nat /\ Cardinality(Ahead(c, q, S, y)) \in Nat
  BY <1>1, AheadIs DEF FirstRows
<1>3. ~ (Cardinality(Ahead(c, q, S, y)) < Cardinality(Ahead(c, q, S, x)))
  BY <1>2
<1>4. ~ Before(Place(c, y, q), Place(c, x, q))
  BY <1>1, <1>3, AheadGrows
<1>5. Place(c, x, q) # Place(c, y, q)
  BY <1>1, PlacesDiffer
<1>6. Place(c, x, q) \in Int \X Int /\ Place(c, y, q) \in Int \X Int
  BY <1>1 DEF Placed
<1>7. QED
  BY <1>4, <1>5, <1>6, BeforeIsAnOrder

LEMMA FirstRowsAreAll ==
    ASSUME NEW c, NEW q, NEW S, Placed(c, q, S), NEW limit \in Nat,
           Cardinality(FirstRows(c, q, S, limit)) < limit
    PROVE  FirstRows(c, q, S, limit) = S
<1> DEFINE R == FirstRows(c, q, S, limit)
           nth(b) == Cardinality(Ahead(c, q, S, b))
           N == {nth(b) : b \in S \ R}
<1>1. R \subseteq S /\ IsFiniteSet(R) /\ Cardinality(R) \in Nat /\ Cardinality(R) < limit
  BY FS_Subset, FS_CardinalityType DEF FirstRows, Placed
<1>2. \A b \in S : nth(b) \in Nat /\ IsFiniteSet(Ahead(c, q, S, b))
  BY AheadIs
<1>3. \A x, b \in S : Before(Place(c, x, q), Place(c, b, q)) => nth(x) < nth(b)
  BY AheadGrows
<1>4. \A b \in S \ R : limit <= nth(b)
  BY <1>2 DEF FirstRows
<1> SUFFICES ASSUME S \ R # {} PROVE FALSE
  BY <1>1
<1>5. PICK b \in S \ R : \A x \in S \ R : nth(b) <= nth(x)
  <2> HIDE DEF nth, R
  <2>1. N \subseteq Nat /\ N # {}
    BY <1>2
  <2>2. PICK n \in N : \A m \in N : n <= m
    BY <2>1, LeastNumber
  <2>3. QED
    BY <2>2
<1>6. Ahead(c, q, S, b) \subseteq R
  <2> SUFFICES ASSUME NEW x \in Ahead(c, q, S, b), x \notin R PROVE FALSE
    OBVIOUS
  <2>1. x \in S \ R /\ Before(Place(c, x, q), Place(c, b, q))
    BY DEF Ahead
  <2> HIDE DEF R, nth
  <2>2. nth(x) < nth(b) /\ nth(b) <= nth(x) /\ nth(x) \in Nat /\ nth(b) \in Nat
    BY <1>2, <1>3, <1>5, <2>1
  <2>3. QED
    BY <2>2
<1>7. nth(b) <= Cardinality(R)
  BY <1>1, <1>6, FS_Subset
<1>8. limit <= nth(b) /\ nth(b) \in Nat
  BY <1>2, <1>4
<1>9. QED
  BY <1>1, <1>7, <1>8

\* Hours that KeepHours accepts.
InTwoWeeks(open) ==
    \A i \in DOMAIN open : open[i][1] >= 0 /\ open[i][1] < open[i][2] /\ open[i][2] <= 2 * Week

\* The copies are of versions that were published.
KeptVersions(c) ==
    /\ c \in [listing: [ListedBranches -> Nat], offer: [Offers -> Nat],
              hours: [ListedBranches -> Nat]]
    /\ \A b \in ListedBranches : c.listing[b] # 0 => c.listing[b] \in DOMAIN ListingAt[b]
    /\ \A s \in Offers : c.offer[s] # 0 => c.offer[s] \in DOMAIN OfferAt[s]
    /\ \A b \in ListedBranches : c.hours[b] # 0 =>
          c.hours[b] \in DOMAIN OpenAt[b] /\ InTwoWeeks(OpenAt[b][c.hours[b]])

LEMMA KeptListing ==
    ASSUME KeptVersions(copies), NEW b \in ListedBranches, NEW v \in DOMAIN ListingAt[b]
    PROVE  KeptVersions([copies EXCEPT !.listing[b] = v])
<1>1. v \in Nat
  BY DiscoveryAssumption
<1>2. QED
  BY <1>1 DEF KeptVersions

LEMMA KeptOffer ==
    ASSUME KeptVersions(copies), NEW s \in Offers, NEW v \in DOMAIN OfferAt[s]
    PROVE  KeptVersions([copies EXCEPT !.offer[s] = v])
<1>1. v \in Nat
  BY DiscoveryAssumption
<1>2. QED
  BY <1>1 DEF KeptVersions

LEMMA KeptHours ==
    ASSUME KeptVersions(copies), NEW b \in ListedBranches, NEW v \in DOMAIN OpenAt[b],
           InTwoWeeks(OpenAt[b][v])
    PROVE  KeptVersions([copies EXCEPT !.hours[b] = v])
<1>1. v \in Nat
  BY DiscoveryAssumption
<1>2. QED
  BY <1>1 DEF KeptVersions

LEMMA CopiesStep ==
    ASSUME KeptVersions(copies), CopiesNext
    PROVE  KeptVersions(copies') /\ pager' = Steady(copies', minute) /\ UNCHANGED <<minute, viewer>>
<1>1. ASSUME NEW b \in ListedBranches, NEW v \in DOMAIN ListingAt[b], KeepListing(b, v)
      PROVE  /\ KeptVersions(copies') /\ pager' = Steady(copies', minute)
             /\ UNCHANGED <<minute, viewer>>
  BY <1>1, KeptListing DEF KeepListing, Keep
<1>2. ASSUME NEW b \in ListedBranches, NEW v \in DOMAIN OpenAt[b], KeepHours(b, v)
      PROVE  /\ KeptVersions(copies') /\ pager' = Steady(copies', minute)
             /\ UNCHANGED <<minute, viewer>>
  <2>1. InTwoWeeks(OpenAt[b][v])
    BY <1>2 DEF KeepHours, InTwoWeeks
  <2>2. QED
    BY <1>2, <2>1, KeptHours DEF KeepHours, Keep
<1>3. ASSUME NEW s \in Offers, NEW v \in DOMAIN OfferAt[s], KeepService(s, v)
      PROVE  /\ KeptVersions(copies') /\ pager' = Steady(copies', minute)
             /\ UNCHANGED <<minute, viewer>>
  BY <1>3, KeptOffer DEF KeepService, Keep
<1>4. QED
  BY <1>1, <1>2, <1>3 DEF CopiesNext

-----------------------------------------------------------------------------
LEMMA SortKeyIsANumber ==
    ASSUME NEW c, KeptVersions(c), NEW b \in ListedBranches, NEW q, c.listing[b] # 0
    PROVE  Place(c, b, q) \in Int \X Int
<1>1. c.listing[b] \in DOMAIN ListingAt[b]
  BY DEF KeptVersions
<1> DEFINE l == ListingOf(c, b)
<1>2. l.name \in Int /\ l.distance \in Int /\ l.score \in Int /\ b \in Int
  BY <1>1, DiscoveryAssumption DEF ListingOf
<1>3. SortKey(c, b, q) \in {l.distance, -l.score, l.name}
  BY DEF SortKey
<1> HIDE DEF l
<1>4. SortKey(c, b, q) \in Int
  BY <1>2, <1>3
<1>5. QED
  BY <1>2, <1>4 DEF Place

LEMMA FoundIsPlaced ==
    ASSUME NEW c, KeptVersions(c), NEW q, NEW m, NEW cursor
    PROVE  Placed(c, q, Found(c, q, m, cursor))
<1>1. Found(c, q, m, cursor) \subseteq ListedBranches
  BY DEF Found
<1>2. IsFiniteSet(Found(c, q, m, cursor))
  BY <1>1, FS_Subset, DiscoveryAssumption
<1>3. ASSUME NEW b \in Found(c, q, m, cursor)
      PROVE  b \in Int /\ Place(c, b, q) \in Int \X Int
  <2>1. b \in ListedBranches /\ c.listing[b] # 0
    BY DEF Found, Passes, Shown
  <2>2. QED
    BY <2>1, SortKeyIsANumber, DiscoveryAssumption
<1>4. QED
  BY <1>2, <1>3 DEF Placed

\* One page of what was found, and where the next begins.
IsPage(c, q, found, page, more, next) ==
    /\ page \subseteq found
    /\ ~ more => page = found
    /\ more => \E x \in page : next = Place(c, x, q)
    /\ more => \A b \in found : b \in page <=> ~ Before(next, Place(c, b, q))

LEMMA PagesSplit ==
    ASSUME NEW c, NEW q, NEW found, Placed(c, q, found), NEW other
    PROVE  LET fetched == FirstRows(c, q, found, PageSize + 1)
               more == Cardinality(fetched) > PageSize
               page == IF more THEN fetched \ {LastRow(c, q, fetched)} ELSE fetched
               next == IF more THEN Place(c, LastRow(c, q, page), q) ELSE other
           IN  IsPage(c, q, found, page, more, next)
<1> DEFINE fetched == FirstRows(c, q, found, PageSize + 1)
           more == Cardinality(fetched) > PageSize
           page == IF more THEN fetched \ {LastRow(c, q, fetched)} ELSE fetched
           next == IF more THEN Place(c, LastRow(c, q, page), q) ELSE other
<1>1. PageSize \in Nat /\ PageSize > 0 /\ PageSize + 1 \in Nat
  BY DiscoveryAssumption
<1>2. fetched \subseteq found
  BY DEF FirstRows
<1>3. Placed(c, q, fetched) /\ Cardinality(fetched) \in Nat
  BY <1>2, FS_Subset, FS_CardinalityType DEF Placed
<1>4. ASSUME ~ more PROVE IsPage(c, q, found, page, more, next)
  <2>1. Cardinality(fetched) < PageSize + 1
    BY <1>1, <1>3, <1>4
  <2>2. fetched = found
    BY <1>1, <2>1, FirstRowsAreAll
  <2> HIDE DEF fetched
  <2>3. page = found
    BY <1>4, <2>2
  <2> HIDE DEF more, page, next
  <2>4. QED
    BY <1>4, <2>3 DEF IsPage
<1>5. ASSUME more PROVE IsPage(c, q, found, page, more, next)
  <2> DEFINE final == LastRow(c, q, fetched)
             last == LastRow(c, q, page)
  <2>1. \A x \in fetched, y \in found \ fetched : Before(Place(c, x, q), Place(c, y, q))
    BY <1>1, FirstRowsAreFirst
  <2> HIDE DEF fetched
  <2>2. fetched # {}
    <3>1. Cardinality({}) = 0
      BY FS_EmptySet
    <3>2. QED
      BY <1>1, <1>5, <3>1
  <2>3. final \in fetched /\ fetched \ {final} = Ahead(c, q, fetched, final)
    BY <1>3, <2>2, HasLastRow
  <2>4. page = fetched \ {final}
    BY <1>5
  <2>5. IsFiniteSet(page) /\ Cardinality(page) = Cardinality(fetched) - 1
    BY <1>3, <2>3, <2>4, FS_RemoveElement DEF Placed
  <2>6. page # {}
    <3>1. Cardinality({}) = 0
      BY FS_EmptySet
    <3>2. Cardinality(page) > 0
      BY <1>1, <1>3, <1>5, <2>5
    <3>3. QED
      BY <3>1, <3>2
  <2>7. Placed(c, q, page)
    BY <1>3, <2>4, <2>5 DEF Placed
  <2> HIDE DEF page, final
  <2>8. last \in page /\ page \ {last} = Ahead(c, q, page, last)
    BY <2>6, <2>7, HasLastRow
  <2>9. next = Place(c, last, q)
    BY <1>5
  <2> HIDE DEF last, next, more
  <2>10. ASSUME NEW b \in page PROVE ~ Before(next, Place(c, b, q))
    <3>1. Place(c, b, q) \in Int \X Int /\ Place(c, last, q) \in Int \X Int
      BY <2>7, <2>8 DEF Placed
    <3>2. b = last \/ Before(Place(c, b, q), Place(c, last, q))
      BY <2>8 DEF Ahead
    <3>3. QED
      BY <2>9, <3>1, <3>2, BeforeIsAnOrder
  <2>11. ASSUME NEW b \in found, b \notin page PROVE Before(next, Place(c, b, q))
    <3>1. CASE b = final
      BY <2>3, <2>4, <2>8, <2>9, <3>1 DEF Ahead
    <3>2. CASE b # final
      BY <2>1, <2>4, <2>8, <2>9, <2>11, <3>2
    <3>3. QED
      BY <3>1, <3>2
  <2>12. page \subseteq found
    BY <1>2, <2>4
  <2>13. QED
    BY <1>5, <2>8, <2>9, <2>10, <2>11, <2>12 DEF IsPage
<1>6. QED
  BY <1>4, <1>5

Pagers == [search: Searches, cursor: {<<>>} \cup (Int \X Int), done: BOOLEAN,
           seen: [ListedBranches -> Nat], steady: SUBSET (Int \X ListedBranches)]

\* A branch that stays where it is: still ahead and not shown, or behind and
\* shown once.
SteadyIs(pg, c, m, p) ==
    /\ Passes(c, p[2], pg.search, m) /\ Place(c, p[2], pg.search) = p
    /\ pg.done => pg.seen[p[2]] = 1
    /\ ~ pg.done => pg.seen[p[2]] = IF After(p, pg.cursor) THEN 0 ELSE 1

Paging(pg, c, m) == pg \in Pagers /\ \A p \in pg.steady : SteadyIs(pg, c, m, p)

PagerInv == pager = NoPager \/ Paging(pager, copies, minute)

LEMMA SteadyKeeps ==
    ASSUME NEW c, NEW m, PagerInv
    PROVE  Steady(c, m) = NoPager \/ Paging(Steady(c, m), c, m)
<1>1. CASE pager = NoPager
  BY <1>1 DEF Steady
<1>2. CASE pager # NoPager
  <2> DEFINE kept == {p \in pager.steady : /\ Passes(c, p[2], pager.search, m)
                                           /\ Place(c, p[2], pager.search) = p}
             pg == [pager EXCEPT !.steady = kept]
  <2>1. pager \in Pagers /\ \A p \in pager.steady : SteadyIs(pager, copies, minute, p)
    BY <1>2 DEF PagerInv, Paging
  <2>2. Steady(c, m) = pg
    BY <1>2 DEF Steady
  <2>3. kept \subseteq pager.steady
        /\ \A p \in kept : Passes(c, p[2], pager.search, m) /\ Place(c, p[2], pager.search) = p
    OBVIOUS
  <2> HIDE DEF kept
  <2>4. /\ pg \in Pagers /\ pg.steady = kept /\ pg.search = pager.search
        /\ pg.done = pager.done /\ pg.seen = pager.seen /\ pg.cursor = pager.cursor
    BY <2>1, <2>3 DEF Pagers
  <2> HIDE DEF pg
  <2>5. \A p \in kept : SteadyIs(pg, c, m, p)
    BY <2>1, <2>3, <2>4 DEF SteadyIs
  <2>6. QED
    BY <2>2, <2>4, <2>5 DEF Paging
<1>3. QED
  BY <1>1, <1>2

LEMMA StartSearchKeeps ==
    ASSUME KeptVersions(copies), NEW q \in Searches, StartSearch(q)
    PROVE  Paging(pager', copies, minute)
<1> DEFINE none == [b \in ListedBranches |-> 0]
           all == {Place(copies, b, q) :
                      b \in {x \in ListedBranches : Passes(copies, x, q, minute)}}
           pg == [search |-> q, cursor |-> <<>>, done |-> FALSE, seen |-> none, steady |-> all]
<1>1. pager' = pg
  BY DEF StartSearch
<1>2. \A b \in ListedBranches : Passes(copies, b, q, minute) =>
          Place(copies, b, q) \in Int \X Int
  BY SortKeyIsANumber DEF Passes, Shown
<1>3. \A b : Place(copies, b, q)[2] = b
  BY DEF Place
<1>4. \A p \in all : /\ p[2] \in ListedBranches /\ p \in Int \X Int
                     /\ Passes(copies, p[2], q, minute) /\ Place(copies, p[2], q) = p
  BY <1>2, <1>3
<1>5. none \in [ListedBranches -> Nat] /\ \A b \in ListedBranches : none[b] = 0
  OBVIOUS
<1> HIDE DEF none, all
<1>6. all \subseteq Int \X ListedBranches
  BY <1>4
<1>7. /\ pg \in Pagers /\ pg.search = q /\ pg.cursor = <<>> /\ pg.done = FALSE
      /\ pg.seen = none /\ pg.steady = all
  BY <1>5, <1>6 DEF Pagers
<1> HIDE DEF pg
<1>8. \A p \in all : SteadyIs(pg, copies, minute, p)
  BY <1>4, <1>5, <1>7 DEF SteadyIs, After
<1>9. QED
  BY <1>1, <1>7, <1>8 DEF Paging

LEMMA NoCursor == \A p \in Int \X Int : p # <<>>
  OBVIOUS

LEMMA SearchBranchesKeeps ==
    ASSUME KeptVersions(copies), PagerInv, SearchBranches
    PROVE  Paging(pager', copies, minute)
<1> DEFINE q == pager.search
           found == Found(copies, q, minute, pager.cursor)
           fetched == FirstRows(copies, q, found, PageSize + 1)
           more == Cardinality(fetched) > PageSize
           page == IF more THEN fetched \ {LastRow(copies, q, fetched)} ELSE fetched
           next == IF more THEN Place(copies, LastRow(copies, q, page), q) ELSE pager.cursor
           shown == [b \in ListedBranches |-> pager.seen[b] + IF b \in page THEN 1 ELSE 0]
           pg == [pager EXCEPT !.cursor = next, !.done = ~ more, !.seen = shown]
<1>1. pager \in Pagers /\ \A p \in pager.steady : SteadyIs(pager, copies, minute, p)
  BY DEF SearchBranches, PagerInv, Paging
<1>2. pager' = pg /\ ~ pager.done
  BY DEF SearchBranches, Rows, FirstRows
<1>3. Placed(copies, q, found)
  BY FoundIsPlaced
<1>4. IsPage(copies, q, found, page, more, next)
  BY <1>3, PagesSplit
<1>5. next = pager.cursor \/ more
  OBVIOUS
<1>6. more \in BOOLEAN
  OBVIOUS
<1> HIDE DEF page, more, next, fetched
<1>7. more => next \in Int \X Int
  BY <1>3, <1>4 DEF IsPage, Placed
<1>8. next \in {<<>>} \cup (Int \X Int)
  BY <1>1, <1>5, <1>7 DEF Pagers
<1>9. pager.seen \in [ListedBranches -> Nat] /\ pager.steady \subseteq Int \X ListedBranches
      /\ pager.cursor \in {<<>>} \cup (Int \X Int)
  BY <1>1 DEF Pagers
<1>10. /\ shown \in [ListedBranches -> Nat]
       /\ \A b \in ListedBranches : shown[b] = pager.seen[b] + IF b \in page THEN 1 ELSE 0
  BY <1>9
<1> HIDE DEF shown
<1>11. /\ pg \in Pagers /\ pg.cursor = next /\ pg.done = ~ more /\ pg.seen = shown
       /\ pg.search = q /\ pg.steady = pager.steady
  BY <1>1, <1>6, <1>8, <1>10 DEF Pagers
<1> HIDE DEF pg
<1>12. ASSUME NEW p \in pager.steady PROVE SteadyIs(pg, copies, minute, p)
  <2>1. /\ p \in Int \X Int /\ p[2] \in ListedBranches
        /\ Passes(copies, p[2], q, minute) /\ Place(copies, p[2], q) = p
        /\ pager.seen[p[2]] = IF After(p, pager.cursor) THEN 0 ELSE 1
    <3>1. p \in Int \X ListedBranches
      BY <1>9
    <3>2. p[2] \in ListedBranches /\ p \in Int \X Int
      <4>1. ListedBranches \subseteq Int
        BY DiscoveryAssumption
      <4>2. QED
        BY <3>1, <4>1
    <3>3. SteadyIs(pager, copies, minute, p)
      BY <1>1
    <3>4. QED
      BY <1>2, <3>2, <3>3 DEF SteadyIs
  <2>2. p[2] \in found <=> After(p, pager.cursor)
    BY <2>1 DEF Found
  <2>3. shown[p[2]] = pager.seen[p[2]] + IF p[2] \in page THEN 1 ELSE 0
    BY <1>10, <2>1
  <2>4. page \subseteq found
    BY <1>4 DEF IsPage
  <2>5. CASE ~ more
    <3>1. page = found
      BY <1>4, <2>5 DEF IsPage
    <3>2. shown[p[2]] = 1
      BY <2>1, <2>2, <2>3, <3>1
    <3>3. QED
      BY <1>11, <2>1, <2>5, <3>2 DEF SteadyIs
  <2>6. CASE more
    <3>1. next \in Int \X Int /\ next # <<>>
      BY <1>7, <2>6, NoCursor
    <3>2. After(p, next) <=> Before(next, p)
      BY <3>1 DEF After
    <3>3. CASE p[2] \in found
      <4>1. p[2] \in page <=> ~ Before(next, p)
        BY <1>4, <2>1, <2>6, <3>3 DEF IsPage
      <4>2. shown[p[2]] = IF After(p, next) THEN 0 ELSE 1
        BY <2>1, <2>2, <2>3, <3>2, <3>3, <4>1
      <4>3. QED
        BY <1>11, <2>1, <2>6, <4>2 DEF SteadyIs
    <3>4. CASE p[2] \notin found
      <4>1. pager.cursor \in Int \X Int /\ ~ Before(pager.cursor, p)
        BY <1>9, <2>2, <3>4 DEF After
      <4>2. PICK x \in page : next = Place(copies, x, q)
        BY <1>4, <2>6 DEF IsPage
      <4>3. Before(pager.cursor, next)
        <5>1. After(next, pager.cursor)
          BY <2>4, <4>2 DEF Found
        <5>2. QED
          BY <4>1, <5>1, NoCursor DEF After
      <4>4. ~ Before(next, p)
        BY <2>1, <3>1, <4>1, <4>3, BeforeIsAnOrder
      <4>5. shown[p[2]] = IF After(p, next) THEN 0 ELSE 1
        BY <2>1, <2>2, <2>3, <2>4, <3>2, <3>4, <4>4
      <4>6. QED
        BY <1>11, <2>1, <2>6, <4>5 DEF SteadyIs
    <3>5. QED
      BY <3>3, <3>4
  <2>7. QED
    BY <2>5, <2>6
<1>13. QED
  BY <1>2, <1>11, <1>12 DEF Paging

-----------------------------------------------------------------------------
Cheapest(p, prices) == p \in prices /\ \A o \in prices : p <= o

\* A branch's page between its two statements, and once it is shown.
ViewerInv ==
    \/ viewer = NoViewer
    \/ /\ viewer.step = "menu"
       /\ Cheapest(viewer.price, Prices(viewer.saw, MenuOf(viewer.saw, viewer.branch, AnyOf)))
    \/ viewer.step = "shown" /\ Cheapest(viewer.price, viewer.menu)

LEMMA BranchPageKeeps ==
    ASSUME KeptVersions(copies), NEW b \in ListedBranches, BranchPage(b)
    PROVE  ViewerInv'
<1> DEFINE P == Prices(copies, MenuOf(copies, b, AnyOf))
           cheap == CHOOSE p \in P : \A o \in P : p <= o
<1>1. P \subseteq Nat /\ P # {}
  <2>1. MenuOf(copies, b, AnyOf) # {}
    BY DEF BranchPage, Shown
  <2>2. \A s \in MenuOf(copies, b, AnyOf) : copies.offer[s] \in DOMAIN OfferAt[s] /\ s \in Offers
    BY DEF MenuOf, KeptVersions
  <2>3. QED
    BY <2>1, <2>2, DiscoveryAssumption DEF Prices
<1>2. viewer' = [step |-> "menu", branch |-> b, saw |-> copies, price |-> cheap,
                 open |-> OpenNow(copies, b, minute)]
  BY DEF BranchPage
<1>3. \E p \in P : \A o \in P : p <= o
  BY <1>1, LeastNumber
<1>4. Cheapest(cheap, P)
  BY <1>3 DEF Cheapest
<1>5. /\ viewer'.step = "menu" /\ viewer'.branch = b /\ viewer'.saw = copies
      /\ viewer'.price = cheap
  BY <1>2
<1> HIDE DEF cheap
<1>6. QED
  BY <1>4, <1>5 DEF ViewerInv

LEMMA BranchMenuKeeps ==
    ASSUME ViewerInv, BranchMenu
    PROVE  ViewerInv'
<1> DEFINE P == Prices(viewer.saw, MenuOf(viewer.saw, viewer.branch, AnyOf))
<1>1. viewer' = [step |-> "shown", branch |-> viewer.branch, price |-> viewer.price,
                 open |-> viewer.open, menu |-> P]
  BY DEF BranchMenu, Snapshot
<1>2. viewer.step = "menu" /\ NoViewer.step = "idle"
  BY DEF BranchMenu, NoViewer
<1>3. Cheapest(viewer.price, P)
  BY <1>2 DEF ViewerInv
<1> HIDE DEF P
<1>4. viewer'.step = "shown" /\ viewer'.price = viewer.price /\ viewer'.menu = P
  BY <1>1
<1>5. QED
  BY <1>3, <1>4 DEF ViewerInv

DiscInv == KeptVersions(copies) /\ PagerInv /\ ViewerInv

LEMMA DiscInvHolds == DiscSpec => []DiscInv
<1>1. DiscInit => DiscInv
  BY DEF DiscInit, DiscInitWith, DiscInv, KeptVersions, PagerInv, ViewerInv
<1>2. DiscInv /\ [DiscNext]_discVars => DiscInv'
  <2> SUFFICES ASSUME DiscInv, [DiscNext]_discVars PROVE DiscInv'
    OBVIOUS
  <2> USE DEF DiscInv
  <2>1. CASE UNCHANGED discVars
    BY <2>1 DEF discVars, PagerInv, ViewerInv
  <2>2. CASE CopiesNext
    <3>1. /\ KeptVersions(copies') /\ pager' = Steady(copies', minute)
          /\ UNCHANGED <<minute, viewer>>
      BY <2>2, CopiesStep
    <3>2. PagerInv'
      BY <3>1, SteadyKeeps DEF PagerInv
    <3>3. QED
      BY <3>1, <3>2 DEF ViewerInv
  <2>3. CASE MinutePasses
    <3>1. pager' = Steady(copies, minute') /\ UNCHANGED <<copies, viewer>>
      BY <2>3 DEF MinutePasses
    <3>2. PagerInv'
      BY <3>1, SteadyKeeps DEF PagerInv
    <3>3. QED
      BY <3>1, <3>2 DEF ViewerInv
  <2>4. ASSUME NEW q \in Searches, StartSearch(q) PROVE DiscInv'
    <3>1. Paging(pager', copies, minute) /\ UNCHANGED <<copies, minute, viewer>>
      BY <2>4, StartSearchKeeps DEF StartSearch
    <3>2. QED
      BY <3>1 DEF PagerInv, ViewerInv
  <2>5. CASE SearchBranches
    <3>1. Paging(pager', copies, minute) /\ UNCHANGED <<copies, minute, viewer>>
      BY <2>5, SearchBranchesKeeps DEF SearchBranches
    <3>2. QED
      BY <3>1 DEF PagerInv, ViewerInv
  <2>6. CASE StopSearch
    BY <2>6 DEF StopSearch, PagerInv, ViewerInv
  <2>7. ASSUME NEW b \in ListedBranches, BranchPage(b) PROVE DiscInv'
    <3>1. ViewerInv' /\ UNCHANGED <<copies, minute, pager>>
      BY <2>7, BranchPageKeeps DEF BranchPage
    <3>2. QED
      BY <3>1 DEF PagerInv
  <2>8. CASE BranchMenu
    <3>1. ViewerInv' /\ UNCHANGED <<copies, minute, pager>>
      BY <2>8, BranchMenuKeeps DEF BranchMenu
    <3>2. QED
      BY <3>1 DEF PagerInv
  <2>9. CASE ClosePage
    BY <2>9 DEF ClosePage, PagerInv, ViewerInv
  <2>10. QED
    BY <2>1, <2>2, <2>3, <2>4, <2>5, <2>6, <2>7, <2>8, <2>9
    DEF DiscNext, ViewerNext, PagerNext
<1>3. QED
  BY <1>1, <1>2, PTL DEF DiscSpec

LEMMA CopiesTellTheWeek ==
    ASSUME KeptVersions(copies)
    PROVE  OpenNowIsTheWeek
<1> SUFFICES ASSUME NEW b \in ListedBranches, NEW at \in 0 .. Week - 1,
                    copies.listing[b] # 0, copies.hours[b] # 0
             PROVE  open_at(OpenAt[b][copies.hours[b]], WallClock(copies, b, at)) <=>
                       \E i \in DOMAIN OpenAt[b][copies.hours[b]] :
                          LET o == OpenAt[b][copies.hours[b]][i]
                          IN  \E t \in o[1] .. o[2] - 1 : t % Week = WallClock(copies, b, at)
  BY DEF OpenNowIsTheWeek, OpenNow
<1> DEFINE m == WallClock(copies, b, at)
<1>0. m \in Nat /\ m < Week
  <2> DEFINE off == ListingOf(copies, b).offset
  <2>1. off \in Int /\ Week \in Nat \ {0}
    BY DiscoveryAssumption DEF KeptVersions, ListingOf
  <2> HIDE DEF off
  <2>2. (at + off) % Week \in Nat /\ (at + off) % Week < Week
    BY <2>1
  <2> QED
    BY <2>2 DEF WallClock, off
<1> HIDE DEF m
<1> DEFINE open == OpenAt[b][copies.hours[b]]
<1>1. InTwoWeeks(open) /\ \A i \in DOMAIN open : open[i][1] \in Int /\ open[i][2] \in Int
  BY DiscoveryAssumption DEF KeptVersions
<1>2. Week \in Nat \ {0} /\ m \in Nat /\ m < Week
  BY <1>0, DiscoveryAssumption
<1> HIDE DEF open
<1>3. ASSUME NEW i \in DOMAIN open
      PROVE  (\E t \in {m, m + Week} : open[i][1] <= t /\ t < open[i][2])
                <=> \E t \in open[i][1] .. open[i][2] - 1 : t % Week = m
  <2> DEFINE x == open[i][1]
             y == open[i][2]
  <2>1. x \in Int /\ y \in Int /\ x >= 0 /\ x < y /\ y <= 2 * Week
    BY <1>1 DEF InTwoWeeks
  <2> HIDE DEF x, y
  <2>2. \A t \in x .. y - 1 : t \in Nat /\ t < 2 * Week
    BY <1>2, <2>1
  <2>3. \A t \in x .. y - 1 : t % Week = m <=> t \in {m, m + Week}
    BY <1>2, <2>2, GoesRound
  <2>4. \A t \in {m, m + Week} : x <= t /\ t < y <=> t \in x .. y - 1
    BY <1>2, <2>1
  <2>5. QED
    BY <2>3, <2>4 DEF x, y
<1>4. QED
  BY <1>3 DEF open_at, open, m

\* A search paged to its end showed each branch that stayed where it was in the
\* order exactly once, for any number of branches, any page size and whatever
\* events came between the pages: the cursor is the last row's key and branch,
\* and the next page is what comes after both (Handlers.Search).
THEOREM PagingIsComplete == DiscSpec => []PagingMissesNothing
<1>1. DiscInv => PagingMissesNothing
  BY DEF DiscInv, PagerInv, Paging, SteadyIs, PagingMissesNothing
<1>2. QED
  BY <1>1, DiscInvHolds, PTL

-----------------------------------------------------------------------------
(***************************************************************************)
(* Together.  The modules share no state, so a step of one is a stutter of *)
(* the others, and any interleaving of all of them is covered.             *)
(***************************************************************************)
\* Subscribers hear every version of hours and of branches, and the last they
\* heard is the row; a policy read back from its columns is the one accepted
\* (scheduling/app, business/adapters/postgres).
THEOREM ToldWhatWasSet == SchedSpec /\ BrSpec => []ToldAsSet
<1>1. SchedInv /\ BrInv => ToldAsSet
  BY SchedInvTells, BrInvMeans DEF ToldAsSet
<1> QED
  BY <1>1, SchedInvHolds, BrInvHolds, PTL

\* No step of any of these modules overwrites what its author did not see,
\* reopens an invitation or moves a branch for anyone but its owner.
THEOREM NothingLostUnseen == SchedSpec /\ CatSpec /\ StSpec /\ BrSpec => SavedAsSeen
<1>1. SchedInv /\ [SchedNext]_schedVars => SavedOverWhatWasSeen
  BY SchedSavesStep
<1>2. CatInv /\ [CatNext]_catVars => ServiceSavedAsSeen
  BY CatSavesStep
<1>3. StInv /\ [StNext]_stVars => ClosedForGood
  BY StClosedStep
<1>4. BrInv /\ [BrNext]_brVars => ZoneIsTheOwners
  BY ZoneStep
<1> QED
  BY <1>1, <1>2, <1>3, <1>4, SchedInvHolds, CatInvHolds, StInvHolds, BrInvHolds, PTL
     DEF SchedSpec, CatSpec, StSpec, BrSpec, SavedAsSeen

\* Staff and branches are added within the plan the business had when the
\* request read it, the trial's or Free's, however many are added at once and
\* whenever the trial ends; an invitation accepted as it lapses is beside the
\* count (business/adapters/postgres/invitations.go, branches.go; billing).
THEOREM LimitsAreKept == StSpec /\ BrSpec => LimitsHold
<1>1. StInv /\ StReads /\ [StNext]_stVars => SeatsWithinPlan
  BY SeatsStep
<1>2. BrInv /\ [BrNext]_brVars => BranchesWithinPlan
  BY BranchesStep
<1> QED
  BY <1>1, <1>2, StInvHolds, StReadsHold, BrInvHolds, PTL DEF StSpec, BrSpec, LimitsHold

\* What a page shows is one state of what it shows, whatever is saved and
\* whichever events come while it is read: a menu read in two statements is a
\* version of each service saved at most once meanwhile; what subscribers are
\* told of a service is what its menu sells, from a price that somebody takes;
\* a branch's page costs what its menu says; and "open now" is the week as set,
\* going round (catalog/app/app.go, catalog/domain/events.go,
\* discovery/adapters/postgres/listings.go, discovery.open_at).
THEOREM PagesTellTheTruth == CatSpec /\ DiscSpec => []PagesAgree
<1>1. ViewerInv => PageAgrees
  BY DEF ViewerInv, Cheapest, PageAgrees, NoViewer
<1>2. CatInv /\ SoldInv /\ DiscInv => PagesAgree
  BY <1>1, MenusAreVersions, FromIsBookable, CopiesTellTheWeek DEF PagesAgree, DiscInv
<1>3. QED
  BY <1>2, CatInvHolds, SoldInvHolds, DiscInvHolds, PTL
=============================================================================
