---------------------------- MODULE ConnPoolProofs ----------------------------
(***************************************************************************)
(* The semaphore's arithmetic, for pools of any size: half the pool may    *)
(* book, each booking holds at most two connections, and one that still    *)
(* needs its second holds one.                                             *)
(***************************************************************************)
EXTENDS ConnPool, FiniteSetTheorems, TLAPS

Steps == {"idle", "slot", "waiting", "locked", "reading", "checked", "done"}

PcOK == pc \in [Requests -> Steps]

\* What the semaphore keeps: never more than Half bookings in flight.
SlotsOK == Cardinality(InFlight) <= Half

LEMMA HalfFits == Half \in Nat /\ Half >= 1 /\ 2 * Half <= MaxConns
  BY PoolAssumption DEF Half

LEMMA FiniteSets ==
    /\ IsFiniteSet(Bookings)
    /\ IsFiniteSet(InFlight)
    /\ IsFiniteSet(InTx \cap Bookings)
    /\ IsFiniteSet(Reading)
  BY PoolAssumption, FS_Subset DEF Requests, InFlight, InTx, Reading

LEMMA SlotsInit == Init => PcOK /\ SlotsOK
<1> SUFFICES ASSUME Init PROVE PcOK /\ SlotsOK
  OBVIOUS
<1>1. InFlight = {}
  BY DEF Init, InFlight, Requests
<1>2. Cardinality(InFlight) = 0
  BY <1>1, FS_EmptySet
<1>3. QED
  BY <1>2, HalfFits DEF Init, PcOK, SlotsOK, Steps

\* A step that takes no slot leaves the bookings in flight, or fewer.
LEMMA SlotsKept == SlotsOK /\ InFlight' \subseteq InFlight => SlotsOK'
<1> SUFFICES ASSUME SlotsOK, InFlight' \subseteq InFlight PROVE SlotsOK'
  OBVIOUS
<1>1. Cardinality(InFlight') <= Cardinality(InFlight)
  BY FiniteSets, FS_Subset
<1>2. Cardinality(InFlight) \in Nat /\ Cardinality(InFlight') \in Nat
  BY FiniteSets, FS_Subset, FS_CardinalityType
<1>3. QED
  BY <1>1, <1>2, HalfFits DEF SlotsOK, Half

LEMMA SlotsStep == PcOK /\ SlotsOK /\ [Next]_vars => PcOK' /\ SlotsOK'
<1> SUFFICES ASSUME PcOK, SlotsOK, [Next]_vars PROVE PcOK' /\ SlotsOK'
  OBVIOUS
<1>1. PcOK'
  BY DEF Next, BookingStep, HoursStep, TakeSlot, Begin, BeginHours, LockStaff,
         LockTimeout, TakeSecond, GiveBackSecond, NextDraft, End, Leave, Move,
         vars, PcOK, Steps, Requests
<1>2. ASSUME NEW b \in Bookings, TakeSlot(b) PROVE SlotsOK'
  <2>1. InFlight' = InFlight \cup {b} /\ b \notin InFlight
    BY <1>2 DEF TakeSlot, Move, InFlight, PcOK, Requests
  <2>2. Cardinality(InFlight') = Cardinality(InFlight) + 1
    BY <2>1, FiniteSets, FS_AddElement
  <2>3. Cardinality(InFlight) \in Nat /\ Cardinality(InFlight) < Half
    BY <1>2, FiniteSets, FS_CardinalityType DEF TakeSlot
  <2>4. Cardinality(InFlight') <= Half
    BY <2>2, <2>3, HalfFits
  <2>5. QED
    BY <2>4 DEF SlotsOK, Half
<1>3. CASE \A b \in Bookings : ~ TakeSlot(b)
  <2>1. ASSUME NEW x \in Requests, NEW to \in Steps, Move(x, to),
               x \in InFlight \/ x \notin Bookings \/ to = "done"
        PROVE  InFlight' \subseteq InFlight
    BY <2>1 DEF Move, PcOK, Requests, InFlight
  <2>2. ASSUME NEW x \in Bookings, BookingStep(x) PROVE InFlight' \subseteq InFlight
    <3>1. x \in InFlight
      BY <1>3, <2>2
      DEF BookingStep, Begin, LockStaff, LockTimeout, TakeSecond, GiveBackSecond,
          NextDraft, End, InFlight
    <3>2. \E to \in Steps : Move(x, to)
      BY <1>3, <2>2
      DEF BookingStep, Begin, LockStaff, LockTimeout, TakeSecond, GiveBackSecond,
          NextDraft, End, Steps
    <3>3. QED
      BY <2>1, <3>1, <3>2 DEF Requests
  <2>3. ASSUME NEW x \in HoursChanges, HoursStep(x) PROVE InFlight' \subseteq InFlight
    <3>1. x \notin Bookings
      BY PoolAssumption
    <3>2. \E to \in Steps : Move(x, to)
      BY <2>3 DEF HoursStep, BeginHours, LockStaff, LockTimeout, End, Steps
    <3>3. QED
      BY <2>1, <3>1, <3>2 DEF Requests
  <2>4. ASSUME NEW x \in Requests, Leave(x) PROVE InFlight' \subseteq InFlight
    BY <2>1, <2>4 DEF Leave, Steps
  <2>5. ASSUME UNCHANGED vars PROVE InFlight' = InFlight
    BY <2>5 DEF vars, InFlight
  <2>6. InFlight' \subseteq InFlight
    BY <2>2, <2>3, <2>4, <2>5 DEF Next
  <2>7. QED
    BY <1>1, <2>6, SlotsKept
<1>4. QED
  BY <1>1, <1>2, <1>3

LEMMA RoomLeft == PcOK /\ SlotsOK => BookingsLeaveRoom
<1> SUFFICES ASSUME PcOK, SlotsOK, NEW b \in Bookings, pc[b] = "locked"
             PROVE  Cardinality(InTx \cap Bookings) + Cardinality(Reading) < MaxConns
  BY DEF BookingsLeaveRoom
<1> DEFINE n == Cardinality(InFlight)
<1>1. /\ InTx \cap Bookings \subseteq InFlight
      /\ Reading \subseteq InFlight \ {b} /\ b \in InFlight
  BY DEF InTx, InFlight, Reading
<1>2. Cardinality(InTx \cap Bookings) <= n
  BY <1>1, FiniteSets, FS_Subset
<1>3. Cardinality(InFlight \ {b}) = n - 1 /\ IsFiniteSet(InFlight \ {b})
  BY <1>1, FiniteSets, FS_RemoveElement
<1>4. Cardinality(Reading) <= n - 1
  BY <1>1, <1>3, FS_Subset
<1>5. /\ n \in Nat /\ Cardinality(InTx \cap Bookings) \in Nat
      /\ Cardinality(Reading) \in Nat /\ n <= Half
  BY FiniteSets, FS_CardinalityType DEF SlotsOK
<1>6. QED
  BY <1>2, <1>4, <1>5, HalfFits, PoolAssumption

\* Whatever the pool's size and however many bookings come, bookings alone
\* never hold every connection while one of them needs its second.
THEOREM HalfThePoolIsEnough == Spec => []BookingsLeaveRoom
  BY SlotsInit, SlotsStep, RoomLeft, PTL DEF Spec
=============================================================================
