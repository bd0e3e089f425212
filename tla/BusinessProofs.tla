--------------------------- MODULE BusinessProofs ---------------------------
(***************************************************************************)
(* The business module, for any number of businesses, people, branches and *)
(* requests: staff and branches within the plan, texts within their limits,*)
(* invitations that are used once, and branches of which every change is   *)
(* told and no value is cut.                                               *)
(***************************************************************************)
EXTENDS Staffing, Branches, FiniteSetTheorems, TLAPS

-----------------------------------------------------------------------------
(* Tables of invitations, and what is counted of them.                     *)

StRoles == {f.role : f \in StForms} \cup {"none"}
StWheres == {f.branches : f \in StForms} \cup {{}}
StPlans == {PlanByCode("pro"), PlanByCode("free")}
StStandings == [plan: StPlans, status: {"setup", "trialing", "free"}]

InvRows == [shop: StShops, phone: StPeople, role: StRoles, branches: StWheres,
            status: {"pending", "revoked", "accepted"}, created: Nat, sent: BOOLEAN]

\* The same invitations, whatever became of them.
SameKeys(list, new) ==
    /\ DOMAIN new = DOMAIN list
    /\ \A i \in DOMAIN list : /\ new[i].shop = list[i].shop /\ new[i].phone = list[i].phone
                              /\ new[i].created = list[i].created

\* One invitation more.
Adds(list, new, n, row) ==
    /\ n \notin DOMAIN list /\ DOMAIN new = DOMAIN list \cup {n}
    /\ \A i \in DOMAIN list : new[i] = list[i]
    /\ new[n] = row

RecentTo(list, p, c) ==
    {i \in DOMAIN list : list[i].phone = p /\ list[i].created + InviteWindow > c}

RecentBy(list, s, c) ==
    {i \in DOMAIN list : list[i].shop = s /\ list[i].created + InviteWindow > c}

\* AllowInvite, of any table.
Allowed(list, s, p, c) ==
    /\ \A i \in RecentTo(list, p, c) : list[i].shop = s => list[i].created + InviteCooldown <= c
    /\ Cardinality(RecentTo(list, p, c)) < MaxInvitesPerPhone
    /\ Cardinality(RecentBy(list, s, c)) < MaxInvitesPerBusiness

WindowTo(list, i) ==
    {j \in DOMAIN list : /\ list[j].phone = list[i].phone
                         /\ list[j].created >= list[i].created
                         /\ list[j].created < list[i].created + InviteWindow}

WindowBy(list, i) ==
    {j \in DOMAIN list : /\ list[j].shop = list[i].shop
                         /\ list[j].created >= list[i].created
                         /\ list[j].created < list[i].created + InviteWindow}

\* InvitesBounded, of any table.
Bounded(list) ==
    \A i \in DOMAIN list :
        /\ Cardinality(WindowTo(list, i)) <= MaxInvitesPerPhone
        /\ Cardinality(WindowBy(list, i)) <= MaxInvitesPerBusiness
        /\ \A j \in WindowTo(list, i) \ {i} :
              list[j].shop = list[i].shop => list[j].created >= list[i].created + InviteCooldown

\* Rows as the lemmas need them: finitely many, with their instants.
Table(list) ==
    IsFiniteSet(DOMAIN list) /\ \A i \in DOMAIN list : list[i].created \in Nat

LEMMA AllowedIsAllow ==
    ASSUME NEW s, NEW p, NEW c
    PROVE  AllowInvite(InviteHistory(s, p, c), c) <=> Allowed(invs, s, p, c)
<1> DEFINE h == InviteHistory(s, p, c)
<1>1. h.ToPhone = RecentTo(invs, p, c) /\ h.ByBusiness = RecentBy(invs, s, c)
  BY DEF InviteHistory, RecentTo, RecentBy
<1> HIDE DEF h
<1>2. \A i : i \in h.ToPhone \cap h.ByBusiness <=> i \in RecentTo(invs, p, c) /\ invs[i].shop = s
  BY <1>1 DEF RecentTo, RecentBy
<1>3. AllowInvite(h, c) <=> Allowed(invs, s, p, c)
  BY <1>1, <1>2 DEF AllowInvite, Allowed
<1> QED
  BY <1>3 DEF h

LEMMA BoundedIsBounded == Bounded(invs) <=> InvitesBounded
<1> DEFINE since(i) == {j \in DOMAIN invs : /\ invs[j].created >= invs[i].created
                                            /\ invs[j].created < invs[i].created + InviteWindow}
<1>1. ASSUME NEW i
      PROVE  /\ {j \in since(i) : invs[j].phone = invs[i].phone} = WindowTo(invs, i)
             /\ {j \in since(i) : invs[j].shop = invs[i].shop} = WindowBy(invs, i)
  BY DEF WindowTo, WindowBy
<1>2. InvitesBounded <=> \A i \in DOMAIN invs :
          /\ Cardinality({j \in since(i) : invs[j].phone = invs[i].phone}) <= MaxInvitesPerPhone
          /\ Cardinality({j \in since(i) : invs[j].shop = invs[i].shop}) <= MaxInvitesPerBusiness
          /\ \A j \in since(i) \ {i} :
                  invs[j].phone = invs[i].phone /\ invs[j].shop = invs[i].shop
                      => invs[j].created >= invs[i].created + InviteCooldown
  BY DEF InvitesBounded
<1>3. ASSUME NEW i
      PROVE  (\A j \in since(i) \ {i} :
                  invs[j].phone = invs[i].phone /\ invs[j].shop = invs[i].shop
                      => invs[j].created >= invs[i].created + InviteCooldown)
             <=> (\A j \in WindowTo(invs, i) \ {i} :
                    invs[j].shop = invs[i].shop => invs[j].created >= invs[i].created + InviteCooldown)
  BY DEF WindowTo
<1> HIDE DEF since
<1> QED
  BY <1>1, <1>2, <1>3 DEF Bounded

\* What becomes of an invitation does not count: it was sent.
LEMMA KeysKeepAllowed ==
    ASSUME NEW list, NEW new, SameKeys(list, new), NEW s, NEW p, NEW c, Allowed(list, s, p, c)
    PROVE  Allowed(new, s, p, c)
<1>1. RecentTo(new, p, c) = RecentTo(list, p, c)
  BY DEF SameKeys, RecentTo
<1>2. RecentBy(new, s, c) = RecentBy(list, s, c)
  BY DEF SameKeys, RecentBy
<1>3. \A i \in RecentTo(list, p, c) : new[i].shop = list[i].shop /\ new[i].created = list[i].created
  BY DEF SameKeys, RecentTo
<1> QED
  BY <1>1, <1>2, <1>3 DEF Allowed

LEMMA KeysKeepBounded ==
    ASSUME NEW list, NEW new, SameKeys(list, new), Bounded(list)
    PROVE  Bounded(new)
<1> SUFFICES ASSUME NEW i \in DOMAIN list
             PROVE  /\ Cardinality(WindowTo(new, i)) <= MaxInvitesPerPhone
                    /\ Cardinality(WindowBy(new, i)) <= MaxInvitesPerBusiness
                    /\ \A j \in WindowTo(new, i) \ {i} :
                          new[j].shop = new[i].shop => new[j].created >= new[i].created + InviteCooldown
  BY DEF Bounded, SameKeys
<1>1. WindowTo(new, i) = WindowTo(list, i)
  BY DEF SameKeys, WindowTo
<1>2. WindowBy(new, i) = WindowBy(list, i)
  BY DEF SameKeys, WindowBy
<1>3. \A j \in WindowTo(list, i) \cup {i} : new[j].shop = list[j].shop /\ new[j].created = list[j].created
  BY DEF SameKeys, WindowTo
<1> QED
  BY <1>1, <1>2, <1>3 DEF Bounded

\* An invitation by another business to another phone takes no one's turn.
LEMMA AddedKeepsAllowed ==
    ASSUME NEW list, NEW new, NEW n, NEW row, Adds(list, new, n, row), NEW s, NEW p, NEW c,
           row.shop # s, row.phone # p, Allowed(list, s, p, c)
    PROVE  Allowed(new, s, p, c)
<1>1. RecentTo(new, p, c) = RecentTo(list, p, c)
  BY DEF Adds, RecentTo
<1>2. RecentBy(new, s, c) = RecentBy(list, s, c)
  BY DEF Adds, RecentBy
<1>3. \A i \in RecentTo(list, p, c) : new[i] = list[i]
  BY DEF Adds, RecentTo
<1> QED
  BY <1>1, <1>2, <1>3 DEF Allowed

\* A set within another one and one element has at most one element more.
LEMMA OneMore ==
    ASSUME NEW A, IsFiniteSet(A), NEW n, NEW B, B \subseteq A \cup {n}, NEW max \in Nat,
           Cardinality(A) < max
    PROVE  IsFiniteSet(B) /\ Cardinality(B) <= max
<1>1. IsFiniteSet(A \cup {n}) /\ Cardinality(A \cup {n}) <= Cardinality(A) + 1
  <2>1. IsFiniteSet(A \cup {n})
    BY FS_AddElement
  <2>2. Cardinality(A \cup {n}) = IF n \in A THEN Cardinality(A) ELSE Cardinality(A) + 1
    BY FS_AddElement
  <2>3. Cardinality(A) \in Nat
    BY FS_CardinalityType
  <2> QED
    BY <2>1, <2>2, <2>3
<1>2. IsFiniteSet(B) /\ Cardinality(B) <= Cardinality(A \cup {n})
  BY <1>1, FS_Subset
<1>3. Cardinality(A) \in Nat /\ Cardinality(B) \in Nat /\ Cardinality(A \cup {n}) \in Nat
  BY <1>1, <1>2, FS_CardinalityType
<1> QED
  BY <1>1, <1>2, <1>3

\* The invitation that was allowed keeps every window, later ones included.
LEMMA AddedKeepsBounded ==
    ASSUME NEW list, NEW new, NEW n, NEW row, Adds(list, new, n, row), Table(list),
           row.created \in Nat, Bounded(list), Allowed(list, row.shop, row.phone, row.created)
    PROVE  Bounded(new)
<1> DEFINE c == row.created
           T == RecentTo(list, row.phone, c)
           B == RecentBy(list, row.shop, c)
<1>0. /\ InviteWindow \in Nat \ {0} /\ InviteCooldown \in Nat \ {0}
      /\ MaxInvitesPerPhone \in Nat /\ MaxInvitesPerBusiness \in Nat
  BY StaffingAssumption
<1>1. IsFiniteSet(T) /\ IsFiniteSet(B)
  BY FS_Subset DEF Table, RecentTo, RecentBy
<1>2. \A i \in DOMAIN list : new[i] = list[i] /\ list[i].created \in Nat /\ i # n
  BY DEF Adds, Table
<1>3. Cardinality(T) < MaxInvitesPerPhone /\ Cardinality(B) < MaxInvitesPerBusiness
  BY DEF Allowed
<1>4. \A i \in T : list[i].shop = row.shop => list[i].created + InviteCooldown <= c
  BY DEF Allowed
<1>5. new[n] = row /\ DOMAIN new = DOMAIN list \cup {n}
  BY DEF Adds
<1> SUFFICES ASSUME NEW i \in DOMAIN new
             PROVE  /\ Cardinality(WindowTo(new, i)) <= MaxInvitesPerPhone
                    /\ Cardinality(WindowBy(new, i)) <= MaxInvitesPerBusiness
                    /\ \A j \in WindowTo(new, i) \ {i} :
                          new[j].shop = new[i].shop => new[j].created >= new[i].created + InviteCooldown
  BY DEF Bounded
<1>6. CASE i = n
  <2>1. WindowTo(new, i) \subseteq T \cup {n}
    BY <1>0, <1>2, <1>5, <1>6, SMT DEF WindowTo, RecentTo
  <2>2. WindowBy(new, i) \subseteq B \cup {n}
    BY <1>0, <1>2, <1>5, <1>6, SMT DEF WindowBy, RecentBy
  <2>3. ASSUME NEW j \in WindowTo(new, i) \ {i}, new[j].shop = new[i].shop
        PROVE  FALSE
    <3>1. j \in T /\ j \in DOMAIN list
      BY <1>6, <2>1, <2>3 DEF RecentTo
    <3>2. list[j].created >= c /\ list[j].shop = row.shop
      BY <1>2, <1>5, <1>6, <2>3, <3>1 DEF WindowTo
    <3>3. list[j].created + InviteCooldown <= c
      BY <1>4, <3>1, <3>2
    <3> QED
      BY <1>0, <1>2, <3>1, <3>2, <3>3, SMT
  <2>4. /\ Cardinality(WindowTo(new, i)) <= MaxInvitesPerPhone
        /\ Cardinality(WindowBy(new, i)) <= MaxInvitesPerBusiness
    BY <1>0, <1>1, <1>3, <2>1, <2>2, OneMore
  <2> QED
    BY <2>3, <2>4
<1>7. CASE i # n
  <2>0. i \in DOMAIN list /\ new[i] = list[i]
    BY <1>2, <1>5, <1>7
  <2>1. Cardinality(WindowTo(new, i)) <= MaxInvitesPerPhone
    <3>1. CASE n \in WindowTo(new, i)
      <4>1. list[i].phone = row.phone /\ c >= list[i].created /\ c < list[i].created + InviteWindow
        BY <1>5, <2>0, <3>1 DEF WindowTo
      <4>2. WindowTo(new, i) \subseteq T \cup {n}
        BY <1>0, <1>2, <1>5, <2>0, <4>1, SMT DEF WindowTo, RecentTo
      <4> QED
        BY <1>0, <1>1, <1>3, <4>2, OneMore
    <3>2. CASE n \notin WindowTo(new, i)
      <4>1. WindowTo(new, i) = WindowTo(list, i)
        BY <1>2, <1>5, <2>0, <3>2 DEF WindowTo
      <4> QED
        BY <2>0, <4>1 DEF Bounded
    <3> QED
      BY <3>1, <3>2
  <2>2. Cardinality(WindowBy(new, i)) <= MaxInvitesPerBusiness
    <3>1. CASE n \in WindowBy(new, i)
      <4>1. list[i].shop = row.shop /\ c >= list[i].created /\ c < list[i].created + InviteWindow
        BY <1>5, <2>0, <3>1 DEF WindowBy
      <4>2. WindowBy(new, i) \subseteq B \cup {n}
        BY <1>0, <1>2, <1>5, <2>0, <4>1, SMT DEF WindowBy, RecentBy
      <4> QED
        BY <1>0, <1>1, <1>3, <4>2, OneMore
    <3>2. CASE n \notin WindowBy(new, i)
      <4>1. WindowBy(new, i) = WindowBy(list, i)
        BY <1>2, <1>5, <2>0, <3>2 DEF WindowBy
      <4> QED
        BY <2>0, <4>1 DEF Bounded
    <3> QED
      BY <3>1, <3>2
  <2>3. ASSUME NEW j \in WindowTo(new, i) \ {i}, new[j].shop = new[i].shop
        PROVE  new[j].created >= new[i].created + InviteCooldown
    <3>1. CASE j = n
      <4>1. /\ list[i].phone = row.phone /\ c >= list[i].created /\ c < list[i].created + InviteWindow
            /\ list[i].shop = row.shop
        BY <1>5, <2>0, <2>3, <3>1 DEF WindowTo
      <4>2. i \in T
        BY <1>0, <1>2, <2>0, <4>1, SMT DEF RecentTo
      <4>3. list[i].created + InviteCooldown <= c
        BY <1>4, <4>1, <4>2
      <4> QED
        BY <1>0, <1>2, <1>5, <2>0, <3>1, <4>3, SMT
    <3>2. CASE j # n
      <4>1. j \in WindowTo(list, i) \ {i} /\ new[j] = list[j]
        BY <1>2, <1>5, <2>0, <2>3, <3>2 DEF WindowTo
      <4> QED
        BY <2>0, <2>3, <4>1 DEF Bounded
    <3> QED
      BY <3>1, <3>2
  <2> QED
    BY <2>1, <2>2, <2>3
<1> QED
  BY <1>6, <1>7

-----------------------------------------------------------------------------
(* Seats: the staff, and the invitations that can still be accepted.       *)

OpenFor(list, s, now) == {i \in DOMAIN list : list[i].shop = s /\ IsOpen(list[i], now)}

\* What a new invitation to p leaves of them.
OpenBut(list, s, p, now) == {i \in OpenFor(list, s, now) : list[i].phone # p}

CrewOf(crew, s) == {m \in crew : m.shop = s}

LateOf(crew, s) == {m \in crew : m.shop = s /\ m.late}

\* SeatsWithinPlan, of any tables, one business and its seats.
FitsPlan(list, crew, s, now, max) ==
    Cardinality(CrewOf(crew, s)) + Cardinality(OpenFor(list, s, now))
        <= max + Cardinality(LateOf(crew, s))

\* There is a seat for p, once p's open invitations are gone.
Room(list, crew, s, p, now, max) ==
    Cardinality(CrewOf(crew, s)) + Cardinality(OpenBut(list, s, p, now))
        < max + Cardinality(LateOf(crew, s))

LEMMA SeatSetsFinite ==
    ASSUME NEW list, NEW crew, Table(list), IsFiniteSet(crew), NEW s, NEW p, NEW now
    PROVE  /\ IsFiniteSet(OpenFor(list, s, now)) /\ Cardinality(OpenFor(list, s, now)) \in Nat
           /\ IsFiniteSet(OpenBut(list, s, p, now)) /\ Cardinality(OpenBut(list, s, p, now)) \in Nat
           /\ IsFiniteSet(CrewOf(crew, s)) /\ Cardinality(CrewOf(crew, s)) \in Nat
           /\ IsFiniteSet(LateOf(crew, s)) /\ Cardinality(LateOf(crew, s)) \in Nat
<1>1. /\ OpenFor(list, s, now) \subseteq DOMAIN list /\ OpenBut(list, s, p, now) \subseteq DOMAIN list
      /\ CrewOf(crew, s) \subseteq crew /\ LateOf(crew, s) \subseteq crew
  BY DEF OpenFor, OpenBut, CrewOf, LateOf
<1>2. /\ IsFiniteSet(OpenFor(list, s, now)) /\ IsFiniteSet(OpenBut(list, s, p, now))
      /\ IsFiniteSet(CrewOf(crew, s)) /\ IsFiniteSet(LateOf(crew, s))
  BY <1>1, FS_Subset DEF Table
<1> QED
  BY <1>2, FS_CardinalityType

\* Invitations that expire or are revoked free seats.
LEMMA FewerOpen ==
    ASSUME NEW list, NEW new, NEW crew, Table(list), Table(new), IsFiniteSet(crew),
           NEW s, NEW now, NEW later,
           OpenFor(new, s, later) \subseteq OpenFor(list, s, now),
           \A i \in DOMAIN list : new[i].phone = list[i].phone,
           NEW p, NEW max \in Nat, Room(list, crew, s, p, now, max)
    PROVE  Room(new, crew, s, p, later, max)
<1>1. OpenBut(new, s, p, later) \subseteq OpenBut(list, s, p, now)
  BY DEF OpenBut, OpenFor
<1>2. Cardinality(OpenBut(new, s, p, later)) <= Cardinality(OpenBut(list, s, p, now))
  BY <1>1, SeatSetsFinite, FS_Subset
<1>3. /\ Cardinality(OpenBut(list, s, p, now)) \in Nat /\ Cardinality(OpenBut(new, s, p, later)) \in Nat
      /\ Cardinality(CrewOf(crew, s)) \in Nat /\ Cardinality(LateOf(crew, s)) \in Nat
  BY SeatSetsFinite
<1> QED
  BY <1>2, <1>3, SMT DEF Room

\* A member in the seat of an invitation, or in one of their own, late.
LEMMA SeatTaken ==
    ASSUME NEW C, IsFiniteSet(C), NEW O, IsFiniteSet(O), NEW L, IsFiniteSet(L), L \subseteq C,
           NEW m, m \notin C, NEW i, NEW D, NEW P, NEW M, D = C \cup {m}, P = O \ {i},
           \/ i \in O /\ M = L
           \/ i \notin O /\ M = L \cup {m}
    PROVE  Cardinality(D) + Cardinality(P) + Cardinality(L)
               = Cardinality(C) + Cardinality(O) + Cardinality(M)
<1>1. Cardinality(D) = Cardinality(C) + 1
  BY FS_AddElement
<1>2. /\ Cardinality(C) \in Nat /\ Cardinality(O) \in Nat /\ Cardinality(L) \in Nat
  BY FS_CardinalityType
<1>3. CASE i \in O /\ M = L
  <2>1. Cardinality(P) = Cardinality(O) - 1
    BY <1>3, FS_RemoveElement
  <2> QED
    BY <1>1, <1>2, <1>3, <2>1, SMT
<1>4. CASE i \notin O /\ M = L \cup {m}
  <2>1. Cardinality(P) = Cardinality(O)
    <3>1. P = O
      BY <1>4
    <3> QED
      BY <3>1
  <2>2. Cardinality(M) = Cardinality(L) + 1
    BY <1>4, FS_AddElement
  <2> QED
    BY <1>1, <1>2, <2>1, <2>2, SMT
<1> QED
  BY <1>3, <1>4

\* An acceptance takes the seat of its invitation, or is counted as late.
LEMMA AcceptedKeepsSeats ==
    ASSUME NEW list, NEW new, Table(list), Table(new), NEW i \in DOMAIN list, NEW now \in Nat,
           list[i].status = "pending", new[i].status = "accepted", new[i].shop = list[i].shop,
           DOMAIN new = DOMAIN list, \A j \in DOMAIN list : j # i => new[j] = list[j],
           NEW crew, IsFiniteSet(crew), NEW m, m \notin crew, m.shop = list[i].shop,
           m.late <=> now >= ExpiresAt(list[i]), NEW s, NEW p, NEW max \in Nat,
           ~ (list[i].shop = s /\ list[i].phone = p), Room(list, crew, s, p, now, max)
    PROVE  Room(new, crew \cup {m}, s, p, now, max)
<1> DEFINE C == CrewOf(crew, s)
           D == CrewOf(crew \cup {m}, s)
           L == LateOf(crew, s)
           M == LateOf(crew \cup {m}, s)
           X == OpenBut(list, s, p, now)
           Y == OpenBut(new, s, p, now)
<1>0. InvitationTTL \in Nat
  BY StaffingAssumption
<1>a. IsFiniteSet(crew \cup {m})
  BY FS_AddElement
<1>b. list[i].created \in Nat
  BY DEF Table
<1>c. m.late <=> ~ IsOpen(list[i], now)
  BY <1>0, <1>b DEF IsOpen, ExpiresAt
<1>1. CASE list[i].shop # s
  <2>1. C = D /\ L = M
    BY <1>1 DEF CrewOf, LateOf
  <2>2. X = Y
    BY <1>1 DEF OpenFor, OpenBut
  <2> QED
    BY <2>1, <2>2 DEF Room
<1>2. CASE list[i].shop = s
  <2>1. D = C \cup {m} /\ m \notin C /\ L \subseteq C
    BY <1>2 DEF CrewOf, LateOf
  <2>2. Y = X \ {i}
    BY <1>2 DEF OpenFor, OpenBut, IsOpen
  <2>3. i \in X <=> ~ m.late
    BY <1>2, <1>c DEF OpenFor, OpenBut
  <2>4. (m.late => M = L \cup {m}) /\ (~ m.late => M = L)
    BY <1>2 DEF LateOf
  <2>5. /\ IsFiniteSet(C) /\ IsFiniteSet(X) /\ IsFiniteSet(L) /\ Cardinality(C) \in Nat
        /\ Cardinality(X) \in Nat /\ Cardinality(L) \in Nat
        /\ Cardinality(D) \in Nat /\ Cardinality(Y) \in Nat /\ Cardinality(M) \in Nat
    BY <1>a, SeatSetsFinite
  <2>6. Cardinality(D) + Cardinality(Y) + Cardinality(L)
           = Cardinality(C) + Cardinality(X) + Cardinality(M)
    <3> HIDE DEF C, D, L, M, X, Y
    <3> QED
      BY <2>1, <2>2, <2>3, <2>4, <2>5, SeatTaken
  <2> QED
    BY <2>5, <2>6, SMT DEF Room
<1> QED
  BY <1>1, <1>2

\* A row more is a seat more, and of one business only.
LEMMA AddedKeepsSeats ==
    ASSUME NEW list, NEW new, NEW n, NEW row, Adds(list, new, n, row), Table(list), Table(new),
           NEW crew, IsFiniteSet(crew), NEW s, NEW now, NEW max \in Nat
    PROVE  /\ row.shop # s => \A p : Room(list, crew, s, p, now, max)
                                        => Room(new, crew, s, p, now, max)
           /\ Cardinality(CrewOf(crew, s)) + Cardinality(OpenFor(list, s, now))
                  < max + Cardinality(LateOf(crew, s))
                => FitsPlan(new, crew, s, now, max)
<1>1. ASSUME row.shop # s
      PROVE  \A p : Room(list, crew, s, p, now, max) => Room(new, crew, s, p, now, max)
  <2>1. \A p : OpenBut(new, s, p, now) = OpenBut(list, s, p, now)
    BY <1>1 DEF Adds, OpenFor, OpenBut
  <2> QED
    BY <2>1 DEF Room
<1>2. ASSUME Cardinality(CrewOf(crew, s)) + Cardinality(OpenFor(list, s, now))
                  < max + Cardinality(LateOf(crew, s))
      PROVE  FitsPlan(new, crew, s, now, max)
  <2>1. OpenFor(new, s, now) \subseteq OpenFor(list, s, now) \cup {n}
    BY DEF Adds, OpenFor
  <2>2. /\ IsFiniteSet(OpenFor(list, s, now)) /\ Cardinality(OpenFor(list, s, now)) \in Nat
        /\ Cardinality(OpenFor(new, s, now)) \in Nat
        /\ Cardinality(CrewOf(crew, s)) \in Nat /\ Cardinality(LateOf(crew, s)) \in Nat
    BY SeatSetsFinite
  <2>3. Cardinality(OpenFor(new, s, now)) <= Cardinality(OpenFor(list, s, now)) + 1
    <3> DEFINE A == OpenFor(list, s, now)
               B == OpenFor(new, s, now)
               k == Cardinality(A) + 1
    <3>1. k \in Nat /\ Cardinality(A) < k
      BY <2>2
    <3> HIDE DEF A, B, k
    <3>2. Cardinality(B) <= k
      BY <2>1, <2>2, <3>1, OneMore DEF A, B
    <3> QED
      BY <3>2 DEF A, B, k
  <2> QED
    BY <1>2, <2>2, <2>3, SMT DEF FitsPlan
<1> QED
  BY <1>1, <1>2

-----------------------------------------------------------------------------
(* The invariant.                                                          *)

StRequestRecords ==
    [pc: {"idle", "asked", "locked", "counted", "seated", "accepting"},
     shop: StShops \cup {NoOne}, person: StPeople \cup {NoOne}, role: StRoles,
     branches: StWheres, created: Nat, standing: StStandings, inv: Nat]

HasShop == {"locked", "counted", "seated"}      \* holds the business's lock
HasPhone == {"counted", "seated"}               \* holds the phone's
Asking == {"asked"} \cup HasShop

\* What a request may rely on: the tables still say what it read, or less.
Turn(q, list, crew, now) ==
    /\ q \in StRequestRecords
    /\ q.pc \in Asking => q.shop \in StShops /\ q.person \in StPeople /\ q.created <= now
    /\ q.pc = "accepting" => q.inv \in DOMAIN list /\ list[q.inv].status = "pending"
    /\ q.pc \in HasPhone => Allowed(list, q.shop, q.person, q.created)
    /\ q.pc = "seated" => Room(list, crew, q.shop, q.person, now, q.standing.plan.MaxStaff)

\* What the locks keep apart.
KeptApart(a, b, list) ==
    /\ ~ (a.pc \in HasShop /\ b.pc \in HasShop /\ a.shop = b.shop)
    /\ ~ (a.pc \in HasPhone /\ b.pc \in HasPhone /\ a.person = b.person)
    /\ ~ (a.pc = "accepting" /\ b.pc = "accepting" /\ a.inv = b.inv)
    /\ ~ (/\ a.pc = "seated" /\ b.pc = "accepting"
          /\ list[b.inv].shop = a.shop /\ list[b.inv].phone = a.person)

\* People join by the invitations they accepted.
Joined(list, crew) ==
    /\ IsFiniteSet(crew)
    /\ {m.inv : m \in crew} = {i \in DOMAIN list : list[i].status = "accepted"}

\* Inductive: what the transactions in progress rely on, what the locks keep
\* apart, and what the tables say.  The limits alone are not: a request that
\* counted and waits must still find room when it inserts.
StInv ==
    /\ stClock \in Nat
    /\ invs \in Seq(InvRows)
    /\ DOMAIN req = StRequests
    /\ Joined(invs, team)
    /\ \A r \in StRequests : Turn(req[r], invs, team, stClock)
    /\ \A r, x \in StRequests : r # x => KeptApart(req[r], req[x], invs)
    /\ Bounded(invs)

LEMMA RowsAreATable ==
    ASSUME NEW list \in Seq(InvRows)
    PROVE  /\ Table(list) /\ DOMAIN list = 1 .. Len(list) /\ Len(list) \in Nat
           /\ \A i \in DOMAIN list : list[i] \in InvRows
<1>1. DOMAIN list = 1 .. Len(list) /\ Len(list) \in Nat /\ \A i \in DOMAIN list : list[i] \in InvRows
  OBVIOUS
<1>2. IsFiniteSet(1 .. Len(list))
  BY <1>1, FS_Interval
<1> QED
  BY <1>1, <1>2 DEF Table, InvRows

LEMMA NoRequestFits ==
    ASSUME NEW list, NEW crew, NEW now
    PROVE  /\ Turn(NoRequest, list, crew, now)
           /\ \A q : KeptApart(NoRequest, q, list) /\ KeptApart(q, NoRequest, list)
           /\ NoRequest \in StRequestRecords
<1>1. NoRequest.pc = "idle"
  BY DEF NoRequest
<1>2. SetupStanding \in StStandings
  BY DEF SetupStanding, StStandings, StPlans
<1>3. NoRequest \in StRequestRecords
  BY <1>2 DEF NoRequest, StRequestRecords, StRoles, StWheres
<1> QED
  BY <1>1, <1>3 DEF Turn, KeptApart, Asking, HasShop, HasPhone

\* Only a request goes on.
LEMMA RequestGoesOn ==
    ASSUME StInv, NEW r \in StRequests, NEW q,
           req' = [req EXCEPT ![r] = q], UNCHANGED <<stClock, invs, team>>,
           Turn(q, invs, team, stClock),
           \A x \in StRequests \ {r} : KeptApart(q, req[x], invs) /\ KeptApart(req[x], q, invs)
    PROVE  StInv'
<1>1. DOMAIN req' = StRequests
  BY DEF StInv
<1>2. req'[r] = q /\ \A x \in StRequests \ {r} : req'[x] = req[x]
  BY DEF StInv
<1>3. \A x \in StRequests : Turn(req'[x], invs, team, stClock)
  BY <1>2 DEF StInv
<1>4. \A x, y \in StRequests : x # y => KeptApart(req'[x], req'[y], invs)
  BY <1>2 DEF StInv
<1> QED
  BY <1>1, <1>3, <1>4 DEF StInv

LEMMA RequestEnds ==
    ASSUME StInv, NEW r \in StRequests, Finish(r), UNCHANGED <<stClock, invs, team>>
    PROVE  StInv'
BY NoRequestFits, RequestGoesOn DEF Finish

LEMMA StandingPlans ==
    ASSUME NEW shop
    PROVE  StandingOf(shop) \in StStandings
BY DEF StandingOf, Standing, StandingAt, SetupStanding, PlanByCode, StPlans, StStandings

LEMMA PlansHaveRoom ==
    ASSUME NEW q \in StRequestRecords
    PROVE  q.standing.plan.MaxStaff \in Nat
BY BillingAssumption DEF StRequestRecords, StStandings, StPlans, PlanByCode

LEMMA InviteAskKeeps ==
    ASSUME StInv, NEW r \in StRequests, NEW shop \in StShops, NEW person \in StPeople,
           NEW form \in StForms, InviteAsk(r, shop, person, form)
    PROVE  StInv'
<1>1. CASE UNCHANGED req
  BY <1>1 DEF StInv, InviteAsk
<1>2. CASE ~ UNCHANGED req
  <2> DEFINE standing == StandingOf(shop)
             role == form.role
             wh == form.branches
             q == [NoRequest EXCEPT
                !.pc = "asked", !.shop = shop, !.person = person, !.role = role,
                !.branches = wh, !.created = stClock, !.standing = standing]
  <2>1. req' = [req EXCEPT ![r] = q]
    BY <1>2 DEF InviteAsk
  <2>2. standing \in StStandings /\ role \in StRoles /\ wh \in StWheres /\ stClock \in Nat
    BY StandingPlans DEF StRoles, StWheres, StInv
  <2> HIDE DEF standing, role, wh
  <2>3. q \in StRequestRecords /\ q.pc = "asked" /\ q.shop = shop /\ q.person = person
        /\ q.created = stClock
    BY <2>2, NoRequestFits DEF StRequestRecords
  <2> HIDE DEF q
  <2>4. Turn(q, invs, team, stClock)
    BY <2>2, <2>3 DEF Turn, HasPhone
  <2>5. \A x \in StRequests \ {r} : KeptApart(q, req[x], invs) /\ KeptApart(req[x], q, invs)
    BY <2>3 DEF KeptApart, HasShop, HasPhone
  <2>6. UNCHANGED <<stClock, invs, team>>
    BY DEF InviteAsk
  <2> QED
    BY <2>1, <2>4, <2>5, <2>6, RequestGoesOn
<1> QED
  BY <1>1, <1>2

\* A request whose step alone changes.
LEMMA StepOf ==
    ASSUME StInv, NEW r \in StRequests, NEW pc \in {"locked", "counted", "seated"}
    PROVE  LET q == [req[r] EXCEPT !.pc = pc]
           IN  /\ q \in StRequestRecords /\ q.pc = pc /\ q.shop = req[r].shop
               /\ q.person = req[r].person /\ q.created = req[r].created
               /\ q.standing = req[r].standing
               /\ [req EXCEPT ![r].pc = pc] = [req EXCEPT ![r] = q]
BY DEF StInv, Turn, StRequestRecords

LEMMA InviteLockKeeps ==
    ASSUME StInv, NEW r \in StRequests, InviteLock(r)
    PROVE  StInv'
<1>0. UNCHANGED <<stClock, invs, team>> /\ req[r].pc = "asked"
  BY DEF InviteLock
<1>1. CASE KnownBranches(r)
  <2> DEFINE q == [req[r] EXCEPT !.pc = "locked"]
  <2>1. /\ q \in StRequestRecords /\ q.pc = "locked" /\ q.shop = req[r].shop
        /\ q.person = req[r].person /\ q.created = req[r].created
    BY StepOf
  <2>2. req' = [req EXCEPT ![r] = q]
    BY <1>1, StepOf DEF InviteLock
  <2> HIDE DEF q
  <2>3. Turn(q, invs, team, stClock)
    BY <1>0, <2>1 DEF Turn, Asking, HasShop, HasPhone, StInv
  <2>4. \A x \in StRequests \ {r} : KeptApart(q, req[x], invs) /\ KeptApart(req[x], q, invs)
    BY <2>1 DEF KeptApart, HasShop, HasPhone, InviteLock, ShopLocked
  <2> QED
    BY <1>0, <2>2, <2>3, <2>4, RequestGoesOn
<1>2. CASE ~ KnownBranches(r)
  BY <1>0, <1>2, RequestEnds DEF InviteLock
<1> QED
  BY <1>1, <1>2

LEMMA InviteCountKeeps ==
    ASSUME StInv, NEW r \in StRequests, InviteCount(r)
    PROVE  StInv'
<1>0. UNCHANGED <<stClock, invs, team>> /\ req[r].pc = "locked" /\ ~ PhoneLocked(req[r].person)
  BY DEF InviteCount
<1> DEFINE ok == AllowInvite(InviteHistory(req[r].shop, req[r].person, req[r].created), req[r].created)
<1>1. CASE ok
  <2> DEFINE q == [req[r] EXCEPT !.pc = "counted"]
  <2>1. /\ q \in StRequestRecords /\ q.pc = "counted" /\ q.shop = req[r].shop
        /\ q.person = req[r].person /\ q.created = req[r].created
    BY StepOf
  <2>2. req' = [req EXCEPT ![r] = q]
    <3>1. req' = [req EXCEPT ![r].pc = "counted"]
      BY <1>1 DEF InviteCount
    <3> QED
      BY <3>1, StepOf
  <2>a. Allowed(invs, req[r].shop, req[r].person, req[r].created)
    BY <1>1, AllowedIsAllow
  <2> HIDE DEF q
  <2>3. Turn(q, invs, team, stClock)
    BY <1>0, <2>1, <2>a DEF Turn, Asking, HasShop, HasPhone, StInv
  <2>4. \A x \in StRequests \ {r} : KeptApart(q, req[x], invs) /\ KeptApart(req[x], q, invs)
    <3>1. ASSUME NEW x \in StRequests \ {r}
          PROVE  KeptApart(req[r], req[x], invs) /\ KeptApart(req[x], req[r], invs)
      BY DEF StInv
    <3> QED
      BY <1>0, <2>1, <3>1 DEF KeptApart, HasShop, HasPhone, PhoneLocked
  <2> QED
    BY <1>0, <2>2, <2>3, <2>4, RequestGoesOn
<1>2. CASE ~ ok
  <2>1. Finish(r)
    BY <1>2 DEF InviteCount
  <2> QED
    BY <1>0, <2>1, RequestEnds
<1> QED
  BY <1>1, <1>2

\* What RevokePendingInvitations leaves.
LEMMA RevokeOlderIs ==
    ASSUME StInv, NEW s, NEW p
    PROVE  /\ RevokeOlder(s, p) \in Seq(InvRows)
           /\ SameKeys(invs, RevokeOlder(s, p))
           /\ \A i \in DOMAIN invs :
                 RevokeOlder(s, p)[i].status =
                     IF invs[i].status = "pending" /\ invs[i].shop = s /\ invs[i].phone = p
                     THEN "revoked" ELSE invs[i].status
           /\ \A i \in DOMAIN invs :
                 ~ (invs[i].status = "pending" /\ invs[i].shop = s /\ invs[i].phone = p)
                     => RevokeOlder(s, p)[i] = invs[i]
<1> DEFINE new == RevokeOlder(s, p)
<1>1. DOMAIN invs = 1 .. Len(invs) /\ Len(invs) \in Nat /\ \A i \in DOMAIN invs : invs[i] \in InvRows
  BY RowsAreATable DEF StInv
<1>2. DOMAIN new = DOMAIN invs
  BY DEF RevokeOlder
<1>3. ASSUME NEW i \in DOMAIN invs
      PROVE  /\ new[i] = IF invs[i].status = "pending" /\ invs[i].shop = s /\ invs[i].phone = p
                         THEN [invs[i] EXCEPT !.status = "revoked"] ELSE invs[i]
  BY DEF RevokeOlder, Pending
<1> HIDE DEF new
<1>4. ASSUME NEW i \in DOMAIN invs
      PROVE  /\ new[i] \in InvRows /\ new[i].shop = invs[i].shop /\ new[i].phone = invs[i].phone
             /\ new[i].created = invs[i].created
             /\ new[i].status = IF invs[i].status = "pending" /\ invs[i].shop = s /\ invs[i].phone = p
                                THEN "revoked" ELSE invs[i].status
  BY <1>1, <1>3 DEF InvRows
<1>5. new \in Seq(InvRows)
  <2>1. new = [i \in 1 .. Len(invs) |-> new[i]]
    BY <1>1 DEF new, RevokeOlder
  <2> QED
    BY <1>1, <1>4, <2>1
<1>6. SameKeys(invs, new)
  BY <1>2, <1>4 DEF SameKeys
<1> QED
  BY <1>3, <1>4, <1>5, <1>6 DEF new

LEMMA RevokedSeats ==
    ASSUME StInv, NEW s, NEW p, NEW now
    PROVE  OpenFor(RevokeOlder(s, p), s, now) = OpenBut(invs, s, p, now)
<1>1. DOMAIN RevokeOlder(s, p) = DOMAIN invs
  BY DEF RevokeOlder
<1>2. \A i \in DOMAIN invs : /\ RevokeOlder(s, p)[i].shop = invs[i].shop
                             /\ RevokeOlder(s, p)[i].created = invs[i].created
  BY RevokeOlderIs DEF SameKeys
<1>3. \A i \in DOMAIN invs :
         RevokeOlder(s, p)[i].status =
                     IF invs[i].status = "pending" /\ invs[i].shop = s /\ invs[i].phone = p
                     THEN "revoked" ELSE invs[i].status
  BY RevokeOlderIs
<1> QED
  BY <1>1, <1>2, <1>3 DEF OpenFor, OpenBut, IsOpen, ExpiresAt

\* The open invitations only become fewer.
LEMMA OpenShrinks ==
    ASSUME StInv, NEW s, NEW now \in Nat, NEW later \in Nat, now <= later
    PROVE  OpenFor(invs, s, later) \subseteq OpenFor(invs, s, now)
<1>1. \A i \in DOMAIN invs : invs[i].created \in Nat
  BY RowsAreATable DEF StInv, Table
<1>2. InvitationTTL \in Nat
  BY StaffingAssumption
<1> QED
  BY <1>1, <1>2, SMT DEF OpenFor, IsOpen, ExpiresAt

LEMMA InviteSeatsKeeps ==
    ASSUME StInv, NEW r \in StRequests, InviteSeats(r)
    PROVE  StInv'
<1>0. UNCHANGED <<stClock, invs, team>> /\ req[r].pc = "counted" /\ ~ RevokeWaits(r)
  BY DEF InviteSeats
<1> DEFINE s == req[r].shop
           p == req[r].person
           c == req[r].created
           n == CountStaffSeats(RevokeOlder(s, p), s, c)
           max == req[r].standing.plan.MaxStaff
           ok == AllowStaff(req[r].standing.plan, n)
<1>1. CASE ok
  <2> DEFINE q == [req[r] EXCEPT !.pc = "seated"]
  <2>1. /\ q \in StRequestRecords /\ q.pc = "seated" /\ q.shop = s /\ q.person = p /\ q.created = c
        /\ q.standing.plan.MaxStaff = max
    BY StepOf
  <2>2. req' = [req EXCEPT ![r] = q]
    <3>1. req' = [req EXCEPT ![r].pc = "seated"]
      BY <1>1 DEF InviteSeats
    <3> QED
      BY <3>1, StepOf
  <2>3. req[r] \in StRequestRecords /\ c <= stClock /\ c \in Nat /\ stClock \in Nat
    BY <1>0 DEF StInv, Turn, Asking, HasShop, StRequestRecords
  <2>4. Room(invs, team, s, p, stClock, max)
    <3>1. n = Cardinality(CrewOf(team, s)) + Cardinality(OpenBut(invs, s, p, c))
      <4>1. n = Cardinality(CrewOf(team, s)) + Cardinality(OpenFor(RevokeOlder(s, p), s, c))
        BY DEF CountStaffSeats, CrewOf, OpenFor
      <4> QED
        BY <4>1, RevokedSeats
    <3>2. Table(invs) /\ IsFiniteSet(team)
      BY RowsAreATable DEF StInv, Joined
    <3>3. /\ IsFiniteSet(OpenBut(invs, s, p, c)) /\ Cardinality(OpenBut(invs, s, p, c)) \in Nat
          /\ Cardinality(OpenBut(invs, s, p, stClock)) \in Nat
          /\ Cardinality(CrewOf(team, s)) \in Nat /\ Cardinality(LateOf(team, s)) \in Nat
      BY <3>2, SeatSetsFinite
    <3>4. n < max
      BY <1>1 DEF AllowStaff
    <3>5. OpenBut(invs, s, p, stClock) \subseteq OpenBut(invs, s, p, c)
      BY <2>3, OpenShrinks DEF OpenBut
    <3>6. Cardinality(OpenBut(invs, s, p, stClock)) <= Cardinality(OpenBut(invs, s, p, c))
      BY <3>3, <3>5, FS_Subset
    <3>7. max \in Nat
      BY <2>3, PlansHaveRoom
    <3> HIDE DEF n, max
    <3> QED
      BY <3>1, <3>3, <3>4, <3>6, <3>7, SMT DEF Room
  <2> HIDE DEF q, n, max
  <2>5. Turn(q, invs, team, stClock)
    BY <1>0, <2>1, <2>4 DEF Turn, Asking, HasShop, HasPhone, StInv
  <2>6. ASSUME NEW x \in StRequests \ {r}
        PROVE  KeptApart(q, req[x], invs) /\ KeptApart(req[x], q, invs)
    <3>1. KeptApart(req[r], req[x], invs) /\ KeptApart(req[x], req[r], invs)
      BY DEF StInv
    <3>2. ASSUME req[x].pc = "accepting", invs[req[x].inv].shop = s, invs[req[x].inv].phone = p
          PROVE  FALSE
      <4>1. req[x].inv \in DOMAIN invs /\ invs[req[x].inv].status = "pending"
        BY <3>2 DEF StInv, Turn
      <4>2. req[x].inv \in Pending(s)
        BY <3>2, <4>1 DEF Pending
      <4>3. InvitationHeld(req[x].inv)
        BY <3>2 DEF InvitationHeld
      <4> QED
        BY <1>0, <3>2, <4>2, <4>3 DEF RevokeWaits
    <3> QED
      BY <1>0, <2>1, <3>1, <3>2 DEF KeptApart, HasShop, HasPhone
  <2> QED
    BY <1>0, <2>2, <2>5, <2>6, RequestGoesOn
<1>2. CASE ~ ok
  <2>1. Finish(r)
    BY <1>2 DEF InviteSeats
  <2> QED
    BY <1>0, <2>1, RequestEnds
<1> QED
  BY <1>1, <1>2

LEMMA AcceptLockKeeps ==
    ASSUME StInv, NEW r \in StRequests, NEW person \in StPeople, NEW i \in DOMAIN invs,
           AcceptLock(r, person, i)
    PROVE  StInv'
<1>0. UNCHANGED <<stClock, invs, team>> /\ ~ InvitationHeld(i) /\ invs[i].status = "pending"
  BY DEF AcceptLock, IsOpen
<1>1. invs[i] \in InvRows /\ i \in Nat
  BY RowsAreATable DEF StInv
<1> DEFINE s == invs[i].shop
           q == [NoRequest EXCEPT !.pc = "accepting", !.person = person, !.shop = s, !.inv = i]
<1>2. s \in StShops
  BY <1>1 DEF InvRows
<1>3. req' = [req EXCEPT ![r] = q]
  BY DEF AcceptLock
<1> HIDE DEF s
<1>4. q \in StRequestRecords /\ q.pc = "accepting" /\ q.inv = i
  BY <1>1, <1>2, NoRequestFits DEF StRequestRecords
<1> HIDE DEF q
<1>5. Turn(q, invs, team, stClock)
  BY <1>0, <1>4 DEF Turn, Asking, HasShop, HasPhone
<1>6. ASSUME NEW x \in StRequests \ {r}
      PROVE  KeptApart(q, req[x], invs) /\ KeptApart(req[x], q, invs)
  <2>1. ~ (req[x].pc = "accepting" /\ req[x].inv = i)
    BY <1>0 DEF InvitationHeld
  <2>2. ~ (req[x].pc = "seated" /\ invs[i].shop = req[x].shop /\ invs[i].phone = req[x].person)
    BY <1>0 DEF InvitationHeld, Pending
  <2> QED
    BY <1>4, <2>1, <2>2 DEF KeptApart, HasShop, HasPhone
<1> QED
  BY <1>0, <1>3, <1>5, <1>6, RequestGoesOn

\* A request ends in a change of the tables that the others do not mind.
LEMMA OthersGoOn ==
    ASSUME StInv, NEW r \in StRequests, Finish(r), UNCHANGED stClock,
           invs' \in Seq(InvRows), Joined(invs', team'),
           \A x \in StRequests \ {r} : Turn(req[x], invs', team', stClock),
           \A x, y \in StRequests \ {r} : x # y => KeptApart(req[x], req[y], invs'),
           Bounded(invs')
    PROVE  StInv'
<1>1. DOMAIN req' = StRequests
  BY DEF StInv, Finish
<1>2. req'[r] = NoRequest /\ \A x \in StRequests \ {r} : req'[x] = req[x]
  BY DEF StInv, Finish
<1>3. \A x \in StRequests : Turn(req'[x], invs', team', stClock)
  BY <1>2, NoRequestFits
<1>4. \A x, y \in StRequests : x # y => KeptApart(req'[x], req'[y], invs')
  BY <1>2, NoRequestFits
<1>5. stClock' = stClock /\ stClock \in Nat
  BY DEF StInv
<1> QED
  BY <1>1, <1>3, <1>4, <1>5 DEF StInv

\* The locks keep apart whatever became of the invitations.
LEMMA KeysKeepApart ==
    ASSUME StInv, NEW list, NEW x \in StRequests, NEW y \in StRequests, x # y,
           \A i \in DOMAIN invs : list[i].shop = invs[i].shop /\ list[i].phone = invs[i].phone
    PROVE  KeptApart(req[x], req[y], list)
<1>1. KeptApart(req[x], req[y], invs)
  BY DEF StInv
<1>2. req[y].pc = "accepting" => req[y].inv \in DOMAIN invs
  BY DEF StInv, Turn
<1> QED
  BY <1>1, <1>2 DEF KeptApart

LEMMA StTickKeeps ==
    ASSUME StInv, StTick
    PROVE  StInv'
<1>1. stClock' = stClock + 1 /\ UNCHANGED <<invs, team, req>> /\ stClock \in Nat
  BY DEF StTick, StInv
<1>2. Table(invs) /\ IsFiniteSet(team)
  BY RowsAreATable DEF StInv, Joined
<1>3. \A s : OpenFor(invs, s, stClock + 1) \subseteq OpenFor(invs, s, stClock)
  BY <1>1, OpenShrinks
<1>5. ASSUME NEW r \in StRequests
      PROVE  Turn(req[r], invs, team, stClock + 1)
  <2>1. Turn(req[r], invs, team, stClock)
    BY DEF StInv
  <2>a. req[r].standing.plan.MaxStaff \in Nat
    BY <2>1, PlansHaveRoom DEF Turn
  <2>2. req[r].pc = "seated" => Room(invs, team, req[r].shop, req[r].person, stClock + 1,
                                     req[r].standing.plan.MaxStaff)
    BY <1>2, <1>3, <2>1, <2>a, FewerOpen DEF Turn
  <2>3. req[r].created \in Nat
    BY <2>1 DEF Turn, StRequestRecords
  <2>4. req[r].created <= stClock => req[r].created <= stClock + 1
    BY <1>1, <2>3
  <2> QED
    BY <2>1, <2>2, <2>4 DEF Turn
<1>6. stClock' \in Nat
  BY <1>1
<1> QED
  BY <1>1, <1>5, <1>6 DEF StInv

LEMMA RevokeKeeps ==
    ASSUME StInv, NEW i \in DOMAIN invs, Revoke(i)
    PROVE  StInv'
<1>1. /\ invs[i].status = "pending" /\ ~ InvitationHeld(i) /\ UNCHANGED <<stClock, team, req>>
      /\ invs' = [invs EXCEPT ![i].status = "revoked"]
  BY DEF Revoke
<1>2. invs[i] \in InvRows /\ Table(invs) /\ IsFiniteSet(team) /\ stClock \in Nat
  BY RowsAreATable DEF StInv, Joined
<1> DEFINE row == [invs[i] EXCEPT !.status = "revoked"]
<1>3. /\ row \in InvRows /\ row.status = "revoked" /\ row.shop = invs[i].shop
      /\ row.phone = invs[i].phone /\ row.created = invs[i].created
  BY <1>2 DEF InvRows
<1>4. invs' = [invs EXCEPT ![i] = row]
  BY <1>1 DEF StInv
<1> HIDE DEF row
<1>5. invs' \in Seq(InvRows)
  BY <1>3, <1>4 DEF StInv
<1>6. /\ DOMAIN invs' = DOMAIN invs /\ invs'[i] = row
      /\ \A j \in DOMAIN invs : j # i => invs'[j] = invs[j]
  BY <1>4 DEF StInv
<1>7. SameKeys(invs, invs') /\ Table(invs')
  <2>1. Table(invs')
    BY <1>5, RowsAreATable
  <2> QED
    BY <1>3, <1>6, <2>1 DEF SameKeys
<1>8. Joined(invs', team)
  <2>1. {j \in DOMAIN invs : invs[j].status = "accepted"}
            = {j \in DOMAIN invs' : invs'[j].status = "accepted"}
    BY <1>1, <1>3, <1>6
  <2> QED
    BY <2>1 DEF StInv, Joined
<1>9. \A s : OpenFor(invs', s, stClock) \subseteq OpenFor(invs, s, stClock)
  BY <1>3, <1>6 DEF OpenFor, IsOpen
<1>10. \A j \in DOMAIN invs : invs'[j].phone = invs[j].phone /\ invs'[j].shop = invs[j].shop
  BY <1>7 DEF SameKeys
<1>12. ASSUME NEW x \in StRequests
       PROVE  Turn(req[x], invs', team, stClock)
  <2>1. Turn(req[x], invs, team, stClock)
    BY DEF StInv
  <2>a. req[x].standing.plan.MaxStaff \in Nat
    BY <2>1, PlansHaveRoom DEF Turn
  <2>2. req[x].pc = "seated" => Room(invs', team, req[x].shop, req[x].person, stClock,
                                     req[x].standing.plan.MaxStaff)
    BY <1>2, <1>7, <1>9, <1>10, <2>1, <2>a, FewerOpen DEF Turn
  <2>3. req[x].pc = "accepting" => req[x].inv # i
    BY <1>1 DEF InvitationHeld
  <2>4. req[x].pc = "accepting" => req[x].inv \in DOMAIN invs' /\ invs'[req[x].inv].status = "pending"
    BY <1>6, <2>1, <2>3 DEF Turn
  <2>5. req[x].pc \in HasPhone => Allowed(invs', req[x].shop, req[x].person, req[x].created)
    BY <1>7, <2>1, KeysKeepAllowed DEF Turn
  <2> QED
    BY <2>1, <2>2, <2>4, <2>5 DEF Turn
<1>13. \A x, y \in StRequests : x # y => KeptApart(req[x], req[y], invs')
  BY <1>10, KeysKeepApart
<1>14. Bounded(invs')
  BY <1>7, KeysKeepBounded DEF StInv
<1> QED
  BY <1>1, <1>5, <1>8, <1>12, <1>13, <1>14 DEF StInv

LEMMA AcceptSaveKeeps ==
    ASSUME StInv, NEW r \in StRequests, AcceptSave(r)
    PROVE  StInv'
<1> DEFINE i == req[r].inv
           m == NewStaff(i)
<1>0. UNCHANGED stClock /\ Finish(r) /\ req[r].pc = "accepting"
  BY DEF AcceptSave
<1>1. CASE UNCHANGED <<invs, team>>
  BY <1>0, <1>1, RequestEnds
<1>2. CASE invs' = [invs EXCEPT ![i].status = "accepted"] /\ team' = team \cup {m}
  <2>1. i \in DOMAIN invs /\ invs[i].status = "pending"
    BY <1>0 DEF StInv, Turn
  <2>2. invs[i] \in InvRows /\ Table(invs) /\ IsFiniteSet(team) /\ stClock \in Nat
    BY <2>1, RowsAreATable DEF StInv, Joined
  <2> DEFINE row == [invs[i] EXCEPT !.status = "accepted"]
  <2>3. /\ row \in InvRows /\ row.status = "accepted" /\ row.shop = invs[i].shop
        /\ row.phone = invs[i].phone /\ row.created = invs[i].created
    BY <2>2 DEF InvRows
  <2>4. invs' = [invs EXCEPT ![i] = row]
    BY <1>2, <2>1 DEF StInv
  <2>5. m.inv = i /\ m.shop = invs[i].shop /\ (m.late <=> stClock >= ExpiresAt(invs[i]))
    BY DEF NewStaff
  <2> HIDE DEF row, m, i
  <2>6. invs' \in Seq(InvRows)
    BY <2>1, <2>3, <2>4 DEF StInv
  <2>7. /\ DOMAIN invs' = DOMAIN invs /\ invs'[i] = row
        /\ \A j \in DOMAIN invs : j # i => invs'[j] = invs[j]
    BY <2>1, <2>4 DEF StInv
  <2>8. SameKeys(invs, invs') /\ Table(invs')
    <3>1. Table(invs')
      BY <2>6, RowsAreATable
    <3> QED
      BY <2>3, <2>7, <3>1 DEF SameKeys
  <2>9. m \notin team
    <3>1. \A k \in team : k.inv \in {j \in DOMAIN invs : invs[j].status = "accepted"}
      BY DEF StInv, Joined
    <3> QED
      BY <2>1, <2>5, <3>1
  <2>10. Joined(invs', team')
    <3>1. {j \in DOMAIN invs' : invs'[j].status = "accepted"}
             = {j \in DOMAIN invs : invs[j].status = "accepted"} \cup {i}
      BY <2>1, <2>3, <2>7
    <3>2. {k.inv : k \in team'} = {k.inv : k \in team} \cup {i}
      BY <1>2, <2>5
    <3>3. IsFiniteSet(team')
      BY <1>2, <2>2, FS_AddElement
    <3> QED
      BY <3>1, <3>2, <3>3 DEF StInv, Joined
  <2>11. ASSUME NEW s, NEW p, NEW max \in Nat, ~ (invs[i].shop = s /\ invs[i].phone = p),
                Room(invs, team, s, p, stClock, max)
         PROVE  Room(invs', team', s, p, stClock, max)
    <3>1. invs'[i].status = "accepted" /\ invs'[i].shop = invs[i].shop
      BY <2>3, <2>7
    <3>2. Room(invs', team \cup {m}, s, p, stClock, max)
      BY <2>1, <2>2, <2>5, <2>7, <2>8, <2>9, <2>11, <3>1, AcceptedKeepsSeats
    <3>3. team' = team \cup {m}
      BY <1>2 DEF m
    <3> QED
      BY <3>2, <3>3
  <2>13. ASSUME NEW x \in StRequests \ {r}
         PROVE  Turn(req[x], invs', team', stClock)
    <3>1. Turn(req[x], invs, team, stClock) /\ KeptApart(req[x], req[r], invs)
      BY DEF StInv
    <3>a. req[x].standing.plan.MaxStaff \in Nat
      BY <3>1, PlansHaveRoom DEF Turn
    <3>2. req[x].pc = "seated" => Room(invs', team', req[x].shop, req[x].person, stClock,
                                       req[x].standing.plan.MaxStaff)
      BY <1>0, <2>11, <3>1, <3>a DEF Turn, KeptApart, i
    <3>3. req[x].pc = "accepting" => req[x].inv # i
      BY <1>0, <3>1 DEF KeptApart, i
    <3>4. req[x].pc = "accepting" => req[x].inv \in DOMAIN invs' /\ invs'[req[x].inv].status = "pending"
      BY <2>7, <3>1, <3>3 DEF Turn
    <3>5. req[x].pc \in HasPhone => Allowed(invs', req[x].shop, req[x].person, req[x].created)
      BY <2>8, <3>1, KeysKeepAllowed DEF Turn
    <3> QED
      BY <3>1, <3>2, <3>4, <3>5 DEF Turn
  <2>14. \A x, y \in StRequests \ {r} : x # y => KeptApart(req[x], req[y], invs')
    BY <2>8, KeysKeepApart DEF SameKeys
  <2>15. Bounded(invs')
    BY <2>8, KeysKeepBounded DEF StInv
  <2> QED
    BY <1>0, <2>6, <2>10, <2>13, <2>14, <2>15, OthersGoOn
<1> QED
  BY <1>1, <1>2 DEF AcceptSave

LEMMA InviteSaveKeeps ==
    ASSUME StInv, NEW r \in StRequests, InviteSave(r)
    PROVE  /\ StInv'
           /\ FitsPlan(invs', team', req[r].shop, stClock', req[r].standing.plan.MaxStaff)
<1> DEFINE s == req[r].shop
           p == req[r].person
           c == req[r].created
           max == req[r].standing.plan.MaxStaff
           mid == RevokeOlder(s, p)
<1>0. UNCHANGED <<stClock, team>> /\ Finish(r) /\ req[r].pc = "seated"
  BY DEF InviteSave
<1>1. /\ Turn(req[r], invs, team, stClock) /\ req[r] \in StRequestRecords
      /\ s \in StShops /\ p \in StPeople /\ c \in Nat
      /\ Allowed(invs, s, p, c) /\ Room(invs, team, s, p, stClock, max) /\ max \in Nat
  <2>1. Turn(req[r], invs, team, stClock)
    BY DEF StInv
  <2>2. max \in Nat
    BY <2>1, PlansHaveRoom DEF Turn
  <2> QED
    BY <1>0, <2>1, <2>2 DEF Turn, Asking, HasShop, HasPhone, StRequestRecords
<1>2. PICK arrives \in BOOLEAN :
          invs' = Append(mid, [shop |-> s, phone |-> p, role |-> req[r].role,
                               branches |-> req[r].branches, status |-> "pending",
                               created |-> c, sent |-> arrives])
  BY DEF InviteSave
<1> DEFINE row == [shop |-> s, phone |-> p, role |-> req[r].role, branches |-> req[r].branches,
                   status |-> "pending", created |-> c, sent |-> arrives]
           n == Len(mid) + 1
<1>3. row \in InvRows /\ row.shop = s /\ row.phone = p /\ row.created = c /\ row.status = "pending"
  BY <1>1 DEF InvRows, StRequestRecords
<1>4. /\ mid \in Seq(InvRows) /\ SameKeys(invs, mid)
      /\ \A i \in DOMAIN invs :
            ~ (invs[i].status = "pending" /\ invs[i].shop = s /\ invs[i].phone = p) => mid[i] = invs[i]
      /\ \A i \in DOMAIN invs :
            mid[i].status = IF invs[i].status = "pending" /\ invs[i].shop = s /\ invs[i].phone = p
                            THEN "revoked" ELSE invs[i].status
  BY RevokeOlderIs
<1>5. OpenFor(mid, s, stClock) = OpenBut(invs, s, p, stClock)
  BY RevokedSeats
<1>a. invs' = Append(mid, row)
  BY <1>2
<1> HIDE DEF row, mid
<1>6. invs' \in Seq(InvRows)
  BY <1>3, <1>4, <1>a
<1>7. Adds(mid, invs', n, row)
  <2>1. /\ DOMAIN mid = 1 .. Len(mid) /\ Len(mid) \in Nat
        /\ Len(invs') = Len(mid) + 1 /\ DOMAIN invs' = 1 .. Len(mid) + 1
    BY <1>3, <1>4, <1>a
  <2>2. \A i \in 1 .. Len(mid) : invs'[i] = mid[i]
    BY <1>3, <1>4, <1>a
  <2>3. invs'[Len(mid) + 1] = row
    BY <1>3, <1>4, <1>a
  <2>4. n \notin 1 .. Len(mid) /\ 1 .. Len(mid) + 1 = (1 .. Len(mid)) \cup {n}
    BY <2>1
  <2> QED
    BY <2>1, <2>2, <2>3, <2>4 DEF Adds
<1> HIDE DEF n
<1>8. Table(invs) /\ Table(mid) /\ Table(invs') /\ IsFiniteSet(team)
  BY <1>4, <1>6, RowsAreATable DEF StInv, Joined
<1>9. \A j \in DOMAIN invs : mid[j].phone = invs[j].phone /\ mid[j].shop = invs[j].shop
                             /\ mid[j].created = invs[j].created /\ j \in DOMAIN mid
  BY <1>4 DEF SameKeys
<1>10. DOMAIN mid = DOMAIN invs
  BY <1>4 DEF SameKeys
<1>11. Joined(invs', team')
  <2>1. {j \in DOMAIN invs' : invs'[j].status = "accepted"}
           = {j \in DOMAIN invs : invs[j].status = "accepted"}
    BY <1>3, <1>4, <1>7, <1>10 DEF Adds
  <2> QED
    BY <1>0, <2>1 DEF StInv, Joined
<1>12. \A t : OpenFor(mid, t, stClock) \subseteq OpenFor(invs, t, stClock)
  BY <1>4, <1>9, <1>10 DEF OpenFor, IsOpen, ExpiresAt
<1>13. ASSUME NEW t, NEW o, NEW k \in Nat, Room(invs, team, t, o, stClock, k)
       PROVE  Room(mid, team, t, o, stClock, k)
  BY <1>8, <1>9, <1>12, <1>13, FewerOpen
<1>14. FitsPlan(invs', team, s, stClock, max)
  <2>1. Cardinality(CrewOf(team, s)) + Cardinality(OpenFor(mid, s, stClock))
                < max + Cardinality(LateOf(team, s))
    BY <1>1, <1>5 DEF Room
  <2> QED
    BY <1>1, <1>7, <1>8, <2>1, AddedKeepsSeats
<1>15. ASSUME NEW x \in StRequests \ {r}
       PROVE  Turn(req[x], invs', team, stClock)
  <2>1. Turn(req[x], invs, team, stClock) /\ KeptApart(req[r], req[x], invs)
    BY DEF StInv
  <2>2. /\ req[x].pc \in HasPhone => req[x].shop # s /\ req[x].person # p
        /\ req[x].pc = "seated" => req[x].pc \in HasPhone
    BY <1>0, <2>1 DEF KeptApart, HasShop, HasPhone
  <2>3. ASSUME req[x].pc = "seated"
        PROVE  Room(invs', team, req[x].shop, req[x].person, stClock,
                    req[x].standing.plan.MaxStaff)
    <3>a. req[x].standing.plan.MaxStaff \in Nat
      BY <2>1, PlansHaveRoom DEF Turn
    <3>1. Room(mid, team, req[x].shop, req[x].person, stClock, req[x].standing.plan.MaxStaff)
      BY <1>13, <2>1, <2>3, <3>a DEF Turn
    <3>2. row.shop # req[x].shop
      BY <1>3, <2>2, <2>3
    <3>3. Adds(mid, invs', n, row) /\ Table(mid) /\ Table(invs') /\ IsFiniteSet(team)
      BY <1>7, <1>8
    <3>4. ASSUME NEW t, NEW o, NEW k \in Nat, row.shop # t, Room(mid, team, t, o, stClock, k)
          PROVE  Room(invs', team, t, o, stClock, k)
      BY <3>3, <3>4, AddedKeepsSeats
    <3> QED
      BY <3>a, <3>1, <3>2, <3>4
  <2>4. ASSUME req[x].pc = "accepting"
        PROVE  req[x].inv \in DOMAIN invs' /\ invs'[req[x].inv].status = "pending"
    <3>1. /\ req[x].inv \in DOMAIN invs /\ invs[req[x].inv].status = "pending"
          /\ ~ (invs[req[x].inv].shop = s /\ invs[req[x].inv].phone = p)
      BY <1>0, <2>1, <2>4 DEF Turn, KeptApart
    <3>2. mid[req[x].inv] = invs[req[x].inv]
      BY <1>4, <3>1
    <3> QED
      BY <1>7, <1>10, <3>1, <3>2 DEF Adds
  <2>5. ASSUME req[x].pc \in HasPhone
        PROVE  Allowed(invs', req[x].shop, req[x].person, req[x].created)
    <3>1. Allowed(mid, req[x].shop, req[x].person, req[x].created)
      BY <1>4, <2>1, <2>5, KeysKeepAllowed DEF Turn
    <3>2. row.shop # req[x].shop /\ row.phone # req[x].person
      BY <1>3, <2>2, <2>5
    <3> QED
      BY <1>7, <3>1, <3>2, AddedKeepsAllowed
  <2> QED
    BY <2>1, <2>3, <2>4, <2>5 DEF Turn
<1>16. \A x, y \in StRequests \ {r} : x # y => KeptApart(req[x], req[y], invs')
  <2>1. \A j \in DOMAIN invs : invs'[j].phone = invs[j].phone /\ invs'[j].shop = invs[j].shop
    BY <1>7, <1>9 DEF Adds
  <2> QED
    BY <2>1, KeysKeepApart
<1>17. Bounded(invs')
  <2>1. Bounded(mid) /\ Allowed(mid, s, p, c)
    BY <1>1, <1>4, KeysKeepBounded, KeysKeepAllowed DEF StInv
  <2> QED
    BY <1>1, <1>3, <1>7, <1>8, <2>1, AddedKeepsBounded
<1>18. StInv'
  BY <1>0, <1>6, <1>11, <1>15, <1>16, <1>17, OthersGoOn
<1> QED
  BY <1>0, <1>14, <1>18

LEMMA StInvNext ==
    ASSUME StInv, [StNext]_stVars
    PROVE  StInv'
<1>1. CASE UNCHANGED stVars
  BY <1>1 DEF stVars, StInv
<1>2. ASSUME NEW r \in StRequests, NEW s \in StShops, NEW p \in StPeople, NEW f \in StForms,
             InviteAsk(r, s, p, f)
      PROVE  StInv'
  BY <1>2, InviteAskKeeps
<1>3. ASSUME NEW r \in StRequests,
             InviteLock(r) \/ InviteCount(r) \/ InviteSeats(r) \/ InviteSave(r) \/ AcceptSave(r)
      PROVE  StInv'
  BY <1>3, InviteLockKeeps, InviteCountKeeps, InviteSeatsKeeps, InviteSaveKeeps, AcceptSaveKeeps
<1>4. ASSUME NEW r \in StRequests, NEW p \in StPeople, NEW i \in DOMAIN invs, AcceptLock(r, p, i)
      PROVE  StInv'
  BY <1>4, AcceptLockKeeps
<1>5. ASSUME NEW r \in StRequests, StAbort(r)
      PROVE  StInv'
  BY <1>5, RequestEnds DEF StAbort
<1>6. ASSUME NEW i \in DOMAIN invs, Revoke(i)
      PROVE  StInv'
  BY <1>6, RevokeKeeps
<1>7. ASSUME NEW s \in StApproved, StApprove(s) \/ OnApproved(s)
      PROVE  StInv'
  BY <1>7 DEF StApprove, OnApproved, StInv
<1>8. CASE StTick
  BY <1>8, StTickKeeps
<1> QED
  BY <1>1, <1>2, <1>3, <1>4, <1>5, <1>6, <1>7, <1>8 DEF StNext

LEMMA StInvInit ==
    ASSUME StInit
    PROVE  StInv
<1>1. invs = << >> /\ team = {} /\ stClock = 1 /\ DOMAIN req = StRequests
      /\ \A r \in StRequests : req[r] = NoRequest
  BY DEF StInit
<1>2. invs \in Seq(InvRows) /\ DOMAIN invs = {}
  BY <1>1
<1>3. IsFiniteSet(team)
  BY <1>1, FS_EmptySet
<1>4. Joined(invs, team)
  BY <1>1, <1>2, <1>3 DEF Joined
<1>6. Bounded(invs)
  BY <1>2 DEF Bounded
<1>7. \A r \in StRequests : Turn(req[r], invs, team, stClock)
  <2>1. Turn(NoRequest, invs, team, stClock)
    BY NoRequestFits
  <2> QED
    BY <1>1, <2>1, Zenon
<1>8. \A r, x \in StRequests : r # x => KeptApart(req[r], req[x], invs)
  <2>1. KeptApart(NoRequest, NoRequest, invs)
    BY NoRequestFits
  <2> QED
    BY <1>1, <2>1, Zenon
<1>9. stClock \in Nat /\ DOMAIN req = StRequests
  BY <1>1
<1> QED
  BY <1>2, <1>4, <1>6, <1>7, <1>8, <1>9 DEF StInv

LEMMA StInvHolds == StSpec => []StInv
<1>1. StInit => StInv
  BY StInvInit
<1>2. StInv /\ [StNext]_stVars => StInv'
  BY StInvNext
<1> QED
  BY <1>1, <1>2, PTL DEF StSpec

\* Where the business stood when a request asked: what its subscription said,
\* once there was one, and there is one for good.
StandingRead(q, sub) ==
    \/ q.standing = SetupStanding
    \/ sub # NoSubscription /\ q.standing = StandingAt(sub, q.created)

SubRead(q) == q.shop \in StShops /\ StandingRead(q, subs[q.shop])

StReads ==
    /\ DOMAIN subs = StShops
    /\ \A s \in StShops : subs[s] = NoSubscription \/ subs[s].plan = "pro"
    /\ \A r \in StRequests : req[r].pc \in Asking => SubRead(req[r])

\* A request goes on with what it read, or ends.
LEMMA RequestsReadOnce ==
    ASSUME StInv, StNext, NEW r \in StRequests, req'[r].pc \in Asking
    PROVE  \/ /\ req[r].pc \in Asking /\ req'[r].shop = req[r].shop
              /\ req'[r].created = req[r].created /\ req'[r].standing = req[r].standing
           \/ /\ UNCHANGED subs /\ req'[r].shop \in StShops
              /\ req'[r].created = stClock /\ req'[r].standing = StandingOf(req'[r].shop)
<1>0. DOMAIN req = StRequests /\ NoRequest.pc = "idle" /\ \A x \in StRequests : req[x] \in StRequestRecords
  BY DEF StInv, Turn, NoRequest
<1>1. ASSUME NEW x \in StRequests, Finish(x)
      PROVE  x # r /\ req'[r] = req[r]
  BY <1>0, <1>1 DEF Finish, Asking, HasShop
<1>2. ASSUME NEW x \in StRequests, NEW pc, req[x].pc \in Asking, req' = [req EXCEPT ![x].pc = pc]
      PROVE  /\ req[r].pc \in Asking /\ req'[r].shop = req[r].shop
             /\ req'[r].created = req[r].created /\ req'[r].standing = req[r].standing
  BY <1>0, <1>2 DEF StRequestRecords
<1>3. ASSUME NEW x \in StRequests, NEW s \in StShops, NEW p \in StPeople, NEW f \in StForms,
             InviteAsk(x, s, p, f), x = r, ~ UNCHANGED req
      PROVE  /\ UNCHANGED subs /\ req'[r].shop = s
             /\ req'[r].created = stClock /\ req'[r].standing = StandingOf(s)
  BY <1>0, <1>3 DEF InviteAsk, NoRequest
<1>4. ASSUME NEW x \in StRequests, NEW s \in StShops, NEW p \in StPeople, NEW f \in StForms,
             InviteAsk(x, s, p, f), x # r \/ UNCHANGED req
      PROVE  req'[r] = req[r]
  BY <1>0, <1>4 DEF InviteAsk
<1>5. ASSUME NEW x \in StRequests, InviteLock(x) \/ InviteCount(x) \/ InviteSeats(x)
      PROVE  /\ req[r].pc \in Asking /\ req'[r].shop = req[r].shop
             /\ req'[r].created = req[r].created /\ req'[r].standing = req[r].standing
  <2>1. req[x].pc \in Asking
    BY <1>5 DEF InviteLock, InviteCount, InviteSeats, Asking, HasShop
  <2>2. Finish(x) \/ \E pc \in {"locked", "counted", "seated"} : req' = [req EXCEPT ![x].pc = pc]
    BY <1>5 DEF InviteLock, InviteCount, InviteSeats
  <2> QED
    BY <1>1, <1>2, <2>1, <2>2
<1>6. ASSUME NEW x \in StRequests, InviteSave(x) \/ AcceptSave(x) \/ StAbort(x)
      PROVE  req'[r] = req[r]
  BY <1>1, <1>6 DEF InviteSave, AcceptSave, StAbort
<1>7. ASSUME NEW x \in StRequests, NEW p \in StPeople, NEW i \in DOMAIN invs, AcceptLock(x, p, i)
      PROVE  req'[r] = req[r]
  <2>1. x = r => req'[r].pc = "accepting"
    BY <1>0, <1>7 DEF AcceptLock, NoRequest
  <2> QED
    BY <1>0, <1>7, <2>1 DEF AcceptLock, Asking, HasShop
<1>8. ASSUME \/ \E i \in DOMAIN invs : Revoke(i)
             \/ \E s \in StApproved : StApprove(s) \/ OnApproved(s)
             \/ StTick
      PROVE  req'[r] = req[r]
  BY <1>8 DEF Revoke, StApprove, OnApproved, StTick
<1> QED
  BY <1>3, <1>4, <1>5, <1>6, <1>7, <1>8 DEF StNext

\* Billing hears of the approval: a subscription that is there stays.
LEMMA SubscriptionsStay ==
    ASSUME StReads, [StNext]_stVars
    PROVE  /\ DOMAIN subs' = StShops
           /\ \A s \in StShops : subs'[s] = NoSubscription \/ subs'[s].plan = "pro"
           /\ \A s \in StShops : subs[s] # NoSubscription => subs'[s] = subs[s]
<1>1. CASE UNCHANGED subs
  BY <1>1 DEF StReads
<1>2. ASSUME NEW s \in StApproved, OnApproved(s)
      PROVE  /\ DOMAIN subs' = StShops
             /\ \A t \in StShops : subs'[t] = NoSubscription \/ subs'[t].plan = "pro"
             /\ \A t \in StShops : subs[t] # NoSubscription => subs'[t] = subs[t]
  BY <1>2 DEF StReads, OnApproved, AddIfAbsent, StartTrial
<1> QED
  BY <1>1, <1>2 DEF StNext, stVars, InviteAsk, InviteLock, InviteCount, InviteSeats, InviteSave,
     AcceptLock, AcceptSave, StAbort, Revoke, StApprove, StTick

LEMMA StReadsHold == StSpec => []StReads
<1>1. StInit => StReads
  BY DEF StInit, StReads, NoRequest, Asking, HasShop
<1>2. StInv /\ StReads /\ [StNext]_stVars => StReads'
  <2> SUFFICES ASSUME StInv, StReads, [StNext]_stVars PROVE StReads'
    OBVIOUS
  <2>1. /\ DOMAIN subs' = StShops
        /\ \A s \in StShops : subs'[s] = NoSubscription \/ subs'[s].plan = "pro"
        /\ \A s \in StShops : subs[s] # NoSubscription => subs'[s] = subs[s]
    BY SubscriptionsStay
  <2>2. ASSUME NEW r \in StRequests, req'[r].pc \in Asking
        PROVE  req'[r].shop \in StShops /\ StandingRead(req'[r], subs'[req'[r].shop])
    <3>1. CASE UNCHANGED stVars
      BY <2>2, <3>1 DEF stVars, StReads, SubRead
    <3>2. CASE /\ req[r].pc \in Asking /\ req'[r].shop = req[r].shop
               /\ req'[r].created = req[r].created /\ req'[r].standing = req[r].standing
      BY <2>1, <3>2 DEF StReads, SubRead, StandingRead
    <3>3. CASE /\ UNCHANGED subs /\ req'[r].shop \in StShops
               /\ req'[r].created = stClock /\ req'[r].standing = StandingOf(req'[r].shop)
      BY <3>3 DEF StandingRead, StandingOf, Standing
    <3> QED
      BY <2>2, <3>1, <3>2, <3>3, RequestsReadOnce
  <2> QED
    BY <2>1, <2>2 DEF StReads, SubRead
<1> QED
  BY <1>1, <1>2, StInvHolds, PTL DEF StSpec

\* The plan a request counts against is the one SeatsThen names.
LEMMA SeatsAreThePlans ==
    ASSUME StReads, NEW r \in StRequests, req[r].pc \in Asking
    PROVE  req[r].standing.plan.MaxStaff = SeatsThen(req[r])
<1> DEFINE q == req[r]
           sub == subs[q.shop]
<1>1. q.shop \in StShops /\ StandingRead(q, sub) /\ (sub = NoSubscription \/ sub.plan = "pro")
  BY DEF StReads, SubRead
<1> HIDE DEF q
<1>2. CASE q.standing = SetupStanding
  BY <1>2 DEF SeatsThen, SetupStanding, PlanByCode, q
<1>3. CASE sub # NoSubscription /\ q.standing = StandingAt(sub, q.created)
  BY <1>1, <1>3 DEF SeatsThen, StandingAt, PlanByCode, q
<1> QED
  BY <1>1, <1>2, <1>3 DEF StandingRead

LEMMA SeatsStep ==
    ASSUME StInv, StReads, [StNext]_stVars
    PROVE  SeatsWithinPlan
<1> SUFFICES ASSUME NEW r \in StRequests, NEW s \in StShops, req[r].pc = "seated",
                    req[r].shop = s, req'[r] # req[r], invs' # invs
             PROVE  CountStaffSeats(invs, s, stClock)'
                       <= SeatsThen(req[r]) + Cardinality({m \in team : m.shop = s /\ m.late})'
  BY DEF SeatsWithinPlan
<1>0. DOMAIN req = StRequests
  BY DEF StInv
<1>1. InviteSave(r)
  <2>1. StNext
    BY DEF stVars
  <2>2. \A x \in StRequests : ~ AcceptSave(x)
    <3>1. ASSUME NEW x \in StRequests, AcceptSave(x)
          PROVE  x # r /\ req'[r] = req[r]
      BY <1>0, <3>1 DEF AcceptSave, Finish
    <3> QED
      BY <3>1
  <2>3. \A x \in StRequests : InviteSave(x) => x = r
    BY <1>0 DEF InviteSave, Finish
  <2>4. \A i \in DOMAIN invs : ~ Revoke(i)
    BY DEF Revoke
  <2>5. ~ StTick /\ \A x \in StApproved : ~ StApprove(x) /\ ~ OnApproved(x)
    BY DEF StTick, StApprove, OnApproved
  <2>6. \A x \in StRequests :
            /\ ~ InviteLock(x) /\ ~ InviteCount(x) /\ ~ InviteSeats(x) /\ ~ StAbort(x)
            /\ \A t \in StShops, p \in StPeople, f \in StForms : ~ InviteAsk(x, t, p, f)
            /\ \A p \in StPeople, i \in DOMAIN invs : ~ AcceptLock(x, p, i)
    BY DEF InviteLock, InviteCount, InviteSeats, StAbort, InviteAsk, AcceptLock
  <2> QED
    BY <2>1, <2>2, <2>3, <2>4, <2>5, <2>6 DEF StNext
<1>2. FitsPlan(invs', team', s, stClock', req[r].standing.plan.MaxStaff)
  BY <1>1, InviteSaveKeeps
<1>3. req[r].standing.plan.MaxStaff = SeatsThen(req[r])
  BY SeatsAreThePlans DEF Asking, HasShop
<1> QED
  BY <1>2, <1>3 DEF FitsPlan, CountStaffSeats, CrewOf, OpenFor, LateOf

LEMMA StInvMeans ==
    ASSUME StInv
    PROVE  InvitesBounded
BY BoundedIsBounded DEF StInv

\* No phone is sent, and no business sends, more invitations in any window than
\* AllowInvite allows, although requests commit in another order than they
\* read the clock.
THEOREM InvitesAreLimited == StSpec => []InvitesBounded
<1>1. StInv => InvitesBounded
  BY StInvMeans
<1> QED
  BY <1>1, StInvHolds, PTL

\* An invitation that is no longer pending is not touched again.
LEMMA StClosedStep ==
    ASSUME StInv, [StNext]_stVars
    PROVE  ClosedForGood
<1>1. {m.inv : m \in team'} = {i \in DOMAIN invs' : invs'[i].status = "accepted"}
  <2>1. StInv'
    BY StInvNext
  <2> QED
    BY <2>1 DEF StInv, Joined
<1>2. ASSUME NEW i \in DOMAIN invs, invs[i].status # "pending"
      PROVE  invs'[i] = invs[i]
  <2>1. CASE UNCHANGED invs
    BY <2>1
  <2>2. ASSUME NEW j \in DOMAIN invs, NEW st, invs[j].status = "pending",
               invs' = [invs EXCEPT ![j].status = st]
        PROVE  invs'[i] = invs[i]
    <3>1. i # j
      BY <1>2, <2>2
    <3> QED
      BY <2>2, <3>1 DEF StInv
  <2>3. ASSUME NEW r \in StRequests, InviteSave(r)
        PROVE  invs'[i] = invs[i]
    <3> DEFINE mid == RevokeOlder(req[r].shop, req[r].person)
    <3>1. PICK row : invs' = Append(mid, row)
      BY <2>3 DEF InviteSave
    <3>2. mid \in Seq(InvRows) /\ mid[i] = invs[i] /\ DOMAIN mid = DOMAIN invs
      BY <1>2, RevokeOlderIs DEF SameKeys
    <3> HIDE DEF mid
    <3>3. i \in 1 .. Len(mid)
      BY <3>2
    <3> QED
      BY <3>1, <3>2, <3>3
  <2>4. ASSUME NEW r \in StRequests, AcceptSave(r)
        PROVE  invs'[i] = invs[i]
    <3>1. CASE invs' = invs
      BY <3>1
    <3>2. CASE invs' = [invs EXCEPT ![req[r].inv].status = "accepted"]
      <4>1. req[r].inv \in DOMAIN invs /\ invs[req[r].inv].status = "pending"
        BY <2>4 DEF AcceptSave, StInv, Turn
      <4> QED
        BY <2>2, <3>2, <4>1
    <3> QED
      BY <2>4, <3>1, <3>2 DEF AcceptSave
  <2>5. ASSUME NEW j \in DOMAIN invs, Revoke(j)
        PROVE  invs'[i] = invs[i]
    BY <2>2, <2>5 DEF Revoke
  <2>6. CASE UNCHANGED stVars
    BY <2>6 DEF stVars
  <2>7. ASSUME NEW r \in StRequests,
               \/ \E s \in StShops, p \in StPeople, f \in StForms : InviteAsk(r, s, p, f)
               \/ InviteLock(r) \/ InviteCount(r) \/ InviteSeats(r) \/ StAbort(r)
               \/ \E p \in StPeople, j \in DOMAIN invs : AcceptLock(r, p, j)
        PROVE  UNCHANGED invs
    BY <2>7 DEF InviteAsk, InviteLock, InviteCount, InviteSeats, StAbort, AcceptLock
  <2>8. ASSUME StTick \/ \E s \in StApproved : StApprove(s) \/ OnApproved(s)
        PROVE  UNCHANGED invs
    BY <2>8 DEF StTick, StApprove, OnApproved
  <2> QED
    BY <2>1, <2>3, <2>4, <2>5, <2>6, <2>7, <2>8 DEF StNext
<1> QED
  BY <1>1, <1>2 DEF ClosedForGood

\* An invitation is accepted once, by one member, or revoked, and stays so
\* (business/adapters/postgres/invitations.go).
THEOREM InvitationsStayClosed == StSpec => [][ClosedForGood]_stVars
<1>1. StInv /\ [StNext]_stVars => ClosedForGood
  BY StClosedStep
<1> QED
  BY <1>1, StInvHolds, PTL DEF StSpec

-----------------------------------------------------------------------------
(***************************************************************************)
(* Branches.  A request holds no lock between its reads, so it relies only *)
(* on what cannot be undone: a subscription stays, and versions only grow. *)
(***************************************************************************)
BrPages == {"page", "status", "performers", "ready"}

BrStatuses == {"none", "draft", "published", "unpublished"}

\* What a request to create a branch carries: a profile, and a policy that
\* NewBookingPolicy accepted.
BrCreations == [profile: BrProfiles, policy: {q \in BrPolicies : PolicyAccepted(q)}]

BrSubjects == BrIds \cup {"none"} \cup BrCreations

BrUsers == {m.user : m \in BrStaff} \cup {"nobody"}

RowProfiles == BrProfiles \cup {[zone |-> "none"]}

RowPolicies == {toBranchRow(q) : q \in BrPolicies} \cup {<< >>}

BrTeams == SUBSET BrBarbers

BrZones == {p.zone : p \in BrProfiles}

BrRows == [status: BrStatuses, version: Nat, profile: RowProfiles, policy: RowPolicies]

BrCalls == [pc: {"idle", "create", "add"} \cup BrPages, user: BrUsers, branch: BrSubjects,
            version: Nat, created: Nat, standing: StStandings,
            was: {"none", "pending_review", "active"},
            performers: BrTeams, open: BOOLEAN, barber: BOOLEAN]

BrTellings == [type: {"updated", "published", "unpublished"}, branch: BrIds,
               version: Nat, status: BrStatuses, zone: BrZones]

BrTypes ==
    /\ brClock \in Nat
    /\ rows \in [BrIds -> BrRows]
    /\ brReq \in [BrRequests -> BrCalls]
    /\ facts \in [performers: BrTeams, scheduled: BrTeams, open: BOOLEAN, n: Nat]
    /\ brEvents \in Seq(BrTellings)

\* A page is about a branch that is there; a creation carries its form.
BrFits ==
    /\ \A r \in BrRequests :
          /\ brReq[r].pc \in BrPages =>
                /\ brReq[r].branch \in BrIds
                /\ rows[brReq[r].branch].version > 0
          /\ brReq[r].pc \in {"create", "add"} => brReq[r].branch \in BrCreations
    /\ \A b \in BrIds :
          \/ rows[b] = NoBranch
          \/ /\ rows[b].version > 0 /\ rows[b].status # "none"
             /\ rows[b].profile \in BrProfiles

BrCreating == {"create", "add"}

\* A creation goes by what the subscription said when it asked.
BrReads ==
    /\ brSub = NoSubscription \/ brSub.plan = "pro"
    /\ \A r \in BrRequests : brReq[r].pc \in BrCreating => StandingRead(brReq[r], brSub)

LEMMA BrConstants ==
    /\ NoBranch \in BrRows /\ NoBrRequest \in BrCalls
    /\ {} \in BrTeams
    /\ BrIds \subseteq BrSubjects /\ BrCreations \subseteq BrSubjects
    /\ \A m \in BrStaff : m.user \in BrUsers
    /\ BrProfiles \subseteq RowProfiles
    /\ \A q \in BrPolicies : toBranchRow(q) \in RowPolicies
    /\ \A p \in BrProfiles : p.zone \in BrZones
<1>1. "none" \in BrSubjects /\ "nobody" \in BrUsers /\ {} \in BrTeams
  BY DEF BrSubjects, BrUsers, BrTeams
<1>2. [zone |-> "none"] \in RowProfiles /\ << >> \in RowPolicies
  BY DEF RowProfiles, RowPolicies
<1>3. NoBranch \in BrRows
  BY <1>2 DEF NoBranch, BrRows, BrStatuses
<1>a. SetupStanding \in StStandings
  BY DEF SetupStanding, StStandings, StPlans
<1>4. NoBrRequest \in BrCalls
  BY <1>1, <1>a DEF NoBrRequest, BrCalls
<1> QED
  BY <1>1, <1>3, <1>4 DEF BrSubjects, BrUsers, RowProfiles, RowPolicies, BrZones

LEMMA BrInitTypes == BrInit => BrTypes /\ BrFits /\ BrReads
<1> SUFFICES ASSUME BrInit PROVE BrTypes /\ BrFits /\ BrReads
  OBVIOUS
<1>1. BrTypes
  BY BrConstants DEF BrInit, BrTypes
<1>2. BrFits
  BY DEF BrInit, BrFits, NoBrRequest, BrPages
<1>3. BrReads
  BY DEF BrInit, BrReads, NoBrRequest, BrCreating
<1> QED
  BY <1>1, <1>2, <1>3


\* Steps that leave the branches and the events alone: a request begins, goes
\* on or is over.
BrGoesOn(r, call) ==
    /\ call \in BrCalls
    /\ call.pc \in BrPages => call.branch \in BrIds /\ rows[call.branch].version > 0
    /\ call.pc \in {"create", "add"} => call.branch \in BrCreations
    /\ call.pc \in BrCreating =>
          \/ /\ brReq[r].pc \in BrCreating
             /\ call.created = brReq[r].created /\ call.standing = brReq[r].standing
          \/ call.created = brClock /\ call.standing = Standing(brSub, brClock)
    /\ call.pc = "add" => ~ Adding /\ CountBranches < call.standing.plan.MaxBranches
    /\ brReq' = [brReq EXCEPT ![r] = call]
    /\ UNCHANGED <<brPlan, rows, facts, brEvents>>

\* Steps that save a branch, with the event of it.
BrSavedAs(r, row) ==
    /\ brReq[r].pc \in BrPages
    /\ brReq[r].branch \in BrIds /\ rows[brReq[r].branch].version > 0
    /\ row \in BrRows
    /\ row.version = rows[brReq[r].branch].version + 1
    /\ row.profile \in BrProfiles /\ row.status # "none"
    /\ \/ row.policy = rows[brReq[r].branch].policy
       \/ \E q \in BrPolicies : PolicyAccepted(q) /\ row.policy = toBranchRow(q)
    /\ rows[brReq[r].branch].version = brReq[r].version
    /\ row.profile.zone # rows[brReq[r].branch].profile.zone =>
          Member(brReq[r].user).role = "owner"
    /\ rows' = [rows EXCEPT ![brReq[r].branch] = row]
    /\ \E type \in {"updated", "published", "unpublished"} :
          brEvents' = Append(brEvents,
              [type |-> type, branch |-> brReq[r].branch, version |-> row.version,
               status |-> row.status, zone |-> row.profile.zone])
    /\ brReq' = [brReq EXCEPT ![r] = NoBrRequest]
    /\ UNCHANGED <<brPlan, facts>>

\* The step that inserts a branch.
BrInserted(r, b, row) ==
    /\ brReq[r].pc = "add" /\ rows[b] = NoBranch
    /\ row \in BrRows
    /\ row.version = 1 /\ row.status = "draft" /\ row.profile \in BrProfiles
    /\ \E q \in BrPolicies : PolicyAccepted(q) /\ row.policy = toBranchRow(q)
    /\ rows' = [rows EXCEPT ![b] = row]
    /\ brReq' = [brReq EXCEPT ![r] = NoBrRequest]
    /\ UNCHANGED <<brPlan, facts, brEvents>>

LEMMA BrCreateAsk ==
    ASSUME BrTypes, BrReads, NEW r \in BrRequests, NEW m \in BrStaff, NEW p \in BrProfiles,
           NEW q \in BrPolicies, CreateAsk(r, m.user, p, q)
    PROVE  \E call : BrGoesOn(r, call)
<1> DEFINE user == m.user
           form == [profile |-> p, policy |-> q]
           found == Standing(brSub, brClock)
           call == [NoBrRequest EXCEPT !.pc = "create", !.user = user, !.branch = form,
                                       !.created = brClock, !.standing = found]
<1>1. form \in BrSubjects /\ user \in BrUsers /\ form \in BrCreations
  BY BrConstants DEF CreateAsk, BrCreations
<1>2. brReq' = [brReq EXCEPT ![r] = call] /\ UNCHANGED <<brPlan, rows, facts, brEvents>>
  BY DEF CreateAsk
<1>a. found \in StStandings /\ brClock \in Nat
  BY DEF BrTypes, BrReads, Standing, StandingAt, SetupStanding, PlanByCode, StPlans, StStandings
<1> HIDE DEF user, form, found
<1>3. /\ call \in BrCalls /\ call.pc = "create" /\ call.branch = form
      /\ call.created = brClock /\ call.standing = found
  BY <1>1, <1>a, BrConstants DEF BrCalls, NoBrRequest
<1> HIDE DEF call
<1>4. BrGoesOn(r, call)
  BY <1>1, <1>2, <1>3 DEF BrGoesOn, BrPages, found
<1> QED
  BY <1>4

LEMMA BrGetBranch ==
    ASSUME BrTypes, BrFits, NEW r \in BrRequests, NEW m \in BrStaff, NEW b \in BrIds,
           GetBranch(r, m.user, b)
    PROVE  \E call : BrGoesOn(r, call)
<1> DEFINE user == m.user
           v == rows[b].version
           call == [NoBrRequest EXCEPT !.pc = "page", !.user = user, !.branch = b, !.version = v]
<1>1. user \in BrUsers /\ v \in Nat /\ b \in BrSubjects /\ rows[b].version > 0
  BY BrConstants DEF BrTypes, BrRows, GetBranch, BrFits
<1>2. brReq' = [brReq EXCEPT ![r] = call] /\ UNCHANGED <<brPlan, rows, facts, brEvents>>
  BY DEF GetBranch
<1> HIDE DEF user, v
<1>3. call \in BrCalls /\ call.pc = "page" /\ call.branch = b
  BY <1>1, BrConstants DEF BrCalls, BrPages, NoBrRequest
<1> HIDE DEF call
<1>4. BrGoesOn(r, call)
  BY <1>1, <1>2, <1>3 DEF BrGoesOn, BrPages, BrCreating
<1> QED
  BY <1>4

LEMMA BrOver ==
    ASSUME BrTypes, NEW r \in BrRequests, BrDone(r), UNCHANGED <<brPlan, rows, facts, brEvents>>
    PROVE  \E call : BrGoesOn(r, call)
<1>1. NoBrRequest.pc = "idle"
  BY DEF NoBrRequest
<1>2. BrGoesOn(r, NoBrRequest)
  BY <1>1, BrConstants DEF BrGoesOn, BrDone, BrPages, BrCreating
<1> QED
  BY <1>2

LEMMA BrAddCount ==
    ASSUME BrTypes, BrFits, NEW r \in BrRequests, AddCount(r)
    PROVE  \E call : BrGoesOn(r, call)
<1> DEFINE call == [brReq[r] EXCEPT !.pc = "add"]
<1>1. /\ call \in BrCalls /\ call.pc = "add" /\ call.branch = brReq[r].branch
      /\ call.created = brReq[r].created /\ call.standing = brReq[r].standing
  BY DEF BrTypes, BrCalls
<1>3. CASE AllowBranch(brReq[r].standing.plan, CountBranches)
  <2>1. brReq' = [brReq EXCEPT ![r] = call] /\ UNCHANGED <<brPlan, rows, facts, brEvents>>
    BY <1>3 DEF AddCount, BrTypes
  <2>2. /\ brReq[r].branch \in BrCreations /\ ~ Adding /\ brReq[r].pc \in BrCreating
        /\ CountBranches < brReq[r].standing.plan.MaxBranches
    BY <1>3 DEF AddCount, BrFits, AllowBranch, BrCreating
  <2> HIDE DEF call
  <2>3. BrGoesOn(r, call)
    BY <1>1, <2>1, <2>2 DEF BrGoesOn, BrPages
  <2> QED
    BY <2>3
<1>4. CASE ~ AllowBranch(brReq[r].standing.plan, CountBranches)
  BY <1>4, BrOver DEF AddCount
<1> QED
  BY <1>3, <1>4

LEMMA BrPublishing ==
    ASSUME BrTypes, BrFits, NEW r \in BrRequests,
           PublishStatus(r) \/ PublishPerformers(r) \/ PublishReadiness(r)
    PROVE  \E call : BrGoesOn(r, call)
<1> DEFINE some == brReq[r].performers \cap facts.scheduled # {}
           c1 == [brReq[r] EXCEPT !.pc = "status", !.was = BrStatus]
           c2 == [brReq[r] EXCEPT !.pc = "performers", !.performers = facts.performers]
           c3 == [brReq[r] EXCEPT !.pc = "ready", !.open = facts.open, !.barber = some]
<1>1. some \in BOOLEAN /\ BrStatus \in {"pending_review", "active"}
  BY DEF BrStatus
<1>2. PublishReadiness(r) => brReq' = [brReq EXCEPT ![r] = c3]
  BY DEF PublishReadiness, BrTypes
<1> HIDE DEF some
<1>3. /\ c1 \in BrCalls /\ c1.pc = "status" /\ c1.branch = brReq[r].branch
      /\ c2 \in BrCalls /\ c2.pc = "performers" /\ c2.branch = brReq[r].branch
      /\ c3 \in BrCalls /\ c3.pc = "ready" /\ c3.branch = brReq[r].branch
  BY <1>1 DEF BrTypes, BrCalls, BrPages
<1>4. /\ PublishStatus(r) => brReq' = [brReq EXCEPT ![r] = c1]
      /\ PublishPerformers(r) => brReq' = [brReq EXCEPT ![r] = c2]
  BY DEF PublishStatus, PublishPerformers, BrTypes
<1>5. /\ UNCHANGED <<brPlan, rows, facts, brEvents>>
      /\ brReq[r].branch \in BrIds /\ rows[brReq[r].branch].version > 0
  BY DEF PublishStatus, PublishPerformers, PublishReadiness, BrFits, BrPages
<1> HIDE DEF c1, c2, c3
<1>6. CASE PublishStatus(r)
  BY <1>3, <1>4, <1>5, <1>6 DEF BrGoesOn, BrPages, BrCreating
<1>7. CASE PublishPerformers(r)
  BY <1>3, <1>4, <1>5, <1>7 DEF BrGoesOn, BrPages, BrCreating
<1>8. CASE PublishReadiness(r)
  BY <1>3, <1>2, <1>5, <1>8 DEF BrGoesOn, BrPages, BrCreating
<1> QED
  BY <1>6, <1>7, <1>8

LEMMA BrAddInsert ==
    ASSUME BrTypes, BrFits, NEW r \in BrRequests, NEW b \in BrIds, AddInsert(r, b)
    PROVE  \E row : BrInserted(r, b, row)
<1> DEFINE p == brReq[r].branch.profile
           q == toBranchRow(brReq[r].branch.policy)
           row == [status |-> "draft", version |-> 1, profile |-> p, policy |-> q]
<1>1. /\ p \in BrProfiles /\ p \in RowProfiles /\ q \in RowPolicies
      /\ \E x \in BrPolicies : PolicyAccepted(x) /\ q = toBranchRow(x)
  BY BrConstants DEF AddInsert, BrFits, BrCreations
<1>2. /\ rows' = [rows EXCEPT ![b] = row] /\ brReq' = [brReq EXCEPT ![r] = NoBrRequest]
      /\ brReq[r].pc = "add" /\ rows[b] = NoBranch
      /\ UNCHANGED <<brPlan, facts, brEvents>>
  BY DEF AddInsert, BrDone
<1> HIDE DEF p, q
<1>3. row \in BrRows /\ row.version = 1 /\ row.status = "draft" /\ row.profile = p /\ row.policy = q
  BY <1>1 DEF BrRows, BrStatuses
<1> HIDE DEF row
<1>4. BrInserted(r, b, row)
  BY <1>1, <1>2, <1>3 DEF BrInserted
<1> QED
  BY <1>4

LEMMA BrSaves ==
    ASSUME BrTypes, BrFits, NEW r \in BrRequests, brReq[r].pc \in BrPages,
           NEW type \in {"updated", "published", "unpublished"}, NEW row \in BrRows,
           row.version = rows[brReq[r].branch].version,
           row.profile \in BrProfiles, row.status # "none",
           \/ row.policy = rows[brReq[r].branch].policy
           \/ \E q \in BrPolicies : PolicyAccepted(q) /\ row.policy = toBranchRow(q),
           rows[brReq[r].branch].version = brReq[r].version,
           row.profile.zone # rows[brReq[r].branch].profile.zone =>
               Member(brReq[r].user).role = "owner",
           SaveBranch(r, type, row)
    PROVE  \E next : BrSavedAs(r, next)
<1> DEFINE b == brReq[r].branch
           next == [row EXCEPT !.version = row.version + 1]
<1>1. b \in BrIds /\ rows[b].version > 0
  BY DEF BrFits
<1>2. /\ next \in BrRows /\ next.version = row.version + 1 /\ next.profile = row.profile
      /\ next.status = row.status /\ next.policy = row.policy
  BY DEF BrRows
<1>3. /\ rows' = [rows EXCEPT ![b] = next]
      /\ brEvents' = Append(brEvents, [type |-> type, branch |-> b, version |-> next.version,
                                       status |-> next.status, zone |-> next.profile.zone])
      /\ brReq' = [brReq EXCEPT ![r] = NoBrRequest] /\ UNCHANGED <<brPlan, facts>>
  BY DEF SaveBranch, BrDone
<1> HIDE DEF next
<1>4. BrSavedAs(r, next)
  BY <1>1, <1>2, <1>3 DEF BrSavedAs
<1> QED
  BY <1>4

LEMMA BrEdits ==
    ASSUME BrTypes, BrFits, NEW r \in BrRequests, NEW p \in BrProfiles, NEW q \in BrPolicies,
           EditBranch(r, p, q)
    PROVE  \E next : BrSavedAs(r, next)
<1> DEFINE b == brReq[r].branch
           po == toBranchRow(q)
           row == [rows[b] EXCEPT !.profile = p, !.policy = po]
<1>1. b \in BrIds /\ brReq[r].pc \in BrPages /\ PolicyAccepted(q) /\ rows[b].status # "none"
  BY DEF EditBranch, BrFits, BrPages, NoBranch
<1>2. rows[b] \in BrRows /\ po \in RowPolicies /\ p \in RowProfiles
  BY <1>1, BrConstants DEF BrTypes
<1>3. /\ SaveBranch(r, "updated", row) /\ rows[b].version = brReq[r].version
      /\ p.zone # rows[b].profile.zone => Member(brReq[r].user).role = "owner"
  BY DEF EditBranch, BranchIsAsSeen, MayEdit
<1>a. \E x \in BrPolicies : PolicyAccepted(x) /\ po = toBranchRow(x)
  BY <1>1
<1> HIDE DEF b, po
<1>4. /\ row \in BrRows /\ row.profile = p /\ row.version = rows[b].version
      /\ row.status = rows[b].status /\ row.policy = po
  BY <1>2 DEF BrRows
<1> HIDE DEF row
<1> QED
  BY BrSaves, <1>1, <1>3, <1>4, <1>a DEF b

LEMMA BrPublishes ==
    ASSUME BrTypes, BrFits, NEW r \in BrRequests, PublishSave(r) \/ Unpublish(r)
    PROVE  \E next : BrSavedAs(r, next)
<1> DEFINE b == brReq[r].branch
<1>1. b \in BrIds /\ brReq[r].pc \in BrPages /\ rows[b].profile \in BrProfiles
  BY DEF PublishSave, Unpublish, BrFits, BrPages, NoBranch
<1>2. rows[b] \in BrRows
  BY <1>1 DEF BrTypes
<1>3. PICK st \in {"published", "unpublished"} :
          /\ SaveBranch(r, st, [rows[b] EXCEPT !.status = st])
          /\ rows[b].version = brReq[r].version
  BY DEF PublishSave, Unpublish, BranchIsAsSeen
<1> DEFINE row == [rows[b] EXCEPT !.status = st]
<1> HIDE DEF b
<1>4. /\ row \in BrRows /\ row.profile = rows[b].profile /\ row.version = rows[b].version
      /\ row.status = st /\ row.policy = rows[b].policy
  BY <1>2 DEF BrRows, BrStatuses
<1>5. SaveBranch(r, st, row)
  BY <1>3
<1> HIDE DEF row
<1> QED
  BY BrSaves, <1>1, <1>3, <1>4, <1>5 DEF b

\* Every step is of one of these kinds.
LEMMA BrSteps ==
    ASSUME BrTypes, BrFits, BrReads, BrNext
    PROVE  \/ \E r \in BrRequests : \E call : BrGoesOn(r, call)
           \/ \E r \in BrRequests, b \in BrIds : \E row : BrInserted(r, b, row)
           \/ \E r \in BrRequests : \E row : BrSavedAs(r, row)
           \/ BrApprove \/ BrOnApproved \/ BrTick \/ BrFacts
<1>1. ASSUME NEW r \in BrRequests, BrAbort(r) PROVE \E call : BrGoesOn(r, call)
  BY <1>1, BrOver DEF BrAbort
<1> QED
  BY <1>1, BrCreateAsk, BrGetBranch, BrAddCount, BrPublishing, BrAddInsert, BrEdits, BrPublishes
     DEF BrNext

-----------------------------------------------------------------------------
BrTaken(t) == {b \in BrIds : t[b].version > 0}

\* One request at a time is between its count and its insert, and the count
\* it made still holds.
BrCounted ==
    /\ \A r \in BrRequests :
          brReq[r].pc = "add" => CountBranches < brReq[r].standing.plan.MaxBranches
    /\ \A r, x \in BrRequests : brReq[r].pc = "add" /\ brReq[x].pc = "add" => r = x

\* The events of a branch: its versions but the first, each once and in order.
BrTold ==
    \A b \in BrIds :
        /\ \A n \in DOMAIN brEvents : brEvents[n].branch = b => brEvents[n].version \in 2 .. rows[b].version
        /\ \A v \in 2 .. rows[b].version :
              \E n \in DOMAIN brEvents : brEvents[n].branch = b /\ brEvents[n].version = v
        /\ \A m, n \in DOMAIN brEvents :
              brEvents[m].branch = b /\ brEvents[n].branch = b /\ m < n
                  => brEvents[m].version < brEvents[n].version
        /\ \A n \in DOMAIN brEvents :
              brEvents[n].branch = b /\ brEvents[n].version = rows[b].version
                  => /\ brEvents[n].status = rows[b].status
                     /\ brEvents[n].zone = rows[b].profile.zone

\* A branch has a policy that NewBookingPolicy accepted, as toBranchRow
\* writes it.
BrKept ==
    \A b \in BrIds :
        rows[b].version > 0 =>
            \E q \in BrPolicies : PolicyAccepted(q) /\ rows[b].policy = toBranchRow(q)

BrInv == BrTypes /\ BrFits /\ BrReads /\ BrCounted /\ BrTold /\ BrKept

LEMMA BrInitially == BrInit => BrInv
<1> SUFFICES ASSUME BrInit PROVE BrInv
  OBVIOUS
<1>1. BrTypes /\ BrFits /\ BrReads
  BY BrInitTypes
<1>4. \A r \in BrRequests : brReq[r].pc = "idle"
  BY DEF BrInit, NoBrRequest
<1>5. BrCounted
  BY <1>4 DEF BrCounted
<1>6. \A b \in BrIds : rows[b].version = 0
  BY DEF BrInit, NoBranch
<1>7. BrTold
  BY <1>6 DEF BrInit, BrTold
<1>8. BrKept
  BY <1>6 DEF BrKept
<1> QED
  BY <1>1, <1>5, <1>7, <1>8 DEF BrInv

LEMMA BrGoesOnInv ==
    ASSUME BrInv, NEW r \in BrRequests, NEW call, BrGoesOn(r, call)
    PROVE  BrInv'
<1>1. BrTypes'
  BY DEF BrInv, BrTypes, BrGoesOn, brPlan
<1>2. BrFits'
  BY DEF BrInv, BrTypes, BrFits, BrGoesOn
<1>3. BrReads'
  BY DEF BrInv, BrTypes, BrReads, BrGoesOn, StandingRead, Standing, brPlan
<1>4. CountBranches' = CountBranches
  BY DEF CountBranches, BrGoesOn
<1>5. BrCounted'
  BY <1>4 DEF BrInv, BrTypes, BrCounted, BrGoesOn, Adding
<1>6. BrTold' /\ BrKept'
  BY DEF BrInv, BrTold, BrKept, BrGoesOn
<1> QED
  BY <1>1, <1>2, <1>3, <1>5, <1>6 DEF BrInv

LEMMA BrOthersInv ==
    ASSUME BrInv, BrApprove \/ BrOnApproved \/ BrTick \/ BrFacts
    PROVE  BrInv'
<1>1. BrTypes'
  BY DEF BrInv, BrTypes, BrApprove, BrOnApproved, BrTick, BrFacts, BrTeams, brPlan
<1>2. rows' = rows /\ brReq' = brReq /\ brEvents' = brEvents
  BY DEF BrApprove, BrOnApproved, BrTick, BrFacts
<1>3. BrFits' /\ BrTold' /\ BrKept'
  BY <1>2 DEF BrInv, BrFits, BrTold, BrKept
<1>4. BrReads'
  <2>1. UNCHANGED brSub \/ (brSub = NoSubscription /\ brSub'.plan = "pro")
    BY DEF BrApprove, BrOnApproved, BrTick, BrFacts, brPlan, AddIfAbsent, StartTrial
  <2> QED
    BY <1>2, <2>1 DEF BrInv, BrReads, StandingRead
<1>5. BrCounted'
  BY <1>2 DEF BrInv, BrCounted, CountBranches
<1> QED
  BY <1>1, <1>3, <1>4, <1>5 DEF BrInv

LEMMA BrInsertedInv ==
    ASSUME BrInv, NEW r \in BrRequests, NEW b \in BrIds, NEW row, BrInserted(r, b, row)
    PROVE  BrInv'
<1>1. BrTypes'
  BY BrConstants DEF BrInv, BrTypes, BrInserted, brPlan
<1>2. NoBrRequest.pc = "idle"
  BY DEF NoBrRequest
<1>3. BrFits'
  BY <1>2 DEF BrInv, BrTypes, BrFits, BrInserted, BrPages, NoBranch
<1>4. BrReads'
  BY <1>2 DEF BrInv, BrTypes, BrReads, BrInserted, BrCreating, brPlan
<1>8. BrCounted'
  BY <1>2 DEF BrInv, BrTypes, BrCounted, BrInserted
<1>9. rows[b].version = 0
  BY DEF BrInserted, NoBranch
<1>10. BrTold'
  BY <1>9 DEF BrInv, BrTypes, BrTold, BrInserted
<1>11. BrKept'
  BY DEF BrInv, BrTypes, BrKept, BrInserted
<1> QED
  BY <1>1, <1>3, <1>4, <1>8, <1>10, <1>11 DEF BrInv

LEMMA BrSavedInv ==
    ASSUME BrInv, NEW r \in BrRequests, NEW row, BrSavedAs(r, row)
    PROVE  BrInv'
<1> DEFINE b == brReq[r].branch
           z == row.profile.zone
           v == rows[b].version
<1>1. PICK type \in {"updated", "published", "unpublished"} :
          brEvents' = Append(brEvents, [type |-> type, branch |-> b, version |-> row.version,
                                        status |-> row.status, zone |-> z])
  BY DEF BrSavedAs
<1> DEFINE e == [type |-> type, branch |-> b, version |-> row.version,
                 status |-> row.status, zone |-> z]
<1>2. /\ b \in BrIds /\ v \in Nat /\ v > 0 /\ row.version = v + 1 /\ row \in BrRows
      /\ row.version \in Nat /\ row.status \in BrStatuses /\ z \in BrZones
  BY BrConstants DEF BrSavedAs, BrInv, BrTypes, BrRows
<1>3. /\ rows' = [rows EXCEPT ![b] = row] /\ brReq' = [brReq EXCEPT ![r] = NoBrRequest]
      /\ UNCHANGED <<brPlan, facts>>
  BY DEF BrSavedAs
<1>4. e \in BrTellings /\ brEvents' = Append(brEvents, e)
  BY <1>1, <1>2 DEF BrTellings
<1>5. /\ e.branch = b /\ e.version = v + 1 /\ e.status = row.status /\ e.zone = z
  BY <1>2
<1> HIDE DEF e, z
<1>6. BrTypes'
  BY <1>2, <1>3, <1>4, BrConstants DEF BrInv, BrTypes, brPlan
<1>7. NoBrRequest.pc = "idle"
  BY DEF NoBrRequest
<1>8. BrFits'
  BY <1>2, <1>3, <1>7 DEF BrInv, BrTypes, BrFits, BrSavedAs, BrPages
<1>9. BrReads'
  BY <1>3, <1>7 DEF BrInv, BrTypes, BrReads, BrCreating, brPlan
<1>10. BrTaken(rows') = BrTaken(rows)
  BY <1>2, <1>3 DEF BrInv, BrTypes, BrTaken
<1>11. CountBranches' = CountBranches
  BY <1>10 DEF CountBranches, BrTaken
<1>12. BrCounted'
  BY <1>3, <1>7, <1>11 DEF BrInv, BrTypes, BrCounted
<1>13. BrKept'
  BY <1>2, <1>3 DEF BrInv, BrTypes, BrKept, BrSavedAs
<1>14. /\ brEvents \in Seq(BrTellings) /\ Len(brEvents) \in Nat
       /\ DOMAIN brEvents = 1 .. Len(brEvents)
       /\ DOMAIN brEvents' = 1 .. Len(brEvents) + 1
       /\ \A n \in 1 .. Len(brEvents) : brEvents'[n] = brEvents[n]
       /\ brEvents'[Len(brEvents) + 1] = e
  BY <1>4 DEF BrInv, BrTypes
<1>15. ASSUME NEW x \in BrIds, x # b
       PROVE  /\ rows'[x] = rows[x]
              /\ \A n \in DOMAIN brEvents' : brEvents'[n].branch = x =>
                    n \in DOMAIN brEvents /\ brEvents'[n] = brEvents[n]
              /\ \A n \in DOMAIN brEvents : n \in DOMAIN brEvents' /\ brEvents'[n] = brEvents[n]
  BY <1>2, <1>3, <1>5, <1>14, <1>15 DEF BrInv, BrTypes
<1>16. /\ \A n \in DOMAIN brEvents : n \in DOMAIN brEvents' /\ brEvents'[n] = brEvents[n] /\ n < Len(brEvents) + 1
       /\ \A n \in DOMAIN brEvents' : n \in DOMAIN brEvents \/ n = Len(brEvents) + 1
       /\ Len(brEvents) + 1 \in DOMAIN brEvents'
       /\ rows'[b] = row
  BY <1>2, <1>3, <1>14 DEF BrInv, BrTypes
<1>17. BrTold
  BY DEF BrInv
<1>18. ASSUME NEW x \in BrIds
       PROVE  /\ \A n \in DOMAIN brEvents' : brEvents'[n].branch = x => brEvents'[n].version \in 2 .. rows'[x].version
              /\ \A u \in 2 .. rows'[x].version :
                    \E n \in DOMAIN brEvents' : brEvents'[n].branch = x /\ brEvents'[n].version = u
              /\ \A m, n \in DOMAIN brEvents' :
                    brEvents'[m].branch = x /\ brEvents'[n].branch = x /\ m < n
                        => brEvents'[m].version < brEvents'[n].version
              /\ \A n \in DOMAIN brEvents' :
                    brEvents'[n].branch = x /\ brEvents'[n].version = rows'[x].version
                        => /\ brEvents'[n].status = rows'[x].status
                           /\ brEvents'[n].zone = rows'[x].profile.zone
  <2>1. CASE x # b
    BY <1>15, <1>17, <2>1 DEF BrTold
  <2>2. CASE x = b
    <3>1. ASSUME NEW n \in DOMAIN brEvents', brEvents'[n].branch = b
          PROVE  brEvents'[n].version \in 2 .. v + 1
      <4>1. CASE n \in DOMAIN brEvents
        <5>1. brEvents[n].branch = b
          BY <3>1, <4>1, <1>16
        <5>2. brEvents[n].version \in 2 .. v
          BY <4>1, <5>1, <1>2, <1>17 DEF BrTold
        <5> QED
          BY <5>2, <4>1, <1>2, <1>16
      <4>2. CASE n = Len(brEvents) + 1
        BY <4>2, <1>2, <1>5, <1>14
      <4> QED
        BY <4>1, <4>2, <1>16
    <3>2. ASSUME NEW u \in 2 .. v + 1
          PROVE  \E n \in DOMAIN brEvents' : brEvents'[n].branch = b /\ brEvents'[n].version = u
      <4>1. CASE u = v + 1
        BY <4>1, <1>5, <1>14, <1>16
      <4>2. CASE u \in 2 .. v
        BY <4>2, <1>2, <1>16, <1>17 DEF BrTold
      <4> QED
        BY <4>1, <4>2, <1>2
    <3>3. ASSUME NEW m \in DOMAIN brEvents', NEW n \in DOMAIN brEvents',
                 brEvents'[m].branch = b, brEvents'[n].branch = b, m < n
          PROVE  brEvents'[m].version < brEvents'[n].version
      <4>1. m \in DOMAIN brEvents
        BY <3>3, <1>14
      <4>2. CASE n \in DOMAIN brEvents
        BY <3>3, <4>1, <4>2, <1>2, <1>16, <1>17 DEF BrTold
      <4>3. CASE n = Len(brEvents) + 1
        <5>1. brEvents[m].version \in 2 .. v
          BY <3>3, <4>1, <1>2, <1>16, <1>17 DEF BrTold
        <5> QED
          BY <5>1, <4>1, <4>3, <1>2, <1>5, <1>14, <1>16
      <4> QED
        BY <4>2, <4>3, <1>16
    <3>4. ASSUME NEW n \in DOMAIN brEvents', brEvents'[n].branch = b, brEvents'[n].version = v + 1
          PROVE  brEvents'[n].status = row.status /\ brEvents'[n].zone = z
      <4>1. n = Len(brEvents) + 1
        BY <3>4, <1>2, <1>16, <1>17 DEF BrTold
      <4> QED
        BY <4>1, <1>5, <1>14
    <3> QED
      BY <2>2, <1>2, <1>16, <3>1, <3>2, <3>3, <3>4 DEF z
  <2> QED
    BY <2>1, <2>2
<1>19. BrTold'
  BY <1>18 DEF BrTold
<1> QED
  BY <1>6, <1>8, <1>9, <1>12, <1>13, <1>19 DEF BrInv

LEMMA BrInvHolds == BrSpec => []BrInv
<1>1. BrInit => BrInv
  BY BrInitially
<1>2. BrInv /\ [BrNext]_brVars => BrInv'
  <2> SUFFICES ASSUME BrInv, [BrNext]_brVars PROVE BrInv'
    OBVIOUS
  <2>1. CASE BrNext
    BY <2>1, BrSteps, BrGoesOnInv, BrOthersInv, BrInsertedInv, BrSavedInv DEF BrInv
  <2>2. CASE UNCHANGED brVars
    BY <2>2 DEF brVars, brPlan, BrInv, BrTypes, BrFits, BrReads, BrCounted, BrTold, BrKept, CountBranches
  <2> QED
    BY <2>1, <2>2
<1> QED
  BY <1>1, <1>2, PTL DEF BrSpec

\* A policy in whole minutes comes back from its row as it was, and every
\* value of it fits its column.
LEMMA PolicyComesBack ==
    ASSUME NEW p \in BrPolicies, PolicyAccepted(p)
    PROVE  toBranch(toBranchRow(p)) = p /\ RowFits(p)
<1>1. p \in [MinLead: Int, HorizonDays: Int, SlotInterval: Int, Buffer: Int,
             CancellationWindow: Int, AutoConfirm: BOOLEAN, PendingExpiry: Int,
             MaxActiveBookings: Int]
  BY BranchesAssumption
<1> DEFINE Fields == {"MinLead", "HorizonDays", "SlotInterval", "Buffer",
                      "CancellationWindow", "AutoConfirm", "PendingExpiry", "MaxActiveBookings"}
           row == toBranchRow(p)
<1>2. DOMAIN p = Fields /\ p = [f \in Fields |-> p[f]]
  BY <1>1
<1>3. /\ p.MinLead \in Int /\ p.Buffer \in Int /\ p.CancellationWindow \in Int
      /\ p.PendingExpiry \in Int /\ p.SlotInterval \in Int
      /\ p.HorizonDays \in Int /\ p.MaxActiveBookings \in Int
  BY <1>1
<1>4. /\ p.MinLead % 60 = 0 /\ 0 <= p.MinLead /\ p.MinLead <= 7 * 86400
      /\ p.SlotInterval \in {300, 600, 900, 1200, 1800, 3600}
      /\ p.Buffer % 60 = 0 /\ 0 <= p.Buffer /\ p.Buffer <= 3600
      /\ p.CancellationWindow % 60 = 0 /\ 0 <= p.CancellationWindow /\ p.CancellationWindow <= 48 * 3600
      /\ p.PendingExpiry % 60 = 0 /\ 300 <= p.PendingExpiry /\ p.PendingExpiry <= 7200
      /\ p.HorizonDays \in 1 .. 180 /\ p.MaxActiveBookings \in 1 .. 10
  BY SMT DEF PolicyAccepted, wholeMinutes, Within
<1>5. ASSUME NEW n \in Int, n % 60 = 0
      PROVE  (n \div 60) * 60 = n
  BY <1>5
<1>6. \A f \in Durations : (p[f] \div 60) * 60 = p[f]
  <2>1. p.SlotInterval % 60 = 0
    BY SMT, <1>4
  <2>2. /\ (p.MinLead \div 60) * 60 = p.MinLead
        /\ (p.Buffer \div 60) * 60 = p.Buffer
        /\ (p.CancellationWindow \div 60) * 60 = p.CancellationWindow
        /\ (p.PendingExpiry \div 60) * 60 = p.PendingExpiry
        /\ (p.SlotInterval \div 60) * 60 = p.SlotInterval
    BY SMT, <1>3, <1>4, <1>5, <2>1
  <2> QED
    BY <2>2 DEF Durations
<1>7. row = [f \in Fields |-> IF f \in Durations THEN p[f] \div 60 ELSE p[f]]
  BY <1>2 DEF toBranchRow
<1>8. toBranch(row) = [f \in Fields |-> IF f \in Durations THEN (p[f] \div 60) * 60 ELSE p[f]]
  BY <1>7 DEF toBranch
<1>9. toBranch(row) = p
  BY <1>2, <1>6, <1>8
<1>10. /\ row.MinLead = p.MinLead \div 60 /\ row.CancellationWindow = p.CancellationWindow \div 60
       /\ row.HorizonDays = p.HorizonDays /\ row.SlotInterval = p.SlotInterval \div 60
       /\ row.Buffer = p.Buffer \div 60 /\ row.PendingExpiry = p.PendingExpiry \div 60
       /\ row.MaxActiveBookings = p.MaxActiveBookings
  BY <1>7 DEF Durations
<1>11. ASSUME NEW n \in Int, NEW top \in Nat, 0 <= n, n <= 60 * top
       PROVE  n \div 60 \in Int /\ 0 <= n \div 60 /\ n \div 60 <= top
  BY <1>11
<1>12. /\ 0 <= p.MinLead /\ p.MinLead <= 60 * 10080
       /\ 0 <= p.CancellationWindow /\ p.CancellationWindow <= 60 * 2880
       /\ 0 <= p.SlotInterval /\ p.SlotInterval <= 60 * 60
       /\ 0 <= p.Buffer /\ p.Buffer <= 60 * 60
       /\ 0 <= p.PendingExpiry /\ p.PendingExpiry <= 60 * 120
       /\ 0 <= p.HorizonDays /\ p.HorizonDays <= 180
       /\ 0 <= p.MaxActiveBookings /\ p.MaxActiveBookings <= 10
  BY SMT, <1>3, <1>4
<1>13. /\ row.MinLead \in Int /\ 0 <= row.MinLead /\ row.MinLead <= 10080
       /\ row.CancellationWindow \in Int /\ 0 <= row.CancellationWindow /\ row.CancellationWindow <= 2880
       /\ row.SlotInterval \in Int /\ 0 <= row.SlotInterval /\ row.SlotInterval <= 60
       /\ row.Buffer \in Int /\ 0 <= row.Buffer /\ row.Buffer <= 60
       /\ row.PendingExpiry \in Int /\ 0 <= row.PendingExpiry /\ row.PendingExpiry <= 120
  BY SMT, <1>3, <1>10, <1>11, <1>12
<1> HIDE DEF row
<1>14. Int32(row.MinLead) /\ Int32(row.CancellationWindow)
  BY SMT, <1>13 DEF Int32, Within
<1>15. Int16(row.HorizonDays) /\ Int16(row.MaxActiveBookings)
  BY SMT, <1>3, <1>10, <1>12 DEF Int16, Within
<1>16. Int16(row.SlotInterval) /\ Int16(row.Buffer) /\ Int16(row.PendingExpiry)
  BY SMT, <1>13 DEF Int16, Within
<1> QED
  BY <1>9, <1>14, <1>15, <1>16 DEF RowFits, row

LEMMA BrInvMeans ==
    ASSUME BrInv
    PROVE  BranchEventsTellIt /\ PolicyIsKept
<1>2. ASSUME NEW b \in BrIds, rows[b] # NoBranch
      PROVE  rows[b].version > 0 /\ rows[b].version \in Nat
  BY <1>2 DEF BrInv, BrFits, BrTypes, BrRows
<1>3. PolicyIsKept
  <2> SUFFICES ASSUME NEW b \in BrIds, rows[b] # NoBranch
               PROVE  toBranch(rows[b].policy) \in BrPolicies /\ RowFits(toBranch(rows[b].policy))
    BY DEF PolicyIsKept
  <2>1. PICK q \in BrPolicies : PolicyAccepted(q) /\ rows[b].policy = toBranchRow(q)
    BY <1>2 DEF BrInv, BrKept
  <2> QED
    BY <2>1, PolicyComesBack
<1>4. BranchEventsTellIt
  <2> SUFFICES ASSUME NEW b \in BrIds, rows[b] # NoBranch
               PROVE  LET mine == {n \in DOMAIN brEvents : brEvents[n].branch = b}
                      IN  /\ {brEvents[n].version : n \in mine} = 2 .. rows[b].version
                          /\ \A m, n \in mine : m < n => brEvents[m].version < brEvents[n].version
                          /\ \A n \in mine : brEvents[n].version = rows[b].version
                                  => /\ brEvents[n].status = rows[b].status
                                     /\ brEvents[n].zone = rows[b].profile.zone
    BY DEF BranchEventsTellIt
  <2>1. BrTold
    BY DEF BrInv
  <2> DEFINE mine == {n \in DOMAIN brEvents : brEvents[n].branch = b}
             told == {brEvents[n].version : n \in mine}
  <2>2. told \subseteq 2 .. rows[b].version
    BY <2>1 DEF BrTold
  <2>3. 2 .. rows[b].version \subseteq told
    BY <2>1 DEF BrTold
  <2>4. told = 2 .. rows[b].version
    BY <2>2, <2>3
  <2> QED
    BY <2>1, <2>4 DEF BrTold
<1> QED
  BY <1>3, <1>4

\* A step that ends the request of a page and changes a branch saves the
\* branch of that page.
LEMMA ZoneStep ==
    ASSUME BrInv, [BrNext]_brVars
    PROVE  ZoneIsTheOwners
<1> SUFFICES ASSUME NEW r \in BrRequests, brReq[r].pc \in {"page", "ready"}, rows' # rows,
                    brReq'[r].pc = "idle"
             PROVE  /\ rows[brReq[r].branch].version = brReq[r].version
                    /\ rows'[brReq[r].branch].profile.zone # rows[brReq[r].branch].profile.zone
                          => Member(brReq[r].user).role = "owner"
  BY DEF ZoneIsTheOwners
<1>1. BrNext
  BY DEF brVars
<1>2. \/ \E x \in BrRequests, b \in BrIds : \E row : BrInserted(x, b, row)
      \/ \E x \in BrRequests : \E row : BrSavedAs(x, row)
  BY <1>1, BrSteps DEF BrInv, BrGoesOn, BrApprove, BrOnApproved, BrTick, BrFacts
<1>3. CASE \E x \in BrRequests, b \in BrIds : \E row : BrInserted(x, b, row)
  <2>1. PICK x \in BrRequests, b \in BrIds : \E row : BrInserted(x, b, row)
    BY <1>3
  <2> QED
    BY <2>1 DEF BrInserted, BrInv, BrTypes
<1>4. CASE \E x \in BrRequests : \E row : BrSavedAs(x, row)
  <2>1. PICK x \in BrRequests : \E row : BrSavedAs(x, row)
    BY <1>4
  <2>2. PICK row : BrSavedAs(x, row)
    BY <2>1
  <2>3. x = r
    BY <2>2 DEF BrSavedAs, BrInv, BrTypes
  <2>4. rows'[brReq[r].branch] = row
    BY <2>2, <2>3 DEF BrSavedAs, BrInv, BrTypes
  <2> QED
    BY <2>2, <2>3, <2>4 DEF BrSavedAs
<1> QED
  BY <1>2, <1>3, <1>4

\* The plan a creation counts against is the one BranchesThen names.
LEMMA BranchesAreThePlans ==
    ASSUME BrInv, NEW r \in BrRequests, brReq[r].pc = "add"
    PROVE  brReq[r].standing.plan.MaxBranches = BranchesThen(brReq[r])
<1> DEFINE q == brReq[r]
<1>1. StandingRead(q, brSub) /\ (brSub = NoSubscription \/ brSub.plan = "pro")
  BY DEF BrInv, BrReads, BrCreating
<1> HIDE DEF q
<1>2. CASE q.standing = SetupStanding
  BY <1>2 DEF BranchesThen, SetupStanding, PlanByCode, q
<1>3. CASE brSub # NoSubscription /\ q.standing = StandingAt(brSub, q.created)
  BY <1>1, <1>3 DEF BranchesThen, StandingAt, PlanByCode, q
<1> QED
  BY <1>1, <1>2, <1>3 DEF StandingRead

\* A branch is inserted while the count made under the business's lock holds.
LEMMA BranchesStep ==
    ASSUME BrInv, [BrNext]_brVars
    PROVE  BranchesWithinPlan
<1> SUFFICES ASSUME NEW r \in BrRequests, brReq[r].pc = "add", brReq'[r] # brReq[r], rows' # rows
             PROVE  CountBranches' <= BranchesThen(brReq[r])
  BY DEF BranchesWithinPlan
<1>1. BrNext
  BY DEF brVars
<1>2. ~ \E x \in BrRequests : \E row : BrSavedAs(x, row)
  <2>1. ASSUME NEW x \in BrRequests, NEW row, BrSavedAs(x, row)
        PROVE  x # r /\ brReq'[r] = brReq[r]
    BY <2>1 DEF BrSavedAs, BrPages, BrInv, BrTypes
  <2> QED
    BY <2>1
<1>3. \E x \in BrRequests, b \in BrIds : \E row : BrInserted(x, b, row)
  BY <1>1, <1>2, BrSteps DEF BrInv, BrGoesOn, BrApprove, BrOnApproved, BrTick, BrFacts
<1>4. PICK x \in BrRequests, b \in BrIds : \E row : BrInserted(x, b, row)
  BY <1>3
<1>5. BrTaken(rows') = BrTaken(rows) \cup {b} /\ b \notin BrTaken(rows)
  BY <1>4 DEF BrInv, BrTypes, BrInserted, BrTaken, NoBranch
<1>6. IsFiniteSet(BrTaken(rows))
  BY BranchesAssumption, FS_Subset DEF BrTaken
<1>7. CountBranches' = CountBranches + 1 /\ CountBranches \in Nat
  BY <1>5, <1>6, FS_AddElement, FS_CardinalityType DEF CountBranches, BrTaken
<1>8. CountBranches < BranchesThen(brReq[r])
  BY BranchesAreThePlans DEF BrInv, BrCounted
<1>9. BranchesThen(brReq[r]) \in Nat
  BY BillingAssumption DEF BranchesThen
<1> QED
  BY <1>7, <1>8, <1>9
=============================================================================
