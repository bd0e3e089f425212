------------------------------ MODULE Discovery ------------------------------
(***************************************************************************)
(* Discovery: copies of branches, services and opening hours, kept from    *)
(* other modules' events, and what customers see of them: a search paged   *)
(* with a cursor, and a branch's page.  Events arrive late, twice and in   *)
(* any order, between two pages and within a page's transaction.           *)
(*                                                                         *)
(* Names, distances and match scores are numbers: only their order counts. *)
(* Branch ids are numbers too; they break ties.                            *)
(***************************************************************************)
EXTENDS Integers, FiniteSets, SequencesExt

CONSTANTS
    ListingAt,          \* ListingAt[b][v]: branch b as of version v; its time zone
                        \* is its offset, in minutes
    OfferAt,            \* OfferAt[s][v]: service s as of version v
    OpenAt,             \* OpenAt[b][v]: b's opening hours as of version v
    Searches,           \* [city, near, radius, text, category, openNow]; AnyOf: left out
    PageSize, MaxRadius, MinQueryLen,
    Week,               \* minutes per week
    AnyOf                 \* a parameter left out

ListedBranches == DOMAIN ListingAt

Offers == DOMAIN OfferAt

ASSUME DiscoveryAssumption ==
    /\ PageSize \in Nat \ {0} /\ Week \in Nat \ {0}
    /\ ListedBranches \subseteq Nat /\ DOMAIN OpenAt = ListedBranches
    /\ IsFiniteSet(ListedBranches)
    /\ \A b \in ListedBranches : \A v \in DOMAIN ListingAt[b] :
          LET l == ListingAt[b][v]
          IN  v \in Nat \ {0} /\ l.name \in Int /\ l.distance \in Int /\ l.score \in Int
              /\ l.offset \in Int
    /\ \A b \in ListedBranches : \A v \in DOMAIN OpenAt[b] :
          /\ v \in Nat \ {0}
          /\ \A i \in DOMAIN OpenAt[b][v] : OpenAt[b][v][i][1] \in Int /\ OpenAt[b][v][i][2] \in Int
    /\ \A s \in Offers : \A v \in DOMAIN OfferAt[s] :
          /\ v \in Nat \ {0} /\ OfferAt[s][v].price \in Nat
          /\ OfferAt[s][v].branch \in ListedBranches

VARIABLES
    copies,             \* listing[b], offer[s], hours[b]: the versions kept; 0: none
    minute,             \* the clock, in minutes of the week
    pager,              \* a customer paging through a search
    viewer              \* a customer opening a branch's page

discVars == <<copies, minute, pager, viewer>>

NoPager == [search |-> AnyOf]

NoViewer == [step |-> "idle"]

-----------------------------------------------------------------------------
(***************************************************************************)
(* What the copies say.                                                    *)
(***************************************************************************)
\* discovery.open_at: an interval may run past the week's end.
open_at(open, m) ==
    \E i \in DOMAIN open : \E t \in {m, m + Week} : open[i][1] <= t /\ t < open[i][2]

ListingOf(c, b) == ListingAt[b][c.listing[b]]

\* The minute of the week at m in the branch's own time zone.
WallClock(c, b, m) == (m + ListingOf(c, b).offset) % Week

OpenNow(c, b, m) ==
    c.hours[b] # 0 /\ open_at(OpenAt[b][c.hours[b]], WallClock(c, b, m))

\* A branch's services that customers can choose, of a category or any.
MenuOf(c, b, category) ==
    {s \in Offers : /\ c.offer[s] # 0
                    /\ LET o == OfferAt[s][c.offer[s]]
                       IN  o.branch = b /\ o.offered /\ category \in {AnyOf, o.category}}

Prices(c, menu) == {OfferAt[s][c.offer[s]].price : s \in menu}

\* Listed, and offering something: what every search and page asks for.
Shown(c, b, category) ==
    c.listing[b] # 0 /\ ListingOf(c, b).listed /\ MenuOf(c, b, category) # {}

\* Near, Matching or InCity: what the search asks of a branch besides.
Passes(c, b, q, m) ==
    LET l == ListingOf(c, b)
    IN  /\ Shown(c, b, q.category)
        /\ q.city \in {AnyOf, l.city}
        /\ q.text # AnyOf => l.score > 0
        /\ q.near # AnyOf => l.distance <= q.radius
        /\ q.openNow => OpenNow(c, b, m)

\* Search.Order: the sort key.  The best match comes first.
SortKey(c, b, q) ==
    LET l == ListingOf(c, b)
    IN  CASE q.near # AnyOf -> l.distance
          [] q.near = AnyOf /\ q.text # AnyOf -> -l.score
          [] OTHER -> l.name

\* searchOf and Search: whether the search can be answered.
SearchAllowed(q) ==
    /\ q.text # AnyOf => q.text >= MinQueryLen
    /\ q.near # AnyOf => q.radius > 0 /\ q.radius <= MaxRadius
    /\ q.near = AnyOf => q.radius = AnyOf
    /\ q.near = AnyOf /\ q.text = AnyOf => q.city # AnyOf

-----------------------------------------------------------------------------
(***************************************************************************)
(* Paging.                                                                 *)
(***************************************************************************)
Before(p, q) == p[1] < q[1] \/ (p[1] = q[1] /\ p[2] < q[2])

\* Mutant: the cursor is the key alone.
AfterKey(p, cursor) == cursor = <<>> \/ p[1] > cursor[1]

\* After the cursor: the last key shown, and the branch it was of.
After(p, cursor) == cursor = <<>> \/ Before(cursor, p)

Place(c, b, q) == <<SortKey(c, b, q), b>>

\* Those of a set of branches that come before b.
Ahead(c, q, S, b) == {x \in S : Before(Place(c, x, q), Place(c, b, q))}

Found(c, q, m, cursor) ==
    {b \in ListedBranches : Passes(c, b, q, m) /\ After(Place(c, b, q), cursor)}

\* The query, up to limit rows: the ones with fewer than limit ahead of them.
Rows(c, q, m, cursor, limit) ==
    LET found == Found(c, q, m, cursor)
    IN  {b \in found : Cardinality(Ahead(c, q, found, b)) < limit}

\* The row all others are ahead of.
LastRow(c, q, rows) == CHOOSE b \in rows : rows \ {b} = Ahead(c, q, rows, b)

\* A search begins: at its first page, with no cursor.  steady is history: the
\* branches it should find, as long as they stay where they are; seen counts
\* how often it showed each.
StartSearch(q) ==
    /\ pager = NoPager
    /\ SearchAllowed(q)
    /\ pager' = [search |-> q, cursor |-> <<>>, done |-> FALSE,
                 seen |-> [b \in ListedBranches |-> 0],
                 steady |-> {Place(copies, b, q) :
                               b \in {x \in ListedBranches : Passes(copies, x, q, minute)}}]
    /\ UNCHANGED <<copies, minute, viewer>>

\* GET /v1/branches: one page, and whether another follows.
SearchBranches ==
    /\ pager # NoPager /\ ~ pager.done
    /\ LET q    == pager.search
           rows == Rows(copies, q, minute, pager.cursor, PageSize + 1)
           more == Cardinality(rows) > PageSize
           page == IF more THEN rows \ {LastRow(copies, q, rows)} ELSE rows
           next == IF more THEN Place(copies, LastRow(copies, q, page), q) ELSE pager.cursor
       IN  pager' = [pager EXCEPT !.cursor = next, !.done = ~ more,
                        !.seen = [b \in ListedBranches |-> @[b] + IF b \in page THEN 1 ELSE 0]]
    /\ UNCHANGED <<copies, minute, viewer>>

StopSearch ==
    /\ pager # NoPager
    /\ pager' = NoPager
    /\ UNCHANGED <<copies, minute, viewer>>

\* What stays where it was.
Steady(c, m) ==
    IF pager = NoPager THEN pager
    ELSE [pager EXCEPT !.steady =
             {p \in @ : /\ Passes(c, p[2], pager.search, m)
                        /\ Place(c, p[2], pager.search) = p}]

-----------------------------------------------------------------------------
(***************************************************************************)
(* Events.                                                                 *)
(***************************************************************************)
\* The copies change; a page's transaction goes on with what it saw.
Keep(c) ==
    /\ copies' = c
    /\ pager' = Steady(c, minute)
    /\ UNCHANGED <<minute, viewer>>

KeepListing(b, v) ==
    /\ copies.listing[b] < v
    /\ Keep([copies EXCEPT !.listing[b] = v])

KeepService(s, v) ==
    /\ copies.offer[s] < v
    /\ Keep([copies EXCEPT !.offer[s] = v])

\* Hours that could not be minutes of two weeks are refused.
KeepHours(b, v) ==
    /\ copies.hours[b] < v
    /\ \A i \in DOMAIN OpenAt[b][v] :
          LET o == OpenAt[b][v][i] IN o[1] >= 0 /\ o[1] < o[2] /\ o[2] <= 2 * Week
    /\ Keep([copies EXCEPT !.hours[b] = v])

\* Time passes.
MinutePasses ==
    /\ minute' = (minute + 1) % Week
    /\ pager' = Steady(copies, minute')
    /\ UNCHANGED <<copies, viewer>>

-----------------------------------------------------------------------------
(***************************************************************************)
(* GET /v1/branches/{id}.                                                  *)
(***************************************************************************)
\* The transaction is repeatable read: its second statement sees the first's
\* snapshot.
Snapshot(seen) == seen

\* The first statement: the branch, the least it costs, open now or not.
BranchPage(b) ==
    /\ viewer = NoViewer
    /\ Shown(copies, b, AnyOf)
    /\ viewer' = [step |-> "menu", branch |-> b, saw |-> copies,
                  price |-> CHOOSE p \in Prices(copies, MenuOf(copies, b, AnyOf)) :
                               \A o \in Prices(copies, MenuOf(copies, b, AnyOf)) : p <= o,
                  open |-> OpenNow(copies, b, minute)]
    /\ UNCHANGED <<copies, minute, pager>>

\* The second: the menu.
BranchMenu ==
    /\ viewer.step = "menu"
    /\ LET c == Snapshot(viewer.saw)
       IN  viewer' = [step |-> "shown", branch |-> viewer.branch, price |-> viewer.price,
                      open |-> viewer.open, menu |-> Prices(c, MenuOf(c, viewer.branch, AnyOf))]
    /\ UNCHANGED <<copies, minute, pager>>

ClosePage ==
    /\ viewer.step = "shown"
    /\ viewer' = NoViewer
    /\ UNCHANGED <<copies, minute, pager>>

-----------------------------------------------------------------------------
\* The copies as they would be with these versions kept.
DiscInitWith(listing, offer, hours) ==
    /\ copies = [listing |-> listing, offer |-> offer, hours |-> hours]
    /\ minute \in 0 .. Week - 1
    /\ pager = NoPager /\ viewer = NoViewer

DiscInit == DiscInitWith([b \in ListedBranches |-> 0], [s \in Offers |-> 0],
                         [b \in ListedBranches |-> 0])

CopiesNext ==
    \/ \E b \in ListedBranches :
          \/ \E v \in DOMAIN ListingAt[b] : KeepListing(b, v)
          \/ \E v \in DOMAIN OpenAt[b] : KeepHours(b, v)
    \/ \E s \in Offers : \E v \in DOMAIN OfferAt[s] : KeepService(s, v)

ViewerNext == BranchMenu \/ ClosePage \/ \E b \in ListedBranches : BranchPage(b)

PagerNext ==
    \/ MinutePasses
    \/ \E q \in Searches : StartSearch(q)
    \/ SearchBranches \/ StopSearch

DiscNext == CopiesNext \/ ViewerNext \/ PagerNext

DiscSpec == DiscInit /\ [][DiscNext]_discVars

-----------------------------------------------------------------------------
(***************************************************************************)
(* Properties.                                                             *)
(***************************************************************************)
\* A search paged to its end showed every branch that it should find all along,
\* and that did not move in its order, exactly once: branches with the same
\* name, distance or score included, and whatever came and went meanwhile.
PagingMissesNothing ==
    pager # NoPager /\ pager.done =>
        \A p \in pager.steady : pager.seen[p[2]] = 1

\* A branch's page agrees with itself while services change: "from" is the
\* price of the cheapest service on the menu shown.
PageAgrees ==
    viewer.step = "shown" =>
        viewer.price \in viewer.menu /\ \A p \in viewer.menu : viewer.price <= p

\* Open now is what the week as set says where the branch is, going round: an
\* interval that runs past Saturday's midnight is open on Sunday.
OpenNowIsTheWeek ==
    \A b \in {x \in ListedBranches : copies.listing[x] # 0}, m \in 0 .. Week - 1 :
        OpenNow(copies, b, m) <=>
            /\ copies.hours[b] # 0
            /\ \E i \in DOMAIN OpenAt[b][copies.hours[b]] :
                  LET o == OpenAt[b][copies.hours[b]][i]
                  IN  \E t \in o[1] .. o[2] - 1 : t % Week = WallClock(copies, b, m)
=============================================================================
