------------------------------- MODULE MCShop -------------------------------
(***************************************************************************)
(* The modules around booking, instantiated for TLC: hours and schedules,  *)
(* onboarding, staff and invitations, branches, services, searches, the    *)
(* HTTP edge, and questions to the pure functions of hours and             *)
(* availability.  They share no state, so each behaviour is about one of   *)
(* them (focus) and the others keep their initial states.                  *)
(***************************************************************************)
EXTENDS Questions, Scheduling, Onboarding, Staffing, Branches, Catalog, Discovery, Http

CONSTANTS s1, s2, h1, biz1, biz2, cr1, cr2, up1, up2, page1, page2

VARIABLE focus

-----------------------------------------------------------------------------
(* Hours: an owner and a manager of both branches, who may work at each.   *)

Staff(id, user, role, where) ==
    [id |-> id, user |-> user, role |-> role, active |-> TRUE, branches |-> where]

MCSchedStaff == {Staff("s1", "u1", "owner", {}),
                 Staff("s2", "u2", "manager", {"b1", "b2"})}
MCSchedUser == [c \in SchedClients |-> IF c = "c1" THEN "u1" ELSE "u2"]
MCSchedKeys == {<<"hours", "b1", "none">>, <<"schedule", "b1", "s2">>,
                <<"schedule", "b2", "s2">>}
MCWeeks == {<<Iv(0, 0, 1)>>, <<Iv(2, 3, 2)>>}
MCOverrides == {<< >>, (1 :> <<[start |-> 0, minutes |-> 1]>>)}
MCOffs == {<<"s2", Span(0, 2)>>, <<"s2", Span(1, 3)>>}

(* Onboarding: two businesses register and one of them gets through; or one *)
(* is rejected, mended and approved; or the answers of commits are lost.   *)

Cast(businesses, crs, uploads, pages, saves) ==
    [businesses |-> businesses, crs |-> crs, uploads |-> uploads, pages |-> pages,
     saves |-> saves]
MCCasts ==
    [registering |-> Cast({biz1, biz2}, {cr1, cr2}, {up1}, {page1}, 5),
     reviewing |-> Cast({biz1}, {cr1}, {up1, up2}, {page1, page2}, 5),
     losing |-> Cast({biz1}, {cr1}, {up1, up2}, {page1}, 3)]

(* Staff: one shop on trial and then on the free plan, one not approved.   *)

MCStBranches == [s \in StShops |-> {"main"}]
MCStForms == {[role |-> "barber", name |-> 1, branches |-> {"main"}],
              [role |-> "owner", name |-> 1, branches |-> {"main"}]}

(* Branches: an owner and the manager of one, two time zones, two policies. *)

MCBrStaff == {Staff("o", "owner", "owner", {}), Staff("m", "manager", "manager", {"b1"})}
MCBrProfiles ==
    {[name |-> 1, city |-> "riyadh", district |-> 0, address |-> 1,
      location |-> <<1, 1>>, zone |-> z] : z \in {"Asia/Riyadh", "Asia/Dubai"}}
MCBrPolicies == {DefaultBookingPolicy, [DefaultBookingPolicy EXCEPT !.MinLead = 90]}

(* Services: good and bad durations; offerings with their own prices.      *)

MCCatStaff == {Staff("o", "owner", "owner", {}), Staff("a", "barber", "barber", {h1})}
MCDetails ==
    {[name |-> 1, category |-> "hair", description |-> 0, price |-> pd[1],
      duration |-> pd[2], sort |-> 0] : pd \in {<<50, 10>>, <<80, 10>>, <<50, 7>>}}
Offers4(s, p) == [staff |-> s, price |-> p, duration |-> Own]
MCOfferings == {<< >>, <<Offers4("a", Own)>>, <<Offers4("a", 40), Offers4("o", Own)>>,
                <<Offers4("a", 90)>>, <<Offers4("a", Own), Offers4("a", 40)>>}

(* Searches: 1 and 2 share a name; 2 is renamed, 3 is listed later.        *)

Listing(listed, name, distance, score, offset) ==
    [listed |-> listed, name |-> name, city |-> "r", distance |-> distance, score |-> score,
     offset |-> offset]
MCListingAt == <<<<Listing(TRUE, 1, 2, 1, 0)>>,
                 <<Listing(TRUE, 1, 2, 1, -1), Listing(TRUE, 2, 1, 2, 2)>>,
                 <<Listing(FALSE, 2, 1, 0, 0), Listing(TRUE, 2, 3, 1, 0)>>>>
Offer(b, offered, category, price) ==
    [branch |-> b, offered |-> offered, category |-> category, price |-> price]
MCOfferAt == <<<<Offer(1, TRUE, "hair", 2), Offer(1, TRUE, "hair", 3)>>,
               <<Offer(1, TRUE, "beard", 2)>>,
               <<Offer(2, TRUE, "hair", 1), Offer(2, FALSE, "hair", 1)>>>>
MCOpenAt == <<<< <<<<1, 3>>>> >>, << <<<<1, 2>>, <<3, 5>>>> >>, <<>> >>
Search(city, near, radius, text, category, open) ==
    [city |-> city, near |-> near, radius |-> radius, text |-> text,
     category |-> category, openNow |-> open]
MCSearches == {Search("r", AnyOf, AnyOf, AnyOf, AnyOf, FALSE),
               Search(AnyOf, "here", 2, AnyOf, "hair", FALSE),
               Search(AnyOf, AnyOf, AnyOf, 2, AnyOf, TRUE),
               Search(AnyOf, AnyOf, AnyOf, AnyOf, AnyOf, FALSE)}

-----------------------------------------------------------------------------
shopVars ==
    <<question, schedVars, vars, stVars, brVars, catVars, discVars, httpVars, focus>>

\* "registering", "reviewing" and "losing": onboarding by its casts; "pages":
\* branch pages while the copies change; "searches": pages of results while
\* copies and the time change.
ShopInit ==
    /\ AskInit /\ SchedInit /\ Init /\ StInit /\ BrInit /\ CatInit /\ HttpInit
    /\ \/ /\ focus \in {"questions", "hours", "time off", "registering", "reviewing",
                       "losing", "staff", "branches", "services", "pages", "http"}
          /\ minute = 0 /\ DiscInit
       \/ /\ focus = "searches"
          /\ DiscInitWith([b \in ListedBranches |-> 1], [s \in Offers |-> 1], <<1, 0, 0>>)

Searching ==
    \/ focus = "pages" /\ (CopiesNext \/ ViewerNext)
    \/ focus = "searches" /\ (CopiesNext \/ PagerNext)

\* Answers arrive: a row or a document that is there is not taken for missing.
AnswersArrive ==
    \A u \in Uploads :
        /\ u \in objects' \ objects => upload'[u].pc = "attach"
        /\ \A b \in Businesses : u \in docs'[b] \ docs[b] => upload'[u].pc = "done"

\* Whoever is not in the cast does nothing.
Onboarding(cast) ==
    /\ Next
    /\ \A b \in Businesses :
          /\ b \notin cast.businesses => biz'[b] = NoBusiness
          /\ biz'[b].cr \in cast.crs \cup {Nobody}
    /\ \A u \in Uploads \ cast.uploads : upload'[u] = NoUpload
    /\ \A d \in Screens \ cast.pages : screen'[d] = BlankScreen
    /\ MapThenSumSet(LAMBDA b : biz'[b].version, Businesses) <= cast.saves
    /\ focus = "losing" \/ AnswersArrive

ShopSteps ==
    \/ /\ focus = "questions" /\ AskNext
       /\ UNCHANGED <<schedVars, vars, stVars, brVars, catVars, discVars, httpVars>>
    \/ /\ \/ focus = "hours" /\ PagesNext
          \/ focus = "time off" /\ TimeOffNext
       /\ UNCHANGED <<question, vars, stVars, brVars, catVars, discVars, httpVars>>
    \/ /\ focus \in DOMAIN MCCasts /\ Onboarding(MCCasts[focus])
       /\ UNCHANGED <<question, schedVars, stVars, brVars, catVars, discVars, httpVars>>
    \/ /\ focus = "staff" /\ StNext
       /\ UNCHANGED <<question, schedVars, vars, brVars, catVars, discVars, httpVars>>
    \/ /\ focus = "branches" /\ BrNext
       /\ UNCHANGED <<question, schedVars, vars, stVars, catVars, discVars, httpVars>>
    \/ /\ focus = "services" /\ CatNext
       /\ UNCHANGED <<question, schedVars, vars, stVars, brVars, discVars, httpVars>>
    \/ /\ Searching
       /\ UNCHANGED <<question, schedVars, vars, stVars, brVars, catVars, httpVars>>
    \/ /\ focus = "http" /\ HttpNext
       /\ UNCHANGED <<question, schedVars, vars, stVars, brVars, catVars, discVars>>

ShopSpec == ShopInit /\ [][ShopSteps /\ UNCHANGED focus]_shopVars

-----------------------------------------------------------------------------
\* Nothing is changed over what its author did not see: calendars, schedules
\* and services by their version; an invitation that was accepted or revoked
\* stays so; and a branch's time zone is its owner's choice.
SavedAsSeen ==
    [][/\ SavedOverWhatWasSeen
       /\ ServiceSavedAsSeen
       /\ ClosedForGood
       /\ ZoneIsTheOwners]_shopVars

\* However requests race, and although a trial may end meanwhile, whatever is
\* added to a business is within the plan it had when the request read it: staff
\* and open invitations within its seats, branches within its branches.
LimitsHold == [][SeatsWithinPlan /\ BranchesWithinPlan]_shopVars

\* What was set is what is stored and what other modules are told: the events
\* of hours and branches, in order, end with the row, and a policy read back
\* is the policy that was accepted.
ToldAsSet == EventsTellTheHours /\ BranchEventsTellIt /\ PolicyIsKept

\* A page shows one state of what it shows: the menu of a shop's own screen a
\* version of each service, the "from" price one that a barber charges, a
\* branch page one moment's copies, "open now" the branch's week.
PagesAgree ==
    MenuIsAVersion /\ FromPriceIsBookable /\ PageAgrees /\ OpenNowIsTheWeek
=============================================================================
