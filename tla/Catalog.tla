------------------------------- MODULE Catalog -------------------------------
(***************************************************************************)
(* What a branch sells: services with their details, and offerings, who    *)
(* performs a service, maybe at a price or a duration of their own.  A     *)
(* service is changed under a version check; a menu is read in two         *)
(* statements without a snapshot, services first.  Durations are minutes,  *)
(* prices halalas; a text counts its characters.                           *)
(***************************************************************************)
EXTENDS Access, SequencesExt, Integers

CONSTANTS
    ServiceIds,
    CatStaff,               \* the business's staff, as in Access
    CatBranch, CatBranches, \* the branch, and all of the business's
    CatRequests,            \* requests in progress
    CatDetails,             \* details people send, good and bad
    CatOfferings,           \* offerings people send, good and bad
    CategoryCodes,
    MaxNameLen, MaxDescriptionLen, MinDuration, MaxDuration, DurationStep,
    MaxPrice, MaxSortOrder, MaxOfferings,
    MaxServiceVersion       \* bound: no service changes more often

ASSUME CatalogAssumption ==
    /\ CatBranch \in CatBranches
    /\ DurationStep \in Nat \ {0}
    /\ MinDuration % DurationStep = 0
    /\ MaxPrice \in Nat
    /\ \A os \in CatOfferings : os \in Seq(Range(os))

VARIABLES
    services,               \* services[s]: the service, or NoService
    svcEvents,              \* service events handed to the outbox
    catReq                  \* catReq[r]: a request in progress

catVars == <<services, svcEvents, catReq>>

NoService == [version |-> 0, active |-> FALSE, details |-> << >>, offerings |-> << >>]

NoCatRequest == [pc |-> "idle", user |-> "nobody", seen |-> << >>, menu |-> << >>, id |-> "none"]

CatDone(r) == catReq' = [catReq EXCEPT ![r] = NoCatRequest]

Own == -1       \* nil: the service's own price or duration

-----------------------------------------------------------------------------
(***************************************************************************)
(* Values.                                                                 *)
(***************************************************************************)
validDuration(d) == d \in MinDuration .. MaxDuration /\ d % DurationStep = 0

validPrice(p) == p \in 0 .. MaxPrice

\* NewLocalizedText and ServiceDetails.check.
DetailsError(d) ==
    CASE d.name = 0 -> "arabic_required"
      [] d.category \notin CategoryCodes -> "unknown_category"
      [] d.name > MaxNameLen -> "name_too_long"
      [] d.description > MaxDescriptionLen -> "text_too_long"
      [] ~ validDuration(d.duration) -> "invalid_duration"
      [] ~ validPrice(d.price) -> "invalid_price"
      [] d.sort \notin 0 .. MaxSortOrder -> "invalid_sort"
      [] OTHER -> "none"

\* checkOfferings: each of the staff once, own values as valid as any.
OfferingsError(os) ==
    CASE Len(os) > MaxOfferings -> "too_many_offerings"
      [] \E i, j \in DOMAIN os : i # j /\ os[i].staff = os[j].staff -> "duplicate_offering"
      [] \E i \in DOMAIN os : os[i].duration # Own /\ ~ validDuration(os[i].duration)
            -> "invalid_duration"
      [] \E i \in DOMAIN os : os[i].price # Own /\ ~ validPrice(os[i].price)
            -> "invalid_price"
      [] OTHER -> "none"

PriceOr(o, price) == IF o.price = Own THEN price ELSE o.price

DurationOr(o, duration) == IF o.duration = Own THEN duration ELSE o.duration

\* PriceFrom: the least a customer pays; none while nobody performs it.
PriceFrom(s) ==
    IF s.offerings = << >> THEN Own
    ELSE Min({PriceOr(s.offerings[i], s.details.price) : i \in DOMAIN s.offerings})

\* Menu: active services, each performer's price and duration.
MenuItem(details, offerings) ==
    [performers |-> {[staff    |-> offerings[i].staff,
                      price    |-> PriceOr(offerings[i], details.price),
                      duration |-> DurationOr(offerings[i], details.duration)]
                     : i \in DOMAIN offerings}]

\* serviceContract and decodeServiceChanged: what subscribers get.
ServiceChanged(id, s) ==
    [id |-> id, version |-> s.version, offered |-> s.active /\ PriceFrom(s) # Own,
     from |-> IF PriceFrom(s) = Own THEN s.details.price ELSE PriceFrom(s),
     snapshot |-> s]

-----------------------------------------------------------------------------
(***************************************************************************)
(* Creating and changing a service.                                        *)
(***************************************************************************)
May(user, need) ==
    AuthorizeBranch(MemberOf(CatStaff, user), need, CatBranches, CatBranch) = "none"

\* Create, NewService, Add: inserted and told of in one transaction.
CreateService(user, id, d) ==
    LET s == [version |-> 1, active |-> TRUE, details |-> d, offerings |-> << >>]
    IN  /\ services[id] = NoService
        /\ May(user, "manager")
        /\ DetailsError(d) = "none"
        /\ services' = [services EXCEPT ![id] = s]
        /\ svcEvents' = Append(svcEvents, ServiceChanged(id, s))
        /\ UNCHANGED catReq

\* List, first statement: ServicesByBranch.
ListServices(r, user) ==
    /\ catReq[r].pc = "idle" /\ May(user, "barber")
    /\ catReq' = [catReq EXCEPT ![r] = [NoCatRequest EXCEPT
                     !.pc = "services", !.user = user, !.seen = services]]
    /\ UNCHANGED <<services, svcEvents>>

\* List, second statement: OfferingsByBranch, put to the services by ID.
ListOfferings(r) ==
    /\ catReq[r].pc = "services"
    /\ catReq' = [catReq EXCEPT ![r].pc = "page",
                     ![r].menu = [id \in ServiceIds |-> services[id].offerings]]
    /\ UNCHANGED <<services, svcEvents>>

\* Mutant: the service is saved whatever its version.
ServiceIsThere(r, id) == services[id] # NoService

\* Update: the service is locked and has the version the page showed.
ServiceIsAsSeen(r, id) ==
    services[id] # NoService /\ services[id].version = catReq[r].seen[id].version

\* touch, UpdateService, saveOfferings and publish, in one transaction.
SaveService(r, id, s) ==
    LET next == [s EXCEPT !.version = @ + 1]
    IN  /\ services[id].version < MaxServiceVersion
        /\ services' = [services EXCEPT ![id] = next]
        /\ svcEvents' = Append(svcEvents, ServiceChanged(id, next))
        /\ CatDone(r)

\* Mutant: a new price is everyone's price.
EditedForAll(s, d, active) ==
    [s EXCEPT !.details = d, !.active = active,
              !.offerings = [i \in DOMAIN @ |-> [@[i] EXCEPT !.price = Own]]]

\* Edit: the details and the flag, nothing else.
Edited(s, d, active) == [s EXCEPT !.details = d, !.active = active]

UpdateService(r, id, d, active) ==
    /\ catReq[r].pc = "page"
    /\ May(catReq[r].user, "manager")
    /\ ServiceIsAsSeen(r, id)
    /\ DetailsError(d) = "none"
    /\ SaveService(r, id, Edited(services[id], d, active))

\* SetOfferings: everyone listed works at the branch.
SetOfferings(r, id, os) ==
    /\ catReq[r].pc = "page"
    /\ May(catReq[r].user, "manager")
    /\ StaffAtBranch(CatStaff, CatBranches, CatBranch, {os[i].staff : i \in DOMAIN os})
    /\ ServiceIsAsSeen(r, id)
    /\ OfferingsError(os) = "none"
    /\ SaveService(r, id, [services[id] EXCEPT !.offerings = os])

\* Refused, given up or broken off.
CatAbort(r) ==
    /\ catReq[r].pc # "idle"
    /\ CatDone(r)
    /\ UNCHANGED <<services, svcEvents>>

-----------------------------------------------------------------------------
CatInit ==
    /\ services = [s \in ServiceIds |-> NoService]
    /\ svcEvents = << >>
    /\ catReq = [r \in CatRequests |-> NoCatRequest]

CatNext ==
    \/ \E m \in CatStaff, id \in ServiceIds, d \in CatDetails : CreateService(m.user, id, d)
    \/ \E r \in CatRequests :
          \/ \E m \in CatStaff : ListServices(r, m.user)
          \/ ListOfferings(r)
          \/ \E id \in ServiceIds, d \in CatDetails, a \in BOOLEAN : UpdateService(r, id, d, a)
          \/ \E id \in ServiceIds, os \in CatOfferings : SetOfferings(r, id, os)
          \/ CatAbort(r)

CatSpec == CatInit /\ [][CatNext]_catVars

-----------------------------------------------------------------------------
\* The events of a service, by their place, and the versions they tell of.
Tells(id) == {n \in DOMAIN svcEvents : svcEvents[n].id = id}

Versions(id) == {svcEvents[n].snapshot : n \in Tells(id)}

\* A menu is two reads.  If a service was saved at most once between them,
\* what the menu shows of it, performers with their prices and durations, is
\* the service as it was or as it became: a save changes the details or the
\* offerings, never both.
MenuIsAVersion ==
    \A r \in CatRequests : \A id \in ServiceIds :
        LET old   == catReq[r].seen[id]
            shown == MenuItem(old.details, catReq[r].menu[id])
        IN  (/\ catReq[r].pc = "page" /\ old # NoService /\ old.active
             /\ services[id].version <= old.version + 1)
                => \E v \in Versions(id) :
                      /\ v.version \in {old.version, old.version + 1}
                      /\ shown = MenuItem(v.details, v.offerings)

\* Of every step: nothing is overwritten unseen. The service a save replaces
\* has the details and the offerings of the page it was made from.
ServiceSavedAsSeen ==
    \A r \in CatRequests, id \in ServiceIds :
        (/\ catReq[r].pc = "page" /\ catReq'[r].pc = "idle"
         /\ services'[id] # services[id])
            => /\ services[id].details = catReq[r].seen[id].details
               /\ services[id].offerings = catReq[r].menu[id]

\* What other modules were last told of a service is what its menu sells:
\* every version once and in order, offered exactly when someone performs it,
\* from the price the cheapest performer takes.
FromPriceIsBookable ==
    \A id \in ServiceIds :
        LET s    == services[id]
            item == MenuItem(s.details, s.offerings)
        IN  /\ {svcEvents[n].version : n \in Tells(id)} = 1 .. s.version
            /\ \A m, n \in Tells(id) : m < n => svcEvents[m].version < svcEvents[n].version
            /\ \A n \in Tells(id) : svcEvents[n].version = s.version =>
                  /\ svcEvents[n].offered <=> s.active /\ item.performers # {}
                  /\ item.performers # {}
                        => /\ \E p \in item.performers : p.price = svcEvents[n].from
                           /\ \A p \in item.performers : p.price >= svcEvents[n].from
=============================================================================
