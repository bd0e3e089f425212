----------------------------- MODULE MCBooking -----------------------------
(***************************************************************************)
(* Instances of Booking for TLC.  Each behaviour plays one scene at one    *)
(* branch, whose policy and hours suit it; what a scene has no use for     *)
(* stays as it was at the start.                                           *)
(***************************************************************************)
EXTENDS Booking, TLC

CONSTANTS u1, u2, staff1, k1, k2,
          strict,       \* a branch that answers by hand, one booking a customer
          easy,         \* one that confirms at once
          slow          \* one that answers by hand, two bookings a customer

VARIABLES scene,
          asking        \* the requests that take part

sceneVars == <<vars, scene, asking>>

MCBranches == {strict, easy, slow}
MCUsers == {u1, u2, staff1}
MCDuration == [cut |-> [b \in Barbers |-> 1]]
MCMember ==
    [u \in MCUsers |->
        IF u = staff1
        THEN [role |-> "manager", staff |-> None, branches |-> MCBranches]
        ELSE [role |-> "none", staff |-> None, branches |-> {}]]
MCPolicy ==
    [br \in MCBranches |->
        [minLead |-> 0, horizonDays |-> 0, slotInterval |-> 1, buffer |-> 0,
         autoConfirm |-> br = easy, pendingExpiry |-> 1, cancellationWindow |-> 0,
         maxActive |-> IF br = strict THEN 1 ELSE 2]]

\* Hours that may be shortened while others book.
MCHours == {{1, 2}, {2}}
MCTimeOffs == {{1}}

Ask(br, kind, u, k, start, b) ==
    [kind |-> kind, requester |-> u, key |-> k, branch |-> br,
     start |-> start, sel |-> "cut", barber |-> b]

\* "race": a key retried, reused and raced, the same customer under two keys,
\* another customer with a named barber, a walk-in, all for one time.
RaceRequests ==
    {Ask(strict, "customer_app", u1, k1, 1, AnyBarber),
     Ask(strict, "customer_app", u1, k1, 2, AnyBarber),
     Ask(strict, "customer_app", u1, k2, 1, AnyBarber),
     Ask(strict, "customer_app", u2, k1, 1, 1),
     Ask(strict, "staff", staff1, k1, 1, 1)}

\* "hours": hours that change under two requests for the same time.
HoursRequests ==
    {Ask(easy, "customer_app", u1, k1, 1, AnyBarber),
     Ask(easy, "customer_app", u2, k1, 1, 1)}

\* "life": a booking that waits for the shop's answer, or one that does not,
\* and everybody who may change it.
LifeRequests ==
    {Ask(slow, "customer_app", u1, k1, 1, 1),
     Ask(slow, "customer_app", u2, k1, 2, 1),
     Ask(slow, "staff", staff1, k1, 2, 1)}

\* "locks": two customers who take any barber, a booking of one of them that
\* makes the other see the barbers in another order, and a request nobody may
\* make.
LockRequests ==
    {Ask(easy, "customer_app", u1, k1, 1, AnyBarber),
     Ask(easy, "customer_app", u2, k1, 1, AnyBarber),
     Ask(easy, "customer_app", u1, k2, 2, 1),
     Ask(easy, "staff", u2, k2, 2, 1)}

\* "due": two bookings that wait, more than a batch of one takes, and a request
\* that is refused.
DueRequests ==
    {Ask(slow, "customer_app", u1, k1, 1, 1),
     Ask(slow, "customer_app", u2, k1, 2, 1),
     Ask(slow, "staff", u2, k2, 2, 1)}

MCRequests ==
    RaceRequests \cup HoursRequests \cup LifeRequests \cup LockRequests \cup DueRequests

Steady(br) == scene # "hours" \/ br # easy

\* The hours a scene begins with.
BeginHours ==
    /\ opening \in {f \in [MCBranches -> MCHours] :
            \A br \in MCBranches : Steady(br) => f[br] = {1, 2}}
    /\ sched \in {f \in [MCBranches \X Barbers -> MCHours] :
            \A br \in MCBranches, b \in Barbers :
                Steady(br) => f[<<br, b>>] = {1, 2}}

-----------------------------------------------------------------------------
(* What must never happen.                                                 *)

Asked ==
    CASE scene = "race" -> RaceRequests
      [] scene = "hours" -> HoursRequests
      [] scene = "life" -> LifeRequests

Askers == CASE scene = "race" -> 3 [] scene = "hours" -> 2 [] scene = "life" -> 1

\* Who does not ask has some command, and never sends it.
SceneInit ==
    /\ scene \in {"race", "hours", "life"}
    /\ asking \in {A \in SUBSET Procs : Cardinality(A) = Askers}
    /\ cmd \in {f \in [Procs -> Asked] :
                  \A p \in Procs \ asking : f[p] = CHOOSE r \in Asked : TRUE}
    /\ BeginHours
    /\ Init

HoursOfEasy ==
    /\ HoursChange
    /\ \A br \in MCBranches \ {easy} :
          /\ opening'[br] = opening[br]
          /\ \A b \in Barbers : sched'[<<br, b>>] = sched[<<br, b>>]

SceneNext ==
    /\ \/ \E p \in asking : Step(p) \/ Abort(p)
       \/ scene = "race" /\ now = 0 /\ Tick
       \/ scene = "hours" /\ HoursOfEasy
       \/ scene = "life" /\ \/ \E c \in Changers : ChangeStep(c)
                            \/ \E e \in Expirers :
                                  \/ ExpireStart(e) \/ ExpireLock(e)
                                  \/ ExpireCommit(e) \/ ExpireAbort(e)
                            \/ Tick
    /\ UNCHANGED <<scene, asking>>

SceneSpec == SceneInit /\ [][SceneNext]_sceneVars

Symmetry ==
    Permutations(Procs) \cup Permutations(Changers) \cup Permutations(Expirers)

-----------------------------------------------------------------------------
(* What must happen.                                                       *)

EachOnce(asked) ==
    CHOOSE f \in [Procs -> asked] : \A p, q \in Procs : p # q => f[p] # f[q]

\* "locks": the first three at once, or the first, its retry and the last; and
\* barbers who take the time off that one of them is about to book.
WaitInit ==
    /\ scene \in {"locks", "due"}
    /\ asking = Procs
    /\ cmd \in
          IF scene = "due" THEN {EachOnce(DueRequests)}
          ELSE {EachOnce({r \in LockRequests : r.kind = "customer_app"}),
                CHOOSE f \in [Procs -> LockRequests] :
                    /\ \E p \in Procs : f[p].kind = "staff"
                    /\ Cardinality({p \in Procs :
                          f[p] = Ask(easy, "customer_app", u1, k1, 1, AnyBarber)}) = 2}
    /\ BeginHours
    /\ Init

\* When a booking becomes due, the request that is refused is out of the way.
Refused == \A p \in Procs : MayBook(cmd[p]) \/ pc[p] = "done"

WaitNext ==
    /\ \/ \E p \in Procs :
             /\ scene = "locks" \/ Refused \/ ~ MayBook(cmd[p])
             /\ Step(p) \/ Abort(p)
       \/ scene = "locks" /\ \E b \in Barbers, s \in TimeOffs : AddTimeOff(b, s)
       \/ scene = "due" /\ Refused /\
             \/ \E c \in Changers : ChangeStep(c)
             \/ \E e \in Expirers :
                   \/ ExpireStart(e) \/ ExpireLock(e)
                   \/ ExpireCommit(e) \/ ExpireAbort(e)
             \/ Tick
    /\ UNCHANGED <<scene, asking>>

\* Booking's fairness, with the expiry job at work where there is one.
WaitSpec ==
    /\ WaitInit /\ [][WaitNext]_sceneVars
    /\ RequestFairness
    /\ \A e \in Expirers :
          /\ WF_vars(scene = "due" /\ ExpireStart(e))
          /\ WF_vars(ExpireLock(e))
          /\ WF_vars(ExpireCommit(e) \/ ExpireAbort(e))
          /\ SF_vars(ExpireCommit(e) /\ expiring[e].batch # {})
=============================================================================
