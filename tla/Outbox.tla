-------------------------------- MODULE Outbox --------------------------------
(***************************************************************************)
(* The outbox between modules.  An event is saved as a job in the          *)
(* publisher's transaction; a worker fans it out into one delivery job per *)
(* subscriber; workers work the deliveries by calling the subscriber.      *)
(* Workers crash, handlers fail, and releases roll out: the api and the    *)
(* workers may run different ones, which know different subscribers.       *)
(*                                                                         *)
(* The queue itself (fetching, retrying, rescuing and discarding jobs) is  *)
(* River's, an external library.  One event type stands for all of them.   *)
(***************************************************************************)
EXTENDS Naturals, FiniteSets

CONSTANTS
    Events, Subscribers, Workers,
    Knows,              \* Knows[r]: the subscribers release r has, r in 1 .. Len
    Releases,           \* 1 .. n: a roll-out replaces a release by a later one
    JobAttempts,        \* River's attempts before a job is discarded
    UnknownWait,        \* unknownSubscriberWait
    ObHorizon,          \* bound: the clock stops here
    MaxFaults,          \* bound: failures, crashes and early rescues
    Nil

\* Each fault may make an event fan out once more.
Fans == 1 .. (MaxFaults + 1)

EventJob(e) == <<e, Nil, 0>>

Deliveries == Events \X Subscribers \X Fans

Jobs == {EventJob(e) : e \in Events} \cup Deliveries

ASSUME OutboxAssumption ==
    /\ Releases \subseteq Nat \ {0}
    /\ Knows \in [Releases -> SUBSET Subscribers]
    /\ JobAttempts \in Nat \ {0}
    /\ UnknownWait \in Nat /\ ObHorizon \in Nat /\ MaxFaults \in Nat
    /\ Nil \notin Subscribers
    /\ Nil \notin Jobs

VARIABLES
    obNow,
    api,                \* the release that publishes
    worker,             \* worker[w]: the release of a worker
    jobs,               \* river_job
    run,                \* run[w]: what a worker is at
    handled,            \* handled: (event, subscriber) pairs a handler finished
    owed,               \* history: who must hear of an event, as of publishing
    faults              \* bound: faults so far

obVars == <<obNow, api, worker, jobs, run, handled, owed, faults>>

\* A job is "available", "running", "completed", "cancelled" or "discarded";
\* failed is history, the attempts that really failed.
NoJob == [state |-> "none", attempts |-> 0, created |-> 0, subs |-> {}, failed |-> 0]

AtRest == [job |-> Nil, step |-> "idle"]

-----------------------------------------------------------------------------
(***************************************************************************)
(* River: what happens to a job.                                           *)
(***************************************************************************)
\* A result is written only if the job still counts as running.
SetState(j, new) == IF j.state = "running" THEN new ELSE j

\* An attempt failed: another one later, or none.
Retry(j) ==
    SetState(j, [j EXCEPT !.failed = @ + 1,
                          !.state = IF j.attempts >= JobAttempts THEN "discarded"
                                                                 ELSE "available"])

\* JobSnooze "doesn't use up attempts".
Snoozed(j) == SetState(j, [j EXCEPT !.state = "available", !.attempts = @ - 1])

\* A worker with nothing to do takes a job.
Fetch(w, id) ==
    /\ run[w] = AtRest
    /\ jobs[id].state = "available"
    /\ jobs' = [jobs EXCEPT ![id].state = "running", ![id].attempts = @ + 1]
    /\ run' = [run EXCEPT ![w] = [job |-> id, step |-> "working"]]
    /\ UNCHANGED <<obNow, api, worker, handled, owed, faults>>

\* The worker dies, or is stopped with its handlers still running.
Crash(w) ==
    /\ run[w] # AtRest
    /\ faults < MaxFaults
    /\ faults' = faults + 1
    /\ run' = [run EXCEPT ![w] = AtRest]
    /\ UNCHANGED <<obNow, api, worker, jobs, handled, owed>>

\* A job that has been running for long is taken to be abandoned.  It may not
\* be: a slow worker goes on with it.
Rescue(id) ==
    LET slow == \E w \in Workers : run[w].job = id
    IN  /\ jobs[id].state = "running"
        /\ slow => faults < MaxFaults
        /\ faults' = IF slow THEN faults + 1 ELSE faults
        /\ jobs' = [jobs EXCEPT ![id] = Retry(@)]
        /\ UNCHANGED <<obNow, api, worker, run, handled, owed>>

-----------------------------------------------------------------------------
(***************************************************************************)
(* The bus.                                                                *)
(***************************************************************************)
\* Who an event published now must reach: the subscribers the publisher knows,
\* and those every worker knows.
Audience == Knows[api] \cup {s \in Subscribers : \A w \in Workers : s \in Knows[worker[w]]}

\* PublishTx, in the publisher's transaction: the subscribers this release
\* knows travel with the event.
PublishTx(e) ==
    /\ jobs[EventJob(e)].state = "none"
    /\ jobs' = [jobs EXCEPT ![EventJob(e)] =
          [NoJob EXCEPT !.state = "available", !.created = obNow, !.subs = Knows[api]]]
    /\ owed' = [owed EXCEPT ![e] = Audience]
    /\ UNCHANGED <<obNow, api, worker, run, handled, faults>>

\* Mutant: only the subscribers this worker's release has.
NamesOwn(w) == Knows[worker[w]]

\* Mutant: only the subscribers that travelled with the event.
NamesPublished(w) == jobs[run[w].job].subs

\* The publisher's subscribers and this release's.
Names(w) == jobs[run[w].job].subs \cup Knows[worker[w]]

Works(w, e) == run[w] = [job |-> EventJob(e), step |-> "working"]

Delivers(w, d) == d \in Deliveries /\ run[w] = [job |-> d, step |-> "working"]

\* eventWorker.Work: the deliveries and the event's completion, together.
FanOut(w, e) ==
    /\ Works(w, e)
    /\ \E n \in Fans :
          /\ \A m \in Fans : m < n <=>
                \E s \in Subscribers : jobs[<<e, s, m>>].state # "none"
          /\ jobs' = [id \in Jobs |->
                IF id = EventJob(e)
                THEN SetState(jobs[id], [jobs[id] EXCEPT !.state = "completed"])
                ELSE IF id[1] = e /\ id[2] \in Names(w) /\ id[3] = n
                THEN [NoJob EXCEPT !.state = "available", !.created = obNow]
                ELSE jobs[id]]
    /\ run' = [run EXCEPT ![w] = AtRest]
    /\ UNCHANGED <<obNow, api, worker, handled, owed, faults>>

\* deliveryWorker.Work: the handler commits what it does.  The job is not
\* completed yet, and may never be.
Handle(w, d) ==
    /\ Delivers(w, d)
    /\ d[2] \in Knows[worker[w]]
    /\ handled' = handled \cup {<<d[1], d[2]>>}
    /\ run' = [run EXCEPT ![w].step = "handled"]
    /\ UNCHANGED <<obNow, api, worker, jobs, owed, faults>>

\* The worker is done with its job, with this result.
Finish(w, new) ==
    /\ jobs' = [jobs EXCEPT ![run[w].job] = new]
    /\ run' = [run EXCEPT ![w] = AtRest]
    /\ UNCHANGED <<obNow, api, worker, handled, owed>>

\* River writes that the handler returned.
Complete(w) ==
    LET j == jobs[run[w].job]
    IN  /\ run[w].step = "handled"
        /\ Finish(w, SetState(j, [j EXCEPT !.state = "completed"]))
        /\ UNCHANGED faults

\* The fan-out's transaction or the handler fails.
Fails(w) ==
    /\ run[w].step = "working"
    /\ faults < MaxFaults
    /\ faults' = faults + 1
    /\ Finish(w, Retry(jobs[run[w].job]))

\* A subscriber this release does not have: wait for a worker that has it.
Snooze(w, d) ==
    /\ Delivers(w, d)
    /\ d[2] \notin Knows[worker[w]]
    /\ obNow - jobs[d].created < UnknownWait
    /\ Finish(w, Snoozed(jobs[d]))
    /\ UNCHANGED faults

\* After a day it is a subscriber that was removed.
Drop(w, d) ==
    /\ Delivers(w, d)
    /\ d[2] \notin Knows[worker[w]]
    /\ obNow - jobs[d].created >= UnknownWait
    /\ Finish(w, SetState(jobs[d], [jobs[d] EXCEPT !.state = "cancelled"]))
    /\ UNCHANGED faults

-----------------------------------------------------------------------------
(***************************************************************************)
(* Roll-outs.  A worker is replaced once its jobs are done; one that is    *)
(* not waited for is a Crash.                                              *)
(***************************************************************************)
DeployApi ==
    /\ \E r \in Releases : r > api /\ api' = r
    /\ UNCHANGED <<obNow, worker, jobs, run, handled, owed, faults>>

DeployWorker(w) ==
    /\ run[w] = AtRest
    /\ \E r \in Releases : r > worker[w] /\ worker' = [worker EXCEPT ![w] = r]
    /\ UNCHANGED <<obNow, api, jobs, run, handled, owed, faults>>

ObTick ==
    /\ obNow < ObHorizon
    /\ obNow' = obNow + 1
    /\ UNCHANGED <<api, worker, jobs, run, handled, owed, faults>>

ObInit ==
    /\ obNow = 0
    /\ \E r \in Releases : api = r /\ worker = [w \in Workers |-> r]
    /\ jobs = [id \in Jobs |-> NoJob]
    /\ run = [w \in Workers |-> AtRest]
    /\ handled = {}
    /\ owed = [e \in Events |-> {}]
    /\ faults = 0

\* What a worker does with the job it has.
WorkStep(w) ==
    \/ \E e \in Events : FanOut(w, e)
    \/ \E d \in Deliveries : Handle(w, d) \/ Snooze(w, d) \/ Drop(w, d)
    \/ Complete(w)

\* Everything but publishing and handling.
Background ==
    \/ \E w \in Workers :
          \/ \E id \in Jobs : Fetch(w, id)
          \/ \E e \in Events : FanOut(w, e)
          \/ \E d \in Deliveries : Snooze(w, d) \/ Drop(w, d)
          \/ Complete(w) \/ Fails(w) \/ Crash(w) \/ DeployWorker(w)
    \/ \E id \in Jobs : Rescue(id)
    \/ DeployApi
    \/ ObTick

ObNext ==
    \/ \E e \in Events : PublishTx(e)
    \/ \E w \in Workers, d \in Deliveries : Handle(w, d)
    \/ Background

ObSpec == ObInit /\ [][ObNext]_obVars

\* Jobs are fetched in order, so each one's turn comes; a worker goes on with
\* the job it has; an abandoned job is found; a roll-out, once begun, reaches
\* every worker.
ObFairness ==
    /\ \A id \in Jobs : /\ SF_obVars(\E w \in Workers : Fetch(w, id))
                        /\ WF_obVars(Rescue(id) /\ ~ \E w \in Workers : run[w].job = id)
    /\ \A w \in Workers : WF_obVars(WorkStep(w)) /\ SF_obVars(DeployWorker(w))

ObFairSpec == ObSpec /\ ObFairness

-----------------------------------------------------------------------------
(***************************************************************************)
(* Properties.                                                             *)
(***************************************************************************)
\* An event is done only when everyone owed it has a delivery of their own,
\* whichever of the api and the workers was upgraded first ("either every
\* subscriber gets its delivery or the fan-out is retried").
NobodySkipped ==
    \A e \in Events : jobs[EventJob(e)].state = "completed" =>
        \A s \in owed[e] : \E n \in Fans : jobs[<<e, s, n>>].state # "none"

\* A job is given up only after it really failed JobAttempts times: waiting for
\* a worker that knows the subscriber never costs an attempt.
DiscardedForFailing ==
    \A id \in Jobs : jobs[id].state = "discarded" => jobs[id].failed >= JobAttempts

\* Everyone owed an event hears of it in the end, crashes, retries and roll-outs
\* included, unless its delivery was discarded or waited a day in vain.
EveryoneHears ==
    \A e \in Events, s \in Subscribers :
        s \in owed[e] ~>
            \/ <<e, s>> \in handled
            \/ jobs[EventJob(e)].state = "discarded"
            \/ \E n \in Fans : jobs[<<e, s, n>>].state \in {"discarded", "cancelled"}

\* Events are not lost on the way: one is done only when everyone owed it has a
\* delivery, and a job is given up only after it really failed JobAttempts times.
NoEventLost == NobodySkipped /\ DiscardedForFailing
=============================================================================
