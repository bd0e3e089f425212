---------------------------- MODULE OutboxProofs ----------------------------
(***************************************************************************)
(* What the outbox promises for any number of events, subscribers, workers *)
(* and releases: nobody is skipped by a fan-out, a job is given up for its *)
(* failures only, and the copies fed by it keep up with what they copy.    *)
(***************************************************************************)
EXTENDS Copies, FiniteSetTheorems, TLAPS

States == {"none", "available", "running", "completed", "cancelled", "discarded"}

JobRow == [state : States, attempts : Nat, created : Nat, subs : SUBSET Subscribers,
           failed : Nat]

\* River's count of attempts is the failures so far, and the one under way: a
\* snooze gives its attempt back, and a rescue counts as a failure.
Sound(j) ==
    /\ j \in JobRow
    /\ j.state \in {"none", "available"} => j.attempts = j.failed
    /\ j.state = "running" => j.attempts = j.failed + 1
    /\ j.state = "discarded" => j.failed >= JobAttempts

TypeOK ==
    /\ obNow \in Nat
    /\ api \in Releases
    /\ worker \in [Workers -> Releases]
    /\ run \in [Workers -> [job : Jobs \cup {Nil}, step : {"idle", "working", "handled"}]]
    /\ handled \subseteq Events \X Subscribers
    /\ owed \in [Events -> SUBSET Subscribers]
    /\ faults \in Nat

\* A worker that is not idle has a job, and only deliveries have handlers.
RunsJobs ==
    \A w \in Workers :
        /\ run[w].step # "idle" => run[w].job \in Jobs
        /\ run[w].step = "handled" => run[w].job \in Deliveries

JobsSound == DOMAIN jobs = Jobs /\ jobs = [id \in Jobs |-> jobs[id]]
                /\ \A id \in Jobs : Sound(jobs[id])

Inv == TypeOK /\ RunsJobs /\ JobsSound

-----------------------------------------------------------------------------
\* Event jobs and deliveries are told apart.
LEMMA JobIds ==
    /\ \A e \in Events : EventJob(e) \in Jobs /\ EventJob(e) \notin Deliveries
    /\ \A e, f \in Events : EventJob(e) = EventJob(f) => e = f
    /\ \A e \in Events, s \in Subscribers, n \in Fans :
          <<e, s, n>> \in Jobs /\ <<e, s, n>> \in Deliveries
    /\ \A e \in Events, d \in Deliveries : d # EventJob(e)
  BY OutboxAssumption DEF EventJob, Jobs, Deliveries

LEMMA NewJob ==
    /\ Sound(NoJob)
    /\ \A t \in Nat : /\ Sound([NoJob EXCEPT !.state = "available", !.created = t])
                      /\ [NoJob EXCEPT !.state = "available", !.created = t].state = "available"
    /\ \A t \in Nat, S \in SUBSET Subscribers :
          LET k == [NoJob EXCEPT !.state = "available", !.created = t, !.subs = S]
          IN  Sound(k) /\ k.state = "available" /\ k.subs = S
<1>1. /\ NoJob \in JobRow /\ NoJob.state = "none" /\ NoJob.attempts = NoJob.failed
      /\ NoJob.subs = {}
  BY DEF NoJob, JobRow, States
<1>2. Sound(NoJob)
  BY <1>1 DEF Sound
<1>3. ASSUME NEW t \in Nat, NEW S \in SUBSET Subscribers
      PROVE  LET k == [NoJob EXCEPT !.state = "available", !.created = t, !.subs = S]
             IN  Sound(k) /\ k.state = "available" /\ k.subs = S
  BY <1>1, <1>3 DEF Sound, JobRow, States
<1>4. ASSUME NEW t \in Nat
      PROVE  LET k == [NoJob EXCEPT !.state = "available", !.created = t]
             IN  Sound(k) /\ k.state = "available"
  BY <1>1, <1>4 DEF Sound, JobRow, States
<1>5. QED
  BY <1>2, <1>3, <1>4

\* What River writes into a job's row: k in place of j.
Rewritten(j, k) ==
    /\ Sound(k)
    /\ k.subs = j.subs
    /\ k.state = "none" <=> j.state = "none"

LEMMA RetryRow ==
    ASSUME NEW j, Sound(j)
    PROVE  /\ Rewritten(j, Retry(j))
           /\ Retry(j).state = "completed" => j.state = "completed"
<1>1. CASE j.state = "running" /\ j.attempts >= JobAttempts
  BY <1>1, OutboxAssumption DEF Sound, JobRow, States, Retry, SetState, Rewritten
<1>2. CASE j.state = "running" /\ ~ (j.attempts >= JobAttempts)
  BY <1>2, OutboxAssumption DEF Sound, JobRow, States, Retry, SetState, Rewritten
<1>3. CASE j.state # "running"
  BY <1>3 DEF Retry, SetState, Rewritten
<1>4. QED
  BY <1>1, <1>2, <1>3

LEMMA SnoozedRow ==
    ASSUME NEW j, Sound(j)
    PROVE  /\ Rewritten(j, Snoozed(j))
           /\ Snoozed(j).state = "completed" => j.state = "completed"
<1>1. CASE j.state = "running"
  <2> DEFINE k == [j EXCEPT !.state = "available", !.attempts = @ - 1]
  <2>1. j \in JobRow /\ j.failed \in Nat /\ j.attempts = j.failed + 1
    BY <1>1 DEF Sound, JobRow
  <2>2. j.attempts - 1 \in Nat /\ j.attempts - 1 = j.failed
    BY <2>1
  <2>3. /\ k \in JobRow /\ k.state = "available" /\ k.attempts = j.attempts - 1
        /\ k.failed = j.failed /\ k.subs = j.subs
    BY <2>1, <2>2 DEF JobRow, States
  <2>4. Snoozed(j) = k
    BY <1>1 DEF Snoozed, SetState
  <2> HIDE DEF k
  <2>5. QED
    BY <1>1, <2>2, <2>3, <2>4 DEF Sound, Rewritten
<1>2. CASE j.state # "running"
  BY <1>2 DEF Snoozed, SetState, Rewritten
<1>3. QED
  BY <1>1, <1>2

LEMMA EndedRow ==
    ASSUME NEW j, Sound(j), NEW s \in {"completed", "cancelled"}
    PROVE  /\ Rewritten(j, SetState(j, [j EXCEPT !.state = s]))
           /\ s = "cancelled" => (SetState(j, [j EXCEPT !.state = s]).state = "completed"
                                     => j.state = "completed")
  BY DEF Sound, JobRow, States, SetState, Rewritten

LEMMA FetchedRow ==
    ASSUME NEW j, Sound(j), j.state = "available"
    PROVE  LET k == [j EXCEPT !.state = "running", !.attempts = @ + 1]
           IN  Rewritten(j, k) /\ k.state = "running"
<1> DEFINE k == [j EXCEPT !.state = "running", !.attempts = @ + 1]
<1>1. j \in JobRow /\ j.attempts \in Nat /\ j.attempts = j.failed
  BY DEF Sound, JobRow
<1> DEFINE more == j.attempts + 1
<1>2. more \in Nat /\ k = [j EXCEPT !.state = "running", !.attempts = more]
  BY <1>1
<1> HIDE DEF k, more
<1>3. /\ k \in JobRow /\ k.state = "running" /\ k.attempts = more
      /\ k.failed = j.failed /\ k.subs = j.subs
  BY <1>1, <1>2 DEF JobRow, States
<1>4. Rewritten(j, k) /\ k.state = "running"
  BY <1>1, <1>3 DEF Sound, Rewritten, more
<1>5. QED
  BY <1>4 DEF k

-----------------------------------------------------------------------------
(***************************************************************************)
(* What a step does to the jobs.                                           *)
(***************************************************************************)
\* One row is rewritten; only a delivery is completed this way.
OneRow(id, k) ==
    /\ id \in Jobs
    /\ jobs' = [jobs EXCEPT ![id] = k]
    /\ Rewritten(jobs[id], k)
    /\ k.state = "completed" => jobs[id].state = "completed" \/ id \in Deliveries
    /\ UNCHANGED owed

Published(e) ==
    /\ jobs[EventJob(e)].state = "none"
    /\ \E k : /\ jobs' = [jobs EXCEPT ![EventJob(e)] = k]
              /\ Sound(k) /\ k.state = "available" /\ k.subs = Knows[api]
    /\ owed' = [owed EXCEPT ![e] = Audience]
    /\ UNCHANGED worker

\* The fan-out of e by w writes the deliveries of one round.
Fanned(w, e) ==
    /\ DOMAIN jobs' = Jobs /\ jobs' = [id \in Jobs |-> jobs'[id]]
    /\ \A id \in Jobs :
          \/ jobs'[id] = jobs[id]
          \/ id = EventJob(e) /\ Rewritten(jobs[id], jobs'[id])
          \/ id \in Deliveries /\ Sound(jobs'[id]) /\ jobs'[id].state = "available"
    /\ \E n \in Fans : \A s \in Subscribers :
          s \in jobs[EventJob(e)].subs \cup Knows[worker[w]] =>
              jobs'[<<e, s, n>>].state = "available"
    /\ UNCHANGED <<owed, worker>>

LEMMA FanOutDoes ==
    ASSUME Inv, NEW w \in Workers, NEW e \in Events, FanOut(w, e)
    PROVE  Fanned(w, e)
<1> DEFINE fresh == [NoJob EXCEPT !.state = "available", !.created = obNow]
           done == SetState(jobs[EventJob(e)], [jobs[EventJob(e)] EXCEPT !.state = "completed"])
<1>1. Sound(fresh) /\ fresh.state = "available"
  BY NewJob DEF Inv, TypeOK
<1>2. Rewritten(jobs[EventJob(e)], done)
  BY JobIds, EndedRow DEF Inv, JobsSound
<1>3. run[w].job = EventJob(e)
  BY DEF FanOut, Works
<1>4. PICK n \in Fans :
         jobs' = [id \in Jobs |->
            IF id = EventJob(e) THEN done
            ELSE IF id[1] = e /\ id[2] \in Names(w) /\ id[3] = n THEN fresh
            ELSE jobs[id]]
  BY DEF FanOut
<1> HIDE DEF fresh, done
<1>5. DOMAIN jobs' = Jobs /\ jobs' = [id \in Jobs |-> jobs'[id]]
  BY <1>4
<1>6. ASSUME NEW id \in Jobs
      PROVE  \/ jobs'[id] = jobs[id]
             \/ id = EventJob(e) /\ Rewritten(jobs[id], jobs'[id])
             \/ id \in Deliveries /\ Sound(jobs'[id]) /\ jobs'[id].state = "available"
  <2>1. CASE id = EventJob(e)
    BY <1>2, <1>4, <2>1
  <2>2. CASE id # EventJob(e) /\ id[1] = e /\ id[2] \in Names(w) /\ id[3] = n
    <3>1. id \in Deliveries
      BY <2>2, OutboxAssumption DEF Jobs, EventJob
    <3>2. QED
      BY <1>1, <1>4, <2>2, <3>1
  <2>3. CASE id # EventJob(e) /\ ~ (id[1] = e /\ id[2] \in Names(w) /\ id[3] = n)
    BY <1>4, <2>3
  <2>4. QED
    BY <2>1, <2>2, <2>3
<1>7. ASSUME NEW s \in Subscribers, s \in jobs[EventJob(e)].subs \cup Knows[worker[w]]
      PROVE  jobs'[<<e, s, n>>].state = "available"
  <2> DEFINE id == <<e, s, n>>
  <2>1. id \in Jobs /\ id # EventJob(e)
    BY JobIds
  <2>2. id[1] = e /\ id[2] \in Names(w) /\ id[3] = n
    BY <1>3, <1>7 DEF Names
  <2> HIDE DEF id
  <2>3. jobs'[id] = fresh
    BY <1>4, <2>1, <2>2
  <2>4. QED
    BY <1>1, <2>3 DEF id
<1>8. QED
  BY <1>5, <1>6, <1>7 DEF Fanned, FanOut

LEMMA JobsStep ==
    ASSUME Inv, [ObNext]_obVars
    PROVE  \/ UNCHANGED <<jobs, owed>>
           \/ \E id \in Jobs : \E k : OneRow(id, k) /\ UNCHANGED worker
           \/ \E e \in Events : Published(e)
           \/ \E w \in Workers, e \in Events : Fanned(w, e)
<1>1. ASSUME NEW e \in Events, PublishTx(e) PROVE Published(e)
  <2> DEFINE k == [NoJob EXCEPT !.state = "available", !.created = obNow, !.subs = Knows[api]]
  <2>1. Knows[api] \in SUBSET Subscribers /\ obNow \in Nat
    BY OutboxAssumption DEF Inv, TypeOK
  <2>2. Sound(k) /\ k.state = "available" /\ k.subs = Knows[api]
    BY <2>1, NewJob
  <2>3. QED
    BY <1>1, <2>2 DEF PublishTx, Published
<1>2. ASSUME NEW w \in Workers, NEW id \in Jobs, Fetch(w, id)
      PROVE  \E k : OneRow(id, k)
  <2> DEFINE k == [jobs[id] EXCEPT !.state = "running", !.attempts = @ + 1]
  <2>1. Sound(jobs[id]) /\ jobs[id].state = "available"
    BY <1>2 DEF Fetch, Inv, JobsSound
  <2>2. Rewritten(jobs[id], k) /\ k.state = "running"
    BY <2>1, FetchedRow
  <2>3. jobs' = [jobs EXCEPT ![id] = k]
    BY <1>2 DEF Fetch
  <2>4. UNCHANGED owed
    BY <1>2 DEF Fetch
  <2> HIDE DEF k
  <2>5. QED
    BY <2>2, <2>3, <2>4 DEF OneRow
<1>3. ASSUME NEW id \in Jobs, Rescue(id)
      PROVE  OneRow(id, Retry(jobs[id]))
  BY <1>3, RetryRow DEF Rescue, OneRow, Inv, JobsSound
<1>4. ASSUME NEW w \in Workers, Complete(w)
      PROVE  \E id \in Jobs : \E k : OneRow(id, k)
  <2>1. run[w].job \in Jobs /\ run[w].job \in Deliveries
    BY <1>4 DEF Complete, Inv, RunsJobs
  <2>2. Sound(jobs[run[w].job])
    BY <2>1 DEF Inv, JobsSound
  <2> DEFINE k == SetState(jobs[run[w].job], [jobs[run[w].job] EXCEPT !.state = "completed"])
  <2>3. jobs' = [jobs EXCEPT ![run[w].job] = k] /\ UNCHANGED owed
    BY <1>4 DEF Complete, Finish
  <2>4. Rewritten(jobs[run[w].job], k)
    BY <2>2, EndedRow
  <2> HIDE DEF k
  <2>5. OneRow(run[w].job, k)
    BY <2>1, <2>3, <2>4 DEF OneRow
  <2>6. QED
    BY <2>1, <2>5
<1>5. ASSUME NEW w \in Workers, Fails(w)
      PROVE  \E id \in Jobs : \E k : OneRow(id, k)
  <2>1. run[w].job \in Jobs
    BY <1>5 DEF Fails, Inv, RunsJobs
  <2>2. Sound(jobs[run[w].job])
    BY <2>1 DEF Inv, JobsSound
  <2>3. QED
    BY <1>5, <2>1, <2>2, RetryRow DEF Fails, Finish, OneRow
<1>6. ASSUME NEW w \in Workers, NEW d \in Deliveries, Snooze(w, d)
      PROVE  OneRow(d, Snoozed(jobs[d]))
  <2>1. run[w].job = d /\ d \in Jobs
    BY <1>6 DEF Snooze, Delivers, Jobs
  <2>2. Sound(jobs[d])
    BY <2>1 DEF Inv, JobsSound
  <2>3. QED
    BY <1>6, <2>1, <2>2, SnoozedRow DEF Snooze, Finish, OneRow
<1>7. ASSUME NEW w \in Workers, NEW d \in Deliveries, Drop(w, d)
      PROVE  \E k : OneRow(d, k)
  <2>1. run[w].job = d /\ d \in Jobs
    BY <1>7 DEF Drop, Delivers, Jobs
  <2>2. Sound(jobs[d])
    BY <2>1 DEF Inv, JobsSound
  <2>3. QED
    BY <1>7, <2>1, <2>2, EndedRow DEF Drop, Finish, OneRow
<1>8. ASSUME NEW w \in Workers, NEW e \in Events, FanOut(w, e) PROVE Fanned(w, e)
  BY <1>8, FanOutDoes
<1>9. Deliveries \subseteq Jobs
  BY DEF Jobs
<1>10. UNCHANGED worker \/ UNCHANGED <<jobs, owed>>
  BY DEF ObNext, Background, PublishTx, Fetch, FanOut, Snooze, Drop, Complete, Fails, Finish,
     Crash, DeployWorker, Rescue, DeployApi, ObTick, Handle, obVars
<1>11. QED
  BY <1>1, <1>2, <1>3, <1>4, <1>5, <1>6, <1>7, <1>8, <1>9, <1>10
  DEF ObNext, Background, Handle, Crash, DeployWorker, DeployApi, ObTick, obVars

-----------------------------------------------------------------------------
LEMMA TypeStep == Inv /\ [ObNext]_obVars => TypeOK' /\ RunsJobs'
<1> SUFFICES ASSUME Inv, [ObNext]_obVars PROVE TypeOK' /\ RunsJobs'
  OBVIOUS
<1> USE DEF Inv, TypeOK, RunsJobs
<1>1. ASSUME NEW w \in Workers, run' = [run EXCEPT ![w] = AtRest],
             UNCHANGED <<obNow, api, worker, handled, owed>>, faults' \in {faults, faults + 1}
      PROVE  TypeOK' /\ RunsJobs'
  BY <1>1 DEF AtRest
<1>2. ASSUME NEW e \in Events, PublishTx(e) PROVE TypeOK' /\ RunsJobs'
  <2>1. Audience \in SUBSET Subscribers
    BY OutboxAssumption DEF Audience
  <2>2. QED
    BY <1>2, <2>1 DEF PublishTx
<1>3. ASSUME NEW w \in Workers, NEW d \in Deliveries, Handle(w, d) PROVE TypeOK' /\ RunsJobs'
  <2>1. /\ run[w].job = d /\ d \in Jobs /\ d[1] \in Events /\ d[2] \in Subscribers
        /\ run' = [run EXCEPT ![w].step = "handled"]
        /\ handled' = handled \cup {<<d[1], d[2]>>}
        /\ UNCHANGED <<obNow, api, worker, jobs, owed, faults>>
    BY <1>3 DEF Handle, Delivers, Deliveries, Jobs
  <2>2. QED
    BY <2>1
<1>4. ASSUME NEW w \in Workers, NEW id \in Jobs, Fetch(w, id) PROVE TypeOK' /\ RunsJobs'
  BY <1>4 DEF Fetch
<1>5. ASSUME NEW w \in Workers, NEW e \in Events, FanOut(w, e) PROVE TypeOK' /\ RunsJobs'
  BY <1>1, <1>5 DEF FanOut
<1>6. ASSUME NEW w \in Workers, NEW d \in Deliveries, Snooze(w, d) \/ Drop(w, d)
      PROVE  TypeOK' /\ RunsJobs'
  BY <1>1, <1>6 DEF Snooze, Drop, Finish
<1>7. ASSUME NEW w \in Workers, Complete(w) \/ Fails(w) \/ Crash(w) PROVE TypeOK' /\ RunsJobs'
  BY <1>1, <1>7 DEF Complete, Fails, Crash, Finish
<1>8. ASSUME NEW w \in Workers, DeployWorker(w) PROVE TypeOK' /\ RunsJobs'
  BY <1>8 DEF DeployWorker
<1>9. ASSUME NEW id \in Jobs, Rescue(id) PROVE TypeOK' /\ RunsJobs'
  BY <1>9 DEF Rescue
<1>10. CASE DeployApi \/ ObTick \/ UNCHANGED obVars
  BY <1>10 DEF DeployApi, ObTick, obVars
<1>11. QED
  BY <1>2, <1>3, <1>4, <1>5, <1>6, <1>7, <1>8, <1>9, <1>10 DEF ObNext, Background

LEMMA InvStep == Inv /\ [ObNext]_obVars => Inv'
<1> SUFFICES ASSUME Inv, [ObNext]_obVars PROVE Inv'
  OBVIOUS
<1>1. JobsSound'
  <2>1. CASE UNCHANGED <<jobs, owed>>
    BY <2>1 DEF Inv, JobsSound
  <2>2. ASSUME NEW id \in Jobs, NEW k, OneRow(id, k) PROVE JobsSound'
    BY <2>2 DEF OneRow, Rewritten, Inv, JobsSound
  <2>3. ASSUME NEW e \in Events, Published(e) PROVE JobsSound'
    BY <2>3, JobIds DEF Published, Inv, JobsSound
  <2>4. ASSUME NEW w \in Workers, NEW e \in Events, Fanned(w, e) PROVE JobsSound'
    BY <2>4 DEF Fanned, Rewritten, Inv, JobsSound
  <2>5. QED
    BY <2>1, <2>2, <2>3, <2>4, JobsStep
<1>2. QED
  BY <1>1, TypeStep DEF Inv

LEMMA InvInit == ObInit => Inv
<1> SUFFICES ASSUME ObInit PROVE Inv
  OBVIOUS
<1>1. JobsSound
  BY NewJob DEF ObInit, JobsSound
<1>2. TypeOK /\ RunsJobs
  BY DEF ObInit, TypeOK, RunsJobs, AtRest
<1>3. QED
  BY <1>1, <1>2 DEF Inv

-----------------------------------------------------------------------------
(***************************************************************************)
(* Nobody is skipped.  Whoever is owed an event either travels with it or  *)
(* is known to every worker that may fan it out, for as long as releases   *)
(* do not take subscribers away.                                           *)
(***************************************************************************)
ReleasesOnlyAdd == \A r, q \in Releases : r <= q => Knows[r] \subseteq Knows[q]

EveryFanReaches ==
    \A e \in Events, w \in Workers :
        owed[e] \subseteq jobs[EventJob(e)].subs \cup Knows[worker[w]]

DeliveryInv == EveryFanReaches /\ NobodySkipped

LEMMA ReachStep ==
    ASSUME ReleasesOnlyAdd, Inv, EveryFanReaches, [ObNext]_obVars
    PROVE  EveryFanReaches'
<1>1. CASE UNCHANGED <<jobs, owed>>
  <2>1. \A w \in Workers : Knows[worker[w]] \subseteq Knows[worker'[w]]
    <3>1. \A w \in Workers : worker[w] \in Releases /\ worker'[w] \in Releases
      BY TypeStep DEF Inv, TypeOK
    <3>2. \A w \in Workers : worker'[w] = worker[w] \/ worker'[w] > worker[w]
      BY DEF ObNext, Background, PublishTx, Fetch, FanOut, Snooze, Drop, Complete, Fails, Finish,
         Crash, DeployWorker, Rescue, DeployApi, ObTick, Handle, obVars, Inv, TypeOK
    <3>3. \A w \in Workers : worker[w] \in Nat /\ worker'[w] \in Nat
      BY <3>1, OutboxAssumption
    <3>4. \A w \in Workers : worker[w] <= worker'[w]
      BY <3>2, <3>3
    <3>5. QED
      BY <3>1, <3>4 DEF ReleasesOnlyAdd
  <2>2. QED
    BY <1>1, <2>1 DEF EveryFanReaches
<1>2. ASSUME NEW id \in Jobs, NEW k, OneRow(id, k), UNCHANGED worker PROVE EveryFanReaches'
  <2>1. \A x \in Jobs : jobs'[x].subs = jobs[x].subs
    BY <1>2 DEF OneRow, Rewritten, Inv, JobsSound
  <2>2. QED
    BY <1>2, <2>1, JobIds DEF OneRow, EveryFanReaches
<1>3. ASSUME NEW e \in Events, Published(e) PROVE EveryFanReaches'
  <2> SUFFICES ASSUME NEW f \in Events, NEW w \in Workers
               PROVE  owed'[f] \subseteq jobs'[EventJob(f)].subs \cup Knows[worker'[w]]
    BY DEF EveryFanReaches
  <2>1. EventJob(e) \in Jobs /\ EventJob(f) \in Jobs
    BY JobIds
  <2>2. CASE f = e
    <3>1. jobs'[EventJob(e)].subs = Knows[api] /\ owed'[e] = Audience /\ worker' = worker
      BY <1>3, <2>1 DEF Published, Inv, JobsSound, TypeOK
    <3>2. Audience \subseteq Knows[api] \cup Knows[worker[w]]
      BY DEF Audience
    <3>3. QED
      BY <2>2, <3>1, <3>2
  <2>3. CASE f # e
    <3>1. EventJob(f) # EventJob(e)
      BY <2>3, JobIds
    <3>2. jobs'[EventJob(f)] = jobs[EventJob(f)] /\ owed'[f] = owed[f] /\ worker' = worker
      BY <1>3, <2>1, <2>3, <3>1 DEF Published, Inv, JobsSound, TypeOK
    <3>3. QED
      BY <3>2 DEF EveryFanReaches
  <2>4. QED
    BY <2>2, <2>3
<1>4. ASSUME NEW w \in Workers, NEW e \in Events, Fanned(w, e) PROVE EveryFanReaches'
  <2>1. \A f \in Events : jobs'[EventJob(f)].subs = jobs[EventJob(f)].subs
    BY <1>4, JobIds DEF Fanned, Rewritten
  <2>2. QED
    BY <1>4, <2>1 DEF Fanned, EveryFanReaches
<1>5. QED
  BY <1>1, <1>2, <1>3, <1>4, JobsStep

LEMMA SkipStep ==
    ASSUME Inv, DeliveryInv, [ObNext]_obVars
    PROVE  NobodySkipped'
<1>0. \A e \in Events : owed[e] \subseteq Subscribers
  BY DEF Inv, TypeOK
<1>1. CASE UNCHANGED <<jobs, owed>>
  BY <1>1 DEF DeliveryInv, NobodySkipped
<1>2. ASSUME NEW id \in Jobs, NEW k, OneRow(id, k) PROVE NobodySkipped'
  <2> SUFFICES ASSUME NEW e \in Events, jobs'[EventJob(e)].state = "completed"
               PROVE  \A s \in owed[e] : \E n \in Fans : jobs'[<<e, s, n>>].state # "none"
    BY <1>2 DEF NobodySkipped, OneRow
  <2>1. jobs[EventJob(e)].state = "completed"
    BY <1>2, JobIds DEF OneRow, Inv, JobsSound
  <2>2. \A x \in Jobs : jobs[x].state # "none" => jobs'[x].state # "none"
    BY <1>2 DEF OneRow, Rewritten, Inv, JobsSound
  <2>3. QED
    BY <1>0, <2>1, <2>2, JobIds DEF DeliveryInv, NobodySkipped
<1>3. ASSUME NEW e \in Events, Published(e) PROVE NobodySkipped'
  <2> SUFFICES ASSUME NEW f \in Events, jobs'[EventJob(f)].state = "completed"
               PROVE  \A s \in owed'[f] : \E n \in Fans : jobs'[<<f, s, n>>].state # "none"
    BY DEF NobodySkipped
  <2>1. f # e
    BY <1>3, JobIds DEF Published, Inv, JobsSound
  <2>2. owed'[f] = owed[f] /\ \A x \in Jobs \ {EventJob(e)} : jobs'[x] = jobs[x]
    BY <1>3, <2>1 DEF Published, Inv, JobsSound, TypeOK
  <2>3. EventJob(f) \in Jobs \ {EventJob(e)}
    BY <2>1, JobIds
  <2>4. \A s \in owed[f], n \in Fans : <<f, s, n>> \in Jobs \ {EventJob(e)}
    BY <1>0, JobIds
  <2>5. QED
    BY <2>2, <2>3, <2>4 DEF DeliveryInv, NobodySkipped
<1>4. ASSUME NEW w \in Workers, NEW e \in Events, Fanned(w, e) PROVE NobodySkipped'
  <2> SUFFICES ASSUME NEW f \in Events, jobs'[EventJob(f)].state = "completed"
               PROVE  \A s \in owed[f] : \E n \in Fans : jobs'[<<f, s, n>>].state # "none"
    BY <1>4 DEF NobodySkipped, Fanned
  <2>1. CASE f = e
    <3>1. owed[e] \subseteq jobs[EventJob(e)].subs \cup Knows[worker[w]]
      BY DEF DeliveryInv, EveryFanReaches
    <3>2. \E n \in Fans : \A s \in owed[e] : jobs'[<<e, s, n>>].state = "available"
      BY <1>0, <1>4, <3>1 DEF Fanned
    <3>3. QED
      BY <2>1, <3>2
  <2>2. CASE f # e
    <3>1. jobs'[EventJob(f)] = jobs[EventJob(f)]
      BY <1>4, <2>2, JobIds DEF Fanned
    <3>2. \A d \in Deliveries : jobs[d].state # "none" => jobs'[d].state # "none"
      BY <1>4, JobIds DEF Fanned, Jobs
    <3>3. \A s \in owed[f], n \in Fans : <<f, s, n>> \in Deliveries
      BY <1>0, JobIds
    <3>4. QED
      BY <3>1, <3>2, <3>3 DEF DeliveryInv, NobodySkipped
  <2>3. QED
    BY <2>1, <2>2
<1>5. QED
  BY <1>1, <1>2, <1>3, <1>4, JobsStep

LEMMA DeliveryInit == ObInit => DeliveryInv
<1> SUFFICES ASSUME ObInit PROVE DeliveryInv
  OBVIOUS
<1>1. \A e \in Events : owed[e] = {}
  BY DEF ObInit
<1>2. QED
  BY <1>1 DEF DeliveryInv, EveryFanReaches, NobodySkipped

LEMMA DeliveryStep ==
    ASSUME ReleasesOnlyAdd, Inv, DeliveryInv, [ObNext]_obVars
    PROVE  DeliveryInv'
  BY ReachStep, SkipStep DEF DeliveryInv

\* For as long as no release takes a subscriber away, an event counts as done
\* only when everyone owed it has a delivery: PublishTx and eventWorker.Work
\* unite what the two releases know, in whichever order they are rolled out,
\* and however often the fan-out is interrupted, rescued and repeated.  And
\* River discards a job only after JobAttempts real failures, since the wait
\* for a worker that knows the subscriber gives its attempt back.
THEOREM EventsAreNotLost == ReleasesOnlyAdd => (ObSpec => []NoEventLost)
<1> SUFFICES ASSUME ReleasesOnlyAdd PROVE ObSpec => []NoEventLost
  OBVIOUS
<1>1. Inv /\ DeliveryInv /\ [ObNext]_obVars => DeliveryInv'
  BY DeliveryStep
<1>2. Inv /\ DeliveryInv => NoEventLost
  BY DEF Inv, JobsSound, Sound, DeliveryInv, NoEventLost, DiscardedForFailing
<1>3. QED
  BY <1>1, <1>2, DeliveryInit, InvInit, InvStep, PTL DEF ObSpec

-----------------------------------------------------------------------------
(***************************************************************************)
(* The copies.  A delivery that counts as completed was handled, and what  *)
(* was handled is in the copy; what was never published is in no job, so   *)
(* no copy runs ahead of the branch.                                       *)
(***************************************************************************)
LEMMA Versions == MaxVersion \in Nat /\ Events \subseteq Nat \ {0}
<1>1. MaxVersion \in Nat
  BY VersionsAssumption, FS_CardinalityType DEF MaxVersion
<1>2. QED
  BY <1>1, VersionsAssumption

LEMMA FirstOfId ==
    /\ \A e \in Events : EventJob(e)[1] = e
    /\ \A id \in Jobs : id[1] \in Events
    /\ \A d \in Deliveries : d \in Jobs /\ d[2] \in Subscribers
  BY DEF EventJob, Jobs, Deliveries

\* Of a step that publishes nothing, what becomes of a job and of a worker.
JobMoves(id) ==
    /\ jobs[id].state # "none" => jobs'[id].state # "none"
    /\ jobs'[id].state # "none" =>
          jobs[id].state # "none" \/ \E w \in Workers : run[w].job = EventJob(id[1])
    /\ jobs'[id].state = "completed" /\ id \in Deliveries =>
          \/ jobs[id].state = "completed"
          \/ \E w \in Workers : run[w].job = id /\ run[w].step = "handled"

WorkerMoves(w) ==
    /\ run'[w].job \in Jobs =>
          run'[w].job = run[w].job \/ jobs[run'[w].job].state # "none"
    /\ run'[w].step = "handled" =>
          /\ run'[w].job = run[w].job
          /\ \/ run[w].step = "handled"
             \/ <<run[w].job[1], run[w].job[2]>> \in handled'

Moves == (\A id \in Jobs : JobMoves(id)) /\ (\A w \in Workers : WorkerMoves(w))

\* One row is rewritten, and completed only by the worker that handled it.
LEMMA RowMoves ==
    ASSUME Inv, NEW id \in Jobs, NEW k, jobs' = [jobs EXCEPT ![id] = k],
           Rewritten(jobs[id], k),
           k.state = "completed" => \/ jobs[id].state = "completed"
                                    \/ \E w \in Workers : run[w].job = id /\ run[w].step = "handled"
    PROVE  \A x \in Jobs : JobMoves(x)
<1> TAKE x \in Jobs
<1>1. jobs'[x] = IF x = id THEN k ELSE jobs[x]
  BY DEF Inv, JobsSound
<1>2. CASE x = id
  BY <1>1, <1>2 DEF JobMoves, Rewritten
<1>3. CASE x # id
  BY <1>1, <1>3 DEF JobMoves
<1>4. QED
  BY <1>2, <1>3

LEMMA SameJobs ==
    ASSUME UNCHANGED jobs
    PROVE  \A x \in Jobs : JobMoves(x)
  BY DEF JobMoves

\* A worker leaves its job, the others stay at theirs.
LEMMA RestMoves ==
    ASSUME Inv, NEW w \in Workers, run' = [run EXCEPT ![w] = AtRest]
    PROVE  \A x \in Workers : WorkerMoves(x)
<1> TAKE x \in Workers
<1>1. run'[x] = IF x = w THEN AtRest ELSE run[x]
  BY DEF Inv, TypeOK
<1>2. AtRest.job = Nil /\ AtRest.step = "idle"
  BY DEF AtRest
<1>3. CASE x = w
  BY <1>1, <1>2, <1>3, OutboxAssumption DEF WorkerMoves
<1>4. CASE x # w
  BY <1>1, <1>4 DEF WorkerMoves
<1>5. QED
  BY <1>3, <1>4

LEMMA SameRuns ==
    ASSUME UNCHANGED run
    PROVE  \A x \in Workers : WorkerMoves(x)
  BY DEF WorkerMoves

LEMMA MovesStep ==
    ASSUME Inv, \/ Background
                \/ \E w \in Workers, d \in Deliveries : Handle(w, d)
                \/ UNCHANGED obVars
    PROVE  Moves
<1>1. ASSUME NEW w \in Workers, NEW d \in Deliveries, Handle(w, d) PROVE Moves
  <2>1. /\ run[w].job = d /\ UNCHANGED jobs
        /\ run' = [run EXCEPT ![w].step = "handled"]
        /\ <<d[1], d[2]>> \in handled'
    BY <1>1 DEF Handle, Delivers
  <2>2. \A x \in Workers : run'[x].job = run[x].job /\ (x # w => run'[x] = run[x])
    BY <2>1 DEF Inv, TypeOK
  <2>3. QED
    BY <2>1, <2>2, SameJobs DEF Moves, WorkerMoves
<1>2. ASSUME NEW w \in Workers, NEW id \in Jobs, Fetch(w, id) PROVE Moves
  <2> DEFINE k == [jobs[id] EXCEPT !.state = "running", !.attempts = @ + 1]
             r == [job |-> id, step |-> "working"]
  <2>1. Sound(jobs[id]) /\ jobs[id].state = "available"
    BY <1>2 DEF Fetch, Inv, JobsSound
  <2>2. Rewritten(jobs[id], k) /\ k.state = "running"
    BY <2>1, FetchedRow
  <2>3. jobs' = [jobs EXCEPT ![id] = k] /\ run' = [run EXCEPT ![w] = r]
    BY <1>2 DEF Fetch
  <2>4. r.job = id /\ r.step = "working"
    OBVIOUS
  <2> HIDE DEF k, r
  <2>5. \A x \in Jobs : JobMoves(x)
    BY <2>2, <2>3, RowMoves
  <2>6. \A x \in Workers : run'[x] = IF x = w THEN r ELSE run[x]
    BY <2>3 DEF Inv, TypeOK
  <2>7. \A x \in Workers : WorkerMoves(x)
    BY <2>1, <2>4, <2>6 DEF WorkerMoves
  <2>8. QED
    BY <2>5, <2>7 DEF Moves
<1>3. ASSUME NEW id \in Jobs, Rescue(id) PROVE Moves
  <2>1. Sound(jobs[id])
    BY DEF Inv, JobsSound
  <2>2. Rewritten(jobs[id], Retry(jobs[id]))
        /\ (Retry(jobs[id]).state = "completed" => jobs[id].state = "completed")
    BY <2>1, RetryRow
  <2>3. jobs' = [jobs EXCEPT ![id] = Retry(jobs[id])] /\ UNCHANGED run
    BY <1>3 DEF Rescue
  <2>4. QED
    BY <2>2, <2>3, RowMoves, SameRuns DEF Moves
<1>4. ASSUME NEW w \in Workers, Complete(w) PROVE Moves
  <2> DEFINE id == run[w].job
             k == SetState(jobs[id], [jobs[id] EXCEPT !.state = "completed"])
  <2>1. id \in Jobs /\ run[w].step = "handled"
    BY <1>4 DEF Complete, Inv, RunsJobs
  <2>2. Sound(jobs[id])
    BY <2>1 DEF Inv, JobsSound
  <2>3. jobs' = [jobs EXCEPT ![id] = k] /\ run' = [run EXCEPT ![w] = AtRest]
    BY <1>4 DEF Complete, Finish
  <2>4. Rewritten(jobs[id], k)
    BY <2>2, EndedRow
  <2> HIDE DEF k
  <2>5. \A x \in Jobs : JobMoves(x)
    BY <2>1, <2>3, <2>4, RowMoves
  <2>6. QED
    BY <2>3, <2>5, RestMoves DEF Moves
<1>5. ASSUME NEW w \in Workers, Fails(w) PROVE Moves
  <2> DEFINE id == run[w].job
  <2>1. id \in Jobs
    BY <1>5 DEF Fails, Inv, RunsJobs
  <2>2. Sound(jobs[id])
    BY <2>1 DEF Inv, JobsSound
  <2>3. jobs' = [jobs EXCEPT ![id] = Retry(jobs[id])] /\ run' = [run EXCEPT ![w] = AtRest]
    BY <1>5 DEF Fails, Finish
  <2>4. \A x \in Jobs : JobMoves(x)
    BY <2>1, <2>2, <2>3, RetryRow, RowMoves
  <2>5. QED
    BY <2>3, <2>4, RestMoves DEF Moves
<1>6. ASSUME NEW w \in Workers, NEW d \in Deliveries, Snooze(w, d) PROVE Moves
  <2>1. run[w].job = d /\ d \in Jobs
    BY <1>6 DEF Snooze, Delivers, Jobs
  <2>2. Sound(jobs[d])
    BY <2>1 DEF Inv, JobsSound
  <2>3. jobs' = [jobs EXCEPT ![d] = Snoozed(jobs[d])] /\ run' = [run EXCEPT ![w] = AtRest]
    BY <1>6, <2>1 DEF Snooze, Finish
  <2>4. \A x \in Jobs : JobMoves(x)
    BY <2>1, <2>2, <2>3, SnoozedRow, RowMoves
  <2>5. QED
    BY <2>3, <2>4, RestMoves DEF Moves
<1>7. ASSUME NEW w \in Workers, NEW d \in Deliveries, Drop(w, d) PROVE Moves
  <2> DEFINE k == SetState(jobs[d], [jobs[d] EXCEPT !.state = "cancelled"])
  <2>1. run[w].job = d /\ d \in Jobs
    BY <1>7 DEF Drop, Delivers, Jobs
  <2>2. Sound(jobs[d])
    BY <2>1 DEF Inv, JobsSound
  <2>3. jobs' = [jobs EXCEPT ![d] = k] /\ run' = [run EXCEPT ![w] = AtRest]
    BY <1>7, <2>1 DEF Drop, Finish
  <2>4. Rewritten(jobs[d], k) /\ (k.state = "completed" => jobs[d].state = "completed")
    BY <2>2, EndedRow
  <2> HIDE DEF k
  <2>5. \A x \in Jobs : JobMoves(x)
    BY <2>1, <2>3, <2>4, RowMoves
  <2>6. QED
    BY <2>3, <2>5, RestMoves DEF Moves
<1>8. ASSUME NEW w \in Workers, NEW e \in Events, FanOut(w, e) PROVE Moves
  <2>1. run[w].job = EventJob(e) /\ run' = [run EXCEPT ![w] = AtRest]
    BY <1>8 DEF FanOut, Works
  <2>2. ASSUME NEW id \in Jobs PROVE JobMoves(id)
    <3>1. \/ jobs'[id] = jobs[id]
          \/ id = EventJob(e) /\ Rewritten(jobs[id], jobs'[id])
          \/ id \in Deliveries /\ jobs'[id].state = "available"
      BY <1>8, FanOutDoes DEF Fanned
    <3>2. jobs'[id] = jobs[id] \/ id = EventJob(e) \/ id[1] = e
      BY <1>8 DEF FanOut
    <3>3. id[1] = e \/ jobs'[id] = jobs[id]
      BY <3>2, FirstOfId
    <3>4. id = EventJob(e) => id \notin Deliveries
      BY JobIds
    <3>5. QED
      BY <2>1, <3>1, <3>3, <3>4 DEF JobMoves, Rewritten
  <2>3. QED
    BY <2>1, <2>2, RestMoves DEF Moves
<1>9. ASSUME NEW w \in Workers, Crash(w) PROVE Moves
  BY <1>9, SameJobs, RestMoves DEF Crash, Moves
<1>10. CASE \/ \E w \in Workers : DeployWorker(w)
            \/ DeployApi \/ ObTick \/ UNCHANGED obVars
  BY <1>10, SameJobs, SameRuns DEF DeployWorker, DeployApi, ObTick, obVars, Moves
<1>11. QED
  BY <1>1, <1>2, <1>3, <1>4, <1>5, <1>6, <1>7, <1>8, <1>9, <1>10 DEF Background

\* The version and the copies of it, each at most the version.
Numbered ==
    /\ version \in Nat /\ (version > 0 => version \in Events)
    /\ copy \in [Subscribers -> Nat]
    /\ \A s \in Subscribers : copy[s] <= version

\* The events published are those of the versions so far, and jobs and workers
\* know of no other.
OnlyPublished ==
    /\ \A id \in Jobs : jobs[id].state # "none" => id[1] <= version
    /\ \A e \in Events : e <= version => jobs[EventJob(e)].state # "none"
    /\ \A w \in Workers : run[w].job \in Jobs => run[w].job[1] <= version

\* What was handled is in the copy, and a delivery is completed once handled.
HandledIsKept ==
    /\ \A h \in handled : h[1] <= copy[h[2]]
    /\ \A d \in Deliveries : jobs[d].state = "completed" => <<d[1], d[2]>> \in handled
    /\ \A w \in Workers :
          run[w].step = "handled" => <<run[w].job[1], run[w].job[2]>> \in handled

CopiesInv == Numbered /\ OnlyPublished /\ HandledIsKept

LEMMA SaveStep ==
    ASSUME Inv, CopiesInv, Save
    PROVE  CopiesInv' /\ CopiesGoForward
<1> DEFINE e == version + 1
<1>1. /\ e \in Events /\ version' = e /\ UNCHANGED <<copy, run, handled>>
      /\ PublishTx(e)
  BY DEF Save, PublishTx
<1>2. version \in Nat /\ e \in Nat /\ version < e /\ \A f \in Events : f \in Nat
  BY Versions DEF CopiesInv, Numbered
<1>3. \A f \in Events : f <= e <=> f <= version \/ f = e
  BY <1>2
<1>4. PICK k : jobs' = [jobs EXCEPT ![EventJob(e)] = k] /\ k.state = "available"
  <2> DEFINE k == [NoJob EXCEPT !.state = "available", !.created = obNow, !.subs = Knows[api]]
  <2>1. jobs' = [jobs EXCEPT ![EventJob(e)] = k]
    BY <1>1 DEF PublishTx
  <2>2. k.state = "available"
    BY DEF NoJob
  <2>3. QED
    BY <2>1, <2>2
<1> HIDE DEF e
<1>5. \A id \in Jobs : jobs'[id] = IF id = EventJob(e) THEN k ELSE jobs[id]
  BY <1>4 DEF Inv, JobsSound
<1>6. Numbered' /\ CopiesGoForward
  BY <1>1, <1>2 DEF CopiesInv, Numbered, CopiesGoForward
<1>7. OnlyPublished'
  <2>1. ASSUME NEW id \in Jobs, jobs'[id].state # "none" PROVE id[1] <= e
    <3>1. CASE id = EventJob(e)
      BY <1>1, <1>2, <3>1, FirstOfId
    <3>2. CASE id # EventJob(e)
      <4>1. id[1] <= version /\ id[1] \in Events
        BY <1>5, <2>1, <3>2, FirstOfId DEF CopiesInv, OnlyPublished
      <4>2. QED
        BY <1>3, <4>1
    <3>3. QED
      BY <3>1, <3>2
  <2>2. ASSUME NEW f \in Events, f <= e PROVE jobs'[EventJob(f)].state # "none"
    <3>1. EventJob(f) \in Jobs
      BY JobIds
    <3>2. CASE f = e
      BY <1>4, <1>5, <3>1, <3>2
    <3>3. CASE f # e
      <4>1. EventJob(f) # EventJob(e) /\ f <= version
        BY <1>1, <1>3, <2>2, <3>3, JobIds
      <4>2. QED
        BY <1>5, <3>1, <4>1 DEF CopiesInv, OnlyPublished
    <3>4. QED
      BY <3>2, <3>3
  <2>3. ASSUME NEW w \in Workers, run[w].job \in Jobs PROVE run[w].job[1] <= e
    BY <1>3, <2>3, FirstOfId DEF CopiesInv, OnlyPublished
  <2>4. QED
    BY <1>1, <2>1, <2>2, <2>3 DEF OnlyPublished
<1>8. HandledIsKept'
  <2>1. \A d \in Deliveries : jobs'[d] = jobs[d]
    BY <1>1, <1>5, JobIds, FirstOfId
  <2>2. QED
    BY <1>1, <2>1 DEF CopiesInv, HandledIsKept
<1>9. QED
  BY <1>6, <1>7, <1>8 DEF CopiesInv

\* Whatever else happens leaves the published events as they are.
LEMMA PublishedStep ==
    ASSUME Inv, Inv', CopiesInv, Moves, UNCHANGED version
    PROVE  OnlyPublished'
<1>1. ASSUME NEW id \in Jobs, jobs'[id].state # "none" PROVE id[1] <= version
  <2>1. CASE jobs[id].state # "none"
    BY <2>1 DEF CopiesInv, OnlyPublished
  <2>2. CASE \E w \in Workers : run[w].job = EventJob(id[1])
    <3>1. id[1] \in Events /\ EventJob(id[1]) \in Jobs /\ EventJob(id[1])[1] = id[1]
      BY FirstOfId, JobIds
    <3>2. QED
      BY <2>2, <3>1 DEF CopiesInv, OnlyPublished
  <2>3. QED
    BY <1>1, <2>1, <2>2 DEF Moves, JobMoves
<1>2. \A e \in Events : e <= version => jobs'[EventJob(e)].state # "none"
  BY JobIds DEF Moves, JobMoves, CopiesInv, OnlyPublished
<1>3. ASSUME NEW w \in Workers, run'[w].job \in Jobs PROVE run'[w].job[1] <= version
  BY <1>3 DEF Moves, WorkerMoves, CopiesInv, OnlyPublished
<1>4. QED
  BY <1>1, <1>2, <1>3 DEF OnlyPublished

LEMMA KeptStep ==
    ASSUME Inv, CopiesInv, Moves, handled \subseteq handled'
    PROVE  /\ \A d \in Deliveries : jobs'[d].state = "completed" => <<d[1], d[2]>> \in handled'
           /\ \A w \in Workers :
                 run'[w].step = "handled" => <<run'[w].job[1], run'[w].job[2]>> \in handled'
<1>1. ASSUME NEW d \in Deliveries, jobs'[d].state = "completed"
      PROVE  <<d[1], d[2]>> \in handled'
  <2>1. d \in Jobs
    BY FirstOfId
  <2>2. QED
    BY <1>1, <2>1 DEF Moves, JobMoves, CopiesInv, HandledIsKept
<1>2. ASSUME NEW w \in Workers, run'[w].step = "handled"
      PROVE  <<run'[w].job[1], run'[w].job[2]>> \in handled'
  BY <1>2 DEF Moves, WorkerMoves, CopiesInv, HandledIsKept
<1>3. QED
  BY <1>1, <1>2

LEMMA KeepStep ==
    ASSUME Inv, Inv', CopiesInv, NEW w \in Workers, NEW d \in Deliveries, Keep(w, d)
    PROVE  CopiesInv' /\ CopiesGoForward
<1>1. /\ Handle(w, d) /\ UNCHANGED version /\ run[w].job = d
      /\ copy' = [copy EXCEPT ![d[2]] = Kept(copy[d[2]], d[1])]
      /\ handled' = handled \cup {<<d[1], d[2]>>}
  BY DEF Keep, Handle, Delivers
<1>2. Moves
  BY <1>1, MovesStep
<1>3. d \in Jobs /\ d[1] \in Nat /\ d[2] \in Subscribers
  BY FirstOfId, Versions
<1>4. d[1] <= version /\ version \in Nat
  BY <1>1, <1>3 DEF CopiesInv, OnlyPublished, Numbered
<1>5. /\ copy[d[2]] \in Nat /\ copy[d[2]] <= version
  BY <1>3 DEF CopiesInv, Numbered
<1> DEFINE k == Kept(copy[d[2]], d[1])
<1>6. k \in Nat /\ k <= version /\ copy[d[2]] <= k /\ d[1] <= k
  BY <1>3, <1>4, <1>5 DEF Kept
<1>7. \A s \in Subscribers : copy'[s] = IF s = d[2] THEN k ELSE copy[s]
  BY <1>1 DEF CopiesInv, Numbered
<1>8. copy' \in [Subscribers -> Nat]
  BY <1>1, <1>6 DEF CopiesInv, Numbered
<1> HIDE DEF k
<1>9. \A s \in Subscribers : copy[s] \in Nat /\ copy'[s] \in Nat /\ copy[s] <= copy'[s]
  BY <1>6, <1>7, <1>8 DEF CopiesInv, Numbered
<1>10. Numbered' /\ CopiesGoForward
  BY <1>1, <1>4, <1>6, <1>7, <1>8, <1>9 DEF CopiesInv, Numbered, CopiesGoForward
<1>11. ASSUME NEW h \in handled' PROVE h[1] <= copy'[h[2]]
  <2>1. CASE h \in handled
    <3>1. h[1] \in Nat /\ h[2] \in Subscribers /\ h[1] <= copy[h[2]]
      BY <2>1, Versions DEF Inv, TypeOK, CopiesInv, HandledIsKept
    <3>2. QED
      BY <1>9, <3>1
  <2>2. CASE h = <<d[1], d[2]>>
    BY <1>3, <1>6, <1>7, <2>2
  <2>3. QED
    BY <1>1, <2>1, <2>2
<1>12. HandledIsKept'
  BY <1>1, <1>2, <1>11, KeptStep DEF HandledIsKept
<1>13. QED
  BY <1>1, <1>2, <1>10, <1>12, PublishedStep DEF CopiesInv

LEMMA BackgroundStep ==
    ASSUME Inv, Inv', CopiesInv, Background \/ UNCHANGED obVars, UNCHANGED copyVars
    PROVE  CopiesInv' /\ CopiesGoForward
<1>1. Moves
  BY MovesStep
<1>2. UNCHANGED <<version, copy>>
  BY DEF copyVars
<1>3. UNCHANGED handled
  BY DEF Background, Fetch, FanOut, Snooze, Drop, Complete, Fails, Finish, Crash,
     DeployWorker, Rescue, DeployApi, ObTick, obVars
<1>4. Numbered' /\ CopiesGoForward
  BY <1>2 DEF CopiesInv, Numbered, CopiesGoForward
<1>5. HandledIsKept'
  BY <1>1, <1>2, <1>3, KeptStep DEF CopiesInv, HandledIsKept
<1>6. QED
  BY <1>1, <1>2, <1>4, <1>5, PublishedStep DEF CopiesInv

LEMMA CopiesNextIsNext == [CopiesNext]_allVars => [ObNext]_obVars
  BY DEF CopiesNext, Save, Keep, ObNext, allVars

LEMMA CopiesStep ==
    ASSUME Inv, CopiesInv, [CopiesNext]_allVars
    PROVE  CopiesInv' /\ CopiesGoForward
<1>1. Inv'
  BY CopiesNextIsNext, InvStep
<1>2. QED
  BY <1>1, SaveStep, KeepStep, BackgroundStep DEF CopiesNext, allVars

\* Quiet means current: the newest version's event is completed, so everyone
\* owed it has a delivery, which is completed too, so handled, so kept.
LEMMA Quiet == Inv /\ DeliveryInv /\ CopiesInv => QuietMeansCurrent
<1> SUFFICES ASSUME Inv, DeliveryInv, CopiesInv, ~ Underway, NothingLost,
                    NEW s \in Subscribers, version > 0, s \in owed[version]
             PROVE  copy[s] = version
  BY DEF QuietMeansCurrent
<1>1. /\ version \in Nat /\ copy[s] \in Nat /\ copy[s] <= version
  BY DEF CopiesInv, Numbered
<1>2. version \in Events
  BY DEF CopiesInv, Numbered
<1>3. ASSUME NEW id \in Jobs, jobs[id].state # "none" PROVE jobs[id].state = "completed"
  <2>1. jobs[id].state \in States
    BY DEF Inv, JobsSound, Sound, JobRow
  <2>2. QED
    BY <1>3, <2>1 DEF Underway, NothingLost, States
<1>4. jobs[EventJob(version)].state = "completed"
  BY <1>1, <1>2, <1>3, JobIds DEF CopiesInv, OnlyPublished
<1>5. PICK n \in Fans : jobs[<<version, s, n>>].state # "none"
  BY <1>2, <1>4 DEF DeliveryInv, NobodySkipped
<1>6. <<version, s, n>> \in Jobs /\ <<version, s, n>> \in Deliveries
  BY <1>2, JobIds
<1>7. <<version, s>> \in handled
  BY <1>3, <1>5, <1>6 DEF CopiesInv, HandledIsKept
<1>8. version <= copy[s]
  BY <1>7 DEF CopiesInv, HandledIsKept
<1>9. QED
  BY <1>1, <1>8

\* For as long as no release takes a subscriber away, a copy never goes back
\* nor ahead of the branch, and is the branch once the outbox is quiet and gave
\* nothing up: however late, often and out of order the events come, KeepBranch
\* keeps the newest, and the one that published it was not lost on the way.
THEOREM CopiesAreCurrent == ReleasesOnlyAdd => (CopiesSpec => CopiesKeepUp)
<1> SUFFICES ASSUME ReleasesOnlyAdd PROVE CopiesSpec => CopiesKeepUp
  OBVIOUS
<1> DEFINE All == Inv /\ DeliveryInv /\ CopiesInv
<1>1. CopiesInit => All
  <2> SUFFICES ASSUME CopiesInit PROVE All
    OBVIOUS
  <2>1. ObInit /\ version = 0 /\ copy = [s \in Subscribers |-> 0]
    BY DEF CopiesInit
  <2>2. Inv /\ DeliveryInv
    BY <2>1, InvInit, DeliveryInit
  <2>3. Numbered
    BY <2>1 DEF Numbered
  <2>4. (\A id \in Jobs : jobs[id].state = "none") /\ handled = {}
        /\ \A w \in Workers : run[w] = AtRest
    BY <2>1 DEF ObInit, NoJob
  <2>5. \A w \in Workers : run[w].job \notin Jobs /\ run[w].step = "idle"
    BY <2>4, OutboxAssumption DEF AtRest
  <2>6. \A e \in Events : ~ (e <= version)
    BY <2>1, Versions
  <2>7. OnlyPublished
    BY <2>4, <2>5, <2>6 DEF OnlyPublished
  <2>8. HandledIsKept
    BY <2>4, <2>5, FirstOfId DEF HandledIsKept
  <2>9. QED
    BY <2>2, <2>3, <2>7, <2>8 DEF CopiesInv
<1>2. All /\ [CopiesNext]_allVars => All' /\ CopiesGoForward
  BY CopiesNextIsNext, InvStep, DeliveryStep, CopiesStep
<1>3. All' => QuietMeansCurrent'
  BY Quiet, PTL
<1>4. All /\ [CopiesNext]_allVars => [CopiesGoForward /\ QuietMeansCurrent']_allVars
  BY <1>2, <1>3
<1> HIDE DEF All
<1>5. QED
  BY <1>1, <1>2, <1>4, PTL DEF CopiesSpec, CopiesKeepUp
=============================================================================
