------------------------------ MODULE MCQueues ------------------------------
(***************************************************************************)
(* Who waits in a queue and must not wait for ever, instantiated for TLC:  *)
(* events in the outbox, and requests at the connection pool.  They share  *)
(* no state, so each behaviour is about one of them.  The other is at rest *)
(* with nothing left to do: nothing published and everything rolled out,   *)
(* or every request answered.  Every booking may try any barber, and the   *)
(* hours that change are one barber's; which one makes no difference.      *)
(***************************************************************************)
EXTENDS Outbox, ConnPool

CONSTANTS sub1, sub2

VARIABLE focus

\* The second release brings a subscriber the first does not have.
TwoReleases == <<{sub1}, {sub1, sub2}>>

queueVars == <<obVars, vars, focus>>

QueuesInit ==
    /\ ObInit
    /\ \/ focus = "outbox"
          /\ pc = [x \in Requests |-> "done"]
          /\ barber = [x \in Requests |-> None]
          /\ left = [b \in Bookings |-> {}]
       \/ focus = "pool" /\ api = 2
          /\ Init
          /\ left = [b \in Bookings |-> Barbers]
          /\ \A h \in HoursChanges : barber[h] = CHOOSE s \in Barbers : TRUE

QueuesNext ==
    /\ \/ focus = "outbox" /\ ObNext /\ UNCHANGED vars
       \/ focus = "pool" /\ Next /\ UNCHANGED obVars
    /\ UNCHANGED focus

QueuesSpec == QueuesInit /\ [][QueuesNext]_queueVars /\ ObFairness /\ Fairness
=============================================================================
