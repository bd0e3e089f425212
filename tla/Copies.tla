-------------------------------- MODULE Copies --------------------------------
(***************************************************************************)
(* The copies other modules keep: business saves a branch and publishes    *)
(* what it became in one transaction; discovery and notification each keep *)
(* a copy, fed by the outbox.  The events carry the whole branch and its   *)
(* version; they arrive late, twice and in any order.  Catalog's services  *)
(* and scheduling's opening hours reach discovery the same way.            *)
(*                                                                         *)
(* An event is the version it publishes, and stands for what the branch    *)
(* was then.                                                               *)
(***************************************************************************)
EXTENDS Outbox

VARIABLES
    version,            \* business.branches.version; 0: not created yet
    copy                \* copy[s]: the version s holds; 0: none

MaxVersion == Cardinality(Events)

ASSUME VersionsAssumption == IsFiniteSet(Events) /\ Events = 1 .. MaxVersion

copyVars == <<version, copy>>

allVars == <<obVars, copyVars>>

\* BranchStore.Update (Add, for the first version): the branch is saved under
\* its row lock as the next version, and the event with it.
Save ==
    /\ version + 1 \in Events
    /\ version' = version + 1
    /\ PublishTx(version + 1)
    /\ UNCHANGED copy

\* Mutant: the last one handled wins.
KeptLast(held, v) == v

\* Keep: "unless the stored copy is of the same or a newer version", in one
\* statement.
Kept(held, v) == IF held < v THEN v ELSE held

\* The handler a delivery calls: KeepBranch.
Keep(w, d) ==
    /\ Handle(w, d)
    /\ copy' = [copy EXCEPT ![d[2]] = Kept(@, d[1])]
    /\ UNCHANGED version

CopiesInit ==
    /\ ObInit
    /\ version = 0
    /\ copy = [s \in Subscribers |-> 0]

CopiesNext ==
    \/ Save
    \/ \E w \in Workers, d \in Deliveries : Keep(w, d)
    \/ Background /\ UNCHANGED copyVars

CopiesSpec == CopiesInit /\ [][CopiesNext]_allVars

-----------------------------------------------------------------------------
\* Of every step: a copy never goes back to what the branch was before,
\* although events come twice and in any order, and never runs ahead of it.
CopiesGoForward ==
    \A s \in Subscribers : copy'[s] >= copy[s] /\ copy'[s] <= version'

\* Jobs that may still change a copy.
Underway ==
    \/ \E id \in Jobs : jobs[id].state \in {"available", "running"}
    \/ \E w \in Workers : run[w] # AtRest

\* Nothing was given up on.
NothingLost == \A id \in Jobs : jobs[id].state \notin {"cancelled", "discarded"}

\* When the outbox has nothing left to do, every copy is the branch: no update
\* is lost between the transaction that saved it and the module that copies it.
QuietMeansCurrent ==
    ~ Underway /\ NothingLost =>
        \A s \in Subscribers : version > 0 /\ s \in owed[version] => copy[s] = version

\* What discovery and notification show of a branch keeps up with it: it never
\* goes back or ahead, and is the branch itself once the outbox is quiet.
CopiesKeepUp == [][CopiesGoForward /\ QuietMeansCurrent']_allVars
=============================================================================
