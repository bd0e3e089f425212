------------------------------ MODULE Billing ------------------------------
(***************************************************************************)
(* Plans and what they allow.  A business has one subscription at most,    *)
(* the trial its approval starts; where it stands depends on the clock     *)
(* alone, no job ends a trial.                                             *)
(***************************************************************************)
EXTENDS Naturals

CONSTANTS
    TrialLength,
    FreeStaff, FreeBranches,        \* the Free plan
    ProStaff, ProBranches           \* the Pro plan, which trials have

ASSUME BillingAssumption ==
    /\ TrialLength \in Nat \ {0}
    /\ FreeStaff \in Nat /\ ProStaff \in Nat /\ FreeStaff <= ProStaff
    /\ FreeBranches \in Nat /\ ProBranches \in Nat /\ FreeBranches <= ProBranches

\* PlanByCode, and plans.
PlanByCode(code) ==
    IF code = "pro" THEN [code |-> "pro", MaxBranches |-> ProBranches, MaxStaff |-> ProStaff]
                    ELSE [code |-> "free", MaxBranches |-> FreeBranches, MaxStaff |-> FreeStaff]

NoSubscription == [plan |-> "none", periodEnd |-> 0]

SetupStanding == [plan |-> PlanByCode("pro"), status |-> "setup"]

\* StartTrial: counted from the approval, not from its delivery.
StartTrial(approvedAt) == [plan |-> "pro", periodEnd |-> approvedAt + TrialLength]

\* Mutant: the trial's limits outlast it.
StandingAtForever(sub, now) ==
    [plan |-> PlanByCode(sub.plan), status |-> IF now < sub.periodEnd THEN "trialing" ELSE "free"]

\* StandingAt: the trial plan until its end, then Free.
StandingAt(sub, now) ==
    IF now < sub.periodEnd THEN [plan |-> PlanByCode(sub.plan), status |-> "trialing"]
                           ELSE [plan |-> PlanByCode("free"), status |-> "free"]

\* AddIfAbsent, InsertSubscriptionIfAbsent: ON CONFLICT DO NOTHING.
AddIfAbsent(sub, new) == IF sub = NoSubscription THEN new ELSE sub

\* Handlers.Standing.
Standing(sub, now) ==
    IF sub = NoSubscription THEN SetupStanding ELSE StandingAt(sub, now)

\* Limits.AllowBranch and AllowStaff: checked when something is added.
AllowBranch(plan, existing) == existing < plan.MaxBranches
AllowStaff(plan, seats) == seats < plan.MaxStaff
=============================================================================
