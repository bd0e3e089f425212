----------------------------- MODULE MCStaffing -----------------------------
(* Staffing alone, for TLC: one shop with one seat, during its trial.        *)
EXTENDS Staffing, TLC

MCStBranches == [s \in StShops |-> {"main"}]
MCStForms == {[role |-> "barber", name |-> 1, branches |-> {"main"}]}

\* People are alike, and so are requests.
Alike == Permutations(StPeople) \cup Permutations(StRequests)
=============================================================================
