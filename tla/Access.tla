------------------------------- MODULE Access -------------------------------
(***************************************************************************)
(* Who may do what at a branch.  Business knows who works where; the other *)
(* modules ask it and apply their own rules to the answer.  A member is    *)
(*   [id |-> staff ID, user |-> , role |-> , active |-> , branches |-> ]   *)
(* and NoMember stands for a user who is not staff of the business.        *)
(***************************************************************************)
EXTENDS Naturals, FiniteSets

NoMember == [id |-> "nobody", user |-> "nobody", role |-> "none",
             active |-> FALSE, branches |-> {}]

rank(role) ==
    CASE role = "owner" -> 3 [] role = "manager" -> 2 [] role = "barber" -> 1
      [] OTHER -> 0

\* StaffMember.Authorize: deactivated staff may do nothing.
Authorize(m, need) == m.active /\ rank(m.role) >= rank(need)

\* StaffMember.WorksAt: the owner works at every branch.
WorksAt(m, branch) == m.role = "owner" \/ branch \in m.branches

AuthorizeMemberAt(m, need, branch) == Authorize(m, need) /\ WorksAt(m, branch)

\* authorize: strangers and former staff learn nothing, staff below the role
\* are forbidden.
authorize(m, need) ==
    CASE m = NoMember \/ ~ m.active -> "not_found"
      [] ~ Authorize(m, need) -> "forbidden"
      [] OTHER -> "none"

\* AccessHandler.Branch: the caller's role, then whether the branch is the
\* business's, then whether the caller works there.
AuthorizeBranch(m, need, own, branch) ==
    CASE authorize(m, need) # "none" -> authorize(m, need)
      [] branch \notin own -> "not_found"
      [] ~ AuthorizeMemberAt(m, need, branch) -> "forbidden"
      [] OTHER -> "none"

\* AccessHandler.MemberOf: the caller's own membership, if it is active.
MemberOf(staff, user) ==
    IF \E m \in staff : m.user = user /\ m.active
    THEN CHOOSE m \in staff : m.user = user /\ m.active
    ELSE NoMember

\* AccessHandler.StaffMember.
StaffMember(staff, id) ==
    IF \E m \in staff : m.id = id /\ m.active
    THEN CHOOSE m \in staff : m.id = id /\ m.active
    ELSE NoMember

\* AccessHandler.StaffAtBranch: the branch is the business's and each of the
\* staff works there.
StaffAtBranch(staff, own, branch, ids) ==
    /\ branch \in own
    /\ \A id \in ids : \E m \in staff : m.id = id /\ m.active /\ WorksAt(m, branch)
=============================================================================
