------------------------------ MODULE MCPhones ------------------------------
(***************************************************************************)
(* What belongs to a phone, its one-time codes, its sessions and its push  *)
(* messages, and the copies of branches that pages and messages are made   *)
(* from: four modules that share no state.  Each behaviour is about one of *)
(* them; the others keep their initial states.                             *)
(***************************************************************************)
EXTENDS Sessions, Otp, Notification, Copies, TLC

CONSTANTS sub1, sub2

VARIABLE focus

phonesVars == <<vars, otpVars, ntVars, allVars, focus>>

\* The second release brings a subscriber the first does not have.
TwoReleases == <<{sub1}, {sub1, sub2}>>

\* A booking by the shop and a cancellation by the customer, whose own doing
\* is no news to them.
MCNotices ==
    <<[what |-> "booked", status |-> "pending", by |-> "", customer |-> "u1"],
      [what |-> "cancelled", status |-> "cancelled", by |-> "customer", customer |-> "u1"]>>

\* Two phones of one user, one of another.
ThreeDevices ==
    <<[user |-> "u1", token |-> "p1"], [user |-> "u1", token |-> "p2"],
      [user |-> "u2", token |-> "p3"]>>

\* "devices": phones register, are trimmed and removed; "pushes": two workers,
\* crashes and Google's refusals; "moving": one worker, while a phone changes
\* hands.
PhonesInit ==
    /\ Init
    /\ OtpInit
    /\ CopiesInit
    /\ \/ focus \in {"codes", "sessions", "devices", "copies"} /\ NtInit
       \/ focus = "pushes" /\ NtInitWith(ThreeDevices, 0)
       \/ focus = "moving" /\ NtInitWith(ThreeDevices, 1)
    /\ focus # "copies" => api = 1

Pushing ==
    \/ focus = "devices" /\ PhonesNext /\ UNCHANGED uninstalled
    \/ focus = "pushes" /\ (PushesNext \/ \E t \in Phones : Uninstall(t))
    \/ /\ focus = "moving"
       /\ NtNext
       /\ \A w \in Pushers : w # "w1" => pusher'[w] = NoWork
       /\ \A c \in Signers :
             signer'[c] # NoSigning => c = "c1" /\ signer'[c].row.token = "p1"
       /\ google'.changes = 0

PhonesSteps ==
    \/ focus = "codes" /\ OtpNext /\ UNCHANGED <<vars, ntVars, allVars>>
    \/ focus = "sessions" /\ Next /\ UNCHANGED <<otpVars, ntVars, allVars>>
    \/ Pushing /\ UNCHANGED <<vars, otpVars, allVars>>
    \/ focus = "copies" /\ CopiesNext /\ UNCHANGED <<vars, otpVars, ntVars>>

PhonesSpec == PhonesInit /\ [][PhonesSteps /\ UNCHANGED focus]_phonesVars

\* Callers are interchangeable.
Symmetric == Permutations(Callers)
=============================================================================
