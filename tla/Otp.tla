--------------------------------- MODULE Otp ---------------------------------
(***************************************************************************)
(* One-time codes for one phone number: asking for a code and typing one.  *)
(* Both handlers do their work in a transaction that holds the phone's     *)
(* advisory lock (WithPhoneLock), read everything after they have it and   *)
(* write what they decided; the code is sent by SMS after the commit.      *)
(* Phones share nothing, so one stands for all.                            *)
(*                                                                         *)
(* A code is its position in the table; a guess is a code or Wrong.        *)
(***************************************************************************)
EXTENDS Integers, Sequences, FiniteSets

CONSTANTS
    Callers,            \* concurrent calls: each serves one after another
    TTL, ResendCooldown, MaxAttempts, MaxFailures, FailureWindow, Lockout,
    MaxPerHour, Hour,
    OtpHorizon             \* bound: the clock stops here

ASSUME PolicyAssumption ==
    /\ {TTL, ResendCooldown, MaxAttempts, MaxFailures, FailureWindow,
        Lockout, MaxPerHour, Hour} \subseteq Nat \ {0}
    /\ MaxFailures > 1
    /\ Lockout >= FailureWindow
    /\ OtpHorizon \in Nat

VARIABLES
    otpNow,
    codes,              \* iam.otp_challenges, oldest first
    guard,              \* the phone's row of iam.otp_phone_guards
    call,               \* call[x]: what x does, and what it read under the lock
    delivered,          \* codes the SMS provider took
    accepted,           \* history: the codes that signed someone in, in order
    failedAt            \* history: when each failure since then was counted

otpVars == <<otpNow, codes, guard, call, delivered, accepted, failedAt>>

Never == -1
Wrong == 0

\* OTPGuard of a phone not seen before, and one that signed in.
NoGuard == [failures |-> 0, windowStart |-> Never, lockedUntil |-> Never]

Idle == [pc |-> "idle", guess |-> Wrong, at |-> 0, guard |-> NoGuard, codes |-> << >>]

-----------------------------------------------------------------------------
(***************************************************************************)
(* domain.OTPGuard and domain.OTPChallenge.                                *)
(***************************************************************************)
\* OTPGuard.Check.
Check(g, at) == at >= g.lockedUntil

\* Mutant: the lockout starts one failure late.
FailLate(g, at) ==
    LET over == at >= g.windowStart + FailureWindow \/ g.lockedUntil # Never
        n    == IF over THEN 1 ELSE g.failures + 1
    IN  [failures    |-> n,
         windowStart |-> IF n = 1 THEN at ELSE g.windowStart,
         lockedUntil |-> IF n > MaxFailures THEN at + Lockout ELSE Never]

\* OTPGuard.Fail of a guard that is not locked: a new window once the last one
\* or a lockout is over, one more failure, and the lockout once there are enough.
Fail(g, at) ==
    LET over == at >= g.windowStart + FailureWindow \/ g.lockedUntil # Never
        n    == IF over THEN 1 ELSE g.failures + 1
    IN  [failures    |-> n,
         windowStart |-> IF n = 1 THEN at ELSE g.windowStart,
         lockedUntil |-> IF n >= MaxFailures THEN at + Lockout ELSE Never]

\* Mutant: a code may be used again until it expires.
MatchesAgain(cs, guess, at) ==
    /\ cs # << >>
    /\ at < cs[Len(cs)].expires
    /\ cs[Len(cs)].attempts < MaxAttempts
    /\ guess = Len(cs)

\* OTPChallenge.Verify of the latest code: is the guess the one?
Matches(cs, guess, at) ==
    /\ cs # << >>
    /\ ~ cs[Len(cs)].consumed
    /\ at < cs[Len(cs)].expires
    /\ cs[Len(cs)].attempts < MaxAttempts
    /\ guess = Len(cs)

\* The challenge Verify leaves: every guess that is compared counts.
Guessed(c, ok, at) ==
    IF c.consumed \/ at >= c.expires \/ c.attempts >= MaxAttempts
    THEN c
    ELSE [c EXCEPT !.attempts = @ + 1, !.consumed = ok]

-----------------------------------------------------------------------------
(***************************************************************************)
(* The handlers.                                                           *)
(***************************************************************************)
\* WithPhoneLock's advisory lock.
PhoneLocked == \E x \in Callers : call[x].pc \in {"requesting", "verifying"}

\* The lock is granted; clock, guard and codes are read under it.
Enter(x, pc, guess) ==
    /\ call[x].pc = "idle"
    /\ ~ PhoneLocked
    /\ call' = [call EXCEPT ![x] =
          [pc |-> pc, guess |-> guess, at |-> otpNow, guard |-> guard, codes |-> codes]]
    /\ UNCHANGED <<otpNow, codes, guard, delivered, accepted, failedAt>>

Request(x) == Enter(x, "requesting", Wrong)

\* Whoever types a code types one that was sent, or something else.
VerifyOTP(x) == \E guess \in delivered \cup {Wrong} : Enter(x, "verifying", guess)

CountSince(cs, since) == Cardinality({i \in DOMAIN cs : cs[i].created >= since})

\* RequestOTPHandler's rules: not locked out, the cooldown over, and the hour's
\* codes not used up.
MayRequest(c) ==
    /\ Check(c.guard, c.at)
    /\ c.codes # << >> => c.at >= c.codes[Len(c.codes)].created + ResendCooldown
    /\ CountSince(c.codes, c.at - Hour) < MaxPerHour

Done(x) == call' = [call EXCEPT ![x] = Idle]

\* The new code is saved and the lock given up; then it is to be sent.
AddCode(x) ==
    LET c == call[x]
    IN  /\ c.pc = "requesting"
        /\ MayRequest(c)
        /\ codes' = Append(codes, [created |-> c.at, expires |-> c.at + TTL,
                                   attempts |-> 0, consumed |-> FALSE])
        /\ call' = [call EXCEPT ![x] = [Idle EXCEPT !.pc = "sending",
                                                    !.guess = Len(codes) + 1]]
        /\ UNCHANGED <<otpNow, guard, delivered, accepted, failedAt>>

\* SendOTP after the commit.  A failed one still used up a code.
SendOTP(x) ==
    /\ call[x].pc = "sending"
    /\ \/ delivered' = delivered \cup {call[x].guess}
       \/ UNCHANGED delivered
    /\ Done(x)
    /\ UNCHANGED <<otpNow, codes, guard, accepted, failedAt>>

\* A guess is settled: the challenge and the guard are saved together, whether
\* it was right or not.
Settle(x) ==
    LET c  == call[x]
        n  == Len(c.codes)
        ok == Matches(c.codes, c.guess, c.at)
    IN  /\ c.pc = "verifying"
        /\ Check(c.guard, c.at)
        /\ codes' = IF n = 0 THEN codes
                    ELSE [codes EXCEPT ![n] = Guessed(c.codes[n], ok, c.at)]
        /\ guard' = IF ok THEN NoGuard ELSE Fail(c.guard, c.at)
        /\ accepted' = IF ok THEN Append(accepted, c.guess) ELSE accepted
        /\ failedAt' = IF ok THEN << >> ELSE Append(failedAt, c.at)
        /\ Done(x)
        /\ UNCHANGED <<otpNow, delivered>>

\* The handler refuses without writing anything.
Refuse(x) ==
    /\ \/ call[x].pc = "requesting" /\ ~ MayRequest(call[x])
       \/ call[x].pc = "verifying" /\ ~ Check(call[x].guard, call[x].at)
    /\ Done(x)
    /\ UNCHANGED <<otpNow, codes, guard, delivered, accepted, failedAt>>

\* The transaction fails or the server stops: rolled back.
Abort(x) ==
    /\ call[x].pc \in {"requesting", "verifying"}
    /\ Done(x)
    /\ UNCHANGED <<otpNow, codes, guard, delivered, accepted, failedAt>>

OtpTick ==
    /\ otpNow < OtpHorizon
    /\ otpNow' = otpNow + 1
    /\ UNCHANGED <<codes, guard, call, delivered, accepted, failedAt>>

OtpInit ==
    /\ otpNow = 0
    /\ codes = << >>
    /\ guard = NoGuard
    /\ call = [x \in Callers |-> Idle]
    /\ delivered = {}
    /\ accepted = << >>
    /\ failedAt = << >>

OtpNext ==
    \/ \E x \in Callers :
          \/ Request(x) \/ AddCode(x) \/ SendOTP(x)
          \/ VerifyOTP(x) \/ Settle(x)
          \/ Refuse(x) \/ Abort(x)
    \/ OtpTick

OtpSpec == OtpInit /\ [][OtpNext]_otpVars

-----------------------------------------------------------------------------
(***************************************************************************)
(* Properties.                                                             *)
(***************************************************************************)
\* Of every step: a code signs in once, and only as long as no newer one was
\* made.
OnlyTheLatestWorks ==
    accepted' # accepted =>
        /\ accepted' = Append(accepted, Len(codes))
        /\ \A i \in DOMAIN accepted : accepted[i] # Len(codes)

\* Of every step: while a phone is locked out nothing moves: no code is made
\* or compared, no one signs in, and attempts do not put the end of the
\* lockout off.
LockoutHolds ==
    otpNow < guard.lockedUntil => UNCHANGED <<codes, guard, accepted>>

\* The failures of the stretch that begins at t and is as long as a window.
FailuresFrom(t) ==
    Cardinality({i \in DOMAIN failedAt : failedAt[i] \in t .. (t + FailureWindow - 1)})

\* The windows are fixed ones, so a stretch as long as a window may straddle
\* two of them; but no stretch ever holds more than 2 * MaxFailures - 2 failures
\* without a sign-in, however many guesses race.
FailuresBounded ==
    \A t \in 0 .. OtpHorizon : FailuresFrom(t) <= 2 * MaxFailures - 2

\* In no stretch of an hour, its two ends included, are more than MaxPerHour
\* codes made.
HourlyCap ==
    \A i \in DOMAIN codes :
        Cardinality({j \in DOMAIN codes : codes[j].created \in
                        codes[i].created .. (codes[i].created + Hour)}) <= MaxPerHour

\* What limits the guessing of a code holds however requests race: the wrong
\* guesses in any stretch of time, and the codes made in any hour.
GuessingIsLimited == FailuresBounded /\ HourlyCap

\* What a code is worth: the latest signs in once, and none does, or even
\* counts, during a lockout.
CodesAreWorthOneSignIn == [][OnlyTheLatestWorks /\ LockoutHolds]_otpVars
=============================================================================
