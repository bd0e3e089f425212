---------------------------- MODULE PhonesProofs ----------------------------
(***************************************************************************)
(* What belongs to a phone, for any number of callers, phones, workers and *)
(* any length of time: what a one-time code is worth, how much guessing it *)
(* stands, and how many devices and calls to Google there can be.          *)
(***************************************************************************)
EXTENDS Otp, Notification, FiniteSetTheorems, WellFoundedInduction, TLAPS

(***************************************************************************)
(* One-time codes: the phone's lock.                                       *)
(***************************************************************************)
Code == [created : Nat, expires : Nat, attempts : Nat, consumed : BOOLEAN]

Guard == [failures : Nat, windowStart : Int, lockedUntil : Int]

Call == [pc : {"idle", "requesting", "verifying", "sending"}, guess : Nat, at : Nat,
         guard : Guard, codes : Seq(Code)]

OtpTypes ==
    /\ otpNow \in Nat
    /\ codes \in Seq(Code)
    /\ guard \in Guard
    /\ call \in [Callers -> Call]
    /\ delivered \subseteq Nat
    /\ accepted \in Seq(Nat)
    /\ failedAt \in Seq(Nat)

Holds(x) == call[x].pc \in {"requesting", "verifying"}

\* Whoever holds the lock is alone, and what they read is still so.
LockedIsCurrent ==
    \A x \in Callers : Holds(x) =>
        /\ call[x].codes = codes /\ call[x].guard = guard
        /\ call[x].at <= otpNow
        /\ \A i \in DOMAIN failedAt : failedAt[i] <= call[x].at
        /\ \A y \in Callers : Holds(y) => y = x

FailuresPast == \A i \in DOMAIN failedAt : failedAt[i] <= otpNow

OtpInv == OtpTypes /\ LockedIsCurrent /\ FailuresPast

LEMMA PolicyTypes ==
    /\ TTL \in Nat /\ ResendCooldown \in Nat /\ MaxAttempts \in Nat
    /\ MaxFailures \in Nat /\ MaxFailures >= 2 /\ FailureWindow \in Nat /\ FailureWindow >= 1
    /\ Lockout \in Nat /\ Lockout >= FailureWindow
    /\ MaxPerHour \in Nat /\ MaxPerHour >= 1 /\ Hour \in Nat
  BY PolicyAssumption

LEMMA IdleType == NoGuard \in Guard /\ Idle \in Call /\ Idle.pc = "idle"
  BY DEF NoGuard, Guard, Idle, Call, Never, Wrong

LEMMA FailType ==
    ASSUME NEW g \in Guard, NEW at \in Nat
    PROVE  Fail(g, at) \in Guard
  BY PolicyTypes DEF Fail, Guard, Never

LEMMA GuessedType ==
    ASSUME NEW c \in Code, NEW ok \in BOOLEAN, NEW at \in Nat
    PROVE  /\ Guessed(c, ok, at) \in Code
           /\ Guessed(c, ok, at).created = c.created
           /\ c.consumed => Guessed(c, ok, at) = c
           /\ ok /\ ~ c.consumed /\ at < c.expires /\ c.attempts < MaxAttempts =>
                 Guessed(c, ok, at).consumed
<1> DEFINE more == c.attempts + 1
           g == [c EXCEPT !.attempts = more, !.consumed = ok]
           skip == c.consumed \/ at >= c.expires \/ c.attempts >= MaxAttempts
<1>1. Guessed(c, ok, at) = IF skip THEN c ELSE g
  BY DEF Guessed
<1>2. more \in Nat /\ c.attempts \in Nat /\ c.expires \in Nat
  BY DEF Code
<1>3. ~ c.consumed /\ at < c.expires /\ c.attempts < MaxAttempts => ~ skip
  BY <1>2, PolicyTypes
<1>4. c.consumed => skip
  OBVIOUS
<1> HIDE DEF more, skip
<1>5. g \in Code /\ g.created = c.created /\ g.consumed = ok
  BY <1>2 DEF Code
<1>6. QED
  BY <1>1, <1>3, <1>4, <1>5

\* What AddCode and Settle do while they hold the lock.
Fresh(x) == [created |-> call[x].at, expires |-> call[x].at + TTL,
             attempts |-> 0, consumed |-> FALSE]

Added(x) ==
    /\ MayRequest(call[x]) /\ Fresh(x) \in Code
    /\ call[x].codes = codes /\ call[x].guard = guard /\ call[x].at \in Nat
    /\ codes' = Append(codes, Fresh(x))
    /\ UNCHANGED <<otpNow, guard, delivered, accepted, failedAt>>

Right(x) == Matches(codes, call[x].guess, call[x].at)

Settled(x) ==
    /\ Check(guard, call[x].at)
    /\ call[x].at \in Nat /\ call[x].at <= otpNow
    /\ \A i \in DOMAIN failedAt : failedAt[i] <= call[x].at
    /\ Len(codes) \in Nat
    /\ codes' \in Seq(Code) /\ Len(codes') = Len(codes)
    /\ \A i \in 1 .. Len(codes) :
          codes'[i].created = codes[i].created /\ (codes[i].consumed => codes'[i].consumed)
    /\ Right(x) => /\ Len(codes) > 0 /\ call[x].guess = Len(codes)
                   /\ ~ codes[Len(codes)].consumed /\ codes'[Len(codes)].consumed
                   /\ guard' = NoGuard /\ failedAt' = << >>
                   /\ accepted' = Append(accepted, Len(codes))
    /\ ~ Right(x) => /\ guard' = Fail(guard, call[x].at)
                     /\ failedAt' = Append(failedAt, call[x].at)
                     /\ accepted' = accepted
    /\ UNCHANGED otpNow

LEMMA AddFacts ==
    ASSUME OtpInv, NEW x \in Callers, AddCode(x)
    PROVE  Added(x)
<1>1. call[x].codes = codes /\ call[x].guard = guard /\ call[x].at \in Nat
  BY DEF AddCode, OtpInv, LockedIsCurrent, Holds, OtpTypes, Call
<1>2. Fresh(x) \in Code
  BY <1>1, PolicyTypes DEF Fresh, Code
<1>3. QED
  BY <1>1, <1>2 DEF AddCode, Added, Fresh

LEMMA SettleFacts ==
    ASSUME OtpInv, NEW x \in Callers, Settle(x)
    PROVE  Settled(x)
<1> DEFINE c == call[x]
           n == Len(codes)
           ok == Right(x)
<1>1. /\ c.codes = codes /\ c.guard = guard /\ c.at \in Nat /\ c.at <= otpNow
      /\ c.guess \in Nat
      /\ \A i \in DOMAIN failedAt : failedAt[i] <= c.at
  BY DEF Settle, OtpInv, LockedIsCurrent, Holds, OtpTypes, Call
<1>2. /\ Check(guard, c.at)
      /\ codes' = IF n = 0 THEN codes ELSE [codes EXCEPT ![n] = Guessed(codes[n], ok, c.at)]
      /\ guard' = IF ok THEN NoGuard ELSE Fail(guard, c.at)
      /\ accepted' = IF ok THEN Append(accepted, c.guess) ELSE accepted
      /\ failedAt' = IF ok THEN << >> ELSE Append(failedAt, c.at)
      /\ UNCHANGED otpNow
  BY <1>1 DEF Settle, Right
<1>3. ok \in BOOLEAN
  BY DEF Right, Matches
<1>4. codes \in Seq(Code) /\ n \in Nat
  BY DEF OtpInv, OtpTypes
<1>5. CASE n = 0
  <2>1. ~ ok
    BY <1>4, <1>5 DEF Right, Matches
  <2>2. QED
    BY <1>1, <1>2, <1>4, <1>5, <2>1 DEF Settled
<1>6. CASE n # 0
  <2> DEFINE g == Guessed(codes[n], ok, c.at)
  <2>1. n \in 1 .. n /\ codes[n] \in Code
    BY <1>4, <1>6
  <2>2. /\ g \in Code /\ g.created = codes[n].created
        /\ codes[n].consumed => g = codes[n]
        /\ ok /\ ~ codes[n].consumed /\ c.at < codes[n].expires
              /\ codes[n].attempts < MaxAttempts => g.consumed
    BY <1>1, <1>3, <2>1, GuessedType
  <2>3. ok => /\ c.guess = n /\ ~ codes[n].consumed
              /\ c.at < codes[n].expires /\ codes[n].attempts < MaxAttempts
    BY DEF Right, Matches
  <2>4. codes' = [codes EXCEPT ![n] = g]
    BY <1>2, <1>6
  <2> HIDE DEF g, n, ok
  <2>5. codes' \in Seq(Code) /\ Len(codes') = Len(codes)
    BY <1>4, <2>1, <2>2, <2>4 DEF n
  <2>6. /\ codes'[n] = g
        /\ \A i \in 1 .. n : i # n => codes'[i] = codes[i]
    BY <1>4, <2>1, <2>4 DEF n
  <2>7. \A i \in 1 .. n :
           codes'[i].created = codes[i].created /\ (codes[i].consumed => codes'[i].consumed)
    BY <2>1, <2>2, <2>6
  <2>8. ok => /\ n > 0 /\ c.guess = n /\ ~ codes[n].consumed /\ codes'[n].consumed
    BY <1>3, <1>4, <1>6, <2>2, <2>3, <2>6 DEF n
  <2>9. QED
    BY <1>1, <1>2, <1>4, <2>5, <2>7, <2>8 DEF Settled, n, ok
<1>7. QED
  BY <1>5, <1>6

-----------------------------------------------------------------------------
LEMMA OtpInvInit == OtpInit => OtpInv
  BY IdleType DEF OtpInit, OtpInv, OtpTypes, LockedIsCurrent, FailuresPast, Holds, Guard, NoGuard

LEMMA OtpInvStep == OtpInv /\ [OtpNext]_otpVars => OtpInv'
<1> SUFFICES ASSUME OtpInv, [OtpNext]_otpVars PROVE OtpInv'
  OBVIOUS
<1> USE DEF OtpInv
<1>1. ASSUME NEW x \in Callers, NEW pc \in {"requesting", "verifying"}, NEW guess \in Nat,
             Enter(x, pc, guess)
      PROVE  OtpInv'
  <2> DEFINE c == [pc |-> pc, guess |-> guess, at |-> otpNow, guard |-> guard, codes |-> codes]
  <2>1. c \in Call
    BY DEF OtpTypes, Call
  <2>2. /\ call' = [call EXCEPT ![x] = c]
        /\ \A y \in Callers : ~ Holds(y)
        /\ UNCHANGED <<otpNow, codes, guard, delivered, accepted, failedAt>>
    BY <1>1 DEF Enter, PhoneLocked, Holds
  <2>3. c.codes = codes /\ c.guard = guard /\ c.at = otpNow
    OBVIOUS
  <2> HIDE DEF c
  <2>4. OtpTypes'
    BY <2>1, <2>2 DEF OtpTypes
  <2>5. \A y \in Callers : call'[y] = IF y = x THEN c ELSE call[y]
    BY <2>2 DEF OtpTypes
  <2>6. LockedIsCurrent'
    BY <2>2, <2>3, <2>5 DEF LockedIsCurrent, Holds, FailuresPast, OtpTypes
  <2>7. QED
    BY <2>2, <2>4, <2>6 DEF FailuresPast
<1>2. ASSUME NEW x \in Callers, AddCode(x) PROVE OtpInv'
  <2> DEFINE c == [Idle EXCEPT !.pc = "sending", !.guess = Len(codes) + 1]
  <2>1. Added(x)
    BY <1>2, AddFacts
  <2>2. Len(codes) + 1 \in Nat
    BY DEF OtpTypes
  <2>3. c \in Call /\ c.pc = "sending"
    BY <2>2, IdleType DEF Call, Idle
  <2>4. call' = [call EXCEPT ![x] = c] /\ Holds(x)
    BY <1>2 DEF AddCode, Holds
  <2> HIDE DEF c
  <2>5. codes' \in Seq(Code)
    BY <2>1 DEF Added, OtpTypes
  <2>6. OtpTypes'
    BY <2>1, <2>3, <2>4, <2>5 DEF Added, OtpTypes
  <2>7. \A y \in Callers : ~ Holds(y)'
    BY <2>3, <2>4 DEF Holds, OtpTypes, LockedIsCurrent
  <2>8. QED
    BY <2>1, <2>6, <2>7 DEF LockedIsCurrent, FailuresPast, Added
<1>3. ASSUME NEW x \in Callers, Settle(x) PROVE OtpInv'
  <2>1. Settled(x)
    BY <1>3, SettleFacts
  <2>2. Holds(x) /\ call' = [call EXCEPT ![x] = Idle] /\ UNCHANGED delivered
    BY <1>3 DEF Settle, Holds, Done
  <2>3. guard' \in Guard
    BY <2>1, IdleType, FailType DEF Settled, OtpTypes
  <2>4. accepted' \in Seq(Nat) /\ failedAt' \in Seq(Nat)
    <3>1. accepted \in Seq(Nat) /\ failedAt \in Seq(Nat) /\ call[x].at \in Nat /\ Len(codes) \in Nat
      BY <2>1 DEF Settled, OtpTypes
    <3>2. /\ accepted' = accepted \/ accepted' = Append(accepted, Len(codes))
          /\ failedAt' = << >> \/ failedAt' = Append(failedAt, call[x].at)
      BY <2>1 DEF Settled
    <3>3. Append(accepted, Len(codes)) \in Seq(Nat)
      BY <3>1
    <3>4. Append(failedAt, call[x].at) \in Seq(Nat)
      BY <3>1
    <3>5. << >> \in Seq(Nat)
      OBVIOUS
    <3>6. QED
      BY <3>1, <3>2, <3>3, <3>4, <3>5
  <2>5. OtpTypes'
    BY <2>1, <2>2, <2>3, <2>4, IdleType DEF Settled, OtpTypes
  <2>6. \A y \in Callers : ~ Holds(y)'
    BY <2>2, IdleType DEF Holds, OtpTypes, LockedIsCurrent
  <2>7. FailuresPast'
    <3>1. CASE Right(x)
      BY <2>1, <3>1 DEF Settled, FailuresPast
    <3>2. CASE ~ Right(x)
      <4>1. failedAt' = Append(failedAt, call[x].at) /\ call[x].at <= otpNow /\ otpNow' = otpNow
        BY <2>1, <3>2 DEF Settled
      <4>2. QED
        BY <4>1 DEF FailuresPast, OtpTypes
    <3>3. QED
      BY <3>1, <3>2
  <2>8. QED
    BY <2>5, <2>6, <2>7 DEF LockedIsCurrent
<1>4. ASSUME NEW x \in Callers, SendOTP(x) \/ Refuse(x) \/ Abort(x) PROVE OtpInv'
  <2>1. /\ call' = [call EXCEPT ![x] = Idle]
        /\ UNCHANGED <<otpNow, codes, guard, accepted, failedAt>>
        /\ delivered' \subseteq delivered \cup {call[x].guess}
    BY <1>4 DEF SendOTP, Refuse, Abort, Done
  <2>2. call[x].guess \in Nat
    BY DEF OtpTypes, Call
  <2>3. OtpTypes'
    BY <2>1, <2>2, IdleType DEF OtpTypes
  <2>4. \A y \in Callers : Holds(y)' => Holds(y) /\ call'[y] = call[y]
    BY <2>1, IdleType DEF Holds, OtpTypes
  <2>5. QED
    BY <2>1, <2>3, <2>4 DEF LockedIsCurrent, FailuresPast
<1>5. CASE OtpTick
  <2>1. /\ otpNow' = otpNow + 1 /\ otpNow \in Nat
        /\ UNCHANGED <<codes, guard, call, delivered, accepted, failedAt>>
    BY <1>5 DEF OtpTick, OtpTypes
  <2>2. OtpTypes'
    BY <2>1 DEF OtpTypes
  <2>3. FailuresPast'
    <3>1. \A i \in DOMAIN failedAt : failedAt[i] \in Nat
      BY DEF OtpTypes
    <3>2. QED
      BY <2>1, <3>1 DEF FailuresPast
  <2>4. LockedIsCurrent'
    <3>1. \A x \in Callers : call[x].at \in Nat
      BY DEF OtpTypes, Call
    <3>2. QED
      BY <2>1, <3>1 DEF LockedIsCurrent, Holds
  <2>5. QED
    BY <2>2, <2>3, <2>4
<1>6. CASE UNCHANGED otpVars
  BY <1>6 DEF otpVars, OtpTypes, LockedIsCurrent, FailuresPast, Holds
<1>7. ASSUME NEW x \in Callers, Request(x) \/ VerifyOTP(x) PROVE OtpInv'
  <2>1. Wrong \in Nat /\ delivered \subseteq Nat
    BY DEF Wrong, OtpTypes
  <2>2. QED
    BY <1>1, <1>7, <2>1 DEF Request, VerifyOTP
<1>8. QED
  BY <1>2, <1>3, <1>4, <1>5, <1>6, <1>7 DEF OtpNext

LEMMA OtpAlways == OtpSpec => []OtpInv
  BY OtpInvInit, OtpInvStep, PTL DEF OtpSpec

\* Only AddCode and Settle change what others see.
LEMMA OtpSteps ==
    ASSUME OtpInv, [OtpNext]_otpVars
    PROVE  \/ UNCHANGED <<codes, guard, accepted, failedAt>>
           \/ \E x \in Callers : Added(x) /\ Holds(x)
           \/ \E x \in Callers : Settled(x) /\ Holds(x)
<1>1. ASSUME NEW x \in Callers, AddCode(x) PROVE Added(x) /\ Holds(x)
  BY <1>1, AddFacts DEF AddCode, Holds
<1>2. ASSUME NEW x \in Callers, Settle(x) PROVE Settled(x) /\ Holds(x)
  BY <1>2, SettleFacts DEF Settle, Holds
<1>3. QED
  BY <1>1, <1>2 DEF OtpNext, Request, VerifyOTP, Enter, SendOTP, Refuse, Abort, OtpTick, otpVars

-----------------------------------------------------------------------------
(***************************************************************************)
(* A code signs in once.                                                   *)
(***************************************************************************)
AcceptedAreUsed ==
    \A i \in DOMAIN accepted :
        accepted[i] \in 1 .. Len(codes) /\ codes[accepted[i]].consumed

LEMMA UsedStep ==
    ASSUME OtpInv, AcceptedAreUsed, [OtpNext]_otpVars
    PROVE  AcceptedAreUsed'
<1>0. codes \in Seq(Code) /\ Len(codes) \in Nat /\ accepted \in Seq(Nat)
  BY DEF OtpInv, OtpTypes
<1>1. CASE UNCHANGED <<codes, guard, accepted, failedAt>>
  BY <1>1 DEF AcceptedAreUsed
<1>2. ASSUME NEW x \in Callers, Added(x) PROVE AcceptedAreUsed'
  <2>1. /\ Len(codes') = Len(codes) + 1 /\ accepted' = accepted
        /\ \A i \in 1 .. Len(codes) : codes'[i] = codes[i]
    BY <1>0, <1>2 DEF Added
  <2>2. QED
    BY <1>0, <2>1 DEF AcceptedAreUsed
<1>3. ASSUME NEW x \in Callers, Settled(x) PROVE AcceptedAreUsed'
  <2>1. \A i \in DOMAIN accepted : accepted[i] \in 1 .. Len(codes') /\ codes'[accepted[i]].consumed
    BY <1>3 DEF Settled, AcceptedAreUsed
  <2>2. CASE ~ Right(x)
    BY <1>3, <2>1, <2>2 DEF Settled, AcceptedAreUsed
  <2>3. CASE Right(x)
    <3>1. /\ accepted' = Append(accepted, Len(codes))
          /\ Len(codes) \in 1 .. Len(codes') /\ codes'[Len(codes)].consumed
      BY <1>0, <1>3, <2>3 DEF Settled
    <3>2. \A i \in DOMAIN accepted' :
             (i \in DOMAIN accepted /\ accepted'[i] = accepted[i]) \/ accepted'[i] = Len(codes)
      BY <1>0, <3>1
    <3>3. QED
      BY <2>1, <3>1, <3>2 DEF AcceptedAreUsed
  <2>4. QED
    BY <2>2, <2>3
<1>4. QED
  BY <1>1, <1>2, <1>3, OtpSteps

\* VerifyOTP accepts the phone's latest code, once, and during a lockout neither
\* handler changes anything, however many callers type and ask at once: whoever
\* has the phone's lock decides on what is in the tables.
THEOREM CodesSignInOnce == OtpSpec => CodesAreWorthOneSignIn
<1>1. ASSUME OtpInv, AcceptedAreUsed, [OtpNext]_otpVars
      PROVE  OnlyTheLatestWorks
  <2> SUFFICES ASSUME accepted' # accepted
               PROVE  /\ accepted' = Append(accepted, Len(codes))
                      /\ \A i \in DOMAIN accepted : accepted[i] # Len(codes)
    BY DEF OnlyTheLatestWorks
  <2>1. PICK x \in Callers : Settled(x)
    BY <1>1, OtpSteps DEF Added
  <2>2. Right(x)
    BY <2>1 DEF Settled
  <2>3. QED
    BY <1>1, <2>1, <2>2 DEF Settled, AcceptedAreUsed
<1>2. ASSUME OtpInv, [OtpNext]_otpVars
      PROVE  LockoutHolds
  <2> SUFFICES ASSUME otpNow < guard.lockedUntil
               PROVE  UNCHANGED <<codes, guard, accepted>>
    BY DEF LockoutHolds
  <2>0. otpNow \in Nat /\ guard.lockedUntil \in Int
    BY <1>2 DEF OtpInv, OtpTypes, Guard
  <2>1. ASSUME NEW x \in Callers, Holds(x), Check(guard, call[x].at) PROVE FALSE
    <3>1. call[x].at \in Nat /\ call[x].at <= otpNow
      BY <1>2, <2>1 DEF OtpInv, LockedIsCurrent, OtpTypes, Call
    <3>2. QED
      BY <2>0, <2>1, <3>1 DEF Check
  <2>2. ASSUME NEW x \in Callers, Added(x), Holds(x) PROVE FALSE
    BY <2>1, <2>2 DEF Added, MayRequest
  <2>3. ASSUME NEW x \in Callers, Settled(x), Holds(x) PROVE FALSE
    BY <2>1, <2>3 DEF Settled
  <2>4. QED
    BY <1>2, <2>2, <2>3, OtpSteps
<1>3. OtpInit => AcceptedAreUsed
  BY DEF OtpInit, AcceptedAreUsed
<1>4. OtpInv /\ AcceptedAreUsed /\ [OtpNext]_otpVars => AcceptedAreUsed'
  BY UsedStep
<1>5. OtpInv /\ AcceptedAreUsed /\ [OtpNext]_otpVars => [OnlyTheLatestWorks /\ LockoutHolds]_otpVars
  BY <1>1, <1>2
<1>6. QED
  BY <1>3, <1>4, <1>5, OtpInvInit, OtpInvStep, PTL DEF OtpSpec, CodesAreWorthOneSignIn

-----------------------------------------------------------------------------
(***************************************************************************)
(* How much guessing a phone stands.  The failures since the last sign-in  *)
(* fall into windows; the guard counts those of the last one, and what the *)
(* windows before leave to a stretch that reaches into it is at most       *)
(* MaxFailures - 2: the one just before was given up unlocked, and began   *)
(* with a failure that is out of the stretch; a full one ended a lockout   *)
(* ago.                                                                    *)
(***************************************************************************)
\* Of the first k failures, those not before t.
Since(F, k, t) == {i \in 1 .. k : F[i] >= t}

\* The failures of the stretch that begins at t.
Stretch(F, t) == {i \in DOMAIN F : F[i] \in t .. (t + FailureWindow - 1)}

\* Whether F is a history that explains the guard g.
Explains(F, g) ==
    LET n == g.failures
        k == Len(F) - n
    IN  /\ n <= Len(F) /\ n <= MaxFailures
        /\ g.lockedUntil # Never =>
              \A i \in 1 .. Len(F) : F[i] + Lockout <= g.lockedUntil
        /\ n = MaxFailures => g.lockedUntil # Never
        /\ n = 0 => Len(F) = 0
        /\ n > 0 => /\ F[k + 1] = g.windowStart
                    /\ \A i \in 1 .. k : F[i] <= g.windowStart
                    /\ \A t \in Nat : t + FailureWindow > g.windowStart =>
                          Cardinality(Since(F, k, t)) <= MaxFailures - 2

\* The same with k given.
LEMMA Explained ==
    ASSUME NEW F, NEW g, NEW k, k = Len(F) - g.failures,
           g.failures <= Len(F), g.failures <= MaxFailures, ~ (g.failures = 0),
           g.lockedUntil # Never =>
              \A i \in 1 .. Len(F) : F[i] + Lockout <= g.lockedUntil,
           g.failures = MaxFailures => g.lockedUntil # Never,
           F[k + 1] = g.windowStart,
           \A i \in 1 .. k : F[i] <= g.windowStart,
           \A t \in Nat : t + FailureWindow > g.windowStart =>
                          Cardinality(Since(F, k, t)) <= MaxFailures - 2
    PROVE  Explains(F, g)
  BY DEF Explains

GuessInv == Explains(failedAt, guard) /\ FailuresBounded

LEMMA SinceCount ==
    ASSUME NEW F, NEW k \in Nat, NEW t
    PROVE  IsFiniteSet(Since(F, k, t)) /\ Cardinality(Since(F, k, t)) \in Nat
<1>1. IsFiniteSet(1 .. k)
  BY FS_Interval
<1>2. Since(F, k, t) \subseteq 1 .. k
  BY DEF Since
<1>3. IsFiniteSet(Since(F, k, t))
  BY <1>1, <1>2, FS_Subset
<1>4. QED
  BY <1>3, FS_CardinalityType

\* A stretch has what the earlier windows leave it and the last window's.
LEMMA StretchCount ==
    ASSUME NEW F \in Seq(Nat), NEW k \in Nat, k <= Len(F), NEW t \in Nat
    PROVE  Cardinality(Stretch(F, t)) <= Cardinality(Since(F, k, t)) + (Len(F) - k)
<1> DEFINE last == (k + 1) .. Len(F)
           both == Since(F, k, t) \cup last
<1>1. Stretch(F, t) \subseteq both
  BY DEF Stretch, Since
<1>2. IsFiniteSet(last) /\ Cardinality(last) = Len(F) - k
  <2>1. k + 1 \in Int /\ Len(F) \in Int
    OBVIOUS
  <2>2. /\ IsFiniteSet(last)
        /\ Cardinality(last) = IF k + 1 > Len(F) THEN 0 ELSE Len(F) - (k + 1) + 1
    BY <2>1, FS_Interval
  <2> HIDE DEF last
  <2>3. QED
    BY <2>2
<1>3. IsFiniteSet(Since(F, k, t)) /\ Cardinality(Since(F, k, t)) \in Nat
  BY SinceCount
<1> HIDE DEF last
<1>4. /\ IsFiniteSet(both)
      /\ Cardinality(both) = Cardinality(Since(F, k, t)) + Cardinality(last)
                                - Cardinality(Since(F, k, t) \cap last)
  BY <1>2, <1>3, FS_Union
<1>5. Cardinality(Since(F, k, t) \cap last) \in Nat
  BY <1>3, FS_Intersection, FS_CardinalityType
<1>6. Cardinality(Stretch(F, t)) <= Cardinality(both) /\ IsFiniteSet(Stretch(F, t))
  BY <1>1, <1>4, FS_Subset
<1>7. Cardinality(Stretch(F, t)) \in Nat /\ Cardinality(both) \in Nat
  BY <1>4, <1>6, FS_CardinalityType
<1> HIDE DEF both
<1>8. QED
  BY <1>2, <1>3, <1>4, <1>5, <1>6, <1>7

\* The window a failure falls into.
LEMMA FailFields ==
    ASSUME NEW g \in Guard, NEW at \in Nat
    PROVE  LET over == at >= g.windowStart + FailureWindow \/ g.lockedUntil # Never
               h == Fail(g, at)
           IN  /\ over => h.failures = 1
               /\ ~ over => h.failures = g.failures + 1
               /\ h.windowStart = IF h.failures = 1 THEN at ELSE g.windowStart
               /\ h.failures >= MaxFailures => h.lockedUntil = at + Lockout
               /\ h.failures < MaxFailures => h.lockedUntil = Never
  BY PolicyTypes DEF Fail, Guard, Never

\* A first failure, or the first after a window or a lockout.
LEMMA NewWindow ==
    ASSUME NEW F \in Seq(Nat), NEW g \in Guard, Explains(F, g),
           NEW at \in Nat, \A i \in 1 .. Len(F) : F[i] <= at,
           at >= g.lockedUntil,
           g.failures > 0 => at >= g.windowStart + FailureWindow \/ g.lockedUntil # Never,
           NEW t \in Nat, t + FailureWindow > at
    PROVE  Cardinality(Since(F, Len(F), t)) <= MaxFailures - 2
<1> DEFINE n == g.failures
           k == Len(F) - n
           w == g.windowStart
<1>0. /\ n \in Nat /\ w \in Int /\ g.lockedUntil \in Int /\ k \in Nat /\ Len(F) \in Nat
      /\ n <= MaxFailures /\ \A i \in 1 .. Len(F) : F[i] \in Nat
  <2>1. n \in Nat /\ w \in Int /\ g.lockedUntil \in Int
    BY DEF Guard
  <2>2. Len(F) \in Nat /\ \A i \in 1 .. Len(F) : F[i] \in Nat
    OBVIOUS
  <2>3. n <= Len(F) /\ n <= MaxFailures
    BY DEF Explains
  <2>4. k \in Nat
    BY <2>1, <2>2, <2>3
  <2>5. QED
    BY <2>1, <2>2, <2>3, <2>4
<1>1. CASE g.lockedUntil # Never
  <2>1. \A i \in 1 .. Len(F) : F[i] < t
    <3> SUFFICES ASSUME NEW i \in 1 .. Len(F) PROVE F[i] < t
      OBVIOUS
    <3>1. F[i] + Lockout <= g.lockedUntil
      BY <1>1 DEF Explains
    <3>2. F[i] \in Nat /\ g.lockedUntil \in Int
      BY <1>0
    <3> HIDE DEF n, k, w
    <3>3. QED
      BY <3>1, <3>2, PolicyTypes
  <2>2. Since(F, Len(F), t) = {}
    <3>1. ASSUME NEW i \in 1 .. Len(F), F[i] >= t PROVE FALSE
      <4>1. F[i] < t /\ F[i] \in Nat
        BY <1>0, <2>1
      <4>2. QED
        BY <3>1, <4>1
    <3>2. QED
      BY <3>1 DEF Since
  <2>3. QED
    BY <2>2, FS_EmptySet, PolicyTypes
<1>2. CASE g.lockedUntil = Never /\ n = 0
  <2>1. Since(F, Len(F), t) = {}
    BY <1>2 DEF Since, Explains
  <2>2. QED
    BY <2>1, FS_EmptySet, PolicyTypes
<1>3. CASE g.lockedUntil = Never /\ n > 0
  <2>1. w < t
    BY <1>0, <1>3, PolicyTypes
  <2>2. /\ F[k + 1] = w
        /\ \A i \in 1 .. k : F[i] <= w
        /\ n < MaxFailures
    <3>1. F[k + 1] = w /\ \A i \in 1 .. k : F[i] <= w
      BY <1>3 DEF Explains
    <3>2. n # MaxFailures
      BY <1>3 DEF Explains
    <3> HIDE DEF n, k, w
    <3>3. QED
      BY <1>0, <3>1, <3>2, PolicyTypes
  <2>3. Since(F, Len(F), t) \subseteq (k + 2) .. Len(F)
    <3> HIDE DEF n, k, w
    <3> SUFFICES ASSUME NEW i \in 1 .. Len(F), F[i] >= t, i < k + 2 PROVE FALSE
      <4>1. \A i \in 1 .. Len(F) : ~ (i < k + 2) => i \in (k + 2) .. Len(F)
        BY <1>0
      <4>2. QED
        BY <4>1 DEF Since
    <3>1. i \in 1 .. k \/ i = k + 1
      BY <1>0
    <3>2. F[i] <= w
      BY <2>2, <3>1, <1>0
    <3>3. QED
      BY <1>0, <2>1, <3>2
  <2>4. /\ IsFiniteSet((k + 2) .. Len(F))
        /\ Cardinality((k + 2) .. Len(F)) = IF k + 2 > Len(F) THEN 0 ELSE Len(F) - (k + 2) + 1
    <3> HIDE DEF n, k, w
    <3>1. k + 2 \in Int /\ Len(F) \in Int
      BY <1>0
    <3>2. QED
      BY <3>1, FS_Interval
  <2>5. Len(F) - (k + 2) + 1 = n - 1
    BY <1>0
  <2>6. Cardinality((k + 2) .. Len(F)) <= MaxFailures - 2
    BY <1>0, <2>2, <2>4, <2>5, PolicyTypes
  <2>7. Cardinality(Since(F, Len(F), t)) <= Cardinality((k + 2) .. Len(F))
    BY <2>3, <2>4, FS_Subset
  <2>8. Cardinality(Since(F, Len(F), t)) \in Nat /\ Cardinality((k + 2) .. Len(F)) \in Nat
    BY <1>0, <2>4, SinceCount, FS_CardinalityType
  <2>9. QED
    BY <2>6, <2>7, <2>8, PolicyTypes
<1>4. QED
  BY <1>0, <1>1, <1>2, <1>3

LEMMA SinceAppend ==
    ASSUME NEW F \in Seq(Nat), NEW at \in Nat, NEW k \in Nat, k <= Len(F), NEW t
    PROVE  Since(Append(F, at), k, t) = Since(F, k, t)
  BY DEF Since

LEMMA ExplainStep ==
    ASSUME NEW F \in Seq(Nat), NEW g \in Guard, Explains(F, g),
           NEW at \in Nat, \A i \in 1 .. Len(F) : F[i] <= at, Check(g, at)
    PROVE  Explains(Append(F, at), Fail(g, at)) /\ Fail(g, at).windowStart <= at
<1> DEFINE G == Append(F, at)
           h == Fail(g, at)
           n == g.failures
           m == h.failures
           over == at >= g.windowStart + FailureWindow \/ g.lockedUntil # Never
<1>1. /\ over => m = 1
      /\ ~ over => m = n + 1
      /\ h.windowStart = IF m = 1 THEN at ELSE g.windowStart
      /\ m >= MaxFailures => h.lockedUntil = at + Lockout
      /\ m < MaxFailures => h.lockedUntil = Never
  BY FailFields
<1>2. h \in Guard /\ m \in Nat /\ n \in Nat /\ at >= g.lockedUntil /\ n <= MaxFailures
      /\ n <= Len(F) /\ g.lockedUntil \in Int /\ g.windowStart \in Int
  BY FailType DEF Guard, Check, Explains
<1>3. /\ Len(G) = Len(F) + 1 /\ Len(F) \in Nat /\ G \in Seq(Nat)
      /\ G[Len(F) + 1] = at
      /\ \A i \in 1 .. Len(F) : G[i] = F[i] /\ F[i] \in Nat
  OBVIOUS
<1>4. m <= MaxFailures /\ m > 0 /\ m <= Len(G)
  <2>1. CASE over
    BY <1>1, <1>3, <2>1, PolicyTypes
  <2>2. CASE ~ over
    <3>1. n # MaxFailures
      BY <2>2, <1>2 DEF Explains
    <3>2. m = n + 1 /\ n \in Nat /\ n <= MaxFailures /\ n <= Len(F) /\ Len(G) = Len(F) + 1
      BY <1>1, <1>2, <1>3, <2>2
    <3>3. Len(F) \in Nat /\ MaxFailures \in Nat
      BY <1>3, PolicyTypes
    <3> HIDE DEF G, h, n, m, over
    <3>4. QED
      BY <3>1, <3>2, <3>3
  <2>3. QED
    BY <2>1, <2>2
<1>5. h.lockedUntil # Never => \A i \in 1 .. Len(G) : G[i] + Lockout <= h.lockedUntil
  <2> SUFFICES ASSUME h.lockedUntil # Never, NEW i \in 1 .. Len(G)
               PROVE  G[i] + Lockout <= h.lockedUntil
    OBVIOUS
  <2>1. h.lockedUntil = at + Lockout
    BY <1>1, <1>2, <1>4, PolicyTypes
  <2>2. G[i] \in Nat /\ G[i] <= at
    BY <1>3
  <2> HIDE DEF G, h
  <2>3. QED
    BY <2>1, <2>2, PolicyTypes
<1>6. m = MaxFailures => h.lockedUntil # Never
  BY <1>1, PolicyTypes DEF Never
<1>7. CASE m = 1
  <2>1. h.windowStart = at /\ Len(G) - m = Len(F)
    BY <1>1, <1>3, <1>7
  <2>2. g.failures > 0 => over
    BY <1>1, <1>2, <1>7
  <2>3. ASSUME NEW t \in Nat, t + FailureWindow > at
        PROVE  Cardinality(Since(G, Len(F), t)) <= MaxFailures - 2
    <3>1. Cardinality(Since(F, Len(F), t)) <= MaxFailures - 2
      BY <1>2, <2>2, <2>3, NewWindow
    <3>2. Since(G, Len(F), t) = Since(F, Len(F), t)
      BY <1>3, SinceAppend
    <3>3. QED
      BY <3>1, <3>2
  <2>4. G[Len(F) + 1] = h.windowStart /\ \A i \in 1 .. Len(F) : G[i] <= h.windowStart
    BY <1>3, <2>1
  <2>5. \A t \in Nat : t + FailureWindow > h.windowStart =>
              Cardinality(Since(G, Len(F), t)) <= MaxFailures - 2
    BY <2>1, <2>3
  <2>6. m # 0 /\ h.windowStart <= at /\ Len(F) = Len(G) - m
    BY <1>3, <1>4, <2>1
  <2> HIDE DEF G, h, over
  <2>7. Explains(G, h)
    BY <1>4, <1>5, <1>6, <2>4, <2>5, <2>6, Explained DEF m
  <2>8. QED
    BY <2>6, <2>7 DEF G, h
<1>8. CASE m # 1
  <2>1. ~ over /\ m = n + 1 /\ n > 0 /\ h.windowStart = g.windowStart
    BY <1>1, <1>2, <1>8
  <2>2. Len(G) - m = Len(F) - n /\ Len(F) - n \in Nat
    BY <1>2, <1>3, <2>1
  <2> DEFINE k == Len(F) - n
  <2>3. /\ F[k + 1] = g.windowStart
        /\ \A i \in 1 .. k : F[i] <= g.windowStart
        /\ \A t \in Nat : t + FailureWindow > g.windowStart =>
              Cardinality(Since(F, k, t)) <= MaxFailures - 2
    BY <2>1 DEF Explains
  <2>4. k \in Nat /\ k + 1 \in 1 .. Len(F) /\ k <= Len(F)
    <3> HIDE DEF G, h, n, m, over
    <3>1. QED
      BY <1>2, <1>3, <2>1, <2>2
  <2>5. g.windowStart <= at
    BY <2>3, <2>4
  <2>6. \A t \in Nat : Since(G, k, t) = Since(F, k, t)
    BY <2>4, SinceAppend
  <2>7. G[k + 1] = g.windowStart /\ \A i \in 1 .. k : G[i] <= g.windowStart
    BY <1>3, <2>3, <2>4
  <2>8. \A t \in Nat : t + FailureWindow > g.windowStart =>
              Cardinality(Since(G, k, t)) <= MaxFailures - 2
    BY <2>3, <2>6
  <2>9. Len(G) - m = k
    BY <2>2
  <2>10. m # 0
    BY <1>4
  <2> HIDE DEF G, h, over, k
  <2>11. Explains(G, h)
    BY <1>4, <1>5, <1>6, <2>1, <2>7, <2>8, <2>9, <2>10, Explained DEF m
  <2>12. QED
    BY <2>1, <2>5, <2>11 DEF G, h
<1>9. QED
  BY <1>7, <1>8

LEMMA BoundedMeans ==
    /\ FailuresBounded <=>
          \A t \in 0 .. OtpHorizon : Cardinality(Stretch(failedAt, t)) <= 2 * MaxFailures - 2
    /\ FailuresBounded' <=>
          \A t \in 0 .. OtpHorizon : Cardinality(Stretch(failedAt', t)) <= 2 * MaxFailures - 2
  BY DEF FailuresBounded, FailuresFrom, Stretch

LEMMA GuessStep ==
    ASSUME OtpInv, GuessInv, [OtpNext]_otpVars
    PROVE  GuessInv'
<1>1. CASE UNCHANGED <<guard, failedAt>>
  BY <1>1, BoundedMeans DEF GuessInv
<1>2. ASSUME NEW x \in Callers, Settled(x), Right(x) PROVE GuessInv'
  <2>1. guard' = NoGuard /\ failedAt' = << >>
    BY <1>2 DEF Settled
  <2>2. Explains(<< >>, NoGuard)
    BY PolicyTypes DEF Explains, NoGuard, Never
  <2>3. \A t : Stretch(<< >>, t) = {}
    BY DEF Stretch
  <2>4. FailuresBounded'
    <3>1. Cardinality({}) <= 2 * MaxFailures - 2
      <4>1. Cardinality({}) = 0
        BY FS_EmptySet
      <4>2. QED
        BY <4>1, PolicyTypes
    <3>2. QED
      BY <2>1, <2>3, <3>1, BoundedMeans
  <2>5. QED
    BY <2>1, <2>2, <2>4 DEF GuessInv
<1>3. ASSUME NEW x \in Callers, Settled(x), ~ Right(x) PROVE GuessInv'
  <2> DEFINE at == call[x].at
             F == failedAt
             G == Append(F, at)
             h == Fail(guard, at)
  <2>1. /\ guard' = h /\ failedAt' = G /\ at \in Nat /\ Check(guard, at)
        /\ F \in Seq(Nat) /\ guard \in Guard
        /\ \A i \in 1 .. Len(F) : F[i] <= at
    BY <1>3 DEF Settled, OtpInv, OtpTypes
  <2>2. Explains(G, h) /\ h.windowStart <= at
    BY <2>1, ExplainStep DEF GuessInv
  <2>3. h \in Guard /\ G \in Seq(Nat)
    BY <2>1, FailType
  <2>4. ASSUME NEW t \in 0 .. OtpHorizon
        PROVE  Cardinality(Stretch(G, t)) <= 2 * MaxFailures - 2
    <3>0. t \in Nat
      BY PolicyAssumption
    <3>1. CASE at \in t .. (t + FailureWindow - 1)
      <4> DEFINE m == h.failures
                 k == Len(G) - m
      <4>1. /\ m \in Nat /\ m <= Len(G) /\ m <= MaxFailures /\ h.windowStart \in Int
            /\ Len(G) \in Nat
        BY <2>2, <2>3 DEF Explains, Guard
      <4>2. t + FailureWindow > h.windowStart
        BY <2>1, <2>2, <3>0, <3>1, <4>1, PolicyTypes
      <4>3. m > 0
        BY <2>2, <2>1, <4>1 DEF Explains
      <4>4. Cardinality(Since(G, k, t)) <= MaxFailures - 2
        BY <2>2, <3>0, <4>2, <4>3 DEF Explains
      <4> HIDE DEF G, h
      <4>5. k \in Nat /\ k <= Len(G) /\ Len(G) - k = m
        BY <4>1
      <4>6. Cardinality(Stretch(G, t)) <= Cardinality(Since(G, k, t)) + (Len(G) - k)
        BY <2>3, <3>0, <4>5, StretchCount
      <4>7. Cardinality(Since(G, k, t)) \in Nat
        BY <4>5, SinceCount
      <4>8. Cardinality(Stretch(G, t)) \in Nat
        <5>1. Stretch(G, t) \subseteq 1 .. Len(G)
          BY <2>3 DEF Stretch
        <5>2. IsFiniteSet(1 .. Len(G))
          <6>1. 1 \in Int /\ Len(G) \in Int
            BY <4>1
          <6>2. QED
            BY <6>1, FS_Interval
        <5>3. QED
          BY <5>1, <5>2, FS_Subset, FS_CardinalityType
      <4> HIDE DEF k
      <4>9. QED
        BY <4>1, <4>4, <4>5, <4>6, <4>7, <4>8, PolicyTypes
    <3>2. CASE at \notin t .. (t + FailureWindow - 1)
      <4>1. Stretch(G, t) = Stretch(F, t)
        BY <2>1, <3>2 DEF Stretch
      <4>2. QED
        BY <4>1, BoundedMeans DEF GuessInv
    <3>3. QED
      BY <3>1, <3>2
  <2>5. FailuresBounded'
    BY <2>1, <2>4, BoundedMeans
  <2>6. QED
    BY <2>1, <2>2, <2>5 DEF GuessInv
<1>4. QED
  BY <1>1, <1>2, <1>3, OtpSteps DEF Added

-----------------------------------------------------------------------------
(***************************************************************************)
(* The codes of an hour.                                                   *)
(***************************************************************************)
InHour(C, a) == {j \in DOMAIN C : C[j].created \in a .. (a + Hour)}

\* Stronger than HourlyCap: of the hour from any moment.
EveryHour == \A a \in Nat : Cardinality(InHour(codes, a)) <= MaxPerHour

LEMMA CodesFinite ==
    ASSUME NEW C \in Seq(Code), NEW S, S \subseteq DOMAIN C
    PROVE  IsFiniteSet(S) /\ Cardinality(S) \in Nat
<1>1. DOMAIN C = 1 .. Len(C) /\ 1 \in Int /\ Len(C) \in Int
  OBVIOUS
<1>2. IsFiniteSet(DOMAIN C)
  BY <1>1, FS_Interval
<1>3. QED
  BY <1>2, FS_Subset, FS_CardinalityType

LEMMA CreatedTypes ==
    ASSUME NEW C \in Seq(Code)
    PROVE  \A i \in DOMAIN C : C[i].created \in Nat
<1>1. \A i \in DOMAIN C : C[i] \in Code
  OBVIOUS
<1>2. \A c \in Code : c.created \in Nat
  BY DEF Code
<1>3. QED
  BY <1>1, <1>2

LEMMA HourStep ==
    ASSUME OtpInv, EveryHour, [OtpNext]_otpVars
    PROVE  EveryHour'
<1>0. codes \in Seq(Code) /\ Len(codes) \in Nat /\ \A i \in DOMAIN codes : codes[i].created \in Nat
  BY CreatedTypes DEF OtpInv, OtpTypes
<1>1. CASE UNCHANGED <<codes, guard, accepted, failedAt>>
  BY <1>1 DEF EveryHour
<1>2. ASSUME NEW x \in Callers, Added(x) PROVE EveryHour'
  <2> DEFINE at == call[x].at
             C == codes
             new == Fresh(x)
             D == Append(C, new)
             from == at - Hour
             recent == {i \in DOMAIN C : C[i].created >= from}
  <2>1. /\ codes' = D /\ at \in Nat /\ new \in Code /\ new.created = at
        /\ Cardinality(recent) < MaxPerHour
    BY <1>2 DEF Added, Fresh, MayRequest, CountSince
  <2>2. recent \subseteq DOMAIN C
    OBVIOUS
  <2>3. IsFiniteSet(recent) /\ Cardinality(recent) \in Nat
    BY <1>0, <2>2, CodesFinite
  <2>4. D \in Seq(Code)
    BY <1>0, <2>1
  <2>5. /\ DOMAIN D = DOMAIN C \cup {Len(C) + 1}
        /\ D[Len(C) + 1] = new
        /\ \A i \in DOMAIN C : D[i] = C[i]
    BY <1>0, <2>1
  <2>6. from \in Int /\ from + Hour = at
    BY <2>1, PolicyTypes
  <2> HIDE DEF at, C, new, D, from
  <2>7. ASSUME NEW a \in Nat PROVE Cardinality(InHour(D, a)) <= MaxPerHour
    <3>1. CASE at \in a .. (a + Hour)
      <4> DEFINE all == recent \cup {Len(C) + 1}
      <4>1. a >= from
        BY <2>1, <2>6, <3>1, PolicyTypes
      <4>2. InHour(D, a) \subseteq all
        <5> SUFFICES ASSUME NEW j \in DOMAIN C, C[j].created \in a .. (a + Hour)
                     PROVE  C[j].created >= from
          BY <2>5 DEF InHour
        <5>1. C[j].created \in Nat
          BY <1>0 DEF C
        <5>2. QED
          BY <2>6, <4>1, <5>1
      <4> HIDE DEF recent
      <4>3. IsFiniteSet(all) /\ Cardinality(all) <= Cardinality(recent) + 1
        <5>1. /\ IsFiniteSet(all)
              /\ Cardinality(all) =
                    IF Len(C) + 1 \in recent THEN Cardinality(recent) ELSE Cardinality(recent) + 1
          BY <2>3, FS_AddElement
        <5> HIDE DEF all
        <5>2. QED
          BY <2>3, <5>1
      <4>4. /\ Cardinality(InHour(D, a)) <= Cardinality(all)
            /\ IsFiniteSet(InHour(D, a))
        BY <4>2, <4>3, FS_Subset
      <4>5. Cardinality(InHour(D, a)) \in Nat /\ Cardinality(all) \in Nat
        BY <4>3, <4>4, FS_CardinalityType
      <4> HIDE DEF all
      <4>6. QED
        BY <2>1, <2>3, <4>3, <4>4, <4>5, PolicyTypes
    <3>2. CASE at \notin a .. (a + Hour)
      <4>1. InHour(D, a) = InHour(C, a)
        BY <2>1, <2>5, <3>2 DEF InHour
      <4>2. QED
        BY <4>1 DEF EveryHour, C
    <3>3. QED
      BY <3>1, <3>2
  <2>8. QED
    BY <2>1, <2>7 DEF EveryHour
<1>3. ASSUME NEW x \in Callers, Settled(x) PROVE EveryHour'
  <2>1. /\ codes' \in Seq(Code) /\ Len(codes') = Len(codes)
        /\ \A i \in 1 .. Len(codes) : codes'[i].created = codes[i].created
    BY <1>3 DEF Settled
  <2>2. DOMAIN codes' = DOMAIN codes /\ \A i \in DOMAIN codes : codes'[i].created = codes[i].created
    BY <1>0, <2>1
  <2>3. \A a \in Nat : InHour(codes', a) = InHour(codes, a)
    BY <2>2 DEF InHour
  <2>4. QED
    BY <2>3 DEF EveryHour
<1>4. QED
  BY <1>1, <1>2, <1>3, OtpSteps

\* However the requests and guesses of any number of callers race, in no stretch
\* of time as long as a failure window are there 2 * MaxFailures - 1 failed
\* guesses without a sign-in, and in no hour more than MaxPerHour codes
\* (OTPGuard.Fail, RequestOTPHandler.Handle).
THEOREM GuessesAreLimited == OtpSpec => []GuessingIsLimited
<1>1. Cardinality({}) = 0
  BY FS_EmptySet
<1>2. OtpInit => GuessInv /\ EveryHour
  <2> SUFFICES ASSUME OtpInit PROVE GuessInv /\ EveryHour
    OBVIOUS
  <2>1. failedAt = << >> /\ guard = NoGuard /\ codes = << >>
    BY DEF OtpInit
  <2>2. Explains(<< >>, NoGuard)
    BY PolicyTypes DEF Explains, NoGuard, Never
  <2>3. \A t : Stretch(<< >>, t) = {} /\ InHour(<< >>, t) = {}
    BY DEF Stretch, InHour
  <2>4. 0 <= 2 * MaxFailures - 2 /\ 0 <= MaxPerHour
    BY PolicyTypes
  <2>5. FailuresBounded
    BY <1>1, <2>1, <2>3, <2>4, BoundedMeans
  <2>6. EveryHour
    BY <1>1, <2>1, <2>3, <2>4 DEF EveryHour
  <2>7. QED
    BY <2>1, <2>2, <2>5, <2>6 DEF GuessInv
<1>3. OtpInv /\ GuessInv /\ EveryHour /\ [OtpNext]_otpVars => GuessInv' /\ EveryHour'
  BY GuessStep, HourStep
<1>4. OtpInv /\ GuessInv /\ EveryHour => GuessingIsLimited
  <2> SUFFICES ASSUME OtpInv, GuessInv, EveryHour PROVE HourlyCap
    BY DEF GuessingIsLimited, GuessInv
  <2>1. \A i \in DOMAIN codes : codes[i].created \in Nat
    BY CreatedTypes DEF OtpInv, OtpTypes
  <2>2. QED
    BY <2>1 DEF HourlyCap, EveryHour, InHour
<1>5. QED
  BY <1>2, <1>3, <1>4, OtpInvInit, OtpInvStep, PTL DEF OtpSpec

-----------------------------------------------------------------------------
(***************************************************************************)
(* Notification: the tables, and what a worker is at.                      *)
(***************************************************************************)
\* A set of numbers has a least one.
LEMMA Least ==
    ASSUME NEW S, S \subseteq Nat, S # {}
    PROVE  \E n \in S : \A m \in S : n <= m
<1>1. \E x \in S : \A y \in S : ~ (<<y, x>> \in OpToRel(<, Nat))
  BY NatLessThanWellFounded, WFMin
<1>2. \A x, y \in Nat : y < x => <<y, x>> \in OpToRel(<, Nat)
  BY DEF OpToRel
<1>3. PICK x \in S : \A y \in S : ~ (<<y, x>> \in OpToRel(<, Nat))
  BY <1>1
<1>4. \A y \in S : ~ (y < x)
  BY <1>2, <1>3
<1>5. \A y \in S : x <= y
  BY <1>4
<1>6. QED
  BY <1>5

Row == [id : Stamps, user : PushUsers, token : Phones \cup BadTokens, at : Stamps]

Signing == [step : {"saving"}, row : Row, drop : SUBSET Stamps]

\* A worker before it sends to a device, and while it does.
Lists == (SUBSET Row) \ {{}}

ToPush == [step : {"push"}, event : NoticeEvents, todo : Lists, failed : BOOLEAN]

InFlight == [step : {"post", "sent", "rejected", "gone", "failed"}, event : NoticeEvents,
             todo : Lists, failed : BOOLEAN, n : Nat, refreshed : BOOLEAN, tries : Nat,
             access : Nat]

Work == {NoWork} \cup ToPush \cup InFlight

Google == [cached : Nat, valid : Nat \ {0}, fetches : Nat, changes : Nat]

TableTypes ==
    /\ devices \subseteq Row
    /\ stamp \in 0 .. MaxStamps
    /\ signer \in [Signers -> {NoSigning} \cup Signing]

WorkTypes ==
    /\ told \subseteq NoticeEvents
    /\ pusher \in [Pushers -> Work]
    /\ google \in Google
    /\ pushes \in [NoticeEvents \X Stamps -> Nat]
    /\ due \in [NoticeEvents -> SUBSET (Stamps \cup {0})]
    /\ excused \in [NoticeEvents -> Nat]

NtTypes == TableTypes /\ WorkTypes

LEMMA NtConstants ==
    /\ MaxDevicesPerUser \in Nat /\ MaxDevicesPerUser >= 1
    /\ SendAttempts \in Nat /\ SendAttempts >= 1 /\ MaxStamps \in Nat
    /\ IsFiniteSet(Pushers) /\ IsFiniteSet(Signers)
    /\ \A e \in NoticeEvents : BookingEvent(Notices[e])
  BY NotificationAssumption

\* The newest of a list.
First(T) == CHOOSE d \in T : \A x \in T : x.at <= d.at

LEMMA FirstIn ==
    ASSUME NEW T \in Lists
    PROVE  First(T) \in T /\ First(T) \in Row /\ First(T).id \in Stamps
<1> DEFINE S == {MaxStamps - d.at : d \in T}
<1>0. T \subseteq Row /\ T # {} /\ \A d \in T : d.at \in Stamps
  BY DEF Lists, Row
<1>1. S \subseteq Nat /\ S # {}
  BY <1>0, NtConstants DEF Stamps
<1>2. PICK n \in S : \A m \in S : n <= m
  BY <1>1, Least
<1>3. PICK d \in T : n = MaxStamps - d.at
  BY <1>2
<1>4. ASSUME NEW x \in T PROVE x.at <= d.at
  <2>1. MaxStamps - x.at \in S
    OBVIOUS
  <2>2. MaxStamps - d.at <= MaxStamps - x.at
    BY <1>2, <1>3, <2>1
  <2>3. QED
    BY <1>0, <2>2, NtConstants DEF Stamps
<1>5. First(T) \in T
  BY <1>4 DEF First
<1>6. QED
  BY <1>0, <1>5 DEF Row

LEMMA DevIs ==
    ASSUME WorkTypes, NEW w \in Pushers, pusher[w] # NoWork
    PROVE  /\ Dev(w) = First(pusher[w].todo) /\ Dev(w) \in pusher[w].todo
           /\ Dev(w) \in Row /\ Dev(w).id \in Stamps
           /\ pusher[w] \in ToPush \cup InFlight
           /\ pusher[w].event \in NoticeEvents /\ pusher[w].todo \in Lists
           /\ pusher[w].failed \in BOOLEAN
<1>1. pusher[w] \in ToPush \cup InFlight
  BY DEF WorkTypes, Work
<1>2. /\ pusher[w].event \in NoticeEvents /\ pusher[w].todo \in Lists
      /\ pusher[w].failed \in BOOLEAN
  BY <1>1 DEF ToPush, InFlight
<1>3. Dev(w) = First(pusher[w].todo)
  BY DEF Dev, First
<1>4. QED
  BY <1>1, <1>2, <1>3, FirstIn

LEMMA DoingIs ==
    ASSUME WorkTypes, NEW w \in Pushers, NEW s, Doing(w, s)
    PROVE  /\ pusher[w] # NoWork /\ pusher[w].step = s
           /\ s = "push" => pusher[w] \in ToPush
           /\ s # "push" => pusher[w] \in InFlight
  BY DevIs DEF Doing, ToPush, InFlight

LEMMA WorkIsWork ==
    ASSUME NEW p \in ToPush \cup InFlight
    PROVE  p # NoWork /\ p \in Work
  BY DEF ToPush, InFlight, NoWork, Work

-----------------------------------------------------------------------------
(***************************************************************************)
(* What a worker's step may do.                                            *)
(***************************************************************************)
Rec(D, e, i) == \E o \in {"sent", "rejected"} : <<e, i, o>> \in D

Hears(e) == CustomerNotice(Notices[e]) /\ Notices[e].customer # WalkIn

Mine(T, e) == {d \in T : d.user = Notices[e].customer}

\* Nobody but w moved.
Alone(w) ==
    pusher' \in [Pushers -> Work] /\ \A o \in Pushers : o # w => pusher'[o] = pusher[o]

NextOf(e, todo, failed) ==
    IF todo = {} THEN NoWork
                 ELSE [step |-> "push", event |-> e, todo |-> todo, failed |-> failed]

BusyWith(P, e) == {w \in Pushers : P[w] # NoWork /\ P[w].event = e}

More(f, k) == [f EXCEPT ![k] = @ + 1]

Started(w, e) ==
    /\ pusher[w] = NoWork /\ e \notin told
    /\ Alone(w)
    /\ LET todo == IF Hears(e) THEN Mine(devices, e) ELSE {}
       IN  /\ pusher'[w] = NextOf(e, todo, FALSE)
           /\ told' = IF todo = {} THEN told \cup {e} ELSE told
    /\ excused' = IF BusyWith(pusher, e) = {} THEN excused ELSE More(excused, e)
    /\ due' = IF due[e] # {0} THEN due ELSE [due EXCEPT ![e] = {d.id : d \in Mine(devices, e)}]
    /\ UNCHANGED <<devices, stamp, signer, deliveries, google, pushes>>

Advanced(w, failed) ==
    /\ pusher[w] # NoWork
    /\ Alone(w)
    /\ LET e == pusher[w].event
           id == First(pusher[w].todo).id
           todo == pusher[w].todo \ {First(pusher[w].todo)}
           f == pusher[w].failed \/ failed
       IN  /\ pusher'[w] = NextOf(e, todo, f)
           /\ told' = IF todo = {} /\ ~ f THEN told \cup {e} ELSE told
           /\ \/ failed \/ Rec(deliveries', e, id)
              \/ devices' = {d \in devices : d.id # id}
           /\ \A a, i : Rec(deliveries', a, i) <=>
                 Rec(deliveries, a, i) \/ (a = e /\ i = id /\ Rec(deliveries', e, id))
           /\ excused' = excused \/ excused' = More(excused, e)
           /\ pusher[w].step = "sent" => Rec(deliveries', e, id) \/ excused' = More(excused, e)
           /\ \/ devices' = devices
              \/ /\ devices' = {d \in devices : d.id # id}
                 /\ \A d \in devices : d.id = id => Unlocked(d)
    /\ UNCHANGED <<stamp, signer, google, pushes, due>>

Same(p, q) == q \in InFlight /\ q.event = p.event /\ q.todo = p.todo /\ q.failed = p.failed

Flown(w) ==
    /\ pusher[w] # NoWork
    /\ Alone(w)
    /\ Same(pusher[w], pusher'[w])
    /\ LET p == pusher[w]
           q == pusher'[w]
           k == <<p.event, First(p.todo).id>>
       IN  \/ /\ p.step = "push" /\ q.step = "post" /\ ~ Rec(deliveries, k[1], k[2])
              /\ UNCHANGED <<pushes, excused>>
           \/ /\ p.step = "post" /\ q.step # "sent"
              /\ UNCHANGED <<pushes, excused>>
           \/ /\ p.step = "post" /\ q.step = "sent"
              /\ pushes' = More(pushes, k) /\ UNCHANGED excused
           \/ /\ p.step = "post" /\ q.step # "sent"
              /\ pushes' = More(pushes, k) /\ excused' = More(excused, p.event)
    /\ google' \in Google
    /\ UNCHANGED <<devices, stamp, signer, deliveries, told, due>>

Died(w) ==
    /\ pusher[w] # NoWork
    /\ Alone(w)
    /\ pusher'[w] = NoWork
    /\ excused' = IF pusher[w].step = "sent" THEN More(excused, pusher[w].event) ELSE excused
    /\ UNCHANGED <<devices, stamp, signer, deliveries, told, google, pushes, due>>

Working ==
    \/ \E w \in Pushers, e \in NoticeEvents : Started(w, e)
    \/ \E w \in Pushers, failed \in BOOLEAN : Advanced(w, failed)
    \/ \E w \in Pushers : Flown(w) \/ Died(w)

\* Workers at rest; the tables may change.
Resting == UNCHANGED <<deliveries, told, pusher, pushes, due, excused>> /\ google' \in Google

LEMMA NextOfType ==
    ASSUME NEW e \in NoticeEvents, NEW todo \in SUBSET Row, NEW f \in BOOLEAN
    PROVE  /\ NextOf(e, todo, f) \in Work
           /\ todo # {} => /\ NextOf(e, todo, f) \in ToPush
                           /\ NextOf(e, todo, f).event = e /\ NextOf(e, todo, f).todo = todo
                           /\ NextOf(e, todo, f).failed = f /\ NextOf(e, todo, f).step = "push"
           /\ todo = {} => NextOf(e, todo, f) = NoWork
<1>1. CASE todo = {}
  BY <1>1 DEF NextOf, Work
<1>2. CASE todo # {}
  <2>1. todo \in Lists
    BY <1>2 DEF Lists
  <2>2. QED
    BY <1>2, <2>1 DEF NextOf, Work, ToPush
<1>3. QED
  BY <1>1, <1>2

LEMMA Alones ==
    ASSUME WorkTypes, NEW w \in Pushers, NEW q \in Work, pusher' = [pusher EXCEPT ![w] = q]
    PROVE  Alone(w) /\ pusher'[w] = q
  BY DEF WorkTypes, Alone

\* GoOn and NextDevice in these terms.
LEMMA GoOnIs ==
    ASSUME WorkTypes, NEW w \in Pushers, NEW e \in NoticeEvents, NEW todo \in SUBSET Row,
           NEW f \in BOOLEAN, GoOn(w, e, todo, f)
    PROVE  /\ Alone(w) /\ pusher'[w] = NextOf(e, todo, f)
           /\ told' = IF todo = {} /\ ~ f THEN told \cup {e} ELSE told
<1>1. pusher' = [pusher EXCEPT ![w] = NextOf(e, todo, f)]
  BY DEF GoOn, NextOf
<1>2. NextOf(e, todo, f) \in Work
  BY NextOfType
<1>3. QED
  BY <1>1, <1>2, Alones DEF GoOn

LEMMA NextDeviceIs ==
    ASSUME WorkTypes, NEW w \in Pushers, pusher[w] # NoWork, NEW failed \in BOOLEAN,
           NextDevice(w, failed)
    PROVE  LET e == pusher[w].event
               todo == pusher[w].todo \ {First(pusher[w].todo)}
               f == pusher[w].failed \/ failed
           IN  /\ Alone(w) /\ pusher'[w] = NextOf(e, todo, f)
               /\ told' = IF todo = {} /\ ~ f THEN told \cup {e} ELSE told
<1> DEFINE e == pusher[w].event
           todo == pusher[w].todo \ {First(pusher[w].todo)}
           f == pusher[w].failed \/ failed
<1>1. /\ Dev(w) = First(pusher[w].todo) /\ pusher[w].event \in NoticeEvents
      /\ pusher[w].todo \in Lists /\ pusher[w].failed \in BOOLEAN
  BY DevIs
<1>0. e \in NoticeEvents
  BY <1>1
<1>2. todo \in SUBSET Row /\ f \in BOOLEAN
  BY <1>1 DEF Lists
<1>3. GoOn(w, e, todo, f)
  BY <1>1 DEF NextDevice
<1> HIDE DEF e, todo, f
<1>4. /\ Alone(w) /\ pusher'[w] = NextOf(e, todo, f)
      /\ told' = IF todo = {} /\ ~ f THEN told \cup {e} ELSE told
  BY <1>0, <1>2, <1>3, GoOnIs
<1>5. QED
  BY <1>4 DEF e, todo, f

LEMMA NotifyIs ==
    ASSUME NtTypes, NEW w \in Pushers, NEW e \in NoticeEvents, Notify(w, e)
    PROVE  Started(w, e)
<1> DEFINE todo == IF Hears(e) THEN Mine(devices, e) ELSE {}
<1>1. todo \in SUBSET Row
  BY DEF Mine, NtTypes, TableTypes
<1>2. Of(Notices[e].customer) = Mine(devices, e)
  BY DEF Of, Mine
<1>3. GoOn(w, e, todo, FALSE)
  BY <1>2 DEF Notify, Hears
<1> HIDE DEF todo
<1>4. /\ Alone(w) /\ pusher'[w] = NextOf(e, todo, FALSE)
      /\ told' = IF todo = {} THEN told \cup {e} ELSE told
  BY <1>1, <1>3, GoOnIs DEF NtTypes
<1>5. excused' = IF BusyWith(pusher, e) = {} THEN excused ELSE More(excused, e)
  BY DEF Notify, BusyWith, More, Excuse
<1>6. due' = IF due[e] # {0} THEN due ELSE [due EXCEPT ![e] = {d.id : d \in Mine(devices, e)}]
  BY <1>2 DEF Notify
<1>7. QED
  BY <1>4, <1>5, <1>6 DEF Notify, Started, todo, phoneVars

LEMMA PushOnceIs ==
    ASSUME NtTypes, NEW w \in Pushers, PushOnce(w)
    PROVE  Advanced(w, FALSE) \/ Flown(w)
<1> DEFINE p == pusher[w]
           e == p.event
           id == First(p.todo).id
           q == [step |-> "post", event |-> p.event, todo |-> p.todo, failed |-> p.failed,
                 n |-> 0, refreshed |-> FALSE, tries |-> 0, access |-> 0]
<1>1. p # NoWork /\ p.step = "push" /\ p \in ToPush
  BY DoingIs DEF PushOnce, NtTypes
<1>2. Dev(w) = First(p.todo)
  BY <1>1, DevIs DEF NtTypes
<1>3. CASE Delivered(e, Dev(w).id)
  <2>1. NextDevice(w, FALSE) /\ Rec(deliveries, e, id)
    BY <1>2, <1>3 DEF PushOnce, Delivered, Recorded, Rec
  <2>2. UNCHANGED <<devices, stamp, signer, deliveries, google, pushes, due, excused>>
    BY DEF PushOnce, phoneVars
  <2>3. QED
    BY <1>1, <2>1, <2>2, NextDeviceIs DEF Advanced, NtTypes
<1>4. CASE ~ Delivered(e, Dev(w).id)
  <2>1. /\ pusher' = [pusher EXCEPT ![w] = q] /\ ~ Rec(deliveries, e, id)
        /\ UNCHANGED <<devices, stamp, signer, deliveries, told, google, pushes, due, excused>>
    BY <1>2, <1>4 DEF PushOnce, Delivered, Recorded, Rec, phoneVars
  <2>2. q \in InFlight /\ q.step = "post" /\ Same(p, q)
    BY <1>1 DEF InFlight, ToPush, Same
  <2>3. google' \in Google
    BY <2>1 DEF NtTypes, WorkTypes
  <2> HIDE DEF q
  <2>4. Alone(w) /\ pusher'[w] = q
    BY <2>1, <2>2, WorkIsWork, Alones DEF NtTypes
  <2>5. QED
    BY <1>1, <2>1, <2>2, <2>3, <2>4 DEF Flown
<1>5. QED
  BY <1>3, <1>4

LEMMA RecordIs ==
    ASSUME NtTypes, NEW w \in Pushers, NEW o \in {"sent", "rejected"}, RecordDelivery(w, o)
    PROVE  Advanced(w, FALSE)
<1> DEFINE p == pusher[w]
           e == p.event
           id == First(p.todo).id
<1>1. p # NoWork
  BY DoingIs DEF RecordDelivery, NtTypes
<1>2. Dev(w) = First(p.todo)
  BY <1>1, DevIs DEF NtTypes
<1>3. /\ deliveries' = deliveries \cup (IF Rec(deliveries, e, id) THEN {} ELSE {<<e, id, o>>})
      /\ NextDevice(w, FALSE)
      /\ UNCHANGED <<devices, stamp, signer, google, pushes, due, excused>>
  BY <1>2 DEF RecordDelivery, Recorded, Rec, phoneVars
<1> HIDE DEF e, id
<1>4. Rec(deliveries', e, id)
  BY <1>3 DEF Rec
<1>5. \A a, i : Rec(deliveries', a, i) <=>
         Rec(deliveries, a, i) \/ (a = e /\ i = id /\ Rec(deliveries', e, id))
  BY <1>3, <1>4 DEF Rec
<1>6. QED
  BY <1>1, <1>3, <1>4, <1>5, NextDeviceIs DEF Advanced, NtTypes, e, id

LEMMA ForgetIs ==
    ASSUME NtTypes, NEW w \in Pushers, ForgetDevice(w)
    PROVE  Advanced(w, FALSE)
<1>1. pusher[w] # NoWork /\ pusher[w].step = "gone"
  BY DoingIs DEF ForgetDevice, NtTypes
<1>2. Dev(w) = First(pusher[w].todo)
  BY <1>1, DevIs DEF NtTypes
<1>3. /\ NextDevice(w, FALSE)
      /\ devices' = {d \in devices : d.id # First(pusher[w].todo).id}
      /\ \A d \in devices : d.id = First(pusher[w].todo).id => Unlocked(d)
      /\ UNCHANGED <<stamp, signer, deliveries, google, pushes, due, excused>>
  BY <1>2 DEF ForgetDevice, phoneVars
<1>4. QED
  BY <1>1, <1>3, NextDeviceIs DEF Advanced, NtTypes

LEMMA FailedIs ==
    ASSUME NtTypes, NEW w \in Pushers, PushFailed(w)
    PROVE  Advanced(w, TRUE)
<1>1. pusher[w] # NoWork
  BY DEF PushFailed, Doing
<1>2. /\ NextDevice(w, TRUE)
      /\ UNCHANGED <<devices, stamp, signer, deliveries, google, pushes, due>>
      /\ excused' = excused \/ excused' = More(excused, pusher[w].event)
      /\ pusher[w].step = "sent" => excused' = More(excused, pusher[w].event)
  BY <1>1 DEF PushFailed, phoneVars, Excuse, More, Doing
<1>3. QED
  BY <1>1, <1>2, NextDeviceIs DEF Advanced, NtTypes

LEMMA DiesIs ==
    ASSUME NtTypes, NEW w \in Pushers, PusherDies(w)
    PROVE  Died(w)
<1>1. /\ pusher[w] # NoWork /\ pusher' = [pusher EXCEPT ![w] = NoWork]
      /\ UNCHANGED <<devices, stamp, signer, deliveries, told, google, pushes, due>>
      /\ excused' = IF pusher[w].step = "sent" THEN More(excused, pusher[w].event) ELSE excused
  BY DEF PusherDies, phoneVars, Doing, Excuse, More
<1>2. Alone(w) /\ pusher'[w] = NoWork
  BY <1>1, Alones DEF NtTypes, Work
<1>3. QED
  BY <1>1, <1>2 DEF Died

-----------------------------------------------------------------------------
\* The tries of one push: with what it has, n tries may pass, one is granted
\* for a refused token, and one may be under way.
Bit(b) == IF b THEN 1 ELSE 0

TriesFit(p) ==
    p.step = "post" =>
        p.n < SendAttempts /\ p.tries <= p.n + Bit(p.refreshed) + Bit(p.access # 0)

LEMMA BitType == \A b \in BOOLEAN : Bit(b) \in Nat /\ Bit(b) <= 1
  BY DEF Bit

LEMMA TurnIs ==
    ASSUME NtTypes, NEW w \in Pushers, pusher[w] \in InFlight,
           NEW s \in {"sent", "rejected", "gone", "failed"}, Turn(w, s)
    PROVE  /\ Alone(w) /\ Same(pusher[w], pusher'[w])
           /\ pusher'[w].step = s /\ TriesFit(pusher'[w])
<1> DEFINE q == [pusher[w] EXCEPT !.step = s]
<1>1. pusher' = [pusher EXCEPT ![w] = q]
  BY DEF Turn
<1>2. q \in InFlight /\ Same(pusher[w], q) /\ q.step = s
  BY DEF InFlight, Same
<1> HIDE DEF q
<1>3. Alone(w) /\ pusher'[w] = q
  BY <1>1, <1>2, WorkIsWork, Alones DEF NtTypes
<1>4. QED
  BY <1>2, <1>3 DEF TriesFit

LEMMA TryAgainIs ==
    ASSUME NtTypes, NEW w \in Pushers, pusher[w] \in InFlight, pusher[w].step = "post",
           TriesFit(pusher[w]), TryAgain(w)
    PROVE  /\ Alone(w) /\ Same(pusher[w], pusher'[w])
           /\ pusher'[w].step # "sent" /\ TriesFit(pusher'[w])
<1> DEFINE p == pusher[w]
           more == p.n + 1
           a == [p EXCEPT !.step = "post", !.n = more, !.access = 0]
           b == [p EXCEPT !.step = "failed"]
           q == IF more < SendAttempts THEN a ELSE b
<1>1. pusher' = [pusher EXCEPT ![w] = q]
  BY DEF TryAgain
<1>2. p.n \in Nat /\ more \in Nat /\ p.tries \in Nat /\ p.refreshed \in BOOLEAN /\ more = p.n + 1
  BY DEF InFlight
<1> HIDE DEF more
<1>3. b \in InFlight /\ Same(p, b) /\ b.step = "failed"
  BY DEF InFlight, Same
<1>4. /\ a \in InFlight /\ Same(p, a) /\ a.step = "post"
      /\ a.n = more /\ a.access = 0 /\ a.tries = p.tries /\ a.refreshed = p.refreshed
  BY <1>2 DEF InFlight, Same
<1> HIDE DEF a, b
<1>5. more < SendAttempts => TriesFit(a)
  <2>1. p.tries <= p.n + Bit(p.refreshed) + Bit(p.access # 0)
    BY DEF TriesFit
  <2>2. /\ Bit(p.refreshed) \in Nat /\ Bit(p.access # 0) \in Nat /\ Bit(p.access # 0) <= 1
        /\ Bit(a.access # 0) = 0 /\ Bit(a.refreshed) = Bit(p.refreshed)
    BY <1>2, <1>4 DEF Bit
  <2>3. a.tries <= a.n + Bit(a.refreshed) + Bit(a.access # 0)
    BY <1>2, <1>4, <2>1, <2>2
  <2>4. QED
    BY <1>4, <2>3 DEF TriesFit
<1>6. q \in InFlight /\ Same(p, q) /\ q.step # "sent" /\ TriesFit(q)
  BY <1>3, <1>4, <1>5 DEF TriesFit
<1> HIDE DEF q
<1>7. Alone(w) /\ pusher'[w] = q
  BY <1>1, <1>6, WorkIsWork, Alones DEF NtTypes
<1>8. QED
  BY <1>6, <1>7

\* The token a try uses.
LEMMA TakeTokenIs ==
    ASSUME NtTypes, NEW w \in Pushers, pusher[w] \in InFlight, pusher[w].step = "post",
           pusher[w].access = 0, TriesFit(pusher[w]), NEW t \in Nat \ {0},
           pusher' = [pusher EXCEPT ![w].access = t, ![w].tries = @ + 1]
    PROVE  /\ Alone(w) /\ Same(pusher[w], pusher'[w])
           /\ pusher'[w].step # "sent" /\ TriesFit(pusher'[w])
<1> DEFINE p == pusher[w]
           more == p.tries + 1
           q == [p EXCEPT !.access = t, !.tries = more]
<1>1. pusher' = [pusher EXCEPT ![w] = q]
  BY DEF NtTypes, WorkTypes, InFlight
<1>2. p.n \in Nat /\ more \in Nat /\ p.tries \in Nat /\ p.refreshed \in BOOLEAN /\ more = p.tries + 1
  BY DEF InFlight
<1> HIDE DEF more
<1>3. /\ q \in InFlight /\ Same(p, q) /\ q.step = "post"
      /\ q.n = p.n /\ q.access = t /\ q.tries = more /\ q.refreshed = p.refreshed
  BY <1>2 DEF InFlight, Same
<1> HIDE DEF q
<1>4. TriesFit(q)
  <2>1. p.n < SendAttempts /\ p.tries <= p.n + Bit(p.refreshed) + Bit(p.access # 0)
    BY DEF TriesFit
  <2>2. /\ Bit(p.refreshed) \in Nat /\ Bit(p.access # 0) = 0
        /\ Bit(q.access # 0) = 1 /\ Bit(q.refreshed) = Bit(p.refreshed)
    BY <1>2, <1>3 DEF Bit
  <2>3. q.tries <= q.n + Bit(q.refreshed) + Bit(q.access # 0)
    BY <1>2, <1>3, <2>1, <2>2
  <2>4. QED
    BY <1>3, <2>1, <2>3 DEF TriesFit
<1>5. Alone(w) /\ pusher'[w] = q
  BY <1>1, <1>3, WorkIsWork, Alones DEF NtTypes
<1>6. QED
  BY <1>3, <1>4, <1>5

LEMMA UnauthorizedIs ==
    ASSUME NtTypes, NEW w \in Pushers, pusher[w] \in InFlight, pusher[w].step = "post",
           pusher[w].access # 0, TriesFit(pusher[w]),
           pusher' = [pusher EXCEPT ![w] = Unauthorized(pusher[w])]
    PROVE  /\ Alone(w) /\ Same(pusher[w], pusher'[w])
           /\ pusher'[w].step # "sent" /\ TriesFit(pusher'[w])
<1> DEFINE p == pusher[w]
           a == [p EXCEPT !.step = "failed"]
           b == [p EXCEPT !.step = "post", !.access = 0, !.refreshed = TRUE]
           q == IF p.refreshed THEN a ELSE b
<1>1. pusher' = [pusher EXCEPT ![w] = q]
  BY DEF Unauthorized
<1>2. p.n \in Nat /\ p.tries \in Nat /\ p.refreshed \in BOOLEAN
  BY DEF InFlight
<1>3. a \in InFlight /\ Same(p, a) /\ a.step = "failed"
  BY DEF InFlight, Same
<1>4. /\ b \in InFlight /\ Same(p, b) /\ b.step = "post"
      /\ b.n = p.n /\ b.access = 0 /\ b.tries = p.tries /\ b.refreshed = TRUE
  BY DEF InFlight, Same
<1> HIDE DEF a, b
<1>5. ~ p.refreshed => TriesFit(b)
  <2> SUFFICES ASSUME ~ p.refreshed PROVE TriesFit(b)
    OBVIOUS
  <2>1. p.n < SendAttempts /\ p.tries <= p.n + Bit(p.refreshed) + Bit(p.access # 0)
    BY DEF TriesFit
  <2>2. /\ Bit(p.refreshed) = 0 /\ Bit(p.access # 0) = 1
        /\ Bit(b.access # 0) = 0 /\ Bit(b.refreshed) = 1
    BY <1>2, <1>4 DEF Bit
  <2>3. b.tries <= b.n + Bit(b.refreshed) + Bit(b.access # 0)
    BY <1>2, <1>4, <2>1, <2>2
  <2>4. QED
    BY <1>4, <2>1, <2>3 DEF TriesFit
<1>6. q \in InFlight /\ Same(p, q) /\ q.step # "sent" /\ TriesFit(q)
  BY <1>3, <1>4, <1>5 DEF TriesFit
<1> HIDE DEF q
<1>7. Alone(w) /\ pusher'[w] = q
  BY <1>1, <1>6, WorkIsWork, Alones DEF NtTypes
<1>8. QED
  BY <1>6, <1>7

\* One sign-in for every token there was, and none yet for the last unless it is
\* cached.
FetchesFit(g) == g.fetches <= g.changes + Bit(g.cached = g.valid)

CallsInv == FetchesFit(google) /\ \A w \in Pushers : TriesFit(pusher[w])

LEMMA GoogleType ==
    ASSUME NEW g \in Google
    PROVE  /\ g.cached \in Nat /\ g.valid \in Nat /\ g.valid # 0
           /\ g.fetches \in Nat /\ g.changes \in Nat
  BY DEF Google

LEMMA ForgetFits ==
    ASSUME NEW g \in Google, FetchesFit(g), g.cached # g.valid
    PROVE  [g EXCEPT !.cached = 0] \in Google /\ FetchesFit([g EXCEPT !.cached = 0])
<1> DEFINE h == [g EXCEPT !.cached = 0]
<1>1. /\ h \in Google /\ h.cached = 0 /\ h.valid = g.valid /\ h.fetches = g.fetches
      /\ h.changes = g.changes
  BY DEF Google
<1> HIDE DEF h
<1>2. Bit(g.cached = g.valid) = 0 /\ Bit(h.cached = h.valid) = 0
  BY <1>1, GoogleType DEF Bit
<1>3. FetchesFit(h)
  BY <1>1, <1>2 DEF FetchesFit
<1>4. QED
  BY <1>1, <1>3 DEF h

LEMMA GetTokenIs ==
    ASSUME NtTypes, CallsInv, NEW w \in Pushers, GetToken(w)
    PROVE  Flown(w) /\ TriesFit(pusher'[w]) /\ FetchesFit(google')
<1> DEFINE p == pusher[w]
<1>1. p # NoWork /\ p \in InFlight /\ p.step = "post" /\ p.access = 0 /\ TriesFit(p)
  BY DoingIs DEF GetToken, NtTypes, CallsInv
<1>2. /\ UNCHANGED <<devices, stamp, signer, deliveries, told, pushes, due, excused>>
      /\ google \in Google /\ FetchesFit(google)
  BY DEF GetToken, phoneVars, NtTypes, WorkTypes, CallsInv
<1> DEFINE Goal == /\ Alone(w) /\ Same(p, pusher'[w]) /\ pusher'[w].step # "sent"
                   /\ TriesFit(pusher'[w])
<1>3. CASE /\ google.cached # 0 /\ UNCHANGED google
           /\ pusher' = [pusher EXCEPT ![w].access = google.cached, ![w].tries = @ + 1]
  <2>1. google.cached \in Nat \ {0}
    BY <1>2, <1>3, GoogleType
  <2>2. Goal
    BY <1>1, <1>3, <2>1, TakeTokenIs
  <2>3. QED
    BY <1>1, <1>2, <1>3, <2>2 DEF Flown
<1>4. CASE /\ google.cached = 0
           /\ google' = [google EXCEPT !.cached = google.valid, !.fetches = @ + 1]
           /\ pusher' = [pusher EXCEPT ![w].access = google.valid, ![w].tries = @ + 1]
  <2>1. google.valid \in Nat \ {0}
    BY <1>2, GoogleType
  <2>2. Goal
    BY <1>1, <1>4, <2>1, TakeTokenIs
  <2> DEFINE more == google.fetches + 1
             h == [google EXCEPT !.cached = google.valid, !.fetches = more]
  <2>3. google' = h
    BY <1>4, <1>2 DEF Google
  <2>4. more \in Nat /\ more = google.fetches + 1
    BY <1>2, GoogleType
  <2> HIDE DEF more
  <2>5. /\ h \in Google /\ h.cached = google.valid /\ h.valid = google.valid
        /\ h.fetches = more /\ h.changes = google.changes
    BY <1>2, <2>4 DEF Google
  <2> HIDE DEF h
  <2>6. Bit(google.cached = google.valid) = 0 /\ Bit(h.cached = h.valid) = 1
    BY <1>2, <1>4, <2>5, GoogleType DEF Bit
  <2>7. FetchesFit(h)
    BY <1>2, <2>4, <2>5, <2>6, GoogleType DEF FetchesFit
  <2>8. QED
    BY <1>1, <1>2, <2>2, <2>3, <2>5, <2>7 DEF Flown
<1>5. CASE UNCHANGED google /\ (TryAgain(w) \/ Turn(w, "failed"))
  <2>1. Goal
    BY <1>1, <1>5, TryAgainIs, TurnIs
  <2>2. QED
    BY <1>1, <1>2, <1>5, <2>1 DEF Flown
<1>6. QED
  BY <1>3, <1>4, <1>5 DEF GetToken

LEMMA PostIs ==
    ASSUME NtTypes, CallsInv, NEW w \in Pushers, Post(w)
    PROVE  Flown(w) /\ TriesFit(pusher'[w]) /\ FetchesFit(google')
<1> DEFINE p == pusher[w]
           e == p.event
           k == <<e, First(p.todo).id>>
<1>1. p # NoWork /\ p \in InFlight /\ p.step = "post" /\ p.access # 0 /\ TriesFit(p)
  BY DoingIs DEF Post, NtTypes, CallsInv
<1>2. /\ UNCHANGED <<devices, stamp, signer, deliveries, told, due>>
      /\ google \in Google /\ FetchesFit(google)
  BY DEF Post, phoneVars, NtTypes, WorkTypes, CallsInv
<1>3. Dev(w) = First(p.todo)
  BY <1>1, DevIs DEF NtTypes
<1> DEFINE Goal == /\ Alone(w) /\ Same(p, pusher'[w]) /\ TriesFit(pusher'[w])
<1>4. CASE p.access # google.valid
  <2>1. /\ google' = Forget(p.access) /\ UNCHANGED <<pushes, excused>>
        /\ pusher' = [pusher EXCEPT ![w] = Unauthorized(p)]
    BY <1>4 DEF Post
  <2>2. Goal /\ pusher'[w].step # "sent"
    BY <1>1, <2>1, UnauthorizedIs
  <2>3. google' \in Google /\ FetchesFit(google')
    BY <1>2, <1>4, <2>1, ForgetFits DEF Forget
  <2>4. QED
    BY <1>1, <1>2, <2>1, <2>2, <2>3 DEF Flown
<1>5. CASE p.access = google.valid
  <2>0. Answer(w)
    BY <1>5 DEF Post
  <2>1. CASE /\ Turn(w, "gone") \/ Turn(w, "rejected") \/ Turn(w, "failed") \/ TryAgain(w)
             /\ UNCHANGED <<google, pushes, excused>>
    <3>1. Goal /\ pusher'[w].step # "sent"
      BY <1>1, <2>1, TurnIs, TryAgainIs
    <3>2. QED
      BY <1>1, <1>2, <2>1, <3>1 DEF Flown
  <2>2. CASE Turn(w, "sent") /\ pushes' = Accepted(w) /\ UNCHANGED <<google, excused>>
    <3>1. Goal /\ pusher'[w].step = "sent"
      BY <1>1, <2>2, TurnIs
    <3>2. pushes' = More(pushes, k)
      BY <1>3, <2>2 DEF Accepted, More
    <3>3. QED
      BY <1>1, <1>2, <2>2, <3>1, <3>2 DEF Flown
  <2>3. CASE TryAgain(w) /\ pushes' = Accepted(w) /\ Excuse(e) /\ UNCHANGED google
    <3>1. Goal /\ pusher'[w].step # "sent"
      BY <1>1, <2>3, TryAgainIs
    <3>2. pushes' = More(pushes, k) /\ excused' = More(excused, e)
      BY <1>3, <2>3 DEF Accepted, More, Excuse
    <3>3. QED
      BY <1>1, <1>2, <2>3, <3>1, <3>2 DEF Flown
  <2>4. QED
    BY <2>0, <2>1, <2>2, <2>3 DEF Answer
<1>6. QED
  BY <1>4, <1>5

LEMMA ChangesFit ==
    ASSUME NtTypes, CallsInv, GoogleChanges
    PROVE  google' \in Google /\ FetchesFit(google')
<1> DEFINE g == google
           more == g.changes + 1
           next == g.valid + 1
           a == [g EXCEPT !.valid = next, !.changes = more]
           b == [g EXCEPT !.cached = 0, !.changes = more]
<1>1. g \in Google /\ FetchesFit(g) /\ (google' = a \/ google' = b)
  BY DEF GoogleChanges, NtTypes, WorkTypes, CallsInv, Google
<1>2. more \in Nat /\ more = g.changes + 1 /\ next \in Nat \ {0} /\ g.changes \in Nat /\ g.fetches \in Nat
  BY <1>1, GoogleType
<1> HIDE DEF more, next
<1>3. a \in Google /\ a.fetches = g.fetches /\ a.changes = more
  BY <1>1, <1>2 DEF Google
<1>4. b \in Google /\ b.fetches = g.fetches /\ b.changes = more
  BY <1>1, <1>2 DEF Google
<1> HIDE DEF a, b
<1>5. ASSUME NEW h \in {a, b} PROVE h \in Google /\ FetchesFit(h)
  <2>1. h \in Google /\ h.fetches = g.fetches /\ h.changes = more
    BY <1>3, <1>4, <1>5
  <2>2. Bit(g.cached = g.valid) \in Nat /\ Bit(g.cached = g.valid) <= 1
        /\ Bit(h.cached = h.valid) \in Nat
    BY DEF Bit
  <2>3. QED
    BY <1>1, <1>2, <2>1, <2>2 DEF FetchesFit
<1>6. QED
  BY <1>1, <1>5

\* Every step is a worker's, or leaves the workers alone.
LEMMA WorkerSteps ==
    ASSUME NtTypes, CallsInv, [NtNext]_ntVars
    PROVE  Working \/ Resting
<1>0. google \in Google
  BY DEF NtTypes, WorkTypes
<1>1. ASSUME NEW c \in Signers, Registered(c) PROVE Resting
  BY <1>0, <1>1 DEF Registered, Resting, workVars
<1>2. ASSUME NEW c \in Signers, NEW u, NEW t, RegisterDevice(c, u, t) PROVE Resting
  BY <1>0, <1>2 DEF RegisterDevice, Resting, workVars
<1>3. ASSUME NEW u, NEW d, RemoveDevice(u, d) PROVE Resting
  BY <1>0, <1>3 DEF RemoveDevice, Resting, workVars
<1>4. ASSUME NEW t, Uninstall(t) PROVE Resting
  BY <1>0, <1>4 DEF Uninstall, Resting, workVars
<1>5. ASSUME NEW v, KeepBranch(v) PROVE Resting
  BY <1>0, <1>5 DEF KeepBranch, Resting, workVars
<1>6. CASE GoogleChanges
  BY <1>6, ChangesFit DEF GoogleChanges, Resting
<1>7. CASE UNCHANGED ntVars
  BY <1>0, <1>7 DEF ntVars, Resting
<1>8. CASE PhonesNext
  BY <1>1, <1>2, <1>3, <1>4, <1>8 DEF PhonesNext
<1>9. ASSUME NEW w \in Pushers,
             \/ \E e \in NoticeEvents : Notify(w, e)
             \/ PushOnce(w) \/ GetToken(w) \/ Post(w)
             \/ \E o \in {"sent", "rejected"} : RecordDelivery(w, o)
             \/ ForgetDevice(w) \/ PushFailed(w) \/ PusherDies(w)
      PROVE  Working
  BY <1>9, NotifyIs, PushOnceIs, GetTokenIs, PostIs, RecordIs, ForgetIs, FailedIs, DiesIs DEF Working
<1>10. QED
  BY <1>5, <1>6, <1>7, <1>8, <1>9 DEF NtNext, PushesNext

LEMMA NotPosting ==
    ASSUME NEW e \in NoticeEvents, NEW todo \in SUBSET Row, NEW f \in BOOLEAN
    PROVE  TriesFit(NextOf(e, todo, f)) /\ TriesFit(NoWork)
  BY DEF TriesFit, NextOf, NoWork

LEMMA StartedPosts ==
    ASSUME NtTypes, NEW w \in Pushers, NEW e \in NoticeEvents, Started(w, e)
    PROVE  TriesFit(pusher'[w]) /\ Alone(w) /\ google' = google
<1> DEFINE todo == IF Hears(e) THEN Mine(devices, e) ELSE {}
<1>1. todo \in SUBSET Row
  BY DEF NtTypes, TableTypes, Mine
<1>2. QED
  BY <1>1, NotPosting DEF Started

LEMMA AdvancedPosts ==
    ASSUME NtTypes, NEW w \in Pushers, NEW failed \in BOOLEAN, Advanced(w, failed)
    PROVE  /\ TriesFit(pusher'[w]) /\ Alone(w) /\ google' = google
           /\ pusher[w].todo \ {First(pusher[w].todo)} \in SUBSET Row
           /\ pusher[w].event \in NoticeEvents /\ (pusher[w].failed \/ failed) \in BOOLEAN
<1> DEFINE e == pusher[w].event
           todo == pusher[w].todo \ {First(pusher[w].todo)}
           f == pusher[w].failed \/ failed
<1>1. e \in NoticeEvents /\ pusher[w].todo \in Lists /\ pusher[w].failed \in BOOLEAN
  BY DevIs DEF Advanced, NtTypes
<1>2. todo \in SUBSET Row /\ f \in BOOLEAN
  BY <1>1 DEF Lists
<1>3. pusher'[w] = NextOf(e, todo, f)
  BY DEF Advanced
<1> HIDE DEF todo, f, e
<1>4. TriesFit(pusher'[w])
  BY <1>1, <1>2, <1>3, NotPosting
<1>5. QED
  BY <1>1, <1>2, <1>4 DEF Advanced, e, todo, f

LEMMA PushOncePosts ==
    ASSUME NtTypes, NEW w \in Pushers, PushOnce(w)
    PROVE  TriesFit(pusher'[w]) /\ Alone(w) /\ google' = google
<1>1. CASE Advanced(w, FALSE)
  BY <1>1, AdvancedPosts
<1>2. CASE ~ Advanced(w, FALSE)
  <2> DEFINE q == [step |-> "post", event |-> pusher[w].event, todo |-> pusher[w].todo,
                   failed |-> pusher[w].failed,
                   n |-> 0, refreshed |-> FALSE, tries |-> 0, access |-> 0]
  <2>1. Flown(w)
    BY <1>2, PushOnceIs
  <2>2. ~ Delivered(pusher[w].event, Dev(w).id)
    BY <2>1, DevIs DEF Flown, PushOnce, Delivered, Recorded, Rec, NtTypes, Doing
  <2>3. pusher' = [pusher EXCEPT ![w] = q] /\ google' = google
    BY <2>2 DEF PushOnce
  <2>4. TriesFit(q)
    BY NtConstants DEF TriesFit, Bit
  <2> HIDE DEF q
  <2>5. pusher'[w] = q
    BY <2>3 DEF NtTypes, WorkTypes
  <2>6. QED
    BY <2>1, <2>3, <2>4, <2>5 DEF Flown
<1>3. QED
  BY <1>1, <1>2

LEMMA CallsStep ==
    ASSUME NtTypes, CallsInv, [NtNext]_ntVars
    PROVE  CallsInv'
<1>1. ASSUME NEW w \in Pushers, Alone(w), TriesFit(pusher'[w]), FetchesFit(google') PROVE CallsInv'
  BY <1>1 DEF CallsInv, Alone
<1>2. CASE UNCHANGED pusher /\ (google' = google \/ FetchesFit(google'))
  BY <1>2 DEF CallsInv
<1>3. CASE PhonesNext
  BY <1>2, <1>3 DEF PhonesNext, Registered, RegisterDevice, RemoveDevice, Uninstall, workVars
<1>4. CASE GoogleChanges
  BY <1>2, <1>4, ChangesFit DEF GoogleChanges
<1>5. CASE UNCHANGED ntVars
  BY <1>2, <1>5 DEF ntVars
<1>6. ASSUME NEW v, KeepBranch(v) PROVE CallsInv'
  BY <1>2, <1>6 DEF KeepBranch, workVars
<1>7. FetchesFit(google)
  BY DEF CallsInv
<1>8. ASSUME NEW w \in Pushers, NEW e \in NoticeEvents, Notify(w, e) PROVE CallsInv'
  BY <1>1, <1>7, <1>8, NotifyIs, StartedPosts
<1>9. ASSUME NEW w \in Pushers, PushOnce(w) PROVE CallsInv'
  BY <1>1, <1>7, <1>9, PushOncePosts
<1>10. ASSUME NEW w \in Pushers, NEW o \in {"sent", "rejected"}, RecordDelivery(w, o) PROVE CallsInv'
  BY <1>1, <1>7, <1>10, RecordIs, AdvancedPosts
<1>11. ASSUME NEW w \in Pushers, ForgetDevice(w) PROVE CallsInv'
  BY <1>1, <1>7, <1>11, ForgetIs, AdvancedPosts
<1>12. ASSUME NEW w \in Pushers, PushFailed(w) PROVE CallsInv'
  BY <1>1, <1>7, <1>12, FailedIs, AdvancedPosts
<1>13. ASSUME NEW w \in Pushers, GetToken(w) \/ Post(w) PROVE CallsInv'
  <2>1. Flown(w) /\ TriesFit(pusher'[w]) /\ FetchesFit(google')
    BY <1>13, GetTokenIs, PostIs
  <2>2. QED
    BY <1>1, <2>1 DEF Flown
<1>14. ASSUME NEW w \in Pushers, PusherDies(w) PROVE CallsInv'
  <2>1. Died(w)
    BY <1>14, DiesIs
  <2>2. TriesFit(pusher'[w])
    BY <2>1 DEF Died, TriesFit, NoWork
  <2>3. QED
    BY <1>1, <1>7, <2>1, <2>2 DEF Died
<1>15. QED
  BY <1>3, <1>4, <1>5, <1>6, <1>8, <1>9, <1>10, <1>11, <1>12, <1>13, <1>14 DEF NtNext, PushesNext

LEMMA MoreType ==
    ASSUME NEW S, NEW f \in [S -> Nat], NEW k \in S
    PROVE  /\ More(f, k) \in [S -> Nat] /\ More(f, k)[k] = f[k] + 1
           /\ \A j \in S : j # k => More(f, k)[j] = f[j]
  BY DEF More

LEMMA WorkTypesStep ==
    ASSUME NtTypes, CallsInv, [NtNext]_ntVars
    PROVE  WorkTypes'
<1> USE DEF NtTypes
<1>1. CASE Resting
  BY <1>1 DEF Resting, WorkTypes
<1>2. ASSUME NEW w \in Pushers, NEW e \in NoticeEvents, Started(w, e) PROVE WorkTypes'
  <2>1. More(excused, e) \in [NoticeEvents -> Nat]
    BY MoreType DEF WorkTypes
  <2>2. excused' \in [NoticeEvents -> Nat]
    BY <1>2, <2>1 DEF Started, WorkTypes
  <2>3. {d.id : d \in Mine(devices, e)} \subseteq Stamps
    BY DEF Mine, TableTypes, Row
  <2>4. due' \in [NoticeEvents -> SUBSET (Stamps \cup {0})]
    BY <1>2, <2>3 DEF Started, WorkTypes
  <2>5. QED
    BY <1>2, <2>2, <2>4 DEF Started, WorkTypes, Alone
<1>3. ASSUME NEW w \in Pushers, NEW failed \in BOOLEAN, Advanced(w, failed) PROVE WorkTypes'
  <2>1. pusher[w].event \in NoticeEvents
    BY <1>3, AdvancedPosts
  <2>2. More(excused, pusher[w].event) \in [NoticeEvents -> Nat]
    BY <2>1, MoreType DEF WorkTypes
  <2>3. excused' \in [NoticeEvents -> Nat]
    BY <1>3, <2>2 DEF Advanced, WorkTypes
  <2>4. told' \subseteq NoticeEvents
    BY <1>3, <2>1 DEF Advanced, WorkTypes
  <2>5. QED
    BY <1>3, <2>3, <2>4 DEF Advanced, WorkTypes, Alone
<1>4. ASSUME NEW w \in Pushers, Flown(w) PROVE WorkTypes'
  <2> DEFINE e == pusher[w].event
             k == <<e, First(pusher[w].todo).id>>
  <2>1. e \in NoticeEvents /\ k \in NoticeEvents \X Stamps
    BY <1>4, DevIs DEF Flown
  <2> HIDE DEF e, k
  <2>2. More(pushes, k) \in [NoticeEvents \X Stamps -> Nat] /\ More(excused, e) \in [NoticeEvents -> Nat]
    BY <2>1, MoreType DEF WorkTypes
  <2>3. /\ pushes' = pushes \/ pushes' = More(pushes, k)
        /\ excused' = excused \/ excused' = More(excused, e)
    BY <1>4 DEF Flown, e, k
  <2>4. QED
    BY <1>4, <2>2, <2>3 DEF Flown, WorkTypes, Alone
<1>5. ASSUME NEW w \in Pushers, Died(w) PROVE WorkTypes'
  <2>1. pusher[w].event \in NoticeEvents
    BY <1>5, DevIs DEF Died
  <2>2. More(excused, pusher[w].event) \in [NoticeEvents -> Nat]
    BY <2>1, MoreType DEF WorkTypes
  <2>3. QED
    BY <1>5, <2>2 DEF Died, WorkTypes, Alone
<1>6. QED
  BY <1>1, <1>2, <1>3, <1>4, <1>5, WorkerSteps DEF Working

-----------------------------------------------------------------------------
(***************************************************************************)
(* Second pushes.  Against every push of an event to a device there is a   *)
(* cause or the one push that is due; and so is there for every worker     *)
(* that may still push.  Of a delivery on record those are the workers     *)
(* already sending, since the others will see it; of one that is not, all  *)
(* that are at the event, but for those that just sent it and are about to *)
(* record it.                                                              *)
(***************************************************************************)
At(p, s, i) == p.step = s /\ First(p.todo).id = i

MayPush(P, D, e, i) ==
    IF Rec(D, e, i) THEN {w \in BusyWith(P, e) : At(P[w], "post", i)}
                    ELSE {w \in BusyWith(P, e) : ~ At(P[w], "sent", i)}

Fits(P, D, e, i, n, x) ==
    /\ n + Cardinality(MayPush(P, D, e, i)) <= 1 + x
    /\ ~ Rec(D, e, i) /\ BusyWith(P, e) = {} => n <= x

RepeatInv ==
    \A e \in NoticeEvents, i \in Stamps :
        Fits(pusher, deliveries, e, i, pushes[<<e, i>>], excused[e])

LEMMA MayPushCount ==
    ASSUME NEW P, NEW D, NEW e, NEW i
    PROVE  /\ IsFiniteSet(MayPush(P, D, e, i)) /\ Cardinality(MayPush(P, D, e, i)) \in Nat
           /\ MayPush(P, D, e, i) \subseteq BusyWith(P, e)
<1>1. MayPush(P, D, e, i) \subseteq BusyWith(P, e) /\ BusyWith(P, e) \subseteq Pushers
  BY DEF MayPush, BusyWith
<1>2. QED
  BY <1>1, NtConstants, FS_Subset, FS_CardinalityType

LEMMA Counting ==
    ASSUME NEW S, IsFiniteSet(S), NEW T, NEW w
    PROVE  /\ Cardinality(S) \in Nat
           /\ T \subseteq S => Cardinality(T) <= Cardinality(S) /\ Cardinality(T) \in Nat
           /\ T \subseteq S \cup {w} => Cardinality(T) <= Cardinality(S) + 1 /\ Cardinality(T) \in Nat
           /\ w \in S /\ T \subseteq S \ {w} => Cardinality(T) + 1 <= Cardinality(S) /\ Cardinality(T) \in Nat
           /\ w \in S => Cardinality(S) >= 1
<1>1. Cardinality(S) \in Nat
  BY FS_CardinalityType
<1>2. ASSUME T \subseteq S PROVE Cardinality(T) <= Cardinality(S) /\ Cardinality(T) \in Nat
  BY <1>2, FS_Subset, FS_CardinalityType
<1>3. ASSUME T \subseteq S \cup {w}
      PROVE  Cardinality(T) <= Cardinality(S) + 1 /\ Cardinality(T) \in Nat
  <2> DEFINE U == S \cup {w}
  <2>1. IsFiniteSet(U) /\ Cardinality(U) = IF w \in S THEN Cardinality(S) ELSE Cardinality(S) + 1
    BY FS_AddElement
  <2>2. Cardinality(T) <= Cardinality(U) /\ IsFiniteSet(T)
    BY <1>3, <2>1, FS_Subset
  <2>3. Cardinality(T) \in Nat /\ Cardinality(U) \in Nat
    BY <2>1, <2>2, FS_CardinalityType
  <2> HIDE DEF U
  <2>4. QED
    BY <1>1, <2>1, <2>2, <2>3
<1>4. ASSUME w \in S, T \subseteq S \ {w}
      PROVE  Cardinality(T) + 1 <= Cardinality(S) /\ Cardinality(T) \in Nat
  <2> DEFINE U == S \ {w}
  <2>1. IsFiniteSet(U) /\ Cardinality(U) = Cardinality(S) - 1
    BY <1>4, FS_RemoveElement
  <2>2. Cardinality(T) <= Cardinality(U) /\ IsFiniteSet(T)
    BY <1>4, <2>1, FS_Subset
  <2>3. Cardinality(T) \in Nat /\ Cardinality(U) \in Nat
    BY <2>1, <2>2, FS_CardinalityType
  <2> HIDE DEF U
  <2>4. QED
    BY <1>1, <2>1, <2>2, <2>3
<1>5. ASSUME w \in S PROVE Cardinality(S) >= 1
  <2>1. Cardinality(S) # 0
    BY <1>5, FS_EmptySet
  <2>2. QED
    BY <1>1, <2>1
<1>6. QED
  BY <1>1, <1>2, <1>3, <1>4, <1>5

\* How the balance may move: whoever may push afterwards, against before.
LEMMA Balance ==
    ASSUME NEW P, NEW D, NEW Q, NEW E, NEW e, NEW i, NEW w,
           NEW n \in Nat, NEW x \in Nat, NEW m \in Nat, NEW y \in Nat,
           Fits(P, D, e, i, n, x), x <= y,
           ~ Rec(E, e, i) /\ BusyWith(Q, e) = {} => m <= y,
           \/ m = n /\ MayPush(Q, E, e, i) \subseteq MayPush(P, D, e, i)
           \/ m = n /\ y = x + 1 /\ MayPush(Q, E, e, i) \subseteq MayPush(P, D, e, i) \cup {w}
           \/ m = n + 1 /\ y = x + 1 /\ MayPush(Q, E, e, i) \subseteq MayPush(P, D, e, i)
           \/ /\ m = n + 1 /\ w \in MayPush(P, D, e, i)
              /\ MayPush(Q, E, e, i) \subseteq MayPush(P, D, e, i) \ {w}
    PROVE  Fits(Q, E, e, i, m, y)
<1> DEFINE S == MayPush(P, D, e, i)
           T == MayPush(Q, E, e, i)
<1>1. IsFiniteSet(S)
  BY MayPushCount
<1>2. n + Cardinality(S) <= 1 + x
  BY DEF Fits
<1>3. m + Cardinality(T) <= 1 + y
  <2> HIDE DEF S, T
  <2>0. \/ m = n /\ T \subseteq S
        \/ m = n /\ y = x + 1 /\ T \subseteq S \cup {w}
        \/ m = n + 1 /\ y = x + 1 /\ T \subseteq S
        \/ m = n + 1 /\ w \in S /\ T \subseteq S \ {w}
    BY DEF S, T
  <2>1. CASE m = n /\ T \subseteq S
    BY <1>1, <1>2, <2>1, Counting
  <2>2. CASE m = n /\ y = x + 1 /\ T \subseteq S \cup {w}
    BY <1>1, <1>2, <2>2, Counting
  <2>3. CASE m = n + 1 /\ y = x + 1 /\ T \subseteq S
    BY <1>1, <1>2, <2>3, Counting
  <2>4. CASE m = n + 1 /\ w \in S /\ T \subseteq S \ {w}
    BY <1>1, <1>2, <2>4, Counting
  <2>5. QED
    BY <2>0, <2>1, <2>2, <2>3, <2>4
<1>4. QED
  BY <1>3 DEF Fits

\* A worker that may still push has its push in the balance.
LEMMA Reserve ==
    ASSUME NEW P, NEW D, NEW e, NEW i, NEW n \in Nat, NEW x \in Nat,
           Fits(P, D, e, i, n, x)
    PROVE  /\ n <= x + 1
           /\ \A w \in MayPush(P, D, e, i) : n <= x
<1>1. n + Cardinality(MayPush(P, D, e, i)) <= 1 + x /\ Cardinality(MayPush(P, D, e, i)) \in Nat
  BY MayPushCount DEF Fits
<1>2. ASSUME NEW w \in MayPush(P, D, e, i) PROVE Cardinality(MayPush(P, D, e, i)) >= 1
  BY MayPushCount, Counting
<1>3. QED
  BY <1>1, <1>2

LEMMA BalanceTypes ==
    ASSUME WorkTypes, NEW e \in NoticeEvents, NEW i \in Stamps
    PROVE  pushes[<<e, i>>] \in Nat /\ excused[e] \in Nat
  BY DEF WorkTypes

LEMMA MoreExcused ==
    ASSUME WorkTypes, NEW a \in NoticeEvents, NEW e \in NoticeEvents
    PROVE  More(excused, a)[e] = IF e = a THEN excused[e] + 1 ELSE excused[e]
<1>1. excused \in [NoticeEvents -> Nat]
  BY DEF WorkTypes
<1>2. QED
  BY <1>1 DEF More

\* The workers at an event, when only w moved.
LEMMA BusyMoves ==
    ASSUME NEW w \in Pushers, Alone(w), NEW e
    PROVE  /\ BusyWith(pusher', e) \ {w} = BusyWith(pusher, e) \ {w}
           /\ w \in BusyWith(pusher', e) <=> pusher'[w] # NoWork /\ pusher'[w].event = e
           /\ w \in BusyWith(pusher, e) <=> pusher[w] # NoWork /\ pusher[w].event = e
           /\ \A o \in Pushers : o # w => pusher'[o] = pusher[o]
  BY DEF BusyWith, Alone

LEMMA StartedFits ==
    ASSUME NtTypes, RepeatInv, NEW w \in Pushers, NEW a \in NoticeEvents, Started(w, a), WorkTypes'
    PROVE  RepeatInv'
<1> SUFFICES ASSUME NEW e \in NoticeEvents, NEW i \in Stamps
             PROVE  Fits(pusher', deliveries', e, i, pushes'[<<e, i>>], excused'[e])
  BY DEF RepeatInv
<1> DEFINE n == pushes[<<e, i>>]
           x == excused[e]
           y == excused'[e]
<1>1. /\ n \in Nat /\ x \in Nat /\ y \in Nat /\ pushes' = pushes /\ deliveries' = deliveries
      /\ Fits(pusher, deliveries, e, i, n, x)
  BY BalanceTypes DEF NtTypes, RepeatInv, WorkTypes, Started
<1>2. Alone(w) /\ pusher[w] = NoWork
  BY DEF Started
<1>3. /\ pusher'[w] = NoWork \/ (pusher'[w] # NoWork /\ pusher'[w].event = a /\ pusher'[w].step = "push")
  <2> DEFINE todo == IF Hears(a) THEN Mine(devices, a) ELSE {}
  <2>1. todo \in SUBSET Row
    BY DEF NtTypes, TableTypes, Mine
  <2> DEFINE f == FALSE
  <2>2. pusher'[w] = NextOf(a, todo, f)
    BY DEF Started
  <2>3. f \in BOOLEAN
    OBVIOUS
  <2> HIDE DEF todo, f
  <2>4. CASE todo = {}
    BY <2>1, <2>2, <2>3, <2>4, NextOfType
  <2>5. CASE todo # {}
    BY <2>1, <2>2, <2>3, <2>5, NextOfType, WorkIsWork
  <2>6. QED
    BY <2>4, <2>5
<1>4. w \notin BusyWith(pusher, e)
  BY <1>2 DEF BusyWith
<1>5. BusyWith(pusher, e) \subseteq BusyWith(pusher', e)
  BY <1>2, <1>4, BusyMoves
<1>6. MayPush(pusher', deliveries, e, i) \subseteq MayPush(pusher, deliveries, e, i) \cup {w}
  <2> SUFFICES ASSUME NEW o \in MayPush(pusher', deliveries, e, i), o # w
               PROVE  o \in MayPush(pusher, deliveries, e, i)
    OBVIOUS
  <2>1. o \in BusyWith(pusher', e) /\ o \in Pushers
    BY DEF MayPush, BusyWith
  <2>2. pusher'[o] = pusher[o] /\ o \in BusyWith(pusher, e)
    BY <1>2, <2>1, BusyMoves
  <2>3. QED
    BY <2>2 DEF MayPush
<1>7. CASE e # a \/ pusher'[w] = NoWork \/ Rec(deliveries, e, i)
  <2>1. MayPush(pusher', deliveries, e, i) \subseteq MayPush(pusher, deliveries, e, i)
    <3>1. w \notin MayPush(pusher', deliveries, e, i)
      BY <1>2, <1>3, <1>7, BusyMoves DEF MayPush, At
    <3>2. QED
      BY <1>6, <3>1
  <2>2. x <= y
    <3>1. excused' = excused \/ excused' = More(excused, a)
      BY DEF Started
    <3>2. x <= x + 1 /\ x <= x
      BY <1>1
    <3>3. QED
      BY <3>1, <3>2, MoreExcused DEF NtTypes
  <2>3. ~ Rec(deliveries, e, i) /\ BusyWith(pusher', e) = {} => n <= y
    <3>1. ~ Rec(deliveries, e, i) /\ BusyWith(pusher, e) = {} => n <= x
      BY <1>1 DEF Fits
    <3> HIDE DEF n, x, y
    <3>2. QED
      BY <1>1, <1>5, <2>2, <3>1
  <2> HIDE DEF n, x, y
  <2>4. Fits(pusher', deliveries, e, i, n, y)
    BY <1>1, <2>1, <2>2, <2>3, Balance
  <2>5. QED
    BY <1>1, <2>4 DEF n, y
<1>8. CASE e = a /\ pusher'[w] # NoWork /\ ~ Rec(deliveries, e, i)
  <2>0. w \in BusyWith(pusher', e)
    BY <1>2, <1>3, <1>8, BusyMoves
  <2>1. CASE BusyWith(pusher, e) # {}
    <3>1. y = x + 1
      BY <1>8, <2>1, MoreType DEF Started, NtTypes, WorkTypes
    <3> HIDE DEF n, x, y
    <3>2. x <= y
      BY <1>1, <3>1
    <3>3. Fits(pusher', deliveries, e, i, n, y)
      BY <1>1, <1>6, <2>0, <3>1, <3>2, Balance
    <3>4. QED
      BY <1>1, <3>3 DEF n, y
  <2>2. CASE BusyWith(pusher, e) = {}
    <3>1. n <= x /\ y = x
      BY <1>1, <1>8, <2>2 DEF Fits, Started
    <3>2. MayPush(pusher', deliveries, e, i) \subseteq {} \cup {w}
      BY <1>6, <2>2, MayPushCount
    <3>3. /\ Cardinality(MayPush(pusher', deliveries, e, i)) <= 0 + 1
          /\ Cardinality(MayPush(pusher', deliveries, e, i)) \in Nat
      <4>1. IsFiniteSet({}) /\ Cardinality({}) = 0
        BY FS_EmptySet
      <4>2. QED
        BY <3>2, <4>1, Counting
    <3> HIDE DEF n, x, y
    <3>4. n + Cardinality(MayPush(pusher', deliveries, e, i)) <= 1 + y
      BY <1>1, <3>1, <3>3
    <3>5. Fits(pusher', deliveries, e, i, n, y)
      BY <2>0, <3>4 DEF Fits
    <3>6. QED
      BY <1>1, <3>5 DEF n, y
  <2>3. QED
    BY <2>1, <2>2
<1>9. QED
  BY <1>7, <1>8

LEMMA AdvancedFits ==
    ASSUME NtTypes, RepeatInv, NEW w \in Pushers, NEW failed \in BOOLEAN, Advanced(w, failed), WorkTypes'
    PROVE  RepeatInv'
<1> SUFFICES ASSUME NEW e \in NoticeEvents, NEW i \in Stamps
             PROVE  Fits(pusher', deliveries', e, i, pushes'[<<e, i>>], excused'[e])
  BY DEF RepeatInv
<1> DEFINE n == pushes[<<e, i>>]
           x == excused[e]
           y == excused'[e]
           a == pusher[w].event
           id == First(pusher[w].todo).id
           P == pusher
           Q == pusher'
           D == deliveries
           E == deliveries'
<1>1. /\ n \in Nat /\ x \in Nat /\ y \in Nat /\ pushes' = pushes
      /\ Fits(P, D, e, i, n, x)
  BY BalanceTypes DEF NtTypes, RepeatInv, WorkTypes, Advanced
<1>2. /\ Alone(w) /\ P[w] # NoWork /\ a \in NoticeEvents
      /\ P[w].step = "sent" => Rec(E, a, id) \/ excused' = More(excused, a)
      /\ excused' = excused \/ excused' = More(excused, a)
  BY AdvancedPosts DEF Advanced
<1>3. Q[w] = NoWork \/ (Q[w] # NoWork /\ Q[w].event = a /\ Q[w].step = "push")
  <2> DEFINE todo == P[w].todo \ {First(P[w].todo)}
             f == P[w].failed \/ failed
  <2>1. todo \in SUBSET Row /\ f \in BOOLEAN
    BY AdvancedPosts
  <2>2. Q[w] = NextOf(a, todo, f)
    BY DEF Advanced
  <2> HIDE DEF todo, f, a, P, Q
  <2>3. QED
    BY <1>2, <2>1, <2>2, NextOfType, WorkIsWork
<1>4. /\ Rec(D, e, i) => Rec(E, e, i)
      /\ Rec(E, e, i) => Rec(D, e, i) \/ (e = a /\ i = id)
  BY DEF Advanced
<1>5. excused'[a] = excused[a] + 1 <=> excused' = More(excused, a)
  <2>1. excused[a] \in Nat /\ More(excused, a)[a] = excused[a] + 1
    BY <1>2, MoreExcused DEF NtTypes, WorkTypes
  <2>2. excused[a] # excused[a] + 1
    BY <2>1
  <2>3. QED
    BY <1>2, <2>1, <2>2
<1>6. x <= y
  <2>1. excused' = excused => x = y
    OBVIOUS
  <2>2. excused' = More(excused, a) => y = x \/ y = x + 1
    BY <1>2, MoreExcused DEF NtTypes
  <2> HIDE DEF x, y
  <2>3. QED
    BY <1>1, <1>2, <2>1, <2>2
<1>7. /\ BusyWith(Q, e) \ {w} = BusyWith(P, e) \ {w}
      /\ w \in BusyWith(Q, e) <=> Q[w] # NoWork /\ Q[w].event = e
      /\ w \in BusyWith(P, e) <=> P[w] # NoWork /\ P[w].event = e
      /\ \A o \in Pushers : o # w => Q[o] = P[o]
  BY <1>2, BusyMoves
<1>8. BusyWith(Q, e) \subseteq Pushers
  BY DEF BusyWith
<1> HIDE DEF P, Q, D, E, a, id, n, x, y
\* Of those that may push, all but w could before.
<1>9. \A o \in MayPush(Q, E, e, i) : o # w => o \in MayPush(P, D, e, i)
  <2> SUFFICES ASSUME NEW o \in MayPush(Q, E, e, i), o # w PROVE o \in MayPush(P, D, e, i)
    OBVIOUS
  <2>1. o \in Pushers /\ Q[o] = P[o] /\ o \in BusyWith(P, e)
    BY <1>7, <1>8 DEF MayPush
  <2>2. At(P[o], "post", i) => ~ At(P[o], "sent", i)
    BY DEF At
  <2>3. QED
    BY <1>4, <2>1, <2>2 DEF MayPush
<1>10. CASE w \in MayPush(P, D, e, i) \/ w \notin MayPush(Q, E, e, i)
  <2>1. MayPush(Q, E, e, i) \subseteq MayPush(P, D, e, i)
    BY <1>9, <1>10
  <2>2. ASSUME ~ Rec(E, e, i), BusyWith(Q, e) = {} PROVE n <= y
    <3>1. ~ Rec(D, e, i)
      BY <1>4, <2>2
    <3>2. CASE w \in MayPush(P, D, e, i)
      BY <1>1, <1>6, <3>2, Reserve
    <3>3. CASE w \notin BusyWith(P, e)
      BY <1>1, <1>6, <1>7, <2>2, <3>1, <3>3 DEF Fits
    <3>4. CASE w \in BusyWith(P, e) /\ w \notin MayPush(P, D, e, i)
      <4>1. At(P[w], "sent", i) /\ e = a
        BY <1>7, <3>1, <3>4 DEF MayPush, a, P
      <4>2. i = id /\ P[w].step = "sent"
        BY <4>1 DEF At, id, P
      <4>3. excused' = More(excused, a)
        BY <1>2, <2>2, <4>1, <4>2
      <4>4. y = x + 1
        BY <1>5, <4>1, <4>3 DEF x, y
      <4>5. QED
        BY <1>1, <4>4, Reserve
    <3>5. QED
      BY <3>2, <3>3, <3>4
  <2>3. Fits(Q, E, e, i, n, y)
    BY <1>1, <1>6, <2>1, <2>2, Balance
  <2>4. QED
    BY <1>1, <2>3 DEF Q, E, n, y
<1>11. CASE w \notin MayPush(P, D, e, i) /\ w \in MayPush(Q, E, e, i)
  <2>1. w \in BusyWith(Q, e) /\ Q[w].step = "push" /\ e = a /\ w \in BusyWith(P, e)
    BY <1>2, <1>3, <1>7, <1>11 DEF MayPush, a, P
  <2>2. ~ Rec(E, e, i)
    BY <1>11, <2>1 DEF MayPush, At
  <2>3. At(P[w], "sent", i)
    BY <1>4, <1>11, <2>1, <2>2 DEF MayPush
  <2>4. i = id /\ P[w].step = "sent"
    BY <2>3 DEF At, id, P
  <2>5. y = x + 1
    BY <1>2, <1>5, <2>1, <2>2, <2>4 DEF x, y
  <2>6. MayPush(Q, E, e, i) \subseteq MayPush(P, D, e, i) \cup {w}
    BY <1>9
  <2>7. Fits(Q, E, e, i, n, y)
    BY <1>1, <1>6, <2>1, <2>5, <2>6, Balance
  <2>8. QED
    BY <1>1, <2>7 DEF Q, E, n, y
<1>12. QED
  BY <1>10, <1>11

LEMMA FlownFits ==
    ASSUME NtTypes, RepeatInv, NEW w \in Pushers, Flown(w), WorkTypes'
    PROVE  RepeatInv'
<1> SUFFICES ASSUME NEW e \in NoticeEvents, NEW i \in Stamps
             PROVE  Fits(pusher', deliveries', e, i, pushes'[<<e, i>>], excused'[e])
  BY DEF RepeatInv
<1> DEFINE n == pushes[<<e, i>>]
           m == pushes'[<<e, i>>]
           x == excused[e]
           y == excused'[e]
           a == pusher[w].event
           id == First(pusher[w].todo).id
           P == pusher
           Q == pusher'
           D == deliveries
<1>1. /\ n \in Nat /\ x \in Nat /\ y \in Nat /\ m \in Nat /\ deliveries' = D
      /\ Fits(P, D, e, i, n, x)
  BY BalanceTypes DEF NtTypes, RepeatInv, WorkTypes, Flown
<1>2. /\ Alone(w) /\ P[w] # NoWork /\ a \in NoticeEvents /\ id \in Stamps
      /\ Q[w] # NoWork /\ Q[w].event = a /\ First(Q[w].todo).id = id
  BY DevIs, WorkIsWork DEF Flown, Same, NtTypes
<1>3. \/ /\ P[w].step = "push" /\ Q[w].step = "post" /\ ~ Rec(D, a, id)
         /\ pushes' = pushes /\ excused' = excused
      \/ P[w].step = "post" /\ Q[w].step # "sent" /\ pushes' = pushes /\ excused' = excused
      \/ /\ P[w].step = "post" /\ Q[w].step = "sent"
         /\ pushes' = More(pushes, <<a, id>>) /\ excused' = excused
      \/ /\ P[w].step = "post" /\ Q[w].step # "sent"
         /\ pushes' = More(pushes, <<a, id>>) /\ excused' = More(excused, a)
  BY DEF Flown
<1>4. /\ BusyWith(Q, e) \ {w} = BusyWith(P, e) \ {w}
      /\ w \in BusyWith(Q, e) <=> a = e
      /\ w \in BusyWith(P, e) <=> a = e
      /\ \A o \in Pushers : o # w => Q[o] = P[o]
  BY <1>2, BusyMoves
<1>5. BusyWith(Q, e) = BusyWith(P, e) /\ BusyWith(Q, e) \subseteq Pushers
  BY <1>4 DEF BusyWith
<1>6. /\ e = a /\ i = id => More(pushes, <<a, id>>)[<<e, i>>] = n + 1
      /\ ~ (e = a /\ i = id) => More(pushes, <<a, id>>)[<<e, i>>] = n
      /\ More(excused, a)[e] = IF e = a THEN x + 1 ELSE x
  <2>1. pushes \in [NoticeEvents \X Stamps -> Nat] /\ <<e, i>> \in NoticeEvents \X Stamps
        /\ <<a, id>> \in NoticeEvents \X Stamps
    BY <1>2 DEF NtTypes, WorkTypes
  <2>2. More(excused, a)[e] = IF e = a THEN x + 1 ELSE x
    BY <1>2, MoreExcused DEF NtTypes
  <2> DEFINE j == <<e, i>>
             k == <<a, id>>
  <2>3. j = k <=> e = a /\ i = id
    OBVIOUS
  <2>4. j \in NoticeEvents \X Stamps /\ k \in NoticeEvents \X Stamps /\ n = pushes[j]
    BY <2>1
  <2> HIDE DEF a, id, j, k, n
  <2>5. More(pushes, k)[k] = pushes[k] + 1 /\ (j # k => More(pushes, k)[j] = pushes[j])
    BY <2>1, <2>4, MoreType
  <2>6. More(pushes, k)[j] = IF e = a /\ i = id THEN n + 1 ELSE n
    BY <2>3, <2>4, <2>5
  <2>7. QED
    BY <2>2, <2>6 DEF j, k
<1>7. /\ At(P[w], "sent", i) <=> P[w].step = "sent" /\ id = i
      /\ At(Q[w], "sent", i) <=> Q[w].step = "sent" /\ id = i
      /\ At(P[w], "post", i) <=> P[w].step = "post" /\ id = i
      /\ At(Q[w], "post", i) <=> Q[w].step = "post" /\ id = i
  BY <1>2 DEF At
<1>8. /\ pushes' = pushes => m = n
      /\ pushes' = More(pushes, <<a, id>>) => m = IF e = a /\ i = id THEN n + 1 ELSE n
      /\ excused' = excused => y = x
      /\ excused' = More(excused, a) => y = IF e = a THEN x + 1 ELSE x
  BY <1>6
<1> HIDE DEF P, Q, D, a, id, n, m, x, y
<1>9. \A o \in MayPush(Q, D, e, i) : o # w => o \in MayPush(P, D, e, i)
  <2> SUFFICES ASSUME NEW o \in MayPush(Q, D, e, i), o # w PROVE o \in MayPush(P, D, e, i)
    OBVIOUS
  <2>1. o \in Pushers /\ Q[o] = P[o] /\ o \in BusyWith(P, e)
    BY <1>4, <1>5 DEF MayPush
  <2>2. QED
    BY <2>1 DEF MayPush
<1>10. w \in MayPush(Q, D, e, i) => w \in MayPush(P, D, e, i)
  BY <1>3, <1>4, <1>7 DEF MayPush
<1>11. MayPush(Q, D, e, i) \subseteq MayPush(P, D, e, i)
  BY <1>9, <1>10
<1>12. x <= y
  BY <1>1, <1>3, <1>8
<1>13. CASE m = n
  <2>1. ~ Rec(D, e, i) /\ BusyWith(Q, e) = {} => m <= y
    BY <1>1, <1>5, <1>12, <1>13 DEF Fits
  <2>2. Fits(Q, D, e, i, m, y)
    BY <1>1, <1>11, <1>12, <1>13, <2>1, Balance
  <2>3. QED
    BY <1>1, <2>2 DEF Q, D, m, y
<1>14. CASE m # n
  <2>1. m = n + 1 /\ e = a /\ i = id /\ P[w].step = "post"
    BY <1>1, <1>3, <1>8, <1>14
  <2>2. w \in BusyWith(Q, e)
    BY <1>4, <2>1
  <2>3. CASE Q[w].step # "sent"
    <3>1. y = x + 1
      BY <1>3, <1>8, <1>14, <2>1, <2>3
    <3>2. Fits(Q, D, e, i, m, y)
      BY <1>1, <1>11, <1>12, <2>1, <2>2, <3>1, Balance
    <3>3. QED
      BY <1>1, <3>2 DEF Q, D, m, y
  <2>4. CASE Q[w].step = "sent"
    <3>1. w \in MayPush(P, D, e, i) /\ w \notin MayPush(Q, D, e, i)
      BY <1>4, <1>7, <2>1, <2>4 DEF MayPush
    <3>2. MayPush(Q, D, e, i) \subseteq MayPush(P, D, e, i) \ {w}
      BY <1>11, <3>1
    <3>3. Fits(Q, D, e, i, m, y)
      BY <1>1, <1>12, <2>1, <2>2, <3>1, <3>2, Balance
    <3>4. QED
      BY <1>1, <3>3 DEF Q, D, m, y
  <2>5. QED
    BY <2>3, <2>4
<1>15. QED
  BY <1>13, <1>14

LEMMA DiedFits ==
    ASSUME NtTypes, RepeatInv, NEW w \in Pushers, Died(w), WorkTypes'
    PROVE  RepeatInv'
<1> SUFFICES ASSUME NEW e \in NoticeEvents, NEW i \in Stamps
             PROVE  Fits(pusher', deliveries', e, i, pushes'[<<e, i>>], excused'[e])
  BY DEF RepeatInv
<1> DEFINE n == pushes[<<e, i>>]
           x == excused[e]
           y == excused'[e]
           a == pusher[w].event
           P == pusher
           Q == pusher'
           D == deliveries
<1>1. /\ n \in Nat /\ x \in Nat /\ y \in Nat /\ deliveries' = D /\ pushes' = pushes
      /\ Fits(P, D, e, i, n, x)
  BY BalanceTypes DEF NtTypes, RepeatInv, WorkTypes, Died
<1>2. Alone(w) /\ P[w] # NoWork /\ a \in NoticeEvents /\ Q[w] = NoWork
  BY DevIs DEF Died, NtTypes
<1>3. /\ P[w].step = "sent" /\ e = a => y = x + 1
      /\ y = x \/ y = x + 1
  BY <1>2, MoreExcused DEF Died, NtTypes
<1>4. /\ BusyWith(Q, e) \ {w} = BusyWith(P, e) \ {w} /\ w \notin BusyWith(Q, e)
      /\ w \in BusyWith(P, e) <=> a = e
      /\ \A o \in Pushers : o # w => Q[o] = P[o]
  BY <1>2, BusyMoves
<1> HIDE DEF P, Q, D, a, n, x, y
<1>5. MayPush(Q, D, e, i) \subseteq MayPush(P, D, e, i)
  <2> SUFFICES ASSUME NEW o \in MayPush(Q, D, e, i) PROVE o \in MayPush(P, D, e, i)
    OBVIOUS
  <2>1. o \in Pushers /\ o \in BusyWith(Q, e)
    BY DEF MayPush, BusyWith
  <2>2. Q[o] = P[o] /\ o \in BusyWith(P, e)
    BY <1>4, <2>1
  <2>3. QED
    BY <2>1, <2>2 DEF MayPush
<1>6. x <= y
  BY <1>1, <1>3
<1>7. ASSUME ~ Rec(D, e, i), BusyWith(Q, e) = {} PROVE n <= y
  <2>1. CASE a # e
    <3>1. BusyWith(P, e) = {}
      BY <1>4, <1>7, <2>1
    <3>2. QED
      BY <1>1, <1>6, <1>7, <3>1 DEF Fits
  <2>2. CASE a = e /\ P[w].step = "sent"
    BY <1>1, <1>3, <2>2, Reserve
  <2>3. CASE a = e /\ P[w].step # "sent"
    <3>1. w \in MayPush(P, D, e, i)
      BY <1>4, <1>7, <2>3 DEF MayPush, At
    <3>2. QED
      BY <1>1, <1>6, <3>1, Reserve
  <2>4. QED
    BY <2>1, <2>2, <2>3
<1>8. Fits(Q, D, e, i, n, y)
  BY <1>1, <1>5, <1>6, <1>7, Balance
<1>9. QED
  BY <1>1, <1>8 DEF Q, D, n, y

LEMMA RepeatStep ==
    ASSUME NtTypes, CallsInv, RepeatInv, [NtNext]_ntVars
    PROVE  RepeatInv'
<1>1. WorkTypes'
  BY WorkTypesStep
<1>2. CASE Resting
  BY <1>2 DEF Resting, RepeatInv
<1>3. CASE Working
  BY <1>1, <1>3, StartedFits, AdvancedFits, FlownFits, DiedFits DEF Working
<1>4. QED
  BY <1>2, <1>3, WorkerSteps

-----------------------------------------------------------------------------
(***************************************************************************)
(* The devices, and the rows that transactions under way have saved.  A    *)
(* saved row is a device that is there, refreshed, or a new one that       *)
(* nobody has heard of.                                                    *)
(***************************************************************************)
Open(c) == signer[c] # NoSigning

Refreshes(T, r) == \E d \in T : d.token = r.token /\ d.user = r.user /\ d.id = r.id

Unheard(T, U, r) ==
    /\ r.id = r.at
    /\ \A d \in T : d.id # r.id
    /\ \A e \in NoticeEvents : r.id \notin U[e]

Keys(T) == \A d, x \in T : d.token = x.token \/ d.id = x.id \/ d.at = x.at => d = x

Stamped(T, n) == \A d \in T : d.id <= n /\ d.at <= n

RowsFit ==
    \A c \in Signers : Open(c) =>
        /\ signer[c].row.at <= stamp /\ signer[c].row.id <= stamp
        /\ \A d \in devices : d.at # signer[c].row.at
        /\ Refreshes(devices, signer[c].row) \/ Unheard(devices, due, signer[c].row)

RowsApart ==
    \A c, o \in Signers : Open(c) /\ Open(o) /\ c # o =>
        signer[c].row.token # signer[o].row.token /\ signer[c].row.at # signer[o].row.at

DuesFit == \A e \in NoticeEvents : \A i \in due[e] : i <= stamp

TablesInv ==
    /\ IsFiniteSet(devices) /\ Keys(devices) /\ Stamped(devices, stamp)
    /\ RowsFit /\ RowsApart /\ DuesFit

Dropped ==
    /\ devices' \subseteq devices
    /\ \A d \in devices : d \notin devices' => Unlocked(d)
    /\ UNCHANGED <<stamp, signer, due>>

LEMMA TableSteps ==
    ASSUME NtTypes, CallsInv, [NtNext]_ntVars
    PROVE  \/ UNCHANGED <<devices, stamp, signer, due>>
           \/ \E w \in Pushers, e \in NoticeEvents : Started(w, e)
           \/ Dropped
           \/ \E c \in Signers : Registered(c) /\ UNCHANGED due
           \/ \E c \in Signers, u \in PushUsers, t \in Phones \cup BadTokens :
                 RegisterDevice(c, u, t) /\ UNCHANGED due
<1>1. ASSUME NEW w \in Pushers, NEW failed \in BOOLEAN, Advanced(w, failed)
      PROVE  Dropped \/ UNCHANGED <<devices, stamp, signer, due>>
  BY <1>1 DEF Advanced, Dropped
<1>2. CASE Working
  BY <1>1, <1>2 DEF Working, Flown, Died
<1>3. ASSUME NEW u \in PushUsers, NEW d \in devices, RemoveDevice(u, d) PROVE Dropped
  BY <1>3 DEF RemoveDevice, Dropped, phoneVars, workVars
<1>4. ASSUME NEW t, Uninstall(t) PROVE UNCHANGED <<devices, stamp, signer, due>>
  BY <1>4 DEF Uninstall, workVars
<1>5. ASSUME NEW v, KeepBranch(v) PROVE UNCHANGED <<devices, stamp, signer, due>>
  BY <1>5 DEF KeepBranch, workVars
<1>6. CASE GoogleChanges
  BY <1>6 DEF GoogleChanges, phoneVars
<1>7. CASE UNCHANGED ntVars
  BY <1>7 DEF ntVars
<1>8. ASSUME NEW c \in Signers, Registered(c) PROVE UNCHANGED due
  BY <1>8 DEF Registered, workVars
<1>9. ASSUME NEW c \in Signers, NEW u, NEW t, RegisterDevice(c, u, t) PROVE UNCHANGED due
  BY <1>9 DEF RegisterDevice, workVars
<1>10. CASE PhonesNext
  BY <1>3, <1>4, <1>8, <1>9, <1>10 DEF PhonesNext
<1>11. ASSUME NEW w \in Pushers,
             \/ \E e \in NoticeEvents : Notify(w, e)
             \/ PushOnce(w) \/ GetToken(w) \/ Post(w)
             \/ \E o \in {"sent", "rejected"} : RecordDelivery(w, o)
             \/ ForgetDevice(w) \/ PushFailed(w) \/ PusherDies(w)
      PROVE  Working
  BY <1>11, NotifyIs, PushOnceIs, GetTokenIs, PostIs, RecordIs, ForgetIs, FailedIs, DiesIs DEF Working
<1>12. QED
  BY <1>2, <1>5, <1>6, <1>7, <1>10, <1>11 DEF NtNext, PushesNext

LEMMA SigningIs ==
    ASSUME TableTypes, NEW c \in Signers, Open(c)
    PROVE  /\ signer[c] \in Signing /\ signer[c].row \in Row /\ signer[c].drop \subseteq Stamps
           /\ signer[c].row.id \in Stamps /\ signer[c].row.at \in Stamps
           /\ signer[c].row.user \in PushUsers
<1>1. signer[c] \in Signing
  BY DEF TableTypes, Open
<1>2. QED
  BY <1>1 DEF Signing, Row

LEMMA RowIs ==
    ASSUME NEW d \in Row
    PROVE  d.id \in Nat /\ d.at \in Nat /\ d.user \in PushUsers /\ d.id \in Stamps /\ d.at \in Stamps
           /\ d.id >= 1
  BY DEF Row, Stamps

\* What the open rows need of the tables, when they shrink.
LEMMA DroppedKeeps ==
    ASSUME NtTypes, TablesInv, Dropped
    PROVE  TableTypes' /\ TablesInv'
<1>1. TableTypes'
  BY DEF Dropped, NtTypes, TableTypes
<1>2. IsFiniteSet(devices')
  BY FS_Subset DEF Dropped, TablesInv
<1>3. Keys(devices') /\ Stamped(devices', stamp)
  BY DEF Dropped, TablesInv, Keys, Stamped
<1>4. RowsFit'
  <2> SUFFICES ASSUME NEW c \in Signers, Open(c)
               PROVE  Refreshes(devices', signer[c].row) \/ Unheard(devices', due, signer[c].row)
    BY DEF Dropped, RowsFit, Open, TablesInv
  <2>1. CASE Refreshes(devices, signer[c].row)
    <3>1. PICK d \in devices : d.token = signer[c].row.token /\ d.user = signer[c].row.user
                               /\ d.id = signer[c].row.id
      BY <2>1 DEF Refreshes
    <3>2. ~ Unlocked(d)
      BY <3>1 DEF Unlocked, Open
    <3>3. QED
      BY <3>1, <3>2 DEF Dropped, Refreshes
  <2>2. CASE Unheard(devices, due, signer[c].row)
    BY <2>2 DEF Unheard, Dropped
  <2>3. QED
    BY <2>1, <2>2 DEF TablesInv, RowsFit
<1>5. RowsApart' /\ DuesFit'
  BY DEF Dropped, TablesInv, RowsApart, DuesFit, Open
<1>6. QED
  BY <1>1, <1>2, <1>3, <1>4, <1>5 DEF TablesInv, Dropped

LEMMA StartedKeeps ==
    ASSUME NtTypes, TablesInv, NEW w \in Pushers, NEW e \in NoticeEvents, Started(w, e)
    PROVE  TableTypes' /\ TablesInv'
<1>0. UNCHANGED <<devices, stamp, signer>>
  BY DEF Started
<1>1. \A a \in NoticeEvents : \A i \in due'[a] : i \in due[a] \/ \E d \in devices : i = d.id
  BY DEF Started, Mine, NtTypes, WorkTypes
<1>2. RowsFit'
  <2> SUFFICES ASSUME NEW c \in Signers, Open(c), Unheard(devices, due, signer[c].row)
               PROVE  Unheard(devices, due', signer[c].row)
    BY <1>0 DEF RowsFit, Open, TablesInv
  <2>1. QED
    BY <1>1 DEF Unheard
<1>3. DuesFit'
  BY <1>0, <1>1 DEF DuesFit, TablesInv, Stamped
<1>4. QED
  BY <1>0, <1>2, <1>3 DEF TablesInv, NtTypes, TableTypes, RowsApart, Open

LEMMA RowsDiffer ==
    ASSUME NtTypes, TablesInv, NEW c \in Signers, NEW o \in Signers, Open(c), Open(o), c # o
    PROVE  signer[c].row.id # signer[o].row.id
<1> DEFINE r == signer[c].row
           s == signer[o].row
<1>1. /\ r.token # s.token /\ r.at # s.at
      /\ Refreshes(devices, r) \/ Unheard(devices, due, r)
      /\ Refreshes(devices, s) \/ Unheard(devices, due, s)
      /\ Keys(devices)
  BY DEF TablesInv, RowsFit, RowsApart
<1> HIDE DEF r, s
<1>2. r.id # s.id
  BY <1>1 DEF Refreshes, Unheard, Keys
<1>3. QED
  BY <1>2 DEF r, s

\* A commit.
LEMMA RegisteredKeeps ==
    ASSUME NtTypes, TablesInv, NEW c \in Signers, Registered(c), UNCHANGED due
    PROVE  TableTypes' /\ TablesInv'
<1> DEFINE row == signer[c].row
           drop == signer[c].drop
           rest == {d \in devices : d.token # row.token /\ d.id \notin drop}
<1>0. /\ Open(c) /\ signer' = [signer EXCEPT ![c] = NoSigning] /\ UNCHANGED <<stamp, due>>
      /\ devices' = rest \cup {row} \/ devices' = devices
      /\ \A o \in Signers : o # c /\ Open(o) => signer[o].row.id \notin drop
  BY DEF Registered, Open
<1>1. row \in Row
  BY <1>0, SigningIs DEF NtTypes
<1>2. TableTypes'
  BY <1>0, <1>1 DEF NtTypes, TableTypes
<1>3. \A o \in Signers : Open(o)' => o # c /\ Open(o) /\ signer'[o] = signer[o]
  BY <1>0 DEF Open, NtTypes, TableTypes
<1>4. RowsApart' /\ DuesFit'
  BY <1>0, <1>3 DEF TablesInv, RowsApart, DuesFit
<1>5. CASE devices' = devices
  <2>1. RowsFit'
    BY <1>0, <1>3, <1>5 DEF TablesInv, RowsFit
  <2>2. QED
    BY <1>0, <1>2, <1>4, <1>5, <2>1 DEF TablesInv
<1>6. CASE devices' = rest \cup {row}
  <2>1. IsFiniteSet(devices')
    <3>1. IsFiniteSet(rest)
      BY FS_Subset DEF TablesInv
    <3>2. QED
      BY <1>6, <3>1, FS_AddElement
  <2>2. /\ row.at <= stamp /\ row.id <= stamp /\ Keys(devices)
        /\ \A d \in devices : d.at # row.at
        /\ Refreshes(devices, row) \/ Unheard(devices, due, row)
    BY <1>0 DEF TablesInv, RowsFit
  <2>3. \A d \in rest : d.token # row.token /\ d.id # row.id /\ d.at # row.at
    BY <2>2 DEF Refreshes, Unheard, Keys
  <2>4. Keys(devices')
    BY <1>6, <2>2, <2>3 DEF Keys
  <2>5. Stamped(devices', stamp)
    BY <1>6, <2>2 DEF Stamped, TablesInv
  <2>6. ASSUME NEW o \in Signers, Open(o)'
        PROVE  /\ signer'[o].row.at <= stamp /\ signer'[o].row.id <= stamp
               /\ \A d \in devices' : d.at # signer'[o].row.at
               /\ Refreshes(devices', signer'[o].row) \/ Unheard(devices', due, signer'[o].row)
    <3> DEFINE r == signer[o].row
    <3>1. o # c /\ Open(o) /\ signer'[o].row = r
      BY <1>3, <2>6
    <3>2. /\ r.at <= stamp /\ r.id <= stamp /\ \A d \in devices : d.at # r.at
          /\ Refreshes(devices, r) \/ Unheard(devices, due, r)
      BY <3>1 DEF TablesInv, RowsFit
    <3>3. r.token # row.token /\ r.at # row.at /\ r.id # row.id /\ r.id \notin drop
      BY <1>0, <3>1, RowsDiffer DEF TablesInv, RowsApart
    <3> HIDE DEF r, row, drop
    <3>4. \A d \in devices' : d.at # r.at
      BY <1>6, <3>2, <3>3
    <3>5. Refreshes(devices, r) => Refreshes(devices', r)
      BY <1>6, <3>3 DEF Refreshes
    <3>6. Unheard(devices, due, r) => Unheard(devices', due, r)
      BY <1>6, <3>3 DEF Unheard
    <3>7. QED
      BY <3>1, <3>2, <3>4, <3>5, <3>6
  <2>7. RowsFit'
    BY <1>0, <2>6 DEF RowsFit
  <2>8. QED
    BY <1>0, <1>2, <1>4, <2>1, <2>4, <2>5, <2>7 DEF TablesInv
<1>7. QED
  BY <1>0, <1>5, <1>6

LEMMA SavedIs ==
    ASSUME NtTypes, TablesInv, NEW u \in PushUsers, NEW t \in Phones \cup BadTokens, stamp < MaxStamps
    PROVE  LET row == SavedDevice(t, u)
           IN  /\ row \in Row /\ row.at = stamp + 1 /\ row.id <= stamp + 1
               /\ row.token = t /\ row.user = u
               /\ Refreshes(devices, row) \/ Unheard(devices, due, row)
<1> DEFINE old == {d \in devices : d.token = t}
           same == \E d \in old : d.user = u
           id == IF same THEN (CHOOSE d \in old : TRUE).id ELSE stamp + 1
           row == [id |-> id, user |-> u, token |-> t, at |-> stamp + 1]
<1>0. SavedDevice(t, u) = row
  BY DEF SavedDevice
<1>1. stamp \in Nat /\ stamp + 1 \in Stamps /\ devices \subseteq Row /\ Keys(devices)
      /\ Stamped(devices, stamp) /\ DuesFit
  BY NtConstants DEF NtTypes, TableTypes, Stamps, TablesInv
<1>2. CASE same
  <2>1. PICK d \in old : d.user = u
    BY <1>2
  <2>2. (CHOOSE x \in old : TRUE) = d
    BY <1>1, <2>1 DEF Keys
  <2>3. id = d.id /\ d \in devices /\ d.token = t /\ d.user = u /\ d.id \in Stamps /\ d.id <= stamp
    BY <1>1, <1>2, <2>1, <2>2, RowIs DEF Stamped
  <2>4. id \in Stamps /\ id <= stamp + 1
    BY <1>1, <2>3 DEF Stamps
  <2> HIDE DEF id, old, same
  <2>5. /\ row \in Row /\ row.at = stamp + 1 /\ row.id = id
        /\ row.token = t /\ row.user = u
    BY <1>1, <2>4 DEF Row
  <2> HIDE DEF row
  <2>6. Refreshes(devices, row)
    BY <2>3, <2>5 DEF Refreshes
  <2>7. QED
    BY <1>0, <2>4, <2>5, <2>6
<1>3. CASE ~ same
  <2>1. id = stamp + 1
    BY <1>3
  <2> HIDE DEF id, old, same
  <2>2. /\ row \in Row /\ row.at = stamp + 1 /\ row.id = stamp + 1
        /\ row.token = t /\ row.user = u
    BY <1>1, <2>1 DEF Row
  <2> HIDE DEF row
  <2>3. \A d \in devices : d.id # stamp + 1
    BY <1>1, RowIs DEF Stamped
  <2>4. ASSUME NEW e \in NoticeEvents PROVE stamp + 1 \notin due[e]
    <3>1. \A i \in due[e] : i \in Nat /\ i <= stamp
      BY <1>1 DEF DuesFit, NtTypes, WorkTypes, Stamps
    <3>2. QED
      BY <1>1, <3>1
  <2>5. Unheard(devices, due, row)
    BY <2>2, <2>3, <2>4 DEF Unheard
  <2>6. row.id <= stamp + 1
    BY <1>1, <2>2
  <2>7. QED
    BY <1>0, <2>2, <2>5, <2>6
<1>4. QED
  BY <1>2, <1>3

LEMMA RegisterKeeps ==
    ASSUME NtTypes, TablesInv, UNCHANGED due, NEW c \in Signers, NEW u \in PushUsers,
           NEW t \in Phones \cup BadTokens, RegisterDevice(c, u, t)
    PROVE  TableTypes' /\ TablesInv'
<1> DEFINE row == SavedDevice(t, u)
           new == [step |-> "saving", row |-> row, drop |-> TrimDevices(row)]
<1>0. /\ signer' = [signer EXCEPT ![c] = new] /\ stamp' = stamp + 1 /\ stamp < MaxStamps
      /\ UNCHANGED devices
      /\ \A o \in Signers : Open(o) => signer[o].row.token # t
  BY DEF RegisterDevice, Open
<1>1. /\ row \in Row /\ row.at = stamp + 1 /\ row.id <= stamp + 1
      /\ row.token = t /\ row.user = u
      /\ Refreshes(devices, row) \/ Unheard(devices, due, row)
  BY <1>0, SavedIs
<1>2. TrimDevices(row) \subseteq Stamps
  BY <1>1, RowIs DEF TrimDevices, Of, NtTypes, TableTypes
<1> HIDE DEF row
<1>3. new \in Signing /\ new.row = row
  BY <1>1, <1>2 DEF Signing
<1> HIDE DEF new
<1>4. stamp \in Nat /\ stamp + 1 \in 0 .. MaxStamps
  BY <1>0, NtConstants DEF NtTypes, TableTypes
<1>5. TableTypes'
  BY <1>0, <1>3, <1>4 DEF NtTypes, TableTypes
<1>6. \A o \in Signers : signer'[o] = IF o = c THEN new ELSE signer[o]
  BY <1>0 DEF NtTypes, TableTypes
<1>7. \A o \in Signers : Open(o)' => o = c \/ (Open(o) /\ signer'[o] = signer[o])
  BY <1>6 DEF Open
<1>8. \A d \in devices : d.id \in Nat /\ d.at \in Nat /\ d.id <= stamp /\ d.at <= stamp
  BY RowIs DEF NtTypes, TableTypes, TablesInv, Stamped
<1>9. Stamped(devices', stamp')
  BY <1>0, <1>4, <1>8 DEF Stamped
<1>10. \A o \in Signers : Open(o) =>
          /\ signer[o].row.at \in Nat /\ signer[o].row.id \in Nat
          /\ signer[o].row.at <= stamp /\ signer[o].row.id <= stamp
  BY SigningIs, RowIs DEF NtTypes, TablesInv, RowsFit
<1>11. RowsFit'
  <2> SUFFICES ASSUME NEW o \in Signers, Open(o)'
               PROVE  /\ signer'[o].row.at <= stamp + 1 /\ signer'[o].row.id <= stamp + 1
                      /\ \A d \in devices : d.at # signer'[o].row.at
                      /\ \/ Refreshes(devices, signer'[o].row)
                         \/ Unheard(devices, due, signer'[o].row)
    BY <1>0 DEF RowsFit
  <2>1. CASE o = c
    <3>1. signer'[o].row = row
      BY <1>3, <1>6, <2>1
    <3>2. \A d \in devices : d.at # row.at
      BY <1>1, <1>4, <1>8
    <3>3. row.at <= stamp + 1
      BY <1>1, <1>4
    <3>4. QED
      BY <1>1, <3>1, <3>2, <3>3
  <2>2. CASE o # c
    <3>1. Open(o) /\ signer'[o] = signer[o]
      BY <1>7, <2>2
    <3>2. signer[o].row.at <= stamp + 1 /\ signer[o].row.id <= stamp + 1
      BY <1>4, <1>10, <3>1
    <3>3. QED
      BY <3>1, <3>2 DEF TablesInv, RowsFit
  <2>3. QED
    BY <2>1, <2>2
<1>12. RowsApart'
  <2> SUFFICES ASSUME NEW a \in Signers, NEW o \in Signers, Open(a)', Open(o)', a # o
               PROVE  /\ signer'[a].row.token # signer'[o].row.token
                      /\ signer'[a].row.at # signer'[o].row.at
    BY DEF RowsApart
  <2>1. ASSUME NEW b \in Signers, Open(b) PROVE signer[b].row.token # t /\ signer[b].row.at # stamp + 1
    BY <1>0, <1>4, <1>10, <2>1
  <2>2. CASE a # c /\ o # c
    BY <1>7, <2>2 DEF TablesInv, RowsApart
  <2>3. CASE a = c \/ o = c
    BY <1>1, <1>3, <1>6, <1>7, <2>1, <2>3
  <2>4. QED
    BY <2>2, <2>3
<1>13. DuesFit'
  <2>1. \A e \in NoticeEvents : \A i \in due[e] : i \in Nat /\ i <= stamp
    BY DEF TablesInv, DuesFit, NtTypes, WorkTypes, Stamps
  <2>2. QED
    BY <1>0, <1>4, <2>1 DEF DuesFit
<1>14. QED
  BY <1>0, <1>5, <1>9, <1>11, <1>12, <1>13 DEF TablesInv

LEMMA TablesStep ==
    ASSUME NtTypes, CallsInv, TablesInv, [NtNext]_ntVars
    PROVE  TableTypes' /\ TablesInv'
<1>1. CASE UNCHANGED <<devices, stamp, signer, due>>
  BY <1>1 DEF NtTypes, TableTypes, TablesInv, Keys, Stamped, RowsFit, RowsApart, DuesFit, Open,
              Refreshes, Unheard
<1>2. QED
  BY <1>1, TableSteps, DroppedKeeps, StartedKeeps, RegisteredKeeps, RegisterKeeps

\* A device that is in a list to be told is one that was there before.
LEMMA NoSurprise ==
    ASSUME NtTypes, CallsInv, TablesInv, [NtNext]_ntVars
    PROVE  \A d \in devices' :
              \/ \E x \in devices : x.id = d.id /\ x.user = d.user
              \/ \A e \in NoticeEvents : d.id \notin due[e]
<1>1. CASE devices' \subseteq devices
  BY <1>1
<1>2. ASSUME NEW c \in Signers, Registered(c)
      PROVE  \A d \in devices' :
                \/ \E x \in devices : x.id = d.id /\ x.user = d.user
                \/ \A e \in NoticeEvents : d.id \notin due[e]
  <2>1. devices' \subseteq devices \cup {signer[c].row} /\ Open(c)
    BY <1>2 DEF Registered, Open
  <2>2. Refreshes(devices, signer[c].row) \/ Unheard(devices, due, signer[c].row)
    BY <2>1 DEF TablesInv, RowsFit
  <2>3. QED
    BY <2>1, <2>2 DEF Refreshes, Unheard
<1>3. ASSUME NEW c \in Signers, NEW u, NEW t, RegisterDevice(c, u, t) PROVE devices' \subseteq devices
  BY <1>3 DEF RegisterDevice
<1>4. QED
  BY <1>1, <1>2, <1>3, TableSteps DEF Dropped, Started

-----------------------------------------------------------------------------
(***************************************************************************)
(* How many devices a user has: whichever of the transactions under way    *)
(* commit, what is left is within the bound.                               *)
(***************************************************************************)
\* The devices of u when the registrations P have committed, of those in s.
After(T, s, u, P) ==
    {d \in T : d.user = u /\ \A c \in P : d.token # s[c].row.token /\ d.id \notin s[c].drop}
      \cup {s[c].row : c \in P}

Registering(s, u) == {c \in Signers : s[c] # NoSigning /\ s[c].row.user = u}

Within(T, s) ==
    \A u \in PushUsers : \A P \in SUBSET Registering(s, u) :
        /\ IsFiniteSet(After(T, s, u, P))
        /\ Cardinality(After(T, s, u, P)) <= MaxDevicesPerUser + Cardinality(Signers) - 1

LEMMA NewestFew ==
    ASSUME NEW rows \in SUBSET Row, IsFiniteSet(rows), \A d, x \in rows : d.at = x.at => d = x
    PROVE  IsFiniteSet(Newest(rows)) /\ Cardinality(Newest(rows)) <= MaxDevicesPerUser
<1> DEFINE N == Newest(rows)
<1>1. N \subseteq rows
  BY DEF Newest
<1>2. IsFiniteSet(N) /\ Cardinality(N) \in Nat
  BY <1>1, FS_Subset, FS_CardinalityType
<1>3. CASE N = {}
  BY <1>2, <1>3, FS_EmptySet, NtConstants
<1>4. CASE N # {}
  <2> DEFINE S == {d.at : d \in N}
  <2>1. S \subseteq Nat /\ S # {}
    BY <1>1, <1>4, RowIs
  <2>2. PICK n \in S : \A m \in S : n <= m
    BY <2>1, Least
  <2>3. PICK d \in N : n = d.at
    BY <2>2
  <2> DEFINE newer == {x \in rows : x.at > d.at}
  <2>4. Cardinality(newer) < MaxDevicesPerUser
    BY DEF Newest
  <2>5. newer \subseteq rows
    OBVIOUS
  <2>6. IsFiniteSet(newer) /\ Cardinality(newer) \in Nat
    BY <2>5, FS_Subset, FS_CardinalityType
  <2>7. N \subseteq newer \cup {d}
    <3> SUFFICES ASSUME NEW x \in N, x # d PROVE x.at > d.at
      BY <1>1
    <3>1. x.at \in S /\ d.at <= x.at
      BY <2>2, <2>3
    <3>2. x.at # d.at /\ x.at \in Nat /\ d.at \in Nat
      BY <1>1, RowIs
    <3>3. QED
      BY <3>1, <3>2
  <2> HIDE DEF newer, N, S
  <2>8. Cardinality(N) <= Cardinality(newer) + 1
    BY <2>6, <2>7, Counting
  <2>9. Cardinality(N) <= MaxDevicesPerUser
    BY <1>2, <2>4, <2>6, <2>8, NtConstants
  <2>10. QED
    BY <1>2, <2>9 DEF N
<1>5. QED
  BY <1>3, <1>4

LEMMA RowsFew ==
    ASSUME NEW s, NEW R, IsFiniteSet(R)
    PROVE  /\ IsFiniteSet({s[o].row : o \in R})
           /\ Cardinality({s[o].row : o \in R}) <= Cardinality(R)
<1> DEFINE T == {s[o].row : o \in R}
           rowOf == [o \in R |-> s[o].row]
<1>1. rowOf \in Surjection(R, T)
  BY DEF Surjection
<1> HIDE DEF T, rowOf
<1>2. IsFiniteSet(T) /\ Cardinality(T) <= Cardinality(R)
  BY <1>1, FS_Surjection
<1>3. QED
  BY <1>2 DEF T

LEMMA WithinSmaller ==
    ASSUME NEW T, NEW s, NEW A, Within(T, s), NEW u \in PushUsers,
           NEW P \in SUBSET Registering(s, u), A \subseteq After(T, s, u, P)
    PROVE  /\ IsFiniteSet(A)
           /\ Cardinality(A) <= MaxDevicesPerUser + Cardinality(Signers) - 1
<1> DEFINE B == After(T, s, u, P)
<1>1. IsFiniteSet(B) /\ Cardinality(B) <= MaxDevicesPerUser + Cardinality(Signers) - 1
  BY DEF Within
<1>2. IsFiniteSet(A) /\ Cardinality(A) <= Cardinality(B)
  BY <1>1, FS_Subset
<1>3. Cardinality(A) \in Nat /\ Cardinality(B) \in Nat /\ Cardinality(Signers) \in Nat
  BY <1>1, <1>2, FS_CardinalityType, NtConstants
<1> HIDE DEF B
<1>4. QED
  BY <1>1, <1>2, <1>3, NtConstants

LEMMA RegisterWithin ==
    ASSUME NtTypes, TablesInv, Within(devices, signer), NEW c \in Signers, NEW u \in PushUsers,
           NEW t \in Phones \cup BadTokens, RegisterDevice(c, u, t)
    PROVE  Within(devices', signer')
<1> DEFINE row == SavedDevice(t, u)
           drop == TrimDevices(row)
           new == [step |-> "saving", row |-> row, drop |-> drop]
           rows == {d \in Of(u) : d.token # t} \cup {row}
<1>0. /\ signer' = [signer EXCEPT ![c] = new] /\ UNCHANGED devices /\ stamp < MaxStamps
      /\ signer[c] = NoSigning /\ stamp \in Nat
  BY DEF RegisterDevice, NtTypes, TableTypes
<1>1. row \in Row /\ row.token = t /\ row.user = u /\ row.at = stamp + 1
  BY <1>0, SavedIs
<1>2. drop = {d.id : d \in rows \ Newest(rows)}
  BY <1>1 DEF TrimDevices
<1>3. /\ rows \in SUBSET Row /\ IsFiniteSet(rows)
      /\ \A d, x \in rows : d.at = x.at => d = x
      /\ \A d \in rows : d.at <= row.at /\ d.at \in Nat
  <2> DEFINE mine == {d \in Of(u) : d.token # t}
  <2>1. mine \subseteq devices /\ devices \subseteq Row /\ IsFiniteSet(devices)
    BY DEF Of, NtTypes, TableTypes, TablesInv
  <2>2. IsFiniteSet(mine \cup {row})
    BY <2>1, FS_Subset, FS_AddElement
  <2>3. \A d \in mine : d.at \in Nat /\ d.at <= stamp
    BY <2>1, RowIs DEF TablesInv, Stamped
  <2>4. \A d, x \in mine : d.at = x.at => d = x
    BY <2>1 DEF TablesInv, Keys
  <2>5. rows = mine \cup {row}
    OBVIOUS
  <2> HIDE DEF mine, row, rows
  <2>6. rows \in SUBSET Row
    BY <1>1, <2>1, <2>5
  <2>7. \A d \in mine : d.at # row.at /\ d.at <= row.at
    BY <1>0, <1>1, <2>3
  <2>8. row.at <= row.at /\ row.at \in Nat
    BY <1>0, <1>1
  <2>9. QED
    BY <2>2, <2>3, <2>4, <2>5, <2>6, <2>7, <2>8
<1>4. row \in Newest(rows)
  <2>1. {x \in rows : x.at > row.at} = {}
    BY <1>0, <1>1, <1>3
  <2>2. Cardinality({}) = 0 /\ 0 < MaxDevicesPerUser
    BY FS_EmptySet, NtConstants
  <2>3. row \in rows
    OBVIOUS
  <2> HIDE DEF row, rows
  <2>4. Cardinality({x \in rows : x.at > row.at}) < MaxDevicesPerUser
    BY <2>1, <2>2
  <2>5. QED
    BY <2>3, <2>4 DEF Newest
<1> HIDE DEF row, drop, rows
<1>5. new.row = row /\ new.drop = drop /\ new # NoSigning
  BY DEF NoSigning
<1> HIDE DEF new
<1>6. /\ signer'[c] = new
      /\ \A o \in Signers : o # c => signer'[o] = signer[o]
  BY <1>0 DEF NtTypes, TableTypes
<1> SUFFICES ASSUME NEW v \in PushUsers, NEW P \in SUBSET Registering(signer', v)
             PROVE  /\ IsFiniteSet(After(devices, signer', v, P))
                    /\ Cardinality(After(devices, signer', v, P))
                          <= MaxDevicesPerUser + Cardinality(Signers) - 1
  BY <1>0 DEF Within
<1>7. P \subseteq Signers
  BY DEF Registering
<1>8. CASE c \notin P
  <2>1. \A o \in P : o \in Signers /\ o # c /\ signer'[o] = signer[o]
    BY <1>6, <1>7, <1>8
  <2>2. P \in SUBSET Registering(signer, v)
    BY <2>1 DEF Registering
  <2>3. After(devices, signer', v, P) \subseteq After(devices, signer, v, P)
    BY <2>1 DEF After
  <2>4. QED
    BY <2>2, <2>3, WithinSmaller
<1>9. CASE c \in P
  <2> DEFINE R == P \ {c}
             mates == {signer'[o].row : o \in R}
             A == After(devices, signer', v, P)
             N == Newest(rows)
  <2>1. v = u
    BY <1>1, <1>5, <1>6, <1>9 DEF Registering
  <2>2. A \subseteq N \cup mates
    <3> SUFFICES ASSUME NEW d \in A, d \notin mates PROVE d \in N
      OBVIOUS
    <3>1. CASE d = row
      BY <1>4, <3>1
    <3>2. CASE d # row
      <4>1. d \notin {signer'[o].row : o \in P}
        BY <1>5, <1>6, <3>2
      <4>2. /\ d \in devices /\ d.user = u
            /\ d.token # row.token /\ d.id \notin drop
        BY <1>5, <1>6, <1>9, <2>1, <4>1 DEF After
      <4>3. d \in rows
        BY <1>1, <4>2 DEF rows, Of
      <4>4. QED
        BY <1>2, <4>2, <4>3
    <3>3. QED
      BY <3>1, <3>2
  <2>3. IsFiniteSet(N) /\ Cardinality(N) <= MaxDevicesPerUser
    BY <1>3, NewestFew
  <2>4. IsFiniteSet(R) /\ Cardinality(R) <= Cardinality(Signers) - 1 /\ Cardinality(R) \in Nat
    <3>1. R \subseteq Signers \ {c}
      BY <1>7
    <3>2. IsFiniteSet(R)
      BY <3>1, FS_Subset, NtConstants
    <3> HIDE DEF R
    <3>3. Cardinality(R) + 1 <= Cardinality(Signers) /\ Cardinality(R) \in Nat
      BY <3>1, NtConstants, Counting
    <3>4. Cardinality(Signers) \in Nat
      BY NtConstants, FS_CardinalityType
    <3>5. QED
      BY <3>2, <3>3, <3>4
  <2>5. IsFiniteSet(mates) /\ Cardinality(mates) <= Cardinality(R)
    BY <2>4, RowsFew
  <2>6. /\ IsFiniteSet(N \cup mates) /\ Cardinality(N \cup mates) \in Nat
        /\ Cardinality(N \cup mates) <= Cardinality(N) + Cardinality(mates)
    <3> HIDE DEF N, mates
    <3>1. /\ IsFiniteSet(N \cup mates)
          /\ Cardinality(N \cup mates) =
                Cardinality(N) + Cardinality(mates) - Cardinality(N \cap mates)
      BY <2>3, <2>5, FS_Union
    <3>2. Cardinality(N \cap mates) \in Nat
      BY <2>3, FS_Intersection, FS_CardinalityType
    <3>3. Cardinality(N) \in Nat /\ Cardinality(mates) \in Nat /\ Cardinality(N \cup mates) \in Nat
      BY <2>3, <2>5, <3>1, FS_CardinalityType
    <3>4. QED
      BY <3>1, <3>2, <3>3
  <2>7. IsFiniteSet(A) /\ Cardinality(A) <= Cardinality(N \cup mates) /\ Cardinality(A) \in Nat
    BY <2>2, <2>6, FS_Subset, FS_CardinalityType
  <2>8. Cardinality(N) \in Nat /\ Cardinality(mates) \in Nat /\ Cardinality(Signers) \in Nat
    BY <2>3, <2>5, NtConstants, FS_CardinalityType
  <2> HIDE DEF N, mates, A, R
  <2>9. Cardinality(A) <= MaxDevicesPerUser + Cardinality(Signers) - 1
    BY <2>3, <2>4, <2>5, <2>6, <2>7, <2>8, NtConstants
  <2>10. QED
    BY <2>7, <2>9 DEF A
<1>10. QED
  BY <1>8, <1>9

\* A commit leaves what it would with the others.
LEMMA RegisteredWithin ==
    ASSUME NtTypes, Within(devices, signer), NEW c \in Signers, Registered(c)
    PROVE  Within(devices', signer')
<1> DEFINE row == signer[c].row
           drop == signer[c].drop
           rest == {d \in devices : d.token # row.token /\ d.id \notin drop}
<1>0. /\ signer[c] # NoSigning /\ signer' = [signer EXCEPT ![c] = NoSigning]
      /\ devices' = rest \cup {row} \/ devices' = devices
  BY DEF Registered
<1>1. /\ signer'[c] = NoSigning
      /\ \A o \in Signers : o # c => signer'[o] = signer[o]
  BY <1>0 DEF NtTypes, TableTypes
<1> SUFFICES ASSUME NEW u \in PushUsers, NEW P \in SUBSET Registering(signer', u)
             PROVE  /\ IsFiniteSet(After(devices', signer', u, P))
                    /\ Cardinality(After(devices', signer', u, P))
                          <= MaxDevicesPerUser + Cardinality(Signers) - 1
  BY DEF Within
<1>2. \A o \in P : o # c /\ o \in Signers /\ signer'[o] = signer[o]
  BY <1>1 DEF Registering
<1>3. P \in SUBSET Registering(signer, u)
  BY <1>2 DEF Registering
<1>4. CASE devices' \subseteq devices
  <2>1. After(devices', signer', u, P) \subseteq After(devices, signer, u, P)
    BY <1>2, <1>4 DEF After
  <2>2. QED
    BY <1>3, <2>1, WithinSmaller
<1>5. CASE devices' = rest \cup {row} /\ row.user # u
  <2>1. After(devices', signer', u, P) \subseteq After(devices, signer, u, P)
    BY <1>2, <1>5 DEF After
  <2>2. QED
    BY <1>3, <2>1, WithinSmaller
<1>6. CASE devices' = rest \cup {row} /\ row.user = u
  <2> DEFINE R == P \cup {c}
  <2>1. R \in SUBSET Registering(signer, u)
    BY <1>0, <1>3, <1>6 DEF Registering
  <2>2. After(devices', signer', u, P) \subseteq After(devices, signer, u, R)
    <3> SUFFICES ASSUME NEW d \in After(devices', signer', u, P), d \notin {signer[o].row : o \in R}
                 PROVE  d \in After(devices, signer, u, R)
      BY DEF After
    <3>1. d \notin {signer'[o].row : o \in P} /\ d # row
      BY <1>2
    <3>2. /\ d \in devices' /\ d.user = u
          /\ \A o \in P : d.token # signer[o].row.token /\ d.id \notin signer[o].drop
      BY <1>2, <3>1 DEF After
    <3>3. d \in rest
      BY <1>6, <3>1, <3>2
    <3>4. QED
      BY <3>2, <3>3 DEF After
  <2> HIDE DEF R
  <2>3. QED
    BY <2>1, <2>2, WithinSmaller
<1>7. QED
  BY <1>0, <1>4, <1>5, <1>6

LEMMA WithinStep ==
    ASSUME NtTypes, CallsInv, TablesInv, Within(devices, signer), [NtNext]_ntVars
    PROVE  Within(devices', signer')
<1>1. CASE devices' \subseteq devices /\ signer' = signer
  <2> SUFFICES ASSUME NEW u \in PushUsers, NEW P \in SUBSET Registering(signer, u)
               PROVE  /\ IsFiniteSet(After(devices', signer, u, P))
                      /\ Cardinality(After(devices', signer, u, P))
                            <= MaxDevicesPerUser + Cardinality(Signers) - 1
    BY <1>1 DEF Within
  <2>1. After(devices', signer, u, P) \subseteq After(devices, signer, u, P)
    BY <1>1 DEF After
  <2>2. QED
    BY <2>1, WithinSmaller
<1>2. QED
  BY <1>1, TableSteps, RegisteredWithin, RegisterWithin DEF Dropped, Started

LEMMA WithinMeans ==
    ASSUME Within(devices, signer)
    PROVE  DevicesBounded
<1> SUFFICES ASSUME NEW u \in PushUsers
             PROVE  Cardinality(Of(u)) <= MaxDevicesPerUser + Cardinality(Signers) - 1
  BY DEF DevicesBounded
<1>1. {} \in SUBSET Registering(signer, u) /\ Of(u) \subseteq After(devices, signer, u, {})
  BY DEF After, Of
<1>2. QED
  BY <1>1, WithinSmaller

-----------------------------------------------------------------------------
(***************************************************************************)
(* Nobody is left out: of the devices an event is due to, a worker that    *)
(* has had no failure has those left to do that are not on record.         *)
(***************************************************************************)
Covered(T, U, D, e, todo) ==
    \A d \in Mine(T, e) : d.id \in U[e] => Rec(D, e, d.id) \/ \E x \in todo : x.id = d.id

WorkersCover ==
    \A w \in Pushers : pusher[w] # NoWork =>
        /\ Hears(pusher[w].event) /\ due[pusher[w].event] # {0}
        /\ ~ pusher[w].failed => Covered(devices, due, deliveries, pusher[w].event, pusher[w].todo)

ToldCovered ==
    \A e \in told : due[e] # {0} /\ (Hears(e) => Covered(devices, due, deliveries, e, {}))

OthersQuiet == \A e \in NoticeEvents : ~ Hears(e) => \A i \in Stamps : pushes[<<e, i>>] = 0

DoneInv == WorkersCover /\ ToldCovered /\ OthersQuiet

LEMMA HearsMeans == \A e \in NoticeEvents : Hears(e) <=> ShouldHear(Notices[e])
<1> SUFFICES ASSUME NEW e \in NoticeEvents PROVE Hears(e) <=> ShouldHear(Notices[e])
  OBVIOUS
<1>1. BookingEvent(Notices[e])
  BY NtConstants
<1>2. QED
  BY <1>1 DEF BookingEvent, Hears, ShouldHear, CustomerNotice

\* Devices come and go, records only come.
LEMMA StillCovered ==
    ASSUME NtTypes, CallsInv, TablesInv, [NtNext]_ntVars,
           NEW e \in NoticeEvents, NEW todo, Covered(devices, due, deliveries, e, todo),
           due'[e] = due[e], \A a, i : Rec(deliveries, a, i) => Rec(deliveries', a, i)
    PROVE  Covered(devices', due', deliveries', e, todo)
<1> SUFFICES ASSUME NEW d \in Mine(devices', e), d.id \in due[e]
             PROVE  Rec(deliveries', e, d.id) \/ \E x \in todo : x.id = d.id
  BY DEF Covered
<1>1. d \in devices' /\ d.user = Notices[e].customer
  BY DEF Mine
<1>2. PICK x \in devices : x.id = d.id /\ x.user = d.user
  BY <1>1, NoSurprise
<1>3. x \in Mine(devices, e) /\ x.id \in due[e]
  BY <1>1, <1>2 DEF Mine
<1>4. QED
  BY <1>2, <1>3 DEF Covered

LEMMA DuesStay ==
    ASSUME NtTypes, CallsInv, [NtNext]_ntVars, NEW e \in NoticeEvents, due[e] # {0}
    PROVE  due'[e] = due[e]
<1>1. ASSUME NEW w \in Pushers, NEW a \in NoticeEvents, Started(w, a) PROVE due'[e] = due[e]
  BY <1>1 DEF Started, NtTypes, WorkTypes
<1>2. QED
  BY <1>1, TableSteps DEF Dropped

LEMMA RecordsStay ==
    ASSUME NtTypes, CallsInv, [NtNext]_ntVars
    PROVE  \A a, i : Rec(deliveries, a, i) => Rec(deliveries', a, i)
<1>1. ASSUME NEW w \in Pushers, NEW failed \in BOOLEAN, Advanced(w, failed)
      PROVE  \A a, i : Rec(deliveries, a, i) => Rec(deliveries', a, i)
  BY <1>1 DEF Advanced
<1>2. Working \/ Resting
  BY WorkerSteps
<1>3. QED
  BY <1>1, <1>2 DEF Working, Resting, Started, Flown, Died

\* The workers and events a step does not touch.
LEMMA OthersCover ==
    ASSUME NtTypes, CallsInv, TablesInv, DoneInv, [NtNext]_ntVars
    PROVE  /\ \A w \in Pushers : pusher[w] # NoWork =>
                 /\ Hears(pusher[w].event) /\ due'[pusher[w].event] # {0}
                 /\ ~ pusher[w].failed =>
                       Covered(devices', due', deliveries', pusher[w].event, pusher[w].todo)
           /\ \A e \in told : due'[e] # {0} /\ (Hears(e) => Covered(devices', due', deliveries', e, {}))
<1>1. ASSUME NEW w \in Pushers, pusher[w] # NoWork
      PROVE  /\ Hears(pusher[w].event) /\ due'[pusher[w].event] # {0}
             /\ ~ pusher[w].failed =>
                   Covered(devices', due', deliveries', pusher[w].event, pusher[w].todo)
  <2>1. /\ pusher[w].event \in NoticeEvents /\ Hears(pusher[w].event) /\ due[pusher[w].event] # {0}
        /\ ~ pusher[w].failed =>
              Covered(devices, due, deliveries, pusher[w].event, pusher[w].todo)
    BY <1>1, DevIs DEF DoneInv, WorkersCover, NtTypes
  <2>2. due'[pusher[w].event] = due[pusher[w].event]
    BY <2>1, DuesStay
  <2>3. QED
    BY <2>1, <2>2, StillCovered, RecordsStay
<1>2. ASSUME NEW e \in told
      PROVE  due'[e] # {0} /\ (Hears(e) => Covered(devices', due', deliveries', e, {}))
  <2>1. e \in NoticeEvents /\ due[e] # {0} /\ (Hears(e) => Covered(devices, due, deliveries, e, {}))
    BY DEF DoneInv, ToldCovered, NtTypes, WorkTypes
  <2>2. due'[e] = due[e]
    BY <2>1, DuesStay
  <2>3. QED
    BY <2>1, <2>2, StillCovered, RecordsStay
<1>3. QED
  BY <1>1, <1>2

LEMMA StartedDone ==
    ASSUME NtTypes, CallsInv, TablesInv, DoneInv, [NtNext]_ntVars,
           NEW w \in Pushers, NEW e \in NoticeEvents, Started(w, e)
    PROVE  DoneInv'
<1> DEFINE todo == IF Hears(e) THEN Mine(devices, e) ELSE {}
           f == FALSE
<1>1. /\ pusher'[w] = NextOf(e, todo, f) /\ Alone(w)
      /\ told' = IF todo = {} THEN told \cup {e} ELSE told
      /\ devices' = devices /\ pushes' = pushes /\ deliveries' = deliveries
      /\ todo \in SUBSET Row /\ f \in BOOLEAN
  BY DEF Started, NtTypes, TableTypes, Mine
<1>2. due'[e] # {0}
  <2>1. \A d \in Mine(devices, e) : d.id >= 1
    BY RowIs DEF NtTypes, TableTypes, Mine
  <2>2. {d.id : d \in Mine(devices, e)} # {0}
    BY <2>1
  <2>3. QED
    BY <2>2 DEF Started, NtTypes, WorkTypes
<1>3. Hears(e) => Covered(devices', due', deliveries', e, todo)
  BY <1>1 DEF Covered
<1>4. Hears(e) \/ todo = {}
  OBVIOUS
<1> HIDE DEF todo, f
<1>5. todo = {} => pusher'[w] = NoWork
  BY <1>1, NextOfType
<1>6. todo # {} => pusher'[w].event = e /\ pusher'[w].todo = todo
  BY <1>1, NextOfType
<1>7. WorkersCover'
  <2> SUFFICES ASSUME NEW o \in Pushers, pusher'[o] # NoWork
               PROVE  /\ Hears(pusher'[o].event) /\ due'[pusher'[o].event] # {0}
                      /\ ~ pusher'[o].failed =>
                          Covered(devices', due', deliveries', pusher'[o].event, pusher'[o].todo)
    BY DEF WorkersCover
  <2>1. CASE o = w
    BY <1>2, <1>3, <1>4, <1>5, <1>6, <2>1
  <2>2. CASE o # w
    BY <1>1, <2>2, OthersCover DEF Alone
  <2>3. QED
    BY <2>1, <2>2
<1>8. ToldCovered'
  <2>1. ASSUME todo = {} PROVE due'[e] # {0} /\ (Hears(e) => Covered(devices', due', deliveries', e, {}))
    BY <1>2, <1>3, <2>1
  <2>2. QED
    BY <1>1, <2>1, OthersCover DEF ToldCovered
<1>9. OthersQuiet'
  BY <1>1 DEF DoneInv, OthersQuiet
<1>10. QED
  BY <1>7, <1>8, <1>9 DEF DoneInv

LEMMA AdvancedDone ==
    ASSUME NtTypes, CallsInv, TablesInv, DoneInv, [NtNext]_ntVars,
           NEW w \in Pushers, NEW failed \in BOOLEAN, Advanced(w, failed)
    PROVE  DoneInv'
<1> DEFINE p == pusher[w]
           e == p.event
           first == First(p.todo)
           todo == p.todo \ {first}
           f == p.failed \/ failed
<1>1. /\ pusher'[w] = NextOf(e, todo, f) /\ Alone(w) /\ p # NoWork
      /\ told' = IF todo = {} /\ ~ f THEN told \cup {e} ELSE told
      /\ pushes' = pushes
      /\ failed \/ Rec(deliveries', e, first.id) \/ devices' = {d \in devices : d.id # first.id}
  BY DEF Advanced
<1>2. e \in NoticeEvents /\ todo \in SUBSET Row /\ f \in BOOLEAN
  BY AdvancedPosts
<1>3. Hears(e) /\ due'[e] # {0} /\ (~ p.failed => Covered(devices', due', deliveries', e, p.todo))
  BY <1>1, OthersCover
<1>4. ~ f => Covered(devices', due', deliveries', e, todo)
  <2> SUFFICES ASSUME ~ f, NEW d \in Mine(devices', e), d.id \in due'[e], ~ Rec(deliveries', e, d.id)
               PROVE  \E x \in todo : x.id = d.id
    BY DEF Covered
  <2>1. PICK x \in p.todo : x.id = d.id
    BY <1>3 DEF Covered
  <2>2. d.id # first.id
    BY <1>1 DEF Mine
  <2>3. QED
    BY <2>1, <2>2
<1> HIDE DEF p, e, first, todo, f
<1>5. todo = {} => pusher'[w] = NoWork
  BY <1>1, <1>2, NextOfType
<1>6. todo # {} => pusher'[w].event = e /\ pusher'[w].todo = todo /\ pusher'[w].failed = f
  BY <1>1, <1>2, NextOfType
<1>7. WorkersCover'
  <2> SUFFICES ASSUME NEW o \in Pushers, pusher'[o] # NoWork
               PROVE  /\ Hears(pusher'[o].event) /\ due'[pusher'[o].event] # {0}
                      /\ ~ pusher'[o].failed =>
                          Covered(devices', due', deliveries', pusher'[o].event, pusher'[o].todo)
    BY DEF WorkersCover
  <2>1. CASE o = w
    BY <1>3, <1>4, <1>5, <1>6, <2>1
  <2>2. CASE o # w
    BY <1>1, <2>2, OthersCover DEF Alone
  <2>3. QED
    BY <2>1, <2>2
<1>8. ToldCovered'
  BY <1>1, <1>3, <1>4, OthersCover DEF ToldCovered
<1>9. OthersQuiet'
  BY <1>1 DEF DoneInv, OthersQuiet
<1>10. QED
  BY <1>7, <1>8, <1>9 DEF DoneInv

LEMMA FlownDone ==
    ASSUME NtTypes, CallsInv, TablesInv, DoneInv, [NtNext]_ntVars,
           NEW w \in Pushers, Flown(w)
    PROVE  DoneInv'
<1> DEFINE p == pusher[w]
           k == <<p.event, First(p.todo).id>>
<1>1. /\ Alone(w) /\ p # NoWork /\ told' = told
      /\ pusher'[w].event = p.event /\ pusher'[w].todo = p.todo /\ pusher'[w].failed = p.failed
      /\ pushes' = pushes \/ pushes' = More(pushes, k)
  BY DEF Flown, Same
<1>2. Hears(p.event) /\ p.event \in NoticeEvents /\ k \in NoticeEvents \X Stamps
  BY <1>1, OthersCover, DevIs DEF NtTypes
<1>3. WorkersCover'
  <2> SUFFICES ASSUME NEW o \in Pushers, pusher'[o] # NoWork
               PROVE  /\ Hears(pusher'[o].event) /\ due'[pusher'[o].event] # {0}
                      /\ ~ pusher'[o].failed =>
                          Covered(devices', due', deliveries', pusher'[o].event, pusher'[o].todo)
    BY DEF WorkersCover
  <2>1. CASE o = w
    BY <1>1, <2>1, OthersCover
  <2>2. CASE o # w
    BY <1>1, <2>2, OthersCover DEF Alone
  <2>3. QED
    BY <2>1, <2>2
<1>4. ToldCovered'
  BY <1>1, OthersCover DEF ToldCovered
<1>5. OthersQuiet'
  <2> SUFFICES ASSUME NEW e \in NoticeEvents, ~ Hears(e), NEW i \in Stamps
               PROVE  pushes'[<<e, i>>] = 0
    BY DEF OthersQuiet
  <2>1. pushes[<<e, i>>] = 0
    BY DEF DoneInv, OthersQuiet
  <2> DEFINE j == <<e, i>>
  <2>2. j # k /\ j \in NoticeEvents \X Stamps
    BY <1>2
  <2>3. pushes \in [NoticeEvents \X Stamps -> Nat]
    BY DEF NtTypes, WorkTypes
  <2> HIDE DEF j, k
  <2>4. More(pushes, k)[j] = pushes[j]
    BY <1>2, <2>2, <2>3, MoreType
  <2>5. QED
    BY <1>1, <2>1, <2>4 DEF j
<1>6. QED
  BY <1>3, <1>4, <1>5 DEF DoneInv

LEMMA DoneStep ==
    ASSUME NtTypes, CallsInv, TablesInv, DoneInv, [NtNext]_ntVars
    PROVE  DoneInv'
<1>1. ASSUME NEW w \in Pushers, Died(w) PROVE DoneInv'
  <2>1. Alone(w) /\ pusher'[w] = NoWork /\ told' = told /\ pushes' = pushes
    BY <1>1 DEF Died
  <2>2. WorkersCover'
    BY <2>1, OthersCover DEF Alone, WorkersCover
  <2>3. ToldCovered' /\ OthersQuiet'
    BY <2>1, OthersCover DEF ToldCovered, DoneInv, OthersQuiet
  <2>4. QED
    BY <2>2, <2>3 DEF DoneInv
<1>2. CASE Resting
  <2>1. pusher' = pusher /\ told' = told /\ pushes' = pushes
    BY <1>2 DEF Resting
  <2>2. WorkersCover'
    BY <2>1, OthersCover DEF WorkersCover
  <2>3. ToldCovered' /\ OthersQuiet'
    BY <2>1, OthersCover DEF ToldCovered, DoneInv, OthersQuiet
  <2>4. QED
    BY <2>2, <2>3 DEF DoneInv
<1>3. CASE Working
  BY <1>1, <1>3, StartedDone, AdvancedDone, FlownDone DEF Working
<1>4. QED
  BY <1>2, <1>3, WorkerSteps

NtInv == NtTypes /\ CallsInv /\ TablesInv /\ Within(devices, signer) /\ RepeatInv /\ DoneInv

LEMMA NtInvInit == NtInit => NtInv
<1> SUFFICES ASSUME NtInit PROVE NtInv
  OBVIOUS
<1>0. Cardinality({}) = 0 /\ IsFiniteSet({})
  BY FS_EmptySet
<1>1. /\ devices = {} /\ stamp = 0 /\ signer = [c \in Signers |-> NoSigning]
      /\ deliveries = {} /\ told = {} /\ pusher = [w \in Pushers |-> NoWork]
      /\ google = [cached |-> 0, valid |-> 1, fetches |-> 0, changes |-> 0]
      /\ pushes = [k \in NoticeEvents \X Stamps |-> 0]
      /\ due = [e \in NoticeEvents |-> {0}]
      /\ excused = [e \in NoticeEvents |-> 0]
  BY DEF NtInit, NtInitWith
<1>2. NtTypes
  BY <1>1, NtConstants DEF NtTypes, TableTypes, WorkTypes, Work, Google
<1>3. CallsInv
  BY <1>1 DEF CallsInv, FetchesFit, TriesFit, Bit, NoWork
<1>4. \A c \in Signers : ~ Open(c)
  BY <1>1 DEF Open
<1>5. TablesInv
  BY <1>0, <1>1, <1>4 DEF TablesInv, Keys, Stamped, RowsFit, RowsApart, DuesFit
<1>6. Within(devices, signer)
  <2> SUFFICES ASSUME NEW u \in PushUsers, NEW P \in SUBSET Registering(signer, u)
               PROVE  /\ IsFiniteSet(After(devices, signer, u, P))
                      /\ Cardinality(After(devices, signer, u, P))
                            <= MaxDevicesPerUser + Cardinality(Signers) - 1
    BY DEF Within
  <2>1. Registering(signer, u) = {}
    BY <1>1 DEF Registering
  <2>2. After(devices, signer, u, P) = {}
    BY <1>1, <2>1 DEF After
  <2>3. Cardinality(Signers) \in Nat
    BY NtConstants, FS_CardinalityType
  <2>4. 0 <= MaxDevicesPerUser + Cardinality(Signers) - 1
    BY <2>3, NtConstants
  <2>5. QED
    BY <1>0, <2>2, <2>4
<1>7. RepeatInv
  <2> SUFFICES ASSUME NEW e \in NoticeEvents, NEW i \in Stamps
               PROVE  Fits(pusher, deliveries, e, i, 0, 0)
    BY <1>1 DEF RepeatInv
  <2>1. BusyWith(pusher, e) = {}
    BY <1>1 DEF BusyWith
  <2>2. MayPush(pusher, deliveries, e, i) = {}
    BY <2>1, MayPushCount
  <2>3. QED
    BY <1>0, <2>2 DEF Fits
<1>8. DoneInv
  BY <1>1 DEF DoneInv, WorkersCover, ToldCovered, OthersQuiet
<1>9. QED
  BY <1>2, <1>3, <1>5, <1>6, <1>7, <1>8 DEF NtInv

LEMMA NtInvStep == NtInv /\ [NtNext]_ntVars => NtInv'
<1> SUFFICES ASSUME NtInv, [NtNext]_ntVars PROVE NtInv'
  OBVIOUS
<1> USE DEF NtInv
<1>1. WorkTypes' /\ TableTypes' /\ TablesInv'
  BY WorkTypesStep, TablesStep
<1>2. NtTypes'
  BY <1>1 DEF NtTypes
<1>3. CallsInv' /\ RepeatInv' /\ DoneInv'
  BY CallsStep, RepeatStep, DoneStep
<1>4. Within(devices, signer)'
  BY WithinStep
<1>5. QED
  BY <1>1, <1>2, <1>3, <1>4

LEMMA NtAlways == NtSpec => []NtInv
  BY NtInvInit, NtInvStep, PTL DEF NtSpec

\* However many workers push at once, are refused by Google or fail, and phones
\* register: one sign-in per access token, at most one try of a push more than
\* the policy has, and a user's devices bounded (FCM.Send, accessTokens,
\* SaveDevice and TrimDevices).
THEOREM PushesAreCheap == NtSpec => []PushesStayCheap
<1>1. NtInv => PushesStayCheap
  <2> SUFFICES ASSUME NtInv PROVE PushesStayCheap
    OBVIOUS
  <2>1. DevicesBounded
    BY WithinMeans DEF NtInv
  <2>2. google.fetches <= 1 + google.changes
    <3>1. google \in Google /\ FetchesFit(google)
      BY DEF NtInv, NtTypes, WorkTypes, CallsInv
    <3>2. Bit(google.cached = google.valid) \in Nat /\ Bit(google.cached = google.valid) <= 1
      BY DEF Bit
    <3>3. QED
      BY <3>1, <3>2, GoogleType DEF FetchesFit
  <2>3. ASSUME NEW w \in Pushers, Doing(w, "post") PROVE pusher[w].tries <= SendAttempts + 1
    <3> DEFINE p == pusher[w]
    <3>1. p \in InFlight /\ p.step = "post" /\ TriesFit(p)
      BY <2>3, DoingIs DEF NtInv, NtTypes, CallsInv
    <3>2. p.n \in Nat /\ p.tries \in Nat /\ p.n < SendAttempts
          /\ p.tries <= p.n + Bit(p.refreshed) + Bit(p.access # 0)
      BY <3>1 DEF InFlight, TriesFit
    <3>3. /\ Bit(p.refreshed) \in Nat /\ Bit(p.refreshed) <= 1
          /\ Bit(p.access # 0) \in Nat /\ Bit(p.access # 0) <= 1
      BY DEF Bit
    <3> HIDE DEF p
    <3>4. p.tries <= SendAttempts + 1
      BY <3>2, <3>3, NtConstants
    <3>5. QED
      BY <3>4 DEF p
  <2>4. QED
    BY <2>1, <2>2, <2>3 DEF PushesStayCheap, GoogleIsSpared
<1>2. QED
  BY <1>1, NtAlways, PTL

\* Notify, retried by the outbox as often as it takes: an event that is done has
\* reached every device its customer had and still has, nobody else hears of
\* it, and a device hears twice only for a cause.
THEOREM EveryDeviceIsTold == NtSpec => []EveryoneToldOnce
<1>1. NtInv => EveryoneToldOnce
  <2> SUFFICES ASSUME NtInv PROVE EveryoneToldOnce
    OBVIOUS
  <2>1. ASSUME NEW e \in NoticeEvents, ShouldHear(Notices[e]), e \in told,
               NEW d \in Of(Notices[e].customer), d.id \in due[e]
        PROVE  Recorded(e, d.id)
    <3>1. Hears(e)
      BY <2>1, HearsMeans
    <3>2. Covered(devices, due, deliveries, e, {})
      BY <2>1, <3>1 DEF NtInv, DoneInv, ToldCovered
    <3>3. d \in Mine(devices, e)
      BY DEF Of, Mine
    <3>4. Rec(deliveries, e, d.id)
      BY <2>1, <3>2, <3>3 DEF Covered
    <3>5. QED
      BY <3>4 DEF Rec, Recorded
  <2>2. ASSUME NEW e \in NoticeEvents, ~ ShouldHear(Notices[e]), NEW i \in Stamps
        PROVE  pushes[<<e, i>>] = 0
    BY <2>2, HearsMeans DEF NtInv, DoneInv, OthersQuiet
  <2>3. DoneMeansTold
    BY <2>1, <2>2 DEF DoneMeansTold
  <2>4. ASSUME NEW e \in NoticeEvents, NEW i \in Stamps
        PROVE  pushes[<<e, i>>] <= 1 + excused[e]
    <3>1. /\ pushes[<<e, i>>] \in Nat /\ excused[e] \in Nat
          /\ Fits(pusher, deliveries, e, i, pushes[<<e, i>>], excused[e])
      BY BalanceTypes DEF NtInv, NtTypes, RepeatInv
    <3>2. pushes[<<e, i>>] <= excused[e] + 1
      BY <3>1, Reserve
    <3>3. QED
      BY <3>1, <3>2
  <2>5. QED
    BY <2>3, <2>4 DEF EveryoneToldOnce, RepeatsExplained
<1>2. QED
  BY <1>1, NtAlways, PTL
=============================================================================
