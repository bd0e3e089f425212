------------------------------- MODULE Sessions -------------------------------
(***************************************************************************)
(* The sessions of iam: signing in starts one, a refresh spends the token  *)
(* presented and issues the next, a spent token that comes back ends it,   *)
(* and so do logging out and refreshing as a blocked user.                 *)
(*                                                                         *)
(* A sign-in is the ID of its session and of the first refresh token; a    *)
(* refresh is the ID of the token it would issue.  Sessions.Rotate locks   *)
(* token and session, Sessions.Update the session, so each of those        *)
(* transactions is one step; the clock, the user and the answer are read,  *)
(* looked up and sent outside them, in steps of their own.                 *)
(***************************************************************************)
EXTENDS Integers

CONSTANTS
    SignIns,        \* sign-ins, and the sessions they start
    Refreshes,      \* refresh requests, and the tokens they issue
    Users,
    RefreshTTL, AccessTTL,
    MaxTime,        \* bound: the clock stops here
    None            \* no session, no token

ASSUME SessionsAssumption ==
    /\ SignIns \cap Refreshes = {}
    /\ RefreshTTL \in Nat \ {0}
    /\ AccessTTL \in Nat \ {0}
    /\ MaxTime \in Nat

VARIABLES
    now,
    blockedAt,      \* when a user was blocked, or NoTime
    sessions,       \* iam.sessions
    tokens,         \* iam.refresh_tokens
    access,         \* access[t]: when the access token issued with t expires
    known,          \* refresh tokens some client has received
    signin,         \* a sign-in, once its code was accepted
    refresh,        \* a refresh request in progress
    endedAt         \* history: when a session was really revoked

vars == <<now, blockedAt, sessions, tokens, access, known, signin, refresh, endedAt>>

NoTime == -1
Times == Nat \cup {NoTime}
Tokens == SignIns \cup Refreshes

Reasons == {"active", "logout", "reuse", "blocked"}

Session == [user: Users, lastRefreshedAt: Nat, reason: Reasons]

RefreshToken == [session: SignIns, expiresAt: Nat, usedAt: Times]

ASSUME NoneAssumption ==
    /\ None \notin Session
    /\ None \notin RefreshToken
    /\ None \notin Users

SignIn == [pc: {"idle", "allowed", "starting", "done"}, user: Users \cup {None},
           seen: Nat]

Refresh == [pc: {"idle", "sent", "rotated", "refusing", "done"},
            token: Tokens \cup {None}, seen: Nat,
            result: {"none", "ok", "invalid", "reused", "blocked", "error"}]

-----------------------------------------------------------------------------
(***************************************************************************)
(* domain.Session.                                                         *)
(***************************************************************************)
IsBlocked(u) == blockedAt[u] # NoTime

IsRevoked(s) == sessions[s].reason # "active"

\* Mutant: the last reason wins.
RevokeAgain(row, reason) == [row EXCEPT !.reason = reason]

\* Session.Revoke: the first reason stays.
Revoke(row, reason) ==
    IF row.reason = "active"
    THEN [user |-> row.user, lastRefreshedAt |-> row.lastRefreshedAt,
          reason |-> reason]
    ELSE row

NewRefreshToken(s, t) ==
    [session |-> s, expiresAt |-> t + RefreshTTL, usedAt |-> NoTime]

\* Mutant: a token's expiry is looked at before its use.
RotateExpiryFirst(s, t, at) ==
    CASE IsRevoked(s)                     -> "invalid"
      [] ~ IsRevoked(s) /\ at >= tokens[t].expiresAt -> "invalid"
      [] OTHER -> IF tokens[t].usedAt # NoTime THEN "reused" ELSE "ok"

\* Session.Rotate's switch: what becomes of token t of session s, presented
\* by a request that read the clock at `at'.
Rotate(s, t, at) ==
    CASE IsRevoked(s)                     -> "invalid"
      [] ~ IsRevoked(s) /\ tokens[t].usedAt # NoTime -> "reused"
      [] OTHER -> IF at >= tokens[t].expiresAt THEN "invalid" ELSE "ok"

-----------------------------------------------------------------------------
(***************************************************************************)
(* Signing in: VerifyOTPHandler after the code, and SessionIssuer.Start.   *)
(***************************************************************************)
\* Users.Register loads the user; a blocked one is turned away.
Verify(s, u) ==
    /\ signin[s].pc = "idle"
    /\ signin' = [signin EXCEPT ![s] =
          [pc |-> IF IsBlocked(u) THEN "done" ELSE "allowed", user |-> u, seen |-> 0]]
    /\ UNCHANGED <<now, blockedAt, sessions, tokens, access, known, refresh, endedAt>>

StartReadsClock(s) ==
    /\ signin[s].pc = "allowed"
    /\ signin' = [signin EXCEPT ![s] =
          [pc |-> "starting", user |-> signin[s].user, seen |-> now]]
    /\ UNCHANGED <<now, blockedAt, sessions, tokens, access, known, refresh, endedAt>>

\* Sessions.Start saves the session and its first token in one transaction;
\* then the access token is signed.
Start(s) ==
    LET x == signin[s]
    IN  /\ x.pc = "starting"
        /\ sessions' = [sessions EXCEPT ![s] =
              [user |-> x.user, lastRefreshedAt |-> x.seen, reason |-> "active"]]
        /\ tokens' = [tokens EXCEPT ![s] = NewRefreshToken(s, x.seen)]
        /\ access' = [access EXCEPT ![s] = x.seen + AccessTTL]
        /\ signin' = [signin EXCEPT ![s] =
              [pc |-> "done", user |-> x.user, seen |-> x.seen]]
        /\ UNCHANGED <<now, blockedAt, known, refresh, endedAt>>

\* The transaction fails, or the server stops: nothing is saved.
StartFails(s) ==
    /\ signin[s].pc \in {"allowed", "starting"}
    /\ signin' = [signin EXCEPT ![s] =
          [pc |-> "done", user |-> signin[s].user, seen |-> signin[s].seen]]
    /\ UNCHANGED <<now, blockedAt, sessions, tokens, access, known, refresh, endedAt>>

\* The answer with the tokens reaches the client; it may also be lost.
Deliver(t) ==
    /\ access[t] # NoTime
    /\ t \notin known
    /\ known' = known \cup {t}
    /\ UNCHANGED <<now, blockedAt, sessions, tokens, access, signin, refresh, endedAt>>

-----------------------------------------------------------------------------
(***************************************************************************)
(* RefreshHandler.                                                         *)
(***************************************************************************)
Progress(r, pc, result) ==
    refresh' = [refresh EXCEPT ![r] =
        [pc |-> pc, token |-> refresh[r].token, seen |-> refresh[r].seen,
         result |-> result]]

\* A client, or whoever copied its token, presents a token; the clock is read
\* before the transaction.  (A string that is no token is refused unread.)
Present(r, t) ==
    /\ refresh[r].pc = "idle"
    /\ t \in known
    /\ refresh' = [refresh EXCEPT ![r] =
          [pc |-> "sent", token |-> t, seen |-> now, result |-> "none"]]
    /\ UNCHANGED <<now, blockedAt, sessions, tokens, access, known, signin, endedAt>>

\* The session row Rotate saves, whatever its verdict.
SavedSession(s, verdict, at) ==
    CASE verdict = "ok" ->
           [user |-> sessions[s].user, lastRefreshedAt |-> at,
            reason |-> sessions[s].reason]
      [] verdict = "reused"  -> Revoke(sessions[s], "reuse")
      [] verdict = "invalid" -> sessions[s]

\* Mutant: the token presented is not marked used.
SavedTokensUnspent(s, t, next, verdict, at) ==
    IF verdict = "ok" THEN [tokens EXCEPT ![next] = NewRefreshToken(s, at)] ELSE tokens

\* The token rows after it: the one presented spent, and the next one.
SavedTokens(s, t, next, verdict, at) ==
    IF verdict = "ok"
    THEN [x \in Tokens |->
            CASE x = t    -> [session |-> tokens[t].session,
                              expiresAt |-> tokens[t].expiresAt, usedAt |-> at]
              [] x = next -> NewRefreshToken(s, at)
              [] OTHER    -> tokens[x]]
    ELSE tokens

\* Sessions.Rotate: both rows locked, the verdict saved, reuse included.
RotateTx(r) ==
    LET t == refresh[r].token
        s == tokens[t].session
        v == Rotate(s, t, refresh[r].seen)
    IN  /\ refresh[r].pc = "sent"
        /\ sessions' = [sessions EXCEPT ![s] = SavedSession(s, v, refresh[r].seen)]
        /\ tokens' = SavedTokens(s, t, r, v, refresh[r].seen)
        /\ IF v = "ok" THEN Progress(r, "rotated", "none") ELSE Progress(r, "done", v)
        /\ endedAt' = [endedAt EXCEPT ![s] = IF v = "reused" THEN now ELSE @]
        /\ UNCHANGED <<now, blockedAt, access, known, signin>>

\* Mutant: the access token is dated when it is signed.
SignedAt(r) == now

\* The moment tokens() dates the access token by.
IssuedAt(r) == refresh[r].seen

\* Users.ByID: a blocked user gets nothing and loses the session; anyone else
\* gets the next token and an access token.
LoadUser(r) ==
    LET u == sessions[tokens[refresh[r].token].session].user
    IN  /\ refresh[r].pc = "rotated"
        /\ IF IsBlocked(u)
           THEN Progress(r, "refusing", "none") /\ UNCHANGED access
           ELSE /\ Progress(r, "done", "ok")
                /\ access' = [access EXCEPT ![r] = IssuedAt(r) + AccessTTL]
        /\ UNCHANGED <<now, blockedAt, sessions, tokens, known, signin, endedAt>>

\* Sessions.Update with Revoke(blocked).
RevokeBlocked(r) ==
    LET s == tokens[refresh[r].token].session
    IN  /\ refresh[r].pc = "refusing"
        /\ sessions' = [sessions EXCEPT ![s] = Revoke(@, "blocked")]
        /\ endedAt' = [endedAt EXCEPT ![s] = IF IsRevoked(s) THEN @ ELSE now]
        /\ Progress(r, "done", "blocked")
        /\ UNCHANGED <<now, blockedAt, tokens, access, known, signin>>

\* Any of the three may fail, or the server stop: what was committed stays.
RefreshFails(r) ==
    /\ refresh[r].pc \in {"sent", "rotated", "refusing"}
    /\ Progress(r, "done", "error")
    /\ UNCHANGED <<now, blockedAt, sessions, tokens, access, known, signin, endedAt>>

\* LogoutHandler: the caller's own session, the clock read under its lock.
Logout(s) ==
    /\ sessions[s] # None
    /\ sessions' = [sessions EXCEPT ![s] = Revoke(@, "logout")]
    /\ endedAt' = [endedAt EXCEPT ![s] = IF IsRevoked(s) THEN @ ELSE now]
    /\ UNCHANGED <<now, blockedAt, tokens, access, known, signin, refresh>>

\* External: an operator sets users.status; no code of this repository does.
Block(u) ==
    /\ ~ IsBlocked(u)
    /\ blockedAt' = [blockedAt EXCEPT ![u] = now]
    /\ UNCHANGED <<now, sessions, tokens, access, known, signin, refresh, endedAt>>

Tick ==
    /\ now < MaxTime
    /\ now' = now + 1
    /\ UNCHANGED <<blockedAt, sessions, tokens, access, known, signin, refresh, endedAt>>

Init ==
    /\ now = 0
    /\ blockedAt = [u \in Users |-> NoTime]
    /\ sessions = [s \in SignIns |-> None]
    /\ tokens = [t \in Tokens |-> None]
    /\ access = [t \in Tokens |-> NoTime]
    /\ known = {}
    /\ signin = [s \in SignIns |-> [pc |-> "idle", user |-> None, seen |-> 0]]
    /\ refresh = [r \in Refreshes |->
          [pc |-> "idle", token |-> None, seen |-> 0, result |-> "none"]]
    /\ endedAt = [s \in SignIns |-> NoTime]

Next ==
    \/ \E s \in SignIns :
          \/ \E u \in Users : Verify(s, u)
          \/ StartReadsClock(s) \/ Start(s) \/ StartFails(s) \/ Logout(s)
    \/ \E t \in Tokens : Deliver(t)
    \/ \E r \in Refreshes :
          \/ \E t \in Tokens : Present(r, t)
          \/ RotateTx(r) \/ LoadUser(r) \/ RevokeBlocked(r) \/ RefreshFails(r)
    \/ \E u \in Users : Block(u)
    \/ Tick

Spec == Init /\ [][Next]_vars

-----------------------------------------------------------------------------
(***************************************************************************)
(* Properties.                                                             *)
(***************************************************************************)
\* Every variable holds what the tables and the handlers' locals can hold.
TypeOK ==
    /\ now \in Nat
    /\ blockedAt \in [Users -> Times]
    /\ sessions \in [SignIns -> Session \cup {None}]
    /\ tokens \in [Tokens -> RefreshToken \cup {None}]
    /\ access \in [Tokens -> Times]
    /\ known \in SUBSET Tokens
    /\ signin \in [SignIns -> SignIn]
    /\ refresh \in [Refreshes -> Refresh]
    /\ endedAt \in [SignIns -> Times]

Usable(t, s) ==
    tokens[t] # None /\ tokens[t].session = s /\ tokens[t].usedAt = NoTime

\* "At most one token of a session is ever usable", and one is: refreshes of
\* one session, the same token presented twice and failures half way leave the
\* chain with exactly one unspent end.
OneUsableToken ==
    \A s \in SignIns : sessions[s] # None =>
        \E t \in Tokens : Usable(t, s) /\ \A x \in Tokens : Usable(x, s) => x = t

\* A refresh is refused only because the session has ended, because this very
\* refusal ends it, or because the token had expired unspent: whoever comes
\* second with a spent token, however late, leaves the session ended.
RefusalsEndTheSession ==
    [][\A r \in Refreshes :
          refresh[r].pc = "sent" /\ refresh'[r].result \in {"invalid", "reused"} =>
              LET t == tokens[refresh[r].token]
              IN  \/ sessions'[t.session].reason # "active"
                  \/ t.usedAt = NoTime /\ refresh[r].seen >= t.expiresAt]_vars

\* A revoked session is over: no token is added or spent, and the reason and
\* everything else about it stay as they were.
RevokedIsFinal ==
    [][\A s \in SignIns : sessions[s] # None /\ IsRevoked(s) =>
          /\ sessions'[s] = sessions[s]
          /\ \A t \in Tokens :
                (tokens[t] # None /\ tokens[t].session = s)
                    \/ (tokens'[t] # None /\ tokens'[t].session = s)
                => tokens'[t] = tokens[t]]_vars

\* "After logout or blocking, an access token keeps working until it expires, at
\* most 15 minutes" (ADR-0014): refreshes in flight at that moment included, for
\* the sessions that existed then.
AccessEndsSoon ==
    \A t \in Tokens : access[t] # NoTime =>
        LET s == tokens[t].session
            u == sessions[s].user
        IN  /\ endedAt[s] # NoTime => access[t] <= endedAt[s] + AccessTTL
            /\ t \in Refreshes /\ IsBlocked(u) => access[t] <= blockedAt[u] + AccessTTL
=============================================================================
