---------------------------- MODULE SessionsProofs ----------------------------
(***************************************************************************)
(* What holds of sessions however many devices, refreshes and copies of a  *)
(* token there are: a chain has exactly one unspent end, and a revoked     *)
(* session is over.                                                        *)
(***************************************************************************)
EXTENDS Sessions, TLAPS

(***************************************************************************)
(* Which rows exist follows from how far the requests have come.           *)
(***************************************************************************)
\* A sign-in that has not committed has neither session nor token.
StartsFresh ==
    \A s \in SignIns :
        /\ signin[s].pc # "done" => sessions[s] = None
        /\ signin[s].pc \in {"allowed", "starting"} => signin[s].user \in Users
        /\ sessions[s] = None => tokens[s] = None

\* A refresh that has not rotated has no token, one that has just done so has;
\* and one under way has presented a token that is there.
RefreshesFresh ==
    \A r \in Refreshes :
        /\ refresh[r].pc \in {"idle", "sent"} => tokens[r] = None
        /\ refresh[r].pc = "rotated" => tokens[r] # None
        /\ refresh[r].pc \in {"sent", "rotated", "refusing"} =>
              /\ refresh[r].token \in Tokens
              /\ tokens[refresh[r].token] # None

\* Tokens belong to sessions that exist, and only those were handed out.
TokensBelong ==
    /\ \A t \in Tokens : tokens[t] # None => sessions[tokens[t].session] # None
    /\ \A t \in Tokens : access[t] # NoTime => tokens[t] # None
    /\ \A t \in known : tokens[t] # None

Inv == TypeOK /\ StartsFresh /\ RefreshesFresh /\ TokensBelong

-----------------------------------------------------------------------------
LEMMA RowTypes ==
    /\ \A u \in Users, t \in Nat, x \in Reasons :
          [user |-> u, lastRefreshedAt |-> t, reason |-> x] \in Session
    /\ \A s \in SignIns, t \in Nat :
          /\ NewRefreshToken(s, t) \in RefreshToken
          /\ NewRefreshToken(s, t).session = s
          /\ NewRefreshToken(s, t).usedAt = NoTime
    /\ \A row \in Session, x \in Reasons : Revoke(row, x) \in Session
    /\ \A row \in Session : row # None
    /\ \A t \in RefreshToken : t # None
  BY SessionsAssumption, NoneAssumption
  DEF Session, RefreshToken, NewRefreshToken, Revoke, Times, NoTime, Reasons

\* What Rotate reads and writes: the verdict, the session row and the tokens.
LEMMA RotateFacts ==
    ASSUME Inv, NEW r \in Refreshes, RotateTx(r)
    PROVE  LET t == refresh[r].token
               s == tokens[t].session
               v == Rotate(s, t, refresh[r].seen)
           IN  /\ t \in Tokens /\ t # r /\ tokens[t] \in RefreshToken
               /\ s \in SignIns /\ sessions[s] \in Session
               /\ tokens[r] = None
               /\ v \in {"ok", "invalid", "reused"}
               /\ v = "ok" => ~ IsRevoked(s) /\ tokens[t].usedAt = NoTime
               /\ v = "reused" => ~ IsRevoked(s)
               /\ SavedSession(s, v, refresh[r].seen) \in Session
               /\ refresh[r].seen \in Nat
<1> DEFINE t == refresh[r].token
           s == tokens[t].session
           at == refresh[r].seen
           v == Rotate(s, t, at)
<1>1. t \in Tokens /\ tokens[t] # None /\ tokens[r] = None /\ at \in Nat
  BY DEF RotateTx, Inv, RefreshesFresh, TypeOK, Refresh
<1>2. tokens[t] \in RefreshToken
  BY <1>1 DEF Inv, TypeOK
<1>3. s \in SignIns /\ sessions[s] # None
  BY <1>1, <1>2 DEF Inv, TokensBelong, RefreshToken
<1>4. sessions[s] \in Session
  BY <1>3 DEF Inv, TypeOK
<1>5. /\ v \in {"ok", "invalid", "reused"}
      /\ v = "ok" => ~ IsRevoked(s) /\ tokens[t].usedAt = NoTime
      /\ v = "reused" => ~ IsRevoked(s)
  <2> HIDE DEF s, t, at
  <2>1. QED
    BY DEF v, Rotate
<1>6. SavedSession(s, v, at) \in Session
  <2> HIDE DEF s, t, at, v
  <2>1. sessions[s].user \in Users /\ sessions[s].reason \in Reasons
    BY <1>4 DEF Session
  <2>2. CASE v = "ok"
    BY <1>1, <2>1, <2>2, RowTypes DEF SavedSession
  <2>3. CASE v = "reused"
    BY <1>4, <2>3, RowTypes DEF SavedSession, Reasons
  <2>4. CASE v = "invalid"
    BY <1>4, <2>4 DEF SavedSession
  <2>5. QED
    BY <1>5, <2>2, <2>3, <2>4
<1>7. QED
  BY <1>1, <1>2, <1>3, <1>4, <1>5, <1>6

-----------------------------------------------------------------------------
LEMMA InvInit == Init => Inv
  BY SessionsAssumption, NoneAssumption
  DEF Init, Inv, TypeOK, StartsFresh, RefreshesFresh, TokensBelong, Times,
      NoTime, SignIn, Refresh, Tokens

LEMMA InvStep == Inv /\ [Next]_vars => Inv'
<1> SUFFICES ASSUME Inv, [Next]_vars PROVE Inv'
  OBVIOUS
<1> USE DEF Inv
<1>1. ASSUME NEW s \in SignIns, NEW u \in Users, Verify(s, u) PROVE Inv'
  <2>1. TypeOK'
    BY <1>1 DEF Verify, TypeOK, SignIn
  <2>2. QED
    BY <1>1, <2>1
    DEF Verify, TypeOK, StartsFresh, RefreshesFresh, TokensBelong, SignIn
<1>2. ASSUME NEW s \in SignIns, StartReadsClock(s) PROVE Inv'
  <2>1. TypeOK'
    BY <1>2 DEF StartReadsClock, TypeOK, SignIn
  <2>2. QED
    BY <1>2, <2>1
    DEF StartReadsClock, TypeOK, StartsFresh, RefreshesFresh, TokensBelong, SignIn
<1>3. ASSUME NEW s \in SignIns, Start(s) PROVE Inv'
  <2> DEFINE row == [user |-> signin[s].user, lastRefreshedAt |-> signin[s].seen,
                     reason |-> "active"]
             first == NewRefreshToken(s, signin[s].seen)
  <2>1. signin[s].user \in Users /\ signin[s].seen \in Nat /\ sessions[s] = None
    BY <1>3 DEF Start, StartsFresh, TypeOK, SignIn
  <2>2. row \in Session /\ row # None
    BY <2>1, RowTypes DEF Reasons
  <2>3. first \in RefreshToken /\ first # None /\ first.session = s
    BY <2>1, RowTypes
  <2>4. /\ sessions' = [sessions EXCEPT ![s] = row]
        /\ tokens' = [tokens EXCEPT ![s] = first]
        /\ access' = [access EXCEPT ![s] = signin[s].seen + AccessTTL]
        /\ signin' = [signin EXCEPT ![s] =
              [pc |-> "done", user |-> signin[s].user, seen |-> signin[s].seen]]
        /\ UNCHANGED <<now, blockedAt, known, refresh, endedAt>>
    BY <1>3 DEF Start
  <2> HIDE DEF row, first
  <2>5. s \in Tokens /\ s \notin Refreshes
    BY SessionsAssumption DEF Tokens
  <2>6. sessions' \in [SignIns -> Session \cup {None}]
    BY <2>2, <2>4 DEF TypeOK
  <2>7. tokens' \in [Tokens -> RefreshToken \cup {None}]
    BY <2>3, <2>4 DEF TypeOK
  <2>8. access' \in [Tokens -> Times]
    <3>1. signin[s].seen + AccessTTL \in Nat
      BY <2>1, SessionsAssumption
    <3>2. QED
      BY <2>4, <3>1 DEF TypeOK, Times
  <2>9. signin' \in [SignIns -> SignIn]
    BY <2>1, <2>4 DEF TypeOK, SignIn
  <2>10. TypeOK'
    BY <2>4, <2>6, <2>7, <2>8, <2>9 DEF TypeOK
  <2>11. StartsFresh'
    BY <2>2, <2>4, <2>5 DEF StartsFresh, TypeOK, Tokens
  <2>12. RefreshesFresh'
    BY <2>3, <2>4, <2>5 DEF RefreshesFresh, TypeOK, Tokens
  <2>13. TokensBelong'
    <3>1. \A t \in Tokens : tokens'[t] # None =>
             /\ tokens[t] # None \/ t = s
             /\ tokens'[t] = IF t = s THEN first ELSE tokens[t]
      BY <2>4, <2>5 DEF TypeOK
    <3>2. \A x \in SignIns : sessions[x] # None => sessions'[x] # None
      BY <2>2, <2>4 DEF TypeOK
    <3>3. \A t \in Tokens : tokens'[t] # None => sessions'[tokens'[t].session] # None
      <4>1. ASSUME NEW t \in Tokens, tokens'[t] # None, t # s
            PROVE  sessions'[tokens'[t].session] # None
        <5>1. tokens'[t] = tokens[t] /\ tokens[t] \in RefreshToken
          BY <4>1, <3>1 DEF TypeOK
        <5>2. QED
          BY <3>2, <4>1, <5>1 DEF TokensBelong, RefreshToken
      <4>2. sessions'[s] # None
        BY <2>2, <2>4 DEF TypeOK
      <4>3. QED
        BY <2>3, <3>1, <4>1, <4>2
    <3>4. \A t \in Tokens : access'[t] # NoTime => access[t] # NoTime \/ t = s
      BY <2>4, <2>5 DEF TypeOK
    <3>5. \A t \in Tokens : tokens[t] # None \/ t = s => tokens'[t] # None
      BY <2>3, <2>4, <2>5 DEF TypeOK
    <3>6. QED
      BY <2>4, <3>3, <3>4, <3>5 DEF TokensBelong, TypeOK
  <2>14. QED
    BY <2>10, <2>11, <2>12, <2>13
<1>4. ASSUME NEW s \in SignIns, StartFails(s) PROVE Inv'
  <2>1. TypeOK'
    BY <1>4 DEF StartFails, TypeOK, SignIn
  <2>2. QED
    BY <1>4, <2>1
    DEF StartFails, TypeOK, StartsFresh, RefreshesFresh, TokensBelong, SignIn
<1>5. ASSUME NEW s \in SignIns, Logout(s) PROVE Inv'
  <2>1. sessions[s] \in Session
    BY <1>5 DEF Logout, TypeOK
  <2>2. Revoke(sessions[s], "logout") \in Session
    BY <2>1, RowTypes DEF Reasons
  <2>3. Revoke(sessions[s], "logout") # None
    BY <2>2, RowTypes
  <2>4. TypeOK'
    BY <1>5, <2>2 DEF Logout, TypeOK, Times
  <2>5. \A x \in SignIns : sessions'[x] = None <=> sessions[x] = None
    BY <1>5, <2>3 DEF Logout, TypeOK
  <2>6. TokensBelong'
    BY <1>5, <2>5 DEF Logout, TokensBelong, TypeOK, RefreshToken
  <2>7. QED
    BY <1>5, <2>4, <2>5, <2>6
    DEF Logout, TypeOK, StartsFresh, RefreshesFresh
<1>6. ASSUME NEW t \in Tokens, Deliver(t) PROVE Inv'
  <2>1. TypeOK'
    BY <1>6 DEF Deliver, TypeOK
  <2>2. QED
    BY <1>6, <2>1
    DEF Deliver, TypeOK, StartsFresh, RefreshesFresh, TokensBelong
<1>7. ASSUME NEW r \in Refreshes, NEW t \in Tokens, Present(r, t) PROVE Inv'
  <2>1. TypeOK'
    BY <1>7 DEF Present, TypeOK, Refresh
  <2>2. RefreshesFresh'
    BY <1>7, <2>1 DEF Present, TypeOK, RefreshesFresh, TokensBelong
  <2>3. QED
    BY <1>7, <2>1, <2>2
    DEF Present, TypeOK, StartsFresh, TokensBelong
<1>8. ASSUME NEW r \in Refreshes, RotateTx(r) PROVE Inv'
  <2> DEFINE t == refresh[r].token
             s == tokens[t].session
             at == refresh[r].seen
             v == Rotate(s, t, at)
             saved == SavedSession(s, v, at)
  <2>1. /\ t \in Tokens /\ t # r /\ tokens[t] \in RefreshToken
        /\ s \in SignIns /\ sessions[s] \in Session
        /\ tokens[r] = None
        /\ v \in {"ok", "invalid", "reused"}
        /\ saved \in Session
        /\ at \in Nat
    BY <1>8, RotateFacts
  <2>2. /\ sessions' = [sessions EXCEPT ![s] = saved]
        /\ tokens' = SavedTokens(s, t, r, v, at)
        /\ IF v = "ok" THEN Progress(r, "rotated", "none") ELSE Progress(r, "done", v)
        /\ endedAt' = [endedAt EXCEPT ![s] = IF v = "reused" THEN now ELSE @]
        /\ UNCHANGED <<now, blockedAt, access, known, signin>>
    BY <1>8 DEF RotateTx
  <2>3. r \in Tokens /\ r \notin SignIns
    BY SessionsAssumption DEF Tokens
  <2>4. saved # None /\ sessions[s] # None /\ tokens[t] # None
    BY <2>1, RowTypes
  <2> DEFINE spent == [session |-> tokens[t].session,
                       expiresAt |-> tokens[t].expiresAt, usedAt |-> at]
             next == NewRefreshToken(s, at)
  <2>5. /\ spent \in RefreshToken /\ spent # None /\ spent.session = s
        /\ next \in RefreshToken /\ next # None /\ next.session = s
    <3>1. spent \in RefreshToken /\ spent.session = s
      BY <2>1 DEF RefreshToken, Times
    <3>2. next \in RefreshToken /\ next.session = s
      BY <2>1, RowTypes
    <3>3. QED
      BY <3>1, <3>2, RowTypes
  <2>6. \A x \in Tokens :
           tokens'[x] = IF v = "ok" /\ x = t THEN spent
                        ELSE IF v = "ok" /\ x = r THEN next ELSE tokens[x]
    <3> HIDE DEF s, t, at, v
    <3>1. QED
      BY <2>2, <2>1 DEF SavedTokens, spent, next
  <2>7. DOMAIN tokens' = Tokens /\ tokens' = [x \in Tokens |-> tokens'[x]]
    <3> HIDE DEF s, t, at, v
    <3>1. QED
      BY <2>2 DEF SavedTokens, TypeOK
  <2>8. /\ \A x \in Refreshes \ {r} : refresh'[x] = refresh[x]
        /\ refresh'[r] \in Refresh
        /\ refresh'[r].pc = IF v = "ok" THEN "rotated" ELSE "done"
        /\ refresh'[r].token = t
        /\ refresh' \in [Refreshes -> Refresh]
    <3>1. refresh[r].token = t /\ refresh[r].seen = at
      OBVIOUS
    <3> HIDE DEF s, t, at, v
    <3>2. CASE v = "ok"
      BY <2>1, <2>2, <3>1, <3>2 DEF Progress, TypeOK, Refresh
    <3>3. CASE v # "ok"
      BY <2>1, <2>2, <3>1, <3>3 DEF Progress, TypeOK, Refresh
    <3>4. QED
      BY <3>2, <3>3
  <2> HIDE DEF s, t, at, v, saved, spent, next
  <2>9. TypeOK'
    <3>1. sessions' \in [SignIns -> Session \cup {None}]
      BY <2>1, <2>2 DEF TypeOK
    <3>2. tokens' \in [Tokens -> RefreshToken \cup {None}]
      <4>1. \A x \in Tokens : tokens'[x] \in RefreshToken \cup {None}
        BY <2>5, <2>6 DEF TypeOK
      <4>2. QED
        BY <2>7, <4>1
    <3>3. endedAt' \in [SignIns -> Times]
      BY <2>2 DEF TypeOK, Times
    <3>4. QED
      BY <2>2, <2>8, <3>1, <3>2, <3>3 DEF TypeOK
  <2>10. \A x \in SignIns : sessions'[x] = None <=> sessions[x] = None
    BY <2>1, <2>2, <2>4 DEF TypeOK
  <2>11. \A x \in Tokens : tokens[x] # None => tokens'[x] # None
    BY <2>5, <2>6
  <2>12. StartsFresh'
    <3>1. \A x \in SignIns : tokens[x] = None => tokens'[x] = None
      BY <2>1, <2>3, <2>4, <2>6 DEF Tokens
    <3>2. QED
      BY <2>2, <2>10, <3>1 DEF StartsFresh
  <2>13. RefreshesFresh'
    <3>1. \A x \in Refreshes \ {r} : tokens[x] = None => tokens'[x] = None
      BY <2>4, <2>6 DEF Tokens
    <3>2. \A x \in Refreshes \ {r} :
             /\ refresh'[x].pc \in {"idle", "sent"} => tokens'[x] = None
             /\ refresh'[x].pc = "rotated" => tokens'[x] # None
             /\ refresh'[x].pc \in {"sent", "rotated", "refusing"} =>
                   /\ refresh'[x].token \in Tokens
                   /\ tokens'[refresh'[x].token] # None
      BY <2>8, <2>11, <3>1 DEF RefreshesFresh, Tokens
    <3>3. tokens'[t] # None /\ (v = "ok" => tokens'[r] # None)
      BY <2>1, <2>3, <2>4, <2>5, <2>6, <2>11
    <3>4. QED
      BY <2>1, <2>8, <3>2, <3>3 DEF RefreshesFresh
  <2>14. TokensBelong'
    <3>1. \A x \in Tokens : tokens'[x] # None => sessions'[tokens'[x].session] # None
      <4>1. ASSUME NEW x \in Tokens, tokens'[x] = tokens[x], tokens[x] # None
            PROVE  sessions'[tokens'[x].session] # None
        <5>1. tokens[x] \in RefreshToken
          BY <4>1 DEF TypeOK
        <5>2. QED
          BY <2>10, <4>1, <5>1 DEF TokensBelong, RefreshToken
      <4>2. sessions'[s] # None
        BY <2>1, <2>4, <2>10
      <4>3. QED
        BY <2>5, <2>6, <4>1, <4>2
    <3>2. QED
      BY <2>2, <2>11, <3>1 DEF TokensBelong, TypeOK
  <2>15. QED
    BY <2>9, <2>12, <2>13, <2>14
<1>9. ASSUME NEW r \in Refreshes, LoadUser(r) PROVE Inv'
  <2>1. /\ refresh[r].pc = "rotated" /\ refresh[r].seen \in Nat
        /\ refresh[r].token \in Tokens /\ tokens[refresh[r].token] # None
    BY <1>9 DEF LoadUser, RefreshesFresh, TypeOK, Refresh
  <2>2. /\ UNCHANGED <<now, blockedAt, sessions, tokens, known, signin, endedAt>>
        /\ \/ Progress(r, "refusing", "none") /\ UNCHANGED access
           \/ /\ Progress(r, "done", "ok")
              /\ access' = [access EXCEPT ![r] = refresh[r].seen + AccessTTL]
    BY <1>9 DEF LoadUser, IssuedAt
  <2>3. refresh' \in [Refreshes -> Refresh]
    BY <2>1, <2>2 DEF Progress, TypeOK, Refresh
  <2>4. access' \in [Tokens -> Times]
    BY <2>1, <2>2, SessionsAssumption DEF TypeOK, Times
  <2>5. RefreshesFresh'
    BY <2>1, <2>2 DEF Progress, RefreshesFresh, TypeOK
  <2>6. tokens[r] # None
    BY <2>1 DEF RefreshesFresh
  <2>7. QED
    BY <2>2, <2>3, <2>4, <2>5, <2>6 DEF TypeOK, StartsFresh, TokensBelong
<1>10. ASSUME NEW r \in Refreshes, RevokeBlocked(r) PROVE Inv'
  <2> DEFINE t == refresh[r].token
             s == tokens[t].session
  <2>1. /\ t \in Tokens /\ tokens[t] # None /\ refresh[r].seen \in Nat
    BY <1>10 DEF RevokeBlocked, RefreshesFresh, TypeOK, Refresh
  <2>2. s \in SignIns /\ sessions[s] # None
    BY <2>1 DEF TypeOK, TokensBelong, RefreshToken
  <2>3. Revoke(sessions[s], "blocked") \in Session
    BY <2>2, RowTypes DEF TypeOK, Reasons
  <2>4. Revoke(sessions[s], "blocked") # None
    BY <2>3, RowTypes
  <2>5. /\ sessions' = [sessions EXCEPT ![s] = Revoke(sessions[s], "blocked")]
        /\ endedAt' = [endedAt EXCEPT ![s] = IF IsRevoked(s) THEN @ ELSE now]
        /\ Progress(r, "done", "blocked")
        /\ UNCHANGED <<now, blockedAt, tokens, access, known, signin>>
    BY <1>10 DEF RevokeBlocked
  <2>6. refresh' \in [Refreshes -> Refresh]
    BY <2>1, <2>5 DEF Progress, TypeOK, Refresh
  <2> HIDE DEF s, t
  <2>7. TypeOK'
    BY <2>2, <2>3, <2>5, <2>6 DEF TypeOK, Times
  <2>8. \A x \in SignIns : sessions'[x] = None <=> sessions[x] = None
    BY <2>2, <2>4, <2>5 DEF TypeOK
  <2>9. TokensBelong'
    BY <2>5, <2>8 DEF TokensBelong, TypeOK, RefreshToken
  <2>10. RefreshesFresh'
    BY <2>5 DEF Progress, RefreshesFresh, TypeOK
  <2>11. QED
    BY <2>5, <2>7, <2>8, <2>9, <2>10 DEF StartsFresh
<1>11. ASSUME NEW r \in Refreshes, RefreshFails(r) PROVE Inv'
  <2>1. TypeOK'
    BY <1>11 DEF RefreshFails, Progress, TypeOK, Refresh
  <2>2. QED
    BY <1>11, <2>1
    DEF RefreshFails, Progress, TypeOK, StartsFresh, RefreshesFresh, TokensBelong
<1>12. ASSUME NEW u \in Users, Block(u) PROVE Inv'
  <2>1. TypeOK'
    BY <1>12 DEF Block, TypeOK, Times
  <2>2. QED
    BY <1>12, <2>1 DEF Block, StartsFresh, RefreshesFresh, TokensBelong
<1>13. CASE Tick
  BY <1>13 DEF Tick, TypeOK, StartsFresh, RefreshesFresh, TokensBelong
<1>14. CASE UNCHANGED vars
  BY <1>14 DEF vars, TypeOK, StartsFresh, RefreshesFresh, TokensBelong
<1>15. QED
  BY <1>1, <1>2, <1>3, <1>4, <1>5, <1>6, <1>7, <1>8, <1>9, <1>10, <1>11, <1>12,
     <1>13, <1>14
  DEF Next

\* Sessions, tokens and requests never hold what their tables and locals cannot.
THEOREM TypeCorrect == Spec => []TypeOK
<1>1. Inv => TypeOK
  BY DEF Inv
<1>2. QED
  BY <1>1, InvInit, InvStep, PTL DEF Spec

-----------------------------------------------------------------------------
(***************************************************************************)
(* The chain of tokens.                                                    *)
(***************************************************************************)
LEMMA ChainInit == Init => OneUsableToken
  BY DEF Init, OneUsableToken

\* A step that neither starts a session nor spends a token leaves its chain.
LEMMA ChainKept ==
    ASSUME OneUsableToken, UNCHANGED tokens,
           \A s \in SignIns : sessions'[s] # None => sessions[s] # None
    PROVE  OneUsableToken'
  BY DEF OneUsableToken, Usable

LEMMA ChainStep == Inv /\ Inv' /\ OneUsableToken /\ [Next]_vars => OneUsableToken'
<1> SUFFICES ASSUME Inv, Inv', OneUsableToken, [Next]_vars PROVE OneUsableToken'
  OBVIOUS
<1>1. ASSUME NEW s \in SignIns, Start(s) PROVE OneUsableToken'
  <2> DEFINE first == NewRefreshToken(s, signin[s].seen)
  <2>1. /\ signin[s].seen \in Nat /\ sessions[s] = None /\ s \in Tokens
    BY <1>1 DEF Start, Inv, StartsFresh, TypeOK, SignIn, Tokens
  <2>2. first # None /\ first.session = s /\ first.usedAt = NoTime
    BY <2>1, RowTypes
  <2>3. tokens' = [tokens EXCEPT ![s] = first]
        /\ \A x \in SignIns \ {s} : sessions'[x] = sessions[x]
    BY <1>1 DEF Start, Inv, TypeOK
  <2> HIDE DEF first
  <2>4. ~ \E t \in Tokens : Usable(t, s)
    BY <2>1 DEF Usable, Inv, TokensBelong
  <2>5. tokens[s] = None
    BY <2>1 DEF Inv, StartsFresh
  <2>6. \A t \in Tokens, x \in SignIns :
           Usable(t, x)' <=> IF t = s THEN x = s ELSE Usable(t, x)
    BY <2>1, <2>2, <2>3 DEF Usable, Inv, TypeOK
  <2>7. \A x \in SignIns : ~ Usable(s, x)
    BY <2>5 DEF Usable
  <2>8. QED
    BY <2>1, <2>3, <2>4, <2>6, <2>7 DEF OneUsableToken
<1>2. ASSUME NEW r \in Refreshes, RotateTx(r) PROVE OneUsableToken'
  <2> DEFINE t == refresh[r].token
             s == tokens[t].session
             at == refresh[r].seen
             v == Rotate(s, t, at)
             next == NewRefreshToken(s, at)
  <2>1. /\ t \in Tokens /\ t # r /\ tokens[t] \in RefreshToken
        /\ s \in SignIns /\ sessions[s] \in Session
        /\ tokens[r] = None
        /\ v = "ok" => tokens[t].usedAt = NoTime
        /\ at \in Nat
    BY <1>2, RotateFacts
  <2>2. sessions[s] # None /\ tokens[t] # None
    BY <2>1, RowTypes
  <2>3. \A x \in SignIns : sessions'[x] # None => sessions[x] # None
    BY <1>2, <2>2 DEF RotateTx, Inv, TypeOK
  <2>4. CASE v # "ok"
    BY <1>2, <2>3, <2>4, ChainKept DEF RotateTx, SavedTokens
  <2>5. CASE v = "ok"
    <3>1. next # None /\ next.session = s /\ next.usedAt = NoTime
      BY <2>1, RowTypes
    <3>2. r \in Tokens
      BY DEF Tokens
    <3>3. \A x \in Tokens :
             /\ x = t => tokens'[x].usedAt = at
             /\ x = r => tokens'[x] = next
             /\ x \notin {t, r} => tokens'[x] = tokens[x]
      <4>1. tokens' = SavedTokens(s, t, r, v, at)
        BY <1>2 DEF RotateTx
      <4> HIDE DEF s, t, at, v
      <4>2. QED
        BY <2>1, <2>5, <4>1 DEF SavedTokens
    <3>4. Usable(t, s) /\ tokens[t].session = s
      BY <2>1, <2>2, <2>5 DEF Usable
    <3> HIDE DEF s, t, at, v, next
    <3>5. at # NoTime
      BY <2>1 DEF NoTime
    <3>6. \A y \in Tokens, x \in SignIns :
             /\ y = t => ~ Usable(y, x)' /\ (Usable(y, x) <=> x = s)
             /\ y = r => ~ Usable(y, x) /\ (Usable(y, x)' <=> x = s)
             /\ y \notin {t, r} => (Usable(y, x)' <=> Usable(y, x))
      BY <2>1, <3>1, <3>2, <3>3, <3>4, <3>5 DEF Usable
    <3>7. QED
      BY <2>1, <2>3, <3>2, <3>4, <3>6 DEF OneUsableToken
  <2>6. QED
    BY <2>4, <2>5
<1>3. ASSUME NEW s \in SignIns, Logout(s) PROVE OneUsableToken'
  BY <1>3, ChainKept DEF Logout, Inv, TypeOK
<1>4. ASSUME NEW r \in Refreshes, RevokeBlocked(r) PROVE OneUsableToken'
  <2>1. /\ refresh[r].token \in Tokens /\ tokens[refresh[r].token] # None
    BY <1>4 DEF RevokeBlocked, Inv, RefreshesFresh
  <2>2. sessions[tokens[refresh[r].token].session] # None
    BY <2>1 DEF Inv, TokensBelong
  <2>3. QED
    BY <1>4, <2>2, ChainKept DEF RevokeBlocked, Inv, TypeOK
<1>5. CASE UNCHANGED <<sessions, tokens>>
  BY <1>5, ChainKept
<1>6. QED
  BY <1>1, <1>2, <1>3, <1>4, <1>5
  DEF Next, Verify, StartReadsClock, StartFails, Deliver, Present, LoadUser,
      RefreshFails, Block, Tick, vars

\* "At most one token of a session is ever usable" (domain.Session), and there
\* always is one: for any number of sessions, refreshes, copies and failures.
THEOREM OneTokenEndsTheChain == Spec => []OneUsableToken
  BY InvInit, InvStep, ChainInit, ChainStep, PTL DEF Spec

-----------------------------------------------------------------------------
(***************************************************************************)
(* The end of a session.                                                   *)
(***************************************************************************)
LEMMA RevokedStep ==
    ASSUME Inv, Inv', [Next]_vars, NEW s \in SignIns, sessions[s] # None, IsRevoked(s)
    PROVE  /\ sessions'[s] = sessions[s]
           /\ \A t \in Tokens :
                 (tokens[t] # None /\ tokens[t].session = s)
                     \/ (tokens'[t] # None /\ tokens'[t].session = s)
                 => tokens'[t] = tokens[t]
<1>1. ASSUME NEW x \in SignIns, Start(x)
      PROVE  /\ x # s
             /\ sessions'[s] = sessions[s]
             /\ tokens' = [tokens EXCEPT ![x] = NewRefreshToken(x, signin[x].seen)]
             /\ tokens[x] = None /\ tokens'[x].session = x
  <2>1. sessions[x] = None /\ tokens[x] = None /\ signin[x].seen \in Nat
    BY <1>1 DEF Start, Inv, StartsFresh, TypeOK, SignIn
  <2>2. NewRefreshToken(x, signin[x].seen).session = x
    BY <2>1, RowTypes
  <2>3. QED
    BY <1>1, <2>1, <2>2 DEF Start, Inv, TypeOK, Tokens
<1>2. ASSUME NEW r \in Refreshes, RotateTx(r)
      PROVE  /\ sessions'[s] = sessions[s]
             /\ \A t \in Tokens :
                   (tokens[t] # None /\ tokens[t].session = s)
                       \/ (tokens'[t] # None /\ tokens'[t].session = s)
                   => tokens'[t] = tokens[t]
  <2> DEFINE t == refresh[r].token
             x == tokens[t].session
             at == refresh[r].seen
             v == Rotate(x, t, at)
  <2>1. /\ t \in Tokens /\ t # r /\ tokens[r] = None /\ x \in SignIns
        /\ v \in {"ok", "invalid", "reused"}
        /\ v \in {"ok", "reused"} => ~ IsRevoked(x)
        /\ at \in Nat
    BY <1>2, RotateFacts
  <2>2. /\ tokens' = SavedTokens(x, t, r, v, at)
        /\ sessions' = [sessions EXCEPT ![x] = SavedSession(x, v, at)]
        /\ tokens[t].session = x
    BY <1>2 DEF RotateTx
  <2>3. NewRefreshToken(x, at).session = x
    BY <2>1, RowTypes
  <2> HIDE DEF t, x, at, v
  <2>4. CASE v = "invalid"
    BY <2>1, <2>2, <2>4 DEF SavedTokens, SavedSession, Inv, TypeOK
  <2>5. CASE v # "invalid"
    <3>1. x # s
      BY <2>1, <2>5
    <3>2. sessions'[s] = sessions[s]
      BY <2>1, <2>2, <3>1 DEF Inv, TypeOK
    <3>3. \A y \in Tokens : tokens'[y] # tokens[y] =>
             /\ tokens'[y].session = x
             /\ tokens[y] # None => tokens[y].session = x
      BY <2>1, <2>2, <2>3 DEF SavedTokens
    <3>4. QED
      BY <3>1, <3>2, <3>3
  <2>6. QED
    BY <2>4, <2>5
<1>3. ASSUME NEW x \in SignIns, Logout(x)
      PROVE  sessions'[s] = sessions[s] /\ UNCHANGED tokens
  BY <1>3 DEF Logout, Revoke, IsRevoked, Inv, TypeOK
<1>4. ASSUME NEW r \in Refreshes, RevokeBlocked(r)
      PROVE  sessions'[s] = sessions[s] /\ UNCHANGED tokens
  BY <1>4 DEF RevokeBlocked, Revoke, IsRevoked, Inv, TypeOK
<1>5. CASE UNCHANGED <<sessions, tokens>>
  BY <1>5
<1>6. ASSUME NEW x \in SignIns, Start(x)
      PROVE  \A t \in Tokens :
                (tokens[t] # None /\ tokens[t].session = s)
                    \/ (tokens'[t] # None /\ tokens'[t].session = s)
                => tokens'[t] = tokens[t]
  BY <1>1, <1>6 DEF Inv, TypeOK
<1>7. QED
  BY <1>1, <1>2, <1>3, <1>4, <1>5, <1>6
  DEF Next, Verify, StartReadsClock, StartFails, Deliver, Present, LoadUser,
      RefreshFails, Block, Tick, vars

\* Once revoked, for whatever reason and whatever is in flight, a session is
\* over: no token of it is issued or spent, and its first reason stays.
THEOREM RevokedStaysRevoked == Spec => RevokedIsFinal
<1>1. Inv /\ Inv' /\ [Next]_vars =>
        [\A s \in SignIns : sessions[s] # None /\ IsRevoked(s) =>
            /\ sessions'[s] = sessions[s]
            /\ \A t \in Tokens :
                  (tokens[t] # None /\ tokens[t].session = s)
                      \/ (tokens'[t] # None /\ tokens'[t].session = s)
                  => tokens'[t] = tokens[t]]_vars
  BY RevokedStep
<1>2. QED
  BY <1>1, InvInit, InvStep, PTL DEF Spec, RevokedIsFinal

-----------------------------------------------------------------------------
(***************************************************************************)
(* Access tokens.  They are dated by the moment a request read before its  *)
(* transaction.  A refresh that has rotated and not yet been answered had  *)
(* read the clock before its session could end, however long ago that was. *)
(***************************************************************************)
\* Nobody has read a moment still to come.
ReadEarlier ==
    /\ \A s \in SignIns : signin[s].seen <= now
    /\ \A r \in Refreshes : refresh[r].seen <= now
    /\ \A t \in Tokens : access[t] <= now + AccessTTL

\* Sessions that ended were there and are revoked.
EndedAreRevoked ==
    \A s \in SignIns : endedAt[s] # NoTime => sessions[s] # None /\ IsRevoked(s)

RotatedInTime ==
    \A r \in Refreshes : refresh[r].pc = "rotated" =>
        LET s == tokens[refresh[r].token].session
        IN  /\ tokens[r].session = s
            /\ endedAt[s] # NoTime => refresh[r].seen <= endedAt[s]

AccessInv == ReadEarlier /\ EndedAreRevoked /\ RotatedInTime /\ AccessEndsSoon

LEMMA AccessInit == Init => AccessInv
  BY SessionsAssumption
  DEF Init, AccessInv, ReadEarlier, EndedAreRevoked, RotatedInTime, AccessEndsSoon, NoTime

\* What the session row saved by Rotate keeps.
LEMMA SavedKeeps ==
    ASSUME NEW s \in SignIns, sessions[s] \in Session, NEW v \in {"ok", "invalid", "reused"},
           NEW at
    PROVE  /\ SavedSession(s, v, at).user = sessions[s].user
           /\ IsRevoked(s) \/ v = "reused" => SavedSession(s, v, at).reason # "active"
  BY DEF SavedSession, Revoke, IsRevoked, Session

\* A token stays with its session, a session with its user and its end.
LEMMA RowsStay ==
    ASSUME Inv, [Next]_vars
    PROVE  /\ \A t \in Tokens : tokens[t] # None => tokens'[t].session = tokens[t].session
           /\ \A s \in SignIns : sessions[s] # None =>
                 /\ sessions'[s].user = sessions[s].user
                 /\ IsRevoked(s) => sessions'[s].reason # "active"
           /\ \A s \in SignIns : endedAt'[s] # endedAt[s] =>
                 /\ endedAt'[s] = now
                 /\ sessions[s] # None /\ sessions'[s].reason # "active"
<1> DEFINE P == /\ \A t \in Tokens : tokens[t] # None => tokens'[t].session = tokens[t].session
                /\ \A s \in SignIns : sessions[s] # None =>
                      /\ sessions'[s].user = sessions[s].user
                      /\ IsRevoked(s) => sessions'[s].reason # "active"
                /\ \A s \in SignIns : endedAt'[s] # endedAt[s] =>
                      /\ endedAt'[s] = now
                      /\ sessions[s] # None /\ sessions'[s].reason # "active"
<1>1. ASSUME NEW s \in SignIns, Start(s) PROVE P
  <2>1. sessions[s] = None /\ tokens[s] = None
    BY <1>1 DEF Start, Inv, StartsFresh
  <2>2. QED
    BY <1>1, <2>1 DEF Start, Inv, TypeOK, Tokens, IsRevoked
<1>2. ASSUME NEW s \in SignIns, Logout(s) PROVE P
  BY <1>2 DEF Logout, Revoke, IsRevoked, Inv, TypeOK, Session
<1>3. ASSUME NEW r \in Refreshes, RevokeBlocked(r) PROVE P
  <2> DEFINE s == tokens[refresh[r].token].session
  <2>1. refresh[r].token \in Tokens /\ tokens[refresh[r].token] # None
    BY <1>3 DEF RevokeBlocked, Inv, RefreshesFresh
  <2>2. s \in SignIns /\ sessions[s] # None
    BY <2>1 DEF Inv, TypeOK, TokensBelong, RefreshToken
  <2>3. /\ sessions' = [sessions EXCEPT ![s] = Revoke(sessions[s], "blocked")]
        /\ endedAt' = [endedAt EXCEPT ![s] = IF IsRevoked(s) THEN @ ELSE now]
        /\ UNCHANGED tokens
    BY <1>3 DEF RevokeBlocked
  <2> HIDE DEF s
  <2>4. QED
    BY <2>2, <2>3 DEF Revoke, IsRevoked, Inv, TypeOK, Session
<1>4. ASSUME NEW r \in Refreshes, RotateTx(r) PROVE P
  <2> DEFINE t == refresh[r].token
             s == tokens[t].session
             at == refresh[r].seen
             v == Rotate(s, t, at)
             saved == SavedSession(s, v, at)
  <2>1. /\ t \in Tokens /\ t # r /\ tokens[r] = None /\ s \in SignIns
        /\ sessions[s] \in Session
        /\ v \in {"ok", "invalid", "reused"}
    BY <1>4, RotateFacts
  <2>2. /\ tokens' = SavedTokens(s, t, r, v, at)
        /\ sessions' = [sessions EXCEPT ![s] = saved]
        /\ endedAt' = [endedAt EXCEPT ![s] = IF v = "reused" THEN now ELSE @]
        /\ tokens[t].session = s
    BY <1>4 DEF RotateTx
  <2> HIDE DEF t, s, at, v
  <2>3. /\ saved.user = sessions[s].user
        /\ IsRevoked(s) \/ v = "reused" => saved.reason # "active"
    BY <2>1, SavedKeeps
  <2>4. sessions[s] # None
    BY <2>1, RowTypes
  <2> HIDE DEF saved
  <2>5. \A x \in Tokens : tokens[x] # None => tokens'[x].session = tokens[x].session
    BY <2>1, <2>2 DEF SavedTokens
  <2>6. \A x \in SignIns : sessions'[x] = IF x = s THEN saved ELSE sessions[x]
    BY <2>1, <2>2 DEF Inv, TypeOK
  <2>7. \A x \in SignIns : endedAt'[x] = IF x = s /\ v = "reused" THEN now ELSE endedAt[x]
    BY <2>1, <2>2 DEF Inv, TypeOK
  <2>8. QED
    BY <2>3, <2>4, <2>5, <2>6, <2>7 DEF IsRevoked
<1>5. CASE UNCHANGED <<sessions, tokens, endedAt>>
  BY <1>5 DEF IsRevoked
<1>6. QED
  BY <1>1, <1>2, <1>3, <1>4, <1>5
  DEF Next, Verify, StartReadsClock, StartFails, Deliver, Present, LoadUser,
      RefreshFails, Block, Tick, vars

\* What a step may do to a request, to the clock and to the access tokens.
Frame ==
    /\ now' \in {now, now + 1}
    /\ \A s \in SignIns : signin'[s].seen \in {0, now, signin[s].seen}
    /\ \A r \in Refreshes : refresh'[r].seen \in {now, refresh[r].seen}
    /\ \A r \in Refreshes :
          \/ refresh'[r] = refresh[r]
          \/ RotateTx(r)
          \/ refresh'[r].pc \notin {"idle", "rotated"} /\ refresh'[r].result \notin {"invalid", "reused"}
    /\ \A t \in Tokens :
          \/ access'[t] = access[t]
          \/ t \in SignIns /\ access'[t] = signin[t].seen + AccessTTL
          \/ t \in Refreshes /\ access'[t] = refresh[t].seen + AccessTTL

LEMMA FrameStep ==
    ASSUME Inv, [Next]_vars
    PROVE  Frame
<1> USE DEF Frame, Inv, TypeOK
<1>1. ASSUME NEW s \in SignIns, NEW u \in Users, Verify(s, u) PROVE Frame
  BY <1>1 DEF Verify
<1>2. ASSUME NEW s \in SignIns, StartReadsClock(s) PROVE Frame
  BY <1>2 DEF StartReadsClock
<1>3. ASSUME NEW s \in SignIns, Start(s) PROVE Frame
  BY <1>3 DEF Start
<1>4. ASSUME NEW s \in SignIns, StartFails(s) \/ Logout(s) PROVE Frame
  BY <1>4 DEF StartFails, Logout
<1>5. ASSUME NEW r \in Refreshes, NEW t \in Tokens, Present(r, t) PROVE Frame
  BY <1>5 DEF Present
<1>6. ASSUME NEW r \in Refreshes, RotateTx(r) PROVE Frame
  <2> DEFINE v == Rotate(tokens[refresh[r].token].session, refresh[r].token, refresh[r].seen)
  <2>1. /\ UNCHANGED <<now, access, signin>>
        /\ \/ Progress(r, "rotated", "none")
           \/ Progress(r, "done", v)
    BY <1>6 DEF RotateTx
  <2> HIDE DEF v
  <2>2. /\ \A x \in Refreshes \ {r} : refresh'[x] = refresh[x]
        /\ refresh'[r].seen = refresh[r].seen
    BY <2>1 DEF Progress
  <2>3. QED
    BY <1>6, <2>1, <2>2
<1>7. ASSUME NEW r \in Refreshes, LoadUser(r) PROVE Frame
  BY <1>7 DEF LoadUser, Progress, IssuedAt
<1>8. ASSUME NEW r \in Refreshes, RevokeBlocked(r) \/ RefreshFails(r) PROVE Frame
  BY <1>8 DEF RevokeBlocked, RefreshFails, Progress
<1>9. CASE UNCHANGED <<now, signin, refresh, access>>
  BY <1>9
<1>10. CASE Tick
  BY <1>10 DEF Tick
<1>11. QED
  BY <1>1, <1>2, <1>3, <1>4, <1>5, <1>6, <1>7, <1>8, <1>9, <1>10
  DEF Next, Deliver, Block, vars

LEMMA ReadStep == Inv /\ ReadEarlier /\ [Next]_vars => ReadEarlier'
<1> SUFFICES ASSUME Inv, ReadEarlier, Frame PROVE ReadEarlier'
  BY FrameStep
<1>1. now \in Nat /\ now' \in Nat /\ now <= now'
  BY DEF Inv, TypeOK, Frame
<1>2. /\ \A s \in SignIns : signin[s].seen \in Nat
      /\ \A r \in Refreshes : refresh[r].seen \in Nat
      /\ \A t \in Tokens : access[t] \in Int
  BY DEF Inv, TypeOK, SignIn, Refresh, Times, NoTime
<1>3. /\ \A s \in SignIns : signin'[s].seen <= now'
      /\ \A r \in Refreshes : refresh'[r].seen <= now'
  BY <1>1, <1>2 DEF Frame, ReadEarlier
<1>4. \A t \in Tokens : access'[t] <= now' + AccessTTL
  BY <1>1, <1>2, SessionsAssumption DEF Frame, ReadEarlier
<1>5. QED
  BY <1>3, <1>4 DEF ReadEarlier

\* A refresh is rotated by its own transaction, which found the session active.
LEMMA RotatedStep ==
    ASSUME Inv, Inv', AccessInv, [Next]_vars, NEW r \in Refreshes, refresh'[r].pc = "rotated"
    PROVE  LET s == tokens'[refresh'[r].token].session
           IN  /\ tokens'[r].session = s
               /\ endedAt'[s] # NoTime => refresh'[r].seen <= endedAt'[s]
<1>1. CASE RotateTx(r)
  <2> DEFINE t == refresh[r].token
             s == tokens[t].session
             at == refresh[r].seen
             v == Rotate(s, t, at)
  <2>1. /\ t \in Tokens /\ t # r /\ tokens[r] = None /\ s \in SignIns
        /\ v \in {"ok", "invalid", "reused"}
        /\ v = "ok" => ~ IsRevoked(s)
        /\ at \in Nat
    BY <1>1, RotateFacts
  <2>2. /\ tokens' = SavedTokens(s, t, r, v, at)
        /\ IF v = "ok" THEN Progress(r, "rotated", "none") ELSE Progress(r, "done", v)
        /\ endedAt' = [endedAt EXCEPT ![s] = IF v = "reused" THEN now ELSE @]
        /\ tokens[t].session = s /\ refresh[r].token = t
    BY <1>1 DEF RotateTx
  <2>3. NewRefreshToken(s, at).session = s /\ r \in Tokens
    BY <2>1, RowTypes DEF Tokens
  <2> HIDE DEF s, t, at, v
  <2>4. v = "ok"
    BY <2>2 DEF Progress, Inv, TypeOK
  <2>5. refresh'[r].token = t
    BY <2>2, <2>4 DEF Progress, Inv, TypeOK
  <2>6. tokens'[t].session = s /\ tokens'[r].session = s
    BY <2>1, <2>2, <2>3, <2>4 DEF SavedTokens
  <2>7. endedAt'[s] = NoTime
    BY <2>1, <2>2, <2>4 DEF AccessInv, EndedAreRevoked, Inv, TypeOK
  <2>8. QED
    BY <2>5, <2>6, <2>7
<1>2. CASE ~ RotateTx(r)
  <2>1. refresh'[r] = refresh[r]
    BY <1>2, FrameStep DEF Frame
  <2> DEFINE t == refresh[r].token
             s == tokens[t].session
  <2>2. t \in Tokens /\ tokens[t] # None /\ tokens[r] # None /\ r \in Tokens
    BY <2>1 DEF Inv, RefreshesFresh, Tokens
  <2>3. s \in SignIns
    BY <2>2 DEF Inv, TypeOK, RefreshToken
  <2>4. /\ tokens[r].session = s
        /\ endedAt[s] # NoTime => refresh[r].seen <= endedAt[s]
        /\ refresh[r].seen <= now
    BY <2>1 DEF AccessInv, RotatedInTime, ReadEarlier
  <2>5. tokens'[t].session = s /\ tokens'[r].session = s
    BY <2>2, <2>4, RowsStay
  <2> HIDE DEF s
  <2>6. endedAt'[s] \in {endedAt[s], now}
    BY <2>3, RowsStay
  <2>7. QED
    BY <2>1, <2>4, <2>5, <2>6
<1>3. QED
  BY <1>1, <1>2

\* An access token that is there when its session ends or its user is blocked
\* is dated by then; one that is issued later by what its refresh had read.
LEMMA AccessStep ==
    ASSUME Inv, Inv', AccessInv, [Next]_vars, NEW t \in Tokens, access'[t] # NoTime
    PROVE  LET s == tokens'[t].session
               u == sessions'[s].user
           IN  /\ endedAt'[s] # NoTime => access'[t] <= endedAt'[s] + AccessTTL
               /\ t \in Refreshes /\ blockedAt'[u] # NoTime =>
                     access'[t] <= blockedAt'[u] + AccessTTL
<1>0. AccessTTL \in Nat /\ now \in Nat
  BY SessionsAssumption DEF Inv, TypeOK
<1>1. CASE access'[t] = access[t]
  <2> DEFINE s == tokens[t].session
             u == sessions[s].user
  <2>1. tokens[t] # None /\ s \in SignIns /\ sessions[s] # None
    BY <1>1 DEF Inv, TypeOK, TokensBelong, RefreshToken
  <2>2. u \in Users
    BY <2>1 DEF Inv, TypeOK, Session
  <2>3. tokens'[t].session = s /\ sessions'[s].user = u
    BY <2>1, RowsStay
  <2>4. /\ endedAt[s] # NoTime => access[t] <= endedAt[s] + AccessTTL
        /\ t \in Refreshes /\ blockedAt[u] # NoTime => access[t] <= blockedAt[u] + AccessTTL
        /\ access[t] <= now + AccessTTL
    BY <1>1 DEF AccessInv, AccessEndsSoon, ReadEarlier, IsBlocked
  <2> HIDE DEF s, u
  <2>5. endedAt'[s] \in {endedAt[s], now}
    BY <2>1, RowsStay
  <2>6. blockedAt'[u] \in {blockedAt[u], now}
    BY <2>2 DEF Inv, TypeOK, Next, Verify, StartReadsClock, Start, StartFails, Deliver, Present,
       RotateTx, LoadUser, RevokeBlocked, RefreshFails, Logout, Block, Tick, vars
  <2>7. QED
    BY <1>1, <2>3, <2>4, <2>5, <2>6
<1>2. ASSUME NEW s \in SignIns, Start(s), access'[t] # access[t]
      PROVE  /\ t \notin Refreshes
             /\ endedAt'[tokens'[t].session] = NoTime
  <2>1. t = s /\ t \notin Refreshes
    BY <1>2, SessionsAssumption DEF Start, Inv, TypeOK
  <2>2. endedAt[s] = NoTime /\ signin[s].seen \in Nat
    BY <1>2 DEF Start, Inv, StartsFresh, TypeOK, SignIn, AccessInv, EndedAreRevoked
  <2>3. tokens'[s].session = s
    BY <1>2, <2>1, <2>2, RowTypes DEF Start, Inv, TypeOK
  <2>4. QED
    BY <1>2, <2>1, <2>2, <2>3 DEF Start
<1>3. ASSUME NEW r \in Refreshes, LoadUser(r), access'[t] # access[t]
      PROVE  LET s == tokens'[t].session
                 u == sessions'[s].user
             IN  /\ endedAt'[s] # NoTime => access'[t] <= endedAt'[s] + AccessTTL
                 /\ blockedAt'[u] = NoTime
  <2>1. /\ t = r /\ access'[t] = refresh[r].seen + AccessTTL
        /\ refresh[r].pc = "rotated" /\ refresh[r].seen \in Nat
        /\ ~ IsBlocked(sessions[tokens[refresh[r].token].session].user)
        /\ UNCHANGED <<blockedAt, sessions, tokens, endedAt>>
    BY <1>3 DEF LoadUser, IssuedAt, Inv, TypeOK, Refresh
  <2>2. /\ tokens[r].session = tokens[refresh[r].token].session
        /\ endedAt[tokens[r].session] # NoTime =>
              refresh[r].seen <= endedAt[tokens[r].session]
    BY <2>1 DEF AccessInv, RotatedInTime
  <2>3. tokens[r].session \in SignIns
    <3>1. r \in Tokens /\ tokens[r] # None
      BY <2>1 DEF Inv, RefreshesFresh, Tokens
    <3>2. QED
      BY <3>1 DEF Inv, TypeOK, RefreshToken
  <2>4. endedAt[tokens[r].session] \in Int
    BY <2>3 DEF Inv, TypeOK, Times, NoTime
  <2>5. QED
    BY <1>0, <2>1, <2>2, <2>4 DEF IsBlocked
<1>4. access'[t] # access[t] =>
         \/ \E s \in SignIns : Start(s)
         \/ \E r \in Refreshes : LoadUser(r)
  BY DEF Next, Verify, StartReadsClock, StartFails, Deliver, Present, RotateTx,
     RevokeBlocked, RefreshFails, Logout, Block, Tick, vars
<1>5. QED
  BY <1>1, <1>2, <1>3, <1>4

LEMMA SessionsStay ==
    ASSUME Inv, [Next]_vars, NEW s \in SignIns, sessions[s] # None
    PROVE  sessions'[s] # None
<1>1. ASSUME NEW x \in SignIns, Start(x) PROVE sessions'[s] = sessions[s]
  BY <1>1 DEF Start, Inv, StartsFresh, TypeOK
<1>2. ASSUME NEW x \in SignIns, Logout(x) PROVE sessions'[s] # None
  BY <1>2, RowTypes DEF Logout, Inv, TypeOK, Reasons
<1>3. ASSUME NEW r \in Refreshes, RevokeBlocked(r) PROVE sessions'[s] # None
  BY <1>3, RowTypes DEF RevokeBlocked, Inv, TypeOK, Reasons
<1>4. ASSUME NEW r \in Refreshes, RotateTx(r) PROVE sessions'[s] # None
  <2> DEFINE x == tokens[refresh[r].token].session
             saved == SavedSession(x, Rotate(x, refresh[r].token, refresh[r].seen),
                                   refresh[r].seen)
  <2>1. saved \in Session /\ sessions' = [sessions EXCEPT ![x] = saved]
    BY <1>4, RotateFacts DEF RotateTx
  <2> HIDE DEF x, saved
  <2>2. QED
    BY <2>1, RowTypes DEF Inv, TypeOK
<1>5. CASE UNCHANGED sessions
  BY <1>5
<1>6. QED
  BY <1>1, <1>2, <1>3, <1>4, <1>5
  DEF Next, Verify, StartReadsClock, StartFails, Deliver, Present, LoadUser,
      RefreshFails, Block, Tick, vars

LEMMA AccessInvStep == Inv /\ Inv' /\ AccessInv /\ [Next]_vars => AccessInv'
<1> SUFFICES ASSUME Inv, Inv', AccessInv, [Next]_vars PROVE AccessInv'
  OBVIOUS
<1>1. ReadEarlier'
  BY ReadStep DEF AccessInv
<1>2. EndedAreRevoked'
  <2> SUFFICES ASSUME NEW s \in SignIns, endedAt'[s] # NoTime
               PROVE  sessions'[s] # None /\ sessions'[s].reason # "active"
    BY DEF EndedAreRevoked, IsRevoked
  <2>1. sessions[s] # None /\ sessions'[s].reason # "active"
    BY RowsStay DEF AccessInv, EndedAreRevoked
  <2>2. sessions'[s] # None
    BY <2>1, SessionsStay
  <2>3. QED
    BY <2>1, <2>2
<1>3. RotatedInTime'
  BY RotatedStep DEF RotatedInTime
<1>4. AccessEndsSoon'
  BY AccessStep DEF AccessEndsSoon, IsBlocked
<1>5. QED
  BY <1>1, <1>2, <1>3, <1>4 DEF AccessInv

\* "After logout or blocking, an access token keeps working until it expires"
\* (ADR-0014), and no refresh in flight at that moment, however slow between its
\* reading the clock and LoadUser, comes by one that outlives AccessTTL after it.
THEOREM NoAccessLongAfter == Spec => []AccessEndsSoon
<1>1. AccessInv => AccessEndsSoon
  BY DEF AccessInv
<1>2. QED
  BY <1>1, InvInit, InvStep, AccessInit, AccessInvStep, PTL DEF Spec

-----------------------------------------------------------------------------
(***************************************************************************)
(* Refusals.                                                               *)
(***************************************************************************)
\* A request that has not been looked at has no answer.
SentUnanswered ==
    \A r \in Refreshes : refresh[r].pc \in {"idle", "sent"} => refresh[r].result = "none"

LEMMA SentStep == Inv /\ SentUnanswered /\ [Next]_vars => SentUnanswered'
<1> SUFFICES ASSUME Inv, SentUnanswered, [Next]_vars PROVE SentUnanswered'
  OBVIOUS
<1>1. ASSUME NEW r \in Refreshes, NEW t \in Tokens, Present(r, t) PROVE SentUnanswered'
  BY <1>1 DEF Present, SentUnanswered, Inv, TypeOK
<1>2. ASSUME NEW r \in Refreshes, NEW pc \in {"rotated", "refusing", "done"}, NEW v,
             Progress(r, pc, v)
      PROVE  SentUnanswered'
  BY <1>2 DEF Progress, SentUnanswered, Inv, TypeOK
<1>3. ASSUME NEW r \in Refreshes,
             RotateTx(r) \/ LoadUser(r) \/ RevokeBlocked(r) \/ RefreshFails(r)
      PROVE  \E pc \in {"rotated", "refusing", "done"} : \E v : Progress(r, pc, v)
  BY <1>3 DEF RotateTx, LoadUser, RevokeBlocked, RefreshFails
<1>4. CASE UNCHANGED refresh
  BY <1>4 DEF SentUnanswered
<1>5. QED
  BY <1>1, <1>2, <1>3, <1>4
  DEF Next, Verify, StartReadsClock, Start, StartFails, Deliver, Logout, Block, Tick, vars

LEMMA RefusalStep ==
    ASSUME Inv, SentUnanswered, [Next]_vars, NEW r \in Refreshes, refresh[r].pc = "sent",
           refresh'[r].result \in {"invalid", "reused"}
    PROVE  LET t == tokens[refresh[r].token]
           IN  \/ sessions'[t.session].reason # "active"
               \/ t.usedAt = NoTime /\ refresh[r].seen >= t.expiresAt
<1>2. RotateTx(r)
  BY FrameStep DEF Frame, SentUnanswered
<1> DEFINE t == refresh[r].token
           s == tokens[t].session
           at == refresh[r].seen
           v == Rotate(s, t, at)
           saved == SavedSession(s, v, at)
<1>3. /\ s \in SignIns /\ sessions[s] \in Session
      /\ v \in {"ok", "invalid", "reused"}
  BY <1>2, RotateFacts
<1>4. /\ sessions' = [sessions EXCEPT ![s] = saved]
      /\ IF v = "ok" THEN Progress(r, "rotated", "none") ELSE Progress(r, "done", v)
  BY <1>2 DEF RotateTx
<1> HIDE DEF t, s, at
<1>5. v = "invalid" => IsRevoked(s) \/ (tokens[t].usedAt = NoTime /\ at >= tokens[t].expiresAt)
  BY DEF v, Rotate
<1> HIDE DEF v
<1>6. v # "ok"
  BY <1>4 DEF Progress, Inv, TypeOK
<1>7. IsRevoked(s) \/ v = "reused" => saved.reason # "active"
  BY <1>3, SavedKeeps
<1> HIDE DEF saved
<1>8. sessions'[s] = saved
  BY <1>3, <1>4 DEF Inv, TypeOK
<1>9. QED
  BY <1>3, <1>5, <1>6, <1>7, <1>8 DEF s, t, at

\* Session.Rotate refuses only what is over: after "invalid" or "reused" the
\* session has ended, unless the token presented had expired unspent.
THEOREM RefusedMeansEnded == Spec => RefusalsEndTheSession
<1>1. Inv /\ SentUnanswered /\ [Next]_vars =>
        [\A r \in Refreshes :
            refresh[r].pc = "sent" /\ refresh'[r].result \in {"invalid", "reused"} =>
                LET t == tokens[refresh[r].token]
                IN  \/ sessions'[t.session].reason # "active"
                    \/ t.usedAt = NoTime /\ refresh[r].seen >= t.expiresAt]_vars
  BY RefusalStep
<1>2. Init => SentUnanswered
  BY DEF Init, SentUnanswered
<1>3. QED
  BY <1>1, <1>2, InvInit, InvStep, SentStep, PTL DEF Spec, RefusalsEndTheSession
=============================================================================
