--------------------------- MODULE SessionsProofs ---------------------------
EXTENDS Sessions, TLAPS

\* The initial state is well typed, and every step keeps it so.
LEMMA TypeInit == Init => TypeOK
  BY SessionsAssumption DEF SessionsAssumption, Init, TypeOK, NoSnap, TokenStates, RequestPCs, Snaps

\* The two ways the refresh_tokens table changes keep its type.
LEMMA InsertTypes ==
  ASSUME TypeOK, NEW t \in Tokens, NEW v \in Nat, NEW l \in Logins
  PROVE  LET table == Insert(refresh, t, v, l) IN
         /\ table \in [Tokens -> [state : TokenStates, version : Nat, login : Logins \cup {NoLogin}]]
         /\ \A s \in Tokens : table[s].state # "unused" => table[s].login \in Logins
  BY DEF TypeOK, Insert, TokenStates

LEMMA RevokedTypes ==
  ASSUME TypeOK, NEW kept
  PROVE  LET table == RevokedExcept(kept) IN
         /\ table \in [Tokens -> [state : TokenStates, version : Nat, login : Logins \cup {NoLogin}]]
         /\ \A t \in Tokens : table[t].state # "unused" => table[t].login \in Logins
  BY DEF TypeOK, RevokedExcept, TokenStates

\* Every step keeps the types, action by action.
LEMMA TypeStep == TypeOK /\ [Next]_vars => TypeOK'
<1> SUFFICES ASSUME TypeOK, [Next]_vars PROVE TypeOK'
  OBVIOUS
<1> USE SessionsAssumption DEF SessionsAssumption, TokenStates, RequestPCs, Snaps,
         NoSnap, userVars, tokenVars, requestVars, historyVars
<1>1. ASSUME NEW r \in Requests, NEW l \in Logins, LoginRead(r, l) PROVE TypeOK'
  BY <1>1 DEF TypeOK, LoginRead, Read
<1>2. ASSUME NEW r \in Requests, NEW t \in Tokens, LoginCreate(r, t) PROVE TypeOK'
  <2>1. rlogin[r] \in Logins /\ snap[r] \in Snaps /\ Finish(r)
    BY <1>2 DEF TypeOK, LoginCreate
  <2>2. CASE exists /\ active /\ version = snap[r].version
    <3>1. jwts' = jwts \cup {Jwt(r)} /\ Jwt(r) \in [login : Logins, version : Nat, hash : Nat]
      BY <1>2, <2>1, <2>2 DEF LoginCreate, Jwt
    <3>2. version \in Nat /\ refresh' = Insert(refresh, t, version, rlogin[r])
      BY <1>2, <2>2 DEF TypeOK, LoginCreate
    <3>3. /\ refresh' \in [Tokens -> [state : TokenStates, version : Nat, login : Logins \cup {NoLogin}]]
          /\ \A s \in Tokens : refresh'[s].state # "unused" => refresh'[s].login \in Logins
      BY <2>1, <3>2, InsertTypes
    <3> QED
      BY <1>2, <3>1, <3>3 DEF TypeOK, LoginCreate, Finish
  <2>3. CASE ~(exists /\ active /\ version = snap[r].version)
    BY <1>2, <2>3 DEF TypeOK, LoginCreate, Finish
  <2> QED
    BY <2>2, <2>3
<1>3. ASSUME NEW r \in Requests, NEW t \in Tokens, LoginLost(r, t) PROVE TypeOK'
  BY <1>3 DEF TypeOK, LoginLost, Insert, Finish
<1>4. ASSUME NEW r \in Requests, NEW t \in Tokens, RotateLock(r, t) PROVE TypeOK'
  BY <1>4 DEF TypeOK, RotateLock, Read, UserLocked
<1>5. ASSUME NEW r \in Requests, NEW n \in Tokens, RotateCommit(r, n) PROVE TypeOK'
  <2> DEFINE consumed == [refresh EXCEPT ![rtoken[r]].state = "revoked"]
  <2>1. /\ rtoken[r] \in Tokens
        /\ snap[r].version \in Nat
        /\ refresh[rtoken[r]].login \in Logins
    BY <1>5 DEF TypeOK, RotateCommit
  <2>2. /\ consumed \in [Tokens -> [state : TokenStates, version : Nat, login : Logins \cup {NoLogin}]]
        /\ \A s \in Tokens : consumed[s].state # "unused" => consumed[s].login \in Logins
    BY <1>5, <2>1 DEF TypeOK, RotateCommit
  <2>3. refresh' = Insert(consumed, n, snap[r].version, refresh[rtoken[r]].login)
    BY <1>5 DEF RotateCommit
  <2>4. /\ refresh' \in [Tokens -> [state : TokenStates, version : Nat, login : Logins \cup {NoLogin}]]
        /\ \A s \in Tokens : refresh'[s].state # "unused" => refresh'[s].login \in Logins
    BY <2>1, <2>2, <2>3 DEF Insert
  <2> QED
    BY <1>5, <2>4 DEF TypeOK, RotateCommit
<1>6. ASSUME NEW r \in Requests, RotateReject(r) PROVE TypeOK'
  BY <1>6 DEF TypeOK, RotateReject, Finish
<1>7. ASSUME NEW r \in Requests, RotateAnswer(r) PROVE TypeOK'
  BY <1>7 DEF TypeOK, RotateAnswer, Finish, Jwt
<1>8. ASSUME NEW r \in Requests, RotateLost(r) PROVE TypeOK'
  BY <1>8 DEF TypeOK, RotateLost, Finish
<1>9. ASSUME NEW r \in Requests, NEW j \in jwts, Authenticate(r, j) PROVE TypeOK'
  BY <1>9 DEF TypeOK, Authenticate, Read
<1>10. ASSUME NEW r \in Requests, Logout(r) PROVE TypeOK'
  BY <1>10, RevokedTypes DEF TypeOK, Logout, RevokedAll, Bar, Finish
<1>11. ASSUME NEW r \in Requests, PasswordRead(r) PROVE TypeOK'
  BY <1>11 DEF TypeOK, PasswordRead, Read
<1>12. ASSUME NEW r \in Requests, PasswordCommit(r) PROVE TypeOK'
  BY <1>12, RevokedTypes DEF TypeOK, PasswordCommit, RevokedAll, Bar, Finish
<1>13. ASSUME NEW r \in Requests, Dismiss(r) PROVE TypeOK'
  BY <1>13 DEF TypeOK, Dismiss, Finish
<1>14. ASSUME NEW r \in Requests, NEW k \in Keys, GenerateAPIKey(r, k) PROVE TypeOK'
  BY <1>14 DEF TypeOK, GenerateAPIKey, Finish
<1>15. ASSUME Suspend PROVE TypeOK'
  <2>1. /\ version' \in Nat
        /\ barred' \subseteq started' /\ started' \subseteq Logins
    <3>1. version \in Nat /\ version' = version + 1
      BY <1>15 DEF TypeOK, Suspend
    <3>2. barred' = started /\ started' = started /\ started \subseteq Logins
      BY <1>15 DEF TypeOK, Suspend, Bar
    <3> QED
      BY <3>1, <3>2
  <2>2. /\ refresh' \in [Tokens -> [state : TokenStates, version : Nat, login : Logins \cup {NoLogin}]]
        /\ \A s \in Tokens : refresh'[s].state # "unused" => refresh'[s].login \in Logins
    BY <1>15, RevokedTypes DEF Suspend, RevokedAll
  <2> QED
    BY <1>15, <2>1, <2>2 DEF TypeOK, Suspend
<1>16. ASSUME Reactivate PROVE TypeOK'
  BY <1>16 DEF TypeOK, Reactivate, UserLocked
<1>17. ASSUME RevokeAllForUser PROVE TypeOK'
  BY <1>17, RevokedTypes DEF TypeOK, RevokeAllForUser
<1>18. ASSUME DeleteUser PROVE TypeOK'
  <2>1. /\ exists' \in BOOLEAN /\ active' \in BOOLEAN /\ apiKey' \in Keys \cup {NoKey}
        /\ barred' \subseteq started' /\ started' \subseteq Logins
    BY <1>18 DEF TypeOK, DeleteUser, Bar
  <2>2. /\ refresh' \in [Tokens -> [state : TokenStates, version : Nat, login : Logins \cup {NoLogin}]]
        /\ \A s \in Tokens : refresh'[s].state # "unused" => refresh'[s].login \in Logins
    BY <1>18 DEF TypeOK, DeleteUser
  <2> QED
    BY <1>18, <2>1, <2>2 DEF TypeOK, DeleteUser
<1>19. ASSUME NEW t \in Tokens, ExpireToken(t) PROVE TypeOK'
  BY <1>19 DEF TypeOK, ExpireToken
<1>20. ASSUME NEW j \in jwts, ExpireJwt(j) PROVE TypeOK'
  BY <1>20 DEF TypeOK, ExpireJwt
<1>21. CASE UNCHANGED vars
  BY <1>21 DEF TypeOK, vars
<1> QED
  BY <1>1, <1>2, <1>3, <1>4, <1>5, <1>6, <1>7, <1>8, <1>9, <1>10, <1>11, <1>12, <1>13, <1>14,
     <1>15, <1>16, <1>17, <1>18, <1>19, <1>20, <1>21
     DEF Next, RequestStep, AdminStep, TimeStep

\* Every live refresh token carries the current version and belongs to a session
\* no revocation has found.
LEMMA TokenStep == TypeOK /\ TokenInv /\ CredentialInv /\ RotateInv /\ [Next]_vars => TokenInv'
<1> SUFFICES ASSUME TypeOK, TokenInv, CredentialInv, RotateInv, [Next]_vars PROVE TokenInv'
  OBVIOUS
<1> USE SessionsAssumption DEF SessionsAssumption, TokenStates, RequestPCs, Snaps,
         userVars, tokenVars, requestVars, historyVars
<1>1. ASSUME NEW r \in Requests, NEW l \in Logins, LoginRead(r, l) PROVE TokenInv'
  BY <1>1 DEF TypeOK, TokenInv, CredentialInv, RotateInv, Current, LoginRead, Read
<1>2. ASSUME NEW r \in Requests, NEW t \in Tokens, LoginCreate(r, t) PROVE TokenInv'
  <2>1. CASE exists /\ active /\ version = snap[r].version
    <3>1. rlogin[r] \in started /\ rlogin[r] \notin barred
      BY <1>2, <2>1 DEF TypeOK, CredentialInv, Current, LoginCreate
    <3>2. /\ refresh' = [refresh EXCEPT ![t] = [state |-> "live", version |-> version, login |-> rlogin[r]]]
          /\ UNCHANGED <<exists, active, version, started, barred>>
      BY <1>2, <2>1 DEF LoginCreate, Insert
    <3> QED
      BY <2>1, <3>1, <3>2 DEF TypeOK, TokenInv
  <2>2. CASE ~(exists /\ active /\ version = snap[r].version)
    BY <1>2, <2>2 DEF TokenInv, LoginCreate
  <2> QED
    BY <2>1, <2>2
<1>3. ASSUME NEW r \in Requests, NEW t \in Tokens, LoginLost(r, t) PROVE TokenInv'
  BY <1>3 DEF TypeOK, TokenInv, CredentialInv, RotateInv, Current, LoginLost, Insert, Finish
<1>4. ASSUME NEW r \in Requests, NEW t \in Tokens, RotateLock(r, t) PROVE TokenInv'
  BY <1>4 DEF TypeOK, TokenInv, CredentialInv, RotateInv, Current, RotateLock, Read, UserLocked
<1>5. ASSUME NEW r \in Requests, NEW n \in Tokens, RotateCommit(r, n) PROVE TokenInv'
  BY <1>5 DEF TypeOK, TokenInv, CredentialInv, RotateInv, Current, RotateCommit, Insert
<1>6. ASSUME NEW r \in Requests, RotateReject(r) PROVE TokenInv'
  BY <1>6 DEF TypeOK, TokenInv, CredentialInv, RotateInv, Current, RotateReject, Finish
<1>7. ASSUME NEW r \in Requests, RotateAnswer(r) PROVE TokenInv'
  BY <1>7 DEF TypeOK, TokenInv, CredentialInv, RotateInv, Current, RotateAnswer, Finish, Jwt
<1>8. ASSUME NEW r \in Requests, RotateLost(r) PROVE TokenInv'
  BY <1>8 DEF TypeOK, TokenInv, CredentialInv, RotateInv, Current, RotateLost, Finish
<1>9. ASSUME NEW r \in Requests, NEW j \in jwts, Authenticate(r, j) PROVE TokenInv'
  BY <1>9 DEF TypeOK, TokenInv, CredentialInv, RotateInv, Current, Authenticate, Read
<1>10. ASSUME NEW r \in Requests, Logout(r) PROVE TokenInv'
  BY <1>10
     DEF TypeOK, TokenInv, CredentialInv, RotateInv, Current, Logout, RevokedAll, RevokedExcept,
         Bar, Finish, UserLocked
<1>11. ASSUME NEW r \in Requests, PasswordRead(r) PROVE TokenInv'
  BY <1>11 DEF TypeOK, TokenInv, CredentialInv, RotateInv, Current, PasswordRead, Read
<1>12. ASSUME NEW r \in Requests, PasswordCommit(r) PROVE TokenInv'
  BY <1>12
     DEF TypeOK, TokenInv, CredentialInv, RotateInv, Current, PasswordCommit, RevokedAll,
         RevokedExcept, Bar, Finish, UserLocked
<1>13. ASSUME NEW r \in Requests, Dismiss(r) PROVE TokenInv'
  BY <1>13 DEF TypeOK, TokenInv, CredentialInv, RotateInv, Current, Dismiss, Finish
<1>14. ASSUME NEW r \in Requests, NEW k \in Keys, GenerateAPIKey(r, k) PROVE TokenInv'
  BY <1>14 DEF TypeOK, TokenInv, CredentialInv, RotateInv, Current, GenerateAPIKey, Finish
<1>15. ASSUME Suspend PROVE TokenInv'
  BY <1>15
     DEF TypeOK, TokenInv, CredentialInv, RotateInv, Current, Suspend, RevokedAll, RevokedExcept,
         Bar, UserLocked
<1>16. ASSUME Reactivate PROVE TokenInv'
  BY <1>16 DEF TypeOK, TokenInv, CredentialInv, RotateInv, Current, Reactivate, UserLocked
<1>17. ASSUME RevokeAllForUser PROVE TokenInv'
  BY <1>17 DEF TypeOK, TokenInv, CredentialInv, RotateInv, Current, RevokeAllForUser, RevokedExcept
<1>18. ASSUME DeleteUser PROVE TokenInv'
  BY <1>18 DEF TypeOK, TokenInv, CredentialInv, RotateInv, Current, DeleteUser, Bar, UserLocked
<1>19. ASSUME NEW t \in Tokens, ExpireToken(t) PROVE TokenInv'
  BY <1>19 DEF TypeOK, TokenInv, CredentialInv, RotateInv, Current, ExpireToken
<1>20. ASSUME NEW j \in jwts, ExpireJwt(j) PROVE TokenInv'
  BY <1>20 DEF TypeOK, TokenInv, CredentialInv, RotateInv, Current, ExpireJwt
<1>21. CASE UNCHANGED vars
  BY <1>21 DEF TypeOK, TokenInv, CredentialInv, RotateInv, Current, vars
<1> QED
  BY <1>1, <1>2, <1>3, <1>4, <1>5, <1>6, <1>7, <1>8, <1>9, <1>10, <1>11, <1>12, <1>13, <1>14,
     <1>15, <1>16, <1>17, <1>18, <1>19, <1>20, <1>21
     DEF Next, RequestStep, AdminStep, TimeStep

\* What clients hold, and what requests are about to hand out, is stale as soon
\* as a revocation has found its session.
LEMMA CredentialStep ==
  TypeOK /\ TokenInv /\ CredentialInv /\ RotateInv /\ [Next]_vars => CredentialInv'
<1> SUFFICES ASSUME TypeOK, TokenInv, CredentialInv, RotateInv, [Next]_vars PROVE CredentialInv'
  OBVIOUS
<1> USE SessionsAssumption DEF SessionsAssumption, TokenStates, RequestPCs, Snaps,
         NoSnap, userVars, tokenVars, requestVars, historyVars
<1>1. ASSUME NEW r \in Requests, NEW l \in Logins, LoginRead(r, l) PROVE CredentialInv'
  BY <1>1 DEF TypeOK, TokenInv, CredentialInv, RotateInv, Current, LoginRead, Read
<1>2. ASSUME NEW r \in Requests, NEW t \in Tokens, LoginCreate(r, t) PROVE CredentialInv'
  BY <1>2 DEF TypeOK, TokenInv, CredentialInv, RotateInv, Current, LoginCreate, Insert, Finish, Jwt
<1>3. ASSUME NEW r \in Requests, NEW t \in Tokens, LoginLost(r, t) PROVE CredentialInv'
  BY <1>3 DEF TypeOK, TokenInv, CredentialInv, RotateInv, Current, LoginLost, Insert, Finish
<1>4. ASSUME NEW r \in Requests, NEW t \in Tokens, RotateLock(r, t) PROVE CredentialInv'
  BY <1>4 DEF TypeOK, TokenInv, CredentialInv, RotateInv, Current, RotateLock, Read, UserLocked
<1>5. ASSUME NEW r \in Requests, NEW n \in Tokens, RotateCommit(r, n) PROVE CredentialInv'
  BY <1>5 DEF TypeOK, TokenInv, CredentialInv, RotateInv, Current, RotateCommit, Insert
<1>6. ASSUME NEW r \in Requests, RotateReject(r) PROVE CredentialInv'
  BY <1>6 DEF TypeOK, TokenInv, CredentialInv, RotateInv, Current, RotateReject, Finish
<1>7. ASSUME NEW r \in Requests, RotateAnswer(r) PROVE CredentialInv'
  BY <1>7 DEF TypeOK, TokenInv, CredentialInv, RotateInv, Current, RotateAnswer, Finish, Jwt
<1>8. ASSUME NEW r \in Requests, RotateLost(r) PROVE CredentialInv'
  BY <1>8 DEF TypeOK, TokenInv, CredentialInv, RotateInv, Current, RotateLost, Finish
<1>9. ASSUME NEW r \in Requests, NEW j \in jwts, Authenticate(r, j) PROVE CredentialInv'
  BY <1>9 DEF TypeOK, TokenInv, CredentialInv, RotateInv, Current, Authenticate, Read
<1>10. ASSUME NEW r \in Requests, Logout(r) PROVE CredentialInv'
  BY <1>10
     DEF TypeOK, TokenInv, CredentialInv, RotateInv, Current, Logout, RevokedAll, RevokedExcept,
         Bar, Finish, UserLocked
<1>11. ASSUME NEW r \in Requests, PasswordRead(r) PROVE CredentialInv'
  BY <1>11 DEF TypeOK, TokenInv, CredentialInv, RotateInv, Current, PasswordRead, Read
<1>12. ASSUME NEW r \in Requests, PasswordCommit(r) PROVE CredentialInv'
  BY <1>12
     DEF TypeOK, TokenInv, CredentialInv, RotateInv, Current, PasswordCommit, RevokedAll,
         RevokedExcept, Bar, Finish, UserLocked
<1>13. ASSUME NEW r \in Requests, Dismiss(r) PROVE CredentialInv'
  BY <1>13 DEF TypeOK, TokenInv, CredentialInv, RotateInv, Current, Dismiss, Finish
<1>14. ASSUME NEW r \in Requests, NEW k \in Keys, GenerateAPIKey(r, k) PROVE CredentialInv'
  BY <1>14 DEF TypeOK, TokenInv, CredentialInv, RotateInv, Current, GenerateAPIKey, Finish
<1>15. ASSUME Suspend PROVE CredentialInv'
  BY <1>15
     DEF TypeOK, TokenInv, CredentialInv, RotateInv, Current, Suspend, RevokedAll, RevokedExcept,
         Bar, UserLocked
<1>16. ASSUME Reactivate PROVE CredentialInv'
  BY <1>16 DEF TypeOK, TokenInv, CredentialInv, RotateInv, Current, Reactivate, UserLocked
<1>17. ASSUME RevokeAllForUser PROVE CredentialInv'
  BY <1>17 DEF TypeOK, TokenInv, CredentialInv, RotateInv, Current, RevokeAllForUser, RevokedExcept
<1>18. ASSUME DeleteUser PROVE CredentialInv'
  BY <1>18 DEF TypeOK, TokenInv, CredentialInv, RotateInv, Current, DeleteUser, Bar, UserLocked
<1>19. ASSUME NEW t \in Tokens, ExpireToken(t) PROVE CredentialInv'
  BY <1>19 DEF TypeOK, TokenInv, CredentialInv, RotateInv, Current, ExpireToken
<1>20. ASSUME NEW j \in jwts, ExpireJwt(j) PROVE CredentialInv'
  BY <1>20 DEF TypeOK, TokenInv, CredentialInv, RotateInv, Current, ExpireJwt
<1>21. CASE UNCHANGED vars
  BY <1>21 DEF TypeOK, TokenInv, CredentialInv, RotateInv, Current, vars
<1> QED
  BY <1>1, <1>2, <1>3, <1>4, <1>5, <1>6, <1>7, <1>8, <1>9, <1>10, <1>11, <1>12, <1>13, <1>14,
     <1>15, <1>16, <1>17, <1>18, <1>19, <1>20, <1>21
     DEF Next, RequestStep, AdminStep, TimeStep

\* The users row does not change under a rotation, nor does a second one begin.
LEMMA RotateStep == TypeOK /\ RotateInv /\ [Next]_vars => RotateInv'
<1> SUFFICES ASSUME TypeOK, RotateInv, [Next]_vars PROVE RotateInv'
  OBVIOUS
<1> USE SessionsAssumption DEF SessionsAssumption, TokenStates, RequestPCs, Snaps,
         NoSnap, userVars, tokenVars, requestVars, historyVars
<1>1. ASSUME NEW r \in Requests, NEW l \in Logins, LoginRead(r, l) PROVE RotateInv'
  BY <1>1 DEF TypeOK, RotateInv, UserLocked, LoginRead, Read
<1>2. ASSUME NEW r \in Requests, NEW t \in Tokens, LoginCreate(r, t) PROVE RotateInv'
  BY <1>2 DEF TypeOK, RotateInv, UserLocked, LoginCreate, Insert, Finish, Jwt
<1>3. ASSUME NEW r \in Requests, NEW t \in Tokens, LoginLost(r, t) PROVE RotateInv'
  BY <1>3 DEF TypeOK, RotateInv, UserLocked, LoginLost, Insert, Finish
<1>4. ASSUME NEW r \in Requests, NEW t \in Tokens, RotateLock(r, t) PROVE RotateInv'
  BY <1>4 DEF TypeOK, RotateInv, UserLocked, RotateLock, Read, UserLocked
<1>5. ASSUME NEW r \in Requests, NEW n \in Tokens, RotateCommit(r, n) PROVE RotateInv'
  BY <1>5 DEF TypeOK, RotateInv, UserLocked, RotateCommit, Insert
<1>6. ASSUME NEW r \in Requests, RotateReject(r) PROVE RotateInv'
  BY <1>6 DEF TypeOK, RotateInv, UserLocked, RotateReject, Finish
<1>7. ASSUME NEW r \in Requests, RotateAnswer(r) PROVE RotateInv'
  BY <1>7 DEF TypeOK, RotateInv, UserLocked, RotateAnswer, Finish, Jwt
<1>8. ASSUME NEW r \in Requests, RotateLost(r) PROVE RotateInv'
  BY <1>8 DEF TypeOK, RotateInv, UserLocked, RotateLost, Finish
<1>9. ASSUME NEW r \in Requests, NEW j \in jwts, Authenticate(r, j) PROVE RotateInv'
  BY <1>9 DEF TypeOK, RotateInv, UserLocked, Authenticate, Read
<1>10. ASSUME NEW r \in Requests, Logout(r) PROVE RotateInv'
  BY <1>10
     DEF TypeOK, RotateInv, UserLocked, Logout, RevokedAll, RevokedExcept, Bar, Finish, UserLocked
<1>11. ASSUME NEW r \in Requests, PasswordRead(r) PROVE RotateInv'
  BY <1>11 DEF TypeOK, RotateInv, UserLocked, PasswordRead, Read
<1>12. ASSUME NEW r \in Requests, PasswordCommit(r) PROVE RotateInv'
  BY <1>12
     DEF TypeOK, RotateInv, UserLocked, PasswordCommit, RevokedAll, RevokedExcept, Bar, Finish,
         UserLocked
<1>13. ASSUME NEW r \in Requests, Dismiss(r) PROVE RotateInv'
  BY <1>13 DEF TypeOK, RotateInv, UserLocked, Dismiss, Finish
<1>14. ASSUME NEW r \in Requests, NEW k \in Keys, GenerateAPIKey(r, k) PROVE RotateInv'
  BY <1>14 DEF TypeOK, RotateInv, UserLocked, GenerateAPIKey, Finish
<1>15. ASSUME Suspend PROVE RotateInv'
  BY <1>15 DEF TypeOK, RotateInv, UserLocked, Suspend, RevokedAll, RevokedExcept, Bar, UserLocked
<1>16. ASSUME Reactivate PROVE RotateInv'
  BY <1>16 DEF TypeOK, RotateInv, UserLocked, Reactivate, UserLocked
<1>17. ASSUME RevokeAllForUser PROVE RotateInv'
  BY <1>17 DEF TypeOK, RotateInv, UserLocked, RevokeAllForUser, RevokedExcept
<1>18. ASSUME DeleteUser PROVE RotateInv'
  BY <1>18 DEF TypeOK, RotateInv, UserLocked, DeleteUser, Bar, UserLocked
<1>19. ASSUME NEW t \in Tokens, ExpireToken(t) PROVE RotateInv'
  BY <1>19 DEF TypeOK, RotateInv, UserLocked, ExpireToken
<1>20. ASSUME NEW j \in jwts, ExpireJwt(j) PROVE RotateInv'
  BY <1>20 DEF TypeOK, RotateInv, UserLocked, ExpireJwt
<1>21. CASE UNCHANGED vars
  BY <1>21 DEF TypeOK, RotateInv, UserLocked, vars
<1> QED
  BY <1>1, <1>2, <1>3, <1>4, <1>5, <1>6, <1>7, <1>8, <1>9, <1>10, <1>11, <1>12, <1>13, <1>14,
     <1>15, <1>16, <1>17, <1>18, <1>19, <1>20, <1>21
     DEF Next, RequestStep, AdminStep, TimeStep

\* A login gets one refresh token, and a rotation replaces it.
LEMMA LineageStep ==
  TypeOK /\ TokenInv /\ CredentialInv /\ RotateInv /\ LineageInv /\ [Next]_vars => LineageInv'
<1> SUFFICES ASSUME TypeOK, TokenInv, CredentialInv, RotateInv, LineageInv, [Next]_vars
             PROVE  LineageInv'
  OBVIOUS
<1> USE SessionsAssumption DEF SessionsAssumption, TokenStates, RequestPCs, Snaps,
         NoSnap, userVars, tokenVars, requestVars, historyVars
<1>1. ASSUME NEW r \in Requests, NEW l \in Logins, LoginRead(r, l) PROVE LineageInv'
  BY <1>1 DEF TypeOK, TokenInv, CredentialInv, RotateInv, LineageInv, LoginRead, Read
<1>2. ASSUME NEW r \in Requests, NEW t \in Tokens, LoginCreate(r, t) PROVE LineageInv'
  <2> DEFINE NewLive ==
         refresh' = [refresh EXCEPT ![t] = [state |-> "live", version |-> version, login |-> rlogin[r]]]
  <2>1. NewLive \/ UNCHANGED refresh
    BY <1>2 DEF LoginCreate, Insert
  <2>2. /\ pc[r] = "login"
        /\ \A q \in Requests : pc'[q] \in {"login", "answer"} =>
             q # r /\ pc'[q] = pc[q] /\ rlogin'[q] = rlogin[q]
        /\ \A j \in jwts' : j \in jwts \/ j.login = rlogin[r]
    BY <1>2 DEF TypeOK, LoginCreate, Finish, Jwt
  <2>3. \A s \in Tokens :
          \/ refresh'[s] = refresh[s]
          \/ s = t /\ refresh'[s].login = rlogin[r]
    <3>1. DOMAIN refresh = Tokens
      BY DEF TypeOK
    <3> QED
      BY <2>1, <3>1
  <2>4. ASSUME NEW q \in Requests, pc'[q] = "login"
        PROVE  /\ \A s \in Tokens : refresh'[s].state # "unused" => refresh'[s].login # rlogin'[q]
               /\ \A j \in jwts' : j.login # rlogin'[q]
               /\ \A p \in Requests : p # q /\ pc'[p] \in {"login", "answer"} => rlogin'[p] # rlogin'[q]
    <3>1. q # r /\ pc[q] = "login" /\ rlogin'[q] = rlogin[q] /\ rlogin[r] # rlogin[q]
      BY <2>2, <2>4 DEF LineageInv
    <3> QED
      BY <2>2, <2>3, <3>1 DEF LineageInv
  <2>5. ASSUME NEW p \in Tokens, NEW s \in Tokens,
               refresh'[p].state = "live", refresh'[s].state = "live",
               refresh'[p].login = refresh'[s].login
        PROVE  p = s
    BY <2>2, <2>3, <2>5 DEF LineageInv
  <2> QED
    BY <2>4, <2>5 DEF LineageInv
<1>3. ASSUME NEW r \in Requests, NEW t \in Tokens, LoginLost(r, t) PROVE LineageInv'
  BY <1>3 DEF TypeOK, TokenInv, CredentialInv, RotateInv, LineageInv, LoginLost, Insert, Finish
<1>4. ASSUME NEW r \in Requests, NEW t \in Tokens, RotateLock(r, t) PROVE LineageInv'
  BY <1>4 DEF TypeOK, TokenInv, CredentialInv, RotateInv, LineageInv, RotateLock, Read, UserLocked
<1>5. ASSUME NEW r \in Requests, NEW n \in Tokens, RotateCommit(r, n) PROVE LineageInv'
  <2> DEFINE k == rtoken[r]
  <2>1. /\ k \in Tokens /\ refresh[k].state = "live" /\ refresh[n].state = "unused"
        /\ UNCHANGED <<rlogin, jwts>> /\ rlogin[r] = refresh[k].login
        /\ pc' = [pc EXCEPT ![r] = "answer"]
    BY <1>5 DEF TypeOK, RotateInv, RotateCommit
  <2>2. \A s \in Tokens :
          /\ s \notin {k, n} => refresh'[s] = refresh[s]
          /\ refresh'[k].state = "revoked" /\ refresh'[k].login = refresh[k].login
          /\ refresh'[n].state = "live" /\ refresh'[n].login = refresh[k].login
    BY <1>5, <2>1 DEF TypeOK, RotateCommit, Insert
  <2>3. ASSUME NEW q \in Requests, pc'[q] = "login"
        PROVE  /\ \A s \in Tokens : refresh'[s].state # "unused" => refresh'[s].login # rlogin'[q]
               /\ \A j \in jwts' : j.login # rlogin'[q]
               /\ \A p \in Requests : p # q /\ pc'[p] \in {"login", "answer"} => rlogin'[p] # rlogin'[q]
    <3>1. q # r /\ pc[q] = "login" /\ rlogin'[q] = rlogin[q]
      BY <2>1, <2>3 DEF TypeOK
    <3>2. refresh[k].login # rlogin[q]
      BY <2>1, <3>1 DEF LineageInv
    <3>3. \A p \in Requests : p # q /\ pc'[p] \in {"login", "answer"} => rlogin'[p] # rlogin'[q]
      BY <2>1, <3>1, <3>2 DEF TypeOK, LineageInv
    <3>4. \A s \in Tokens : refresh'[s].state # "unused" => refresh'[s].login # rlogin'[q]
      BY <2>2, <3>1, <3>2 DEF LineageInv
    <3>5. \A j \in jwts' : j.login # rlogin'[q]
      BY <2>1, <3>1 DEF LineageInv
    <3> QED
      BY <3>3, <3>4, <3>5
  <2>4. ASSUME NEW p \in Tokens, NEW s \in Tokens,
               refresh'[p].state = "live", refresh'[s].state = "live",
               refresh'[p].login = refresh'[s].login
        PROVE  p = s
    BY <2>1, <2>2, <2>4 DEF TypeOK, LineageInv
  <2> QED
    BY <2>3, <2>4 DEF LineageInv
<1>6. ASSUME NEW r \in Requests, RotateReject(r) PROVE LineageInv'
  BY <1>6 DEF TypeOK, TokenInv, CredentialInv, RotateInv, LineageInv, RotateReject, Finish
<1>7. ASSUME NEW r \in Requests, RotateAnswer(r) PROVE LineageInv'
  BY <1>7 DEF TypeOK, TokenInv, CredentialInv, RotateInv, LineageInv, RotateAnswer, Finish, Jwt
<1>8. ASSUME NEW r \in Requests, RotateLost(r) PROVE LineageInv'
  BY <1>8 DEF TypeOK, TokenInv, CredentialInv, RotateInv, LineageInv, RotateLost, Finish
<1>9. ASSUME NEW r \in Requests, NEW j \in jwts, Authenticate(r, j) PROVE LineageInv'
  BY <1>9 DEF TypeOK, TokenInv, CredentialInv, RotateInv, LineageInv, Authenticate, Read
<1>10. ASSUME NEW r \in Requests, Logout(r) PROVE LineageInv'
  BY <1>10
     DEF TypeOK, TokenInv, CredentialInv, RotateInv, LineageInv, Logout, RevokedAll,
         RevokedExcept, Bar, Finish, UserLocked
<1>11. ASSUME NEW r \in Requests, PasswordRead(r) PROVE LineageInv'
  BY <1>11 DEF TypeOK, TokenInv, CredentialInv, RotateInv, LineageInv, PasswordRead, Read
<1>12. ASSUME NEW r \in Requests, PasswordCommit(r) PROVE LineageInv'
  BY <1>12
     DEF TypeOK, TokenInv, CredentialInv, RotateInv, LineageInv, PasswordCommit, RevokedAll,
         RevokedExcept, Bar, Finish, UserLocked
<1>13. ASSUME NEW r \in Requests, Dismiss(r) PROVE LineageInv'
  BY <1>13 DEF TypeOK, TokenInv, CredentialInv, RotateInv, LineageInv, Dismiss, Finish
<1>14. ASSUME NEW r \in Requests, NEW k \in Keys, GenerateAPIKey(r, k) PROVE LineageInv'
  BY <1>14 DEF TypeOK, TokenInv, CredentialInv, RotateInv, LineageInv, GenerateAPIKey, Finish
<1>15. ASSUME Suspend PROVE LineageInv'
  BY <1>15
     DEF TypeOK, TokenInv, CredentialInv, RotateInv, LineageInv, Suspend, RevokedAll,
         RevokedExcept, Bar, UserLocked
<1>16. ASSUME Reactivate PROVE LineageInv'
  BY <1>16 DEF TypeOK, TokenInv, CredentialInv, RotateInv, LineageInv, Reactivate, UserLocked
<1>17. ASSUME RevokeAllForUser PROVE LineageInv'
  BY <1>17
     DEF TypeOK, TokenInv, CredentialInv, RotateInv, LineageInv, RevokeAllForUser, RevokedExcept
<1>18. ASSUME DeleteUser PROVE LineageInv'
  BY <1>18 DEF TypeOK, TokenInv, CredentialInv, RotateInv, LineageInv, DeleteUser, Bar, UserLocked
<1>19. ASSUME NEW t \in Tokens, ExpireToken(t) PROVE LineageInv'
  BY <1>19 DEF TypeOK, TokenInv, CredentialInv, RotateInv, LineageInv, ExpireToken
<1>20. ASSUME NEW j \in jwts, ExpireJwt(j) PROVE LineageInv'
  BY <1>20 DEF TypeOK, TokenInv, CredentialInv, RotateInv, LineageInv, ExpireJwt
<1>21. CASE UNCHANGED vars
  BY <1>21 DEF TypeOK, TokenInv, CredentialInv, RotateInv, LineageInv, vars
<1> QED
  BY <1>1, <1>2, <1>3, <1>4, <1>5, <1>6, <1>7, <1>8, <1>9, <1>10, <1>11, <1>12, <1>13, <1>14,
     <1>15, <1>16, <1>17, <1>18, <1>19, <1>20, <1>21
     DEF Next, RequestStep, AdminStep, TimeStep

-----------------------------------------------------------------------------
(* The refinement of SessionPromise *)

\* A session that counts as valid was begun, is not pending, and no revocation
\* has found it.
LEMMA ValidBegun ==
  IndInv => \A l \in Logins : Valid(l) => l \in started /\ l \notin barred /\ ~Pending(l)
<1> SUFFICES ASSUME IndInv, NEW l \in Logins, Valid(l)
             PROVE  l \in started /\ l \notin barred /\ ~Pending(l)
  OBVIOUS
<1> USE DEF IndInv
<1>1. CASE \E t \in Tokens : exists /\ active /\ Usable(t) /\ refresh[t].login = l
  BY <1>1 DEF TokenInv, LineageInv, Usable, Pending
<1>2. CASE \E j \in jwts : Accepts(j) /\ j.login = l
  BY <1>2 DEF CredentialInv, Current, LineageInv, Accepts, Pending
<1>3. CASE \E r \in Requests : pc[r] = "answer" /\ rlogin[r] = l /\ Accepts(Jwt(r))
  <2> PICK r \in Requests : pc[r] = "answer" /\ rlogin[r] = l /\ Accepts(Jwt(r))
    BY <1>3
  <2>1. snap[r].version = version /\ exists
    BY DEF Accepts, Jwt
  <2>2. l \in started /\ l \notin barred
    BY <2>1 DEF CredentialInv, Current
  <2>3. ~Pending(l)
    BY DEF LineageInv, Pending
  <2> QED
    BY <2>2, <2>3
<1> QED
  BY <1>1, <1>2, <1>3 DEF Valid

\* A step that makes no session valid ends some or changes nothing.
LEMMA OnlyEnds ==
  ASSUME IndInv, IndInv',
         started \subseteq started', barred \subseteq barred',
         \A l \in Logins : Valid(l)' => Valid(l),
         \A l \in started : Pending(l)' => Pending(l)
  PROVE  Promise!Next
<1> DEFINE S == EndedLogins' \ EndedLogins
<1>0. \A l \in Logins : Valid(l)' => l \notin barred'
  <2>1. (\A l \in Logins : Valid(l) => l \in started /\ l \notin barred /\ ~Pending(l))'
    BY ValidBegun, PTL
  <2> QED
    BY <2>1
<1>1. started' \subseteq Logins /\ started \subseteq Logins
  BY DEF IndInv, TypeOK
<1>2. EndedLogins \subseteq EndedLogins'
  BY <1>1 DEF EndedLogins
<1>3. \A l \in Logins : Valid(l)' => l \notin EndedLogins'
  <2> SUFFICES ASSUME NEW l \in Logins, Valid(l)' PROVE l \notin EndedLogins'
    OBVIOUS
  <2>1. l \notin barred'
    BY <1>0
  <2> QED
    BY <2>1 DEF EndedLogins
<1>4. \A l \in Logins : Valid(l) /\ ~Valid(l)' => l \in EndedLogins'
  BY ValidBegun DEF EndedLogins
<1>5. \A l \in Logins : Valid(l) => l \notin EndedLogins
  BY ValidBegun DEF EndedLogins
<1>6. ValidLogins' = ValidLogins \ S
  BY <1>3, <1>4, <1>5 DEF ValidLogins
<1>7. S \in SUBSET (Logins \ EndedLogins) /\ EndedLogins' = EndedLogins \cup S
  BY <1>1, <1>2 DEF EndedLogins
<1> QED
  BY <1>6, <1>7 DEF Promise!Next, Promise!End

\* A login whose refresh token is inserted begins its session.
LEMMA LoginBegins ==
  ASSUME IndInv, NEW r \in Requests, NEW t \in Tokens,
         pc[r] = "login", refresh[t].state = "unused",
         exists, active, version = snap[r].version,
         refresh' = Insert(refresh, t, version, rlogin[r]),
         jwts' \in {jwts, jwts \cup {Jwt(r)}},
         Finish(r),
         UNCHANGED <<exists, active, version, hash, started, barred>>
  PROVE  Promise!Next
<1> PICK l \in Logins : l = rlogin[r]
  BY DEF IndInv, TypeOK
<1>1. l \in started /\ l \notin barred /\ Pending(l) /\ ~Valid(l)
  <2>1. l \in started /\ l \notin barred
    BY DEF IndInv, CredentialInv, Current
  <2>2. Pending(l)
    BY DEF Pending
  <2> QED
    BY <2>1, <2>2, ValidBegun
<1>2. \A q \in Requests :
        /\ pc'[q] = (IF q = r THEN "idle" ELSE pc[q])
        /\ q # r => rlogin'[q] = rlogin[q] /\ snap'[q] = snap[q]
  BY DEF IndInv, TypeOK, Finish
<1>3. \A s \in Tokens :
        refresh'[s] = (IF s = t THEN [state |-> "live", version |-> version, login |-> l]
                       ELSE refresh[s])
  BY DEF IndInv, TypeOK, Insert
<1>4. Valid(l)'
  <2>1. refresh'[t].state = "live" /\ refresh'[t].version = version' /\ refresh'[t].login = l
    BY <1>3
  <2> QED
    BY <2>1 DEF Valid, Usable
<1>5. \A k \in Logins : k # l => (Valid(k)' <=> Valid(k)) /\ (Pending(k)' <=> Pending(k))
  <2> SUFFICES ASSUME NEW k \in Logins, k # l
               PROVE  (Valid(k)' <=> Valid(k)) /\ (Pending(k)' <=> Pending(k))
    OBVIOUS
  <2>1. (\E s \in Tokens : exists /\ active /\ Usable(s) /\ refresh[s].login = k)' <=>
        (\E s \in Tokens : exists /\ active /\ Usable(s) /\ refresh[s].login = k)
    BY <1>3 DEF Usable
  <2>2. (\E j \in jwts : Accepts(j) /\ j.login = k)' <=> (\E j \in jwts : Accepts(j) /\ j.login = k)
    BY DEF Accepts, Jwt
  <2>3. (\E q \in Requests : pc[q] = "answer" /\ rlogin[q] = k /\ Accepts(Jwt(q)))' <=>
        (\E q \in Requests : pc[q] = "answer" /\ rlogin[q] = k /\ Accepts(Jwt(q)))
    BY <1>2 DEF Accepts, Jwt
  <2>4. Pending(k)' <=> Pending(k)
    BY <1>2 DEF Pending
  <2> QED
    BY <2>1, <2>2, <2>3, <2>4 DEF Valid
<1>6. l \notin ValidLogins \cup EndedLogins /\ ValidLogins' = ValidLogins \cup {l}
  BY <1>1, <1>4, <1>5 DEF ValidLogins, EndedLogins
<1>7. EndedLogins' = EndedLogins
  BY <1>1, <1>4, <1>5 DEF EndedLogins, IndInv, TypeOK
<1> QED
  BY <1>1, <1>6, <1>7 DEF Promise!Next, Promise!Begin

\* Every step of the sessions is one of the promise, or changes nothing of it.
LEMMA PromiseStep ==
  ASSUME IndInv, IndInv', [Next]_vars
  PROVE  [Promise!Next]_<<ValidLogins, EndedLogins>>
<1> USE DEF userVars, tokenVars, requestVars, historyVars
<1>a. started \subseteq Logins /\ barred \subseteq started
  BY DEF IndInv, TypeOK
<1>1. ASSUME NEW r \in Requests, NEW l \in Logins, LoginRead(r, l) PROVE Promise!Next
  <2>1. \A k \in Requests : /\ pc'[k] = "answer" => k # r /\ pc[k] = "answer"
                            /\ k # r => rlogin'[k] = rlogin[k] /\ snap'[k] = snap[k] /\ pc'[k] = pc[k]
                            /\ rlogin'[r] = l /\ l \notin started
    BY <1>1 DEF IndInv, TypeOK, LoginRead, Read
  <2>2. \A k \in Logins : Valid(k)' => Valid(k)
    BY <1>1, <2>1 DEF LoginRead, Valid, Accepts, Usable, Jwt
  <2>3. \A k \in started : Pending(k)' => Pending(k)
    BY <2>1 DEF Pending
  <2> QED
    BY <1>1, <2>2, <2>3, OnlyEnds DEF LoginRead
<1>2. ASSUME NEW r \in Requests, NEW t \in Tokens, LoginCreate(r, t) PROVE Promise!Next
  <2>1. CASE exists /\ active /\ version = snap[r].version
    BY <1>2, <2>1, LoginBegins DEF LoginCreate
  <2>2. CASE ~(exists /\ active /\ version = snap[r].version)
    <3>1. \A k \in Requests : pc'[k] \in {"answer", "login"} =>
            k # r /\ pc'[k] = pc[k] /\ rlogin'[k] = rlogin[k] /\ snap'[k] = snap[k]
      BY <1>2 DEF IndInv, TypeOK, LoginCreate, Finish
    <3>2. \A k \in Logins : Valid(k)' => Valid(k)
      BY <1>2, <2>2, <3>1 DEF LoginCreate, Valid, Accepts, Usable, Jwt
    <3>3. \A k \in started : Pending(k)' => Pending(k)
      BY <3>1 DEF Pending
    <3> QED
      BY <1>2, <3>2, <3>3, OnlyEnds DEF LoginCreate
  <2> QED
    BY <2>1, <2>2
<1>3. ASSUME NEW r \in Requests, NEW t \in Tokens, LoginLost(r, t) PROVE Promise!Next
  BY <1>3, LoginBegins DEF LoginLost
<1>4. ASSUME NEW r \in Requests, NEW t \in Tokens, RotateLock(r, t) PROVE Promise!Next
  <2>1. \A l \in Logins : Valid(l)' => Valid(l)
    BY <1>4 DEF IndInv, TypeOK, RotateLock, Read, Valid, Accepts, Usable, Jwt
  <2>2. \A l \in started : Pending(l)' => Pending(l)
    BY <1>4 DEF IndInv, TypeOK, RotateLock, Read, Pending
  <2> QED
    BY <1>4, <2>1, <2>2, OnlyEnds DEF RotateLock
<1>5. ASSUME NEW r \in Requests, NEW n \in Tokens, RotateCommit(r, n) PROVE Promise!Next
  <2> DEFINE k == rtoken[r]
  <2>1. /\ k \in Tokens /\ refresh[k].state = "live" /\ refresh[n].state = "unused"
        /\ exists /\ active /\ snap[r].version = version /\ snap[r].hash = hash
        /\ refresh[k].version = version /\ rlogin[r] = refresh[k].login
        /\ UNCHANGED <<exists, active, version, hash, rlogin, snap, jwts, started, barred>>
        /\ pc' = [pc EXCEPT ![r] = "answer"]
    BY <1>5 DEF IndInv, TypeOK, RotateInv, RotateCommit
  <2>2. \A s \in Tokens :
          /\ s \notin {k, n} => refresh'[s] = refresh[s]
          /\ refresh'[k].state = "revoked"
          /\ refresh'[n].login = refresh[k].login
    BY <1>5, <2>1 DEF IndInv, TypeOK, RotateCommit, Insert
  <2>3. \A l \in Logins : Valid(l)' => Valid(l)
    <3> SUFFICES ASSUME NEW l \in Logins, Valid(l)' PROVE Valid(l)
      OBVIOUS
    <3>1. l = refresh[k].login => Valid(l)
      BY <2>1 DEF Valid, Usable
    <3>2. CASE (\E s \in Tokens : exists /\ active /\ Usable(s) /\ refresh[s].login = l)'
      BY <2>1, <2>2, <3>1, <3>2 DEF Valid, Usable
    <3>3. CASE (\E j \in jwts : Accepts(j) /\ j.login = l)'
      BY <2>1, <3>3 DEF Valid, Accepts
    <3>4. CASE (\E q \in Requests : pc[q] = "answer" /\ rlogin[q] = l /\ Accepts(Jwt(q)))'
      BY <2>1, <3>1, <3>4 DEF IndInv, TypeOK, Valid, Accepts, Jwt
    <3> QED
      BY <3>2, <3>3, <3>4 DEF Valid
  <2>4. \A l \in started : Pending(l)' => Pending(l)
    BY <2>1 DEF IndInv, TypeOK, Pending
  <2> QED
    BY <2>1, <2>3, <2>4, OnlyEnds
<1>6. ASSUME NEW r \in Requests, RotateReject(r) PROVE Promise!Next
  <2>1. \A l \in Logins : Valid(l)' => Valid(l)
    BY <1>6 DEF IndInv, TypeOK, RotateReject, Finish, Valid, Accepts, Usable, Jwt
  <2>2. \A l \in started : Pending(l)' => Pending(l)
    BY <1>6 DEF IndInv, TypeOK, RotateReject, Finish, Pending
  <2> QED
    BY <1>6, <2>1, <2>2, OnlyEnds DEF RotateReject
<1>7. ASSUME NEW r \in Requests, RotateAnswer(r) PROVE Promise!Next
  <2>1. \A l \in Logins : Valid(l)' => Valid(l)
    BY <1>7 DEF IndInv, TypeOK, RotateAnswer, Finish, Valid, Accepts, Usable, Jwt
  <2>2. \A l \in started : Pending(l)' => Pending(l)
    BY <1>7 DEF IndInv, TypeOK, RotateAnswer, Finish, Pending
  <2> QED
    BY <1>7, <2>1, <2>2, OnlyEnds DEF RotateAnswer
<1>8. ASSUME NEW r \in Requests, RotateLost(r) PROVE Promise!Next
  <2>1. \A l \in Logins : Valid(l)' => Valid(l)
    BY <1>8 DEF IndInv, TypeOK, RotateLost, Finish, Valid, Accepts, Usable, Jwt
  <2>2. \A l \in started : Pending(l)' => Pending(l)
    BY <1>8 DEF IndInv, TypeOK, RotateLost, Finish, Pending
  <2> QED
    BY <1>8, <2>1, <2>2, OnlyEnds DEF RotateLost
<1>9. ASSUME NEW r \in Requests, NEW j \in jwts, Authenticate(r, j) PROVE Promise!Next
  <2>1. \A l \in Logins : Valid(l)' => Valid(l)
    BY <1>9 DEF IndInv, TypeOK, Authenticate, Read, Valid, Accepts, Usable, Jwt
  <2>2. \A l \in started : Pending(l)' => Pending(l)
    BY <1>9 DEF IndInv, TypeOK, Authenticate, Read, Pending
  <2> QED
    BY <1>9, <2>1, <2>2, OnlyEnds DEF Authenticate
<1>10. ASSUME NEW r \in Requests, Logout(r) PROVE Promise!Next
  <2>1. /\ version \in Nat /\ version' = version + 1 /\ barred' = started /\ started' = started
        /\ refresh' = RevokedAll /\ UNCHANGED <<exists, jwts>>
        /\ \A q \in Requests : pc'[q] \in {"login", "answer"} =>
             q # r /\ pc'[q] = pc[q] /\ rlogin'[q] = rlogin[q] /\ snap'[q] = snap[q]
    BY <1>10 DEF IndInv, TypeOK, Logout, Bar, Finish
  <2>2. \A t \in Tokens : refresh'[t].state # "live"
    BY <2>1 DEF IndInv, TypeOK, RevokedAll, RevokedExcept
  <2>3. /\ \A j \in jwts : j.version \in Nat /\ j.version <= version
        /\ \A q \in Requests : snap[q].version \in Nat
        /\ \A q \in Requests : pc[q] = "answer" => snap[q].version <= version
    BY DEF IndInv, TypeOK, Snaps, CredentialInv, Current
  <2>4. \A l \in Logins : ~Valid(l)'
    BY <2>1, <2>2, <2>3 DEF Valid, Usable, Accepts, Jwt
  <2>5. \A l \in started : Pending(l)' => Pending(l)
    BY <2>1 DEF Pending
  <2> QED
    BY <1>a, <2>1, <2>4, <2>5, OnlyEnds
<1>11. ASSUME NEW r \in Requests, PasswordRead(r) PROVE Promise!Next
  <2>1. \A l \in Logins : Valid(l)' => Valid(l)
    BY <1>11 DEF IndInv, TypeOK, PasswordRead, Read, Valid, Accepts, Usable, Jwt
  <2>2. \A l \in started : Pending(l)' => Pending(l)
    BY <1>11 DEF IndInv, TypeOK, PasswordRead, Read, Pending
  <2> QED
    BY <1>11, <2>1, <2>2, OnlyEnds DEF PasswordRead
<1>12. ASSUME NEW r \in Requests, PasswordCommit(r) PROVE Promise!Next
  <2>1. /\ version \in Nat /\ version' = version + 1 /\ barred' = started /\ started' = started
        /\ refresh' = RevokedAll /\ UNCHANGED <<exists, jwts>>
        /\ \A q \in Requests : pc'[q] \in {"login", "answer"} =>
             q # r /\ pc'[q] = pc[q] /\ rlogin'[q] = rlogin[q] /\ snap'[q] = snap[q]
    BY <1>12 DEF IndInv, TypeOK, PasswordCommit, Bar, Finish
  <2>2. \A t \in Tokens : refresh'[t].state # "live"
    BY <2>1 DEF IndInv, TypeOK, RevokedAll, RevokedExcept
  <2>3. /\ \A j \in jwts : j.version \in Nat /\ j.version <= version
        /\ \A q \in Requests : snap[q].version \in Nat
        /\ \A q \in Requests : pc[q] = "answer" => snap[q].version <= version
    BY DEF IndInv, TypeOK, Snaps, CredentialInv, Current
  <2>4. \A l \in Logins : ~Valid(l)'
    BY <2>1, <2>2, <2>3 DEF Valid, Usable, Accepts, Jwt
  <2>5. \A l \in started : Pending(l)' => Pending(l)
    BY <2>1 DEF Pending
  <2> QED
    BY <1>a, <2>1, <2>4, <2>5, OnlyEnds
<1>13. ASSUME NEW r \in Requests, Dismiss(r) PROVE Promise!Next
  <2>1. \A l \in Logins : Valid(l)' => Valid(l)
    BY <1>13 DEF IndInv, TypeOK, Dismiss, Finish, Valid, Accepts, Usable, Jwt
  <2>2. \A l \in started : Pending(l)' => Pending(l)
    BY <1>13 DEF IndInv, TypeOK, Dismiss, Finish, Pending
  <2> QED
    BY <1>13, <2>1, <2>2, OnlyEnds DEF Dismiss
<1>14. ASSUME NEW r \in Requests, NEW k \in Keys, GenerateAPIKey(r, k) PROVE Promise!Next
  <2>1. \A l \in Logins : Valid(l)' => Valid(l)
    BY <1>14 DEF IndInv, TypeOK, GenerateAPIKey, Finish, Valid, Accepts, Usable, Jwt
  <2>2. \A l \in started : Pending(l)' => Pending(l)
    BY <1>14 DEF IndInv, TypeOK, GenerateAPIKey, Finish, Pending
  <2> QED
    BY <1>14, <2>1, <2>2, OnlyEnds DEF GenerateAPIKey
<1>15. ASSUME Suspend PROVE Promise!Next
  <2>1. active' = FALSE /\ started' = started /\ barred' = started /\ UNCHANGED <<pc, rlogin>>
    BY <1>15 DEF Suspend, Bar
  <2>2. \A l \in Logins : ~Valid(l)'
    BY <2>1 DEF Valid, Accepts
  <2>3. \A l \in started : Pending(l)' => Pending(l)
    BY <2>1 DEF Pending
  <2> QED
    BY <1>a, <2>1, <2>2, <2>3, OnlyEnds
<1>16. ASSUME Reactivate PROVE Promise!Next
  <2>a. exists /\ exists' /\ UNCHANGED <<version, hash, refresh, jwts, pc, snap, rlogin>>
    BY <1>16 DEF Reactivate
  <2>1. \A l \in Logins : Valid(l)' => Valid(l)
    <3> SUFFICES ASSUME NEW l \in Logins, Valid(l)' PROVE Valid(l)
      OBVIOUS
    <3>1. CASE (\E t \in Tokens : exists /\ active /\ Usable(t) /\ refresh[t].login = l)'
      BY <2>a, <3>1 DEF IndInv, TokenInv, Usable, Valid
    <3>2. CASE (\E j \in jwts : Accepts(j) /\ j.login = l)'
      <4> PICK j \in jwts : j.version = version /\ j.hash = hash /\ j.login = l
        BY <2>a, <3>2 DEF Accepts
      <4>1. Current(j.version, j.login)
        BY DEF IndInv, CredentialInv
      <4>2. active
        BY <2>a, <4>1 DEF Current
      <4> QED
        BY <2>a, <4>2 DEF Accepts, Valid
    <3>3. CASE (\E r \in Requests : pc[r] = "answer" /\ rlogin[r] = l /\ Accepts(Jwt(r)))'
      <4> PICK r \in Requests : /\ pc[r] = "answer" /\ rlogin[r] = l
                                /\ snap[r].version = version /\ snap[r].hash = hash
        BY <2>a, <3>3 DEF Accepts, Jwt
      <4>1. Current(snap[r].version, rlogin[r])
        BY DEF IndInv, CredentialInv
      <4>2. active
        BY <2>a, <4>1 DEF Current
      <4> QED
        BY <2>a, <4>2 DEF Accepts, Jwt, Valid
    <3> QED
      BY <3>1, <3>2, <3>3 DEF Valid
  <2>2. \A l \in started : Pending(l)' => Pending(l)
    BY <1>16 DEF Reactivate, Pending
  <2> QED
    BY <1>16, <2>1, <2>2, OnlyEnds DEF Reactivate
<1>17. ASSUME RevokeAllForUser PROVE Promise!Next
  <2>1. \A l \in Logins : Valid(l)' => Valid(l)
    BY <1>17 DEF IndInv, TypeOK, RevokeAllForUser, RevokedExcept, Valid, Accepts, Usable, Jwt
  <2>2. \A l \in started : Pending(l)' => Pending(l)
    BY <1>17 DEF IndInv, TypeOK, RevokeAllForUser, RevokedExcept, Pending
  <2> QED
    BY <1>17, <2>1, <2>2, OnlyEnds DEF RevokeAllForUser
<1>18. ASSUME DeleteUser PROVE Promise!Next
  <2>1. active' = FALSE /\ started' = started /\ barred' = started /\ UNCHANGED <<pc, rlogin>>
    BY <1>18 DEF DeleteUser, Bar
  <2>2. \A l \in Logins : ~Valid(l)'
    BY <2>1 DEF Valid, Accepts
  <2>3. \A l \in started : Pending(l)' => Pending(l)
    BY <2>1 DEF Pending
  <2> QED
    BY <1>a, <2>1, <2>2, <2>3, OnlyEnds
<1>19. ASSUME NEW t \in Tokens, ExpireToken(t) PROVE Promise!Next
  <2>1. \A l \in Logins : Valid(l)' => Valid(l)
    BY <1>19 DEF IndInv, TypeOK, ExpireToken, Valid, Accepts, Usable, Jwt
  <2>2. \A l \in started : Pending(l)' => Pending(l)
    BY <1>19 DEF IndInv, TypeOK, ExpireToken, Pending
  <2> QED
    BY <1>19, <2>1, <2>2, OnlyEnds DEF ExpireToken
<1>20. ASSUME NEW j \in jwts, ExpireJwt(j) PROVE Promise!Next
  <2>1. \A l \in Logins : Valid(l)' => Valid(l)
    BY <1>20 DEF IndInv, TypeOK, ExpireJwt, Valid, Accepts, Usable, Jwt
  <2>2. \A l \in started : Pending(l)' => Pending(l)
    BY <1>20 DEF IndInv, TypeOK, ExpireJwt, Pending
  <2> QED
    BY <1>20, <2>1, <2>2, OnlyEnds DEF ExpireJwt
<1>21. CASE UNCHANGED vars
  BY <1>21 DEF vars, ValidLogins, EndedLogins, Valid, Pending, Accepts, Usable, Jwt
<1> QED
  BY <1>1, <1>2, <1>3, <1>4, <1>5, <1>6, <1>7, <1>8, <1>9, <1>10, <1>11, <1>12, <1>13, <1>14,
     <1>15, <1>16, <1>17, <1>18, <1>19, <1>20, <1>21
     DEF Next, RequestStep, AdminStep, TimeStep

-----------------------------------------------------------------------------
(* The theorems *)

\* The inductive invariant: types, tokens, credentials, rotations, lineage.
LEMMA Inductive == Spec => []IndInv
<1>1. Init => TokenInv /\ CredentialInv /\ RotateInv /\ LineageInv
  BY DEF Init, TokenInv, CredentialInv, RotateInv, LineageInv
<1>2. Init => IndInv
  BY <1>1, TypeInit DEF IndInv
<1>3. IndInv /\ [Next]_vars => IndInv'
  BY TypeStep, TokenStep, CredentialStep, RotateStep, LineageStep DEF IndInv
<1> QED
  BY <1>2, <1>3, PTL DEF Spec

\* Every variable of the account, its tokens and its requests keeps its type.
THEOREM TypeCorrect == Spec => []TypeOK
<1>1. IndInv => TypeOK
  BY DEF IndInv
<1> QED
  BY <1>1, Inductive, PTL

\* No session a logout, password change, suspension or removal found is let in
\* again, however logins, rotations and revocations interleave.
THEOREM RevocationFinal == Spec => []RevokedStayOut
<1>1. IndInv => RevokedStayOut
  BY DEF IndInv, TokenInv, CredentialInv, Current, Accepts, Usable, RevokedStayOut
<1> QED
  BY <1>1, Inductive, PTL

\* One login never has two usable refresh tokens.
THEOREM RotationLinear == Spec => []SingleDescendant
<1>1. IndInv => SingleDescendant
  BY DEF IndInv, LineageInv, Usable, SingleDescendant
<1> QED
  BY <1>1, Inductive, PTL

\* The sessions of an account implement SessionPromise: whatever interleaves, a
\* session begins at most once and never comes back.
THEOREM SessionsImplementPromise == Spec => KeepsPromise
<1>1. Init => Promise!Init
  BY DEF Init, Promise!Init, ValidLogins, EndedLogins, Valid, Usable
<1>2. IndInv /\ IndInv' /\ [Next]_vars => [Promise!Next]_<<ValidLogins, EndedLogins>>
  BY PromiseStep
<1> QED
  BY <1>1, <1>2, Inductive, PTL DEF Spec, KeepsPromise, Promise!Spec

\* What a client may rely on: a session that was logged out, revoked or ran out is
\* over, nothing the server takes is left of it, and no step of any request, login or
\* administrator brings it back.
THEOREM SessionsEndForGood == Spec => []Promise!Disjoint /\ Promise!OverForGood
<1>1. Promise!Init => Promise!Disjoint
  BY DEF Promise!Init, Promise!Disjoint
<1>2. ASSUME Promise!Disjoint, [Promise!Next]_<<ValidLogins, EndedLogins>>
      PROVE  Promise!Disjoint' /\ [EndedLogins \subseteq EndedLogins']_<<ValidLogins, EndedLogins>>
  <2>1. CASE \E l \in Logins : Promise!Begin(l)
    BY <1>2, <2>1 DEF Promise!Begin, Promise!Disjoint
  <2>2. CASE \E S \in SUBSET (Logins \ EndedLogins) : Promise!End(S)
    BY <1>2, <2>2 DEF Promise!End, Promise!Disjoint
  <2>3. CASE UNCHANGED <<ValidLogins, EndedLogins>>
    BY <1>2, <2>3 DEF Promise!Disjoint
  <2> QED
    BY <1>2, <2>1, <2>2, <2>3 DEF Promise!Next
<1> QED
  BY <1>1, <1>2, SessionsImplementPromise, PTL
     DEF KeepsPromise, Promise!Spec, Promise!OverForGood

=============================================================================
