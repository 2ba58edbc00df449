------------------------------ MODULE Sessions ------------------------------
(***************************************************************************)
(* The sessions of one account: the columns of its users row that decide   *)
(* who is let in, its rows of refresh_tokens, the access tokens (JWTs) the *)
(* clients hold, and the requests that log in, rotate a refresh token, log *)
(* out, change the password or take an API key, against an administrator   *)
(* who suspends, reactivates or removes the account.                       *)
(*                                                                         *)
(* A request reads the account in one step and acts on what it read in a   *)
(* later one.  Rotate keeps the users row locked in between.               *)
(***************************************************************************)
EXTENDS Integers, FiniteSets

CONSTANTS
  Requests,    \* request goroutines
  Tokens,      \* refresh tokens: every random value is generated once
  Logins,      \* password verifications: each begins a session of its own
  Keys,        \* API keys: every random value is generated once
  NoToken, NoLogin, NoKey,
  MaxVersion,  \* bound on auth_version: revocations explored
  Faults       \* {"db"}: failed transactions and lost answers to COMMIT

ASSUME SessionsAssumption ==
  /\ MaxVersion \in Nat
  /\ NoToken \notin Tokens
  /\ NoLogin \notin Logins
  /\ NoKey \notin Keys

VARIABLES
  exists,      \* the users row is there
  active,      \* users.is_active
  version,     \* users.auth_version
  hash,        \* users.password_hash: bcrypt salts, so that no hash returns
  apiKey,      \* users.api_key_hash
  refresh,     \* refresh_tokens: [state, version, login] of each token
  jwts,        \* access tokens in the hands of clients: [login, version, hash]
  pc,          \* where each request stands
  snap,        \* what it read of the users row: [version, hash]
  rtoken,      \* the refresh token it presents
  rlogin,      \* the session it works for
  newKeys,     \* API keys not generated yet
  started,     \* sessions whose password was verified
  barred       \* of these, the ones a revocation found: history of the model

userVars == <<exists, active, version, hash, apiKey>>
tokenVars == <<refresh, jwts>>
requestVars == <<pc, snap, rtoken, rlogin, newKeys>>
historyVars == <<started, barred>>
vars == <<userVars, tokenVars, requestVars, historyVars>>

-----------------------------------------------------------------------------
NoSnap == [version |-> 0, hash |-> 0]

\* Rotate is between its SELECT ... FOR UPDATE and its COMMIT.
UserLocked == \E r \in Requests : pc[r] = "rotate"

\* ValidateJWTUser, for an access token that has not expired
Accepts(j) == exists /\ active /\ j.version = version /\ j.hash = hash

\* The conditions of the UPDATE in Rotate, with the row it read
Usable(t) == refresh[t].state = "live" /\ refresh[t].version = version

Init ==
  /\ exists = TRUE
  /\ active = TRUE
  /\ version = 0
  /\ hash = 0
  /\ apiKey = NoKey
  /\ refresh = [t \in Tokens |-> [state |-> "unused", version |-> 0, login |-> NoLogin]]
  /\ jwts = {}
  /\ pc = [r \in Requests |-> "idle"]
  /\ snap = [r \in Requests |-> NoSnap]
  /\ rtoken = [r \in Requests |-> NoToken]
  /\ rlogin = [r \in Requests |-> NoLogin]
  /\ newKeys = Keys
  /\ started = {}
  /\ barred = {}

\* A request reads the users row and goes on.
Read(r, next, t, l) ==
  /\ pc' = [pc EXCEPT ![r] = next]
  /\ snap' = [snap EXCEPT ![r] = [version |-> version, hash |-> hash]]
  /\ rtoken' = [rtoken EXCEPT ![r] = t]
  /\ rlogin' = [rlogin EXCEPT ![r] = l]
  /\ UNCHANGED newKeys

Finish(r) ==
  /\ pc' = [pc EXCEPT ![r] = "idle"]
  /\ snap' = [snap EXCEPT ![r] = NoSnap]
  /\ rtoken' = [rtoken EXCEPT ![r] = NoToken]
  /\ rlogin' = [rlogin EXCEPT ![r] = NoLogin]

\* INSERT INTO refresh_tokens
Insert(table, t, v, l) ==
  [table EXCEPT ![t] = [state |-> "live", version |-> v, login |-> l]]

\* UPDATE refresh_tokens SET revoked_at=NOW() WHERE user_id AND revoked_at IS NULL
RevokedExcept(kept) ==
  [t \in Tokens |-> IF refresh[t].state \in {"live", "expired"} /\ t \notin kept
                    THEN [refresh[t] EXCEPT !.state = "revoked"] ELSE refresh[t]]

RevokedAll == RevokedExcept({})

\* Every session begun so far is over.
Bar == barred' = started /\ UNCHANGED started

-----------------------------------------------------------------------------
(* Login *)

\* GetByUsername finds an active account and its hash fits the password given.
LoginRead(r, l) ==
  /\ pc[r] = "idle"
  /\ exists /\ active
  /\ l \notin started
  /\ Read(r, "login", NoToken, l)
  /\ started' = started \cup {l}
  /\ UNCHANGED <<userVars, tokenVars, barred>>

Jwt(r) == [login |-> rlogin[r], version |-> snap[r].version, hash |-> snap[r].hash]

\* INSERT ... SELECT FROM users WHERE is_active AND auth_version = the version
\* read, under the row lock; without a row there is no login.  The access token
\* was made of the row read, and is answered only now.
LoginCreate(r, t) ==
  /\ pc[r] = "login"
  /\ refresh[t].state = "unused"
  /\ ~UserLocked
  /\ IF exists /\ active /\ version = snap[r].version
     THEN /\ refresh' = Insert(refresh, t, version, rlogin[r])
          /\ jwts' = jwts \cup {Jwt(r)}
     ELSE UNCHANGED tokenVars
  /\ Finish(r)
  /\ UNCHANGED <<userVars, newKeys, historyVars>>

\* The row is inserted, but neither token reaches the client.
LoginLost(r, t) ==
  /\ "db" \in Faults
  /\ pc[r] = "login"
  /\ refresh[t].state = "unused"
  /\ ~UserLocked
  /\ exists /\ active /\ version = snap[r].version
  /\ refresh' = Insert(refresh, t, version, rlogin[r])
  /\ Finish(r)
  /\ UNCHANGED <<userVars, jwts, newKeys, historyVars>>

-----------------------------------------------------------------------------
(* Rotate: RefreshJWT of the API, of BrowserRefresh and of the middleware *)

\* SELECT ... FROM users WHERE id = (SELECT user_id ...) FOR UPDATE
RotateLock(r, t) ==
  /\ pc[r] = "idle"
  /\ refresh[t].state \in {"live", "expired", "revoked"}
  /\ exists /\ active /\ ~UserLocked
  /\ Read(r, "rotate", t, refresh[t].login)
  /\ UNCHANGED <<userVars, tokenVars, historyVars>>

\* Faulty variant: the UPDATE without "revoked_at IS NULL".
RotateCommitReplayed(r, n) ==
  LET t == rtoken[r] IN
  /\ pc[r] = "rotate"
  /\ refresh[n].state = "unused"
  /\ refresh[t].state \in {"live", "revoked"} /\ refresh[t].version = snap[r].version
  /\ refresh' = Insert([refresh EXCEPT ![t].state = "revoked"], n, snap[r].version, refresh[t].login)
  /\ pc' = [pc EXCEPT ![r] = "answer"]
  /\ UNCHANGED <<userVars, jwts, snap, rtoken, rlogin, newKeys, historyVars>>

\* The presented token is revoked and its descendant inserted, or neither.
RotateCommit(r, n) ==
  LET t == rtoken[r] IN
  /\ pc[r] = "rotate"
  /\ refresh[n].state = "unused"
  /\ refresh[t].state = "live" /\ refresh[t].version = snap[r].version
  /\ refresh' = Insert([refresh EXCEPT ![t].state = "revoked"], n, snap[r].version, refresh[t].login)
  /\ pc' = [pc EXCEPT ![r] = "answer"]
  /\ UNCHANGED <<userVars, jwts, snap, rtoken, rlogin, newKeys, historyVars>>

\* The presented token is not usable, or the transaction fails.
RotateReject(r) ==
  LET t == rtoken[r] IN
  /\ pc[r] = "rotate"
  /\ \/ "db" \in Faults
     \/ refresh[t].state # "live"
     \/ refresh[t].version # snap[r].version
  /\ Finish(r)
  /\ UNCHANGED <<userVars, tokenVars, newKeys, historyVars>>

\* The access token is made of the row read under the lock, after the commit.
RotateAnswer(r) ==
  /\ pc[r] = "answer"
  /\ jwts' = jwts \cup {Jwt(r)}
  /\ Finish(r)
  /\ UNCHANGED <<userVars, refresh, newKeys, historyVars>>

\* The commit took effect; its answer, or the response, is lost.
RotateLost(r) ==
  /\ "db" \in Faults
  /\ pc[r] = "answer"
  /\ Finish(r)
  /\ UNCHANGED <<userVars, tokenVars, newKeys, historyVars>>

-----------------------------------------------------------------------------
(* Requests of a logged-in client *)

\* The middleware lets the request in; what follows does not ask again.
Authenticate(r, j) ==
  /\ pc[r] = "idle"
  /\ j \in jwts /\ Accepts(j)
  /\ Read(r, "authed", NoToken, j.login)
  /\ UNCHANGED <<userVars, tokenVars, historyVars>>

\* Faulty variant: the refresh tokens are revoked, auth_version stays.
LogoutKeepsVersion(r) ==
  /\ pc[r] = "authed"
  /\ ~UserLocked
  /\ exists /\ version < MaxVersion
  /\ refresh' = RevokedAll
  /\ Bar
  /\ Finish(r)
  /\ UNCHANGED <<userVars, jwts, newKeys>>

\* RevokeSessions: one transaction that begins with the users row.
Logout(r) ==
  /\ pc[r] = "authed"
  /\ ~UserLocked
  /\ exists /\ version < MaxVersion
  /\ version' = version + 1
  /\ refresh' = RevokedAll
  /\ Bar
  /\ Finish(r)
  /\ UNCHANGED <<exists, active, hash, apiKey, jwts, newKeys>>

\* ChangePassword verifies the old password against the row it reads.
PasswordRead(r) ==
  /\ pc[r] = "authed"
  /\ exists
  /\ Read(r, "password", NoToken, rlogin[r])
  /\ UNCHANGED <<userVars, tokenVars, historyVars>>

\* UpdatePassword: conditional on the hash read and on is_active.
PasswordCommit(r) ==
  /\ pc[r] = "password"
  /\ ~UserLocked
  /\ exists /\ active /\ hash = snap[r].hash /\ version < MaxVersion
  /\ hash' = hash + 1
  /\ version' = version + 1
  /\ apiKey' = NoKey
  /\ refresh' = RevokedAll
  /\ Bar
  /\ Finish(r)
  /\ UNCHANGED <<exists, active, jwts, newKeys>>

\* SetAPIKey, whatever became of the session since it was let in
GenerateAPIKey(r, k) ==
  /\ pc[r] = "authed"
  /\ ~UserLocked
  /\ k \in newKeys
  /\ newKeys' = newKeys \ {k}
  /\ apiKey' = IF exists THEN k ELSE apiKey
  /\ Finish(r)
  /\ UNCHANGED <<exists, active, version, hash, tokenVars, historyVars>>

\* The request ends without effect: another endpoint, an error, a lost race.
Dismiss(r) ==
  /\ pc[r] \in {"login", "authed", "password"}
  /\ Finish(r)
  /\ UNCHANGED <<userVars, tokenVars, newKeys, historyVars>>

-----------------------------------------------------------------------------
(* The administrator, and time *)

\* Faulty variant: the account is suspended and its refresh tokens are revoked.
SuspendKeepsVersion ==
  /\ ~UserLocked
  /\ exists /\ version < MaxVersion
  /\ active' = FALSE
  /\ refresh' = RevokedAll
  /\ Bar
  /\ UNCHANGED <<exists, version, hash, apiKey, jwts, requestVars>>

\* AdminUpdate with is_active=false, also of an account already suspended
Suspend ==
  /\ ~UserLocked
  /\ exists /\ version < MaxVersion
  /\ active' = FALSE
  /\ version' = version + 1
  /\ refresh' = RevokedAll
  /\ Bar
  /\ UNCHANGED <<exists, hash, apiKey, jwts, requestVars>>

\* AdminUpdate with is_active=true
Reactivate ==
  /\ ~UserLocked
  /\ exists
  /\ active' = TRUE
  /\ UNCHANGED <<exists, version, hash, apiKey, tokenVars, requestVars, historyVars>>

\* DeleteUser revokes first and may then be refused.  Without the users row it
\* can only wait for the token a rotation is consuming, and not see the new one.
RevokeAllForUser ==
  /\ exists
  /\ \E kept \in SUBSET {rtoken[r] : r \in {q \in Requests : pc[q] = "rotate"}} :
       refresh' = RevokedExcept(kept)
  /\ UNCHANGED <<userVars, jwts, requestVars, historyVars>>

\* Delete: ON DELETE CASCADE takes the refresh tokens along.
DeleteUser ==
  /\ ~UserLocked
  /\ exists
  /\ exists' = FALSE
  /\ active' = FALSE
  /\ apiKey' = NoKey
  /\ refresh' = [t \in Tokens |-> IF refresh[t].state = "unused" THEN refresh[t]
                                  ELSE [refresh[t] EXCEPT !.state = "deleted"]]
  /\ Bar
  /\ UNCHANGED <<version, hash, jwts, requestVars>>

\* NOW() in Rotate is the start of its transaction: the token it presents does
\* not expire under it.
ExpireToken(t) ==
  /\ refresh[t].state = "live"
  /\ \A r \in Requests : pc[r] = "rotate" => rtoken[r] # t
  /\ refresh' = [refresh EXCEPT ![t].state = "expired"]
  /\ UNCHANGED <<userVars, jwts, requestVars, historyVars>>

ExpireJwt(j) ==
  /\ jwts' = jwts \ {j}
  /\ UNCHANGED <<userVars, refresh, requestVars, historyVars>>

-----------------------------------------------------------------------------
RequestStep(r) ==
  \/ \E l \in Logins : LoginRead(r, l)
  \/ \E t \in Tokens : LoginCreate(r, t) \/ LoginLost(r, t)
  \/ \E t \in Tokens : RotateLock(r, t) \/ RotateCommit(r, t)
  \/ RotateReject(r) \/ RotateAnswer(r) \/ RotateLost(r)
  \/ \E j \in jwts : Authenticate(r, j)
  \/ Logout(r) \/ PasswordRead(r) \/ PasswordCommit(r) \/ Dismiss(r)
  \/ \E k \in Keys : GenerateAPIKey(r, k)

AdminStep == Suspend \/ Reactivate \/ RevokeAllForUser \/ DeleteUser

TimeStep == (\E t \in Tokens : ExpireToken(t)) \/ (\E j \in jwts : ExpireJwt(j))

Next == (\E r \in Requests : RequestStep(r)) \/ AdminStep \/ TimeStep

Spec == Init /\ [][Next]_vars

-----------------------------------------------------------------------------
(* What the sessions amount to *)

\* A login still has something in its hands that the server would take, or is
\* about to be answered with it.
Valid(l) ==
  \/ \E t \in Tokens : exists /\ active /\ Usable(t) /\ refresh[t].login = l
  \/ \E j \in jwts : Accepts(j) /\ j.login = l
  \/ \E r \in Requests : pc[r] = "answer" /\ rlogin[r] = l /\ Accepts(Jwt(r))

Pending(l) == \E r \in Requests : pc[r] = "login" /\ rlogin[r] = l

ValidLogins == {l \in Logins : Valid(l)}
EndedLogins == {l \in started : l \in barred \/ (~Pending(l) /\ ~Valid(l))}

Promise == INSTANCE SessionPromise WITH
  Sessions <- Logins, valid <- ValidLogins, ended <- EndedLogins

\* The sessions keep what SessionPromise promises, across simultaneous logins,
\* rotations, revocations, lost answers and expiries.
KeepsPromise == Promise!Spec

-----------------------------------------------------------------------------
(* Properties *)

TokenStates == {"unused", "live", "expired", "revoked", "deleted"}
RequestPCs == {"idle", "login", "rotate", "answer", "authed", "password"}
Snaps == [version : Nat, hash : Nat]

TypeOK ==
  /\ exists \in BOOLEAN /\ active \in BOOLEAN
  /\ version \in Nat /\ hash \in Nat
  /\ apiKey \in Keys \cup {NoKey}
  /\ refresh \in [Tokens -> [state : TokenStates, version : Nat, login : Logins \cup {NoLogin}]]
  /\ \A t \in Tokens : refresh[t].state # "unused" => refresh[t].login \in Logins
  /\ jwts \subseteq [login : Logins, version : Nat, hash : Nat]
  /\ pc \in [Requests -> RequestPCs]
  /\ snap \in [Requests -> Snaps]
  /\ rtoken \in [Requests -> Tokens \cup {NoToken}]
  /\ \A r \in Requests : pc[r] = "rotate" => rtoken[r] \in Tokens
  /\ rlogin \in [Requests -> Logins \cup {NoLogin}]
  /\ \A r \in Requests : pc[r] # "idle" => rlogin[r] \in Logins
  /\ newKeys \subseteq Keys
  /\ started \subseteq Logins
  /\ barred \subseteq started

\* A session begun before a logout, a password change, a suspension or the
\* removal of the account is over for good, wherever its login or its rotation
\* stood: its access tokens are refused and no descendant of its refresh token
\* is usable, also after a reactivation (Rotate, Create, ValidateJWTUser).
RevokedStayOut ==
  /\ \A j \in jwts : Accepts(j) => j.login \notin barred
  /\ \A t \in Tokens : exists /\ active /\ Usable(t) => refresh[t].login \notin barred

\* Replays and simultaneous rotations never leave one login with two usable
\* refresh tokens.
SingleDescendant ==
  \A s, t \in Tokens :
    Usable(s) /\ Usable(t) /\ refresh[s].login = refresh[t].login => s = t

-----------------------------------------------------------------------------
(* The inductive invariant behind these properties. *)

\* A revocation raises auth_version and revokes every refresh token in one step,
\* so what carries the current version belongs to no session it found, and to an
\* account not suspended since.
Current(v, l) ==
  /\ v <= version
  /\ exists /\ v = version => active /\ l \notin barred

TokenInv ==
  \A t \in Tokens :
    /\ refresh[t].state # "unused" => refresh[t].login \in started
    /\ refresh[t].state = "live" =>
         /\ exists /\ active
         /\ refresh[t].version = version
         /\ refresh[t].login \notin barred

CredentialInv ==
  /\ \A j \in jwts : j.login \in started /\ Current(j.version, j.login)
  /\ \A r \in Requests :
       /\ pc[r] \in {"login", "answer"} => Current(snap[r].version, rlogin[r])
       /\ pc[r] # "idle" => rlogin[r] \in started

\* A rotation works on the users row as it is, and alone.
RotateInv ==
  /\ \A r \in Requests : pc[r] = "rotate" =>
       /\ exists /\ active
       /\ snap[r].version = version /\ snap[r].hash = hash
       /\ refresh[rtoken[r]].state # "unused"
       /\ rlogin[r] = refresh[rtoken[r]].login
  /\ \A q, r \in Requests : pc[q] = "rotate" /\ pc[r] = "rotate" => q = r

\* A login has no token before it is through, and then one live refresh token at
\* most.
LineageInv ==
  /\ \A r \in Requests : pc[r] = "login" =>
       /\ \A t \in Tokens : refresh[t].state # "unused" => refresh[t].login # rlogin[r]
       /\ \A j \in jwts : j.login # rlogin[r]
       /\ \A q \in Requests : q # r /\ pc[q] \in {"login", "answer"} => rlogin[q] # rlogin[r]
  /\ \A s, t \in Tokens :
       /\ refresh[s].state = "live" /\ refresh[t].state = "live"
       /\ refresh[s].login = refresh[t].login
       => s = t

IndInv == TypeOK /\ TokenInv /\ CredentialInv /\ RotateInv /\ LineageInv

=============================================================================
