------------------------------ MODULE Accounts ------------------------------
(***************************************************************************)
(* The administration of accounts: requests of administrators that change  *)
(* roles, suspend, reactivate, create and delete accounts, from the moment *)
(* RequireAdmin lets them in to the commit.  Everything a request finds out*)
(* before it holds the advisory lock may be stale when it acts on it.      *)
(*                                                                         *)
(* What a suspension or a deletion does to the sessions of the account is  *)
(* the subject of Sessions, what a deletion does to its images of          *)
(* ImageStore.                                                             *)
(***************************************************************************)
EXTENDS FiniteSets, Integers

CONSTANTS
  Accounts,    \* users.id: every random value is generated once
  Initial,     \* accounts there at the start
  FirstAdmin,  \* of these, an administrator
  Requests,    \* request goroutines
  NoAccount,
  NoChange

ASSUME AccountsAssumption ==
  /\ IsFiniteSet(Accounts)
  /\ Initial \subseteq Accounts
  /\ FirstAdmin \in Initial
  /\ NoAccount \notin Accounts

VARIABLES
  role,      \* users.role, "unborn" before the row exists, "gone" after it
  active,    \* users.is_active
  named,     \* the last account to bear the configured administrator's name
  pc,        \* where each request stands
  actor,     \* the account it acts for, until it has read its target
  target,    \* the account it is about
  change     \* what it is asked to do

rowVars == <<role, active, named>>
requestVars == <<pc, actor, target, change>>
vars == <<rowVars, requestVars>>

-----------------------------------------------------------------------------
Keep == "keep"     \* the nil of an optional field

\* AdminUpdateUserRequest, its quotas left out, and the deletion
Changes ==
  [kind : {"update"}, role : {"admin", "user", Keep}, active : {"true", "false", Keep}]
    \cup {[kind |-> "delete", role |-> Keep, active |-> Keep]}

Exists(a) == role[a] \in {"admin", "user"}
ActiveAdmins == {a \in Accounts : role[a] = "admin" /\ active[a]}

\* The argument "removing" of protectLastAdmin
Removing(c) == c.kind = "delete" \/ c.role = "user" \/ c.active = "false"

\* nextRole # "admin" || !nextActive, with the row the service read
LosesAdmin(c, a) ==
  \/ c.kind = "delete"
  \/ c.role = "user" \/ (c.role = Keep /\ role[a] # "admin")
  \/ c.active = "false" \/ (c.active = Keep /\ ~active[a])

\* Some transaction is past pg_advisory_xact_lock and has not ended.
AdminLocked == \E r \in Requests : pc[r] \in {"locked", "allowed"}

\* It was made by EnsureAdminExists, or the configured name was changed since.
Init ==
  /\ \E admins \in SUBSET Initial :
       /\ FirstAdmin \in admins
       /\ role = [a \in Accounts |-> IF a \in admins THEN "admin"
                                     ELSE IF a \in Initial THEN "user" ELSE "unborn"]
  /\ active = [a \in Accounts |-> a \in Initial]
  /\ named \in {FirstAdmin, NoAccount}
  /\ pc = [r \in Requests |-> "idle"]
  /\ actor = [r \in Requests |-> NoAccount]
  /\ target = [r \in Requests |-> NoAccount]
  /\ change = [r \in Requests |-> NoChange]

Finish(r) ==
  /\ pc' = [pc EXCEPT ![r] = "idle"]
  /\ actor' = [actor EXCEPT ![r] = NoAccount]
  /\ target' = [target EXCEPT ![r] = NoAccount]
  /\ change' = [change EXCEPT ![r] = NoChange]

Advance(r, next) ==
  /\ pc' = [pc EXCEPT ![r] = next]
  /\ UNCHANGED <<actor, target, change>>

-----------------------------------------------------------------------------
\* Auth and RequireAdmin: the role is that of the row as it is now.
Authenticate(r, a) ==
  /\ pc[r] = "idle"
  /\ a \in ActiveAdmins
  /\ pc' = [pc EXCEPT ![r] = "authed"]
  /\ actor' = [actor EXCEPT ![r] = a]
  /\ UNCHANGED <<rowVars, target, change>>

\* GetByID of AdminUpdateUser and DeleteUser.  Nobody takes the role from
\* himself; one who takes it from another active administrator counts first.
\* After that nothing depends on who asked.
ReadTarget(r, a, c) ==
  /\ pc[r] = "authed"
  /\ IF Exists(a) /\ ~(actor[r] = a /\ LosesAdmin(c, a))
     THEN /\ pc' = [pc EXCEPT ![r] =
                      IF a \in ActiveAdmins /\ LosesAdmin(c, a) THEN "count" ELSE "begin"]
          /\ target' = [target EXCEPT ![r] = a]
          /\ change' = [change EXCEPT ![r] = c]
          /\ actor' = [actor EXCEPT ![r] = NoAccount]
     ELSE Finish(r)
  /\ UNCHANGED rowVars

\* CountActiveAdmins, without a lock
CountActiveAdmins(r) ==
  /\ pc[r] = "count"
  /\ IF Cardinality(ActiveAdmins) <= 1 THEN Finish(r) ELSE Advance(r, "begin")
  /\ UNCHANGED rowVars

\* BEGIN and pg_advisory_xact_lock(706, 1)
LockAdmins(r) ==
  /\ pc[r] = "begin"
  /\ ~AdminLocked
  /\ Advance(r, "locked")
  /\ UNCHANGED rowVars

IsLast(a) == a \in ActiveAdmins /\ Cardinality(ActiveAdmins) <= 1

\* Faulty variants: the count made before the lock is relied on, and a refused
\* transaction is not rolled back.
ProtectLastAdminNever(r) ==
  /\ pc[r] = "locked"
  /\ Advance(r, "allowed")
  /\ UNCHANGED rowVars

ProtectLastAdminOpen(r) ==
  /\ pc[r] = "locked"
  /\ ~(Removing(change[r]) /\ IsLast(target[r]))
  /\ Advance(r, "allowed")
  /\ UNCHANGED rowVars

\* The count again, under the lock; a refusal rolls back and releases it.
ProtectLastAdmin(r) ==
  /\ pc[r] = "locked"
  /\ IF Removing(change[r]) /\ IsLast(target[r])
     THEN Finish(r)
     ELSE Advance(r, "allowed")
  /\ UNCHANGED rowVars

\* UPDATE users SET role=COALESCE(...), is_active=COALESCE(...), and COMMIT
AdminUpdate(r) ==
  LET a == target[r]
      c == change[r]
  IN
  /\ pc[r] = "allowed" /\ c.kind = "update"
  /\ IF Exists(a)
     THEN /\ role' = [role EXCEPT ![a] = IF c.role = Keep THEN @ ELSE c.role]
          /\ active' = [active EXCEPT ![a] = IF c.active = Keep THEN @ ELSE c.active = "true"]
     ELSE UNCHANGED <<role, active>>
  /\ UNCHANGED named
  /\ Finish(r)

Delete(r) ==
  LET a == target[r] IN
  /\ pc[r] = "allowed" /\ change[r].kind = "delete"
  /\ IF Exists(a)
     THEN /\ role' = [role EXCEPT ![a] = "gone"]
          /\ active' = [active EXCEPT ![a] = FALSE]
     ELSE UNCHANGED <<role, active>>
  /\ UNCHANGED named
  /\ Finish(r)

\* A statement or the commit fails, or the connection breaks: rolled back.
Abort(r) ==
  /\ pc[r] \in {"authed", "count", "begin", "locked", "allowed"}
  /\ Finish(r)
  /\ UNCHANGED rowVars

-----------------------------------------------------------------------------
NewAccount(a, newRole) ==
  /\ role[a] = "unborn"
  /\ role' = [role EXCEPT ![a] = newRole]
  /\ active' = [active EXCEPT ![a] = TRUE]

\* A name is free until an account takes it and once that account is deleted.
NameTaken == named # NoAccount /\ Exists(named)

MayTakeName(a) == (named' = a /\ ~NameTaken) \/ named' = named

\* Register for an administrator, who chooses the role
AdminRegister(r, a, newRole) ==
  /\ pc[r] = "authed"
  /\ NewAccount(a, newRole)
  /\ MayTakeName(a)
  /\ Finish(r)

\* PublicRegister and BrowserRegister
PublicRegister(a) ==
  /\ NewAccount(a, "user")
  /\ MayTakeName(a)
  /\ UNCHANGED requestVars

\* The server starts again: the requests of the process before are lost, and
\* EnsureAdminExists makes the configured administrator when nobody bears the
\* name, if it still has the password to give.
Restart(a) ==
  /\ \/ UNCHANGED rowVars
     \/ /\ ~NameTaken
        /\ NewAccount(a, "admin")
        /\ named' = a
  /\ pc' = [r \in Requests |-> "idle"]
  /\ actor' = [r \in Requests |-> NoAccount]
  /\ target' = [r \in Requests |-> NoAccount]
  /\ change' = [r \in Requests |-> NoChange]

-----------------------------------------------------------------------------
TransactionStep(r) == ProtectLastAdmin(r) \/ AdminUpdate(r) \/ Delete(r)

RequestStep(r) ==
  \/ \E a \in Accounts : Authenticate(r, a)
  \/ \E a \in Accounts, c \in Changes : ReadTarget(r, a, c)
  \/ \E a \in Accounts, newRole \in {"admin", "user"} : AdminRegister(r, a, newRole)
  \/ CountActiveAdmins(r) \/ LockAdmins(r) \/ TransactionStep(r) \/ Abort(r)

Next ==
  \/ \E r \in Requests : RequestStep(r)
  \/ \E a \in Accounts : PublicRegister(a) \/ Restart(a)

Spec == Init /\ [][Next]_vars

\* Statements of a request return, and PostgreSQL grants a lock in the order it
\* was asked for.
Fairness ==
  \A r \in Requests :
    /\ WF_vars(CountActiveAdmins(r))
    /\ SF_vars(LockAdmins(r))
    /\ WF_vars(TransactionStep(r))

FairSpec == Spec /\ Fairness

-----------------------------------------------------------------------------
(* Properties *)

RequestPCs == {"idle", "authed", "count", "begin", "locked", "allowed"}

TypeOK ==
  /\ role \in [Accounts -> {"unborn", "admin", "user", "gone"}]
  /\ active \in [Accounts -> BOOLEAN]
  /\ named \in Accounts \cup {NoAccount}
  /\ pc \in [Requests -> RequestPCs]
  /\ actor \in [Requests -> Accounts \cup {NoAccount}]
  /\ target \in [Requests -> Accounts \cup {NoAccount}]
  /\ change \in [Requests -> Changes \cup {NoChange}]
  /\ \A r \in Requests : pc[r] \in {"count", "begin", "locked", "allowed"} =>
       target[r] \in Accounts /\ change[r] \in Changes

\* There is always an administrator who can sign in: demotions, suspensions and
\* deletions that all saw another one left do not remove the last together
\* (protectLastAdmin).
AdminRemains == ActiveAdmins # {}

\* An administrator who reached the transaction gets through it: nobody keeps
\* the advisory lock for ever.
AdministrationGoesOn ==
  \A r \in Requests : pc[r] \in {"count", "begin", "locked", "allowed"} ~> pc[r] = "idle"

-----------------------------------------------------------------------------
(* The inductive invariant behind AdminRemains. *)

\* One transaction at a time is past the lock, and what it was allowed to remove
\* leaves another administrator.
LockInv ==
  /\ \A q, r \in Requests :
       pc[q] \in {"locked", "allowed"} /\ pc[r] \in {"locked", "allowed"} => q = r
  /\ \A r \in Requests :
       pc[r] = "allowed" /\ Removing(change[r]) => ActiveAdmins \ {target[r]} # {}

IndInv == TypeOK /\ LockInv /\ AdminRemains

=============================================================================
