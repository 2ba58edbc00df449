--------------------------- MODULE AccountsProofs ---------------------------
(***************************************************************************)
(* Theorems about Accounts, for any number of accounts and requests.       *)
(***************************************************************************)
EXTENDS Accounts, FiniteSetTheorems, TLAPS

\* The initial state is well typed, nobody is past the lock, and the first
\* administrator can sign in.
LEMMA InitInv == Init => IndInv
<1> SUFFICES ASSUME Init PROVE IndInv
  OBVIOUS
<1> USE AccountsAssumption DEF AccountsAssumption
<1>1. TypeOK
  BY DEF Init, TypeOK, RequestPCs
<1>2. LockInv
  BY DEF Init, LockInv
<1>3. FirstAdmin \in ActiveAdmins
  BY DEF Init, ActiveAdmins
<1> QED
  BY <1>1, <1>2, <1>3 DEF IndInv, AdminRemains

\* What protectLastAdmin's count means: whoever is not the last leaves another.
LEMMA AnotherRemains ==
  ASSUME AdminRemains, NEW a, ~IsLast(a)
  PROVE  ActiveAdmins \ {a} # {}
<1>1. CASE a \notin ActiveAdmins
  BY <1>1 DEF AdminRemains
<1>2. CASE a \in ActiveAdmins
  <2>1. IsFiniteSet(ActiveAdmins)
    BY AccountsAssumption, FS_Subset DEF AccountsAssumption, ActiveAdmins
  <2>2. Cardinality(ActiveAdmins) \in Nat /\ Cardinality(ActiveAdmins) > 1
    BY <1>2, <2>1, FS_CardinalityType DEF IsLast
  <2>3. SUFFICES ASSUME ActiveAdmins = {a} PROVE FALSE
    BY <1>2
  <2>4. Cardinality({a}) = 1
    BY FS_Singleton
  <2> QED
    BY <2>2, <2>3, <2>4
<1> QED
  BY <1>1, <1>2

\* A registration takes no administrator away.
LEMMA RegistrationKeeps ==
  ASSUME TypeOK, NEW a \in Accounts, NEW newRole, NewAccount(a, newRole)
  PROVE  ActiveAdmins \subseteq ActiveAdmins'
  BY DEF TypeOK, NewAccount, ActiveAdmins

\* An update takes away its own target at most, and that only when asked to.
LEMMA UpdateKeeps ==
  ASSUME TypeOK, NEW r \in Requests, AdminUpdate(r)
  PROVE  /\ ActiveAdmins \ {target[r]} \subseteq ActiveAdmins'
         /\ ~Removing(change[r]) => ActiveAdmins \subseteq ActiveAdmins'
<1>1. target[r] \in Accounts /\ change[r] \in Changes
  BY DEF TypeOK, AdminUpdate
<1>2. ActiveAdmins \ {target[r]} \subseteq ActiveAdmins'
  BY <1>1 DEF TypeOK, AdminUpdate, ActiveAdmins
<1>3. ASSUME ~Removing(change[r]) PROVE ActiveAdmins \subseteq ActiveAdmins'
  BY <1>1, <1>3 DEF TypeOK, AdminUpdate, ActiveAdmins, Removing, Changes, Keep
<1> QED
  BY <1>2, <1>3

LEMMA DeleteKeeps ==
  ASSUME TypeOK, NEW r \in Requests, Delete(r)
  PROVE  ActiveAdmins \ {target[r]} \subseteq ActiveAdmins'
  BY DEF TypeOK, Delete, ActiveAdmins

\* Every step keeps the types.
LEMMA TypeStep == TypeOK /\ [Next]_vars => TypeOK'
<1> SUFFICES ASSUME TypeOK, [Next]_vars PROVE TypeOK'
  OBVIOUS
<1> USE AccountsAssumption DEF AccountsAssumption, RequestPCs, Exists, Keep, Changes
<1>1. ASSUME NEW r \in Requests, NEW a \in Accounts, Authenticate(r, a) PROVE TypeOK'
  BY <1>1 DEF TypeOK, rowVars, requestVars, Authenticate
<1>2. ASSUME NEW r \in Requests, NEW a \in Accounts, NEW c \in Changes, ReadTarget(r, a, c)
      PROVE  TypeOK'
  BY <1>2 DEF TypeOK, rowVars, requestVars, ReadTarget, Finish
<1>3. ASSUME NEW r \in Requests, CountActiveAdmins(r) PROVE TypeOK'
  BY <1>3 DEF TypeOK, rowVars, requestVars, CountActiveAdmins, Finish, Advance
<1>4. ASSUME NEW r \in Requests, LockAdmins(r) PROVE TypeOK'
  BY <1>4 DEF TypeOK, rowVars, requestVars, LockAdmins, Advance, AdminLocked
<1>5. ASSUME NEW r \in Requests, ProtectLastAdmin(r) PROVE TypeOK'
  BY <1>5 DEF TypeOK, rowVars, requestVars, ProtectLastAdmin, Finish, Advance
<1>6. ASSUME NEW r \in Requests, AdminUpdate(r) PROVE TypeOK'
  <2>1. target[r] \in Accounts /\ change[r] \in Changes /\ change[r].kind = "update"
    BY <1>6 DEF TypeOK, AdminUpdate
  <2>2. change[r].role \in {"admin", "user", Keep}
    BY <2>1
  <2>3. role' \in [Accounts -> {"unborn", "admin", "user", "gone"}]
    BY <1>6, <2>1, <2>2 DEF TypeOK, AdminUpdate
  <2>4. active' \in [Accounts -> BOOLEAN]
    BY <1>6, <2>1 DEF TypeOK, AdminUpdate
  <2> QED
    BY <1>6, <2>3, <2>4 DEF TypeOK, AdminUpdate, Finish
<1>7. ASSUME NEW r \in Requests, Delete(r) PROVE TypeOK'
  BY <1>7 DEF TypeOK, rowVars, requestVars, Delete, Finish
<1>8. ASSUME NEW r \in Requests, Abort(r) PROVE TypeOK'
  BY <1>8 DEF TypeOK, rowVars, requestVars, Abort, Finish
<1>9. ASSUME NEW r \in Requests, NEW a \in Accounts, NEW newRole \in {"admin", "user"},
             AdminRegister(r, a, newRole)
      PROVE  TypeOK'
  BY <1>9 DEF TypeOK, rowVars, requestVars, AdminRegister, NewAccount, MayTakeName,
         NameTaken, Finish
<1>10. ASSUME NEW a \in Accounts, PublicRegister(a) PROVE TypeOK'
  BY <1>10 DEF TypeOK, rowVars, requestVars, PublicRegister, NewAccount, MayTakeName, NameTaken
<1>11. ASSUME NEW a \in Accounts, Restart(a) PROVE TypeOK'
  <2>1. role' \in [Accounts -> {"unborn", "admin", "user", "gone"}]
    BY <1>11 DEF TypeOK, rowVars, Restart, NewAccount
  <2>2. active' \in [Accounts -> BOOLEAN]
    BY <1>11 DEF TypeOK, rowVars, Restart, NewAccount
  <2>3. named' \in Accounts \cup {NoAccount}
    BY <1>11 DEF TypeOK, rowVars, Restart
  <2> QED
    BY <1>11, <2>1, <2>2, <2>3 DEF TypeOK, Restart
<1>12. CASE UNCHANGED vars
  BY <1>12 DEF TypeOK, rowVars, requestVars, vars
<1> QED
  BY <1>1, <1>2, <1>3, <1>4, <1>5, <1>6, <1>7, <1>8, <1>9, <1>10, <1>11, <1>12
     DEF Next, RequestStep, TransactionStep

\* One transaction at a time is past the lock, and what it was allowed to remove
\* leaves another administrator until it commits.
LEMMA LockStep == TypeOK /\ LockInv /\ AdminRemains /\ [Next]_vars => LockInv'
<1> SUFFICES ASSUME TypeOK, LockInv, AdminRemains, [Next]_vars PROVE LockInv'
  OBVIOUS
<1>1. ASSUME NEW r \in Requests, NEW a \in Accounts, Authenticate(r, a) PROVE LockInv'
  BY <1>1 DEF TypeOK, LockInv, ActiveAdmins, rowVars, requestVars, Authenticate
<1>2. ASSUME NEW r \in Requests, NEW a \in Accounts, NEW c \in Changes, ReadTarget(r, a, c)
      PROVE  LockInv'
  BY <1>2 DEF TypeOK, LockInv, ActiveAdmins, rowVars, requestVars, ReadTarget, Finish
<1>3. ASSUME NEW r \in Requests, CountActiveAdmins(r) PROVE LockInv'
  BY <1>3
     DEF TypeOK, LockInv, ActiveAdmins, rowVars, requestVars, CountActiveAdmins, Finish, Advance
<1>4. ASSUME NEW r \in Requests, LockAdmins(r) PROVE LockInv'
  BY <1>4 DEF TypeOK, LockInv, ActiveAdmins, rowVars, requestVars, LockAdmins, Advance, AdminLocked
<1>5. ASSUME NEW r \in Requests, ProtectLastAdmin(r) PROVE LockInv'
  <2>1. CASE Removing(change[r]) /\ IsLast(target[r])
    BY <1>5, <2>1 DEF TypeOK, LockInv, ActiveAdmins, rowVars, ProtectLastAdmin, Finish
  <2>2. CASE ~(Removing(change[r]) /\ IsLast(target[r]))
    <3>1. Removing(change[r]) => ActiveAdmins \ {target[r]} # {}
      BY <2>2, AnotherRemains
    <3>2. Advance(r, "allowed") /\ UNCHANGED ActiveAdmins /\ pc[r] = "locked"
      BY <1>5, <2>2 DEF ProtectLastAdmin, rowVars, ActiveAdmins
    <3> QED
      BY <3>1, <3>2 DEF TypeOK, LockInv, Advance
  <2> QED
    BY <2>1, <2>2
<1>6. ASSUME NEW r \in Requests, AdminUpdate(r) PROVE LockInv'
  BY <1>6 DEF TypeOK, LockInv, ActiveAdmins, rowVars, requestVars, AdminUpdate, Finish
<1>7. ASSUME NEW r \in Requests, Delete(r) PROVE LockInv'
  BY <1>7 DEF TypeOK, LockInv, ActiveAdmins, rowVars, requestVars, Delete, Finish
<1>8. ASSUME NEW r \in Requests, Abort(r) PROVE LockInv'
  BY <1>8 DEF TypeOK, LockInv, ActiveAdmins, rowVars, requestVars, Abort, Finish
<1>9. ASSUME NEW r \in Requests, NEW a \in Accounts, NEW newRole \in {"admin", "user"},
             AdminRegister(r, a, newRole)
      PROVE  LockInv'
  BY <1>9
     DEF TypeOK, LockInv, ActiveAdmins, rowVars, requestVars, AdminRegister, NewAccount,
         MayTakeName, NameTaken, Finish
<1>10. ASSUME NEW a \in Accounts, PublicRegister(a) PROVE LockInv'
  BY <1>10
     DEF TypeOK, LockInv, ActiveAdmins, rowVars, requestVars, PublicRegister, NewAccount,
         MayTakeName, NameTaken
<1>11. ASSUME NEW a \in Accounts, Restart(a) PROVE LockInv'
  BY <1>11 DEF TypeOK, LockInv, ActiveAdmins, rowVars, requestVars, Restart, NewAccount
<1>12. CASE UNCHANGED vars
  BY <1>12 DEF TypeOK, LockInv, ActiveAdmins, rowVars, requestVars, vars
<1> QED
  BY <1>1, <1>2, <1>3, <1>4, <1>5, <1>6, <1>7, <1>8, <1>9, <1>10, <1>11, <1>12
     DEF Next, RequestStep, TransactionStep

\* No step leaves the accounts without an administrator.
LEMMA AdminStep == TypeOK /\ LockInv /\ AdminRemains /\ [Next]_vars => AdminRemains'
<1> SUFFICES ASSUME TypeOK, LockInv, AdminRemains, [Next]_vars PROVE AdminRemains'
  OBVIOUS
<1>1. ASSUME NEW r \in Requests, NEW a \in Accounts, Authenticate(r, a) PROVE AdminRemains'
  BY <1>1 DEF AdminRemains, ActiveAdmins, rowVars, requestVars, Authenticate
<1>2. ASSUME NEW r \in Requests, NEW a \in Accounts, NEW c \in Changes, ReadTarget(r, a, c)
      PROVE  AdminRemains'
  BY <1>2 DEF AdminRemains, ActiveAdmins, rowVars, requestVars, ReadTarget, Finish
<1>3. ASSUME NEW r \in Requests, CountActiveAdmins(r) PROVE AdminRemains'
  BY <1>3 DEF AdminRemains, ActiveAdmins, rowVars, requestVars, CountActiveAdmins, Finish, Advance
<1>4. ASSUME NEW r \in Requests, LockAdmins(r) PROVE AdminRemains'
  BY <1>4 DEF AdminRemains, ActiveAdmins, rowVars, requestVars, LockAdmins, Advance, AdminLocked
<1>5. ASSUME NEW r \in Requests, ProtectLastAdmin(r) PROVE AdminRemains'
  BY <1>5 DEF AdminRemains, ActiveAdmins, rowVars, requestVars, ProtectLastAdmin, Finish, Advance
<1>6. ASSUME NEW r \in Requests, AdminUpdate(r) PROVE AdminRemains'
  BY <1>6, UpdateKeeps DEF LockInv, AdminRemains, AdminUpdate
<1>7. ASSUME NEW r \in Requests, Delete(r) PROVE AdminRemains'
  BY <1>7, DeleteKeeps DEF LockInv, AdminRemains, Delete, Removing
<1>8. ASSUME NEW r \in Requests, Abort(r) PROVE AdminRemains'
  BY <1>8 DEF AdminRemains, ActiveAdmins, rowVars, requestVars, Abort, Finish
<1>9. ASSUME NEW r \in Requests, NEW a \in Accounts, NEW newRole \in {"admin", "user"},
             AdminRegister(r, a, newRole)
      PROVE  AdminRemains'
  BY <1>9, RegistrationKeeps DEF AdminRemains, AdminRegister
<1>10. ASSUME NEW a \in Accounts, PublicRegister(a) PROVE AdminRemains'
  BY <1>10, RegistrationKeeps DEF AdminRemains, PublicRegister
<1>11. ASSUME NEW a \in Accounts, Restart(a) PROVE AdminRemains'
  <2>1. ActiveAdmins \subseteq ActiveAdmins'
    <3>1. CASE UNCHANGED rowVars
      BY <3>1 DEF rowVars, ActiveAdmins
    <3>2. CASE NewAccount(a, "admin")
      BY <3>2, RegistrationKeeps
    <3> QED
      BY <1>11, <3>1, <3>2 DEF Restart
  <2> QED
    BY <2>1 DEF AdminRemains
<1>12. CASE UNCHANGED vars
  BY <1>12 DEF AdminRemains, ActiveAdmins, rowVars, requestVars, vars
<1> QED
  BY <1>1, <1>2, <1>3, <1>4, <1>5, <1>6, <1>7, <1>8, <1>9, <1>10, <1>11, <1>12
     DEF Next, RequestStep, TransactionStep

-----------------------------------------------------------------------------
(* The theorems *)

\* The inductive invariant: types, the advisory lock, and an administrator.
LEMMA Inductive == Spec => []IndInv
<1>1. IndInv /\ [Next]_vars => IndInv'
  BY TypeStep, LockStep, AdminStep DEF IndInv
<1> QED
  BY <1>1, InitInv, PTL DEF Spec

\* Every variable of the accounts and of the requests keeps its type.
THEOREM TypeCorrect == Spec => []TypeOK
<1>1. IndInv => TypeOK
  BY DEF IndInv
<1> QED
  BY <1>1, Inductive, PTL

\* However many administrators demote, suspend and delete each other at once,
\* one who can sign in is left.
THEOREM AdminAlwaysRemains == Spec => []AdminRemains
<1>1. IndInv => AdminRemains
  BY DEF IndInv
<1> QED
  BY <1>1, Inductive, PTL

=============================================================================
