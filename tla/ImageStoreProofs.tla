-------------------------- MODULE ImageStoreProofs --------------------------
(***************************************************************************)
(* The counters and the bytes of the images, and what becomes of the files *)
(* of those that are gone, for any number of images, accounts, processes   *)
(* and under every fault.                                                  *)
(***************************************************************************)
EXTENDS ImageStore, FiniteSetTheorems, TLAPS

\* A part of a finite set of images has a natural number of members and of bytes.
LEMMA Measures ==
  ASSUME NEW S \in SUBSET Images
  PROVE  /\ IsFiniteSet(S)
         /\ Cardinality(S) \in Nat
         /\ Bytes[S] \in Nat
  BY ImageAssumption, FS_Subset, FS_CardinalityType DEF ImageAssumption

\* GREATEST(0, n-k) is a natural number no larger than n.
LEMMA DecrementNat ==
  ASSUME NEW n \in Nat, NEW k \in Nat
  PROVE  Decrement(n, k) \in Nat /\ Decrement(n, k) <= n
  BY DEF Decrement

\* The database half of a removal and of a sweep keep the types of the tables.
LEMMA DeleteTypes ==
  ASSUME TypeOK, NEW r \in Removers, rimg[r] \in Images, DeleteTakesEffect(r)
  PROVE  /\ row' \in [Images -> {"none", "live", "deleted"}]
         /\ usedImages' \in [Users -> Nat]
         /\ usedBytes' \in [Users -> Nat]
         /\ \A u \in Users : usedImages'[u] <= usedImages[u] /\ usedBytes'[u] <= usedBytes[u]
         /\ UNCHANGED <<owner, expired, account>>
<1>1. Size(rimg[r]) \in Nat
  BY Measures DEF Size
<1>2. \A n \in Nat : /\ Decrement(n, 1) \in Nat /\ Decrement(n, 1) <= n
                     /\ Decrement(n, Size(rimg[r])) \in Nat /\ Decrement(n, Size(rimg[r])) <= n
  BY <1>1, DecrementNat
<1>3. \A u \in Users : /\ usedImages'[u] \in Nat /\ usedImages'[u] <= usedImages[u]
                       /\ usedBytes'[u] \in Nat /\ usedBytes'[u] <= usedBytes[u]
  <2> TAKE u \in Users
  <2>1. usedImages[u] \in Nat /\ usedBytes[u] \in Nat
    BY DEF TypeOK
  <2>2. \/ usedImages'[u] = usedImages[u] /\ usedBytes'[u] = usedBytes[u]
        \/ /\ usedImages'[u] = Decrement(usedImages[u], 1)
           /\ usedBytes'[u] = Decrement(usedBytes[u], Size(rimg[r]))
    BY DEF TypeOK, DeleteTakesEffect
  <2> QED
    BY <1>2, <2>1, <2>2
<1> QED
  BY <1>3 DEF TypeOK, DeleteTakesEffect

LEMMA SweepTypes ==
  ASSUME TypeOK, SweepTakesEffect
  PROVE  /\ row' \in [Images -> {"none", "live", "deleted"}]
         /\ usedImages' \in [Users -> Nat]
         /\ usedBytes' \in [Users -> Nat]
         /\ \A u \in Users : usedImages'[u] <= usedImages[u] /\ usedBytes'[u] <= usedBytes[u]
         /\ UNCHANGED <<owner, expired, account>>
<1>1. \A u \in Users : batch \cap Owned(u) \in SUBSET Images
  BY DEF TypeOK
<1>2. \A u \in Users : /\ Cardinality(batch \cap Owned(u)) \in Nat
                       /\ Bytes[batch \cap Owned(u)] \in Nat
  BY <1>1, Measures
<1>3. \A u \in Users : /\ usedImages'[u] \in Nat /\ usedImages'[u] <= usedImages[u]
                       /\ usedBytes'[u] \in Nat /\ usedBytes'[u] <= usedBytes[u]
  <2> TAKE u \in Users
  <2>1. /\ usedImages'[u] = Decrement(usedImages[u], Cardinality(batch \cap Owned(u)))
        /\ usedBytes'[u] = Decrement(usedBytes[u], Bytes[batch \cap Owned(u)])
    BY DEF SweepTakesEffect
  <2>2. usedImages[u] \in Nat /\ usedBytes[u] \in Nat
    BY DEF TypeOK
  <2> QED
    BY <1>2, <2>1, <2>2, DecrementNat
<1> QED
  BY <1>3 DEF TypeOK, SweepTakesEffect

\* The initial state is well typed, and every step keeps it so, action by action.
LEMMA TypeInit == Init => TypeOK
  BY ImageAssumption, Measures DEF ImageAssumption, Init, TypeOK, UploadPCs, RemoverPCs

LEMMA TypeStep == TypeOK /\ [Next]_vars => TypeOK'
<1> SUFFICES ASSUME TypeOK, [Next]_vars PROVE TypeOK'
  OBVIOUS
<1> USE ImageAssumption DEF ImageAssumption, UploadPCs, RemoverPCs, rowVars, userVars, quotaVars,
      storeVars, uploadVars, removerVars, sweepVars, workerVars, Leak, LeakIfDead
<1>1. ASSUME NEW i \in Images, NEW u \in Users \cup {NoUser}, UploadCheck(i, u) PROVE TypeOK'
  BY <1>1 DEF TypeOK, UploadCheck, SetUp
<1>2. ASSUME NEW i \in Images, NEW u \in Users \cup {NoUser}, UploadReject(i, u) PROVE TypeOK'
  BY <1>2 DEF TypeOK, UploadReject, SetUp
<1>3. ASSUME NEW i \in Images, StoreOriginal(i) PROVE TypeOK'
  BY <1>3 DEF TypeOK, StoreOriginal, SetUp
<1>4. ASSUME NEW i \in Images, LockOwner(i) PROVE TypeOK'
  BY <1>4 DEF TypeOK, LockOwner, SetUp
<1>5. ASSUME NEW i \in Images, CreateFails(i) PROVE TypeOK'
  BY <1>5 DEF TypeOK, CreateFails, SetUp
<1>6. ASSUME NEW i \in Images, CreateCommit(i) PROVE TypeOK'
  BY <1>6 DEF TypeOK, CreateCommit, CreateTakesEffect, SetUp, Size
<1>7. ASSUME NEW i \in Images, CreateUncertain(i) PROVE TypeOK'
  BY <1>7 DEF TypeOK, CreateUncertain, SetUp
<1>8. ASSUME NEW i \in Images, UncertainResolves(i) PROVE TypeOK'
  BY <1>8 DEF TypeOK, UncertainResolves, CreateTakesEffect, SetUp, Size
<1>9. ASSUME NEW i \in Images, Compensate(i) PROVE TypeOK'
  BY <1>9 DEF TypeOK, Compensate, SetUp
<1>10. ASSUME NEW i \in Images, Expire(i) PROVE TypeOK'
  BY <1>10 DEF TypeOK, Expire
<1>11. ASSUME NEW r \in Removers, NEW i \in Images, NEW kind \in {"delete", "burn"}, ReadImage(r, i, kind)
       PROVE  TypeOK'
  BY <1>11 DEF TypeOK, ReadImage
<1>12. ASSUME NEW r \in Removers, MarkDeleted(r) PROVE TypeOK'
  <2>1. CASE Advance(r, "marked")
    BY <1>12, <2>1 DEF TypeOK, MarkDeleted, Advance
  <2>2. CASE Retire(r)
    BY <1>12, <2>2 DEF TypeOK, MarkDeleted, Retire
  <2> QED
    BY <1>12, <2>1, <2>2 DEF MarkDeleted
<1>13. ASSUME NEW r \in Removers, RemoveCommit(r) PROVE TypeOK'
  <2>1. rimg[r] \in Images /\ DeleteTakesEffect(r)
    BY <1>13 DEF TypeOK, RemoveCommit
  <2> QED
    BY <1>13, <2>1, DeleteTypes DEF TypeOK, RemoveCommit, Advance
<1>14. ASSUME NEW r \in Removers, RemoveAbort(r) PROVE TypeOK'
  BY <1>14 DEF TypeOK, RemoveAbort, Retire
<1>15. ASSUME NEW r \in Removers, RemoveCommitLost(r) PROVE TypeOK'
  <2>1. rimg[r] \in Images /\ DeleteTakesEffect(r)
    BY <1>15 DEF TypeOK, RemoveCommitLost
  <2> QED
    BY <1>15, <2>1, DeleteTypes DEF TypeOK, RemoveCommitLost, Retire
<1>16. ASSUME NEW r \in Removers, ServeBurn(r) PROVE TypeOK'
  BY <1>16 DEF TypeOK, ServeBurn, Advance
<1>17. ASSUME NEW r \in Removers, RemoveOriginal(r) PROVE TypeOK'
  BY <1>17 DEF TypeOK, RemoveOriginal, Advance
<1>18. ASSUME NEW r \in Removers, RemoveThumb(r) PROVE TypeOK'
  BY <1>18 DEF TypeOK, RemoveThumb, Retire
<1>19. ASSUME SweepMark PROVE TypeOK'
  BY <1>19 DEF TypeOK, SweepMark
<1>20. ASSUME SweepCommit PROVE TypeOK'
  <2>1. SweepTakesEffect
    BY <1>20 DEF SweepCommit
  <2> QED
    BY <1>20, <2>1, SweepTypes DEF TypeOK, SweepCommit
<1>21. ASSUME SweepAbort PROVE TypeOK'
  BY <1>21 DEF TypeOK, SweepAbort, SweepIdle
<1>22. ASSUME SweepCommitLost PROVE TypeOK'
  <2>1. SweepTakesEffect
    BY <1>22 DEF SweepCommitLost
  <2> QED
    BY <1>22, <2>1, SweepTypes DEF TypeOK, SweepCommitLost, SweepIdle
<1>23. ASSUME NEW i \in Images, SweepOriginal(i) PROVE TypeOK'
  BY <1>23 DEF TypeOK, SweepOriginal
<1>24. ASSUME SweepThumb PROVE TypeOK'
  <2>1. /\ thumb' \subseteq Images /\ leaked' \subseteq Images /\ batch' \subseteq Images
        /\ current' = NoImage /\ spc' \in {"idle", "original"}
    BY <1>24 DEF TypeOK, SweepThumb
  <2> QED
    BY <1>24, <2>1 DEF TypeOK, SweepThumb
<1>25. ASSUME NEW w \in Workers, NEW i \in Images, ThumbRender(w, i) PROVE TypeOK'
  BY <1>25 DEF TypeOK, ThumbRender
<1>26. ASSUME NEW w \in Workers, ThumbPut(w) PROVE TypeOK'
  BY <1>26 DEF TypeOK, ThumbPut, WorkerIdle
<1>27. ASSUME NEW w \in Workers, ThumbMark(w) PROVE TypeOK'
  <2>1. leaked' \subseteq Images /\ wpc' \in [Workers -> {"idle", "rendered", "put", "undo"}]
    BY <1>27 DEF TypeOK, ThumbMark, WorkerIdle
  <2>2. /\ wimg' \in [Workers -> Images \cup {NoImage}]
        /\ \A v \in Workers : wpc'[v] # "idle" => wimg'[v] \in Images
    BY <1>27 DEF TypeOK, ThumbMark, WorkerIdle
  <2> QED
    BY <1>27, <2>1, <2>2 DEF TypeOK, ThumbMark
<1>28. ASSUME NEW w \in Workers, ThumbUndo(w) PROVE TypeOK'
  BY <1>28 DEF TypeOK, ThumbUndo, WorkerIdle
<1>29. ASSUME NEW u \in Users, DeleteUser(u) PROVE TypeOK'
  BY <1>29 DEF TypeOK, DeleteUser
<1>30. ASSUME NEW u \in Users, DeleteUserCommit(u) PROVE TypeOK'
  BY <1>30 DEF TypeOK, DeleteUserCommit
<1>31. ASSUME NEW u \in Users, DeleteUserAbort(u) PROVE TypeOK'
  BY <1>31 DEF TypeOK, DeleteUserAbort
<1>32. ASSUME NEW u \in Users, NEW q \in Quotas, SetQuota(u, q) PROVE TypeOK'
  BY <1>32 DEF TypeOK, SetQuota
<1>33. ASSUME Crash PROVE TypeOK'
  BY <1>33 DEF TypeOK, Crash, SweepIdle
<1>34. CASE UNCHANGED vars
  BY <1>34 DEF TypeOK, vars
<1> QED
  BY <1>1, <1>2, <1>3, <1>4, <1>5, <1>6, <1>7, <1>8, <1>9, <1>10, <1>11, <1>12, <1>13, <1>14,
     <1>15, <1>16, <1>17, <1>18, <1>19, <1>20, <1>21, <1>22, <1>23, <1>24, <1>25, <1>26, <1>27,
     <1>28, <1>29, <1>30, <1>31, <1>32, <1>33, <1>34
     DEF Next, UploadStep, RemoverStep, SweepStep, WorkerStep, AccountStep

\* A live row has its bytes, and a row or a file has one remover at most.
LEMMA StoreInit == Init => StoreInv
  BY ImageAssumption DEF ImageAssumption, Init, StoreInv, Holds

LEMMA StoreStep == TypeOK /\ StoreInv /\ [Next]_vars => StoreInv'
<1> SUFFICES ASSUME TypeOK, StoreInv, [Next]_vars PROVE StoreInv'
  OBVIOUS
<1> USE ImageAssumption DEF ImageAssumption, UploadPCs, RemoverPCs, rowVars, userVars, quotaVars,
      storeVars, uploadVars, removerVars, sweepVars, workerVars
<1>1. ASSUME NEW i \in Images, NEW u \in Users \cup {NoUser}, UploadCheck(i, u) PROVE StoreInv'
  BY <1>1 DEF TypeOK, StoreInv, Holds, ImageLocked, UploadCheck, SetUp
<1>2. ASSUME NEW i \in Images, NEW u \in Users \cup {NoUser}, UploadReject(i, u) PROVE StoreInv'
  BY <1>2 DEF TypeOK, StoreInv, Holds, ImageLocked, UploadReject, SetUp
<1>3. ASSUME NEW i \in Images, StoreOriginal(i) PROVE StoreInv'
  BY <1>3 DEF TypeOK, StoreInv, Holds, ImageLocked, StoreOriginal, SetUp
<1>4. ASSUME NEW i \in Images, LockOwner(i) PROVE StoreInv'
  BY <1>4 DEF TypeOK, StoreInv, Holds, ImageLocked, LockOwner, SetUp
<1>5. ASSUME NEW i \in Images, CreateFails(i) PROVE StoreInv'
  BY <1>5 DEF TypeOK, StoreInv, Holds, ImageLocked, CreateFails, SetUp
<1>6. ASSUME NEW i \in Images, CreateCommit(i) PROVE StoreInv'
  BY <1>6 DEF TypeOK, StoreInv, Holds, ImageLocked, CreateCommit, CreateTakesEffect, SetUp
<1>7. ASSUME NEW i \in Images, CreateUncertain(i) PROVE StoreInv'
  BY <1>7 DEF TypeOK, StoreInv, Holds, ImageLocked, CreateUncertain, SetUp
<1>8. ASSUME NEW i \in Images, UncertainResolves(i) PROVE StoreInv'
  BY <1>8 DEF TypeOK, StoreInv, Holds, ImageLocked, UncertainResolves, CreateTakesEffect, SetUp
<1>9. ASSUME NEW i \in Images, Compensate(i) PROVE StoreInv'
  BY <1>9 DEF TypeOK, StoreInv, Holds, ImageLocked, Compensate, SetUp
<1>10. ASSUME NEW i \in Images, Expire(i) PROVE StoreInv'
  BY <1>10 DEF TypeOK, StoreInv, Holds, ImageLocked, Expire
<1>11. ASSUME NEW r \in Removers, NEW i \in Images, NEW kind \in {"delete", "burn"}, ReadImage(r, i, kind)
       PROVE  StoreInv'
  BY <1>11 DEF TypeOK, StoreInv, Holds, ImageLocked, ReadImage
<1>12. ASSUME NEW r \in Removers, MarkDeleted(r) PROVE StoreInv'
  BY <1>12 DEF TypeOK, StoreInv, Holds, ImageLocked, MarkDeleted, Advance, Retire
<1>13. ASSUME NEW r \in Removers, RemoveCommit(r) PROVE StoreInv'
  BY <1>13 DEF TypeOK, StoreInv, Holds, ImageLocked, RemoveCommit, DeleteTakesEffect, Advance
<1>14. ASSUME NEW r \in Removers, RemoveAbort(r) PROVE StoreInv'
  BY <1>14 DEF TypeOK, StoreInv, Holds, ImageLocked, RemoveAbort, Retire
<1>15. ASSUME NEW r \in Removers, RemoveCommitLost(r) PROVE StoreInv'
  BY <1>15 DEF TypeOK, StoreInv, Holds, ImageLocked, RemoveCommitLost, DeleteTakesEffect, Retire
<1>16. ASSUME NEW r \in Removers, ServeBurn(r) PROVE StoreInv'
  BY <1>16 DEF TypeOK, StoreInv, Holds, ImageLocked, ServeBurn, Advance
<1>17. ASSUME NEW r \in Removers, RemoveOriginal(r) PROVE StoreInv'
  BY <1>17 DEF TypeOK, StoreInv, Holds, ImageLocked, RemoveOriginal, Advance
<1>18. ASSUME NEW r \in Removers, RemoveThumb(r) PROVE StoreInv'
  BY <1>18 DEF TypeOK, StoreInv, Holds, ImageLocked, RemoveThumb, Retire
<1>19. ASSUME SweepMark PROVE StoreInv'
  BY <1>19 DEF TypeOK, StoreInv, Holds, ImageLocked, SweepMark
<1>20. ASSUME SweepCommit PROVE StoreInv'
  BY <1>20 DEF TypeOK, StoreInv, Holds, ImageLocked, SweepCommit, SweepTakesEffect
<1>21. ASSUME SweepAbort PROVE StoreInv'
  BY <1>21 DEF TypeOK, StoreInv, Holds, ImageLocked, SweepAbort, SweepIdle
<1>22. ASSUME SweepCommitLost PROVE StoreInv'
  BY <1>22 DEF TypeOK, StoreInv, Holds, ImageLocked, SweepCommitLost, SweepTakesEffect, SweepIdle
<1>23. ASSUME NEW i \in Images, SweepOriginal(i) PROVE StoreInv'
  BY <1>23 DEF TypeOK, StoreInv, Holds, ImageLocked, SweepOriginal
<1>24. ASSUME SweepThumb PROVE StoreInv'
  BY <1>24 DEF TypeOK, StoreInv, Holds, ImageLocked, SweepThumb
<1>25. ASSUME NEW w \in Workers, NEW i \in Images, ThumbRender(w, i) PROVE StoreInv'
  BY <1>25 DEF TypeOK, StoreInv, Holds, ImageLocked, ThumbRender
<1>26. ASSUME NEW w \in Workers, ThumbPut(w) PROVE StoreInv'
  BY <1>26 DEF TypeOK, StoreInv, Holds, ImageLocked, ThumbPut, WorkerIdle
<1>27. ASSUME NEW w \in Workers, ThumbMark(w) PROVE StoreInv'
  BY <1>27 DEF TypeOK, StoreInv, Holds, ImageLocked, ThumbMark, WorkerIdle
<1>28. ASSUME NEW w \in Workers, ThumbUndo(w) PROVE StoreInv'
  BY <1>28 DEF TypeOK, StoreInv, Holds, ImageLocked, ThumbUndo, WorkerIdle
<1>29. ASSUME NEW u \in Users, DeleteUser(u) PROVE StoreInv'
  BY <1>29 DEF TypeOK, StoreInv, Holds, ImageLocked, DeleteUser
<1>30. ASSUME NEW u \in Users, DeleteUserCommit(u) PROVE StoreInv'
  BY <1>30 DEF TypeOK, StoreInv, Holds, ImageLocked, DeleteUserCommit
<1>31. ASSUME NEW u \in Users, DeleteUserAbort(u) PROVE StoreInv'
  BY <1>31 DEF TypeOK, StoreInv, Holds, ImageLocked, DeleteUserAbort
<1>32. ASSUME NEW u \in Users, NEW q \in Quotas, SetQuota(u, q) PROVE StoreInv'
  BY <1>32 DEF TypeOK, StoreInv, Holds, ImageLocked, SetQuota
<1>33. ASSUME Crash PROVE StoreInv'
  BY <1>33 DEF TypeOK, StoreInv, Holds, ImageLocked, Crash, SweepIdle
<1>34. CASE UNCHANGED vars
  BY <1>34 DEF TypeOK, StoreInv, Holds, ImageLocked, vars
<1> QED
  BY <1>1, <1>2, <1>3, <1>4, <1>5, <1>6, <1>7, <1>8, <1>9, <1>10, <1>11, <1>12, <1>13, <1>14,
     <1>15, <1>16, <1>17, <1>18, <1>19, <1>20, <1>21, <1>22, <1>23, <1>24, <1>25, <1>26, <1>27,
     <1>28, <1>29, <1>30, <1>31, <1>32, <1>33, <1>34
     DEF Next, UploadStep, RemoverStep, SweepStep, WorkerStep, AccountStep

\* An upload in its transaction has the row of its owner, and room in the quota.
LEMMA LockInit == Init => LockInv
  BY ImageAssumption DEF ImageAssumption, Init, LockInv, InTransaction

\* The commit of an upload: no other transaction has its owner's row, so the
\* room that other uploads found under their locks is not touched.
LEMMA CreateLock ==
  ASSUME TypeOK, StoreInv, LockInv, NEW i \in Images, InTransaction(i), row[i] = "none",
         CreateTakesEffect(i), SetUp(i, "done"), UNCHANGED <<quotaVars, removerVars>>
  PROVE  LockInv'
<1> USE DEF quotaVars, removerVars
<1>1. \A j \in Images : InTransaction(j)' => j # i /\ InTransaction(j) /\ uploader'[j] = uploader[j]
  BY DEF InTransaction, SetUp, TypeOK
<1>2. \A j \in Images : InTransaction(j)' /\ uploader[j] # NoUser => uploader[j] # uploader[i]
  BY <1>1 DEF LockInv
<1>3. \A u \in Users : u # uploader[i] => usedImages'[u] = usedImages[u] /\ usedBytes'[u] = usedBytes[u]
  BY DEF CreateTakesEffect, TypeOK
<1>4. \A j \in Images : InTransaction(j)' /\ uploader'[j] # NoUser =>
        /\ account'[uploader'[j]] = "present"
        /\ FitsQuota(j, uploader[j])'
  BY <1>1, <1>2, <1>3 DEF LockInv, FitsQuota, CreateTakesEffect, TypeOK
<1>5. uploader[i] # NoUser => account[uploader[i]] = "present"
  BY DEF LockInv
<1>6. \A j \in Images : /\ row'[j] = "none" => owner'[j] = NoUser
                        /\ owner'[j] # NoUser => account'[owner'[j]] # "gone"
  BY <1>5 DEF CreateTakesEffect, TypeOK, LockInv
<1>7. \A r \in Removers : rpc[r] # "idle" => rimg[r] # i
  BY DEF StoreInv
<1>8. \A r \in Removers : rpc'[r] # "idle" =>
        \/ rowner'[r] = owner'[rimg'[r]]
        \/ owner'[rimg'[r]] = NoUser /\ account'[rowner'[r]] = "gone"
  BY <1>7 DEF LockInv, CreateTakesEffect, TypeOK
<1>9. \A j, k \in Images :
        InTransaction(j)' /\ InTransaction(k)' /\ uploader'[j] = uploader'[k] /\ uploader'[j] # NoUser
          => j = k
  BY <1>1 DEF LockInv
<1> QED
  BY <1>4, <1>6, <1>8, <1>9 DEF LockInv

\* A sweep releases quota and never takes any.
LEMMA SweepLock ==
  ASSUME TypeOK, StoreInv, LockInv, SweepTakesEffect,
         \A i \in batch : row[i] = "live",
         UNCHANGED <<quotaVars, uploadVars, removerVars>>
  PROVE  LockInv'
<1> USE DEF quotaVars, uploadVars, removerVars
<1>1. /\ \A u \in Users : usedImages'[u] <= usedImages[u] /\ usedBytes'[u] <= usedBytes[u]
      /\ usedImages' \in [Users -> Nat] /\ usedBytes' \in [Users -> Nat]
      /\ UNCHANGED <<owner, expired, account>>
  BY SweepTypes
<1>2. \A i \in Images : Size(i) \in Nat
  BY Measures DEF Size
<1>3. \A i \in Images, u \in Users : FitsQuota(i, u) => FitsQuota(i, u)'
  <2> TAKE i \in Images, u \in Users
  <2>1. /\ Size(i) \in Nat /\ usedImages[u] \in Nat /\ usedBytes[u] \in Nat
        /\ quotaImages[u] \in Nat /\ quotaBytes[u] \in Nat
        /\ usedImages'[u] \in Nat /\ usedBytes'[u] \in Nat
    BY <1>1, <1>2 DEF TypeOK
  <2>2. usedImages'[u] <= usedImages[u] /\ usedBytes'[u] <= usedBytes[u]
    BY <1>1
  <2>3. Size(i)' = Size(i)
    BY DEF Size
  <2> QED
    BY <2>1, <2>2, <2>3 DEF FitsQuota
<1>4. \A i \in Images : InTransaction(i)' = InTransaction(i)
  BY DEF InTransaction
<1>5. \A i \in Images : row'[i] = "none" => row[i] = "none"
  BY DEF SweepTakesEffect, TypeOK
<1> QED
  BY <1>1, <1>3, <1>4, <1>5 DEF LockInv, TypeOK

LEMMA LockStep == TypeOK /\ StoreInv /\ LockInv /\ [Next]_vars => LockInv'
<1> SUFFICES ASSUME TypeOK, StoreInv, LockInv, [Next]_vars PROVE LockInv'
  OBVIOUS
<1> USE ImageAssumption DEF ImageAssumption, UploadPCs, RemoverPCs, rowVars, userVars, quotaVars,
      storeVars, uploadVars, removerVars, sweepVars, workerVars
<1>1. ASSUME NEW i \in Images, NEW u \in Users \cup {NoUser}, UploadCheck(i, u) PROVE LockInv'
  BY <1>1 DEF TypeOK, LockInv, InTransaction, UserLocked, ImageLocked, FitsQuota, UploadCheck, SetUp
<1>2. ASSUME NEW i \in Images, NEW u \in Users \cup {NoUser}, UploadReject(i, u) PROVE LockInv'
  BY <1>2
     DEF TypeOK, LockInv, InTransaction, UserLocked, ImageLocked, FitsQuota, UploadReject, SetUp
<1>3. ASSUME NEW i \in Images, StoreOriginal(i) PROVE LockInv'
  BY <1>3
     DEF TypeOK, LockInv, InTransaction, UserLocked, ImageLocked, FitsQuota, StoreOriginal, SetUp
<1>4. ASSUME NEW i \in Images, LockOwner(i) PROVE LockInv'
  BY <1>4 DEF TypeOK, LockInv, InTransaction, UserLocked, ImageLocked, FitsQuota, LockOwner, SetUp
<1>5. ASSUME NEW i \in Images, CreateFails(i) PROVE LockInv'
  BY <1>5 DEF TypeOK, LockInv, InTransaction, UserLocked, ImageLocked, FitsQuota, CreateFails, SetUp
<1>6. ASSUME NEW i \in Images, CreateCommit(i) PROVE LockInv'
  <2>1. InTransaction(i) /\ row[i] = "none"
    BY <1>6 DEF CreateCommit, InTransaction, StoreInv, TypeOK
  <2> QED
    BY <1>6, <2>1, CreateLock DEF CreateCommit
<1>7. ASSUME NEW i \in Images, CreateUncertain(i) PROVE LockInv'
  BY <1>7
     DEF TypeOK, LockInv, InTransaction, UserLocked, ImageLocked, FitsQuota, CreateUncertain,
         SetUp
<1>8. ASSUME NEW i \in Images, UncertainResolves(i) PROVE LockInv'
  <2>1. InTransaction(i) /\ row[i] = "none"
    BY <1>8 DEF UncertainResolves, InTransaction, StoreInv, TypeOK
  <2>2. CASE CreateTakesEffect(i)
    BY <1>8, <2>1, <2>2, CreateLock DEF UncertainResolves
  <2>3. CASE UNCHANGED <<rowVars, userVars>>
    <3>1. \A j \in Images : InTransaction(j)' => InTransaction(j) /\ uploader'[j] = uploader[j]
      BY <1>8 DEF TypeOK, InTransaction, UncertainResolves, SetUp
    <3> QED
      BY <1>8, <2>3, <3>1 DEF LockInv, FitsQuota, UncertainResolves
  <2> QED
    BY <1>8, <2>2, <2>3 DEF UncertainResolves
<1>9. ASSUME NEW i \in Images, Compensate(i) PROVE LockInv'
  BY <1>9 DEF TypeOK, LockInv, InTransaction, UserLocked, ImageLocked, FitsQuota, Compensate, SetUp
<1>10. ASSUME NEW i \in Images, Expire(i) PROVE LockInv'
  BY <1>10 DEF TypeOK, LockInv, InTransaction, UserLocked, ImageLocked, FitsQuota, Expire
<1>11. ASSUME NEW r \in Removers, NEW i \in Images, NEW kind \in {"delete", "burn"}, ReadImage(r, i, kind)
       PROVE  LockInv'
  BY <1>11 DEF TypeOK, LockInv, InTransaction, UserLocked, ImageLocked, FitsQuota, ReadImage
<1>12. ASSUME NEW r \in Removers, MarkDeleted(r) PROVE LockInv'
  BY <1>12
     DEF TypeOK, LockInv, InTransaction, UserLocked, ImageLocked, FitsQuota, MarkDeleted, Advance,
         Retire
<1>13. ASSUME NEW r \in Removers, RemoveCommit(r) PROVE LockInv'
  BY <1>13
     DEF TypeOK, LockInv, InTransaction, UserLocked, ImageLocked, FitsQuota, RemoveCommit,
         DeleteTakesEffect, Advance
<1>14. ASSUME NEW r \in Removers, RemoveAbort(r) PROVE LockInv'
  BY <1>14
     DEF TypeOK, LockInv, InTransaction, UserLocked, ImageLocked, FitsQuota, RemoveAbort, Retire
<1>15. ASSUME NEW r \in Removers, RemoveCommitLost(r) PROVE LockInv'
  BY <1>15
     DEF TypeOK, LockInv, InTransaction, UserLocked, ImageLocked, FitsQuota, RemoveCommitLost,
         DeleteTakesEffect, Retire
<1>16. ASSUME NEW r \in Removers, ServeBurn(r) PROVE LockInv'
  BY <1>16
     DEF TypeOK, LockInv, InTransaction, UserLocked, ImageLocked, FitsQuota, ServeBurn, Advance
<1>17. ASSUME NEW r \in Removers, RemoveOriginal(r) PROVE LockInv'
  BY <1>17
     DEF TypeOK, LockInv, InTransaction, UserLocked, ImageLocked, FitsQuota, RemoveOriginal,
         Advance
<1>18. ASSUME NEW r \in Removers, RemoveThumb(r) PROVE LockInv'
  BY <1>18
     DEF TypeOK, LockInv, InTransaction, UserLocked, ImageLocked, FitsQuota, RemoveThumb, Retire
<1>19. ASSUME SweepMark PROVE LockInv'
  BY <1>19 DEF TypeOK, LockInv, InTransaction, UserLocked, ImageLocked, FitsQuota, SweepMark
<1>20. ASSUME SweepCommit PROVE LockInv'
  <2>1. SweepTakesEffect
    BY <1>20 DEF SweepCommit
  <2> QED
    BY <1>20, <2>1, SweepLock DEF SweepCommit, StoreInv
<1>21. ASSUME SweepAbort PROVE LockInv'
  BY <1>21
     DEF TypeOK, LockInv, InTransaction, UserLocked, ImageLocked, FitsQuota, SweepAbort, SweepIdle
<1>22. ASSUME SweepCommitLost PROVE LockInv'
  <2>1. SweepTakesEffect
    BY <1>22 DEF SweepCommitLost
  <2> QED
    BY <1>22, <2>1, SweepLock DEF SweepCommitLost, StoreInv
<1>23. ASSUME NEW i \in Images, SweepOriginal(i) PROVE LockInv'
  BY <1>23 DEF TypeOK, LockInv, InTransaction, UserLocked, ImageLocked, FitsQuota, SweepOriginal
<1>24. ASSUME SweepThumb PROVE LockInv'
  BY <1>24 DEF TypeOK, LockInv, InTransaction, UserLocked, ImageLocked, FitsQuota, SweepThumb
<1>25. ASSUME NEW w \in Workers, NEW i \in Images, ThumbRender(w, i) PROVE LockInv'
  BY <1>25 DEF TypeOK, LockInv, InTransaction, UserLocked, ImageLocked, FitsQuota, ThumbRender
<1>26. ASSUME NEW w \in Workers, ThumbPut(w) PROVE LockInv'
  BY <1>26
     DEF TypeOK, LockInv, InTransaction, UserLocked, ImageLocked, FitsQuota, ThumbPut, WorkerIdle
<1>27. ASSUME NEW w \in Workers, ThumbMark(w) PROVE LockInv'
  BY <1>27
     DEF TypeOK, LockInv, InTransaction, UserLocked, ImageLocked, FitsQuota, ThumbMark, WorkerIdle
<1>28. ASSUME NEW w \in Workers, ThumbUndo(w) PROVE LockInv'
  BY <1>28
     DEF TypeOK, LockInv, InTransaction, UserLocked, ImageLocked, FitsQuota, ThumbUndo, WorkerIdle
<1>29. ASSUME NEW u \in Users, DeleteUser(u) PROVE LockInv'
  BY <1>29 DEF TypeOK, LockInv, InTransaction, UserLocked, ImageLocked, FitsQuota, DeleteUser
<1>30. ASSUME NEW u \in Users, DeleteUserCommit(u) PROVE LockInv'
  BY <1>30 DEF TypeOK, LockInv, InTransaction, UserLocked, ImageLocked, FitsQuota, DeleteUserCommit
<1>31. ASSUME NEW u \in Users, DeleteUserAbort(u) PROVE LockInv'
  BY <1>31 DEF TypeOK, LockInv, InTransaction, UserLocked, ImageLocked, FitsQuota, DeleteUserAbort
<1>32. ASSUME NEW u \in Users, NEW q \in Quotas, SetQuota(u, q) PROVE LockInv'
  BY <1>32 DEF TypeOK, LockInv, InTransaction, UserLocked, ImageLocked, FitsQuota, SetQuota
<1>33. ASSUME Crash PROVE LockInv'
  BY <1>33 DEF TypeOK, LockInv, InTransaction, UserLocked, ImageLocked, FitsQuota, Crash, SweepIdle
<1>34. CASE UNCHANGED vars
  BY <1>34 DEF TypeOK, LockInv, InTransaction, UserLocked, ImageLocked, FitsQuota, vars
<1> QED
  BY <1>1, <1>2, <1>3, <1>4, <1>5, <1>6, <1>7, <1>8, <1>9, <1>10, <1>11, <1>12, <1>13, <1>14,
     <1>15, <1>16, <1>17, <1>18, <1>19, <1>20, <1>21, <1>22, <1>23, <1>24, <1>25, <1>26, <1>27,
     <1>28, <1>29, <1>30, <1>31, <1>32, <1>33, <1>34
     DEF Next, UploadStep, RemoverStep, SweepStep, WorkerStep, AccountStep

-----------------------------------------------------------------------------
(* The counters are exact: a lemma for each effect on the tables *)

\* Cardinality and Bytes of a set of images and of a part of it.
LEMMA Difference ==
  ASSUME NEW S \in SUBSET Images, NEW T \in SUBSET Images
  PROVE  /\ Decrement(Cardinality(S), Cardinality(T \cap S)) = Cardinality(S \ T)
         /\ Decrement(Bytes[S], Bytes[T \cap S]) = Bytes[S \ T]
<1> DEFINE D == S \ T
           C == T \cap S
<1>1. D \in SUBSET Images /\ C \in SUBSET Images /\ D \cap C = {} /\ D \cup C = S
  OBVIOUS
<1>2. IsFiniteSet(D) /\ IsFiniteSet(C)
  BY <1>1, Measures
<1>3. /\ Cardinality(D) \in Nat /\ Cardinality(C) \in Nat /\ Bytes[D] \in Nat /\ Bytes[C] \in Nat
  BY <1>1, Measures
<1>4. Cardinality(S) = Cardinality(D) + Cardinality(C)
  <2>1. Cardinality(D \cup C) = Cardinality(D) + Cardinality(C) - Cardinality(D \cap C)
    BY <1>2, FS_Union
  <2>2. Cardinality(D \cap C) = 0 /\ Cardinality(D \cup C) = Cardinality(S)
    BY <1>1, FS_EmptySet
  <2> HIDE DEF D, C
  <2> QED
    BY <1>3, <2>1, <2>2
<1>5. Bytes[S] = Bytes[D] + Bytes[C]
  BY <1>1, ImageAssumption DEF ImageAssumption
<1> HIDE DEF D, C
<1>6. /\ Decrement(Cardinality(S), Cardinality(C)) = Cardinality(D)
      /\ Decrement(Bytes[S], Bytes[C]) = Bytes[D]
  BY <1>3, <1>4, <1>5 DEF Decrement
<1> QED
  BY <1>6 DEF D, C

\* One image counts for one.
LEMMA Singleton ==
  ASSUME NEW i \in Images
  PROVE  Cardinality({i}) = 1 /\ Size(i) \in Nat
  BY FS_Singleton, Measures DEF Size

\* What a step that leaves rows, owners and counters alone may do to accounts.
LEMMA QuotaFrame ==
  ASSUME QuotaExact, UNCHANGED <<row, owner, usedImages, usedBytes>>,
         \A u \in Users : account'[u] # "gone" => account[u] # "gone"
  PROVE  QuotaExact'
  BY DEF QuotaExact, Owned

\* The commit of an upload adds one image to one account, or to none.
LEMMA CreateExact ==
  ASSUME TypeOK, LockInv, QuotaExact, NEW i \in Images, row[i] = "none", CreateTakesEffect(i)
  PROVE  QuotaExact'
<1> DEFINE u == uploader[i]
<1>1. \A v \in Users : Owned(v) \in SUBSET Images /\ i \notin Owned(v)
  BY DEF Owned
<1>2. \A v \in Users : Owned(v)' = IF v = u THEN Owned(v) \cup {i} ELSE Owned(v)
  BY ImageAssumption DEF ImageAssumption, Owned, CreateTakesEffect, TypeOK
<1>3. \A v \in Users : account'[v] = account[v]
  BY DEF CreateTakesEffect
<1> SUFFICES ASSUME NEW v \in Users, account[v] # "gone"
             PROVE  usedImages'[v] = Cardinality(Owned(v)') /\ usedBytes'[v] = Bytes[Owned(v)']
  BY <1>3 DEF QuotaExact
<1>4. /\ usedImages[v] = Cardinality(Owned(v)) /\ usedBytes[v] = Bytes[Owned(v)]
      /\ IsFiniteSet(Owned(v))
  BY <1>1, Measures DEF QuotaExact
<1>5. CASE v # u
  BY <1>2, <1>4, <1>5 DEF CreateTakesEffect, TypeOK
<1>6. CASE v = u
  <2>1. /\ usedImages'[v] = usedImages[v] + 1 /\ usedBytes'[v] = usedBytes[v] + Size(i)
    BY <1>6, ImageAssumption DEF ImageAssumption, CreateTakesEffect, TypeOK
  <2>2. Cardinality(Owned(v) \cup {i}) = Cardinality(Owned(v)) + 1
    BY <1>1, <1>4, FS_AddElement
  <2>3. Bytes[Owned(v) \cup {i}] = Bytes[Owned(v)] + Size(i)
    <3>1. Owned(v) \in SUBSET Images /\ {i} \in SUBSET Images /\ Owned(v) \cap {i} = {}
      BY <1>1
    <3> QED
      BY <3>1, ImageAssumption DEF ImageAssumption, Size
  <2> QED
    BY <1>2, <1>4, <1>6, <2>1, <2>2, <2>3
<1> QED
  BY <1>5, <1>6

\* A removal takes the image from the account its row names now, although the
\* handler read the owner earlier.
LEMMA DeleteExact ==
  ASSUME TypeOK, StoreInv, LockInv, QuotaExact,
         NEW r \in Removers, rpc[r] = "marked", DeleteTakesEffect(r)
  PROVE  QuotaExact'
<1> DEFINE i == rimg[r]
           u == rowner[r]
<1>1. i \in Images /\ row[i] = "live"
  BY DEF TypeOK, StoreInv
<1>2. \A v \in Users : Owned(v) \in SUBSET Images /\ Owned(v)' = Owned(v) \ {i}
  BY <1>1 DEF Owned, DeleteTakesEffect, TypeOK
<1>3. \A v \in Users : account'[v] = account[v]
  BY DEF DeleteTakesEffect
<1> SUFFICES ASSUME NEW v \in Users, account[v] # "gone"
             PROVE  usedImages'[v] = Cardinality(Owned(v)') /\ usedBytes'[v] = Bytes[Owned(v)']
  BY <1>3 DEF QuotaExact
<1>4. usedImages[v] = Cardinality(Owned(v)) /\ usedBytes[v] = Bytes[Owned(v)]
  BY DEF QuotaExact
<1>5. owner[i] = v => u = v
  BY <1>1, ImageAssumption DEF ImageAssumption, LockInv, TypeOK
<1>6. u = v => owner[i] = v
  BY <1>1 DEF LockInv, TypeOK
<1>7. CASE owner[i] # v
  <2>1. Owned(v)' = Owned(v)
    BY <1>2, <1>7 DEF Owned
  <2>2. usedImages'[v] = usedImages[v] /\ usedBytes'[v] = usedBytes[v]
    BY <1>6, <1>7 DEF DeleteTakesEffect, TypeOK
  <2> QED
    BY <1>4, <2>1, <2>2
<1>8. CASE owner[i] = v
  <2>1. account[u] = "present"
    BY <1>5, <1>8, ImageAssumption DEF ImageAssumption, DeleteTakesEffect, UserLocked, TypeOK
  <2>2. /\ usedImages'[v] = Decrement(usedImages[v], 1)
        /\ usedBytes'[v] = Decrement(usedBytes[v], Size(i))
    BY <1>5, <1>8, <2>1, ImageAssumption DEF ImageAssumption, DeleteTakesEffect, TypeOK
  <2>3. {i} \cap Owned(v) = {i}
    BY <1>1, <1>8 DEF Owned
  <2>4. /\ Decrement(Cardinality(Owned(v)), Cardinality({i})) = Cardinality(Owned(v) \ {i})
        /\ Decrement(Bytes[Owned(v)], Bytes[{i}]) = Bytes[Owned(v) \ {i}]
    BY <1>1, <1>2, <2>3, Difference
  <2>5. Cardinality({i}) = 1
    BY <1>1, Singleton
  <2> QED
    BY <1>2, <1>4, <2>2, <2>4, <2>5 DEF Size
<1> QED
  BY <1>7, <1>8

\* A sweep takes from each account what it owned of the batch.
LEMMA SweepExact ==
  ASSUME TypeOK, QuotaExact, SweepTakesEffect
  PROVE  QuotaExact'
<1>1. \A v \in Users : Owned(v) \in SUBSET Images /\ Owned(v)' = Owned(v) \ batch
  BY DEF Owned, SweepTakesEffect, TypeOK
<1>2. \A v \in Users : account'[v] = account[v]
  BY DEF SweepTakesEffect
<1> SUFFICES ASSUME NEW v \in Users, account[v] # "gone"
             PROVE  usedImages'[v] = Cardinality(Owned(v)') /\ usedBytes'[v] = Bytes[Owned(v)']
  BY <1>2 DEF QuotaExact
<1>3. usedImages[v] = Cardinality(Owned(v)) /\ usedBytes[v] = Bytes[Owned(v)]
  BY DEF QuotaExact
<1>4. /\ usedImages'[v] = Decrement(usedImages[v], Cardinality(batch \cap Owned(v)))
      /\ usedBytes'[v] = Decrement(usedBytes[v], Bytes[batch \cap Owned(v)])
  BY DEF SweepTakesEffect
<1>5. batch \in SUBSET Images
  BY DEF TypeOK
<1>6. /\ Decrement(Cardinality(Owned(v)), Cardinality(batch \cap Owned(v))) = Cardinality(Owned(v) \ batch)
      /\ Decrement(Bytes[Owned(v)], Bytes[batch \cap Owned(v)]) = Bytes[Owned(v) \ batch]
  BY <1>1, <1>5, Difference
<1>7. Owned(v)' = Owned(v) \ batch
  BY <1>1
<1> QED
  BY <1>3, <1>4, <1>6, <1>7

\* The rows of a removed account become anonymous; the other accounts keep theirs.
LEMMA DeleteUserExact ==
  ASSUME TypeOK, QuotaExact, NEW u \in Users, DeleteUserCommit(u)
  PROVE  QuotaExact'
<1>1. \A v \in Users : v # u => Owned(v)' = Owned(v)
  BY ImageAssumption DEF ImageAssumption, Owned, DeleteUserCommit, TypeOK
<1>2. account'[u] = "gone" /\ \A v \in Users : v # u => account'[v] = account[v]
  BY DEF DeleteUserCommit, TypeOK
<1>3. \A v \in Users : v # u => usedImages'[v] = usedImages[v] /\ usedBytes'[v] = usedBytes[v]
  BY DEF DeleteUserCommit, TypeOK
<1> QED
  BY <1>1, <1>2, <1>3 DEF QuotaExact

\* The counters of the legacy images are exact at the start.
LEMMA QuotaInit == Init => QuotaExact
<1> SUFFICES ASSUME Init, NEW u \in Users
             PROVE  usedImages[u] = Cardinality(Owned(u)) /\ usedBytes[u] = Bytes[Owned(u)]
  BY DEF QuotaExact
<1>1. Owned(u) = {i \in Legacy : LegacyOwner[i] = u}
  BY ImageAssumption DEF ImageAssumption, Owned, Init
<1> QED
  BY <1>1 DEF Init

\* Every action keeps the counters exact: four have an effect on the tables, the
\* others are frames.
LEMMA QuotaStep == TypeOK /\ StoreInv /\ LockInv /\ QuotaExact /\ [Next]_vars => QuotaExact'
<1> SUFFICES ASSUME TypeOK, StoreInv, LockInv, QuotaExact, [Next]_vars PROVE QuotaExact'
  OBVIOUS
<1> USE DEF rowVars, userVars, quotaVars, storeVars, uploadVars, removerVars, sweepVars, workerVars
<1>1. ASSUME NEW i \in Images, NEW u \in Users \cup {NoUser}, UploadCheck(i, u) PROVE QuotaExact'
  BY <1>1, QuotaFrame DEF UploadCheck
<1>2. ASSUME NEW i \in Images, NEW u \in Users \cup {NoUser}, UploadReject(i, u) PROVE QuotaExact'
  BY <1>2, QuotaFrame DEF UploadReject
<1>3. ASSUME NEW i \in Images, StoreOriginal(i) PROVE QuotaExact'
  BY <1>3, QuotaFrame DEF StoreOriginal
<1>4. ASSUME NEW i \in Images, LockOwner(i) PROVE QuotaExact'
  BY <1>4, QuotaFrame DEF LockOwner
<1>5. ASSUME NEW i \in Images, CreateFails(i) PROVE QuotaExact'
  BY <1>5, QuotaFrame DEF CreateFails
<1>6. ASSUME NEW i \in Images, CreateCommit(i) PROVE QuotaExact'
  <2>1. row[i] = "none"
    BY <1>6 DEF CreateCommit, StoreInv, TypeOK
  <2> QED
    BY <1>6, <2>1, CreateExact DEF CreateCommit
<1>7. ASSUME NEW i \in Images, CreateUncertain(i) PROVE QuotaExact'
  BY <1>7, QuotaFrame DEF CreateUncertain
<1>8. ASSUME NEW i \in Images, UncertainResolves(i) PROVE QuotaExact'
  <2>1. row[i] = "none"
    BY <1>8 DEF UncertainResolves, StoreInv, TypeOK
  <2>2. CASE CreateTakesEffect(i)
    BY <2>1, <2>2, CreateExact
  <2>3. CASE UNCHANGED <<rowVars, userVars>>
    BY <2>3, QuotaFrame
  <2> QED
    BY <1>8, <2>2, <2>3 DEF UncertainResolves
<1>9. ASSUME NEW i \in Images, Compensate(i) PROVE QuotaExact'
  BY <1>9, QuotaFrame DEF Compensate
<1>10. ASSUME NEW i \in Images, Expire(i) PROVE QuotaExact'
  BY <1>10, QuotaFrame DEF Expire
<1>11. ASSUME NEW r \in Removers, NEW i \in Images, NEW kind \in {"delete", "burn"}, ReadImage(r, i, kind)
       PROVE  QuotaExact'
  BY <1>11, QuotaFrame DEF ReadImage
<1>12. ASSUME NEW r \in Removers, MarkDeleted(r) PROVE QuotaExact'
  BY <1>12, QuotaFrame DEF MarkDeleted
<1>13. ASSUME NEW r \in Removers, RemoveCommit(r) PROVE QuotaExact'
  BY <1>13, DeleteExact DEF RemoveCommit
<1>14. ASSUME NEW r \in Removers, RemoveAbort(r) PROVE QuotaExact'
  BY <1>14, QuotaFrame DEF RemoveAbort
<1>15. ASSUME NEW r \in Removers, RemoveCommitLost(r) PROVE QuotaExact'
  BY <1>15, DeleteExact DEF RemoveCommitLost
<1>16. ASSUME NEW r \in Removers, ServeBurn(r) PROVE QuotaExact'
  BY <1>16, QuotaFrame DEF ServeBurn
<1>17. ASSUME NEW r \in Removers, RemoveOriginal(r) PROVE QuotaExact'
  BY <1>17, QuotaFrame DEF RemoveOriginal
<1>18. ASSUME NEW r \in Removers, RemoveThumb(r) PROVE QuotaExact'
  BY <1>18, QuotaFrame DEF RemoveThumb
<1>19. ASSUME SweepMark PROVE QuotaExact'
  BY <1>19, QuotaFrame DEF SweepMark
<1>20. ASSUME SweepCommit PROVE QuotaExact'
  BY <1>20, SweepExact DEF SweepCommit
<1>21. ASSUME SweepAbort PROVE QuotaExact'
  BY <1>21, QuotaFrame DEF SweepAbort
<1>22. ASSUME SweepCommitLost PROVE QuotaExact'
  BY <1>22, SweepExact DEF SweepCommitLost
<1>23. ASSUME NEW i \in Images, SweepOriginal(i) PROVE QuotaExact'
  BY <1>23, QuotaFrame DEF SweepOriginal
<1>24. ASSUME SweepThumb PROVE QuotaExact'
  BY <1>24, QuotaFrame DEF SweepThumb
<1>25. ASSUME NEW w \in Workers, NEW i \in Images, ThumbRender(w, i) PROVE QuotaExact'
  BY <1>25, QuotaFrame DEF ThumbRender
<1>26. ASSUME NEW w \in Workers, ThumbPut(w) PROVE QuotaExact'
  BY <1>26, QuotaFrame DEF ThumbPut
<1>27. ASSUME NEW w \in Workers, ThumbMark(w) PROVE QuotaExact'
  BY <1>27, QuotaFrame DEF ThumbMark
<1>28. ASSUME NEW w \in Workers, ThumbUndo(w) PROVE QuotaExact'
  BY <1>28, QuotaFrame DEF ThumbUndo
<1>29. ASSUME NEW u \in Users, DeleteUser(u) PROVE QuotaExact'
  BY <1>29, QuotaFrame DEF DeleteUser, TypeOK
<1>30. ASSUME NEW u \in Users, DeleteUserCommit(u) PROVE QuotaExact'
  BY <1>30, DeleteUserExact
<1>31. ASSUME NEW u \in Users, DeleteUserAbort(u) PROVE QuotaExact'
  BY <1>31, QuotaFrame DEF DeleteUserAbort, TypeOK
<1>32. ASSUME NEW u \in Users, NEW q \in Quotas, SetQuota(u, q) PROVE QuotaExact'
  BY <1>32, QuotaFrame DEF SetQuota
<1>33. ASSUME Crash PROVE QuotaExact'
  BY <1>33, QuotaFrame DEF Crash, TypeOK
<1>34. CASE UNCHANGED vars
  BY <1>34, QuotaFrame DEF vars
<1> QED
  BY <1>1, <1>2, <1>3, <1>4, <1>5, <1>6, <1>7, <1>8, <1>9, <1>10, <1>11, <1>12, <1>13, <1>14,
     <1>15, <1>16, <1>17, <1>18, <1>19, <1>20, <1>21, <1>22, <1>23, <1>24, <1>25, <1>26, <1>27,
     <1>28, <1>29, <1>30, <1>31, <1>32, <1>33, <1>34
     DEF Next, UploadStep, RemoverStep, SweepStep, WorkerStep, AccountStep

\* The two commits of an upload are the only steps that raise a counter, and the
\* room they found under the lock is still there.
LEMMA CreateFits ==
  ASSUME TypeOK, LockInv, NEW i \in Images, InTransaction(i), CreateTakesEffect(i),
         UNCHANGED quotaVars
  PROVE  RiseFitsQuota
<1> SUFFICES ASSUME NEW u \in Users
             PROVE  /\ usedImages'[u] > usedImages[u] => usedImages'[u] <= quotaImages'[u]
                    /\ usedBytes'[u] > usedBytes[u] => usedBytes'[u] <= quotaBytes'[u]
  BY DEF RiseFitsQuota
<1>1. /\ usedImages[u] \in Nat /\ usedBytes[u] \in Nat
      /\ quotaImages[u] \in Nat /\ quotaBytes[u] \in Nat
      /\ Size(i) \in Nat
  BY Singleton DEF TypeOK
<1>2. CASE u # uploader[i]
  BY <1>1, <1>2 DEF CreateTakesEffect, TypeOK
<1>3. CASE u = uploader[i]
  <2>1. FitsQuota(i, u)
    BY <1>3, ImageAssumption DEF ImageAssumption, LockInv
  <2>2. usedImages'[u] = usedImages[u] + 1 /\ usedBytes'[u] = usedBytes[u] + Size(i)
    BY <1>3, ImageAssumption DEF ImageAssumption, CreateTakesEffect, TypeOK
  <2> QED
    BY <1>1, <2>1, <2>2 DEF FitsQuota, quotaVars
<1> QED
  BY <1>2, <1>3

\* A step after which no counter is larger.
LEMMA FallFits ==
  ASSUME TypeOK, TypeOK',
         \A u \in Users : usedImages'[u] <= usedImages[u] /\ usedBytes'[u] <= usedBytes[u]
  PROVE  RiseFitsQuota
  BY DEF RiseFitsQuota, TypeOK

\* No action but the commit of an upload raises a counter.
LEMMA RespectStep == TypeOK /\ LockInv /\ [Next]_vars => RiseFitsQuota
<1> SUFFICES ASSUME TypeOK, LockInv, [Next]_vars PROVE RiseFitsQuota
  OBVIOUS
<1>a. TypeOK'
  BY TypeStep
<1>b. UNCHANGED <<usedImages, usedBytes>> => RiseFitsQuota
  BY <1>a, FallFits DEF TypeOK
<1> USE DEF rowVars, userVars, quotaVars, storeVars, uploadVars, removerVars, sweepVars, workerVars
<1>1. ASSUME NEW i \in Images, NEW u \in Users \cup {NoUser}, UploadCheck(i, u) PROVE RiseFitsQuota
  BY <1>1, <1>b DEF UploadCheck
<1>2. ASSUME NEW i \in Images, NEW u \in Users \cup {NoUser}, UploadReject(i, u) PROVE RiseFitsQuota
  BY <1>2, <1>b DEF UploadReject
<1>3. ASSUME NEW i \in Images, StoreOriginal(i) PROVE RiseFitsQuota
  BY <1>3, <1>b DEF StoreOriginal
<1>4. ASSUME NEW i \in Images, LockOwner(i) PROVE RiseFitsQuota
  BY <1>4, <1>b DEF LockOwner
<1>5. ASSUME NEW i \in Images, CreateFails(i) PROVE RiseFitsQuota
  BY <1>5, <1>b DEF CreateFails
<1>6. ASSUME NEW i \in Images, CreateCommit(i) PROVE RiseFitsQuota
  BY <1>6, CreateFits DEF CreateCommit, InTransaction
<1>7. ASSUME NEW i \in Images, CreateUncertain(i) PROVE RiseFitsQuota
  BY <1>7, <1>b DEF CreateUncertain
<1>8. ASSUME NEW i \in Images, UncertainResolves(i) PROVE RiseFitsQuota
  BY <1>8, <1>b, CreateFits DEF UncertainResolves, InTransaction
<1>9. ASSUME NEW i \in Images, Compensate(i) PROVE RiseFitsQuota
  BY <1>9, <1>b DEF Compensate
<1>10. ASSUME NEW i \in Images, Expire(i) PROVE RiseFitsQuota
  BY <1>10, <1>b DEF Expire
<1>11. ASSUME NEW r \in Removers, NEW i \in Images, NEW kind \in {"delete", "burn"}, ReadImage(r, i, kind)
       PROVE  RiseFitsQuota
  BY <1>11, <1>b DEF ReadImage
<1>12. ASSUME NEW r \in Removers, MarkDeleted(r) PROVE RiseFitsQuota
  BY <1>12, <1>b DEF MarkDeleted
<1>13. ASSUME NEW r \in Removers, RemoveCommit(r) PROVE RiseFitsQuota
  BY <1>13, <1>a, DeleteTypes, FallFits DEF RemoveCommit, TypeOK
<1>14. ASSUME NEW r \in Removers, RemoveAbort(r) PROVE RiseFitsQuota
  BY <1>14, <1>b DEF RemoveAbort
<1>15. ASSUME NEW r \in Removers, RemoveCommitLost(r) PROVE RiseFitsQuota
  BY <1>15, <1>a, DeleteTypes, FallFits DEF RemoveCommitLost, TypeOK
<1>16. ASSUME NEW r \in Removers, ServeBurn(r) PROVE RiseFitsQuota
  BY <1>16, <1>b DEF ServeBurn
<1>17. ASSUME NEW r \in Removers, RemoveOriginal(r) PROVE RiseFitsQuota
  BY <1>17, <1>b DEF RemoveOriginal
<1>18. ASSUME NEW r \in Removers, RemoveThumb(r) PROVE RiseFitsQuota
  BY <1>18, <1>b DEF RemoveThumb
<1>19. ASSUME SweepMark PROVE RiseFitsQuota
  BY <1>19, <1>b DEF SweepMark
<1>20. ASSUME SweepCommit PROVE RiseFitsQuota
  BY <1>20, <1>a, SweepTypes, FallFits DEF SweepCommit
<1>21. ASSUME SweepAbort PROVE RiseFitsQuota
  BY <1>21, <1>b DEF SweepAbort
<1>22. ASSUME SweepCommitLost PROVE RiseFitsQuota
  BY <1>22, <1>a, SweepTypes, FallFits DEF SweepCommitLost
<1>23. ASSUME NEW i \in Images, SweepOriginal(i) PROVE RiseFitsQuota
  BY <1>23, <1>b DEF SweepOriginal
<1>24. ASSUME SweepThumb PROVE RiseFitsQuota
  BY <1>24, <1>b DEF SweepThumb
<1>25. ASSUME NEW w \in Workers, NEW i \in Images, ThumbRender(w, i) PROVE RiseFitsQuota
  BY <1>25, <1>b DEF ThumbRender
<1>26. ASSUME NEW w \in Workers, ThumbPut(w) PROVE RiseFitsQuota
  BY <1>26, <1>b DEF ThumbPut
<1>27. ASSUME NEW w \in Workers, ThumbMark(w) PROVE RiseFitsQuota
  BY <1>27, <1>b DEF ThumbMark
<1>28. ASSUME NEW w \in Workers, ThumbUndo(w) PROVE RiseFitsQuota
  BY <1>28, <1>b DEF ThumbUndo
<1>29. ASSUME NEW u \in Users, DeleteUser(u) PROVE RiseFitsQuota
  BY <1>29, <1>b DEF DeleteUser
<1>30. ASSUME NEW u \in Users, DeleteUserCommit(u) PROVE RiseFitsQuota
  BY <1>30, <1>a DEF DeleteUserCommit, RiseFitsQuota, TypeOK
<1>31. ASSUME NEW u \in Users, DeleteUserAbort(u) PROVE RiseFitsQuota
  BY <1>31, <1>b DEF DeleteUserAbort
<1>32. ASSUME NEW u \in Users, NEW q \in Quotas, SetQuota(u, q) PROVE RiseFitsQuota
  BY <1>32, <1>b DEF SetQuota
<1>33. ASSUME Crash PROVE RiseFitsQuota
  BY <1>33, <1>b DEF Crash
<1>34. CASE UNCHANGED vars
  BY <1>34, <1>b DEF vars
<1> QED
  BY <1>1, <1>2, <1>3, <1>4, <1>5, <1>6, <1>7, <1>8, <1>9, <1>10, <1>11, <1>12, <1>13, <1>14,
     <1>15, <1>16, <1>17, <1>18, <1>19, <1>20, <1>21, <1>22, <1>23, <1>24, <1>25, <1>26, <1>27,
     <1>28, <1>29, <1>30, <1>31, <1>32, <1>33, <1>34
     DEF Next, UploadStep, RemoverStep, SweepStep, WorkerStep, AccountStep

\* Where the files come from, kept by every step.
LEMMA FileOriginsInit == Init => FileOrigins
  BY ImageAssumption DEF ImageAssumption, Init, FileOrigins

LEMMA FileOriginsStep == TypeOK /\ StoreInv /\ FileOrigins /\ [Next]_vars => FileOrigins'
<1> SUFFICES ASSUME TypeOK, StoreInv, FileOrigins, [Next]_vars PROVE FileOrigins'
  OBVIOUS
<1> USE ImageAssumption DEF ImageAssumption, rowVars, userVars, quotaVars, storeVars, uploadVars,
      removerVars, sweepVars, workerVars,
      TypeOK, StoreInv, FileOrigins
<1>1. ASSUME NEW i \in Images, NEW u \in Users \cup {NoUser}, UploadCheck(i, u)
       PROVE  FileOrigins'
  BY <1>1 DEF UploadCheck, SetUp
<1>2. ASSUME NEW i \in Images, NEW u \in Users \cup {NoUser}, UploadReject(i, u)
       PROVE  FileOrigins'
  BY <1>2 DEF UploadReject, SetUp
<1>3. ASSUME NEW i \in Images, StoreOriginal(i) PROVE FileOrigins'
  BY <1>3 DEF StoreOriginal, SetUp, Leak
<1>4. ASSUME NEW i \in Images, LockOwner(i) PROVE FileOrigins'
  BY <1>4 DEF LockOwner, SetUp
<1>5. ASSUME NEW i \in Images, CreateFails(i) PROVE FileOrigins'
  BY <1>5 DEF CreateFails, SetUp
<1>6. ASSUME NEW i \in Images, CreateCommit(i) PROVE FileOrigins'
  BY <1>6 DEF CreateCommit, CreateTakesEffect, SetUp
<1>7. ASSUME NEW i \in Images, CreateUncertain(i) PROVE FileOrigins'
  BY <1>7 DEF CreateUncertain, SetUp
<1>8. ASSUME NEW i \in Images, UncertainResolves(i) PROVE FileOrigins'
  BY <1>8 DEF UncertainResolves, CreateTakesEffect, SetUp, Leak
<1>9. ASSUME NEW i \in Images, Compensate(i) PROVE FileOrigins'
  BY <1>9 DEF Compensate, SetUp, Leak
<1>10. ASSUME NEW i \in Images, Expire(i) PROVE FileOrigins'
  BY <1>10 DEF Expire
<1>11. ASSUME NEW r \in Removers, NEW i \in Images, NEW kind \in {"delete", "burn"}, ReadImage(r, i, kind)
       PROVE  FileOrigins'
  BY <1>11 DEF ReadImage
<1>12. ASSUME NEW r \in Removers, MarkDeleted(r) PROVE FileOrigins'
  BY <1>12 DEF MarkDeleted, Advance, Retire
<1>13. ASSUME NEW r \in Removers, RemoveCommit(r) PROVE FileOrigins'
  BY <1>13 DEF RemoveCommit, DeleteTakesEffect, Advance
<1>14. ASSUME NEW r \in Removers, RemoveAbort(r) PROVE FileOrigins'
  BY <1>14 DEF RemoveAbort, Retire
<1>15. ASSUME NEW r \in Removers, RemoveCommitLost(r) PROVE FileOrigins'
  BY <1>15 DEF RemoveCommitLost, DeleteTakesEffect, Retire, Leak
<1>16. ASSUME NEW r \in Removers, ServeBurn(r) PROVE FileOrigins'
  BY <1>16 DEF ServeBurn, Advance
<1>17. ASSUME NEW r \in Removers, RemoveOriginal(r) PROVE FileOrigins'
  BY <1>17 DEF RemoveOriginal, Advance, Leak
<1>18. ASSUME NEW r \in Removers, RemoveThumb(r) PROVE FileOrigins'
  BY <1>18 DEF RemoveThumb, Retire, Leak
<1>19. ASSUME SweepMark PROVE FileOrigins'
  BY <1>19 DEF SweepMark
<1>20. ASSUME SweepCommit PROVE FileOrigins'
  BY <1>20 DEF SweepCommit, SweepTakesEffect
<1>21. ASSUME SweepAbort PROVE FileOrigins'
  BY <1>21 DEF SweepAbort, SweepIdle
<1>22. ASSUME SweepCommitLost PROVE FileOrigins'
  BY <1>22 DEF SweepCommitLost, SweepTakesEffect, SweepIdle, Leak
<1>23. ASSUME NEW i \in Images, SweepOriginal(i) PROVE FileOrigins'
  BY <1>23 DEF SweepOriginal, Leak
<1>24. ASSUME SweepThumb PROVE FileOrigins'
  BY <1>24 DEF SweepThumb, Leak
<1>25. ASSUME NEW w \in Workers, NEW i \in Images, ThumbRender(w, i) PROVE FileOrigins'
  BY <1>25 DEF ThumbRender
<1>26. ASSUME NEW w \in Workers, ThumbPut(w) PROVE FileOrigins'
  BY <1>26 DEF ThumbPut, WorkerIdle, LeakIfDead, Leak
<1>27. ASSUME NEW w \in Workers, ThumbMark(w) PROVE FileOrigins'
  BY <1>27 DEF ThumbMark, WorkerIdle, LeakIfDead, Leak
<1>28. ASSUME NEW w \in Workers, ThumbUndo(w) PROVE FileOrigins'
  BY <1>28 DEF ThumbUndo, WorkerIdle, LeakIfDead, Leak
<1>29. ASSUME NEW u \in Users, DeleteUser(u) PROVE FileOrigins'
  BY <1>29 DEF DeleteUser
<1>30. ASSUME NEW u \in Users, DeleteUserCommit(u) PROVE FileOrigins'
  BY <1>30 DEF DeleteUserCommit
<1>31. ASSUME NEW u \in Users, DeleteUserAbort(u) PROVE FileOrigins'
  BY <1>31 DEF DeleteUserAbort
<1>32. ASSUME NEW u \in Users, NEW q \in Quotas, SetQuota(u, q) PROVE FileOrigins'
  BY <1>32 DEF SetQuota
<1>33. ASSUME Crash PROVE FileOrigins'
  BY <1>33 DEF Crash, SweepIdle, Leak
<1>34. CASE UNCHANGED vars
  BY <1>34 DEF vars
<1> QED
  BY <1>1, <1>2, <1>3, <1>4, <1>5, <1>6, <1>7, <1>8, <1>9, <1>10, <1>11, <1>12, <1>13, <1>14,
     <1>15, <1>16, <1>17, <1>18, <1>19, <1>20, <1>21, <1>22, <1>23, <1>24, <1>25, <1>26, <1>27,
     <1>28, <1>29, <1>30, <1>31, <1>32, <1>33, <1>34
     DEF Next, UploadStep, RemoverStep, SweepStep, WorkerStep, AccountStep

\* The legacy images are live and the others have not begun: nothing is garbage.
LEMMA GarbageInit == Init => GarbageAttended
  BY ImageAssumption DEF ImageAssumption, Init, GarbageAttended, Garbage

\* A file of a dead image changes hands only inside the process that has it, and
\* leaves its hands removed or recorded as leaked.
LEMMA GarbageStep ==
  TypeOK /\ StoreInv /\ FileOrigins /\ GarbageAttended /\ [Next]_vars => GarbageAttended'
<1> SUFFICES ASSUME TypeOK, StoreInv, FileOrigins, GarbageAttended, [Next]_vars
             PROVE  GarbageAttended'
  OBVIOUS
<1> USE ImageAssumption DEF ImageAssumption, rowVars, userVars, quotaVars, storeVars, uploadVars,
      removerVars, sweepVars, workerVars,
      TypeOK, StoreInv, FileOrigins, Holds, GarbageAttended, Garbage, OriginalInHand, ThumbInHand
<1>1. ASSUME NEW i \in Images, NEW u \in Users \cup {NoUser}, UploadCheck(i, u)
       PROVE  GarbageAttended'
  BY <1>1 DEF UploadCheck, SetUp
<1>2. ASSUME NEW i \in Images, NEW u \in Users \cup {NoUser}, UploadReject(i, u)
       PROVE  GarbageAttended'
  BY <1>2 DEF UploadReject, SetUp
<1>3. ASSUME NEW i \in Images, StoreOriginal(i) PROVE GarbageAttended'
  BY <1>3 DEF StoreOriginal, SetUp, Leak
<1>4. ASSUME NEW i \in Images, LockOwner(i) PROVE GarbageAttended'
  BY <1>4 DEF LockOwner, SetUp
<1>5. ASSUME NEW i \in Images, CreateFails(i) PROVE GarbageAttended'
  BY <1>5 DEF CreateFails, SetUp
<1>6. ASSUME NEW i \in Images, CreateCommit(i) PROVE GarbageAttended'
  BY <1>6 DEF CreateCommit, CreateTakesEffect, SetUp
<1>7. ASSUME NEW i \in Images, CreateUncertain(i) PROVE GarbageAttended'
  BY <1>7 DEF CreateUncertain, SetUp
<1>8. ASSUME NEW i \in Images, UncertainResolves(i) PROVE GarbageAttended'
  BY <1>8 DEF UncertainResolves, CreateTakesEffect, SetUp, Leak
<1>9. ASSUME NEW i \in Images, Compensate(i) PROVE GarbageAttended'
  BY <1>9 DEF Compensate, SetUp, Leak
<1>10. ASSUME NEW i \in Images, Expire(i) PROVE GarbageAttended'
  BY <1>10 DEF Expire
<1>11. ASSUME NEW r \in Removers, NEW i \in Images, NEW kind \in {"delete", "burn"}, ReadImage(r, i, kind)
       PROVE  GarbageAttended'
  BY <1>11 DEF ReadImage
<1>12. ASSUME NEW r \in Removers, MarkDeleted(r) PROVE GarbageAttended'
  BY <1>12 DEF MarkDeleted, Advance, Retire
<1>13. ASSUME NEW r \in Removers, RemoveCommit(r) PROVE GarbageAttended'
  BY <1>13 DEF RemoveCommit, DeleteTakesEffect, Advance
<1>14. ASSUME NEW r \in Removers, RemoveAbort(r) PROVE GarbageAttended'
  BY <1>14 DEF RemoveAbort, Retire
<1>15. ASSUME NEW r \in Removers, RemoveCommitLost(r) PROVE GarbageAttended'
  BY <1>15 DEF RemoveCommitLost, DeleteTakesEffect, Retire, Leak
<1>16. ASSUME NEW r \in Removers, ServeBurn(r) PROVE GarbageAttended'
  BY <1>16 DEF ServeBurn, Advance
<1>17. ASSUME NEW r \in Removers, RemoveOriginal(r) PROVE GarbageAttended'
  BY <1>17 DEF RemoveOriginal, Advance, Leak
<1>18. ASSUME NEW r \in Removers, RemoveThumb(r) PROVE GarbageAttended'
  BY <1>18 DEF RemoveThumb, Retire, Leak
<1>19. ASSUME SweepMark PROVE GarbageAttended'
  BY <1>19 DEF SweepMark
<1>20. ASSUME SweepCommit PROVE GarbageAttended'
  BY <1>20 DEF SweepCommit, SweepTakesEffect
<1>21. ASSUME SweepAbort PROVE GarbageAttended'
  BY <1>21 DEF SweepAbort, SweepIdle
<1>22. ASSUME SweepCommitLost PROVE GarbageAttended'
  BY <1>22 DEF SweepCommitLost, SweepTakesEffect, SweepIdle, Leak
<1>23. ASSUME NEW i \in Images, SweepOriginal(i) PROVE GarbageAttended'
  BY <1>23 DEF SweepOriginal, Leak
<1>24. ASSUME SweepThumb PROVE GarbageAttended'
  BY <1>24 DEF SweepThumb, Leak
<1>25. ASSUME NEW w \in Workers, NEW i \in Images, ThumbRender(w, i) PROVE GarbageAttended'
  BY <1>25 DEF ThumbRender
<1>26. ASSUME NEW w \in Workers, ThumbPut(w) PROVE GarbageAttended'
  BY <1>26 DEF ThumbPut, WorkerIdle, LeakIfDead, Leak
<1>27. ASSUME NEW w \in Workers, ThumbMark(w) PROVE GarbageAttended'
  BY <1>27 DEF ThumbMark, WorkerIdle, LeakIfDead, Leak
<1>28. ASSUME NEW w \in Workers, ThumbUndo(w) PROVE GarbageAttended'
  BY <1>28 DEF ThumbUndo, WorkerIdle, LeakIfDead, Leak
<1>29. ASSUME NEW u \in Users, DeleteUser(u) PROVE GarbageAttended'
  BY <1>29 DEF DeleteUser
<1>30. ASSUME NEW u \in Users, DeleteUserCommit(u) PROVE GarbageAttended'
  BY <1>30 DEF DeleteUserCommit
<1>31. ASSUME NEW u \in Users, DeleteUserAbort(u) PROVE GarbageAttended'
  BY <1>31 DEF DeleteUserAbort
<1>32. ASSUME NEW u \in Users, NEW q \in Quotas, SetQuota(u, q) PROVE GarbageAttended'
  BY <1>32 DEF SetQuota
<1>33. ASSUME Crash PROVE GarbageAttended'
  BY <1>33 DEF Crash, SweepIdle, Leak
<1>34. CASE UNCHANGED vars
  BY <1>34 DEF vars
<1> QED
  BY <1>1, <1>2, <1>3, <1>4, <1>5, <1>6, <1>7, <1>8, <1>9, <1>10, <1>11, <1>12, <1>13, <1>14,
     <1>15, <1>16, <1>17, <1>18, <1>19, <1>20, <1>21, <1>22, <1>23, <1>24, <1>25, <1>26, <1>27,
     <1>28, <1>29, <1>30, <1>31, <1>32, <1>33, <1>34
     DEF Next, UploadStep, RemoverStep, SweepStep, WorkerStep, AccountStep

\* No step gives a reclaimed image a file, or a worker that could store one.
LEMMA ReclaimedStep ==
  TypeOK /\ StoreInv /\ FileOrigins /\ [Next]_vars
    => \A i \in Images : Reclaimed(i) => Reclaimed(i)'
<1> SUFFICES ASSUME TypeOK, StoreInv, FileOrigins, [Next]_vars, NEW j \in Images, Reclaimed(j)
             PROVE  Reclaimed(j)'
  OBVIOUS
<1> USE ImageAssumption DEF ImageAssumption, rowVars, userVars, quotaVars, storeVars, uploadVars,
      removerVars, sweepVars, workerVars,
      TypeOK, StoreInv, FileOrigins, Reclaimed, Garbage
<1>1. ASSUME NEW i \in Images, NEW u \in Users \cup {NoUser}, UploadCheck(i, u)
       PROVE  Reclaimed(j)'
  BY <1>1 DEF UploadCheck, SetUp
<1>2. ASSUME NEW i \in Images, NEW u \in Users \cup {NoUser}, UploadReject(i, u)
       PROVE  Reclaimed(j)'
  BY <1>2 DEF UploadReject, SetUp
<1>3. ASSUME NEW i \in Images, StoreOriginal(i) PROVE Reclaimed(j)'
  BY <1>3 DEF StoreOriginal, SetUp, Leak
<1>4. ASSUME NEW i \in Images, LockOwner(i) PROVE Reclaimed(j)'
  BY <1>4 DEF LockOwner, SetUp
<1>5. ASSUME NEW i \in Images, CreateFails(i) PROVE Reclaimed(j)'
  BY <1>5 DEF CreateFails, SetUp
<1>6. ASSUME NEW i \in Images, CreateCommit(i) PROVE Reclaimed(j)'
  BY <1>6 DEF CreateCommit, CreateTakesEffect, SetUp
<1>7. ASSUME NEW i \in Images, CreateUncertain(i) PROVE Reclaimed(j)'
  BY <1>7 DEF CreateUncertain, SetUp
<1>8. ASSUME NEW i \in Images, UncertainResolves(i) PROVE Reclaimed(j)'
  BY <1>8 DEF UncertainResolves, CreateTakesEffect, SetUp, Leak
<1>9. ASSUME NEW i \in Images, Compensate(i) PROVE Reclaimed(j)'
  BY <1>9 DEF Compensate, SetUp, Leak
<1>10. ASSUME NEW i \in Images, Expire(i) PROVE Reclaimed(j)'
  BY <1>10 DEF Expire
<1>11. ASSUME NEW r \in Removers, NEW i \in Images, NEW kind \in {"delete", "burn"}, ReadImage(r, i, kind)
       PROVE  Reclaimed(j)'
  BY <1>11 DEF ReadImage
<1>12. ASSUME NEW r \in Removers, MarkDeleted(r) PROVE Reclaimed(j)'
  BY <1>12 DEF MarkDeleted, Advance, Retire
<1>13. ASSUME NEW r \in Removers, RemoveCommit(r) PROVE Reclaimed(j)'
  BY <1>13 DEF RemoveCommit, DeleteTakesEffect, Advance
<1>14. ASSUME NEW r \in Removers, RemoveAbort(r) PROVE Reclaimed(j)'
  BY <1>14 DEF RemoveAbort, Retire
<1>15. ASSUME NEW r \in Removers, RemoveCommitLost(r) PROVE Reclaimed(j)'
  BY <1>15 DEF RemoveCommitLost, DeleteTakesEffect, Retire, Leak
<1>16. ASSUME NEW r \in Removers, ServeBurn(r) PROVE Reclaimed(j)'
  BY <1>16 DEF ServeBurn, Advance
<1>17. ASSUME NEW r \in Removers, RemoveOriginal(r) PROVE Reclaimed(j)'
  BY <1>17 DEF RemoveOriginal, Advance, Leak
<1>18. ASSUME NEW r \in Removers, RemoveThumb(r) PROVE Reclaimed(j)'
  BY <1>18 DEF RemoveThumb, Retire, Leak
<1>19. ASSUME SweepMark PROVE Reclaimed(j)'
  BY <1>19 DEF SweepMark
<1>20. ASSUME SweepCommit PROVE Reclaimed(j)'
  BY <1>20 DEF SweepCommit, SweepTakesEffect
<1>21. ASSUME SweepAbort PROVE Reclaimed(j)'
  BY <1>21 DEF SweepAbort, SweepIdle
<1>22. ASSUME SweepCommitLost PROVE Reclaimed(j)'
  BY <1>22 DEF SweepCommitLost, SweepTakesEffect, SweepIdle, Leak
<1>23. ASSUME NEW i \in Images, SweepOriginal(i) PROVE Reclaimed(j)'
  BY <1>23 DEF SweepOriginal, Leak
<1>24. ASSUME SweepThumb PROVE Reclaimed(j)'
  BY <1>24 DEF SweepThumb, Leak
<1>25. ASSUME NEW w \in Workers, NEW i \in Images, ThumbRender(w, i) PROVE Reclaimed(j)'
  BY <1>25 DEF ThumbRender
<1>26. ASSUME NEW w \in Workers, ThumbPut(w) PROVE Reclaimed(j)'
  BY <1>26 DEF ThumbPut, WorkerIdle, LeakIfDead, Leak
<1>27. ASSUME NEW w \in Workers, ThumbMark(w) PROVE Reclaimed(j)'
  BY <1>27 DEF ThumbMark, WorkerIdle, LeakIfDead, Leak
<1>28. ASSUME NEW w \in Workers, ThumbUndo(w) PROVE Reclaimed(j)'
  BY <1>28 DEF ThumbUndo, WorkerIdle, LeakIfDead, Leak
<1>29. ASSUME NEW u \in Users, DeleteUser(u) PROVE Reclaimed(j)'
  BY <1>29 DEF DeleteUser
<1>30. ASSUME NEW u \in Users, DeleteUserCommit(u) PROVE Reclaimed(j)'
  BY <1>30 DEF DeleteUserCommit
<1>31. ASSUME NEW u \in Users, DeleteUserAbort(u) PROVE Reclaimed(j)'
  BY <1>31 DEF DeleteUserAbort
<1>32. ASSUME NEW u \in Users, NEW q \in Quotas, SetQuota(u, q) PROVE Reclaimed(j)'
  BY <1>32 DEF SetQuota
<1>33. ASSUME Crash PROVE Reclaimed(j)'
  BY <1>33 DEF Crash, SweepIdle, Leak
<1>34. CASE UNCHANGED vars
  BY <1>34 DEF vars
<1> QED
  BY <1>1, <1>2, <1>3, <1>4, <1>5, <1>6, <1>7, <1>8, <1>9, <1>10, <1>11, <1>12, <1>13, <1>14,
     <1>15, <1>16, <1>17, <1>18, <1>19, <1>20, <1>21, <1>22, <1>23, <1>24, <1>25, <1>26, <1>27,
     <1>28, <1>29, <1>30, <1>31, <1>32, <1>33, <1>34
     DEF Next, UploadStep, RemoverStep, SweepStep, WorkerStep, AccountStep

-----------------------------------------------------------------------------
(* The theorems *)

\* The inductive invariant: types, files and rows, locks, counters.
LEMMA Inductive == Spec => []IndInv
<1>1. Init => IndInv
  BY TypeInit, StoreInit, LockInit, QuotaInit DEF IndInv
<1>2. IndInv /\ [Next]_vars => IndInv'
  BY TypeStep, StoreStep, LockStep, QuotaStep DEF IndInv
<1> QED
  BY <1>1, <1>2, PTL DEF Spec

\* Every variable keeps its type: in particular no counter of an account ever
\* becomes negative or undefined.
THEOREM TypeCorrect == Spec => []TypeOK
<1>1. IndInv => TypeOK
  BY DEF IndInv
<1> QED
  BY <1>1, Inductive, PTL

\* Whatever number of uploads, removals, sweeps and workers interleave, and
\* whatever fails or restarts, a live row has its bytes in the storage backend.
THEOREM LiveImagesServable == Spec => []LiveRowHasObject
<1>1. IndInv => LiveRowHasObject
  BY DEF IndInv, StoreInv, LiveRowHasObject
<1> QED
  BY <1>1, Inductive, PTL

\* At most one request wins a burn-after-view image, against other views,
\* deletions and the sweep, and it finds the bytes.
THEOREM ClaimsExclusive == Spec => []ClaimServable
<1>1. IndInv => ClaimServable
  BY DEF IndInv, StoreInv, Holds, ClaimServable
<1> QED
  BY <1>1, Inductive, PTL

\* used_images and used_bytes of every account are exact in every state.
THEOREM CountersExact == Spec => []QuotaExact
<1>1. IndInv => QuotaExact
  BY DEF IndInv
<1> QED
  BY <1>1, Inductive, PTL

\* No step carries a counter past the quota in force.
THEOREM QuotaNeverPassed == Spec => QuotaRespected
<1>1. IndInv /\ [Next]_vars => [RiseFitsQuota]_vars
  BY RespectStep DEF IndInv
<1> QED
  BY <1>1, Inductive, PTL DEF Spec, QuotaRespected

\* No file is ever forgotten: a file of a deleted or refused image is in the hands
\* of a removal, of the sweep or of a thumbnail worker, or a failure recorded by
\* Leak has hit it, whatever else happens to the image at the same time.
LEMMA ReclaimInductive == Spec => [](FileOrigins /\ GarbageAttended)
<1>1. Init => FileOrigins /\ GarbageAttended
  BY FileOriginsInit, GarbageInit
<1>2. IndInv /\ (FileOrigins /\ GarbageAttended) /\ [Next]_vars => (FileOrigins /\ GarbageAttended)'
  BY FileOriginsStep, GarbageStep DEF IndInv
<1> QED
  BY <1>1, <1>2, Inductive, PTL DEF Spec

THEOREM NoFileForgotten == Spec => []GarbageAttended
  BY ReclaimInductive, PTL

\* Once the files of a deleted or refused image are gone, and no worker has one to
\* store, nothing brings one of them back: the safety half of FilesReclaimed.
THEOREM ReclaimedStays == Spec => ReclaimedForGood
<1>1. IndInv /\ FileOrigins /\ [Next]_vars
        => [\A i \in Images : Reclaimed(i) => Reclaimed(i)']_vars
  BY ReclaimedStep DEF IndInv
<1> QED
  BY <1>1, Inductive, ReclaimInductive, PTL DEF Spec, ReclaimedForGood

=============================================================================
