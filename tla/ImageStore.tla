----------------------------- MODULE ImageStore -----------------------------
(***************************************************************************)
(* The life of an image in PXL: the row in PostgreSQL, the bytes in the    *)
(* storage backend, the owner's quota counters, and every process that     *)
(* touches them: uploads, deletions, burn-after-view claims, the expiry    *)
(* sweep, the thumbnail workers, the removal of an account, a restart.     *)
(*                                                                         *)
(* A database transaction is split where another process can interleave:   *)
(* a step that takes a row lock, and the step that commits.  Row locks are *)
(* not variables: a row is locked when some process stands between the two.*)
(* Every storage call is a step of its own.                                *)
(***************************************************************************)
EXTENDS Integers, FiniteSets

CONSTANTS
  Images,        \* image ids: one upload attempt, one row, one storage path each
  Users,         \* account ids
  NoUser,        \* the NULL of images.user_id: an anonymous image
  NoImage,       \* no image in hand
  Removers,      \* request goroutines that delete an image or serve a burn view
  Workers,       \* goroutines of the thumbnail pool
  Bytes,         \* size_bytes of a set of images, added up
  SHA256,        \* content hash of each image
  Legacy,        \* images whose row exists at the start
  LegacyOwner,   \* owner of each legacy image
  Burn,          \* legacy images with burn_after_view
  Expiring,      \* legacy images with expires_at
  Quotas,        \* the quotas an administrator may grant: [images, bytes]
  CleanupLimit,  \* LIMIT of one expiry sweep
  Faults         \* which failures occur: subset of {"storage", "db", "crash"}

ASSUME ImageAssumption ==
  /\ IsFiniteSet(Images)
  /\ NoUser \notin Users
  /\ NoImage \notin Images
  /\ Bytes \in [SUBSET Images -> Nat]
  /\ \A S, T \in SUBSET Images : S \cap T = {} => Bytes[S \cup T] = Bytes[S] + Bytes[T]
  /\ Legacy \subseteq Images
  /\ LegacyOwner \in [Legacy -> Users \cup {NoUser}]
  /\ Burn \subseteq Legacy
  /\ Expiring \subseteq Legacy
  /\ \A q \in Quotas : q.images \in Nat /\ q.bytes \in Nat
  /\ CleanupLimit \in Nat \ {0}

VARIABLES
  row,           \* images table: "none", "live" (deleted_at NULL) or "deleted"
  owner,         \* images.user_id
  expired,       \* images whose expires_at has passed
  account,       \* "present", "removing" (DELETE holds the user row) or "gone"
  usedImages,    \* users.used_images
  usedBytes,     \* users.used_bytes
  quotaImages,   \* users.quota_images
  quotaBytes,    \* users.quota_bytes
  object,        \* images whose original is in the storage backend
  thumb,         \* images whose thumbnail is in the storage backend
  leaked,        \* images a failure has left with files nobody will remove
  up,            \* where each upload stands
  uploader,      \* the user of each upload
  rpc,           \* where each remover stands
  rimg,          \* the image row a remover read
  rowner,        \* img.UserID as that remover read it
  rkind,         \* "delete" or "burn"
  spc,           \* where the expiry sweep stands
  batch,         \* images the sweep has still to finish
  current,       \* the image whose thumbnail the sweep removes next
  wpc,           \* where each thumbnail worker stands
  wimg           \* the job of each thumbnail worker

rowVars     == <<row, owner, expired>>
userVars    == <<account, usedImages, usedBytes>>
quotaVars   == <<quotaImages, quotaBytes>>
storeVars   == <<object, thumb, leaked>>
uploadVars  == <<up, uploader>>
removerVars == <<rpc, rimg, rowner, rkind>>
sweepVars   == <<spc, batch, current>>
workerVars  == <<wpc, wimg>>
vars == <<rowVars, userVars, quotaVars, storeVars,
          uploadVars, removerVars, sweepVars, workerVars>>

-----------------------------------------------------------------------------
(* Counters and row locks *)

Size(i) == Bytes[{i}]

Owned(u) == {i \in Images : row[i] = "live" /\ owner[i] = u}

\* An upload keeps the owner's row FOR UPDATE until its transaction ends, also
\* after the handler lost the answer to COMMIT.
InTransaction(i) == up[i] \in {"open", "uncertain"}

UserLocked(u) ==
  \/ account[u] = "removing"
  \/ \E i \in Images : InTransaction(i) /\ uploader[i] = u

ImageLocked(i) ==
  \/ \E r \in Removers : rpc[r] = "marked" /\ rimg[r] = i
  \/ spc = "marked" /\ i \in batch

Decrement(n, k) == IF n >= k THEN n - k ELSE 0     \* GREATEST(0, n-k)

\* QuotaRemaining and QuotaImagesRemaining, and their repetition under the lock
FitsQuota(i, u) ==
  /\ Size(i) <= quotaBytes[u] - usedBytes[u]
  /\ usedImages[u] < quotaImages[u]

\* GetBySHA256: the uploader already has these bytes in a servable image
Duplicate(i, u) ==
  \E j \in Images \ (Burn \cup expired) :
    row[j] = "live" /\ owner[j] = u /\ SHA256[j] = SHA256[i]

Init ==
  /\ row = [i \in Images |-> IF i \in Legacy THEN "live" ELSE "none"]
  /\ owner = [i \in Images |-> IF i \in Legacy THEN LegacyOwner[i] ELSE NoUser]
  /\ expired = {}
  /\ account = [u \in Users |-> "present"]
  /\ usedImages = [u \in Users |-> Cardinality({i \in Legacy : LegacyOwner[i] = u})]
  /\ usedBytes = [u \in Users |-> Bytes[{i \in Legacy : LegacyOwner[i] = u}]]
  /\ \E q \in [Users -> Quotas] :
       /\ quotaImages = [u \in Users |-> q[u].images]
       /\ quotaBytes = [u \in Users |-> q[u].bytes]
  /\ object = Legacy
  /\ thumb = {}
  /\ leaked = {}
  /\ up = [i \in Images |-> IF i \in Legacy THEN "done" ELSE "idle"]
  /\ uploader = [i \in Images |-> NoUser]
  /\ rpc = [r \in Removers |-> "idle"]
  /\ rimg = [r \in Removers |-> NoImage]
  /\ rowner = [r \in Removers |-> NoUser]
  /\ rkind = [r \in Removers |-> "delete"]
  /\ spc = "idle"
  /\ batch = {}
  /\ current = NoImage
  /\ wpc = [w \in Workers |-> "idle"]
  /\ wimg = [w \in Workers |-> NoImage]

-----------------------------------------------------------------------------
(* UploadReader and CreateWithQuota *)

\* An upload moves on; its request is over when it is done.
SetUp(i, pc) ==
  /\ up' = [up EXCEPT ![i] = pc]
  /\ uploader' = IF pc = "done" THEN [uploader EXCEPT ![i] = NoUser] ELSE uploader

\* A failure leaves files of these images behind.
Leak(S) == leaked' = leaked \cup S

\* The read-only checks pass, and the upload goes on to the storage backend.
UploadCheck(i, u) ==
  /\ up[i] = "idle"
  /\ u # NoUser => account[u] # "gone" /\ ~Duplicate(i, u) /\ FitsQuota(i, u)
  /\ up' = [up EXCEPT ![i] = "checked"]
  /\ uploader' = [uploader EXCEPT ![i] = u]
  /\ UNCHANGED <<rowVars, userVars, quotaVars, storeVars, removerVars, sweepVars, workerVars>>

\* A duplicate is answered with the existing image, the rest with an error.
UploadReject(i, u) ==
  /\ up[i] = "idle"
  /\ u # NoUser
  /\ account[u] = "gone" \/ Duplicate(i, u) \/ ~FitsQuota(i, u)
  /\ SetUp(i, "done")
  /\ UNCHANGED <<rowVars, userVars, quotaVars, storeVars, removerVars, sweepVars, workerVars>>

\* PutFile, or Put when the backend cannot rename: all bytes or none.  An error
\* ends the upload, also when the remote store did take the bytes.
StoreOriginal(i) ==
  /\ up[i] = "checked"
  /\ \/ SetUp(i, "stored") /\ object' = object \cup {i} /\ UNCHANGED leaked
     \/ /\ "storage" \in Faults
        /\ SetUp(i, "done")
        /\ \/ UNCHANGED <<object, leaked>>
           \/ object' = object \cup {i} /\ Leak({i})
  /\ UNCHANGED <<rowVars, userVars, quotaVars, thumb, removerVars, sweepVars, workerVars>>

\* Faulty variant: only the early check of UploadReader protects the quota.
LockOwnerUnchecked(i) ==
  LET u == uploader[i] IN
  /\ up[i] = "stored"
  /\ u # NoUser => account[u] = "present" /\ ~UserLocked(u)
  /\ SetUp(i, "open")
  /\ UNCHANGED <<rowVars, userVars, quotaVars, storeVars, removerVars, sweepVars, workerVars>>

\* SELECT ... FOR UPDATE, the quota checks again, UPDATE users, INSERT.  An
\* anonymous upload locks no account.  Nothing is visible before the commit.
LockOwner(i) ==
  LET u == uploader[i] IN
  /\ up[i] = "stored"
  /\ u # NoUser => account[u] = "present" /\ ~UserLocked(u) /\ FitsQuota(i, u)
  /\ SetUp(i, "open")
  /\ UNCHANGED <<rowVars, userVars, quotaVars, storeVars, removerVars, sweepVars, workerVars>>

\* The owner is gone, the quota is spent, a short ID collides, a statement
\* fails, or COMMIT answers that the transaction was rolled back.
CreateFails(i) ==
  /\ up[i] \in {"stored", "open"}
  /\ SetUp(i, "compensate")
  /\ UNCHANGED <<rowVars, userVars, quotaVars, storeVars, removerVars, sweepVars, workerVars>>

\* The effect of the transaction: the row and the quota together.
CreateTakesEffect(i) ==
  LET u == uploader[i] IN
  /\ row' = [row EXCEPT ![i] = "live"]
  /\ owner' = [owner EXCEPT ![i] = u]
  /\ IF u = NoUser
     THEN UNCHANGED <<usedImages, usedBytes>>
     ELSE /\ usedImages' = [usedImages EXCEPT ![u] = @ + 1]
          /\ usedBytes' = [usedBytes EXCEPT ![u] = @ + Size(i)]
  /\ UNCHANGED <<expired, account>>

CreateCommit(i) ==
  /\ up[i] = "open"
  /\ SetUp(i, "done")
  /\ CreateTakesEffect(i)
  /\ UNCHANGED <<quotaVars, storeVars, removerVars, sweepVars, workerVars>>

\* Faulty variant: a lost answer to COMMIT is compensated like a failure.
CreateUncertainCompensated(i) ==
  /\ "db" \in Faults
  /\ up[i] = "open"
  /\ SetUp(i, "uncertain")
  /\ object' = object \ {i}
  /\ UNCHANGED <<rowVars, userVars, quotaVars, thumb, leaked, removerVars, sweepVars, workerVars>>

\* The answer to COMMIT is lost (ErrCommitUncertain): the handler returns and
\* keeps the object; the server is still to decide.
CreateUncertain(i) ==
  /\ "db" \in Faults
  /\ up[i] = "open"
  /\ SetUp(i, "uncertain")
  /\ UNCHANGED <<rowVars, userVars, quotaVars, storeVars, removerVars, sweepVars, workerVars>>

UncertainResolves(i) ==
  /\ up[i] = "uncertain"
  /\ SetUp(i, "done")
  /\ \/ CreateTakesEffect(i) /\ UNCHANGED leaked
     \/ Leak({i}) /\ UNCHANGED <<rowVars, userVars>>
  /\ UNCHANGED <<quotaVars, object, thumb, removerVars, sweepVars, workerVars>>

\* The insert failed for certain: the object is deleted, once.
Compensate(i) ==
  /\ up[i] = "compensate"
  /\ SetUp(i, "done")
  /\ \/ object' = object \ {i} /\ UNCHANGED leaked
     \/ "storage" \in Faults /\ UNCHANGED object /\ Leak({i})
  /\ UNCHANGED <<rowVars, userVars, quotaVars, thumb, removerVars, sweepVars, workerVars>>

-----------------------------------------------------------------------------
(* Delete, ForceDelete, and a view of a burn-after-view image *)

Retire(r) ==
  /\ rpc' = [rpc EXCEPT ![r] = "idle"]
  /\ rimg' = [rimg EXCEPT ![r] = NoImage]
  /\ rowner' = [rowner EXCEPT ![r] = NoUser]
  /\ rkind' = [rkind EXCEPT ![r] = "delete"]

Advance(r, pc) ==
  /\ rpc' = [rpc EXCEPT ![r] = pc]
  /\ UNCHANGED <<rimg, rowner, rkind>>

\* GetByShortID: the handler holds a copy of the row from here on.  A view is
\* refused once the image expired, a deletion is not.
ReadImage(r, i, kind) ==
  /\ rpc[r] = "idle"
  /\ row[i] = "live"
  /\ kind = "burn" => i \in Burn \ expired
  /\ rpc' = [rpc EXCEPT ![r] = "read"]
  /\ rimg' = [rimg EXCEPT ![r] = i]
  /\ rowner' = [rowner EXCEPT ![r] = owner[i]]
  /\ rkind' = [rkind EXCEPT ![r] = kind]
  /\ UNCHANGED <<rowVars, userVars, quotaVars, storeVars, uploadVars, sweepVars, workerVars>>

\* Faulty variants: the UPDATE without "deleted_at IS NULL", and a test of the
\* row that takes no lock.
MarkDeletedAgain(r) ==
  /\ rpc[r] = "read"
  /\ ~ImageLocked(rimg[r])
  /\ Advance(r, "marked")
  /\ UNCHANGED <<rowVars, userVars, quotaVars, storeVars, uploadVars, sweepVars, workerVars>>

MarkDeletedUnlocked(r) ==
  /\ rpc[r] = "read"
  /\ IF row[rimg[r]] = "live" THEN Advance(r, "marked") ELSE Retire(r)
  /\ UNCHANGED <<rowVars, userVars, quotaVars, storeVars, uploadVars, sweepVars, workerVars>>

\* UPDATE images SET deleted_at ... WHERE id AND deleted_at IS NULL: waits for
\* the row lock, then finds the row live or reports ErrImageNotFound.
MarkDeleted(r) ==
  /\ rpc[r] = "read"
  /\ ~ImageLocked(rimg[r])
  /\ IF row[rimg[r]] = "live" THEN Advance(r, "marked") ELSE Retire(r)
  /\ UNCHANGED <<rowVars, userVars, quotaVars, storeVars, uploadVars, sweepVars, workerVars>>

\* deleted_at and the owner's counters change together.  The UPDATE of users
\* waits for the row of the owner the handler read, and touches no row when
\* that account is gone.
DeleteTakesEffect(r) ==
  LET i == rimg[r]
      u == rowner[r]
  IN
  /\ u # NoUser => ~UserLocked(u)
  /\ row' = [row EXCEPT ![i] = "deleted"]
  /\ IF u # NoUser /\ account[u] = "present"
     THEN /\ usedImages' = [usedImages EXCEPT ![u] = Decrement(@, 1)]
          /\ usedBytes' = [usedBytes EXCEPT ![u] = Decrement(@, Size(i))]
     ELSE UNCHANGED <<usedImages, usedBytes>>
  /\ UNCHANGED <<owner, expired, account>>

RemoveCommit(r) ==
  /\ rpc[r] = "marked"
  /\ DeleteTakesEffect(r)
  /\ Advance(r, IF rkind[r] = "burn" THEN "serve" ELSE "original")
  /\ UNCHANGED <<quotaVars, storeVars, uploadVars, sweepVars, workerVars>>

\* A statement fails, or PostgreSQL breaks a deadlock here: rolled back.
RemoveAbort(r) ==
  /\ rpc[r] = "marked"
  /\ Retire(r)
  /\ UNCHANGED <<rowVars, userVars, quotaVars, storeVars, uploadVars, sweepVars, workerVars>>

\* COMMIT took effect but its answer was lost: the handler reports an error
\* and never reaches the files.
RemoveCommitLost(r) ==
  /\ "db" \in Faults
  /\ rpc[r] = "marked"
  /\ DeleteTakesEffect(r)
  /\ Leak({rimg[r]})
  /\ Retire(r)
  /\ UNCHANGED <<quotaVars, object, thumb, uploadVars, sweepVars, workerVars>>

\* The claimed view is answered; FinalizeBurn is deferred to the end of it.
ServeBurn(r) ==
  /\ rpc[r] = "serve"
  /\ Advance(r, "original")
  /\ UNCHANGED <<rowVars, userVars, quotaVars, storeVars, uploadVars, sweepVars, workerVars>>

\* DeleteFiles and FinalizeBurn: the original, then the thumbnail; a failure is
\* logged and the next step taken all the same.
RemoveOriginal(r) ==
  /\ rpc[r] = "original"
  /\ \/ object' = object \ {rimg[r]} /\ UNCHANGED leaked
     \/ "storage" \in Faults /\ UNCHANGED object /\ Leak({rimg[r]})
  /\ Advance(r, "thumb")
  /\ UNCHANGED <<rowVars, userVars, quotaVars, thumb, uploadVars, sweepVars, workerVars>>

RemoveThumb(r) ==
  /\ rpc[r] = "thumb"
  /\ \/ thumb' = thumb \ {rimg[r]} /\ UNCHANGED leaked
     \/ "storage" \in Faults /\ UNCHANGED thumb /\ Leak({rimg[r]})
  /\ Retire(r)
  /\ UNCHANGED <<rowVars, userVars, quotaVars, object, uploadVars, sweepVars, workerVars>>

-----------------------------------------------------------------------------
(* CleanupExpired and the ticker of main *)

Expire(i) ==
  /\ i \in Expiring \ expired
  /\ expired' = expired \cup {i}
  /\ UNCHANGED <<row, owner, userVars, quotaVars, storeVars, uploadVars, removerVars, sweepVars, workerVars>>

SweepIdle == spc' = "idle" /\ batch' = {} /\ current' = NoImage

\* One UPDATE ... RETURNING takes up to CleanupLimit expired live rows; a row
\* it had to wait for counts only if it is still live.
SweepMark ==
  /\ spc = "idle"
  /\ \E b \in SUBSET expired :
       /\ b # {}
       /\ Cardinality(b) <= CleanupLimit
       /\ \A i \in b : row[i] = "live" /\ ~ImageLocked(i)
       /\ batch' = b
  /\ spc' = "marked"
  /\ UNCHANGED <<rowVars, userVars, quotaVars, storeVars, uploadVars, removerVars, current, workerVars>>

\* The quotas of all owners in the batch, one UPDATE each, and the commit.
SweepTakesEffect ==
  /\ \A i \in batch : owner[i] # NoUser => ~UserLocked(owner[i])
  /\ row' = [i \in Images |-> IF i \in batch THEN "deleted" ELSE row[i]]
  /\ usedImages' = [u \in Users |-> Decrement(usedImages[u], Cardinality(batch \cap Owned(u)))]
  /\ usedBytes' = [u \in Users |-> Decrement(usedBytes[u], Bytes[batch \cap Owned(u)])]
  /\ UNCHANGED <<owner, expired, account>>

SweepCommit ==
  /\ spc = "marked"
  /\ SweepTakesEffect
  /\ spc' = "original"
  /\ UNCHANGED <<quotaVars, storeVars, uploadVars, removerVars, batch, current, workerVars>>

SweepAbort ==
  /\ spc = "marked"
  /\ SweepIdle
  /\ UNCHANGED <<rowVars, userVars, quotaVars, storeVars, uploadVars, removerVars, workerVars>>

SweepCommitLost ==
  /\ "db" \in Faults
  /\ spc = "marked"
  /\ SweepTakesEffect
  /\ Leak(batch)
  /\ SweepIdle
  /\ UNCHANGED <<quotaVars, object, thumb, uploadVars, removerVars, workerVars>>

\* DeleteFiles of each image the sweep returned, in the order returned.
SweepOriginal(i) ==
  /\ spc = "original"
  /\ i \in batch
  /\ \/ object' = object \ {i} /\ UNCHANGED leaked
     \/ "storage" \in Faults /\ UNCHANGED object /\ Leak({i})
  /\ spc' = "thumb"
  /\ current' = i
  /\ UNCHANGED <<rowVars, userVars, quotaVars, thumb, uploadVars, removerVars, batch, workerVars>>

SweepThumb ==
  /\ spc = "thumb"
  /\ \/ thumb' = thumb \ {current} /\ UNCHANGED leaked
     \/ "storage" \in Faults /\ UNCHANGED thumb /\ Leak({current})
  /\ batch' = batch \ {current}
  /\ current' = NoImage
  /\ spc' = IF batch = {current} THEN "idle" ELSE "original"
  /\ UNCHANGED <<rowVars, userVars, quotaVars, object, uploadVars, removerVars, workerVars>>

-----------------------------------------------------------------------------
(* The thumbnail pool: process.  A job may outlive the image it names. *)

WorkerIdle(w) ==
  /\ wpc' = [wpc EXCEPT ![w] = "idle"]
  /\ wimg' = [wimg EXCEPT ![w] = NoImage]

\* A thumbnail nobody knows of goes with its image, if that is still to go.
LeakIfDead(i) == Leak(IF row[i] = "live" THEN {} ELSE {i})

\* Faulty variant: the job carries the pixels, so the original is not read again.
ThumbRenderFromJob(w, i) ==
  /\ wpc[w] = "idle"
  /\ row[i] # "none"
  /\ wpc' = [wpc EXCEPT ![w] = "rendered"]
  /\ wimg' = [wimg EXCEPT ![w] = i]
  /\ UNCHANGED <<rowVars, userVars, quotaVars, storeVars, uploadVars, removerVars, sweepVars>>

\* Get the original and render; without the original the job ends.
ThumbRender(w, i) ==
  /\ wpc[w] = "idle"
  /\ row[i] # "none"
  /\ i \in object
  /\ wpc' = [wpc EXCEPT ![w] = "rendered"]
  /\ wimg' = [wimg EXCEPT ![w] = i]
  /\ UNCHANGED <<rowVars, userVars, quotaVars, storeVars, uploadVars, removerVars, sweepVars>>

ThumbPut(w) ==
  /\ wpc[w] = "rendered"
  /\ \/ /\ thumb' = thumb \cup {wimg[w]}
        /\ wpc' = [wpc EXCEPT ![w] = "put"]
        /\ UNCHANGED <<wimg, leaked>>
     \/ /\ "storage" \in Faults
        /\ WorkerIdle(w)
        /\ \/ UNCHANGED <<thumb, leaked>>
           \/ thumb' = thumb \cup {wimg[w]} /\ LeakIfDead(wimg[w])
  /\ UNCHANGED <<rowVars, userVars, quotaVars, object, uploadVars, removerVars, sweepVars>>

\* Faulty variant: SetThumbGenerated by id alone.
ThumbMarkAnyRow(w) ==
  /\ wpc[w] = "put"
  /\ ~ImageLocked(wimg[w])
  /\ WorkerIdle(w)
  /\ UNCHANGED <<rowVars, userVars, quotaVars, storeVars, uploadVars, removerVars, sweepVars>>

\* SetThumbGenerated waits for the row lock and needs a live, unexpired row;
\* without one the worker goes on to delete what it put.  Any other database
\* error ends the job with the thumbnail in place.
ThumbMark(w) ==
  LET i == wimg[w] IN
  /\ wpc[w] = "put"
  /\ \/ /\ ~ImageLocked(i)
        /\ IF row[i] = "live" /\ i \notin expired
           THEN WorkerIdle(w)
           ELSE wpc' = [wpc EXCEPT ![w] = "undo"] /\ UNCHANGED wimg
        /\ UNCHANGED leaked
     \/ "db" \in Faults /\ WorkerIdle(w) /\ LeakIfDead(i)
  /\ UNCHANGED <<rowVars, userVars, quotaVars, object, thumb, uploadVars, removerVars, sweepVars>>

ThumbUndo(w) ==
  /\ wpc[w] = "undo"
  /\ \/ thumb' = thumb \ {wimg[w]} /\ UNCHANGED leaked
     \/ "storage" \in Faults /\ UNCHANGED thumb /\ LeakIfDead(wimg[w])
  /\ WorkerIdle(w)
  /\ UNCHANGED <<rowVars, userVars, quotaVars, object, uploadVars, removerVars, sweepVars>>

-----------------------------------------------------------------------------
(* Accounts and the server process *)

\* DELETE FROM users takes the row lock; its ON DELETE SET NULL then needs the
\* rows of the images.
DeleteUser(u) ==
  /\ account[u] = "present"
  /\ ~UserLocked(u)
  /\ account' = [account EXCEPT ![u] = "removing"]
  /\ UNCHANGED <<rowVars, usedImages, usedBytes, quotaVars, storeVars, uploadVars, removerVars, sweepVars, workerVars>>

DeleteUserCommit(u) ==
  /\ account[u] = "removing"
  /\ \A i \in Images : row[i] # "none" /\ owner[i] = u => ~ImageLocked(i)
  /\ account' = [account EXCEPT ![u] = "gone"]
  /\ owner' = [i \in Images |-> IF owner[i] = u THEN NoUser ELSE owner[i]]
  /\ usedImages' = [usedImages EXCEPT ![u] = 0]
  /\ usedBytes' = [usedBytes EXCEPT ![u] = 0]
  /\ UNCHANGED <<row, expired, quotaVars, storeVars, uploadVars, removerVars, sweepVars, workerVars>>

DeleteUserAbort(u) ==
  /\ account[u] = "removing"
  /\ account' = [account EXCEPT ![u] = "present"]
  /\ UNCHANGED <<rowVars, usedImages, usedBytes, quotaVars, storeVars, uploadVars, removerVars, sweepVars, workerVars>>

\* AdminUpdate of the quotas, whatever the account uses already.
SetQuota(u, q) ==
  /\ account[u] = "present"
  /\ ~UserLocked(u)
  /\ quotaImages' = [quotaImages EXCEPT ![u] = q.images]
  /\ quotaBytes' = [quotaBytes EXCEPT ![u] = q.bytes]
  /\ UNCHANGED <<rowVars, userVars, storeVars, uploadVars, removerVars, sweepVars, workerVars>>

\* The process dies.  PostgreSQL rolls its open transactions back, except those
\* whose COMMIT it has already received.
Crash ==
  /\ "crash" \in Faults
  /\ up' = [i \in Images |-> IF up[i] \in {"idle", "uncertain"} THEN up[i] ELSE "done"]
  /\ rpc' = [r \in Removers |-> "idle"]
  /\ rimg' = [r \in Removers |-> NoImage]
  /\ rowner' = [r \in Removers |-> NoUser]
  /\ rkind' = [r \in Removers |-> "delete"]
  /\ SweepIdle
  /\ wpc' = [w \in Workers |-> "idle"]
  /\ wimg' = [w \in Workers |-> NoImage]
  /\ account' = [u \in Users |-> IF account[u] = "removing" THEN "present" ELSE account[u]]
  /\ uploader' = [i \in Images |-> IF up[i] = "uncertain" THEN uploader[i] ELSE NoUser]
  /\ Leak({i \in object \cup thumb : row[i] # "live" /\ up[i] # "uncertain"})
  /\ UNCHANGED <<rowVars, usedImages, usedBytes, quotaVars, object, thumb>>

-----------------------------------------------------------------------------
UploadStep(i) ==
  \/ StoreOriginal(i) \/ LockOwner(i) \/ CreateFails(i) \/ CreateCommit(i)
  \/ CreateUncertain(i) \/ UncertainResolves(i) \/ Compensate(i)

RemoverStep(r) ==
  \/ MarkDeleted(r) \/ RemoveCommit(r) \/ RemoveAbort(r) \/ RemoveCommitLost(r)
  \/ ServeBurn(r) \/ RemoveOriginal(r) \/ RemoveThumb(r)

SweepStep ==
  \/ SweepCommit \/ SweepAbort \/ SweepCommitLost
  \/ (\E i \in Images : SweepOriginal(i)) \/ SweepThumb

WorkerStep(w) == ThumbPut(w) \/ ThumbMark(w) \/ ThumbUndo(w)

AccountStep(u) == DeleteUserCommit(u) \/ DeleteUserAbort(u)

Next ==
  \/ \E i \in Images, u \in Users \cup {NoUser} : UploadCheck(i, u) \/ UploadReject(i, u)
  \/ \E i \in Images : UploadStep(i) \/ Expire(i)
  \/ \E r \in Removers, i \in Images, kind \in {"delete", "burn"} : ReadImage(r, i, kind)
  \/ \E r \in Removers : RemoverStep(r)
  \/ SweepMark \/ SweepStep
  \/ \E w \in Workers, i \in Images : ThumbRender(w, i)
  \/ \E w \in Workers : WorkerStep(w)
  \/ \E u \in Users : DeleteUser(u) \/ AccountStep(u)
  \/ \E u \in Users, q \in Quotas : SetQuota(u, q)
  \/ Crash

Spec == Init /\ [][Next]_vars

\* Whatever a process has begun it carries on: goroutines are scheduled, storage
\* and database calls return or time out.  Nothing makes a client send a request.
Fairness ==
  /\ \A i \in Images : WF_vars(UploadStep(i))
  /\ \A r \in Removers : WF_vars(RemoverStep(r))
  /\ WF_vars(SweepStep)
  /\ \A w \in Workers : WF_vars(WorkerStep(w))
  /\ \A u \in Users : WF_vars(AccountStep(u))

FairSpec == Spec /\ Fairness

-----------------------------------------------------------------------------
(* Properties *)

UploadPCs  == {"idle", "checked", "stored", "open", "uncertain", "compensate", "done"}
RemoverPCs == {"idle", "read", "marked", "serve", "original", "thumb"}

TypeOK ==
  /\ row \in [Images -> {"none", "live", "deleted"}]
  /\ owner \in [Images -> Users \cup {NoUser}]
  /\ expired \subseteq Expiring
  /\ account \in [Users -> {"present", "removing", "gone"}]
  /\ usedImages \in [Users -> Nat]
  /\ usedBytes \in [Users -> Nat]
  /\ quotaImages \in [Users -> Nat]
  /\ quotaBytes \in [Users -> Nat]
  /\ object \subseteq Images
  /\ thumb \subseteq Images
  /\ leaked \subseteq Images
  /\ up \in [Images -> UploadPCs]
  /\ uploader \in [Images -> Users \cup {NoUser}]
  /\ rpc \in [Removers -> RemoverPCs]
  /\ rimg \in [Removers -> Images \cup {NoImage}]
  /\ \A r \in Removers : rpc[r] # "idle" => rimg[r] \in Images
  /\ rowner \in [Removers -> Users \cup {NoUser}]
  /\ rkind \in [Removers -> {"delete", "burn"}]
  /\ spc \in {"idle", "marked", "original", "thumb"}
  /\ batch \subseteq Images
  /\ current \in Images \cup {NoImage}
  /\ spc = "thumb" => current \in Images
  /\ wpc \in [Workers -> {"idle", "rendered", "put", "undo"}]
  /\ wimg \in [Workers -> Images \cup {NoImage}]
  /\ \A w \in Workers : wpc[w] # "idle" => wimg[w] \in Images

\* Every image the database shows has its bytes in the storage backend, whatever
\* failed on the way and wherever the server died: UploadReader stores before it
\* inserts and compensates only a certain failure; removers wait for the commit.
LiveRowHasObject == \A i \in Images : row[i] = "live" => i \in object

\* The counters of an account are exactly its live images, under concurrent
\* uploads, deletions, burns, sweeps and account removals: no image is released
\* twice or never, and GREATEST(0, ...) never hides a deficit.
QuotaExact ==
  \A u \in Users : account[u] # "gone" =>
    /\ usedImages[u] = Cardinality(Owned(u))
    /\ usedBytes[u] = Bytes[Owned(u)]

RiseFitsQuota ==
  \A u \in Users :
    /\ usedImages'[u] > usedImages[u] => usedImages'[u] <= quotaImages'[u]
    /\ usedBytes'[u] > usedBytes[u] => usedBytes'[u] <= quotaBytes'[u]

\* Counters rise only within the quota in force at that moment, however many
\* uploads passed the early check together (CreateWithQuota).
QuotaRespected == [][RiseFitsQuota]_vars

\* A request that won the claim of a one-shot image still finds its bytes, and
\* no two requests win (ClaimBurnView, against deletions and the expiry sweep).
ClaimServable ==
  \A r \in Removers : rpc[r] = "serve" =>
    /\ rimg[r] \in object
    /\ \A q \in Removers \ {r} :
         rpc[q] \in {"serve", "original", "thumb"} => rimg[q] # rimg[r]
    /\ rimg[r] \notin batch

-----------------------------------------------------------------------------
(* The inductive invariants behind these properties: IndInv is what every step *)
(* of the system preserves.                                                    *)

\* A remover past its conditional UPDATE has the image to itself.
Holds(r) == rpc[r] \in {"marked", "serve", "original", "thumb"}

StoreInv ==
  /\ \A i \in Images :
       /\ row[i] # "none" => up[i] = "done"
       /\ row[i] = "live" => i \in object
       /\ up[i] \in {"stored", "open", "uncertain"} => i \in object
  /\ \A r \in Removers :
       /\ rpc[r] # "idle" => row[rimg[r]] # "none"
       /\ rpc[r] = "marked" => row[rimg[r]] = "live"
       /\ rpc[r] \in {"serve", "original", "thumb"} => row[rimg[r]] = "deleted"
       /\ rpc[r] = "serve" => rimg[r] \in object
       /\ Holds(r) => rimg[r] \notin batch
  /\ \A q, r \in Removers : q # r /\ Holds(q) /\ Holds(r) => rimg[q] # rimg[r]
  /\ spc = "idle" => batch = {}
  /\ spc = "marked" => \A i \in batch : row[i] = "live"
  /\ spc \in {"original", "thumb"} => \A i \in batch : row[i] = "deleted"
  /\ spc = "thumb" => current \in batch

\* An upload holds its owner's row alone and fits the quota all the while; the
\* owner a remover remembers is the owner of the row, or has been removed.
LockInv ==
  /\ \A i \in Images :
       /\ row[i] = "none" => owner[i] = NoUser
       /\ owner[i] # NoUser => account[owner[i]] # "gone"
       /\ InTransaction(i) /\ uploader[i] # NoUser =>
            /\ account[uploader[i]] = "present"
            /\ FitsQuota(i, uploader[i])
  /\ \A i, j \in Images :
       InTransaction(i) /\ InTransaction(j) /\ uploader[i] = uploader[j] /\ uploader[i] # NoUser
         => i = j
  /\ \A r \in Removers : rpc[r] # "idle" =>
       \/ rowner[r] = owner[rimg[r]]
       \/ owner[rimg[r]] = NoUser /\ account[rowner[r]] = "gone"

IndInv == TypeOK /\ StoreInv /\ LockInv /\ QuotaExact

-----------------------------------------------------------------------------
(* What becomes of the files *)

Garbage(i) == row[i] = "deleted" \/ (row[i] = "none" /\ up[i] = "done")

\* Processes that have an image's file still to remove, or to decide about.
OriginalInHand(i) ==
  \/ \E r \in Removers : rpc[r] \in {"serve", "original"} /\ rimg[r] = i
  \/ i \in batch /\ (spc = "original" \/ (spc = "thumb" /\ current # i))

ThumbInHand(i) ==
  \/ \E r \in Removers : rpc[r] \in {"serve", "original", "thumb"} /\ rimg[r] = i
  \/ i \in batch /\ spc \in {"original", "thumb"}
  \/ \E w \in Workers : wpc[w] \in {"put", "undo"} /\ wimg[w] = i

\* No file is ever forgotten: as long as one of a deleted or refused image is in
\* the storage backend, a removal, the sweep or a thumbnail worker has it in hand,
\* or a failure that Leak records has hit it.  The database has no trace left that
\* would lead a later process to the file.
GarbageAttended ==
  \A i \in Images : Garbage(i) /\ i \notin leaked =>
    /\ i \in object => OriginalInHand(i)
    /\ i \in thumb => ThumbInHand(i)

\* An upload's bytes come with its put; only rows that are or were live have
\* thumbnails, or workers that make one.
FileOrigins ==
  /\ \A i \in Images : up[i] \in {"idle", "checked"} => i \notin object
  /\ \A i \in thumb : row[i] # "none"
  /\ \A w \in Workers : wpc[w] # "idle" => row[wimg[w]] # "none"

\* No file of the image is left, and no worker has one to store.
Reclaimed(i) ==
  /\ Garbage(i)
  /\ \/ i \in leaked
     \/ /\ i \notin object \cup thumb
        /\ \A w \in Workers : wpc[w] # "idle" => wimg[w] # i

\* What is reclaimed stays so: neither an upload nor the thumbnail pool brings a
\* file of it back (process reads the original before it stores a thumbnail).
ReclaimedForGood == [][\A i \in Images : Reclaimed(i) => Reclaimed(i)']_vars

\* A deleted image's bytes go away even when the storage backend failed once:
\* what the comment on DeleteFiles expects of a later cleanup.
DeletedBytesReclaimed ==
  \A i \in Images : row[i] = "deleted" ~> i \notin object

\* Files of a deleted or refused image go away and stay away, whatever the
\* thumbnail pool was doing with it at the time, unless one of the failures that
\* Leak records has hit them: nothing else leaves a file behind.
FilesReclaimed ==
  \A i \in Images : Garbage(i) ~> [](i \in object \cup thumb => i \in leaked)

=============================================================================
