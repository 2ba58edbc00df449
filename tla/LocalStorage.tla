---------------------------- MODULE LocalStorage ----------------------------
(***************************************************************************)
(* LocalBackend as system calls, and the uploads whose bytes it takes: the *)
(* reservation of free space, the staging file, PutFile with its private   *)
(* link, Put with its private copy, readers that outlive the name they     *)
(* opened, and the death of the process, or of the machine, in between.    *)
(*                                                                         *)
(* A file is an inode.  Its bytes take space while a directory entry or an *)
(* open descriptor leads to it, whichever name is removed first.           *)
(***************************************************************************)
EXTENDS FiniteSets, Integers

CONSTANTS
  Uploads,     \* UploadReader calls
  Thumbs,      \* thumbnails a worker stores
  Path,        \* the storage path of each of them
  Readers,     \* answers being sent from a stored file
  MaxSize,     \* Upload.MaxSizeBytes
  ThumbSize,   \* bytes of a thumbnail
  MinFree,     \* Upload.MinFreeBytes
  Disks,       \* how many bytes may be free at the start
  MaxForeign,  \* bound: bytes that others take in a behaviour
  NoFile

Jobs == Uploads \cup Thumbs
Paths == {Path[j] : j \in Jobs}

\* The file CreateTemp made for an upload, and the one Put writes.
Staging(j) == <<"staging", j>>
Copy(j) == <<"copy", j>>
Files == {"staging", "copy"} \X Jobs

\* pxl-upload-*, .pxl-commit-* and .pxl-upload-*, each with a random part
StagingName(j) == <<"pxl-upload", j>>
CommitName(j) == <<"pxl-commit", j>>
CopyName(j) == <<"copy-upload", j>>
PrivateNames(j) == {StagingName(j), CommitName(j), CopyName(j)}
Names == Paths \cup UNION {PrivateNames(j) : j \in Jobs}

ASSUME StorageAssumption ==
  /\ IsFiniteSet(Jobs) /\ Uploads \cap Thumbs = {}
  /\ {MaxSize, ThumbSize} \subseteq Nat \ {0}
  /\ {MinFree, MaxForeign} \cup Disks \subseteq Nat
  /\ NoFile \notin Files \cup Jobs
  /\ \A j \in Jobs : Paths \cap PrivateNames(j) = {}

VARIABLES
  disk,        \* bytes free at the start
  inside,      \* configuration: the staging directory is within the storage root
  dir,         \* directory entries: the file each name leads to
  size,        \* bytes written to each file
  synced,      \* files whose bytes are on the disk
  torn,        \* files that lost bytes with the machine
  want,        \* how many bytes a job is to store
  pc,          \* where each job stands
  outcome,     \* what came of it: "none" so far, "stored" or "failed"
  fd,          \* the file each reader has open
  inFlight,    \* s.inFlight
  foreign      \* bytes that the database and others have taken

config == <<disk, inside>>
fileVars == <<size, synced, torn, want>>
vars == <<config, dir, fileVars, pc, outcome, fd, inFlight, foreign>>

\* An upload keeps its staging file open until UploadReader returns.
Holds(j) == pc[j] \in {"staging", "linked", "renamed", "copying", "stored"}

Alive(f) ==
  \/ \E n \in Names : dir[n] = f
  \/ \E r \in Readers : fd[r] = f
  \/ \E u \in Uploads : f = Staging(u) /\ Holds(u)

\* A byte is a file and a position in it.
Bytes(S) == UNION {{f} \X (1..size[f]) : f \in {g \in S : Alive(g)}}
Occupied(S) == Cardinality(Bytes(S))

\* Statfs: free bytes of the file system
Available == disk - foreign - Occupied(Files)

\* The uploads that hold a reservation.
Reserved == {u \in Uploads : Holds(u) \/ pc[u] = "ending"}

Init ==
  /\ disk \in Disks /\ inside \in BOOLEAN
  /\ dir = [n \in Names |-> NoFile]
  /\ size = [f \in Files |-> 0] /\ synced = {} /\ torn = {}
  /\ want = [j \in Jobs |-> 0]
  /\ pc = [j \in Jobs |-> "idle"]
  /\ outcome = [j \in Jobs |-> "none"]
  /\ fd = [r \in Readers |-> NoFile]
  /\ inFlight = 0 /\ foreign = 0

Goto(j, label) == pc' = [pc EXCEPT ![j] = label]
Resolve(j, result) == outcome' = [outcome EXCEPT ![j] = result]
Unlink(names) == dir' = [n \in Names |-> IF n \in names THEN NoFile ELSE dir[n]]
Rename(from, to) == dir' = [dir EXCEPT ![from] = NoFile, ![to] = dir[from]]
Write(f) == Available > 0 /\ size' = [size EXCEPT ![f] = @ + 1]

-----------------------------------------------------------------------------
(* UploadReader up to the storage call *)

\* Faulty variant: what the uploads in progress may still write is not counted.
ReserveAlone(u) ==
  /\ pc[u] = "idle"
  /\ MaxSize <= Available - MinFree
  /\ inFlight' = inFlight + MaxSize
  /\ Goto(u, "staging")
  /\ dir' = [dir EXCEPT ![StagingName(u)] = Staging(u)]
  /\ UNCHANGED <<config, fileVars, outcome, fd, foreign>>

\* reserveUploadSpace, all of it under spaceMu, and os.CreateTemp
Reserve(u) ==
  /\ pc[u] = "idle"
  /\ IF MaxSize > Available - MinFree - inFlight
     THEN Goto(u, "done") /\ Resolve(u, "failed") /\ UNCHANGED <<inFlight, dir>>
     ELSE /\ inFlight' = inFlight + MaxSize
          /\ dir' = [dir EXCEPT ![StagingName(u)] = Staging(u)]
          /\ Goto(u, "staging")
          /\ UNCHANGED outcome
  /\ UNCHANGED <<config, fileVars, fd, foreign>>

\* One more byte of io.CopyBuffer; the LimitReader lets MaxSize+1 through, the
\* last one to tell an upload that is too large.
Stage(u) ==
  /\ pc[u] = "staging" /\ size[Staging(u)] <= MaxSize
  /\ Write(Staging(u))
  /\ UNCHANGED <<config, dir, synced, torn, want, pc, outcome, fd, inFlight, foreign>>

\* Too large, empty, not an image, over quota, a read or write error: the
\* deferred function closes and removes the staging file.
Discard(u) ==
  /\ pc[u] = "staging"
  /\ Unlink({StagingName(u)})
  /\ Resolve(u, "failed") /\ Goto(u, "ending")
  /\ UNCHANGED <<config, fileVars, fd, inFlight, foreign>>

Validated(u) == pc[u] = "staging" /\ size[Staging(u)] \in 1..MaxSize

-----------------------------------------------------------------------------
(* PutFile: link the staging file to a private name, look at the linked file,  *)
(* rename it into place, remove the staging name.                              *)

\* Faulty variant: the bytes are not brought to the disk first.
LinkUnsynced(u) ==
  /\ inside /\ Validated(u)
  /\ want' = [want EXCEPT ![u] = size[Staging(u)]]
  /\ dir' = [dir EXCEPT ![CommitName(u)] = Staging(u)]
  /\ Goto(u, "linked")
  /\ UNCHANGED <<config, size, synced, torn, outcome, fd, inFlight, foreign>>

LinkStaged(u) ==
  /\ inside /\ Validated(u)
  /\ synced' = synced \cup {Staging(u)}
  /\ want' = [want EXCEPT ![u] = size[Staging(u)]]
  /\ dir' = [dir EXCEPT ![CommitName(u)] = Staging(u)]
  /\ Goto(u, "linked")
  /\ UNCHANGED <<config, size, torn, outcome, fd, inFlight, foreign>>

CommitStaged(u) ==
  /\ pc[u] = "linked"
  /\ Rename(CommitName(u), Path[u])
  /\ Resolve(u, "stored") /\ Goto(u, "renamed")
  /\ UNCHANGED <<config, fileVars, fd, inFlight, foreign>>

RemoveSource(u) ==
  /\ pc[u] = "renamed"
  /\ Unlink({StagingName(u)})
  /\ Goto(u, "stored")
  /\ UNCHANGED <<config, fileVars, outcome, fd, inFlight, foreign>>

-----------------------------------------------------------------------------
(* Put: write a private file, sync it, rename it into place. *)

\* A thumbnail, or an upload that PutFile refuses with ErrFileCommitUnsupported.
StartCopy(j) ==
  /\ \/ j \in Thumbs /\ pc[j] = "idle" /\ want' = [want EXCEPT ![j] = ThumbSize]
     \/ j \in Uploads /\ ~inside /\ Validated(j) /\ want' = [want EXCEPT ![j] = size[Staging(j)]]
  /\ dir' = [dir EXCEPT ![CopyName(j)] = Copy(j)]
  /\ Goto(j, "copying")
  /\ UNCHANGED <<config, size, synced, torn, outcome, fd, inFlight, foreign>>

CopyByte(j) ==
  /\ pc[j] = "copying" /\ size[Copy(j)] < want[j]
  /\ Write(Copy(j))
  /\ UNCHANGED <<config, dir, synced, torn, want, pc, outcome, fd, inFlight, foreign>>

CommitCopy(j) ==
  /\ pc[j] = "copying" /\ size[Copy(j)] = want[j]
  /\ synced' = synced \cup {Copy(j)}
  /\ Rename(CopyName(j), Path[j])
  /\ Resolve(j, "stored") /\ Goto(j, IF j \in Uploads THEN "stored" ELSE "done")
  /\ UNCHANGED <<config, size, torn, want, fd, inFlight, foreign>>

\* Faulty variant: a failed Put or PutFile leaves its private name.
AbandonLitter(j) ==
  /\ pc[j] \in {"linked", "copying"}
  /\ Unlink({StagingName(j)})
  /\ Resolve(j, "failed") /\ Goto(j, IF j \in Uploads THEN "ending" ELSE "done")
  /\ UNCHANGED <<config, fileVars, fd, inFlight, foreign>>

\* The client is gone, the disk is full, the linked file is another one: the
\* deferred functions of Put or PutFile, then those of UploadReader.
Abandon(j) ==
  /\ pc[j] \in {"linked", "copying"}
  /\ Unlink(PrivateNames(j))
  /\ Resolve(j, "failed") /\ Goto(j, IF j \in Uploads THEN "ending" ELSE "done")
  /\ UNCHANGED <<config, fileVars, fd, inFlight, foreign>>

-----------------------------------------------------------------------------
(* The end of an upload, deletions, readers, and the process *)

\* CreateWithQuota has returned: the staging file is closed, and removed where
\* PutFile did not.
Finish(u) ==
  /\ pc[u] = "stored" /\ u \in Uploads
  /\ Unlink({StagingName(u)})
  /\ Goto(u, "ending")
  /\ UNCHANGED <<config, fileVars, outcome, fd, inFlight, foreign>>

\* Faulty variant: an upload that fails forgets to release.
ReleaseStored(u) ==
  /\ pc[u] = "ending"
  /\ inFlight' = IF outcome[u] = "stored" THEN inFlight - MaxSize ELSE inFlight
  /\ Goto(u, "done")
  /\ UNCHANGED <<config, dir, fileVars, outcome, fd, foreign>>

\* releaseSpace, deferred first and so run last
Release(u) ==
  /\ pc[u] = "ending"
  /\ inFlight' = inFlight - MaxSize
  /\ Goto(u, "done")
  /\ UNCHANGED <<config, dir, fileVars, outcome, fd, foreign>>

\* The compensation of a failed CreateWithQuota, DeleteFiles, or a worker that
\* takes its thumbnail back.
Delete(p) ==
  /\ dir[p] # NoFile
  /\ Unlink({p})
  /\ UNCHANGED <<config, fileVars, pc, outcome, fd, inFlight, foreign>>

\* Get, and the answer that is sent from it
Open(r, p) ==
  /\ fd[r] = NoFile /\ dir[p] # NoFile
  /\ fd' = [fd EXCEPT ![r] = dir[p]]
  /\ UNCHANGED <<config, dir, fileVars, pc, outcome, inFlight, foreign>>

Close(r) ==
  /\ fd[r] # NoFile
  /\ fd' = [fd EXCEPT ![r] = NoFile]
  /\ UNCHANGED <<config, dir, fileVars, pc, outcome, inFlight, foreign>>

Other ==
  /\ Available > 0 /\ foreign < MaxForeign
  /\ foreign' = foreign + 1
  /\ UNCHANGED <<config, dir, fileVars, pc, outcome, fd, inFlight>>

\* The process ends, alone or with the machine, and starts again with nothing
\* reserved.  The machine takes bytes along that were not synced.  Nothing
\* removes the private files it left.
Restart ==
  /\ \E lost \in SUBSET {f \in Files \ synced : size[f] > 0 /\ Alive(f)} : torn' = torn \cup lost
  /\ pc' = [j \in Jobs |-> IF pc[j] \in {"idle", "done"} THEN pc[j] ELSE "lost"]
  /\ outcome' = [j \in Jobs |-> IF pc'[j] = "lost" /\ outcome[j] = "none"
                                THEN "failed" ELSE outcome[j]]
  /\ fd' = [r \in Readers |-> NoFile]
  /\ inFlight' = 0
  /\ UNCHANGED <<config, dir, size, synced, want, foreign>>

-----------------------------------------------------------------------------
UploadStep(u) ==
  \/ Reserve(u) \/ Stage(u) \/ Discard(u) \/ LinkStaged(u) \/ CommitStaged(u)
  \/ RemoveSource(u) \/ Finish(u) \/ Release(u)

PutStep(j) == StartCopy(j) \/ CopyByte(j) \/ CommitCopy(j) \/ Abandon(j)

Next ==
  \/ \E u \in Uploads : UploadStep(u)
  \/ \E j \in Jobs : PutStep(j)
  \/ \E p \in Paths : Delete(p) \/ \E r \in Readers : Open(r, p)
  \/ \E r \in Readers : Close(r)
  \/ Other \/ Restart

Spec == Init /\ [][Next]_vars

-----------------------------------------------------------------------------
(* Properties *)

TypeOK ==
  /\ disk \in Disks /\ inside \in BOOLEAN
  /\ dir \in [Names -> Files \cup {NoFile}]
  /\ size \in [Files -> Nat]
  /\ \A u \in Uploads : size[Staging(u)] <= MaxSize + 1 /\ size[Copy(u)] <= MaxSize
  /\ \A t \in Thumbs : size[Staging(t)] = 0 /\ size[Copy(t)] <= ThumbSize
  /\ synced \subseteq Files /\ torn \subseteq Files
  /\ want \in [Jobs -> Nat]
  /\ pc \in [Jobs -> {"idle", "staging", "linked", "renamed", "copying", "stored",
                      "ending", "done", "lost"}]
  /\ outcome \in [Jobs -> {"none", "stored", "failed"}]
  /\ fd \in [Readers -> Files \cup {NoFile}]
  /\ {inFlight, foreign, Available} \subseteq Nat

\* The uploads admitted together never eat into MinFree: what is free, and what
\* others took, is MinFree at least, less the one byte by which each upload
\* found too large has overshot.  With a staging directory outside of the
\* storage root it is less, too, by what has been copied of an upload whose
\* staging file is still there: that is not reserved (reserveUploadSpace).
ReserveKept ==
  LET overshot == {u \in Uploads : size[Staging(u)] > MaxSize /\ Alive(Staging(u))}
      copied   == {Copy(u) : u \in {v \in Uploads : Alive(Staging(v))}}
      thumbs   == {Copy(t) : t \in Thumbs}
  IN (\E u \in Uploads : Alive(Staging(u))) =>
       Available + foreign + Occupied(thumbs)
         >= MinFree - Cardinality(overshot) - Occupied(copied)

\* inFlight is exactly what the uploads in progress reserved: no way out of an
\* upload leaks or repeats a release, and what Reserve subtracts never counts
\* an upload that is over (reserveUploadSpace).
ReservationsExact == inFlight = MaxSize * Cardinality(Reserved)

\* Put, PutFile and UploadReader leave none of their private files behind on
\* any way out: only the death of the process does.
NothingLeftBehind ==
  \A j \in Jobs : pc[j] \in {"idle", "ending", "done"} =>
    \A n \in PrivateNames(j) : dir[n] = NoFile

\* What a file is worth to a reader: the content of its job, if all is there.
Torn == "torn"
Content(f) ==
  IF f = NoFile THEN NoFile
  ELSE IF size[f] = want[f[2]] /\ f \notin torn THEN f[2] ELSE Torn

Promise == INSTANCE ObjectStore WITH
  NoObject <- NoFile,
  object   <- [p \in Paths |-> Content(dir[p])],
  reading  <- [r \in Readers |-> Content(fd[r])]

\* The backend is an ObjectStore: no name ever leads to part of a file, a write
\* that failed changed nothing, a reader keeps what it opened while the name is
\* replaced or removed, and neither the death of the process nor that of the
\* machine shows otherwise (LocalBackend.Put, PutFile, Get, Delete).
KeepsObjects == Promise!Spec
=============================================================================
