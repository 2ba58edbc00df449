-------------------------- MODULE LocalStorageProofs --------------------------
(***************************************************************************)
(* Five theorems about LocalBackend and the uploads, for any number of     *)
(* them and any sizes: it is an ObjectStore, no call leaves a private file *)
(* behind, inFlight is what the uploads in progress reserved, nothing is   *)
(* written beyond its bounds, and the reserve of free space is kept.       *)
(*                                                                         *)
(* Own(j) says where the call of j stands: which private names it has, and *)
(* that nothing of its files is public or torn before it renames.  Kept(f) *)
(* is what a public file, or one that a reader has open, never loses.      *)
(* Space compares the disk with what the uploads admitted may still take.  *)
(***************************************************************************)
EXTENDS LocalStorage, FiniteSetTheorems, TLAPS

Labels == {"idle", "staging", "linked", "renamed", "copying", "stored", "ending", "done", "lost"}
Unpublished == {"idle", "staging", "linked", "copying"}
Reserving == {"staging", "linked", "renamed", "copying", "stored", "ending"}

Types ==
  /\ dir \in [Names -> Files \cup {NoFile}]
  /\ size \in [Files -> Nat] /\ want \in [Jobs -> Nat]
  /\ pc \in [Jobs -> Labels]
  /\ outcome \in [Jobs -> {"none", "stored", "failed"}]
  /\ fd \in [Readers -> Files \cup {NoFile}]
  /\ inFlight \in Int

Own(j) ==
  /\ pc[j] \in {"idle", "ending", "done"} =>
       dir[StagingName(j)] = NoFile /\ dir[CommitName(j)] = NoFile /\ dir[CopyName(j)] = NoFile
  /\ pc[j] \in {"staging", "copying", "renamed", "stored"} => dir[CommitName(j)] = NoFile
  /\ pc[j] \in {"staging", "linked", "renamed", "stored"} => dir[CopyName(j)] = NoFile
  /\ pc[j] = "linked" => /\ dir[CommitName(j)] = Staging(j)
                         /\ Staging(j) \in synced /\ size[Staging(j)] = want[j]
  /\ pc[j] = "copying" => dir[CopyName(j)] = Copy(j)
  /\ pc[j] = "idle" => size[Staging(j)] = 0 /\ size[Copy(j)] = 0
  /\ pc[j] \in Unpublished => outcome[j] = "none" /\ Staging(j) \notin torn /\ Copy(j) \notin torn
  /\ j \in Thumbs => pc[j] \in {"idle", "copying", "done", "lost"} /\ dir[StagingName(j)] = NoFile

Kept(f) ==
  /\ f \in Files /\ f \in synced /\ f \notin torn
  /\ size[f] = want[f[2]] /\ pc[f[2]] \notin Unpublished

Public ==
  /\ \A p \in Paths : dir[p] # NoFile => Kept(dir[p])
  /\ \A r \in Readers : fd[r] # NoFile => Kept(fd[r])

IInv == Types /\ (\A j \in Jobs : Own(j)) /\ Public /\ ReservationsExact

-----------------------------------------------------------------------------
(* Names and files *)

LEMMA NameFacts ==
  ASSUME StorageAssumption
  PROVE  /\ \A j \in Jobs : /\ StagingName(j) \in Names /\ StagingName(j) \notin Paths
                            /\ CommitName(j) \in Names /\ CommitName(j) \notin Paths
                            /\ CopyName(j) \in Names /\ CopyName(j) \notin Paths
                            /\ Path[j] \in Paths
         /\ Paths \subseteq Names
         /\ \A j, k \in Jobs : /\ StagingName(j) # CommitName(k)
                               /\ StagingName(j) # CopyName(k)
                               /\ CommitName(j) # CopyName(k)
         /\ \A j, k \in Jobs : j # k => /\ StagingName(j) # StagingName(k)
                                        /\ CommitName(j) # CommitName(k)
                                        /\ CopyName(j) # CopyName(k)
<1>1. \A j \in Jobs : /\ PrivateNames(j) \subseteq Names
                      /\ Paths \cap PrivateNames(j) = {}
                      /\ StagingName(j) \in PrivateNames(j)
                      /\ CommitName(j) \in PrivateNames(j)
                      /\ CopyName(j) \in PrivateNames(j)
  BY DEF StorageAssumption, Names, PrivateNames
<1>2. Paths \subseteq Names /\ \A j \in Jobs : Path[j] \in Paths  BY DEF Names, Paths
<1>3. \A j, k : /\ StagingName(j) # CommitName(k) /\ StagingName(j) # CopyName(k)
                /\ CommitName(j) # CopyName(k)
                /\ j # k => /\ StagingName(j) # StagingName(k)
                            /\ CommitName(j) # CommitName(k)
                            /\ CopyName(j) # CopyName(k)
  BY DEF StagingName, CommitName, CopyName
<1> QED  BY <1>1, <1>2, <1>3

LEMMA FileFacts ==
  ASSUME StorageAssumption
  PROVE  /\ \A j \in Jobs : /\ Staging(j) \in Files /\ Copy(j) \in Files
                            /\ Staging(j)[2] = j /\ Copy(j)[2] = j
         /\ \A j, k \in Jobs : Staging(j) # Copy(k)
         /\ \A f \in Files : f[2] \in Jobs /\ (f = Staging(f[2]) \/ f = Copy(f[2]))
         /\ NoFile \notin Files /\ NoFile \notin Jobs
         /\ Uploads \subseteq Jobs /\ Thumbs \subseteq Jobs /\ Uploads \cap Thumbs = {}
         /\ Jobs = Uploads \cup Thumbs /\ IsFiniteSet(Uploads)
<1>1. IsFiniteSet(Uploads)  BY FS_Subset DEF StorageAssumption, Jobs
<1> QED  BY <1>1 DEF StorageAssumption, Files, Staging, Copy, Jobs

-----------------------------------------------------------------------------
(* What a step of one job leaves to the others *)

OnlyOf(u) ==
  /\ \A j \in Jobs \ {u} :
       /\ pc'[j] = pc[j] /\ outcome'[j] = outcome[j] /\ want'[j] = want[j]
       /\ dir'[StagingName(j)] = dir[StagingName(j)]
       /\ dir'[CommitName(j)] = dir[CommitName(j)]
       /\ dir'[CopyName(j)] = dir[CopyName(j)]
       /\ size'[Staging(j)] = size[Staging(j)] /\ size'[Copy(j)] = size[Copy(j)]
       /\ Staging(j) \in synced => Staging(j) \in synced'
       /\ Copy(j) \in synced => Copy(j) \in synced'
  /\ torn' = torn /\ fd' = fd

LEMMA OthersKept ==
  ASSUME StorageAssumption, NEW u \in Jobs, OnlyOf(u), NEW j \in Jobs, j # u, Own(j)
  PROVE  Own(j)'
<1>1. Own(j)' <=>
        /\ pc'[j] \in {"idle", "ending", "done"} =>
             dir'[StagingName(j)] = NoFile /\ dir'[CommitName(j)] = NoFile /\ dir'[CopyName(j)] = NoFile
        /\ pc'[j] \in {"staging", "copying", "renamed", "stored"} => dir'[CommitName(j)] = NoFile
        /\ pc'[j] \in {"staging", "linked", "renamed", "stored"} => dir'[CopyName(j)] = NoFile
        /\ pc'[j] = "linked" => /\ dir'[CommitName(j)] = Staging(j)
                                /\ Staging(j) \in synced' /\ size'[Staging(j)] = want'[j]
        /\ pc'[j] = "copying" => dir'[CopyName(j)] = Copy(j)
        /\ pc'[j] = "idle" => size'[Staging(j)] = 0 /\ size'[Copy(j)] = 0
        /\ pc'[j] \in Unpublished =>
             outcome'[j] = "none" /\ Staging(j) \notin torn' /\ Copy(j) \notin torn'
        /\ j \in Thumbs => pc'[j] \in {"idle", "copying", "done", "lost"} /\ dir'[StagingName(j)] = NoFile
  BY DEF Own, StagingName, CommitName, CopyName, Staging, Copy, Unpublished
<1> QED  BY <1>1 DEF Own, OnlyOf

LEMMA OthersFilesKept ==
  ASSUME StorageAssumption, NEW u \in Jobs, OnlyOf(u), NEW f \in Files, f[2] # u, Kept(f)
  PROVE  Kept(f)'
<1>1. f[2] \in Jobs \ {u} /\ (f = Staging(f[2]) \/ f = Copy(f[2]))  BY FileFacts
<1>2. pc'[f[2]] = pc[f[2]] /\ want'[f[2]] = want[f[2]]  BY <1>1 DEF OnlyOf
<1>3. size'[f] = size[f] /\ (f \in synced => f \in synced') /\ torn' = torn  BY <1>1 DEF OnlyOf
<1> QED  BY <1>2, <1>3 DEF Kept

LEMMA ReservedSame ==
  ASSUME StorageAssumption, ReservationsExact, NEW u \in Jobs, OnlyOf(u), inFlight' = inFlight,
         u \in Uploads => (pc[u] \in Reserving <=> pc'[u] \in Reserving)
  PROVE  ReservationsExact'
<1>1. \A v \in Uploads : pc[v] \in Reserving <=> pc'[v] \in Reserving
  BY FileFacts DEF OnlyOf
<1>2. Reserved = {v \in Uploads : pc[v] \in Reserving}
      /\ Reserved' = {v \in Uploads : pc'[v] \in Reserving}
  BY DEF Reserved, Holds, Reserving
<1>3. Reserved' = Reserved  BY <1>1, <1>2
<1> QED  BY <1>3 DEF ReservationsExact

\* A step of u keeps the invariant when it keeps its own part of it, spoils no
\* file of its own that is public, and publishes only what may be.
LEMMA StepKeeps ==
  ASSUME StorageAssumption, IInv, NEW u \in Jobs, OnlyOf(u), Types', Own(u)', ReservationsExact',
         \A f \in Files : f[2] = u /\ Kept(f) => Kept(f)',
         \A p \in Paths : dir'[p] # NoFile => dir'[p] = dir[p] \/ \E f \in Files : f = dir'[p] /\ Kept(f)'
  PROVE  IInv'
<1>1. \A j \in Jobs : Own(j)'  BY OthersKept DEF IInv
<1>2. \A f \in Files : Kept(f) => Kept(f)'  BY OthersFilesKept
<1>3. \A p \in Paths : dir'[p] # NoFile => \E f \in Files : f = dir'[p] /\ Kept(f)'
  <2> SUFFICES ASSUME NEW p \in Paths, dir'[p] # NoFile, dir'[p] = dir[p]
               PROVE  \E f \in Files : f = dir'[p] /\ Kept(f)'
    OBVIOUS
  <2>1. Kept(dir[p])  BY DEF IInv, Public
  <2>2. dir[p] \in Files  BY <2>1 DEF Kept
  <2> QED  BY <1>2, <2>1, <2>2
<1>4. \A r \in Readers : fd'[r] # NoFile => \E f \in Files : f = fd'[r] /\ Kept(f)'
  <2> SUFFICES ASSUME NEW r \in Readers, fd'[r] # NoFile
               PROVE  \E f \in Files : f = fd'[r] /\ Kept(f)'
    OBVIOUS
  <2>0. fd'[r] = fd[r]  BY DEF OnlyOf
  <2>1. Kept(fd[r])  BY <2>0 DEF IInv, Public
  <2>2. fd[r] \in Files  BY <2>1 DEF Kept
  <2> QED  BY <1>2, <2>0, <2>1, <2>2
<1>5. Public'  BY <1>3, <1>4 DEF Public, Kept
<1> QED  BY <1>1, <1>5 DEF IInv

-----------------------------------------------------------------------------
(* The steps of an upload and of Put *)

\* Facts that every step lemma below opens with.
LEMMA Opening ==
  ASSUME StorageAssumption, IInv, NEW u \in Jobs
  PROVE  /\ dir \in [Names -> Files \cup {NoFile}] /\ size \in [Files -> Nat]
         /\ want \in [Jobs -> Nat] /\ pc \in [Jobs -> Labels]
         /\ outcome \in [Jobs -> {"none", "stored", "failed"}]
         /\ Own(u)
         /\ pc[u] \in Unpublished => \A f \in Files : f[2] = u => ~Kept(f)
         /\ MaxSize \in Nat /\ ThumbSize \in Nat /\ inFlight \in Int
BY DEF IInv, Types, Kept, StorageAssumption

LEMMA ReserveKeeps ==
  ASSUME StorageAssumption, IInv, NEW u \in Uploads, Reserve(u)
  PROVE  IInv'
<1>1. CASE pc' = [pc EXCEPT ![u] = "done"]
  <2>0. u \in Jobs /\ pc[u] = "idle"  BY FileFacts DEF Reserve
  <2>1. /\ outcome' = [outcome EXCEPT ![u] = "failed"] /\ inFlight' = inFlight /\ dir' = dir
        /\ UNCHANGED <<size, synced, torn, want, fd>>
    BY <1>1, <2>0, Opening DEF Reserve, Goto, Resolve, fileVars, Labels
  <2>2. OnlyOf(u)  BY <1>1, <2>0, <2>1, Opening DEF OnlyOf
  <2>3. Types'  BY <1>1, <2>1 DEF IInv, Types, Labels
  <2>4. Own(u)'
    BY <1>1, <2>0, <2>1, Opening DEF Own, Unpublished, StagingName, CommitName, CopyName, Staging, Copy
  <2>5. ReservationsExact'
    BY <1>1, <2>0, <2>1, <2>2, ReservedSame, Opening DEF IInv, Reserving
  <2> QED  BY <2>0, <2>1, <2>2, <2>3, <2>4, <2>5, Opening, StepKeeps DEF Unpublished
<1>2. CASE pc' = [pc EXCEPT ![u] = "staging"]
  <2>0. u \in Jobs /\ pc[u] = "idle"  BY FileFacts DEF Reserve
  <2>1. /\ inFlight' = inFlight + MaxSize /\ outcome' = outcome
        /\ dir' = [dir EXCEPT ![StagingName(u)] = Staging(u)]
        /\ UNCHANGED <<size, synced, torn, want, fd>>
    BY <1>2, <2>0, Opening DEF Reserve, Goto, Resolve, fileVars, Labels
  <2>2. OnlyOf(u)  BY <1>2, <2>0, <2>1, Opening, NameFacts DEF OnlyOf
  <2>3. Types'
    <3>1. dir' \in [Names -> Files \cup {NoFile}]  BY <2>0, <2>1, FileFacts, Opening
    <3>2. pc' \in [Jobs -> Labels]  BY <1>2, Opening, <2>0 DEF Labels
    <3> QED  BY <2>0, <2>1, <3>1, <3>2, Opening DEF IInv, Types
  <2>4. Own(u)'
    <3>1. /\ dir'[CommitName(u)] = NoFile /\ dir'[CopyName(u)] = NoFile
      BY <2>0, <2>1, Opening, NameFacts DEF Own
    <3>2. pc'[u] = "staging" /\ outcome'[u] = "none" /\ u \notin Thumbs
          /\ Staging(u) \notin torn' /\ Copy(u) \notin torn'
      BY <1>2, <2>0, <2>1, Opening, FileFacts DEF Own, Unpublished
    <3> QED  BY <3>1, <3>2 DEF Own, StagingName, CommitName, CopyName, Staging, Copy
  <2>5. ReservationsExact'
    <3>1. Reserved = {v \in Uploads : pc[v] \in Reserving}
          /\ Reserved' = {v \in Uploads : pc'[v] \in Reserving}
      BY DEF Reserved, Holds, Reserving
    <3>2. Reserved' = Reserved \cup {u} /\ u \notin Reserved
      BY <1>2, <2>0, <3>1, Opening, FileFacts DEF Reserving
    <3>3. IsFiniteSet(Reserved)  BY <3>1, FS_Subset, FileFacts
    <3>4. Cardinality(Reserved') = Cardinality(Reserved) + 1 /\ Cardinality(Reserved) \in Nat
      BY <3>2, <3>3, FS_AddElement, FS_CardinalityType
    <3>5. \A m, n \in Nat : m * n + m = m * (n + 1)  OBVIOUS
    <3> QED  BY <2>1, <3>4, <3>5, Opening DEF IInv, ReservationsExact
  <2>6. \A p \in Paths : dir'[p] = dir[p]  BY <2>0, <2>1, Opening, NameFacts
  <2> QED  BY <2>0, <2>1, <2>2, <2>3, <2>4, <2>5, <2>6, Opening, StepKeeps DEF Unpublished
<1> QED  BY <1>1, <1>2 DEF Reserve, Goto

LEMMA ReleaseKeeps ==
  ASSUME StorageAssumption, IInv, NEW u \in Uploads, Release(u)
  PROVE  IInv'
<1>0. u \in Jobs /\ pc[u] = "ending"  BY FileFacts DEF Release
<1>1. /\ pc' = [pc EXCEPT ![u] = "done"] /\ inFlight' = inFlight - MaxSize
      /\ UNCHANGED <<dir, size, synced, torn, want, outcome, fd>>
  BY DEF Release, Goto, fileVars
<1>2. OnlyOf(u)  BY <1>0, <1>1, Opening DEF OnlyOf
<1>3. Types'  BY <1>0, <1>1, Opening DEF IInv, Types, Labels
<1>4. Own(u)'
  BY <1>0, <1>1, Opening DEF Own, Unpublished, StagingName, CommitName, CopyName, Staging, Copy
<1>5. ReservationsExact'
  <2>1. Reserved = {v \in Uploads : pc[v] \in Reserving}
        /\ Reserved' = {v \in Uploads : pc'[v] \in Reserving}
    BY DEF Reserved, Holds, Reserving
  <2>2. Reserved' = Reserved \ {u} /\ u \in Reserved
    BY <1>0, <1>1, <2>1, Opening, FileFacts DEF Reserving
  <2>3. IsFiniteSet(Reserved)  BY <2>1, FS_Subset, FileFacts
  <2>4. Cardinality(Reserved') = Cardinality(Reserved) - 1 /\ Cardinality(Reserved) \in Nat
    BY <2>2, <2>3, FS_RemoveElement, FS_CardinalityType
  <2>5. \A m, n \in Nat : m * n - m = m * (n - 1)  OBVIOUS
  <2> QED  BY <1>1, <2>4, <2>5, Opening DEF IInv, ReservationsExact
<1>6. \A f \in Files : f[2] = u /\ Kept(f) => Kept(f)'
  BY <1>0, <1>1, Opening DEF Kept, Unpublished
<1> QED  BY <1>0, <1>1, <1>2, <1>3, <1>4, <1>5, <1>6, StepKeeps

LEMMA StageKeeps ==
  ASSUME StorageAssumption, IInv, NEW u \in Uploads, Stage(u)
  PROVE  IInv'
<1>0. u \in Jobs /\ pc[u] = "staging"  BY FileFacts DEF Stage
<1>1. /\ size' = [size EXCEPT ![Staging(u)] = @ + 1]
      /\ UNCHANGED <<dir, synced, torn, want, pc, outcome, fd, inFlight>>
  BY DEF Stage, Write
<1>2. OnlyOf(u)
  <2>1. \A j \in Jobs \ {u} : Staging(j) # Staging(u) /\ Copy(j) # Staging(u)
    BY DEF Staging, Copy
  <2> QED  BY <1>1, <2>1, FileFacts, Opening, <1>0 DEF OnlyOf
<1>3. Types'  BY <1>0, <1>1, Opening, FileFacts DEF IInv, Types
<1>4. Own(u)'
  BY <1>0, <1>1, Opening DEF Own, Unpublished, StagingName, CommitName, CopyName, Staging, Copy
<1>5. ReservationsExact'  BY <1>0, <1>1, <1>2, ReservedSame DEF IInv
<1> QED  BY <1>0, <1>1, <1>2, <1>3, <1>4, <1>5, Opening, StepKeeps DEF Unpublished

LEMMA DiscardKeeps ==
  ASSUME StorageAssumption, IInv, NEW u \in Uploads, Discard(u)
  PROVE  IInv'
<1>0. u \in Jobs /\ pc[u] = "staging"  BY FileFacts DEF Discard
<1>1. /\ dir' = [n \in Names |-> IF n \in {StagingName(u)} THEN NoFile ELSE dir[n]]
      /\ pc' = [pc EXCEPT ![u] = "ending"] /\ outcome' = [outcome EXCEPT ![u] = "failed"]
      /\ UNCHANGED <<size, synced, torn, want, fd, inFlight>>
  BY DEF Discard, Unlink, Goto, Resolve, fileVars
<1>2. OnlyOf(u)  BY <1>0, <1>1, Opening, NameFacts DEF OnlyOf
<1>3. Types'  BY <1>1, Opening DEF IInv, Types, Labels
<1>4. Own(u)'
  <2>1. dir'[StagingName(u)] = NoFile /\ dir'[CommitName(u)] = NoFile /\ dir'[CopyName(u)] = NoFile
    BY <1>0, <1>1, Opening, NameFacts DEF Own
  <2>2. pc'[u] = "ending" /\ u \notin Thumbs  BY <1>0, <1>1, Opening, FileFacts
  <2> QED  BY <2>1, <2>2 DEF Own, Unpublished, StagingName, CommitName, CopyName, Staging, Copy
<1>5. ReservationsExact'  BY <1>0, <1>1, <1>2, ReservedSame, Opening DEF IInv, Reserving
<1>6. \A p \in Paths : dir'[p] = dir[p]  BY <1>0, <1>1, NameFacts
<1> QED  BY <1>0, <1>1, <1>2, <1>3, <1>4, <1>5, <1>6, Opening, StepKeeps DEF Unpublished

LEMMA LinkStagedKeeps ==
  ASSUME StorageAssumption, IInv, NEW u \in Uploads, LinkStaged(u)
  PROVE  IInv'
<1>0. u \in Jobs /\ pc[u] = "staging"  BY FileFacts DEF LinkStaged, Validated
<1>1. /\ synced' = synced \cup {Staging(u)} /\ want' = [want EXCEPT ![u] = size[Staging(u)]]
      /\ dir' = [dir EXCEPT ![CommitName(u)] = Staging(u)]
      /\ pc' = [pc EXCEPT ![u] = "linked"]
      /\ UNCHANGED <<size, torn, outcome, fd, inFlight>>
  BY DEF LinkStaged, Goto
<1>2. OnlyOf(u)  BY <1>0, <1>1, Opening, NameFacts DEF OnlyOf
<1>3. Types'  BY <1>0, <1>1, FileFacts, Opening DEF IInv, Types, Labels
<1>4. Own(u)'
  <2>1. dir'[CommitName(u)] = Staging(u) /\ dir'[CopyName(u)] = NoFile
    BY <1>0, <1>1, Opening, NameFacts DEF Own
  <2>2. /\ pc'[u] = "linked" /\ outcome'[u] = "none" /\ u \notin Thumbs
        /\ Staging(u) \notin torn' /\ Copy(u) \notin torn'
        /\ Staging(u) \in synced' /\ size'[Staging(u)] = want'[u]
    BY <1>0, <1>1, Opening, FileFacts DEF Own, Unpublished
  <2> QED  BY <2>1, <2>2 DEF Own, StagingName, CommitName, CopyName, Staging, Copy
<1>5. ReservationsExact'  BY <1>0, <1>1, <1>2, ReservedSame, Opening DEF IInv, Reserving
<1>6. \A p \in Paths : dir'[p] = dir[p]  BY <1>0, <1>1, Opening, NameFacts
<1> QED  BY <1>0, <1>1, <1>2, <1>3, <1>4, <1>5, <1>6, Opening, StepKeeps DEF Unpublished

LEMMA CommitStagedKeeps ==
  ASSUME StorageAssumption, IInv, NEW u \in Uploads, CommitStaged(u)
  PROVE  IInv'
<1>0. u \in Jobs /\ pc[u] = "linked"  BY FileFacts DEF CommitStaged
<1>1. /\ dir' = [dir EXCEPT ![CommitName(u)] = NoFile, ![Path[u]] = Staging(u)]
      /\ outcome' = [outcome EXCEPT ![u] = "stored"] /\ pc' = [pc EXCEPT ![u] = "renamed"]
      /\ UNCHANGED <<size, synced, torn, want, fd, inFlight>>
  <2>1. dir[CommitName(u)] = Staging(u)  BY <1>0, Opening DEF Own
  <2> QED  BY <2>1 DEF CommitStaged, Rename, Goto, Resolve, fileVars
<1>2. OnlyOf(u)  BY <1>0, <1>1, Opening, NameFacts DEF OnlyOf
<1>3. Types'  BY <1>0, <1>1, FileFacts, Opening DEF IInv, Types, Labels
<1>4. Own(u)'
  <2>1. dir'[CommitName(u)] = NoFile /\ dir'[CopyName(u)] = NoFile
    BY <1>0, <1>1, Opening, NameFacts DEF Own
  <2>2. pc'[u] = "renamed" /\ u \notin Thumbs  BY <1>0, <1>1, Opening, FileFacts
  <2> QED  BY <2>1, <2>2 DEF Own, Unpublished, StagingName, CommitName, CopyName, Staging, Copy
<1>5. ReservationsExact'  BY <1>0, <1>1, <1>2, ReservedSame, Opening DEF IInv, Reserving
<1>6. Kept(Staging(u))'
  <2>1. /\ Staging(u) \in Files /\ Staging(u) \in synced' /\ Staging(u) \notin torn'
        /\ size'[Staging(u)] = want'[u] /\ pc'[u] \notin Unpublished /\ Staging(u)[2] = u
    BY <1>0, <1>1, Opening, FileFacts DEF Own, Unpublished
  <2> QED  BY <2>1 DEF Kept, Staging
<1>7. \A p \in Paths : dir'[p] = dir[p] \/ dir'[p] = Staging(u)
  BY <1>0, <1>1, Opening, NameFacts
<1> QED
  BY <1>0, <1>1, <1>2, <1>3, <1>4, <1>5, <1>6, <1>7, Opening, FileFacts, StepKeeps DEF Unpublished

\* RemoveSource and Finish differ in where they lead.
LEMMA UnlinkStagingKeeps ==
  ASSUME StorageAssumption, IInv, NEW u \in Uploads, RemoveSource(u) \/ Finish(u)
  PROVE  IInv'
<1>0. u \in Jobs /\ \/ pc[u] = "renamed" /\ pc' = [pc EXCEPT ![u] = "stored"]
                    \/ pc[u] = "stored" /\ pc' = [pc EXCEPT ![u] = "ending"]
  BY FileFacts DEF RemoveSource, Finish, Goto
<1>1. /\ dir' = [n \in Names |-> IF n \in {StagingName(u)} THEN NoFile ELSE dir[n]]
      /\ UNCHANGED <<size, synced, torn, want, outcome, fd, inFlight>>
  BY DEF RemoveSource, Finish, Unlink, fileVars
<1>2. OnlyOf(u)  BY <1>0, <1>1, Opening, NameFacts DEF OnlyOf
<1>3. Types'  BY <1>0, <1>1, Opening DEF IInv, Types, Labels
<1>4. Own(u)'
  <2>1. dir'[StagingName(u)] = NoFile /\ dir'[CommitName(u)] = NoFile /\ dir'[CopyName(u)] = NoFile
    BY <1>0, <1>1, Opening, NameFacts DEF Own
  <2>2. pc'[u] \in {"stored", "ending"} /\ u \notin Thumbs  BY <1>0, <1>1, Opening, FileFacts
  <2> QED  BY <2>1, <2>2 DEF Own, Unpublished, StagingName, CommitName, CopyName, Staging, Copy
<1>5. ReservationsExact'  BY <1>0, <1>1, <1>2, ReservedSame, Opening DEF IInv, Reserving
<1>6. \A p \in Paths : dir'[p] = dir[p]  BY <1>0, <1>1, NameFacts
<1>7. \A f \in Files : f[2] = u /\ Kept(f) => Kept(f)'
  BY <1>0, <1>1, Opening DEF Kept, Unpublished
<1> QED  BY <1>0, <1>1, <1>2, <1>3, <1>4, <1>5, <1>6, <1>7, StepKeeps

LEMMA StartCopyKeeps ==
  ASSUME StorageAssumption, IInv, NEW j \in Jobs, StartCopy(j)
  PROVE  IInv'
<1>0. \/ j \in Thumbs /\ j \notin Uploads /\ pc[j] = "idle" /\ want' = [want EXCEPT ![j] = ThumbSize]
      \/ j \in Uploads /\ j \notin Thumbs /\ pc[j] = "staging"
           /\ want' = [want EXCEPT ![j] = size[Staging(j)]]
  BY FileFacts DEF StartCopy, Validated
<1>1. /\ dir' = [dir EXCEPT ![CopyName(j)] = Copy(j)] /\ pc' = [pc EXCEPT ![j] = "copying"]
      /\ UNCHANGED <<size, synced, torn, outcome, fd, inFlight>>
  BY DEF StartCopy, Goto
<1>2. OnlyOf(j)  BY <1>0, <1>1, Opening, NameFacts DEF OnlyOf
<1>3. Types'
  <2>1. want' \in [Jobs -> Nat]  BY <1>0, FileFacts, Opening
  <2> QED  BY <2>1, <1>0, <1>1, FileFacts, Opening DEF IInv, Types, Labels
<1>4. Own(j)'
  <2>1. dir'[CopyName(j)] = Copy(j) /\ dir'[CommitName(j)] = NoFile
    BY <1>0, <1>1, Opening, NameFacts DEF Own
  <2>2. /\ pc'[j] = "copying" /\ outcome'[j] = "none"
        /\ Staging(j) \notin torn' /\ Copy(j) \notin torn'
    BY <1>0, <1>1, Opening, FileFacts DEF Own, Unpublished
  <2>3. j \in Thumbs => dir'[StagingName(j)] = NoFile
    BY <1>0, <1>1, Opening, NameFacts DEF Own
  <2> QED  BY <2>1, <2>2, <2>3 DEF Own, StagingName, CommitName, CopyName, Staging, Copy
<1>5. ReservationsExact'  BY <1>0, <1>1, <1>2, ReservedSame, Opening DEF IInv, Reserving
<1>6. \A p \in Paths : dir'[p] = dir[p]  BY <1>0, <1>1, Opening, NameFacts
<1> QED  BY <1>0, <1>1, <1>2, <1>3, <1>4, <1>5, <1>6, Opening, StepKeeps DEF Unpublished

LEMMA CopyByteKeeps ==
  ASSUME StorageAssumption, IInv, NEW j \in Jobs, CopyByte(j)
  PROVE  IInv'
<1>0. pc[j] = "copying"  BY DEF CopyByte
<1>1. /\ size' = [size EXCEPT ![Copy(j)] = @ + 1]
      /\ UNCHANGED <<dir, synced, torn, want, pc, outcome, fd, inFlight>>
  BY DEF CopyByte, Write
<1>2. OnlyOf(j)
  <2>1. \A k \in Jobs \ {j} : Staging(k) # Copy(j) /\ Copy(k) # Copy(j)
    BY DEF Staging, Copy
  <2> QED  BY <1>1, <2>1, FileFacts, Opening, <1>0 DEF OnlyOf
<1>3. Types'  BY <1>0, <1>1, Opening, FileFacts DEF IInv, Types
<1>4. Own(j)'
  BY <1>0, <1>1, Opening DEF Own, Unpublished, StagingName, CommitName, CopyName, Staging, Copy
<1>5. ReservationsExact'  BY <1>0, <1>1, <1>2, ReservedSame DEF IInv
<1> QED  BY <1>0, <1>1, <1>2, <1>3, <1>4, <1>5, Opening, StepKeeps DEF Unpublished

LEMMA CommitCopyKeeps ==
  ASSUME StorageAssumption, IInv, NEW j \in Jobs, CommitCopy(j)
  PROVE  IInv'
<1>0. pc[j] = "copying" /\ size[Copy(j)] = want[j]  BY DEF CommitCopy
<1>1. /\ dir' = [dir EXCEPT ![CopyName(j)] = NoFile, ![Path[j]] = Copy(j)]
      /\ synced' = synced \cup {Copy(j)}
      /\ outcome' = [outcome EXCEPT ![j] = "stored"]
      /\ pc' = [pc EXCEPT ![j] = IF j \in Uploads THEN "stored" ELSE "done"]
      /\ UNCHANGED <<size, torn, want, fd, inFlight>>
  <2>1. dir[CopyName(j)] = Copy(j)  BY <1>0, Opening DEF Own
  <2> QED  BY <2>1 DEF CommitCopy, Rename, Goto, Resolve
<1>2. OnlyOf(j)  BY <1>0, <1>1, Opening, NameFacts DEF OnlyOf
<1>3. Types'  BY <1>0, <1>1, FileFacts, Opening DEF IInv, Types, Labels
<1>4. Own(j)'
  <2>1. dir'[CommitName(j)] = NoFile /\ dir'[CopyName(j)] = NoFile
    BY <1>0, <1>1, Opening, NameFacts DEF Own
  <2>2. \/ pc'[j] = "stored" /\ j \notin Thumbs
        \/ pc'[j] = "done" /\ dir'[StagingName(j)] = NoFile
    BY <1>0, <1>1, Opening, NameFacts, FileFacts DEF Own
  <2> QED
    BY <2>1, <2>2, <1>0, <1>1, Opening, NameFacts
    DEF Own, Unpublished, StagingName, CommitName, CopyName, Staging, Copy
<1>5. ReservationsExact'  BY <1>0, <1>1, <1>2, ReservedSame, Opening DEF IInv, Reserving
<1>6. Kept(Copy(j))'
  <2>1. /\ Copy(j) \in Files /\ Copy(j) \in synced' /\ Copy(j) \notin torn'
        /\ size'[Copy(j)] = want'[j] /\ pc'[j] \notin Unpublished /\ Copy(j)[2] = j
    BY <1>0, <1>1, Opening, FileFacts DEF Own, Unpublished
  <2> QED  BY <2>1 DEF Kept, Copy
<1>7. \A p \in Paths : dir'[p] = dir[p] \/ dir'[p] = Copy(j)
  BY <1>0, <1>1, Opening, NameFacts
<1> QED
  BY <1>0, <1>1, <1>2, <1>3, <1>4, <1>5, <1>6, <1>7, Opening, FileFacts, StepKeeps DEF Unpublished

LEMMA AbandonKeeps ==
  ASSUME StorageAssumption, IInv, NEW j \in Jobs, Abandon(j)
  PROVE  IInv'
<1>0. pc[j] \in {"linked", "copying"}  BY DEF Abandon
<1>1. /\ dir' = [n \in Names |-> IF n \in PrivateNames(j) THEN NoFile ELSE dir[n]]
      /\ outcome' = [outcome EXCEPT ![j] = "failed"]
      /\ pc' = [pc EXCEPT ![j] = IF j \in Uploads THEN "ending" ELSE "done"]
      /\ UNCHANGED <<size, synced, torn, want, fd, inFlight>>
  BY DEF Abandon, Unlink, Goto, Resolve, fileVars
<1>2. OnlyOf(j)  BY <1>0, <1>1, Opening, NameFacts DEF OnlyOf, PrivateNames
<1>3. Types'  BY <1>0, <1>1, Opening DEF IInv, Types, Labels
<1>4. Own(j)'
  <2>1. dir'[StagingName(j)] = NoFile /\ dir'[CommitName(j)] = NoFile /\ dir'[CopyName(j)] = NoFile
    BY <1>0, <1>1, Opening, NameFacts DEF PrivateNames
  <2>2. pc'[j] \in {"ending", "done"} /\ (j \in Thumbs => pc'[j] = "done")
    BY <1>0, <1>1, Opening, FileFacts
  <2> QED  BY <2>1, <2>2 DEF Own, Unpublished, StagingName, CommitName, CopyName, Staging, Copy
<1>5. ReservationsExact'  BY <1>0, <1>1, <1>2, ReservedSame, Opening DEF IInv, Reserving
<1>6. \A p \in Paths : dir'[p] = dir[p]  BY <1>0, <1>1, NameFacts DEF StorageAssumption
<1> QED  BY <1>0, <1>1, <1>2, <1>3, <1>4, <1>5, <1>6, Opening, StepKeeps DEF Unpublished

-----------------------------------------------------------------------------
(* The other steps *)

LEMMA DeleteKeeps ==
  ASSUME StorageAssumption, IInv, NEW p \in Paths, Delete(p)
  PROVE  IInv'
<1>1. /\ dir' = [n \in Names |-> IF n \in {p} THEN NoFile ELSE dir[n]]
      /\ UNCHANGED <<size, synced, torn, want, pc, outcome, fd, inFlight>>
  BY DEF Delete, Unlink, fileVars
<1>2. \A q \in Paths : dir'[q] # NoFile => dir'[q] = dir[q]  BY <1>1, NameFacts
<1>3. Types'  BY <1>1 DEF IInv, Types
<1>4. \A j \in Jobs : Own(j)'
  <2> SUFFICES ASSUME NEW j \in Jobs PROVE Own(j)'  OBVIOUS
  <2>1. /\ dir'[StagingName(j)] = dir[StagingName(j)] /\ dir'[CommitName(j)] = dir[CommitName(j)]
        /\ dir'[CopyName(j)] = dir[CopyName(j)]
    BY <1>1, NameFacts
  <2>2. Own(j)  BY DEF IInv
  <2> QED  BY <1>1, <2>1, <2>2 DEF Own, Unpublished, StagingName, CommitName, CopyName, Staging, Copy
<1>5. Public'  BY <1>1, <1>2 DEF IInv, Public, Kept
<1>6. ReservationsExact'  BY <1>1 DEF IInv, ReservationsExact, Reserved, Holds
<1> QED  BY <1>3, <1>4, <1>5, <1>6 DEF IInv

\* Open and Close change what the readers have open, and nothing else.
LEMMA ReadersKeep ==
  ASSUME StorageAssumption, IInv, fd' \in [Readers -> Files \cup {NoFile}],
         UNCHANGED <<dir, size, synced, torn, want, pc, outcome, inFlight>>,
         \A r \in Readers : fd'[r] # NoFile => Kept(fd'[r])
  PROVE  IInv'
<1>1. Types'  BY DEF IInv, Types
<1>2. \A j \in Jobs : Own(j)'
  BY DEF IInv, Own, Unpublished, StagingName, CommitName, CopyName, Staging, Copy
<1>3. Public'  BY DEF IInv, Public, Kept
<1>4. ReservationsExact'  BY DEF IInv, ReservationsExact, Reserved, Holds
<1> QED  BY <1>1, <1>2, <1>3, <1>4 DEF IInv

LEMMA OpenKeeps ==
  ASSUME StorageAssumption, IInv, NEW p \in Paths, NEW r \in Readers, Open(r, p)
  PROVE  IInv'
<1>1. /\ fd' = [fd EXCEPT ![r] = dir[p]] /\ dir[p] # NoFile
      /\ UNCHANGED <<dir, size, synced, torn, want, pc, outcome, inFlight>>
  BY DEF Open, fileVars
<1>2. fd \in [Readers -> Files \cup {NoFile}]  BY DEF IInv, Types
<1>3. Kept(dir[p]) /\ dir[p] \in Files  BY <1>1 DEF IInv, Public, Kept
<1>4. \A s \in Readers : fd'[s] # NoFile => Kept(fd'[s])
  BY <1>1, <1>2, <1>3 DEF IInv, Public
<1> QED  BY <1>1, <1>2, <1>3, <1>4, ReadersKeep

LEMMA CloseKeeps ==
  ASSUME StorageAssumption, IInv, NEW r \in Readers, Close(r)
  PROVE  IInv'
<1>1. /\ fd' = [fd EXCEPT ![r] = NoFile]
      /\ UNCHANGED <<dir, size, synced, torn, want, pc, outcome, inFlight>>
  BY DEF Close, fileVars
<1>2. fd \in [Readers -> Files \cup {NoFile}]  BY DEF IInv, Types
<1>3. \A s \in Readers : fd'[s] # NoFile => Kept(fd'[s])  BY <1>1, <1>2 DEF IInv, Public
<1> QED  BY <1>1, <1>2, <1>3, ReadersKeep

LEMMA OtherKeeps ==
  ASSUME StorageAssumption, IInv, Other
  PROVE  IInv'
<1>1. UNCHANGED <<fd, dir, size, synced, torn, want, pc, outcome, inFlight>>
  BY DEF Other, fileVars
<1> QED  BY <1>1, ReadersKeep DEF IInv, Public, Types

\* What the machine takes was never synced, and so is no public file; nor is it
\* a file of a job that has not begun, which has no bytes.
LEMMA RestartKeeps ==
  ASSUME StorageAssumption, IInv, Restart
  PROVE  IInv'
<1>1. PICK lost \in SUBSET {f \in Files \ synced : size[f] > 0 /\ Alive(f)} : torn' = torn \cup lost
  BY DEF Restart
<1>2. /\ pc' = [j \in Jobs |-> IF pc[j] \in {"idle", "done"} THEN pc[j] ELSE "lost"]
      /\ outcome' = [j \in Jobs |-> IF pc'[j] = "lost" /\ outcome[j] = "none"
                                    THEN "failed" ELSE outcome[j]]
      /\ fd' = [r \in Readers |-> NoFile] /\ inFlight' = 0
      /\ UNCHANGED <<dir, size, synced, want>>
  BY DEF Restart
<1>3. \A j \in Jobs : pc[j] \in Labels  BY DEF IInv, Types
<1>4. Types'  BY <1>2, <1>3 DEF IInv, Types, Labels
<1>5. \A j \in Jobs : Own(j)'
  <2> SUFFICES ASSUME NEW j \in Jobs PROVE Own(j)'  OBVIOUS
  <2>1. Own(j)  BY DEF IInv
  <2>2. CASE pc[j] = "idle"
    <3>1. Staging(j) \notin torn' /\ Copy(j) \notin torn'
      BY <1>1, <2>1, <2>2, FileFacts DEF Own, Unpublished
    <3>2. pc'[j] = "idle" /\ outcome'[j] = outcome[j]  BY <1>2, <2>2
    <3> QED
      BY <1>2, <2>1, <2>2, <3>1, <3>2 DEF Own, Unpublished, StagingName, CommitName, CopyName, Staging, Copy
  <2>3. CASE pc[j] = "done"
    <3>1. pc'[j] = "done"  BY <1>2, <2>3
    <3> QED
      BY <1>2, <2>1, <2>3, <3>1 DEF Own, Unpublished, StagingName, CommitName, CopyName, Staging, Copy
  <2>4. CASE pc[j] \notin {"idle", "done"}
    <3>1. pc'[j] = "lost"  BY <1>2, <2>4
    <3> QED
      BY <1>2, <2>1, <2>4, <3>1 DEF Own, Unpublished, StagingName, CommitName, CopyName, Staging, Copy
  <2> QED  BY <2>2, <2>3, <2>4
<1>6. Public'
  <2> SUFFICES ASSUME NEW p \in Paths, dir'[p] # NoFile
               PROVE  \E f \in Files : f = dir'[p] /\ Kept(f)'
    BY <1>2 DEF Public, Kept
  <2>1. dir'[p] = dir[p] /\ Kept(dir[p])  BY <1>2 DEF IInv, Public
  <2>2. dir[p] \in Files /\ dir[p] \notin torn'  BY <1>1, <2>1 DEF Kept
  <2>3. \A f \in Files : Kept(f) /\ f \notin torn' => Kept(f)'
    BY <1>2, FileFacts DEF Kept, Unpublished
  <2> QED  BY <2>1, <2>2, <2>3
<1>7. ReservationsExact'
  <2>1. \A u \in Uploads : pc'[u] \notin Reserving  BY <1>2, FileFacts DEF Reserving
  <2>2. Reserved' = {}  BY <2>1 DEF Reserved, Holds, Reserving
  <2> QED  BY <1>2, <2>2, FS_EmptySet DEF ReservationsExact, StorageAssumption
<1> QED  BY <1>4, <1>5, <1>6, <1>7 DEF IInv

LEMMA IInvInit == ASSUME StorageAssumption, Init PROVE IInv
<1>1. Types  BY DEF Init, Types, Labels
<1>2. \A j \in Jobs : Own(j)
  BY NameFacts, FileFacts DEF Init, Own, Unpublished
<1>3. Public  BY NameFacts DEF Init, Public
<1>4. ReservationsExact
  <2>1. Reserved = {}  BY FileFacts DEF Init, Reserved, Holds
  <2> QED  BY <2>1, FS_EmptySet DEF Init, ReservationsExact, StorageAssumption
<1> QED  BY <1>1, <1>2, <1>3, <1>4 DEF IInv

LEMMA IInvNext == ASSUME StorageAssumption, IInv, [Next]_vars PROVE IInv'
<1>1. ASSUME NEW u \in Uploads, UploadStep(u) PROVE IInv'
  BY <1>1, ReserveKeeps, StageKeeps, DiscardKeeps, LinkStagedKeeps, CommitStagedKeeps,
     UnlinkStagingKeeps, ReleaseKeeps DEF UploadStep
<1>2. ASSUME NEW j \in Jobs, PutStep(j) PROVE IInv'
  BY <1>2, StartCopyKeeps, CopyByteKeeps, CommitCopyKeeps, AbandonKeeps DEF PutStep
<1>3. ASSUME NEW p \in Paths, Delete(p) \/ \E r \in Readers : Open(r, p) PROVE IInv'
  BY <1>3, DeleteKeeps, OpenKeeps
<1>4. CASE UNCHANGED vars
  <2>1. UNCHANGED <<fd, dir, size, synced, torn, want, pc, outcome, inFlight>>
    BY <1>4 DEF vars, fileVars
  <2> QED  BY <2>1, ReadersKeep DEF IInv, Public, Types
<1> QED  BY <1>1, <1>2, <1>3, <1>4, CloseKeeps, OtherKeeps, RestartKeeps DEF Next

LEMMA IInvAlways == Spec => []IInv
BY StorageAssumption, IInvInit, IInvNext, PTL DEF Spec

\* Put, PutFile and UploadReader leave none of their private files behind on any
\* way out, however many uploads run and whatever is deleted or read meanwhile
\* (the deferred functions of LocalBackend.Put, PutFile and UploadReader).
THEOREM NothingLeft == Spec => []NothingLeftBehind
<1>1. IInv => NothingLeftBehind  BY DEF IInv, Own, NothingLeftBehind, PrivateNames
<1> QED  BY <1>1, IInvAlways, PTL

\* inFlight is exactly what the uploads in progress reserved, for any number of
\* uploads, failures and restarts (reserveUploadSpace and its release).
THEOREM ReservationsKept == Spec => []ReservationsExact
<1>1. IInv => ReservationsExact  BY DEF IInv
<1> QED  BY <1>1, IInvAlways, PTL

-----------------------------------------------------------------------------
(* The backend is an ObjectStore *)

Writer(f) == IF f = NoFile THEN NoFile ELSE f[2]
Objects == [p \in Paths |-> Content(dir[p])]
Readings == [r \in Readers |-> Content(fd[r])]

\* What is public is whole, so its content is that of the job that wrote it.
LEMMA WholeObjects ==
  ASSUME StorageAssumption
  PROVE  IInv => /\ Objects = [p \in Paths |-> Writer(dir[p])]
                 /\ Readings = [r \in Readers |-> Writer(fd[r])]
BY DEF IInv, Public, Kept, Objects, Readings, Content, Writer

LEMMA Mapped ==
  ASSUME StorageAssumption, IInv, IInv'
  PROVE  /\ Objects = [p \in Paths |-> Writer(dir[p])]
         /\ Objects' = [p \in Paths |-> Writer(dir'[p])]
         /\ Readings = [r \in Readers |-> Writer(fd[r])]
         /\ Readings' = [r \in Readers |-> Writer(fd'[r])]
<1>1. Objects' = [p \in Paths |-> Writer(dir'[p])]
  BY DEF IInv, Public, Kept, Objects, Content, Writer
<1>2. Readings' = [r \in Readers |-> Writer(fd'[r])]
  BY DEF IInv, Public, Kept, Readings, Content, Writer
<1> QED  BY <1>1, <1>2, WholeObjects

LEMMA Stutters ==
  ASSUME StorageAssumption, IInv, IInv', \A p \in Paths : dir'[p] = dir[p],
         fd' = fd, outcome' = outcome
  PROVE  UNCHANGED Promise!vars
<1>1. Objects' = Objects /\ Readings' = Readings  BY Mapped
<1> QED  BY <1>1 DEF Promise!vars, Objects, Readings

\* Writes that fail, alone or with the process and its readers.
LEMMA Ends ==
  ASSUME StorageAssumption, IInv, IInv', \A p \in Paths : dir'[p] = dir[p],
         NEW S \in SUBSET Jobs, NEW R \in SUBSET Readers, \A j \in S : outcome[j] = "none",
         outcome' = [j \in Jobs |-> IF j \in S THEN "failed" ELSE outcome[j]],
         fd' = [r \in Readers |-> IF r \in R THEN NoFile ELSE fd[r]]
  PROVE  Promise!Next
<1>1. Objects' = Objects  BY Mapped
<1>2. Readings' = [r \in Readers |-> IF r \in R THEN NoFile ELSE Readings[r]]
  BY Mapped DEF Writer
<1>3. Promise!End(S, R)  BY <1>1, <1>2 DEF Promise!End, Objects, Readings
<1> QED  BY <1>3 DEF Promise!Next

\* A write that fails: Reserve, Discard, Abandon.
LEMMA FailEnds ==
  ASSUME StorageAssumption, IInv, IInv', NEW j \in Jobs, outcome[j] = "none",
         \A p \in Paths : dir'[p] = dir[p],
         outcome' = [outcome EXCEPT ![j] = "failed"], fd' = fd
  PROVE  Promise!Next
<1>1. outcome \in [Jobs -> {"none", "stored", "failed"}] /\ fd \in [Readers -> Files \cup {NoFile}]
  BY DEF IInv, Types
<1>2. outcome' = [k \in Jobs |-> IF k \in {j} THEN "failed" ELSE outcome[k]]  BY <1>1
<1>3. fd' = [r \in Readers |-> IF r \in {} THEN NoFile ELSE fd[r]]  BY <1>1
<1>4. {j} \in SUBSET Jobs /\ {} \in SUBSET Readers /\ \A k \in {j} : outcome[k] = "none"
  OBVIOUS
<1> QED  BY <1>2, <1>3, <1>4, Ends

\* The rename that publishes the file of j: CommitStaged, CommitCopy.
LEMMA Publishes ==
  ASSUME StorageAssumption, IInv, IInv', NEW j \in Jobs, outcome[j] = "none",
         NEW f \in Files, f[2] = j, f # NoFile,
         \A p \in Paths : dir'[p] = IF p = Path[j] THEN f ELSE dir[p],
         outcome' = [outcome EXCEPT ![j] = "stored"], fd' = fd
  PROVE  Promise!Next
<1>1. Objects' = [Objects EXCEPT ![Path[j]] = j]  BY Mapped, NameFacts DEF Writer
<1>2. Readings' = Readings  BY Mapped
<1>3. Promise!Put(j)  BY <1>1, <1>2 DEF Promise!Put, Objects, Readings
<1> QED  BY <1>3 DEF Promise!Next

LEMMA UploadPromised ==
  ASSUME StorageAssumption, IInv, IInv', NEW u \in Uploads, UploadStep(u)
  PROVE  Promise!Next \/ UNCHANGED Promise!vars
<1>0. u \in Jobs  BY FileFacts
<1>1. CASE Reserve(u)
  <2>1. pc[u] = "idle" /\ outcome[u] = "none"
    BY <1>0, <1>1, Opening DEF Reserve, Own, Unpublished
  <2>2. fd' = fd /\ \A p \in Paths : dir'[p] = dir[p]
    BY <1>0, <1>1, NameFacts, Opening DEF Reserve
  <2>3. outcome' = [outcome EXCEPT ![u] = "failed"] \/ outcome' = outcome
    BY <1>1 DEF Reserve, Resolve
  <2> QED  BY <1>0, <2>1, <2>2, <2>3, FailEnds, Stutters
<1>2. CASE Discard(u)
  <2>1. outcome[u] = "none"  BY <1>0, <1>2, Opening DEF Discard, Own, Unpublished
  <2>2. /\ fd' = fd /\ outcome' = [outcome EXCEPT ![u] = "failed"]
        /\ \A p \in Paths : dir'[p] = dir[p]
    BY <1>0, <1>2, NameFacts DEF Discard, Unlink, Resolve
  <2> QED  BY <1>0, <2>1, <2>2, FailEnds
<1>3. CASE CommitStaged(u)
  <2>1. outcome[u] = "none" /\ dir[CommitName(u)] = Staging(u)
    BY <1>0, <1>3, Opening DEF CommitStaged, Own, Unpublished
  <2>2. /\ fd' = fd /\ outcome' = [outcome EXCEPT ![u] = "stored"]
        /\ dir' = [dir EXCEPT ![CommitName(u)] = NoFile, ![Path[u]] = Staging(u)]
    BY <1>3, <2>1 DEF CommitStaged, Rename, Resolve
  <2>3. \A p \in Paths : dir'[p] = IF p = Path[u] THEN Staging(u) ELSE dir[p]
    BY <1>0, <2>2, NameFacts, Opening
  <2>4. Staging(u) \in Files /\ Staging(u)[2] = u /\ Staging(u) # NoFile
    BY <1>0, FileFacts
  <2> QED  BY <1>0, <2>1, <2>2, <2>3, <2>4, Publishes
<1>4. CASE Stage(u) \/ LinkStaged(u) \/ RemoveSource(u) \/ Finish(u) \/ Release(u)
  <2>1. fd' = fd /\ outcome' = outcome /\ \A p \in Paths : dir'[p] = dir[p]
    BY <1>0, <1>4, NameFacts, Opening
    DEF Stage, LinkStaged, RemoveSource, Finish, Release, Unlink
  <2> QED  BY <2>1, Stutters
<1> QED  BY <1>1, <1>2, <1>3, <1>4 DEF UploadStep

LEMMA PutPromised ==
  ASSUME StorageAssumption, IInv, IInv', NEW j \in Jobs, PutStep(j)
  PROVE  Promise!Next \/ UNCHANGED Promise!vars
<1>1. CASE Abandon(j)
  <2>1. outcome[j] = "none"  BY <1>1, Opening DEF Abandon, Own, Unpublished
  <2>2. /\ fd' = fd /\ outcome' = [outcome EXCEPT ![j] = "failed"]
        /\ \A p \in Paths : dir'[p] = dir[p]
    BY <1>1, NameFacts DEF Abandon, Unlink, Resolve, StorageAssumption
  <2> QED  BY <2>1, <2>2, FailEnds
<1>2. CASE CommitCopy(j)
  <2>1. outcome[j] = "none" /\ dir[CopyName(j)] = Copy(j)
    BY <1>2, Opening DEF CommitCopy, Own, Unpublished
  <2>2. /\ fd' = fd /\ outcome' = [outcome EXCEPT ![j] = "stored"]
        /\ dir' = [dir EXCEPT ![CopyName(j)] = NoFile, ![Path[j]] = Copy(j)]
    BY <1>2, <2>1 DEF CommitCopy, Rename, Resolve
  <2>3. \A p \in Paths : dir'[p] = IF p = Path[j] THEN Copy(j) ELSE dir[p]
    BY <2>2, NameFacts, Opening
  <2>4. Copy(j) \in Files /\ Copy(j)[2] = j /\ Copy(j) # NoFile  BY FileFacts
  <2> QED  BY <2>1, <2>2, <2>3, <2>4, Publishes
<1>3. CASE StartCopy(j) \/ CopyByte(j)
  <2>1. fd' = fd /\ outcome' = outcome /\ \A p \in Paths : dir'[p] = dir[p]
    BY <1>3, NameFacts, Opening DEF StartCopy, CopyByte
  <2> QED  BY <2>1, Stutters
<1> QED  BY <1>1, <1>2, <1>3 DEF PutStep

LEMMA ReadPromised ==
  ASSUME StorageAssumption, IInv, IInv', NEW p \in Paths,
         Delete(p) \/ \E r \in Readers : Open(r, p)
  PROVE  Promise!Next
<1>1. CASE Delete(p)
  <2>1. /\ fd' = fd /\ outcome' = outcome
        /\ \A q \in Paths : dir'[q] = IF q = p THEN NoFile ELSE dir[q]
    BY <1>1, NameFacts DEF Delete, Unlink
  <2>2. Objects' = [Objects EXCEPT ![p] = NoFile]  BY <2>1, Mapped DEF Writer
  <2>3. Readings' = Readings  BY <2>1, Mapped
  <2>4. Promise!Remove(p)  BY <2>1, <2>2, <2>3 DEF Promise!Remove, Objects, Readings
  <2>5. p \in Promise!Paths  BY DEF Promise!Paths, Paths
  <2> QED  BY <2>4, <2>5 DEF Promise!Next
<1>2. ASSUME NEW r \in Readers, Open(r, p) PROVE Promise!Next
  <2>1. /\ fd[r] = NoFile /\ dir[p] # NoFile /\ fd' = [fd EXCEPT ![r] = dir[p]]
        /\ dir' = dir /\ outcome' = outcome
    BY <1>2 DEF Open
  <2>2. fd \in [Readers -> Files \cup {NoFile}] /\ dir[p] \in Files
    BY <2>1 DEF IInv, Types, Public, Kept
  <2>3. Objects' = Objects  BY <2>1, Mapped
  <2>4. Readings[r] = NoFile /\ Objects[p] # NoFile
    BY <2>1, <2>2, Mapped, FileFacts DEF Writer
  <2>5. Readings' = [Readings EXCEPT ![r] = Objects[p]]
    BY <2>1, <2>2, Mapped DEF Writer
  <2>6. Promise!Open(r, p)
    BY <2>1, <2>3, <2>4, <2>5 DEF Promise!Open, Objects, Readings
  <2>7. p \in Promise!Paths  BY DEF Promise!Paths, Paths
  <2> QED  BY <2>6, <2>7 DEF Promise!Next
<1> QED  BY <1>1, <1>2

LEMMA NextPromised ==
  ASSUME StorageAssumption, IInv, IInv', [Next]_vars
  PROVE  [Promise!Next]_(Promise!vars)
<1>0. /\ fd \in [Readers -> Files \cup {NoFile}] /\ pc \in [Jobs -> Labels]
      /\ \A j \in Jobs : Own(j)
  BY DEF IInv, Types
<1>1. ASSUME NEW r \in Readers, Close(r) PROVE Promise!Next
  <2>1. /\ fd' = [s \in Readers |-> IF s \in {r} THEN NoFile ELSE fd[s]]
        /\ dir' = dir /\ outcome' = [j \in Jobs |-> IF j \in {} THEN "failed" ELSE outcome[j]]
    BY <1>0, <1>1 DEF Close, IInv, Types
  <2>2. {} \in SUBSET Jobs /\ {r} \in SUBSET Readers  OBVIOUS
  <2> QED  BY <2>1, <2>2, Ends
<1>2. CASE Restart
  <2> DEFINE S == {j \in Jobs : pc'[j] = "lost" /\ outcome[j] = "none"}
  <2>1. /\ dir' = dir /\ fd' = [r \in Readers |-> IF r \in Readers THEN NoFile ELSE fd[r]]
        /\ outcome' = [j \in Jobs |-> IF j \in S THEN "failed" ELSE outcome[j]]
    BY <1>2 DEF Restart
  <2>2. S \in SUBSET Jobs /\ Readers \in SUBSET Readers /\ \A j \in S : outcome[j] = "none"
    OBVIOUS
  <2> HIDE DEF S
  <2> QED  BY <2>1, <2>2, Ends
<1>3. CASE Other \/ UNCHANGED vars
  <2>1. fd' = fd /\ outcome' = outcome /\ \A p \in Paths : dir'[p] = dir[p]
    BY <1>3 DEF Other, vars
  <2> QED  BY <2>1, Stutters
<1> QED
  BY <1>1, <1>2, <1>3, UploadPromised, PutPromised, ReadPromised DEF Next

\* LocalBackend implements the ObjectStore the server takes it for: no name ever
\* leads to part of a file, a failed write changes nothing, a reader keeps what
\* it opened, across any death of the process or of the machine, whatever the
\* number and size of the files (LocalBackend.Put, PutFile, Get and Delete).
THEOREM ImplementsObjectStore == Spec => KeepsObjects
<1>1. Init => Promise!Init
  BY StorageAssumption, NameFacts DEF Init, Promise!Init, Promise!Paths, Paths, Content
<1>2. IInv /\ IInv' /\ [Next]_vars => [Promise!Next]_(Promise!vars)
  BY StorageAssumption, NextPromised
<1>3. Spec => Promise!Spec
  BY <1>1, <1>2, IInvAlways, PTL DEF Spec, Promise!Spec
<1> QED  BY <1>3 DEF KeepsObjects

\* What the server may rely on: the bytes at a name, and those an answer is being
\* sent from, are all of what one call of Put or PutFile for that name stored; a
\* call that failed, or that a crash cut off, has nobody see any of its bytes.
THEOREM OnlyCompletedSeen == Spec => []Promise!Completed
<1> DEFINE object == [p \in Paths |-> Content(dir[p])]
           reading == [r \in Readers |-> Content(fd[r])]
<1> USE DEF Promise!Paths, Paths
<1>1. Promise!Init => Promise!Completed
  BY DEF Promise!Init, Promise!Completed
<1>2. ASSUME IInv, Promise!Completed, [Promise!Next]_(Promise!vars)
      PROVE  Promise!Completed'
  <2>0. /\ \A p \in Paths : object[p] # NoFile =>
             object[p] \in Jobs /\ Path[object[p]] = p /\ outcome[object[p]] = "stored"
        /\ \A r \in Readers : reading[r] # NoFile =>
             reading[r] \in Jobs /\ outcome[reading[r]] = "stored"
    BY <1>2 DEF Promise!Completed
  <2>1. outcome \in [Jobs -> {"none", "stored", "failed"}]
    BY <1>2 DEF IInv, Types
  <2>2. CASE \E j \in Jobs : Promise!Put(j)
    <3>1. PICK j \in Jobs : Promise!Put(j)
      BY <2>2
    <3>2. outcome[j] = "none" /\ outcome'[j] = "stored"
          /\ \A k \in Jobs \ {j} : outcome'[k] = outcome[k]
      BY <2>1, <3>1 DEF Promise!Put
    <3>3. object'[Path[j]] = j /\ \A p \in Paths \ {Path[j]} : object'[p] = object[p]
      BY <3>1 DEF Promise!Put
    <3>4. \A r \in Readers : reading'[r] = reading[r]
      BY <3>1 DEF Promise!Put
    <3>5. \A p \in Paths : object'[p] # NoFile =>
            object'[p] \in Jobs /\ Path[object'[p]] = p /\ outcome'[object'[p]] = "stored"
      <4> HIDE DEF object, reading
      <4> QED
        BY <2>0, <3>2, <3>3
    <3>6. \A r \in Readers : reading'[r] # NoFile =>
            reading'[r] \in Jobs /\ outcome'[reading'[r]] = "stored"
      <4> HIDE DEF object, reading
      <4> QED
        BY <2>0, <3>2, <3>4
    <3> QED
      BY <3>5, <3>6 DEF Promise!Completed
  <2>3. CASE \E p \in Paths : Promise!Remove(p)
    BY <1>2, <2>3 DEF Promise!Remove, Promise!Completed
  <2>4. CASE \E p \in Paths, r \in Readers : Promise!Open(r, p)
    <3>1. PICK p \in Paths, r \in Readers : Promise!Open(r, p)
      BY <2>4
    <3>2. outcome' = outcome /\ \A q \in Paths : object'[q] = object[q]
      BY <3>1 DEF Promise!Open
    <3>3. \A t \in Readers : reading'[t] \in {reading[t], object[p]}
      BY <3>1 DEF Promise!Open
    <3>4. \A q \in Paths : object'[q] # NoFile =>
            object'[q] \in Jobs /\ Path[object'[q]] = q /\ outcome'[object'[q]] = "stored"
      <4> HIDE DEF object, reading
      <4> QED
        BY <2>0, <3>2
    <3>5. \A t \in Readers : reading'[t] # NoFile =>
            reading'[t] \in Jobs /\ outcome'[reading'[t]] = "stored"
      <4> HIDE DEF object, reading
      <4> QED
        BY <2>0, <3>2, <3>3
    <3> QED
      BY <3>4, <3>5 DEF Promise!Completed
  <2>5. CASE \E S \in SUBSET Jobs, R \in SUBSET Readers : Promise!End(S, R)
    <3>1. PICK S \in SUBSET Jobs, R \in SUBSET Readers : Promise!End(S, R)
      BY <2>5
    <3>2. \A j \in Jobs : outcome[j] = "stored" => outcome'[j] = "stored"
      BY <3>1 DEF Promise!End
    <3>3. /\ \A p \in Paths : object'[p] = object[p]
          /\ \A r \in Readers : reading'[r] \in {NoFile, reading[r]}
      BY <3>1 DEF Promise!End
    <3>4. \A p \in Paths : object'[p] # NoFile =>
            object'[p] \in Jobs /\ Path[object'[p]] = p /\ outcome'[object'[p]] = "stored"
      <4> HIDE DEF object, reading
      <4> QED
        BY <2>0, <3>2, <3>3
    <3>5. \A r \in Readers : reading'[r] # NoFile =>
            reading'[r] \in Jobs /\ outcome'[reading'[r]] = "stored"
      <4> HIDE DEF object, reading
      <4> QED
        BY <2>0, <3>2, <3>3
    <3> QED
      BY <3>4, <3>5 DEF Promise!Completed
  <2>6. CASE UNCHANGED Promise!vars
    BY <1>2, <2>6 DEF Promise!vars, Promise!Completed
  <2> QED
    BY <1>2, <2>2, <2>3, <2>4, <2>5, <2>6 DEF Promise!Next
<1> QED
  BY <1>1, <1>2, IInvAlways, ImplementsObjectStore, PTL DEF KeepsObjects, Promise!Spec

-----------------------------------------------------------------------------
(* The room on the disk                                                    *)
(*                                                                         *)
(* Charge is what the uploads admitted may take together: the whole of     *)
(* MaxSize while one stages, then its bytes, as long as they are there.    *)
(* It only grows when an upload is admitted, and Reserve has then compared *)
(* it with what is free: MinFree is left as long as a staging file lives.  *)

Holding == {"staging", "linked", "renamed", "copying", "stored"}

Sized(j) ==
  /\ size[Copy(j)] <= want[j]
  /\ pc[j] \in {"idle", "staging"} => want[j] = 0
  /\ j \in Uploads => /\ want[j] <= size[Staging(j)] /\ want[j] <= MaxSize
                      /\ size[Staging(j)] <= MaxSize + 1
  /\ j \in Thumbs => want[j] <= ThumbSize /\ size[Staging(j)] = 0

Charge ==
  {c \in Uploads \X (1..MaxSize) :
     \/ pc[c[1]] = "staging"
     \/ Alive(Staging(c[1])) /\ c[2] <= size[Staging(c[1])]
     \/ Alive(Copy(c[1])) /\ c[2] <= size[Copy(c[1])]}

Budget == (\E u \in Uploads : Alive(Staging(u))) => Cardinality(Charge) + MinFree <= disk

Space ==
  /\ disk \in Disks /\ inside \in BOOLEAN /\ foreign \in Nat
  /\ synced \subseteq Files /\ torn \subseteq Files
  /\ \A j \in Jobs : Sized(j)
  /\ Available >= 0
  /\ Budget

\* A file that Put has just created: it has no bytes yet.
Fresh(f) == \E j \in Jobs : f = Copy(j) /\ size[f] = 0

LEMMA AliveBefore ==
  ASSUME NEW f
  PROVE  Alive(f) <=> \/ \E n \in Names : dir[n] = f
                      \/ \E r \in Readers : fd[r] = f
                      \/ \E u \in Uploads : f = Staging(u) /\ pc[u] \in Holding
BY DEF Alive, Holds, Holding

LEMMA AliveAfter ==
  ASSUME NEW f
  PROVE  Alive(f)' <=> \/ \E n \in Names : dir'[n] = f
                       \/ \E r \in Readers : fd'[r] = f
                       \/ \E u \in Uploads : f = Staging(u) /\ pc'[u] \in Holding
BY DEF Alive, Holds, Holding, Staging

LEMMA BytesBefore ==
  ASSUME NEW S, NEW b
  PROVE  b \in Bytes(S) <=> \E f \in S : Alive(f) /\ \E k \in 1..size[f] : b = <<f, k>>
BY DEF Bytes

LEMMA BytesAfter ==
  ASSUME NEW b
  PROVE  b \in Bytes(Files)' <=>
           \E f \in Files : Alive(f)' /\ \E k \in 1..size'[f] : b = <<f, k>>
BY DEF Bytes

LEMMA ChargeAfter ==
  ASSUME NEW c
  PROVE  c \in Charge' <=>
           /\ c \in Uploads \X (1..MaxSize)
           /\ \/ pc'[c[1]] = "staging"
              \/ Alive(Staging(c[1]))' /\ c[2] <= size'[Staging(c[1])]
              \/ Alive(Copy(c[1]))' /\ c[2] <= size'[Copy(c[1])]
BY DEF Charge, Staging, Copy

LEMMA OneMore ==
  ASSUME NEW S, IsFiniteSet(S), NEW x, NEW T, T \subseteq S \cup {x}
  PROVE  /\ IsFiniteSet(T) /\ Cardinality(T) \in Nat /\ Cardinality(S) \in Nat
         /\ Cardinality(T) <= Cardinality(S) + 1
<1>1. IsFiniteSet(S \cup {x}) /\ Cardinality(S \cup {x}) <= Cardinality(S) + 1
  <2>1. Cardinality(S) \in Nat  BY FS_CardinalityType
  <2>2. IsFiniteSet(S \cup {x})
        /\ Cardinality(S \cup {x}) = IF x \in S THEN Cardinality(S) ELSE Cardinality(S) + 1
    BY FS_AddElement
  <2> QED  BY <2>1, <2>2
<1>2. IsFiniteSet(T) /\ Cardinality(T) <= Cardinality(S \cup {x})  BY <1>1, FS_Subset
<1>3. Cardinality(T) \in Nat /\ Cardinality(S) \in Nat /\ Cardinality(S \cup {x}) \in Nat
  BY <1>1, <1>2, FS_CardinalityType
<1> QED  BY <1>1, <1>2, <1>3

LEMMA SpaceFacts ==
  ASSUME StorageAssumption, IInv, Space
  PROVE  /\ disk \in Nat /\ foreign \in Nat /\ MinFree \in Nat
         /\ MaxSize \in Nat \ {0} /\ ThumbSize \in Nat \ {0}
         /\ IsFiniteSet(Bytes(Files)) /\ Occupied(Files) \in Nat
         /\ IsFiniteSet(Charge) /\ Cardinality(Charge) \in Nat
         /\ Available = disk - foreign - Occupied(Files)
<1>1. /\ disk \in Nat /\ foreign \in Nat /\ MinFree \in Nat
      /\ MaxSize \in Nat \ {0} /\ ThumbSize \in Nat \ {0}
  BY DEF Space, StorageAssumption
<1>2. IsFiniteSet(Bytes(Files))
  <2> DEFINE Big == MaxSize + 1 + ThumbSize
  <2>1. \A f \in Files : size[f] \in Nat /\ size[f] <= Big
    <3> SUFFICES ASSUME NEW f \in Files PROVE size[f] \in Nat /\ size[f] <= Big
      OBVIOUS
    <3> DEFINE j == f[2]
    <3>1. j \in Jobs /\ (f = Staging(j) \/ f = Copy(j))  BY FileFacts
    <3>2. size[Staging(j)] \in Nat /\ size[Copy(j)] \in Nat /\ want[j] \in Nat /\ size[f] \in Nat
      BY <3>1, FileFacts, Opening
    <3>3. Sized(j)  BY <3>1 DEF Space
    <3>4. j \in Uploads \/ j \in Thumbs  BY <3>1, FileFacts
    <3> HIDE DEF j
    <3> QED  BY <1>1, <3>1, <3>2, <3>3, <3>4 DEF Sized
  <2>2. Big \in Int /\ IsFiniteSet(1..Big)  BY <1>1, FS_Interval
  <2>3. IsFiniteSet(Files)
    <3>1. IsFiniteSet(Jobs)  BY DEF StorageAssumption
    <3>2. IsFiniteSet({"staging", "copy"})
      <4>1. IsFiniteSet({"staging"}) /\ IsFiniteSet({"copy"})  BY FS_Singleton
      <4>2. {"staging", "copy"} = {"staging"} \cup {"copy"}  OBVIOUS
      <4>3. IsFiniteSet({"staging"} \cup {"copy"})  BY <4>1, FS_Union
      <4> QED  BY <4>2, <4>3
    <3> QED  BY <3>1, <3>2, FS_Product DEF Files
  <2>4. IsFiniteSet(Files \X (1..Big))  BY <2>2, <2>3, FS_Product
  <2>5. Bytes(Files) \subseteq Files \X (1..Big)
    <3> HIDE DEF Big
    <3> SUFFICES ASSUME NEW b \in Bytes(Files) PROVE b \in Files \X (1..Big)
      OBVIOUS
    <3>1. PICK f \in Files : \E k \in 1..size[f] : b = <<f, k>>  BY BytesBefore
    <3>2. PICK k \in 1..size[f] : b = <<f, k>>  BY <3>1
    <3>3. k \in 1..Big  BY <2>1, <2>2, <3>2
    <3> QED  BY <3>2, <3>3
  <2> QED  BY <2>4, <2>5, FS_Subset
<1>3. Occupied(Files) \in Nat  BY <1>2, FS_CardinalityType DEF Occupied
<1>4. IsFiniteSet(Charge)
  <2>1. IsFiniteSet(1..MaxSize)  BY <1>1, FS_Interval
  <2>2. IsFiniteSet(Uploads \X (1..MaxSize))  BY <2>1, FileFacts, FS_Product
  <2>3. Charge \subseteq Uploads \X (1..MaxSize)  BY DEF Charge
  <2> QED  BY <2>2, <2>3, FS_Subset
<1>5. Cardinality(Charge) \in Nat  BY <1>4, FS_CardinalityType
<1> QED  BY <1>1, <1>2, <1>3, <1>4, <1>5 DEF Available

\* Where a step writes at most one byte, of an upload that is charged for it, and
\* brings no staging file to life, the budget holds on.
LEMMA BudgetKept ==
  ASSUME StorageAssumption, IInv, Space, disk' = disk, Charge' \subseteq Charge,
         \A u \in Uploads : Alive(Staging(u))' => Alive(Staging(u))
  PROVE  Budget'
<1>1. Budget' <=> ((\E u \in Uploads : Alive(Staging(u))')
                     => Cardinality(Charge') + MinFree <= disk')
  BY DEF Budget, Staging
<1>2. Cardinality(Charge') \in Nat /\ Cardinality(Charge') <= Cardinality(Charge)
  BY SpaceFacts, FS_Subset, FS_CardinalityType
<1> QED  BY <1>1, <1>2, SpaceFacts DEF Space, Budget

LEMMA RoomKept ==
  ASSUME StorageAssumption, IInv, Space, disk' = disk, foreign' = foreign,
         \/ Bytes(Files)' \subseteq Bytes(Files)
         \/ Available > 0 /\ \E b : Bytes(Files)' \subseteq Bytes(Files) \cup {b}
  PROVE  Available' >= 0
<1>1. Available' = disk' - foreign' - Cardinality(Bytes(Files)')
  BY DEF Available, Occupied
<1>2. CASE Bytes(Files)' \subseteq Bytes(Files)
  <2>1. /\ Cardinality(Bytes(Files)') \in Nat
        /\ Cardinality(Bytes(Files)') <= Cardinality(Bytes(Files))
    BY <1>2, SpaceFacts, FS_Subset, FS_CardinalityType
  <2> QED  BY <1>1, <2>1, SpaceFacts DEF Space, Occupied
<1>3. ASSUME NEW b, Available > 0, Bytes(Files)' \subseteq Bytes(Files) \cup {b}
      PROVE  Available' >= 0
  <2>1. /\ Cardinality(Bytes(Files)') \in Nat
        /\ Cardinality(Bytes(Files)') <= Cardinality(Bytes(Files)) + 1
    BY <1>3, SpaceFacts, OneMore
  <2> QED  BY <1>1, <1>3, <2>1, SpaceFacts DEF Occupied
<1> QED  BY <1>2, <1>3

\* Steps that write nothing: what lives afterwards lived before, but for a file
\* that is created.
LEMMA Freed ==
  ASSUME StorageAssumption, IInv, Space, UNCHANGED <<size, disk, foreign>>,
         \A n \in Names : dir'[n] # NoFile => Alive(dir'[n]) \/ Fresh(dir'[n]),
         \A r \in Readers : fd'[r] # NoFile => Alive(fd'[r]),
         \A u \in Uploads : /\ pc'[u] = "staging" => pc[u] = "staging"
                            /\ pc'[u] \in Holding => pc[u] \in Holding
  PROVE  Available' >= 0 /\ Budget'
<1>1. ASSUME NEW f \in Files, Alive(f)' PROVE Alive(f) \/ Fresh(f)
  <2>1. f # NoFile  BY FileFacts
  <2> QED  BY <1>1, <2>1, AliveAfter, AliveBefore
<1>2. \A u \in Uploads : Alive(Staging(u))' => Alive(Staging(u))
  <2> SUFFICES ASSUME NEW u \in Uploads, Alive(Staging(u))' PROVE Alive(Staging(u))
    OBVIOUS
  <2>1. Staging(u) \in Files /\ ~Fresh(Staging(u))  BY FileFacts DEF Fresh
  <2> QED  BY <1>1, <2>1
<1>3. \A j \in Jobs : Alive(Copy(j))' => Alive(Copy(j)) \/ size[Copy(j)] = 0
  BY <1>1, FileFacts DEF Fresh
<1>4. Bytes(Files)' \subseteq Bytes(Files)
  <2> SUFFICES ASSUME NEW b \in Bytes(Files)' PROVE b \in Bytes(Files)
    OBVIOUS
  <2>1. PICK f \in Files : Alive(f)' /\ \E k \in 1..size'[f] : b = <<f, k>>
    BY BytesAfter
  <2>2. PICK k \in 1..size[f] : b = <<f, k>>  BY <2>1
  <2>3. size[f] # 0  BY <2>2
  <2>4. Alive(f)  BY <1>1, <2>1, <2>3 DEF Fresh
  <2> QED  BY <2>2, <2>4, BytesBefore
<1>5. Charge' \subseteq Charge
  <2> SUFFICES ASSUME NEW c \in Charge' PROVE c \in Charge
    OBVIOUS
  <2>1. /\ c \in Uploads \X (1..MaxSize)
        /\ \/ pc'[c[1]] = "staging"
           \/ Alive(Staging(c[1]))' /\ c[2] <= size[Staging(c[1])]
           \/ Alive(Copy(c[1]))' /\ c[2] <= size[Copy(c[1])]
    BY ChargeAfter
  <2>2. c[1] \in Uploads /\ c[1] \in Jobs /\ c[2] \in 1..MaxSize  BY <2>1, FileFacts
  <2>3. Alive(Copy(c[1]))' /\ c[2] <= size[Copy(c[1])] => Alive(Copy(c[1]))
    BY <1>3, <2>2, SpaceFacts
  <2> QED  BY <1>2, <2>1, <2>2, <2>3 DEF Charge
<1> QED  BY <1>2, <1>4, <1>5, BudgetKept, RoomKept

\* Two finite sets between them hold no less than a set that they cover.
AtMostBoth(S, T, U) ==
  /\ IsFiniteSet(U) /\ Cardinality(U) \in Nat
  /\ Cardinality(S) \in Nat /\ Cardinality(T) \in Nat
  /\ Cardinality(U) <= Cardinality(S) + Cardinality(T)

LEMMA CoveredByBoth ==
  ASSUME NEW S, NEW T, NEW U, IsFiniteSet(S), IsFiniteSet(T), U \subseteq S \cup T
  PROVE  AtMostBoth(S, T, U)
<1>1. /\ IsFiniteSet(S \cup T)
      /\ Cardinality(S \cup T) = Cardinality(S) + Cardinality(T) - Cardinality(S \cap T)
  BY FS_Union
<1>2. IsFiniteSet(U) /\ Cardinality(U) <= Cardinality(S \cup T)  BY <1>1, FS_Subset
<1>3. IsFiniteSet(S \cap T)  BY FS_Subset
<1>4. /\ Cardinality(U) \in Nat /\ Cardinality(S) \in Nat /\ Cardinality(T) \in Nat
      /\ Cardinality(S \cap T) \in Nat
  BY <1>2, <1>3, FS_CardinalityType
<1> QED  BY <1>1, <1>2, <1>4 DEF AtMostBoth

\* What is charged is on the disk, or reserved by an upload that stages.
LEMMA ChargeCovered ==
  ASSUME StorageAssumption, IInv, Space
  PROVE  Cardinality(Charge) <= Occupied(Files) + inFlight
<1> DEFINE Pending == {c \in Charge : pc[c[1]] = "staging"}
           Written == {c \in Charge : pc[c[1]] # "staging"}
           Slots == Reserved \X (1..MaxSize)
<1>1. IsFiniteSet(Slots) /\ Cardinality(Slots) = inFlight
  <2>1. IsFiniteSet(Reserved) /\ Cardinality(Reserved) \in Nat
    BY FileFacts, FS_Subset, FS_CardinalityType DEF Reserved
  <2>2. IsFiniteSet(1..MaxSize) /\ Cardinality(1..MaxSize) = MaxSize
    BY SpaceFacts, FS_Interval
  <2>3. IsFiniteSet(Slots) /\ Cardinality(Slots) = Cardinality(Reserved) * Cardinality(1..MaxSize)
    BY <2>1, <2>2, FS_Product
  <2>4. inFlight = MaxSize * Cardinality(Reserved)  BY DEF IInv, ReservationsExact
  <2>5. \A m, n \in Nat : m * n = n * m  OBVIOUS
  <2> QED  BY <2>1, <2>2, <2>3, <2>4, <2>5, SpaceFacts
<1>2. Pending \subseteq Slots
  <2> SUFFICES ASSUME NEW c \in Charge, pc[c[1]] = "staging" PROVE c \in Slots
    OBVIOUS
  <2>1. c \in Uploads \X (1..MaxSize)  BY DEF Charge
  <2>2. c[1] \in Reserved  BY <2>1 DEF Reserved, Holds
  <2> QED  BY <2>1, <2>2
<1>3. IsFiniteSet(Written) /\ Cardinality(Written) <= Occupied(Files)
  <2> DEFINE Byte == [c \in Written |->
                        IF Alive(Staging(c[1])) /\ c[2] <= size[Staging(c[1])]
                        THEN <<Staging(c[1]), c[2]>> ELSE <<Copy(c[1]), c[2]>>]
  <2>1. \A c \in Written : Byte[c] \in Bytes(Files)
    <3> SUFFICES ASSUME NEW c \in Written PROVE Byte[c] \in Bytes(Files)
      OBVIOUS
    <3>1. /\ c[1] \in Uploads /\ c[2] \in 1..MaxSize
          /\ \/ Alive(Staging(c[1])) /\ c[2] <= size[Staging(c[1])]
             \/ Alive(Copy(c[1])) /\ c[2] <= size[Copy(c[1])]
      BY DEF Charge
    <3>2. /\ Staging(c[1]) \in Files /\ Copy(c[1]) \in Files
          /\ size[Staging(c[1])] \in Nat /\ size[Copy(c[1])] \in Nat
      BY <3>1, FileFacts, Opening
    <3>3. CASE Alive(Staging(c[1])) /\ c[2] <= size[Staging(c[1])]
      <4>1. c[2] \in 1..size[Staging(c[1])]  BY <3>1, <3>2, <3>3, SpaceFacts
      <4>2. <<Staging(c[1]), c[2]>> \in Bytes(Files)  BY <3>2, <3>3, <4>1, BytesBefore
      <4> QED  BY <3>3, <4>2
    <3>4. CASE ~(Alive(Staging(c[1])) /\ c[2] <= size[Staging(c[1])])
      <4>1. c[2] \in 1..size[Copy(c[1])] /\ Alive(Copy(c[1]))
        BY <3>1, <3>2, <3>4, SpaceFacts
      <4>2. <<Copy(c[1]), c[2]>> \in Bytes(Files)  BY <3>2, <4>1, BytesBefore
      <4> QED  BY <3>4, <4>2
    <3> QED  BY <3>3, <3>4
  <2>2. \A c, d \in Written : Byte[c] = Byte[d] => c = d
    <3> SUFFICES ASSUME NEW c \in Written, NEW d \in Written, Byte[c] = Byte[d] PROVE c = d
      OBVIOUS
    <3>1. \A e \in Written : \E f \in {Staging(e[1]), Copy(e[1])} : Byte[e] = <<f, e[2]>>
      OBVIOUS
    <3>2. PICK f \in {Staging(c[1]), Copy(c[1])} : Byte[c] = <<f, c[2]>>  BY <3>1
    <3>3. PICK g \in {Staging(d[1]), Copy(d[1])} : Byte[d] = <<g, d[2]>>  BY <3>1
    <3>4. f = g /\ c[2] = d[2]  BY <3>2, <3>3
    <3>5. c \in Uploads \X (1..MaxSize) /\ d \in Uploads \X (1..MaxSize)  BY DEF Charge
    <3>6. f[2] = c[1] /\ g[2] = d[1]  BY <3>2, <3>3, <3>5, FileFacts
    <3> QED  BY <3>4, <3>5, <3>6
  <2>3. Byte \in Injection(Written, Bytes(Files))
    <3> HIDE DEF Written
    <3>1. Byte \in [Written -> Bytes(Files)]  BY <2>1
    <3> HIDE DEF Byte
    <3> QED  BY <2>2, <3>1 DEF Injection, IsInjective
  <2> HIDE DEF Byte, Written
  <2> QED  BY <2>3, SpaceFacts, FS_Injection DEF Occupied
<1>4. AtMostBoth(Slots, Written, Charge)
  <2>1. Charge \subseteq Slots \cup Written  BY <1>2
  <2> HIDE DEF Slots, Written
  <2> QED  BY <1>1, <1>3, <2>1, CoveredByBoth
<1> HIDE DEF Slots, Written
<1> QED  BY <1>1, <1>3, <1>4, SpaceFacts DEF AtMostBoth

-----------------------------------------------------------------------------
(* What each step does to the room *)

\* Sizes and wants of the other jobs stay; so does what is known of them.
LEMMA OthersSized ==
  ASSUME StorageAssumption, NEW u \in Jobs, NEW j \in Jobs, j # u, Sized(j),
         pc'[j] = pc[j], want'[j] = want[j],
         size'[Staging(j)] = size[Staging(j)], size'[Copy(j)] = size[Copy(j)]
  PROVE  Sized(j)'
<1>1. Sized(j)' <=>
        /\ size'[Copy(j)] <= want'[j]
        /\ pc'[j] \in {"idle", "staging"} => want'[j] = 0
        /\ j \in Uploads => /\ want'[j] <= size'[Staging(j)] /\ want'[j] <= MaxSize
                            /\ size'[Staging(j)] <= MaxSize + 1
        /\ j \in Thumbs => want'[j] <= ThumbSize /\ size'[Staging(j)] = 0
  BY DEF Sized, Staging, Copy
<1> QED  BY <1>1 DEF Sized

LEMMA AllSized ==
  ASSUME StorageAssumption, IInv, Space, NEW u \in Jobs, OnlyOf(u), Sized(u)'
  PROVE  \A j \in Jobs : Sized(j)'
<1> SUFFICES ASSUME NEW j \in Jobs, j # u PROVE Sized(j)'
  OBVIOUS
<1>1. Sized(j)  BY DEF Space
<1>2. /\ pc'[j] = pc[j] /\ want'[j] = want[j]
      /\ size'[Staging(j)] = size[Staging(j)] /\ size'[Copy(j)] = size[Copy(j)]
  BY DEF OnlyOf
<1> QED  BY <1>1, <1>2, OthersSized

\* A step that writes nothing, and changes no want, keeps what is known of sizes.
LEMMA StepSized ==
  ASSUME StorageAssumption, IInv, Space, size' = size, want' = want,
         \A j \in Jobs : pc'[j] \in {"idle", "staging"} => pc[j] \in {"idle", "staging"}
  PROVE  \A j \in Jobs : Sized(j)'
<1> SUFFICES ASSUME NEW j \in Jobs PROVE Sized(j)'
  OBVIOUS
<1>1. Sized(j)  BY DEF Space
<1> QED  BY <1>1 DEF Sized, Staging, Copy

LEMMA ReserveFits ==
  ASSUME StorageAssumption, IInv, Space, NEW u \in Uploads, Reserve(u)
  PROVE  Space'
<1>0. u \in Jobs /\ pc[u] = "idle" /\ pc \in [Jobs -> Labels]
      /\ dir \in [Names -> Files \cup {NoFile}]
  BY FileFacts, Opening DEF Reserve
<1>1. /\ UNCHANGED <<disk, inside, size, synced, torn, want, fd, foreign>>
      /\ pc' = [pc EXCEPT ![u] = "done"] \/ pc' = [pc EXCEPT ![u] = "staging"]
  BY DEF Reserve, Goto, config, fileVars
<1>2. \A j \in Jobs : Sized(j)'
  BY <1>0, <1>1, StepSized
<1>3. Available' >= 0 /\ Budget'
  <2>1. CASE MaxSize > Available - MinFree - inFlight
    <3>1. dir' = dir /\ pc' = [pc EXCEPT ![u] = "done"]
      BY <2>1 DEF Reserve, Goto
    <3>2. /\ \A n \in Names : dir'[n] # NoFile => Alive(dir'[n]) \/ Fresh(dir'[n])
          /\ \A r \in Readers : fd'[r] # NoFile => Alive(fd'[r])
      BY <1>1, <3>1, AliveBefore
    <3>3. \A v \in Uploads : /\ pc'[v] = "staging" => pc[v] = "staging"
                             /\ pc'[v] \in Holding => pc[v] \in Holding
      BY <1>0, <3>1, FileFacts DEF Holding
    <3> QED  BY <1>1, <3>2, <3>3, Freed
  <2>2. CASE ~(MaxSize > Available - MinFree - inFlight)
    <3>1. /\ dir' = [dir EXCEPT ![StagingName(u)] = Staging(u)]
          /\ pc' = [pc EXCEPT ![u] = "staging"]
      BY <2>2 DEF Reserve, Goto
    <3>2. size[Staging(u)] = 0 /\ size[Copy(u)] = 0
      BY <1>0, Opening DEF Own
    <3>3. \A f \in Files : Alive(f)' => Alive(f) \/ f = Staging(u)
      <4> SUFFICES ASSUME NEW f \in Files, Alive(f)', f # Staging(u) PROVE Alive(f)
        OBVIOUS
      <4>1. \A n \in Names : dir'[n] = f => dir[n] = f  BY <1>0, <3>1
      <4>2. \A v \in Uploads : v # u /\ pc'[v] \in Holding => pc[v] \in Holding
        BY <1>0, <3>1, FileFacts
      <4> QED  BY <1>1, <4>1, <4>2, AliveAfter, AliveBefore
    <3>4. Bytes(Files)' \subseteq Bytes(Files)
      <4> SUFFICES ASSUME NEW b \in Bytes(Files)' PROVE b \in Bytes(Files)
        OBVIOUS
      <4>1. PICK f \in Files : Alive(f)' /\ \E k \in 1..size'[f] : b = <<f, k>>
        BY BytesAfter
      <4>2. PICK k \in 1..size[f] : b = <<f, k>>  BY <1>1, <4>1
      <4>3. size[f] # 0  BY <4>2
      <4>4. Alive(f)  BY <3>2, <3>3, <4>1, <4>3
      <4> QED  BY <4>2, <4>4, BytesBefore
    <3>5. Available' >= 0  BY <1>1, <3>4, RoomKept
    <3>6. Charge' \subseteq Charge \cup ({u} \X (1..MaxSize))
      <4> SUFFICES ASSUME NEW c \in Charge', c[1] # u PROVE c \in Charge
        BY ChargeAfter
      <4>1. /\ c \in Uploads \X (1..MaxSize)
            /\ \/ pc'[c[1]] = "staging"
               \/ Alive(Staging(c[1]))' /\ c[2] <= size[Staging(c[1])]
               \/ Alive(Copy(c[1]))' /\ c[2] <= size[Copy(c[1])]
        BY <1>1, ChargeAfter
      <4>2. c[1] \in Jobs /\ Staging(c[1]) \in Files /\ Copy(c[1]) \in Files
            /\ Staging(c[1]) # Staging(u) /\ Copy(c[1]) # Staging(u)
        BY <4>1, FileFacts, <1>0
      <4>3. pc'[c[1]] = pc[c[1]]  BY <1>0, <3>1, <4>2
      <4> QED  BY <3>3, <4>1, <4>2, <4>3 DEF Charge
    <3>7. Cardinality(Charge) <= Occupied(Files) + inFlight
      BY ChargeCovered
    <3>8. /\ Cardinality(Charge') \in Nat
          /\ Cardinality(Charge') <= Cardinality(Charge) + MaxSize
      <4> DEFINE Own1 == {u} \X (1..MaxSize)
      <4>1. IsFiniteSet(1..MaxSize) /\ Cardinality(1..MaxSize) = MaxSize
        BY SpaceFacts, FS_Interval
      <4>2. IsFiniteSet({u}) /\ Cardinality({u}) = 1  BY FS_Singleton
      <4>3. IsFiniteSet(Own1) /\ Cardinality(Own1) = Cardinality({u}) * Cardinality(1..MaxSize)
        BY <4>1, <4>2, FS_Product
      <4>4. Cardinality(Own1) = MaxSize  BY <4>1, <4>2, <4>3, SpaceFacts
      <4> HIDE DEF Own1
      <4>5. AtMostBoth(Charge, Own1, Charge')
        BY <3>6, <4>3, SpaceFacts, CoveredByBoth DEF Own1
      <4> QED  BY <4>4, <4>5 DEF AtMostBoth
    <3>9. inFlight \in Int  BY DEF IInv, Types
    <3>10. Cardinality(Charge') + MinFree <= disk
      BY <2>2, <3>7, <3>8, <3>9, SpaceFacts
    <3> QED  BY <1>1, <3>5, <3>10 DEF Budget
  <2> QED  BY <2>1, <2>2
<1> QED  BY <1>1, <1>2, <1>3 DEF Space

\* Stage and CopyByte: one byte, of a file that lives.
LEMMA WriteFits ==
  ASSUME StorageAssumption, IInv, Space, NEW u \in Jobs, (Stage(u) /\ u \in Uploads) \/ CopyByte(u)
  PROVE  Space'
<1> DEFINE g == IF pc[u] = "staging" THEN Staging(u) ELSE Copy(u)
<1>1. /\ UNCHANGED <<disk, inside, dir, synced, torn, want, pc, fd, foreign>>
      /\ Available > 0
      /\ size' = [size EXCEPT ![g] = size[g] + 1]
      /\ \/ /\ u \in Uploads /\ pc[u] = "staging" /\ g = Staging(u)
            /\ size[Staging(u)] <= MaxSize
         \/ /\ pc[u] = "copying" /\ g = Copy(u) /\ size[Copy(u)] < want[u]
  BY DEF Stage, CopyByte, Write, config
<1>2. g \in Files  BY FileFacts
<1> HIDE DEF g
<1>3. /\ size \in [Files -> Nat] /\ want \in [Jobs -> Nat]
      /\ Staging(u) \in Files /\ Copy(u) \in Files /\ Staging(u) # Copy(u)
      /\ size'[g] = size[g] + 1 /\ \A f \in Files \ {g} : size'[f] = size[f]
  BY <1>1, <1>2, Opening, FileFacts
<1>4. \A f \in Files : Alive(f)' <=> Alive(f)
  BY <1>1, AliveBefore, AliveAfter
<1>5. \A j \in Jobs : Sized(j)'
  <2>1. Sized(u)'
    <3>1. Sized(u)' <=>
            /\ size'[Copy(u)] <= want[u]
            /\ pc[u] \in {"idle", "staging"} => want[u] = 0
            /\ u \in Uploads => /\ want[u] <= size'[Staging(u)] /\ want[u] <= MaxSize
                                /\ size'[Staging(u)] <= MaxSize + 1
            /\ u \in Thumbs => want[u] <= ThumbSize /\ size'[Staging(u)] = 0
      BY <1>1 DEF Sized, Staging, Copy
    <3>2. Sized(u)  BY DEF Space
    <3>3. u \in Uploads => u \notin Thumbs  BY FileFacts
    <3>4. size[Staging(u)] \in Nat /\ size[Copy(u)] \in Nat /\ want[u] \in Nat  BY <1>3
    <3>5. CASE g = Staging(u) /\ u \in Uploads /\ size[Staging(u)] <= MaxSize
      <4>1. size'[Staging(u)] = size[Staging(u)] + 1 /\ size'[Copy(u)] = size[Copy(u)]
        BY <1>3, <3>5
      <4> QED  BY <3>1, <3>2, <3>3, <3>4, <3>5, <4>1, SpaceFacts DEF Sized
    <3>6. CASE g = Copy(u) /\ size[Copy(u)] < want[u]
      <4>1. size'[Copy(u)] = size[Copy(u)] + 1 /\ size'[Staging(u)] = size[Staging(u)]
        BY <1>3, <3>6
      <4> QED  BY <3>1, <3>2, <3>4, <3>6, <4>1, SpaceFacts DEF Sized
    <3> QED  BY <1>1, <3>5, <3>6
  <2>2. ASSUME NEW j \in Jobs, j # u PROVE Sized(j)'
    <3>1. Sized(j)  BY DEF Space
    <3>2. g # Staging(j) /\ g # Copy(j)  BY <1>1, <2>2, FileFacts
    <3> QED  BY <1>1, <1>3, <2>2, <3>1, <3>2, FileFacts, OthersSized
  <2> QED  BY <2>1, <2>2
<1>6. Bytes(Files)' \subseteq Bytes(Files) \cup {<<g, size[g] + 1>>}
  <2> SUFFICES ASSUME NEW b \in Bytes(Files)', b # <<g, size[g] + 1>> PROVE b \in Bytes(Files)
    OBVIOUS
  <2>1. PICK f \in Files : Alive(f)' /\ \E k \in 1..size'[f] : b = <<f, k>>
    BY BytesAfter
  <2>2. PICK k \in 1..size'[f] : b = <<f, k>>  BY <2>1
  <2>3. k \in 1..size[f]
    <3>1. CASE f = g
      <4>1. k \in 1..(size[g] + 1) /\ k # size[g] + 1 /\ size[g] \in Nat
        BY <1>2, <1>3, <2>2, <3>1
      <4> QED  BY <3>1, <4>1
    <3>2. CASE f # g
      BY <1>3, <2>2, <3>2
    <3> QED  BY <3>1, <3>2
  <2> QED  BY <1>4, <2>1, <2>2, <2>3, BytesBefore
<1>7. Charge' \subseteq Charge
  <2> SUFFICES ASSUME NEW c \in Charge' PROVE c \in Charge
    OBVIOUS
  <2>1. /\ c \in Uploads \X (1..MaxSize)
        /\ \/ pc[c[1]] = "staging"
           \/ Alive(Staging(c[1]))' /\ c[2] <= size'[Staging(c[1])]
           \/ Alive(Copy(c[1]))' /\ c[2] <= size'[Copy(c[1])]
    BY <1>1, ChargeAfter
  <2>2. /\ c[1] \in Uploads /\ c[1] \in Jobs /\ c[2] \in 1..MaxSize
        /\ Staging(c[1]) \in Files /\ Copy(c[1]) \in Files
        /\ Alive(Staging(c[1]))' => Alive(Staging(c[1]))
        /\ Alive(Copy(c[1]))' => Alive(Copy(c[1]))
    BY <1>4, <2>1, FileFacts
  <2>3. CASE c[1] # u
    <3>1. g # Staging(c[1]) /\ g # Copy(c[1])  BY <1>1, <2>2, <2>3, FileFacts
    <3>2. size'[Staging(c[1])] = size[Staging(c[1])] /\ size'[Copy(c[1])] = size[Copy(c[1])]
      BY <1>3, <2>2, <3>1
    <3> QED  BY <2>1, <2>2, <3>2 DEF Charge
  <2>4. CASE c[1] = u /\ pc[u] = "staging"
    BY <2>1, <2>4 DEF Charge
  <2>5. CASE c[1] = u /\ pc[u] = "copying"
    <3>1. Alive(Staging(u))  BY <2>2, <2>5, AliveBefore DEF Holding
    <3>2. /\ size'[Staging(u)] = size[Staging(u)]
          /\ size'[Copy(u)] <= want[u] /\ want[u] <= size[Staging(u)]
      <4>1. g = Copy(u) /\ size[Copy(u)] < want[u]  BY <1>1, <2>5
      <4>2. size'[Copy(u)] = size[Copy(u)] + 1 /\ size'[Staging(u)] = size[Staging(u)]
        BY <1>3, <4>1
      <4>3. Sized(u) /\ u \in Uploads  BY <2>2, <2>5 DEF Space
      <4>4. size[Copy(u)] \in Nat /\ want[u] \in Nat  BY <1>3
      <4> QED  BY <4>1, <4>2, <4>3, <4>4 DEF Sized
    <3>3. size'[Copy(u)] \in Int /\ size[Staging(u)] \in Int /\ want[u] \in Int
      BY <1>1, <1>2, <1>3
    <3>4. c[2] <= size[Staging(u)]  BY <2>1, <2>2, <2>5, <3>2, <3>3, SpaceFacts
    <3> QED  BY <2>1, <2>5, <3>1, <3>4 DEF Charge
  <2> QED  BY <1>1, <2>3, <2>4, <2>5
<1>8. Available' >= 0  BY <1>1, <1>6, RoomKept
<1>9. Budget'
  <2>1. \A v \in Uploads : Alive(Staging(v))' => Alive(Staging(v))  BY <1>4, FileFacts
  <2> QED  BY <1>1, <1>7, <2>1, BudgetKept
<1> QED  BY <1>1, <1>5, <1>8, <1>9 DEF Space

LEMMA StageFits ==
  ASSUME StorageAssumption, IInv, Space, NEW u \in Uploads, Stage(u)
  PROVE  Space'
BY WriteFits, FileFacts

\* Discard, RemoveSource, Finish, Abandon and Delete: names are removed.
LEMMA UnlinkFits ==
  ASSUME StorageAssumption, IInv, Space, NEW names,
         dir' = [n \in Names |-> IF n \in names THEN NoFile ELSE dir[n]],
         UNCHANGED <<config, fileVars, fd, foreign>>,
         \A j \in Jobs : /\ pc'[j] \in {"idle", "staging"} => pc[j] = pc'[j]
                         /\ pc'[j] \in Holding => pc[j] \in Holding
  PROVE  Space'
<1>1. UNCHANGED <<disk, inside, size, synced, torn, want>>  BY DEF config, fileVars
<1>2. \A j \in Jobs : Sized(j)'  BY <1>1, StepSized
<1>3. \A n \in Names : dir'[n] # NoFile => Alive(dir'[n])  BY AliveBefore
<1>4. \A r \in Readers : fd'[r] # NoFile => Alive(fd'[r])  BY AliveBefore
<1>5. \A u \in Uploads : /\ pc'[u] = "staging" => pc[u] = "staging"
                         /\ pc'[u] \in Holding => pc[u] \in Holding
  BY FileFacts
<1>6. Available' >= 0 /\ Budget'  BY <1>1, <1>3, <1>4, <1>5, Freed
<1> QED  BY <1>1, <1>2, <1>6 DEF Space

\* LinkStaged, CommitStaged and CommitCopy: another name for a file that lives.
LEMMA LinkFits ==
  ASSUME StorageAssumption, IInv, Space, NEW f, Alive(f),
         \A n \in Names : dir'[n] \in {dir[n], f, NoFile},
         UNCHANGED <<config, size, torn, fd, foreign>>, synced' \subseteq Files,
         \A j \in Jobs : Sized(j)',
         \A u \in Uploads : /\ pc'[u] = "staging" => pc[u] = "staging"
                            /\ pc'[u] \in Holding => pc[u] \in Holding
  PROVE  Space'
<1>1. UNCHANGED <<disk, inside, size, torn>>  BY DEF config
<1>2. \A n \in Names : dir'[n] # NoFile => Alive(dir'[n])  BY AliveBefore
<1>3. \A r \in Readers : fd'[r] # NoFile => Alive(fd'[r])  BY AliveBefore
<1>4. Available' >= 0 /\ Budget'  BY <1>1, <1>2, <1>3, Freed
<1> QED  BY <1>1, <1>4 DEF Space

LEMMA LinkStagedFits ==
  ASSUME StorageAssumption, IInv, Space, NEW u \in Uploads, LinkStaged(u)
  PROVE  Space'
<1>1. /\ u \in Jobs /\ pc[u] = "staging" /\ size[Staging(u)] \in 1..MaxSize
      /\ pc' = [pc EXCEPT ![u] = "linked"] /\ want' = [want EXCEPT ![u] = size[Staging(u)]]
      /\ dir' = [dir EXCEPT ![CommitName(u)] = Staging(u)]
      /\ synced' = synced \cup {Staging(u)} /\ UNCHANGED <<config, size, torn, fd, foreign>>
  BY FileFacts DEF LinkStaged, Validated, Goto
<1>2. /\ pc \in [Jobs -> Labels] /\ want \in [Jobs -> Nat] /\ size \in [Files -> Nat]
      /\ dir \in [Names -> Files \cup {NoFile}] /\ Staging(u) \in Files /\ Copy(u) \in Files
  BY <1>1, Opening, FileFacts
<1>3. \A j \in Jobs : Sized(j)'
  <2>1. Sized(u)'
    <3>1. Sized(u)' <=>
            /\ size'[Copy(u)] <= want'[u]
            /\ pc'[u] \in {"idle", "staging"} => want'[u] = 0
            /\ u \in Uploads => /\ want'[u] <= size'[Staging(u)] /\ want'[u] <= MaxSize
                                /\ size'[Staging(u)] <= MaxSize + 1
            /\ u \in Thumbs => want'[u] <= ThumbSize /\ size'[Staging(u)] = 0
      BY DEF Sized, Staging, Copy
    <3>2. Sized(u)  BY <1>1 DEF Space
    <3>3. u \notin Thumbs /\ pc'[u] = "linked" /\ want'[u] = size[Staging(u)] /\ size' = size
      BY <1>1, <1>2, FileFacts
    <3>4. size[Staging(u)] \in Nat /\ size[Copy(u)] \in Nat  BY <1>2
    <3> QED  BY <1>1, <3>1, <3>2, <3>3, <3>4, SpaceFacts DEF Sized
  <2>2. ASSUME NEW j \in Jobs, j # u PROVE Sized(j)'
    <3>1. Sized(j)  BY DEF Space
    <3>2. pc'[j] = pc[j] /\ want'[j] = want[j] /\ size' = size  BY <1>1, <2>2
    <3> QED  BY <1>1, <2>2, <3>1, <3>2, OthersSized
  <2> QED  BY <2>1, <2>2
<1>4. Alive(Staging(u))  BY <1>1, AliveBefore DEF Holding
<1>5. \A v \in Uploads : /\ pc'[v] = "staging" => pc[v] = "staging"
                         /\ pc'[v] \in Holding => pc[v] \in Holding
  BY <1>1, <1>2, FileFacts DEF Holding
<1>6. synced' \subseteq Files  BY <1>1, <1>2 DEF Space
<1>7. \A n \in Names : dir'[n] \in {dir[n], Staging(u), NoFile}  BY <1>1, <1>2
<1> QED  BY <1>1, <1>3, <1>4, <1>5, <1>6, <1>7, LinkFits

LEMMA CommitStagedFits ==
  ASSUME StorageAssumption, IInv, Space, NEW u \in Uploads, CommitStaged(u)
  PROVE  Space'
<1>1. /\ u \in Jobs /\ pc[u] = "linked" /\ pc' = [pc EXCEPT ![u] = "renamed"]
      /\ dir' = [dir EXCEPT ![CommitName(u)] = NoFile, ![Path[u]] = dir[CommitName(u)]]
      /\ UNCHANGED <<config, size, synced, torn, want, fd, foreign>>
  BY FileFacts DEF CommitStaged, Rename, Goto, fileVars
<1>2. dir[CommitName(u)] = Staging(u) /\ pc \in [Jobs -> Labels]
      /\ dir \in [Names -> Files \cup {NoFile}]
  BY <1>1, Opening DEF Own
<1>3. \A j \in Jobs : Sized(j)'  BY <1>1, <1>2, StepSized
<1>4. Alive(Staging(u))  BY <1>1, AliveBefore DEF Holding
<1>5. \A v \in Uploads : /\ pc'[v] = "staging" => pc[v] = "staging"
                         /\ pc'[v] \in Holding => pc[v] \in Holding
  BY <1>1, <1>2, FileFacts DEF Holding
<1>6. synced' \subseteq Files  BY <1>1 DEF Space
<1>7. \A n \in Names : dir'[n] \in {dir[n], Staging(u), NoFile}  BY <1>1, <1>2
<1> QED  BY <1>1, <1>3, <1>4, <1>5, <1>6, <1>7, LinkFits

LEMMA CommitCopyFits ==
  ASSUME StorageAssumption, IInv, Space, NEW j \in Jobs, CommitCopy(j)
  PROVE  Space'
<1>1. /\ pc[j] = "copying"
      /\ pc' = [pc EXCEPT ![j] = IF j \in Uploads THEN "stored" ELSE "done"]
      /\ dir' = [dir EXCEPT ![CopyName(j)] = NoFile, ![Path[j]] = dir[CopyName(j)]]
      /\ synced' = synced \cup {Copy(j)}
      /\ UNCHANGED <<config, size, torn, want, fd, foreign>>
  BY DEF CommitCopy, Rename, Goto
<1>2. dir[CopyName(j)] = Copy(j) /\ pc \in [Jobs -> Labels] /\ CopyName(j) \in Names
      /\ dir \in [Names -> Files \cup {NoFile}]
  BY <1>1, Opening, NameFacts DEF Own
<1>3. \A k \in Jobs : Sized(k)'  BY <1>1, <1>2, StepSized
<1>4. Alive(Copy(j))  BY <1>2, AliveBefore
<1>5. \A v \in Uploads : /\ pc'[v] = "staging" => pc[v] = "staging"
                         /\ pc'[v] \in Holding => pc[v] \in Holding
  BY <1>1, <1>2, FileFacts DEF Holding
<1>6. synced' \subseteq Files  BY <1>1, FileFacts DEF Space
<1>7. \A n \in Names : dir'[n] \in {dir[n], Copy(j), NoFile}  BY <1>1, <1>2
<1> QED  BY <1>1, <1>3, <1>4, <1>5, <1>6, <1>7, LinkFits

LEMMA StartCopyFits ==
  ASSUME StorageAssumption, IInv, Space, NEW j \in Jobs, StartCopy(j)
  PROVE  Space'
<1>1. /\ \/ /\ j \in Thumbs /\ j \notin Uploads /\ pc[j] = "idle"
            /\ want' = [want EXCEPT ![j] = ThumbSize]
         \/ /\ j \in Uploads /\ j \notin Thumbs /\ pc[j] = "staging"
            /\ size[Staging(j)] \in 1..MaxSize
            /\ want' = [want EXCEPT ![j] = size[Staging(j)]]
      /\ dir' = [dir EXCEPT ![CopyName(j)] = Copy(j)] /\ pc' = [pc EXCEPT ![j] = "copying"]
      /\ UNCHANGED <<disk, inside, size, synced, torn, fd, foreign>>
  BY FileFacts DEF StartCopy, Validated, Goto, config
<1>2. /\ pc \in [Jobs -> Labels] /\ want \in [Jobs -> Nat] /\ size \in [Files -> Nat]
      /\ dir \in [Names -> Files \cup {NoFile}] /\ Staging(j) \in Files /\ Copy(j) \in Files
  BY <1>1, Opening, FileFacts
<1>3. Sized(j)  BY DEF Space
<1>4. size[Copy(j)] = 0  BY <1>1, <1>2, <1>3 DEF Sized
<1>5. \A k \in Jobs : Sized(k)'
  <2>1. Sized(j)'
    <3>1. Sized(j)' <=>
            /\ size'[Copy(j)] <= want'[j]
            /\ pc'[j] \in {"idle", "staging"} => want'[j] = 0
            /\ j \in Uploads => /\ want'[j] <= size'[Staging(j)] /\ want'[j] <= MaxSize
                                /\ size'[Staging(j)] <= MaxSize + 1
            /\ j \in Thumbs => want'[j] <= ThumbSize /\ size'[Staging(j)] = 0
      BY DEF Sized, Staging, Copy
    <3>2. pc'[j] = "copying" /\ size' = size  BY <1>1, <1>2
    <3>3. CASE j \in Thumbs /\ j \notin Uploads /\ want'[j] = ThumbSize
      BY <1>3, <1>4, <3>1, <3>2, <3>3, SpaceFacts DEF Sized
    <3>4. CASE /\ j \in Uploads /\ j \notin Thumbs /\ want'[j] = size[Staging(j)]
               /\ size[Staging(j)] \in 1..MaxSize
      BY <1>3, <1>4, <3>1, <3>2, <3>4, SpaceFacts DEF Sized
    <3> QED  BY <1>1, <1>2, <3>3, <3>4
  <2>2. ASSUME NEW k \in Jobs, k # j PROVE Sized(k)'
    <3>1. Sized(k)  BY DEF Space
    <3>2. pc'[k] = pc[k] /\ want'[k] = want[k] /\ size' = size  BY <1>1, <1>2, <2>2
    <3> QED  BY <2>2, <3>1, <3>2, OthersSized
  <2> QED  BY <2>1, <2>2
<1>6. Fresh(Copy(j))  BY <1>4 DEF Fresh
<1>7. \A n \in Names : dir'[n] # NoFile => Alive(dir'[n]) \/ Fresh(dir'[n])
  <2>1. \A n \in Names : dir'[n] = Copy(j) \/ dir'[n] = dir[n]  BY <1>1, <1>2
  <2> QED  BY <1>6, <2>1, AliveBefore
<1>8. \A r \in Readers : fd'[r] # NoFile => Alive(fd'[r])  BY <1>1, AliveBefore
<1>9. \A v \in Uploads : /\ pc'[v] = "staging" => pc[v] = "staging"
                         /\ pc'[v] \in Holding => pc[v] \in Holding
  BY <1>1, <1>2, FileFacts DEF Holding
<1>10. Available' >= 0 /\ Budget'  BY <1>1, <1>7, <1>8, <1>9, Freed
<1> QED  BY <1>1, <1>5, <1>10 DEF Space

\* Release, Open and Close, Other.
LEMMA ReleaseFits ==
  ASSUME StorageAssumption, IInv, Space, NEW u \in Uploads, Release(u)
  PROVE  Space'
<1>1. /\ u \in Jobs /\ pc \in [Jobs -> Labels] /\ pc' = [pc EXCEPT ![u] = "done"]
      /\ UNCHANGED <<disk, inside, dir, size, synced, torn, want, fd, foreign>>
  BY FileFacts, Opening DEF Release, Goto, config, fileVars
<1>2. \A j \in Jobs : Sized(j)'  BY <1>1, StepSized
<1>3. /\ \A n \in Names : dir'[n] # NoFile => Alive(dir'[n])
      /\ \A r \in Readers : fd'[r] # NoFile => Alive(fd'[r])
  BY <1>1, AliveBefore
<1>4. \A v \in Uploads : /\ pc'[v] = "staging" => pc[v] = "staging"
                         /\ pc'[v] \in Holding => pc[v] \in Holding
  BY <1>1, FileFacts DEF Holding
<1>5. Available' >= 0 /\ Budget'  BY <1>1, <1>3, <1>4, Freed
<1> QED  BY <1>1, <1>2, <1>5 DEF Space

LEMMA ReaderFits ==
  ASSUME StorageAssumption, IInv, Space, NEW r \in Readers,
         Close(r) \/ \E p \in Paths : Open(r, p)
  PROVE  Space'
<1>1. /\ UNCHANGED <<disk, inside, dir, size, synced, torn, want, pc, foreign>>
      /\ \E f : fd' = [fd EXCEPT ![r] = f] /\ (f # NoFile => \E p \in Paths : f = dir[p])
  BY DEF Close, Open, config, fileVars
<1>2. fd \in [Readers -> Files \cup {NoFile}]  BY DEF IInv, Types
<1>3. \A j \in Jobs : Sized(j)'  BY <1>1, StepSized
<1>4. \A n \in Names : dir'[n] # NoFile => Alive(dir'[n])  BY <1>1, AliveBefore
<1>5. \A s \in Readers : fd'[s] # NoFile => Alive(fd'[s])
  BY <1>1, <1>2, NameFacts, AliveBefore
<1>6. Available' >= 0 /\ Budget'  BY <1>1, <1>4, <1>5, Freed
<1> QED  BY <1>1, <1>3, <1>6 DEF Space

LEMMA OtherFits ==
  ASSUME StorageAssumption, IInv, Space, Other
  PROVE  Space'
<1>1. /\ UNCHANGED <<disk, inside, dir, size, synced, torn, want, pc, fd>>
      /\ Available > 0 /\ foreign' = foreign + 1
  BY DEF Other, config, fileVars
<1>2. \A j \in Jobs : Sized(j)'  BY <1>1, StepSized
<1>3. \A f : Alive(f)' <=> Alive(f)  BY <1>1, AliveBefore, AliveAfter
<1>4. Bytes(Files)' = Bytes(Files)  BY <1>1, <1>3 DEF Bytes
<1>5. Available' = disk' - foreign' - Cardinality(Bytes(Files)')  BY DEF Available, Occupied
<1>6. Available' >= 0  BY <1>1, <1>4, <1>5, SpaceFacts DEF Occupied
<1>7. Charge' \subseteq Charge
  <2> SUFFICES ASSUME NEW c \in Charge' PROVE c \in Charge
    OBVIOUS
  <2> QED  BY <1>1, <1>3, ChargeAfter DEF Charge
<1>8. Budget'  BY <1>1, <1>3, <1>7, BudgetKept
<1> QED  BY <1>1, <1>2, <1>6, <1>8, SpaceFacts DEF Space

LEMMA RestartFits ==
  ASSUME StorageAssumption, IInv, Space, Restart
  PROVE  Space'
<1>1. /\ \E lost \in SUBSET Files : torn' = torn \cup lost
      /\ pc' = [j \in Jobs |-> IF pc[j] \in {"idle", "done"} THEN pc[j] ELSE "lost"]
      /\ fd' = [r \in Readers |-> NoFile]
      /\ UNCHANGED <<disk, inside, dir, size, synced, want, foreign>>
  BY DEF Restart, config
<1>2. \A j \in Jobs : Sized(j)'  BY <1>1, StepSized
<1>3. /\ \A n \in Names : dir'[n] # NoFile => Alive(dir'[n])
      /\ \A r \in Readers : fd'[r] # NoFile => Alive(fd'[r])
  BY <1>1, AliveBefore
<1>4. \A v \in Uploads : /\ pc'[v] = "staging" => pc[v] = "staging"
                         /\ pc'[v] \in Holding => pc[v] \in Holding
  BY <1>1, FileFacts DEF Holding
<1>5. Available' >= 0 /\ Budget'  BY <1>1, <1>3, <1>4, Freed
<1> QED  BY <1>1, <1>2, <1>5 DEF Space

LEMMA SpaceInit == ASSUME StorageAssumption, Init PROVE Space
<1>1. \A f \in Files : ~Alive(f)
  BY FileFacts, AliveBefore DEF Init, Holding
<1>2. Bytes(Files) = {}
  <2> SUFFICES ASSUME NEW b \in Bytes(Files) PROVE FALSE
    OBVIOUS
  <2> QED  BY <1>1, BytesBefore
<1>3. Occupied(Files) = 0  BY <1>2, FS_EmptySet DEF Occupied
<1>4. disk \in Nat /\ foreign = 0  BY DEF Init, StorageAssumption
<1>5. Available >= 0  BY <1>3, <1>4 DEF Available
<1>6. \A j \in Jobs : Sized(j)
  <2> SUFFICES ASSUME NEW j \in Jobs PROVE Sized(j)
    OBVIOUS
  <2>1. size[Staging(j)] = 0 /\ size[Copy(j)] = 0 /\ want[j] = 0
    BY FileFacts DEF Init
  <2>2. MaxSize \in Nat /\ ThumbSize \in Nat  BY DEF StorageAssumption
  <2> QED  BY <2>1, <2>2 DEF Sized
<1>7. Budget  BY <1>1, FileFacts DEF Budget
<1> QED  BY <1>4, <1>5, <1>6, <1>7 DEF Init, Space

LEMMA SpaceNext == ASSUME StorageAssumption, IInv, Space, [Next]_vars PROVE Space'
<1>0. pc \in [Jobs -> Labels] /\ Uploads \subseteq Jobs  BY FileFacts DEF IInv, Types
<1>1. ASSUME NEW u \in Uploads, UploadStep(u) PROVE Space'
  <2>1. CASE Discard(u)
    <3>1. /\ pc[u] = "staging" /\ pc' = [pc EXCEPT ![u] = "ending"]
          /\ dir' = [n \in Names |-> IF n \in {StagingName(u)} THEN NoFile ELSE dir[n]]
          /\ UNCHANGED <<config, fileVars, fd, foreign>>
      BY <2>1 DEF Discard, Goto, Unlink
    <3>2. \A j \in Jobs : /\ pc'[j] \in {"idle", "staging"} => pc[j] = pc'[j]
                          /\ pc'[j] \in Holding => pc[j] \in Holding
      BY <1>0, <3>1 DEF Holding
    <3> QED  BY <3>1, <3>2, UnlinkFits
  <2>2. CASE RemoveSource(u) \/ Finish(u)
    <3>1. /\ \/ pc[u] = "renamed" /\ pc' = [pc EXCEPT ![u] = "stored"]
             \/ pc[u] = "stored" /\ pc' = [pc EXCEPT ![u] = "ending"]
          /\ dir' = [n \in Names |-> IF n \in {StagingName(u)} THEN NoFile ELSE dir[n]]
          /\ UNCHANGED <<config, fileVars, fd, foreign>>
      BY <2>2 DEF RemoveSource, Finish, Goto, Unlink
    <3>2. \A j \in Jobs : /\ pc'[j] \in {"idle", "staging"} => pc[j] = pc'[j]
                          /\ pc'[j] \in Holding => pc[j] \in Holding
      BY <1>0, <3>1 DEF Holding
    <3> QED  BY <3>1, <3>2, UnlinkFits
  <2> QED
    BY <1>1, <2>1, <2>2, ReserveFits, StageFits, LinkStagedFits, CommitStagedFits, ReleaseFits
    DEF UploadStep
<1>2. ASSUME NEW j \in Jobs, PutStep(j) PROVE Space'
  <2>1. CASE Abandon(j)
    <3>1. /\ pc[j] \in {"linked", "copying"}
          /\ pc' = [pc EXCEPT ![j] = IF j \in Uploads THEN "ending" ELSE "done"]
          /\ dir' = [n \in Names |-> IF n \in PrivateNames(j) THEN NoFile ELSE dir[n]]
          /\ UNCHANGED <<config, fileVars, fd, foreign>>
      BY <2>1 DEF Abandon, Goto, Unlink
    <3>2. \A k \in Jobs : /\ pc'[k] \in {"idle", "staging"} => pc[k] = pc'[k]
                          /\ pc'[k] \in Holding => pc[k] \in Holding
      BY <1>0, <3>1 DEF Holding
    <3> QED  BY <3>1, <3>2, UnlinkFits
  <2> QED  BY <1>2, <2>1, StartCopyFits, WriteFits, CommitCopyFits DEF PutStep
<1>3. ASSUME NEW p \in Paths, Delete(p) PROVE Space'
  <2>1. /\ dir' = [n \in Names |-> IF n \in {p} THEN NoFile ELSE dir[n]]
        /\ UNCHANGED <<config, fileVars, fd, foreign>> /\ pc' = pc
    BY <1>3 DEF Delete, Unlink
  <2> QED  BY <2>1, UnlinkFits
<1>4. CASE UNCHANGED vars
  <2>1. UNCHANGED <<disk, inside, dir, size, synced, torn, want, pc, fd, foreign>>
    BY <1>4 DEF vars, config, fileVars
  <2>2. \A j \in Jobs : Sized(j)'  BY <2>1, StepSized
  <2>3. /\ \A n \in Names : dir'[n] # NoFile => Alive(dir'[n])
        /\ \A r \in Readers : fd'[r] # NoFile => Alive(fd'[r])
    BY <2>1, AliveBefore
  <2>4. Available' >= 0 /\ Budget'  BY <2>1, <2>3, Freed
  <2> QED  BY <2>1, <2>2, <2>4 DEF Space
<1> QED
  BY <1>1, <1>2, <1>3, <1>4, ReaderFits, OtherFits, RestartFits DEF Next

LEMMA SpaceAlways == Spec => []Space
BY StorageAssumption, IInvAlways, SpaceInit, SpaceNext, PTL DEF Spec

\* Every variable has its type; in particular no upload stages more than the one
\* byte that tells it is too large, no copy outgrows what it is a copy of, and
\* nothing is written that the disk has no room for (UploadReader, Put, PutFile).
THEOREM TypeCorrect == Spec => []TypeOK
<1>1. ASSUME IInv, Space PROVE TypeOK
  <2>1. \A u \in Uploads : size[Staging(u)] <= MaxSize + 1 /\ size[Copy(u)] <= MaxSize
    <3> SUFFICES ASSUME NEW u \in Uploads
                 PROVE  size[Staging(u)] <= MaxSize + 1 /\ size[Copy(u)] <= MaxSize
      OBVIOUS
    <3>1. u \in Jobs /\ Staging(u) \in Files /\ Copy(u) \in Files
      BY StorageAssumption, FileFacts
    <3>2. Sized(u)  BY <1>1, <3>1 DEF Space
    <3>3. size[Copy(u)] \in Nat /\ want[u] \in Nat /\ MaxSize \in Nat
      BY <1>1, <3>1, StorageAssumption, Opening
    <3> QED  BY <3>2, <3>3 DEF Sized
  <2>2. \A t \in Thumbs : size[Staging(t)] = 0 /\ size[Copy(t)] <= ThumbSize
    <3> SUFFICES ASSUME NEW t \in Thumbs
                 PROVE  size[Staging(t)] = 0 /\ size[Copy(t)] <= ThumbSize
      OBVIOUS
    <3>1. t \in Jobs /\ Copy(t) \in Files  BY StorageAssumption, FileFacts
    <3>2. Sized(t)  BY <1>1, <3>1 DEF Space
    <3>3. size[Copy(t)] \in Nat /\ want[t] \in Nat /\ ThumbSize \in Nat
      BY <1>1, <3>1, StorageAssumption, Opening
    <3> QED  BY <3>2, <3>3 DEF Sized
  <2>3. {inFlight, foreign, Available} \subseteq Nat
    <3>1. Available \in Nat /\ foreign \in Nat  BY <1>1, StorageAssumption, SpaceFacts DEF Space
    <3>2. inFlight \in Nat
      <4>1. Cardinality(Reserved) \in Nat
        BY StorageAssumption, FileFacts, FS_Subset, FS_CardinalityType DEF Reserved
      <4>2. MaxSize \in Nat  BY StorageAssumption DEF StorageAssumption
      <4>3. \A m, n \in Nat : m * n \in Nat  OBVIOUS
      <4> QED  BY <1>1, <4>1, <4>2, <4>3 DEF IInv, ReservationsExact
    <3> QED  BY <3>1, <3>2
  <2> QED  BY <1>1, <2>1, <2>2, <2>3 DEF TypeOK, IInv, Types, Labels, Space
<1> QED  BY <1>1, IInvAlways, SpaceAlways, PTL

-----------------------------------------------------------------------------
(* What is free beside what is charged *)

Overshot == {u \in Uploads : size[Staging(u)] > MaxSize /\ Alive(Staging(u))}
Copied == {Copy(u) : u \in {v \in Uploads : Alive(Staging(v))}}
Scaled == {Copy(t) : t \in Thumbs}

\* A byte on the disk is of a thumbnail, or of a copy whose staging file is still
\* there, or the one by which an upload overshot; all others are charged.
LEMMA DiskAccounted ==
  ASSUME StorageAssumption, IInv, Space
  PROVE  /\ {Occupied(Scaled), Occupied(Copied), Cardinality(Overshot)} \subseteq Nat
         /\ Occupied(Files) <= Cardinality(Charge) + Cardinality(Overshot)
                                 + Occupied(Scaled) + Occupied(Copied)
<1> DEFINE Last == {b \in Bytes(Files) : b[1][1] = "staging" /\ b[2] = MaxSize + 1}
           Rest == Bytes(Files) \ (Bytes(Scaled) \cup Bytes(Copied) \cup Last)
<1>1. \A S : S \subseteq Files => Bytes(S) \subseteq Bytes(Files)  BY DEF Bytes
<1>2. Scaled \subseteq Files /\ Copied \subseteq Files
  BY FileFacts DEF Scaled, Copied
<1>3. /\ IsFiniteSet(Bytes(Scaled)) /\ Occupied(Scaled) \in Nat
      /\ IsFiniteSet(Bytes(Copied)) /\ Occupied(Copied) \in Nat
  BY <1>1, <1>2, SpaceFacts, FS_Subset, FS_CardinalityType DEF Occupied
<1>4. IsFiniteSet(Overshot) /\ Cardinality(Overshot) \in Nat
  BY FileFacts, FS_Subset, FS_CardinalityType DEF Overshot
<1>5. ASSUME NEW b \in Bytes(Files)
      PROVE  /\ b[1] \in Files /\ b[1][2] \in Jobs /\ Alive(b[1]) /\ b = <<b[1], b[2]>>
             /\ b[2] \in 1..size[b[1]] /\ size[b[1]] \in Nat
             /\ \/ b[1] = Staging(b[1][2]) /\ b[1][1] = "staging"
                \/ b[1] = Copy(b[1][2]) /\ b[1][1] = "copy"
  <2>1. PICK f \in Files : Alive(f) /\ \E k \in 1..size[f] : b = <<f, k>>
    BY <1>5, BytesBefore
  <2>2. PICK k \in 1..size[f] : b = <<f, k>>  BY <2>1
  <2>3. b[1] = f /\ b[2] = k  BY <2>2
  <2>4. size[f] \in Nat /\ f[2] \in Jobs /\ (f = Staging(f[2]) \/ f = Copy(f[2]))
    BY <2>1, FileFacts, Opening
  <2>5. \A j : Staging(j)[1] = "staging" /\ Copy(j)[1] = "copy"  BY DEF Staging, Copy
  <2> QED  BY <2>1, <2>2, <2>3, <2>4, <2>5
<1>6. IsFiniteSet(Last) /\ Cardinality(Last) <= Cardinality(Overshot)
  <2> DEFINE Owner == [b \in Last |-> b[1][2]]
  <2>1. \A b \in Last : Owner[b] \in Overshot
    <3> SUFFICES ASSUME NEW b \in Last PROVE Owner[b] \in Overshot
      OBVIOUS
    <3>1. /\ b[1] = Staging(b[1][2]) /\ Alive(b[1]) /\ b[1][2] \in Jobs
          /\ MaxSize + 1 <= size[b[1]] /\ size[b[1]] \in Nat
      BY <1>5
    <3>2. size[b[1]] > MaxSize  BY <3>1, SpaceFacts
    <3>3. b[1][2] \notin Thumbs
      <4>1. Sized(b[1][2])  BY <3>1 DEF Space
      <4> QED  BY <3>1, <3>2, <4>1, SpaceFacts DEF Sized
    <3>4. b[1][2] \in Uploads  BY <3>1, <3>3, FileFacts
    <3> QED  BY <3>1, <3>2, <3>4 DEF Overshot
  <2>2. \A b, d \in Last : Owner[b] = Owner[d] => b = d
    <3> SUFFICES ASSUME NEW b \in Last, NEW d \in Last, b[1][2] = d[1][2] PROVE b = d
      OBVIOUS
    <3>1. /\ b[1] = Staging(b[1][2]) /\ b = <<b[1], b[2]>> /\ b[2] = MaxSize + 1
          /\ d[1] = Staging(d[1][2]) /\ d = <<d[1], d[2]>> /\ d[2] = MaxSize + 1
      BY <1>5
    <3> QED  BY <3>1
  <2>3. Owner \in Injection(Last, Overshot)
    <3> HIDE DEF Last
    <3>1. Owner \in [Last -> Overshot]  BY <2>1
    <3> HIDE DEF Owner
    <3> QED  BY <2>2, <3>1 DEF Injection, IsInjective
  <2> HIDE DEF Owner, Last
  <2> QED  BY <1>4, <2>3, FS_Injection
<1>7. IsFiniteSet(Rest) /\ Cardinality(Rest) <= Cardinality(Charge)
  <2> DEFINE Cost == [b \in Rest |-> <<b[1][2], b[2]>>]
  <2>1. ASSUME NEW b \in Rest
        PROVE  /\ b[1][2] \in Uploads /\ b[2] \in 1..MaxSize
               /\ b[1] = Copy(b[1][2]) => ~Alive(Staging(b[1][2]))
    <3>1. /\ b[1] \in Files /\ b[1][2] \in Jobs /\ Alive(b[1])
          /\ b[2] \in 1..size[b[1]] /\ size[b[1]] \in Nat
          /\ \/ b[1] = Staging(b[1][2]) /\ b[1][1] = "staging"
             \/ b[1] = Copy(b[1][2]) /\ b[1][1] = "copy"
      BY <2>1, <1>5
    <3>2. Sized(b[1][2])  BY <3>1 DEF Space
    <3>3. want[b[1][2]] \in Nat /\ size[Copy(b[1][2])] \in Nat  BY <3>1, FileFacts, Opening
    <3>4. \A S : b[1] \in S => b \in Bytes(S)
      <4> SUFFICES ASSUME NEW S, b[1] \in S PROVE b \in Bytes(S)
        OBVIOUS
      <4>1. b = <<b[1], b[2]>>  BY <2>1, <1>5
      <4> QED  BY <3>1, <4>1, BytesBefore
    <3>5. b[1] \notin Scaled /\ b[1] \notin Copied  BY <2>1, <3>4
    <3>6. CASE b[1] = Staging(b[1][2]) /\ b[1][1] = "staging"
      <4>1. b[1][2] \notin Thumbs  BY <3>1, <3>2, <3>6 DEF Sized
      <4>2. b[1][2] \in Uploads  BY <3>1, <4>1, FileFacts
      <4>3. size[b[1]] <= MaxSize + 1  BY <3>2, <3>6, <4>2 DEF Sized
      <4>4. b[2] # MaxSize + 1  BY <2>1, <3>6
      <4>5. b[2] \in 1..MaxSize  BY <3>1, <4>3, <4>4, SpaceFacts
      <4>6. b[1] # Copy(b[1][2])  BY <3>1, <3>6, FileFacts
      <4> QED  BY <4>2, <4>5, <4>6
    <3>7. CASE b[1] = Copy(b[1][2]) /\ b[1][1] = "copy"
      <4>1. b[1][2] \notin Thumbs  BY <3>5, <3>7 DEF Scaled
      <4>2. b[1][2] \in Uploads  BY <3>1, <4>1, FileFacts
      <4>3. ~Alive(Staging(b[1][2]))  BY <3>5, <3>7, <4>2 DEF Copied
      <4>4. size[b[1]] <= MaxSize  BY <3>2, <3>3, <3>7, <4>2, SpaceFacts DEF Sized
      <4>5. b[2] \in 1..MaxSize  BY <3>1, <4>4, SpaceFacts
      <4> QED  BY <4>2, <4>3, <4>5
    <3> QED  BY <3>1, <3>6, <3>7
  <2>2. ASSUME NEW b \in Rest PROVE <<b[1][2], b[2]>> \in Charge
    <3>1. /\ Alive(b[1]) /\ b[2] \in 1..size[b[1]] /\ size[b[1]] \in Nat
          /\ b[1] = Staging(b[1][2]) \/ b[1] = Copy(b[1][2])
      BY <2>2, <1>5
    <3> DEFINE c == <<b[1][2], b[2]>>
    <3>2. c[1] = b[1][2] /\ c[2] = b[2] /\ c \in Uploads \X (1..MaxSize)  BY <2>1, <2>2
    <3>3. b[2] <= size[b[1]]  BY <3>1
    <3> HIDE DEF c
    <3>4. c \in Charge  BY <3>1, <3>2, <3>3 DEF Charge
    <3> QED  BY <3>4 DEF c
  <2>3. \A b, d \in Rest : Cost[b] = Cost[d] => b = d
    <3> SUFFICES ASSUME NEW b \in Rest, NEW d \in Rest,
                        <<b[1][2], b[2]>> = <<d[1][2], d[2]>>
                 PROVE  b = d
      OBVIOUS
    <3>1. b[1][2] = d[1][2] /\ b[2] = d[2]  OBVIOUS
    <3>2. /\ b = <<b[1], b[2]>> /\ Alive(b[1])
          /\ b[1] = Staging(b[1][2]) \/ b[1] = Copy(b[1][2])
          /\ d = <<d[1], d[2]>> /\ Alive(d[1])
          /\ d[1] = Staging(d[1][2]) \/ d[1] = Copy(d[1][2])
      BY <1>5
    <3>3. /\ b[1] = Copy(b[1][2]) => ~Alive(Staging(b[1][2]))
          /\ d[1] = Copy(d[1][2]) => ~Alive(Staging(d[1][2]))
      BY <2>1
    <3>4. b[1] = d[1]  BY <3>1, <3>2, <3>3
    <3> QED  BY <3>1, <3>2, <3>4
  <2>4. Cost \in Injection(Rest, Charge)
    <3> HIDE DEF Rest
    <3>1. Cost \in [Rest -> Charge]  BY <2>2
    <3> HIDE DEF Cost
    <3> QED  BY <2>3, <3>1 DEF Injection, IsInjective
  <2> HIDE DEF Cost, Rest
  <2> QED  BY <2>4, SpaceFacts, FS_Injection
<1>8. Bytes(Files) \subseteq (Bytes(Scaled) \cup Bytes(Copied)) \cup (Last \cup Rest)  OBVIOUS
<1> HIDE DEF Last, Rest
<1>9. AtMostBoth(Bytes(Scaled), Bytes(Copied), Bytes(Scaled) \cup Bytes(Copied))
  BY <1>3, CoveredByBoth
<1>10. AtMostBoth(Last, Rest, Last \cup Rest)  BY <1>6, <1>7, CoveredByBoth
<1>11. AtMostBoth(Bytes(Scaled) \cup Bytes(Copied), Last \cup Rest, Bytes(Files))
  BY <1>8, <1>9, <1>10, CoveredByBoth DEF AtMostBoth
<1>12. Cardinality(Bytes(Files)) <= Cardinality(Charge) + Cardinality(Overshot)
                                     + Cardinality(Bytes(Scaled)) + Cardinality(Bytes(Copied))
  BY <1>4, <1>6, <1>7, <1>9, <1>10, <1>11, SpaceFacts DEF AtMostBoth
<1> QED  BY <1>3, <1>4, <1>12 DEF Occupied

\* The uploads admitted together never eat into MinFree, however many there are,
\* whatever they write, copy, leave behind or delete, and however often the
\* process dies among them: what the volume misses of it is the byte by which an
\* upload overshot, and the copies made beside a staging file on another volume
\* (reserveUploadSpace, UploadReader).
THEOREM ReserveHolds == Spec => []ReserveKept
<1>1. ASSUME IInv, Space PROVE ReserveKept
  <2>1. ReserveKept <=>
          ((\E u \in Uploads : Alive(Staging(u))) =>
             Available + foreign + Occupied(Scaled)
               >= MinFree - Cardinality(Overshot) - Occupied(Copied))
    BY DEF ReserveKept, Overshot, Copied, Scaled
  <2>2. ASSUME \E u \in Uploads : Alive(Staging(u))
        PROVE  Available + foreign + Occupied(Scaled)
                 >= MinFree - Cardinality(Overshot) - Occupied(Copied)
    <3>1. Cardinality(Charge) + MinFree <= disk  BY <1>1, <2>2 DEF Space, Budget
    <3> QED  BY <1>1, <3>1, StorageAssumption, SpaceFacts, DiskAccounted
  <2> QED  BY <2>1, <2>2
<1> QED  BY <1>1, IInvAlways, SpaceAlways, PTL
=============================================================================
