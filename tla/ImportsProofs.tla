---------------------------- MODULE ImportsProofs ----------------------------
(***************************************************************************)
(* What an album holds belongs to its owner, whatever the clients send; and *)
(* what an import promises its user, whatever happens to its requests.     *)
(*                                                                         *)
(* The server.  IInv says what a request knows of the images that it has   *)
(* looked at, long before they become members: they belong to the account  *)
(* of the request for as long as that account is there.  Answers says what *)
(* any client may conclude from an answer.                                 *)
(*                                                                         *)
(* The page.  Course ties the loops of run() to the one request under way. *)
(* On it stand Whole (albums shown), AllAccounted (images not shown),      *)
(* ProgressMade (what an undisturbed import has done so far) and OncePlaced *)
(* (each image was made for a place of the selection of its own).          *)
(***************************************************************************)
EXTENDS Imports, SequenceTheorems, FiniteSetTheorems, WellFoundedInduction, TLAPS

Requested == [stage : {"idle", "sent", "storing", "checking", "answered"}, kind : Kinds,
              cookies : Identities, who : Owners, input : Seq(Files) \cup Seq(Images),
              images : Seq(Images), fresh : BOOLEAN, checked : Nat, album : AlbumIds \cup {NoAlbum},
              status : {"none", "ok", "failed", "limited", "unauthorized"}]

Types ==
  /\ users \subseteq Users /\ stored \subseteq Images /\ used \subseteq AlbumIds
  /\ owner \in [Images -> Owners]
  /\ albumOwner \in [AlbumIds -> Owners]
  /\ members \in [AlbumIds -> SUBSET Images]
  /\ req \in [Requests -> Requested]
  /\ edit \in [Editors -> [op : {"none", "add", "remove", "delete"},
                           album : AlbumIds \cup {NoAlbum}, image : Images \cup {<<>>}]]

\* A row has the owner that its images give it, and an owner is there.
Rows ==
  /\ \A i \in Images : owner[i] \in users \cup {Nobody} /\ (owner[i] # Nobody => i \in stored)
  /\ \A x \in AlbumIds : albumOwner[x] # Nobody => x \in used
  /\ \A x \in AlbumIds : members[x] \subseteq stored

\* An image that a request may put in an album of u.
Vouched(i, u) == i \in stored /\ (u \in users => owner[i] = u)

\* What a request has looked at when it makes its album.
Sound(r) ==
  /\ r.kind = "create" => r.input \in Seq(Images)
  /\ r.stage \in {"sent", "storing"} => r.checked = 0
  /\ r.stage = "checking" =>
       /\ r.who # Nobody
       /\ \A k \in 1..Len(r.images) : k <= r.checked => Vouched(r.images[k], r.who)

Looked == \A q \in Requests : Sound(req[q])

Read ==
  \A e \in Editors : edit[e].op # "none" =>
    /\ edit[e].album \in used
    /\ edit[e].op = "add" =>
         /\ edit[e].image \in stored
         /\ albumOwner[edit[e].album] # Nobody => owner[edit[e].image] = albumOwner[edit[e].album]

IInv == Types /\ Rows /\ Looked /\ Read /\ MembersOwned

LEMMA IdleTyped == ASSUME AlbumsAssumption PROVE Idle \in Requested /\ Idle.kind = "upload" /\ Idle.stage = "idle"
BY DEF AlbumsAssumption, Idle, Requested, Kinds, Identities, Owners

LEMMA InitIInv == ASSUME AlbumsAssumption, InitAlbums PROVE IInv
<1> USE DEF InitAlbums
<1>1. Types  BY IdleTyped DEF Types, Owners, NoEdit
<1>2. Rows /\ MembersOwned  BY DEF Rows, MembersOwned
<1>3. Looked /\ Read  BY IdleTyped DEF Looked, Sound, Read, NoEdit
<1> QED  BY <1>1, <1>2, <1>3 DEF IInv

(* A step that only moves a request on. *)
LEMMA RequestStep ==
  ASSUME IInv, UNCHANGED <<imageVars, albumVars, edit>>,
         NEW q \in Requests, NEW r \in Requested, Update(q, r), Sound(r)
  PROVE IInv'
<1> USE DEF imageVars, albumVars, Update
<1>1. Types'  BY DEF IInv, Types
<1>2. Rows' /\ MembersOwned' /\ Read'  BY DEF IInv, Rows, MembersOwned, Read
<1>3. Looked'  BY DEF IInv, Types, Looked, Sound, Vouched
<1> QED  BY <1>1, <1>2, <1>3 DEF IInv

LEMMA AnswerStep ==
  ASSUME IInv, UNCHANGED <<imageVars, albumVars, edit>>, NEW q \in Requests,
         \E status \in {"ok", "failed", "limited", "unauthorized"} : Update(q, Answered(req[q], status))
  PROVE IInv'
<1>1. PICK status \in {"ok", "failed", "limited", "unauthorized"} : Update(q, Answered(req[q], status))
  OBVIOUS
<1>2. req[q] \in Requested /\ Sound(req[q])  BY DEF IInv, Types, Looked
<1>3. Answered(req[q], status) \in Requested  BY <1>2 DEF Requested, Answered
<1>4. Sound(Answered(req[q], status))  BY <1>2 DEF Requested, Sound, Answered
<1> QED  BY <1>1, <1>3, <1>4, RequestStep

(* The steps of a request that change nothing else. *)
LEMMA ServeAlone ==
  ASSUME AlbumsAssumption, IInv, NEW q \in Requests,
         \/ Limit(q) \/ Refuse(q) \/ Begin(q) \/ LookUp(q) \/ FailPart(q) \/ TooMany(q) \/ AllStored(q)
         \/ CheckImage(q) \/ FailAlbum(q)
  PROVE IInv'
<1>0. req[q] \in Requested /\ Sound(req[q])  BY DEF IInv, Types, Looked
<1>1. CASE Limit(q) \/ Refuse(q) \/ FailPart(q) \/ TooMany(q) \/ FailAlbum(q)
  BY <1>1, AnswerStep DEF Limit, Refuse, FailPart, TooMany, FailAlbum, NoAlbumMade
<1>2. CASE Begin(q)
  <2> DEFINE r == IF req[q].kind = "create"
                  THEN [req[q] EXCEPT !.stage = "checking", !.who = req[q].cookies, !.images = req[q].input]
                  ELSE [req[q] EXCEPT !.stage = "storing", !.who = req[q].cookies]
  <2>1. r \in Requested
    BY <1>0, <1>2 DEF Begin, IInv, Types, Requested, Sound, Owners
  <2>2. Sound(r)
    BY <1>0, <1>2 DEF Begin, IInv, Types, Requested, Sound, AlbumsAssumption
  <2> QED  BY <1>2, <2>1, <2>2, RequestStep DEF Begin
<1>3. CASE AllStored(q)
  <2> DEFINE r == [req[q] EXCEPT !.stage = "checking"]
  <2>1. CASE Update(q, r) /\ req[q].who # Nobody
    <3>1. r \in Requested  BY <1>0 DEF Requested
    <3>2. Sound(r)  BY <1>0, <1>3, <2>1 DEF AllStored, Requested, Sound
    <3> QED  BY <1>3, <2>1, <3>1, <3>2, RequestStep DEF AllStored
  <2>2. CASE Update(q, Answered(req[q], "ok"))
    BY <1>3, <2>2, AnswerStep DEF AllStored
  <2> QED  BY <1>3, <2>1, <2>2 DEF AllStored
<1>4. CASE CheckImage(q)
  <2> DEFINE r == [req[q] EXCEPT !.checked = @ + 1]
  <2>1. CASE MayAdd(req[q].who, Candidate(q)) /\ Update(q, r)
    <3>0. req[q].checked \in Nat /\ req[q].checked + 1 \in Nat  BY <1>0 DEF Requested
    <3> HIDE DEF MayAdd, Candidate
    <3>1. r \in Requested  BY <1>0, <3>0 DEF Requested
    <3>2. r.checked = req[q].checked + 1 /\ req[q].checked \in Nat  BY <1>0, <3>0 DEF Requested
    <3>3. Vouched(req[q].images[req[q].checked + 1], req[q].who)
      BY <2>1 DEF MayAdd, Candidate, Vouched
    <3>4. Sound(r)  BY <1>0, <1>4, <3>2, <3>3 DEF CheckImage, Checking, Requested, Sound
    <3> QED  BY <1>4, <2>1, <3>1, <3>4, RequestStep DEF CheckImage
  <2>2. CASE NoAlbumMade(q)
    BY <1>4, <2>2, AnswerStep DEF CheckImage, NoAlbumMade
  <2> QED  BY <1>4, <2>1, <2>2 DEF CheckImage
<1>5. CASE LookUp(q)
  <2>0. req[q].stage = "storing"  BY <1>5 DEF LookUp, Storing
  <2>1. CASE Update(q, [req[q] EXCEPT !.fresh = TRUE])
    <3> DEFINE r == [req[q] EXCEPT !.fresh = TRUE]
    <3>1. r \in Requested /\ Sound(r)  BY <1>0, <2>0 DEF Requested, Sound
    <3> QED  BY <1>5, <2>1, <3>1, RequestStep DEF LookUp
  <2>2. ASSUME NEW i \in Same(q), Update(q, [req[q] EXCEPT !.images = Append(@, i)])
        PROVE IInv'
    <3> DEFINE r == [req[q] EXCEPT !.images = Append(@, i)]
    <3>1. i \in Images  BY DEF Same, IInv, Types
    <3>2. Append(req[q].images, i) \in Seq(Images)  BY <1>0, <3>1 DEF Requested
    <3>3. r \in Requested /\ Sound(r)  BY <1>0, <2>0, <3>2 DEF Requested, Sound
    <3> QED  BY <1>5, <2>2, <3>3, RequestStep DEF LookUp
  <2> QED  BY <1>5, <2>1, <2>2 DEF LookUp
<1> QED  BY <1>1, <1>2, <1>3, <1>4, <1>5

LEMMA ClientKeeps ==
  ASSUME AlbumsAssumption, IInv, NEW q \in Requests, Client(q)
  PROVE IInv'
<1>1. req'[q] \in Requested /\ Sound(req'[q])
  <2>1. CASE req'[q] = Idle
    BY <2>1, IdleTyped DEF Sound
  <2>2. CASE Sent(req'[q])
    <3> DEFINE r == req'[q]
    <3>1. /\ r = [Idle EXCEPT !.stage = "sent", !.kind = r.kind, !.cookies = r.cookies, !.input = r.input]
          /\ r.kind \in Kinds /\ r.cookies \in Identities
          /\ r.input \in Seq(Files) \cup Seq(Images)
          /\ r.kind = "create" => r.input \in Seq(Images)
      BY <2>2 DEF Sent
    <3> HIDE DEF r
    <3>2. r \in Requested  BY <3>1, IdleTyped DEF Requested
    <3>3. r.stage = "sent" /\ r.checked = 0  BY <3>1 DEF Idle
    <3>4. Sound(r)  BY <3>1, <3>3 DEF Sound
    <3> QED  BY <3>2, <3>4 DEF r
  <2> QED  BY <2>1, <2>2 DEF Client
<1> QED  BY <1>1, RequestStep DEF Client

(* A row is made, for the account of the request or for nobody. *)
LEMMA RowStep ==
  ASSUME AlbumsAssumption, IInv, NEW q \in Requests, NEW i \in Images \ stored, InsertRow(q, i),
         UNCHANGED <<users, deleted, albumVars, edit>>,
         NEW r \in Requested, Update(q, r), r.stage \notin {"sent", "checking"}, r.checked = 0 \/ r.stage # "storing",
         r.kind = "create" => r.input \in Seq(Images)
  PROVE IInv'
<1> USE DEF albumVars, Update, InsertRow
<1>0. req[q].who \in Owners  BY DEF IInv, Types, Requested
<1>1. Types'  BY <1>0 DEF IInv, Types
<1>2. Rows'  BY <1>0 DEF IInv, Types, Rows
<1>3. MembersOwned' /\ Read'  BY <1>0 DEF IInv, Types, Rows, MembersOwned, Read
<1>4. Looked'
  <2> SUFFICES ASSUME NEW p \in Requests PROVE Sound(req[p])'  BY DEF Looked
  <2>1. CASE p = q  BY <2>1 DEF IInv, Types, Sound
  <2>2. CASE p # q
    <3>1. req'[p] = req[p] /\ Sound(req[p])  BY <2>2 DEF IInv, Types, Looked
    <3>2. \A j, u : Vouched(j, u) => Vouched(j, u)'  BY DEF IInv, Types, Vouched
    <3> QED  BY <3>1, <3>2 DEF Sound
  <2> QED  BY <2>1, <2>2
<1> QED  BY <1>1, <1>2, <1>3, <1>4 DEF IInv

LEMMA StoreStep ==
  ASSUME AlbumsAssumption, IInv, NEW q \in Requests, StorePart(q) \/ StoreUncertain(q)
  PROVE IInv'
<1>0. req[q] \in Requested /\ Sound(req[q])  BY DEF IInv, Types, Looked
<1>1. CASE StorePart(q)
  <2>1. PICK i \in Fresh(NextPart(q)) :
          InsertRow(q, i) /\ Update(q, [req[q] EXCEPT !.images = Append(@, i), !.fresh = FALSE])
    BY <1>1 DEF StorePart
  <2> DEFINE r == [req[q] EXCEPT !.images = Append(@, i), !.fresh = FALSE]
  <2>2. i \in Images \ stored  BY <2>1 DEF Fresh
  <2>3. r \in Requested
    <3>1. Append(req[q].images, i) \in Seq(Images)  BY <1>0, <2>2 DEF Requested
    <3> QED  BY <1>0, <3>1 DEF Requested
  <2>4. r.stage = "storing" /\ r.checked = 0
    BY <1>0, <1>1 DEF StorePart, LookedUp, Storing, Requested, Sound
  <2>5. r.kind = "create" => r.input \in Seq(Images)  BY <1>0 DEF Requested, Sound
  <2> QED  BY <1>1, <2>1, <2>2, <2>3, <2>4, <2>5, RowStep DEF StorePart
<1>2. CASE StoreUncertain(q)
  <2>1. PICK i \in Fresh(NextPart(q)) : InsertRow(q, i)  BY <1>2 DEF StoreUncertain
  <2> DEFINE r == Answered(req[q], "failed")
  <2>2. i \in Images \ stored  BY <2>1 DEF Fresh
  <2>3. r \in Requested /\ r.stage = "answered"  BY <1>0 DEF Requested, Answered
  <2>4. r.kind = "create" => r.input \in Seq(Images)  BY <1>0 DEF Requested, Sound, Answered
  <2> QED  BY <1>2, <2>1, <2>2, <2>3, <2>4, RowStep DEF StoreUncertain
<1> QED  BY <1>1, <1>2

(* The album is inserted: all that was looked at belongs to its account, which *)
(* is there.                                                                   *)
LEMMA InsertStep ==
  ASSUME AlbumsAssumption, IInv, NEW q \in Requests, Ready(q),
         NEW x \in AlbumIds \ used, InsertAlbum(q, x), UNCHANGED <<imageVars, edit>>,
         NEW r \in Requested, Update(q, r), r.stage = "answered",
         r.kind = "create" => r.input \in Seq(Images)
  PROVE IInv'
<1> USE DEF imageVars, Update, InsertAlbum
<1>0. /\ req[q] \in Requested /\ req[q].who # Nobody
      /\ \A k \in 1..Len(req[q].images) : Vouched(req[q].images[k], req[q].who)
  BY DEF IInv, Types, Looked, Sound, Ready, Requested
<1>1. \A i \in ElementsOf(req[q].images) : i \in Images /\ Vouched(i, req[q].who)
  <2>1. req[q].images \in Seq(Images)  BY <1>0 DEF Requested
  <2> QED  BY <1>0, <2>1 DEF ElementsOf
<1>2. Types'
  <2>1. ElementsOf(req[q].images) \subseteq Images /\ req[q].who \in Owners
    BY <1>0, <1>1 DEF Requested
  <2>2. /\ albumOwner' \in [AlbumIds -> Owners] /\ members' \in [AlbumIds -> SUBSET Images]
        /\ used' \subseteq AlbumIds
    BY <2>1 DEF IInv, Types
  <2>3. req' \in [Requests -> Requested]  BY DEF IInv, Types
  <2> QED  BY <2>2, <2>3 DEF IInv, Types
<1>3. Rows'  BY <1>0, <1>1 DEF IInv, Types, Rows, Vouched
<1>4. MembersOwned'  BY <1>0, <1>1 DEF IInv, Types, MembersOwned, Vouched
<1>5. Read'  BY DEF IInv, Types, Read
<1>6. Looked'  BY DEF IInv, Types, Looked, Sound, Vouched
<1> QED  BY <1>2, <1>3, <1>4, <1>5, <1>6 DEF IInv

LEMMA MakeStep ==
  ASSUME AlbumsAssumption, IInv, NEW q \in Requests, MakeAlbum(q) \/ MakeAlbumUnheard(q)
  PROVE IInv'
<1>0. req[q] \in Requested /\ Sound(req[q])  BY DEF IInv, Types, Looked
<1>1. CASE MakeAlbum(q)
  <2>1. PICK x \in AlbumIds \ used :
          InsertAlbum(q, x) /\ Update(q, Answered([req[q] EXCEPT !.album = x], "ok"))
    BY <1>1 DEF MakeAlbum
  <2> DEFINE r == Answered([req[q] EXCEPT !.album = x], "ok")
  <2>2. r \in Requested /\ r.stage = "answered"  BY <1>0 DEF Requested, Answered
  <2>3. r.kind = "create" => r.input \in Seq(Images)  BY <1>0 DEF Requested, Sound, Answered
  <2> QED  BY <1>1, <2>1, <2>2, <2>3, InsertStep DEF MakeAlbum
<1>2. CASE MakeAlbumUnheard(q)
  <2>1. PICK x \in AlbumIds \ used : InsertAlbum(q, x)  BY <1>2 DEF MakeAlbumUnheard
  <2> DEFINE r == Answered(req[q], IF req[q].kind = "auto" THEN "ok" ELSE "failed")
  <2>2. r \in Requested /\ r.stage = "answered"  BY <1>0 DEF Requested, Answered
  <2>3. r.kind = "create" => r.input \in Seq(Images)  BY <1>0 DEF Requested, Sound, Answered
  <2> QED  BY <1>2, <2>1, <2>2, <2>3, InsertStep DEF MakeAlbumUnheard, NoAlbumMade
<1> QED  BY <1>1, <1>2

(* Editors *)
LEMMA ReadStep ==
  ASSUME AlbumsAssumption, IInv, NEW e \in Editors, NEW x \in AlbumIds,
         ReadDelete(e, x) \/ \E i \in Images : ReadAdd(e, x, i) \/ ReadRemove(e, x, i)
  PROVE IInv'
<1> USE DEF imageVars, albumVars, Edits, ReadDelete, ReadAdd, ReadRemove
<1>1. Types'  BY DEF IInv, Types
<1>2. Rows' /\ MembersOwned' /\ Looked'  BY DEF IInv, Rows, MembersOwned, Looked, Sound, Vouched
<1>3. Read'  BY DEF IInv, Types, Rows, Read, MayAdd
<1> QED  BY <1>1, <1>2, <1>3 DEF IInv

LEMMA WriteStep ==
  ASSUME AlbumsAssumption, IInv, NEW e \in Editors, WriteEdit(e)
  PROVE IInv'
<1> DEFINE x == edit[e].album
           op == edit[e].op
<1> USE DEF imageVars, Edits
<1>0. /\ op \in {"add", "remove", "delete"} /\ x \in AlbumIds
      /\ op = "add" => edit[e].image \in stored /\ edit[e].image \in Images
      /\ (op = "add" /\ albumOwner[x] # Nobody) => owner[edit[e].image] = albumOwner[x]
  BY DEF WriteEdit, IInv, Types, Read
<1>1. /\ users' = users /\ stored' = stored /\ owner' = owner /\ req' = req /\ used' = used
      /\ edit' = [edit EXCEPT ![e] = NoEdit]
  BY DEF WriteEdit
<1>2. CASE albumOwner[x] = Nobody
  <2>1. albumOwner' = albumOwner /\ members' = members  BY <1>2 DEF WriteEdit
  <2>2. Types'  BY <1>1, <2>1 DEF IInv, Types, NoEdit
  <2>3. Rows' /\ MembersOwned' /\ Looked' /\ Read'
    BY <1>1, <2>1 DEF IInv, Types, Rows, MembersOwned, Looked, Sound, Vouched, Read, NoEdit
  <2> QED  BY <2>2, <2>3 DEF IInv
<1>3. CASE albumOwner[x] # Nobody
  <2>1. /\ members' = [members EXCEPT ![x] = CASE op = "add"    -> @ \cup {edit[e].image}
                                             [] op = "remove" -> @ \ {edit[e].image}
                                             [] op = "delete" -> {}]
        /\ albumOwner' = [albumOwner EXCEPT ![x] = IF op = "delete" THEN Nobody ELSE @]
    BY <1>3 DEF WriteEdit
  <2>2. members'[x] \subseteq members[x] \cup (IF op = "add" THEN {edit[e].image} ELSE {})
    BY <1>0, <2>1 DEF IInv, Types
  <2>3. op = "delete" => members'[x] = {} /\ albumOwner'[x] = Nobody
    BY <1>0, <2>1 DEF IInv, Types
  <2>4. op # "delete" => albumOwner' = albumOwner
    BY <1>0, <2>1 DEF IInv, Types
  <2>5. \A y \in AlbumIds \ {x} : members'[y] = members[y] /\ albumOwner'[y] = albumOwner[y]
    BY <2>1 DEF IInv, Types
  <2>6. members' \in [AlbumIds -> SUBSET Images] /\ albumOwner' \in [AlbumIds -> Owners]
    BY <1>0, <2>1 DEF IInv, Types, Owners
  <2>7. Types'  BY <1>1, <2>6 DEF IInv, Types, NoEdit
  <2>8. Rows'  BY <1>0, <1>1, <2>2, <2>3, <2>4, <2>5 DEF IInv, Types, Rows
  <2>9. MembersOwned'
    BY <1>0, <1>1, <1>3, <2>2, <2>3, <2>4, <2>5 DEF IInv, Types, MembersOwned
  <2>10. Looked'  BY <1>1 DEF IInv, Looked, Sound, Vouched
  <2>11. Read'  BY <1>0, <1>1, <2>3, <2>4, <2>5 DEF IInv, Types, Read, NoEdit
  <2> QED  BY <2>7, <2>8, <2>9, <2>10, <2>11 DEF IInv
<1> QED  BY <1>2, <1>3

LEMMA RemoveStep ==
  ASSUME AlbumsAssumption, IInv, NEW u \in Users, RemoveUser(u)
  PROVE IInv'
<1> USE DEF RemoveUser
<1>1. Types'  BY DEF IInv, Types, Owners
<1>2. Rows'  BY DEF IInv, Types, Rows, MembersOwned
<1>3. MembersOwned'  BY DEF IInv, Types, Rows, MembersOwned, AlbumsAssumption
<1>4. Looked'
  <2>1. \A i \in Images : \A v : Vouched(i, v) => Vouched(i, v)'
    BY DEF IInv, Types, Vouched
  <2> SUFFICES ASSUME NEW q \in Requests PROVE Sound(req[q])'  BY DEF Looked
  <2>2. req'[q] = req[q] /\ req[q] \in Requested /\ Sound(req[q])  BY DEF IInv, Types, Looked
  <2>3. \A k \in 1..Len(req[q].images) : req[q].images[k] \in Images  BY <2>2 DEF Requested
  <2> QED  BY <2>1, <2>2, <2>3 DEF Sound
<1>5. Read'  BY DEF IInv, Types, Rows, Read
<1> QED  BY <1>1, <1>2, <1>3, <1>4, <1>5 DEF IInv

LEMMA DeleteStep ==
  ASSUME IInv, NEW i \in Images, DeleteImage(i)
  PROVE IInv'
BY DEF DeleteImage, albumVars, IInv, Types, Rows, Looked, Sound, Vouched, Read, MembersOwned

LEMMA CrashStep ==
  ASSUME AlbumsAssumption, IInv, Crash
  PROVE IInv'
<1> USE DEF Crash, imageVars, albumVars
<1>1. Types'  BY IdleTyped DEF IInv, Types, NoEdit
<1>2. Rows' /\ MembersOwned'  BY DEF IInv, Rows, MembersOwned
<1>3. Looked'  BY IdleTyped DEF IInv, Types, Looked, Sound, Vouched
<1>4. Read'  BY DEF IInv, Types, Read, NoEdit
<1> QED  BY <1>1, <1>2, <1>3, <1>4 DEF IInv

LEMMA StepIInv ==
  ASSUME AlbumsAssumption, IInv, [AlbumsNext]_albumsVars
  PROVE IInv'
<1>1. CASE UNCHANGED albumsVars
  BY <1>1 DEF albumsVars, imageVars, albumVars, IInv, Types, Rows, Looked, Sound, Vouched, Read, MembersOwned
<1>2. ASSUME NEW q \in Requests, Serve(q) PROVE IInv'
  BY <1>2, ServeAlone, StoreStep, MakeStep DEF Serve
<1>3. ASSUME NEW e \in Editors, Edit(e) PROVE IInv'
  BY <1>3, ReadStep, WriteStep DEF Edit
<1>4. ASSUME NEW q \in Requests, Client(q) PROVE IInv'
  BY <1>4, ClientKeeps
<1>5. ASSUME NEW i \in Images, DeleteImage(i) PROVE IInv'
  BY <1>5, DeleteStep
<1>6. ASSUME NEW u \in Users, RemoveUser(u) PROVE IInv'
  BY <1>6, RemoveStep
<1>7. CASE Crash
  BY <1>7, CrashStep
<1> QED  BY <1>1, <1>2, <1>3, <1>4, <1>5, <1>6, <1>7 DEF AlbumsNext, ServerNext

\* Whatever clients send and whenever images, albums and accounts go meanwhile,
\* an album holds images of its own account only, which is there
\* (AlbumService.Create, AddImage and the upload handler's album).
THEOREM AlbumsMembersOwned == AlbumsSpec => []MembersOwned
<1>1. InitAlbums => IInv  BY InitIInv, AlbumsAssumption
<1>2. IInv /\ [AlbumsNext]_albumsVars => IInv'  BY StepIInv, AlbumsAssumption
<1>3. IInv => MembersOwned  BY DEF IInv
<1> QED  BY <1>1, <1>2, <1>3, PTL DEF AlbumsSpec

-----------------------------------------------------------------------------
(* What the requests of any client know: the images of an upload are those of *)
(* its first files, one for each; an album that was answered is what it says; *)
(* nothing was done for a request that was refused.                           *)

\* rows are the images there are, given and changed the albums, of their members.
Filled(r, rows) ==
  r.kind # "create" =>
    /\ r.input \in Seq(Files) /\ Len(r.images) <= Len(r.input)
    /\ \A k \in 1..Len(r.images) : r.images[k] \in rows /\ r.images[k][1] = r.input[k]

Told(r, given, changed, of) ==
  (r.stage = "answered" /\ r.album # NoAlbum) =>
    /\ r.album \in given
    /\ r.album \in changed \/ of[r.album] = ElementsOf(r.images)

Given(r) ==
  /\ r.stage \in {"idle", "sent", "storing", "checking"} => r.album = NoAlbum
  /\ r.stage \in {"idle", "sent"} => r.images = <<>>
  /\ (r.stage = "answered" /\ r.status \in {"limited", "unauthorized"}) => r.images = <<>>
  /\ r.stage = "storing" => r.kind # "create"
  /\ (r.kind = "create" /\ r.stage = "answered" /\ r.status = "ok") => r.album # NoAlbum
  /\ (r.kind = "create" /\ (r.stage = "checking" \/ (r.stage = "answered" /\ r.status = "ok")))
       => r.images = r.input

Answers ==
  /\ deleted \subseteq stored /\ uncertain \subseteq stored /\ edited \subseteq used
  /\ \A q \in Requests : /\ Filled(req[q], stored) /\ Given(req[q])
                         /\ Told(req[q], used, edited, members)

LEMMA InitAnswers == ASSUME AlbumsAssumption, InitAlbums PROVE Answers
<1>1. \A q \in Requests : req[q] = Idle  BY DEF InitAlbums
<1>2. /\ Idle.kind = "upload" /\ Idle.input = <<>> /\ Idle.images = <<>> /\ Idle.stage = "idle"
      /\ Idle.album = NoAlbum
  BY DEF Idle
<1>3. Filled(Idle, stored) /\ Given(Idle) /\ Told(Idle, used, edited, members)
  BY <1>2 DEF Filled, Given, Told
<1> QED  BY <1>1, <1>3 DEF InitAlbums, Answers

\* Images and albums that come do not disturb what a request knows, and an album
\* has other members only when it counts as changed.
Grow ==
  /\ stored \subseteq stored' /\ used \subseteq used' /\ edited \subseteq edited'
  /\ uncertain \subseteq uncertain'
  /\ \A x \in used : x \in edited' \/ members'[x] = members[x]
  /\ deleted' \subseteq stored' /\ uncertain' \subseteq stored' /\ edited' \subseteq used'

LEMMA AnswersKept ==
  ASSUME IInv, Answers, Grow, NEW p \in Requests, req'[p] = req[p]
  PROVE /\ Filled(req'[p], stored') /\ Given(req'[p])
        /\ Told(req'[p], used', edited', members')
<1>1. /\ Filled(req[p], stored) /\ Given(req[p])
      /\ Told(req[p], used, edited, members)
  BY DEF Answers
<1>2. Filled(req[p], stored')  BY <1>1 DEF Filled, Grow
<1>3. Told(req[p], used', edited', members')  BY <1>1 DEF Told, Grow
<1> QED  BY <1>1, <1>2, <1>3

LEMMA AnswersMove ==
  ASSUME IInv, Answers, Grow, NEW q \in Requests, NEW r, Update(q, r),
         Filled(r, stored'), Told(r, used', edited', members'), Given(r)
  PROVE Answers'
<1>1. req'[q] = r  BY DEF Update, IInv, Types
<1>2. \A p \in Requests \ {q} : req'[p] = req[p]  BY DEF Update, IInv, Types
<1>3. \A p \in Requests : /\ Filled(req'[p], stored') /\ Given(req'[p])
                          /\ Told(req'[p], used', edited', members')
  BY <1>1, <1>2, AnswersKept
<1>4. deleted' \subseteq stored' /\ uncertain' \subseteq stored' /\ edited' \subseteq used'
  BY DEF Grow
<1> QED  BY <1>3, <1>4 DEF Answers

LEMMA AnswersStay ==
  ASSUME IInv, Answers, Grow, UNCHANGED req
  PROVE Answers'
<1>1. \A p \in Requests : /\ Filled(req'[p], stored') /\ Given(req'[p])
                          /\ Told(req'[p], used', edited', members')
  BY AnswersKept
<1>2. deleted' \subseteq stored' /\ uncertain' \subseteq stored' /\ edited' \subseteq used'
  BY DEF Grow
<1> QED  BY <1>1, <1>2 DEF Answers

LEMMA SameGrow ==
  ASSUME Answers, UNCHANGED <<imageVars, albumVars>>
  PROVE Grow
BY DEF imageVars, albumVars, Answers, Grow

(* A request ends without an album: refused, failed, or done with no need of one. *)
LEMMA AnswersEnd ==
  ASSUME IInv, Answers, Grow, NEW q \in Requests,
         NEW status \in {"ok", "failed", "limited", "unauthorized"},
         Update(q, Answered(req[q], status)),
         req[q].stage \in {"sent", "storing", "checking"},
         status \in {"limited", "unauthorized"} => req[q].stage = "sent",
         status = "ok" => req[q].kind # "create"
  PROVE Answers'
<1> DEFINE r == Answered(req[q], status)
<1>0. /\ req[q] \in Requested /\ Filled(req[q], stored) /\ Given(req[q])
  BY DEF IInv, Types, Answers
<1>1. /\ r.stage = "answered" /\ r.status = status /\ r.kind = req[q].kind
      /\ r.input = req[q].input /\ r.images = req[q].images /\ r.album = NoAlbum
  BY <1>0 DEF Requested, Answered, Given
<1> HIDE DEF r
<1>2. Filled(r, stored')  BY <1>0, <1>1 DEF Filled, Grow
<1>3. Told(r, used', edited', members')  BY <1>1 DEF Told
<1>4. Given(r)  BY <1>0, <1>1 DEF Given
<1>5. Update(q, r)  BY DEF r
<1> QED  BY <1>2, <1>3, <1>4, <1>5, AnswersMove

(* An image is appended for the next part. *)
LEMMA AnswersAppend ==
  ASSUME IInv, Answers, Grow, NEW q \in Requests, Storing(q),
         NEW i \in Images, i \in stored', i[1] = NextPart(q),
         NEW fresh, Update(q, [req[q] EXCEPT !.images = Append(@, i), !.fresh = fresh])
  PROVE Answers'
<1> DEFINE r == [req[q] EXCEPT !.images = Append(@, i), !.fresh = fresh]
<1>0. /\ req[q] \in Requested /\ Filled(req[q], stored) /\ Given(req[q])
      /\ req[q].stage = "storing" /\ Len(req[q].images) < Len(req[q].input)
      /\ req[q].images \in Seq(Images)
  BY DEF IInv, Types, Answers, Storing, Requested
<1>1. /\ r.stage = "storing" /\ r.kind = req[q].kind
      /\ r.input = req[q].input /\ r.images = Append(req[q].images, i) /\ r.album = NoAlbum
  BY <1>0 DEF Requested, Given
<1> HIDE DEF r
<1>2. Filled(r, stored')
  <2>1. r.kind # "create" /\ r.input \in Seq(Files) /\ Len(req[q].images) \in Nat
    BY <1>0, <1>1 DEF Filled, Given
  <2>2. Len(r.images) = Len(req[q].images) + 1 /\ Len(r.images) <= Len(r.input)
    BY <1>0, <1>1, <2>1
  <2>3. ASSUME NEW k \in 1..Len(r.images)
        PROVE r.images[k] \in stored' /\ r.images[k][1] = r.input[k]
    <3>1. CASE k = Len(req[q].images) + 1
      BY <1>0, <1>1, <3>1 DEF NextPart
    <3>2. CASE k # Len(req[q].images) + 1
      <4>1. k \in 1..Len(req[q].images)  BY <2>1, <2>2, <3>2
      <4>2. r.images[k] = req[q].images[k]  BY <1>0, <1>1, <4>1
      <4> QED  BY <1>0, <1>1, <2>1, <4>1, <4>2 DEF Filled, Grow
    <3> QED  BY <3>1, <3>2
  <2> QED  BY <2>1, <2>2, <2>3 DEF Filled
<1>3. Told(r, used', edited', members')  BY <1>1 DEF Told
<1>4. Given(r)  BY <1>0, <1>1 DEF Given
<1>5. Update(q, r)  BY DEF r
<1> QED  BY <1>2, <1>3, <1>4, <1>5, AnswersMove

LEMMA AnswersServe ==
  ASSUME AlbumsAssumption, IInv, Answers, NEW q \in Requests, Serve(q)
  PROVE Answers'
<1>0. /\ req[q] \in Requested /\ Filled(req[q], stored) /\ Given(req[q])
      /\ Told(req[q], used, edited, members) /\ req[q].kind \in Kinds
  BY DEF IInv, Types, Answers, Requested
<1>1. CASE Limit(q) \/ Refuse(q) \/ FailPart(q) \/ TooMany(q) \/ FailAlbum(q)
  <2>1. Grow  BY <1>1, SameGrow DEF Limit, Refuse, FailPart, TooMany, FailAlbum
  <2> QED
    BY <1>1, <2>1, AnswersEnd
    DEF Limit, Refuse, FailPart, TooMany, FailAlbum, NoAlbumMade, Storing
<1>2. CASE Begin(q)
  <2> DEFINE r == IF req[q].kind = "create"
                  THEN [req[q] EXCEPT !.stage = "checking", !.who = req[q].cookies, !.images = req[q].input]
                  ELSE [req[q] EXCEPT !.stage = "storing", !.who = req[q].cookies]
  <2>1. /\ r.kind = req[q].kind /\ r.input = req[q].input /\ r.album = NoAlbum
        /\ r.stage = IF r.kind = "create" THEN "checking" ELSE "storing"
        /\ r.images = IF r.kind = "create" THEN r.input ELSE req[q].images
    BY <1>0, <1>2 DEF Begin, Requested, Given
  <2> HIDE DEF r
  <2>2. Grow /\ stored' = stored /\ Update(q, r)
    BY <1>2, SameGrow DEF Begin, r, imageVars
  <2>3. Filled(r, stored')  BY <1>0, <2>1, <2>2 DEF Filled
  <2>4. Told(r, used', edited', members') /\ Given(r)  BY <1>0, <2>1 DEF Told, Given
  <2> QED  BY <2>2, <2>3, <2>4, AnswersMove
<1>3. CASE LookUp(q)
  <2>1. Grow /\ stored' = stored  BY <1>3, SameGrow DEF LookUp, imageVars
  <2>2. CASE Update(q, [req[q] EXCEPT !.fresh = TRUE])
    <3> DEFINE r == [req[q] EXCEPT !.fresh = TRUE]
    <3>1. /\ r.stage = req[q].stage /\ r.status = req[q].status /\ r.kind = req[q].kind
          /\ r.input = req[q].input /\ r.images = req[q].images /\ r.album = req[q].album
          /\ r.stage = "storing"
      BY <1>0, <1>3 DEF Requested, LookUp, Storing
    <3> HIDE DEF r
    <3>2. Filled(r, stored') /\ Told(r, used', edited', members') /\ Given(r)
      BY <1>0, <2>1, <3>1 DEF Filled, Told, Given
    <3>3. Update(q, r)  BY <2>2 DEF r
    <3> QED  BY <2>1, <3>2, <3>3, AnswersMove
  <2>3. ASSUME NEW i \in Same(q), Update(q, [req[q] EXCEPT !.images = Append(@, i)])
        PROVE Answers'
    <3>1. i \in Images /\ i \in stored' /\ i[1] = NextPart(q)
      BY <2>1 DEF Same, IInv, Types
    <3>2. [req[q] EXCEPT !.images = Append(@, i)]
            = [req[q] EXCEPT !.images = Append(@, i), !.fresh = req[q].fresh]
      BY <1>0 DEF Requested
    <3>3. Storing(q)  BY <1>3 DEF LookUp
    <3>4. Update(q, [req[q] EXCEPT !.images = Append(@, i), !.fresh = req[q].fresh])
      BY <2>3, <3>2
    <3> QED  BY <2>1, <3>1, <3>3, <3>4, AnswersAppend
  <2> QED  BY <1>3, <2>2, <2>3 DEF LookUp
<1>4. CASE StorePart(q)
  <2>1. PICK i \in Fresh(NextPart(q)) :
          InsertRow(q, i) /\ Update(q, [req[q] EXCEPT !.images = Append(@, i), !.fresh = FALSE])
    BY <1>4 DEF StorePart
  <2>2. i \in Images /\ i \in stored' /\ i[1] = NextPart(q) /\ Storing(q)
    BY <1>4, <2>1 DEF Fresh, InsertRow, StorePart, LookedUp
  <2>3. Grow  BY <1>4, <2>1 DEF Grow, StorePart, InsertRow, albumVars, Answers
  <2> QED  BY <2>1, <2>2, <2>3, AnswersAppend
<1>5. CASE StoreUncertain(q)
  <2>1. PICK i \in Fresh(NextPart(q)) : InsertRow(q, i) /\ uncertain' = uncertain \cup {i}
    BY <1>5 DEF StoreUncertain
  <2>2. Grow  BY <1>5, <2>1 DEF Grow, StoreUncertain, InsertRow, albumVars, Answers
  <2>3. Update(q, Answered(req[q], "failed")) /\ req[q].stage = "storing"
    BY <1>5 DEF StoreUncertain, LookedUp, Storing
  <2> QED  BY <2>2, <2>3, AnswersEnd
<1>6. CASE AllStored(q)
  <2>1. Grow /\ stored' = stored  BY <1>6, SameGrow DEF AllStored, imageVars
  <2>2. req[q].stage = "storing" /\ req[q].kind # "create"  BY <1>0, <1>6 DEF AllStored, Given
  <2>3. CASE Update(q, Answered(req[q], "ok"))
    BY <2>1, <2>2, <2>3, AnswersEnd
  <2>4. CASE Update(q, [req[q] EXCEPT !.stage = "checking"])
    <3> DEFINE r == [req[q] EXCEPT !.stage = "checking"]
    <3>1. /\ r.stage = "checking" /\ r.status = req[q].status /\ r.kind = req[q].kind
          /\ r.input = req[q].input /\ r.images = req[q].images /\ r.album = NoAlbum
      BY <1>0, <2>2 DEF Requested, Given
    <3> HIDE DEF r
    <3>2. Filled(r, stored') /\ Told(r, used', edited', members') /\ Given(r)
      BY <1>0, <2>1, <2>2, <3>1 DEF Filled, Told, Given
    <3>3. Update(q, r)  BY <2>4 DEF r
    <3> QED  BY <2>1, <3>2, <3>3, AnswersMove
  <2> QED  BY <1>6, <2>3, <2>4 DEF AllStored
<1>7. CASE CheckImage(q)
  <2>1. Grow /\ stored' = stored /\ req[q].stage = "checking"
    BY <1>7, SameGrow DEF CheckImage, Checking, imageVars
  <2>2. CASE NoAlbumMade(q)
    BY <2>1, <2>2, AnswersEnd DEF NoAlbumMade
  <2>3. CASE Update(q, [req[q] EXCEPT !.checked = @ + 1])
    <3> DEFINE r == [req[q] EXCEPT !.checked = @ + 1]
    <3>1. /\ r.stage = req[q].stage /\ r.status = req[q].status /\ r.kind = req[q].kind
          /\ r.input = req[q].input /\ r.images = req[q].images /\ r.album = req[q].album
      BY <1>0 DEF Requested
    <3> HIDE DEF r
    <3>2. Filled(r, stored') /\ Told(r, used', edited', members') /\ Given(r)
      BY <1>0, <2>1, <3>1 DEF Filled, Told, Given
    <3>3. Update(q, r)  BY <2>3 DEF r
    <3> QED  BY <2>1, <3>2, <3>3, AnswersMove
  <2> QED  BY <1>7, <2>2, <2>3 DEF CheckImage
<1>8. ASSUME NEW x \in AlbumIds \ used, InsertAlbum(q, x)
      PROVE /\ used' = used \cup {x} /\ edited' = edited
            /\ \A y \in used : members'[y] = members[y]
            /\ members'[x] = ElementsOf(req[q].images)
  BY <1>8 DEF InsertAlbum, IInv, Types
<1>9. CASE MakeAlbum(q)
  <2>1. PICK x \in AlbumIds \ used :
          InsertAlbum(q, x) /\ Update(q, Answered([req[q] EXCEPT !.album = x], "ok"))
    BY <1>9 DEF MakeAlbum
  <2> DEFINE r == Answered([req[q] EXCEPT !.album = x], "ok")
  <2>2. /\ r.stage = "answered" /\ r.status = "ok" /\ r.kind = req[q].kind
        /\ r.input = req[q].input /\ r.images = req[q].images /\ r.album = x
    BY <1>0 DEF Requested, Answered
  <2>3. Update(q, r)  BY <2>1
  <2> HIDE DEF r
  <2>4. x # NoAlbum  BY DEF AlbumsAssumption
  <2>5. Grow /\ stored' = stored  BY <1>8, <1>9, <2>1 DEF MakeAlbum, Grow, imageVars, Answers
  <2>6. Filled(r, stored')  BY <1>0, <2>2, <2>5 DEF Filled
  <2>7. Told(r, used', edited', members')  BY <1>8, <2>1, <2>2 DEF Told
  <2>8. Given(r)  BY <1>0, <1>9, <2>2, <2>4 DEF Given, MakeAlbum, Ready
  <2> QED  BY <2>3, <2>5, <2>6, <2>7, <2>8, AnswersMove
<1>10. CASE MakeAlbumUnheard(q)
  <2>1. PICK x \in AlbumIds \ used : InsertAlbum(q, x)  BY <1>10 DEF MakeAlbumUnheard
  <2>2. Grow  BY <1>8, <1>10, <2>1 DEF MakeAlbumUnheard, Grow, imageVars, Answers
  <2>3. req[q].stage = "checking" /\ NoAlbumMade(q)  BY <1>10 DEF MakeAlbumUnheard, Ready
  <2> QED  BY <2>2, <2>3, AnswersEnd DEF NoAlbumMade
<1> QED
  BY <1>1, <1>2, <1>3, <1>4, <1>5, <1>6, <1>7, <1>9, <1>10 DEF Serve

LEMMA AnswersEdit ==
  ASSUME AlbumsAssumption, IInv, Answers, NEW e \in Editors, Edit(e)
  PROVE Answers'
<1>1. CASE \E x \in AlbumIds : ReadDelete(e, x) \/ \E i \in Images : ReadAdd(e, x, i) \/ ReadRemove(e, x, i)
  <2>1. UNCHANGED <<imageVars, albumVars, req>>
    BY <1>1 DEF ReadDelete, ReadAdd, ReadRemove
  <2> QED  BY <2>1, SameGrow, AnswersStay
<1>2. CASE WriteEdit(e)
  <2>1. edit[e].album \in used  BY <1>2 DEF WriteEdit, IInv, Read
  <2>2. Grow /\ UNCHANGED req
    BY <1>2, <2>1 DEF WriteEdit, Grow, imageVars, IInv, Types, Answers
  <2> QED  BY <2>2, AnswersStay
<1> QED  BY <1>1, <1>2 DEF Edit

LEMMA AnswersRest ==
  ASSUME AlbumsAssumption, IInv, Answers,
         \/ \E i \in Images : DeleteImage(i)
         \/ \E u \in Users : RemoveUser(u)
         \/ Crash
         \/ UNCHANGED albumsVars
  PROVE Answers'
<1>1. CASE \E i \in Images : DeleteImage(i)
  <2>1. Grow /\ UNCHANGED req  BY <1>1 DEF DeleteImage, Grow, albumVars, Answers
  <2> QED  BY <2>1, AnswersStay
<1>2. CASE \E u \in Users : RemoveUser(u)
  <2>1. PICK u \in Users : RemoveUser(u)  BY <1>2
  <2>2. \A x \in AlbumIds : albumOwner[x] = u => x \in used
    BY DEF IInv, Rows, AlbumsAssumption
  <2>3. Grow /\ UNCHANGED req  BY <2>1, <2>2 DEF RemoveUser, Grow, IInv, Types, Answers
  <2> QED  BY <2>3, AnswersStay
<1>3. CASE Crash
  <2>1. Grow  BY <1>3, SameGrow DEF Crash
  <2>2. ASSUME NEW p \in Requests
        PROVE /\ Filled(req'[p], stored') /\ Given(req'[p])
              /\ Told(req'[p], used', edited', members')
    <3>1. CASE req'[p] = req[p]  BY <2>1, <3>1, AnswersKept
    <3>2. CASE req'[p] = Idle  BY <3>2 DEF Idle, Filled, Given, Told
    <3> QED  BY <1>3, <3>1, <3>2 DEF Crash
  <2> QED  BY <2>1, <2>2 DEF Answers, Grow
<1>4. CASE UNCHANGED albumsVars
  <2>1. UNCHANGED <<imageVars, albumVars, req>>  BY <1>4 DEF albumsVars
  <2> QED  BY <2>1, SameGrow, AnswersStay
<1> QED  BY <1>1, <1>2, <1>3, <1>4

LEMMA AnswersClient ==
  ASSUME AlbumsAssumption, IInv, Answers, NEW q \in Requests, Client(q)
  PROVE Answers'
<1>1. Grow /\ Update(q, req'[q])  BY SameGrow DEF Client
<1>2. CASE req'[q] = Idle
  <2>1. Filled(Idle, stored') /\ Given(Idle) /\ Told(Idle, used', edited', members')
    BY DEF Idle, Filled, Given, Told
  <2> QED  BY <1>1, <1>2, <2>1, AnswersMove
<1>3. CASE Sent(req'[q])
  <2> DEFINE r == req'[q]
  <2>1. /\ r = [Idle EXCEPT !.stage = "sent", !.kind = r.kind, !.cookies = r.cookies, !.input = r.input]
        /\ r.kind # "create" => r.input \in Seq(Files)
    BY <1>3 DEF Sent
  <2> HIDE DEF r
  <2>2. r.stage = "sent" /\ r.images = <<>> /\ r.album = NoAlbum  BY <2>1 DEF Idle
  <2>3. Filled(r, stored') /\ Given(r) /\ Told(r, used', edited', members')
    BY <2>1, <2>2 DEF Filled, Given, Told
  <2>4. Update(q, r)  BY <1>1 DEF r
  <2> QED  BY <1>1, <2>3, <2>4, AnswersMove
<1> QED  BY <1>2, <1>3 DEF Client

LEMMA StepAnswers ==
  ASSUME AlbumsAssumption, IInv, Answers, [AlbumsNext]_albumsVars
  PROVE Answers'
BY AnswersServe, AnswersEdit, AnswersRest, AnswersClient DEF AlbumsNext, ServerNext

-----------------------------------------------------------------------------
(* Where the client stands in its loops, and what it waits for *)

Group(g) == plan[g].files
Base == offset + pos - 1      \* files of the group before the next batch
Pending == at = "asking" /\ phase = "upload"
Troubles == failure \cup error

ClientTypes ==
  /\ plan \in Plans /\ page \in BOOLEAN /\ stopped \in BOOLEAN /\ refreshed \in BOOLEAN
  /\ jar \in Identities
  /\ group \in 1..Len(plan) /\ offset \in Nat /\ pos \in Nat \ {0}
  /\ phase \in Requests /\ at \in {"loop", "asking", "renewing", "waiting", "ended", "done"}
  /\ attempt \in 0..Retries + (IF refreshed THEN 1 ELSE 0) /\ events \in 0..MaxEvents
  /\ ids \subseteq shown /\ shown \subseteq stored /\ IsFiniteSet(ids)
  /\ Troubles \subseteq {"answer", "album", "stopped", "network"}
  /\ \A c \in confirmed : c[1] \in used /\ c[2] \subseteq shown

Stands ==
  /\ at = "waiting" => attempt < Retries
  /\ at = "renewing" => ~refreshed
  /\ at = "ended" => phase = "album"
  /\ at = "done" => phase = "upload"
  /\ phase = "upload" => failure = {}
  /\ at # "done" => error = {}
  /\ ~page => /\ group = 1 /\ offset = 0 /\ pos = 1 /\ phase = "upload"
              /\ at \in {"loop", "asking", "done"} /\ ids = {}
              /\ at # "done" => shown = {} /\ confirmed = {}

Looping ==
  /\ offset < Len(Group(group)) /\ pos <= Len(Chunk) + 1
  /\ (page /\ phase = "upload" /\ at \in {"asking", "renewing", "waiting"}) => pos <= Len(Chunk)
  /\ \E n \in Nat : offset = n * AlbumMax

Upload == req["upload"]
Album == req["album"]

\* The upload under way is of the files that come next, also when the client has
\* given it up; it has then reported a failure.
UploadAsked ==
  Upload.stage # "idle" =>
    /\ Upload.kind = IF page THEN "upload" ELSE "auto"
    /\ Base + Len(Upload.input) <= Len(Group(group))
    /\ \A k \in 1..Len(Upload.input) : Upload.input[k] = Group(group)[Base + k]
    /\ IF Pending THEN page => Upload.input = Batch ELSE "network" \in Troubles

AlbumAsked ==
  Album.stage # "idle" =>
    /\ Album.kind = "create"
    /\ (at = "asking" /\ phase = "album") => ElementsOf(Album.input) = ids

Waits == at \in {"renewing", "waiting"} => req[phase].stage = "idle"

Course == ClientTypes /\ Stands /\ Looping /\ UploadAsked /\ AlbumAsked /\ Waits

-----------------------------------------------------------------------------
(* What became of the files *)

Accounted(i) ==
  \/ "network" \in Troubles
  \/ Pending /\ Upload.stage = "idle"
  \/ Pending /\ i \in ElementsOf(Upload.images)
  \/ /\ i \in uncertain
     /\ Troubles # {} \/ (Pending /\ Upload.stage = "answered" /\ Upload.status = "failed")

AllAccounted == \A i \in stored \ shown : Accounted(i)

-----------------------------------------------------------------------------
(* The operators of the loops *)

LEMMA MinOfTwo ==
  ASSUME NEW a \in Nat, NEW b \in Nat
  PROVE Min({a, b}) = IF a <= b THEN a ELSE b
<1>1. \E x \in {a, b} : \A y \in {a, b} : x <= y  OBVIOUS
<1>2. Min({a, b}) \in {a, b} /\ \A y \in {a, b} : Min({a, b}) <= y  BY <1>1 DEF Min
<1> QED  BY <1>2

LEMMA MaxIsThere ==
  ASSUME NEW n \in Nat, NEW S \in SUBSET (0..n), S # {}
  PROVE Max(S) \in S
<1> DEFINE T == {n - x : x \in S}
<1>1. T \subseteq Nat  OBVIOUS
<1>2. T # {}
  <2>1. PICK x \in S : TRUE  OBVIOUS
  <2>2. n - x \in T  BY <2>1
  <2> QED  BY <2>2
<1> HIDE DEF T
<1>3. PICK m \in T : \A y \in T : m <= y
  <2>1. PICK m \in T : \A y \in T : <<y, m>> \notin OpToRel(<, Nat)
    BY <1>1, <1>2, WFMin, NatLessThanWellFounded, Zenon
  <2>2. m \in T /\ \A y \in T : ~(y < m)  BY <1>1, <2>1, Zenon DEF OpToRel
  <2>3. m \in T /\ \A y \in T : m <= y  BY <1>1, <2>2
  <2> QED  BY <2>3
<1> USE DEF T
<1>4. PICK x \in S : m = n - x  OBVIOUS
<1>5. \A y \in S : x >= y  BY <1>3, <1>4
<1> QED  BY <1>5 DEF Max

\* A part of AlbumMax files, or of what is left.
Piece(s, o) == SubSeq(s, o + 1, Min({o + AlbumMax, Len(s)}))

LEMMA PieceIs ==
  ASSUME NEW s \in Seq(Files), NEW o \in Nat, o < Len(s)
  PROVE /\ Piece(s, o) \in Seq(Files)
        /\ Len(Piece(s, o)) = IF o + AlbumMax <= Len(s) THEN AlbumMax ELSE Len(s) - o
        /\ \A k \in 1..Len(Piece(s, o)) : Piece(s, o)[k] = s[o + k]
<1> DEFINE m == Min({o + AlbumMax, Len(s)})
<1>0. AlbumMax \in Nat \ {0} /\ Len(s) \in Nat  BY ImportsAssumption
<1>1. m = IF o + AlbumMax <= Len(s) THEN o + AlbumMax ELSE Len(s)  BY <1>0, MinOfTwo
<1> HIDE DEF m
<1>2. m \in Nat /\ o + 1 <= m /\ m <= Len(s)  BY <1>0, <1>1
<1>3. \A k \in (o + 1)..m : s[k] \in Files  BY <1>0, <1>2
<1>4. Piece(s, o) = SubSeq(s, o + 1, m)  BY DEF Piece, m
<1>5. /\ SubSeq(s, o + 1, m) \in Seq(Files)
      /\ Len(SubSeq(s, o + 1, m)) = m - o
      /\ \A k \in 1..(m - o) : SubSeq(s, o + 1, m)[k] = s[o + k]
  <2>1. o + 1 \in Int /\ m \in Int  BY <1>2
  <2>2. /\ SubSeq(s, o + 1, m) \in Seq(Files)
        /\ Len(SubSeq(s, o + 1, m)) = IF o + 1 <= m THEN m - (o + 1) + 1 ELSE 0
        /\ \A k \in 1..(m - (o + 1) + 1) : SubSeq(s, o + 1, m)[k] = s[(o + 1) + k - 1]
    BY <1>3, <2>1, SubSeqProperties
  <2>3. /\ m - (o + 1) + 1 = m - o
        /\ \A k \in 1..(m - o) : (o + 1) + k - 1 = o + k
    BY <1>2
  <2> QED  BY <1>2, <2>2, <2>3
<1>6. Len(Piece(s, o)) = m - o  BY <1>4, <1>5
<1>7. Piece(s, o) \in Seq(Files)  BY <1>4, <1>5
<1>8. \A k \in 1..Len(Piece(s, o)) : Piece(s, o)[k] = s[o + k]  BY <1>4, <1>5, <1>6
<1>9. m - o = IF o + AlbumMax <= Len(s) THEN AlbumMax ELSE Len(s) - o
  <2> DEFINE n == Len(s)
  <2>1. n \in Nat  BY <1>0
  <2>2. m = IF o + AlbumMax <= n THEN o + AlbumMax ELSE n  BY <1>1
  <2> HIDE DEF n
  <2>3. m - o = IF o + AlbumMax <= n THEN AlbumMax ELSE n - o  BY <1>0, <2>1, <2>2
  <2> QED  BY <2>3 DEF n
<1> QED  BY <1>6, <1>7, <1>8, <1>9

LEMMA GroupIs ==
  ASSUME NEW p \in Plans, NEW g \in 1..Len(p)
  PROVE p[g].files \in Seq(Files) /\ Len(p[g].files) \in Nat \ {0} /\ Len(p) \in Nat \ {0}
<1>1. p \in Seq([titled : BOOLEAN, files : Seq(Files) \ {<<>>}]) \ {<<>>}
  BY ImportsAssumption
<1>2. p[g].files \in Seq(Files) \ {<<>>}
  <2>1. p[g] \in [titled : BOOLEAN, files : Seq(Files) \ {<<>>}]  BY <1>1, ElementOfSeq
  <2> QED  BY <2>1
<1> QED  BY <1>1, <1>2, EmptySeq

\* SubSeq under a name that the provers do not rewrite.
Slice(s, m, n) == SubSeq(s, m, n)

LEMMA SliceIs ==
  ASSUME NEW S, NEW s \in Seq(S), NEW m \in Nat \ {0}, NEW n \in m..Len(s)
  PROVE /\ Slice(s, m, n) \in Seq(S) /\ Len(Slice(s, m, n)) = n - m + 1
        /\ \A k \in 1..(n - m + 1) : Slice(s, m, n)[k] = s[m + k - 1]
<1>1. m \in Int /\ n \in Int /\ m <= n /\ m..n \subseteq 1..Len(s)  OBVIOUS
<1>2. \A k \in m..n : s[k] \in S  BY <1>1, ElementOfSeq
<1> QED  BY <1>1, <1>2, SubSeqProperties DEF Slice

LEMMA SliceOfPiece ==
  ASSUME NEW s \in Seq(Files), NEW o \in Nat, o < Len(s),
         NEW m \in Nat \ {0}, NEW n \in m..Len(Piece(s, o))
  PROVE /\ Slice(Piece(s, o), m, n) \in Seq(Files)
        /\ Len(Slice(Piece(s, o), m, n)) \in Nat \ {0}
        /\ m + Len(Slice(Piece(s, o), m, n)) <= Len(Piece(s, o)) + 1
        /\ (o + m - 1) + Len(Slice(Piece(s, o), m, n)) <= Len(s)
        /\ \A k \in 1..Len(Slice(Piece(s, o), m, n)) :
             /\ Slice(Piece(s, o), m, n)[k] = Piece(s, o)[m + k - 1]
             /\ Slice(Piece(s, o), m, n)[k] = s[(o + m - 1) + k]
<1> DEFINE c == Piece(s, o)
           b == Slice(c, m, n)
<1>0. AlbumMax \in Nat /\ Len(s) \in Nat  BY ImportsAssumption
<1>1. /\ c \in Seq(Files) /\ Len(c) \in Nat /\ o + Len(c) <= Len(s)
      /\ \A k \in 1..Len(c) : c[k] = s[o + k]
  <2>1. /\ c \in Seq(Files)
        /\ Len(c) = IF o + AlbumMax <= Len(s) THEN AlbumMax ELSE Len(s) - o
        /\ \A k \in 1..Len(c) : c[k] = s[o + k]
    BY PieceIs
  <2> HIDE DEF c
  <2> DEFINE l == Len(s)
             lc == Len(c)
  <2>2. l \in Nat /\ o < l /\ lc = IF o + AlbumMax <= l THEN AlbumMax ELSE l - o
    BY <1>0, <2>1
  <2> HIDE DEF l, lc
  <2>3. lc \in Nat /\ o + lc <= l  BY <1>0, <2>2
  <2> QED  BY <2>1, <2>3 DEF l, lc
<1>2. /\ b \in Seq(Files) /\ Len(b) = n - m + 1
      /\ \A k \in 1..(n - m + 1) : b[k] = c[m + k - 1]
  BY <1>1, SliceIs
<1>3. n \in Nat /\ m <= n /\ n <= Len(c)  BY <1>1
<1> HIDE DEF c, b
<1>4. Len(b) \in Nat \ {0} /\ m + Len(b) <= Len(c) + 1 /\ (o + m - 1) + Len(b) <= Len(s)
  BY <1>0, <1>1, <1>2, <1>3
<1>5. ASSUME NEW k \in 1..Len(b)
      PROVE b[k] = c[m + k - 1] /\ b[k] = s[(o + m - 1) + k]
  <2>1. b[k] = c[m + k - 1]  BY <1>2
  <2>2. m + k - 1 \in 1..Len(c) /\ o + (m + k - 1) = (o + m - 1) + k
    BY <1>1, <1>2, <1>3
  <2>3. c[m + k - 1] = s[o + (m + k - 1)]  BY <1>1, <2>2
  <2> QED  BY <2>1, <2>2, <2>3
<1> QED  BY <1>2, <1>4, <1>5 DEF b, c

\* The batch is of the files that come next, one at least.
LEMMA BatchIs ==
  ASSUME plan \in Plans, group \in 1..Len(plan), offset \in Nat,
         pos \in Nat \ {0}, offset < Len(Group(group)), pos <= Len(Chunk)
  PROVE /\ Batch \in Seq(Files) /\ Len(Batch) \in Nat \ {0}
        /\ pos + Len(Batch) <= Len(Chunk) + 1
        /\ Base + Len(Batch) <= Len(Group(group))
        /\ \A k \in 1..Len(Batch) : Batch[k] = Chunk[pos + k - 1]
        /\ \A k \in 1..Len(Batch) : Batch[k] = Group(group)[Base + k]
<1>1. Group(group) \in Seq(Files) /\ Len(Group(group)) \in Nat  BY GroupIs DEF Group
<1>2. Chunk = Piece(Group(group), offset)  BY DEF Chunk, ChunkOf, Piece, Group
<1>3. Len(Chunk) \in Nat
  <2>1. Chunk \in Seq(Files)  BY <1>1, <1>2, PieceIs
  <2> QED  BY <2>1
<1> DEFINE Fits(e) == e = pos \/ (/\ Len(SubSeq(Chunk, pos, e)) <= MaxFiles
                                /\ Bytes(SubSeq(Chunk, pos, e)) <= MaxBytes)
           S == {e \in pos..Len(Chunk) : Fits(e)}
<1>4. Batch = SubSeq(Chunk, pos, Max(S))  BY DEF Batch
<1> HIDE DEF Batch
<1>5. pos \in S  BY <1>3
<1>6. S \in SUBSET (0..Len(Chunk))  BY <1>3
<1> HIDE DEF Fits
<1>7. Max(S) \in pos..Len(Chunk)
  <2>1. S # {}  BY <1>5
  <2> HIDE DEF S
  <2>2. Max(S) \in S  BY <1>3, <1>6, <2>1, MaxIsThere
  <2> QED  BY <2>2 DEF S
<1>8. PICK last \in pos..Len(Chunk) : Batch = Slice(Chunk, pos, last)  BY <1>4, <1>7 DEF Slice
<1>9. last \in pos..Len(Piece(Group(group), offset))  BY <1>2, <1>8
<1>10. Batch = Slice(Piece(Group(group), offset), pos, last)  BY <1>2, <1>8
<1> HIDE DEF S
<1> DEFINE c == Piece(Group(group), offset)
           b == Slice(c, pos, last)
<1>12. /\ b \in Seq(Files) /\ Len(b) \in Nat \ {0}
       /\ pos + Len(b) <= Len(c) + 1
       /\ (offset + pos - 1) + Len(b) <= Len(Group(group))
       /\ \A k \in 1..Len(b) : /\ b[k] = c[pos + k - 1]
                             /\ b[k] = Group(group)[(offset + pos - 1) + k]
  <2>1. Group(group) \in Seq(Files)  BY <1>1
  <2>2. offset < Len(Group(group)) /\ offset \in Nat /\ pos \in Nat \ {0}  OBVIOUS
  <2> QED  BY <1>9, <2>1, <2>2, SliceOfPiece, ZenonT(30)
<1>13. Batch = b /\ Chunk = c  BY <1>2, <1>10
<1> HIDE DEF b, c
<1>11. /\ Batch \in Seq(Files) /\ Len(Batch) \in Nat \ {0}
       /\ pos + Len(Batch) <= Len(Chunk) + 1
       /\ (offset + pos - 1) + Len(Batch) <= Len(Group(group))
       /\ \A k \in 1..Len(Batch) : /\ Batch[k] = Chunk[pos + k - 1]
                                 /\ Batch[k] = Group(group)[(offset + pos - 1) + k]
  BY <1>12, <1>13
<1> QED  BY <1>11 DEF Base

\* A set as a sequence has the elements of the set.
LEMMA SetToSeqIs ==
  ASSUME NEW S, IsFiniteSet(S)
  PROVE SetToSeq(S) \in Seq(S) /\ ElementsOf(SetToSeq(S)) = S
<1> DEFINE n == Cardinality(S)
           f == SetToSeq(S)
<1>1. n \in Nat /\ ExistsBijection(1..n, S)  BY FS_CardinalityType
<1>2. \E h \in [1..n -> S] : IsInjective(h)
  BY <1>1 DEF ExistsBijection, Bijection, Injection
<1>3. f \in [1..n -> S] /\ IsInjective(f)  BY <1>2 DEF SetToSeq
<1> HIDE DEF f
<1>4. f \in Seq(S)  BY <1>1, <1>3, SeqDef
<1>5. f \in Injection(1..n, S)  BY <1>3 DEF Injection
<1>6. Cardinality(1..n) = n  BY <1>1, FS_Interval
<1>7. f \in Surjection(1..n, S)  BY <1>5, <1>6, FS_Injection
<1>8. ElementsOf(f) = S  BY <1>3, <1>7 DEF Surjection, ElementsOf
<1> QED  BY <1>4, <1>8 DEF f

-----------------------------------------------------------------------------
(* The client sends to the server what any client may *)

LEMMA AskIsClient ==
  ASSUME IInv, phase \in Requests, SameServer,
         NEW kind \in Kinds, NEW cookies \in Identities, NEW input,
         IF kind = "create" THEN input \in Seq(Images) ELSE input \in Seq(Files),
         Ask(kind, cookies, input)
  PROVE Client(phase)
<1> DEFINE r == [Idle EXCEPT !.stage = "sent", !.kind = kind, !.cookies = cookies, !.input = input]
<1>1. req[phase].stage = "idle" /\ req' = [req EXCEPT ![phase] = r]
  BY DEF Ask, Send, Update
<1>2. r.kind = kind /\ r.cookies = cookies /\ r.input = input  BY DEF Idle
<1>3. Sent(r)  BY <1>2 DEF Sent
<1> HIDE DEF r
<1>4. req'[phase] = r  BY <1>1 DEF IInv, Types
<1>5. UNCHANGED <<imageVars, albumVars, edit>>  BY DEF SameServer
<1> QED  BY <1>1, <1>3, <1>4, <1>5 DEF Client, Update

LEMMA ReceiveIsClient ==
  ASSUME IInv, NEW q \in Requests, SameServer, req[q].stage \in {"sent", "answered"},
         Update(q, Idle)
  PROVE Client(q)
<1>1. req'[q] = Idle  BY DEF IInv, Types, Update
<1>2. UNCHANGED <<imageVars, albumVars, edit>>  BY DEF SameServer
<1> QED  BY <1>1, <1>2 DEF Client

LEMMA SameIsSame ==
  ASSUME SameServer, UNCHANGED req
  PROVE UNCHANGED albumsVars
BY DEF SameServer, albumsVars

\* What the client sends: the batch that comes next, the images of the chunk, or
\* the only group of an API client.
LEMMA BatchTyped ==
  ASSUME Course, page, phase = "upload", pos <= Len(Chunk)
  PROVE Batch \in Seq(Files)
BY BatchIs DEF Course, ClientTypes, Looping

LEMMA IdsTyped ==
  ASSUME IInv, Course
  PROVE SetToSeq(ids) \in Seq(Images) /\ ElementsOf(SetToSeq(ids)) = ids
<1>1. IsFiniteSet(ids) /\ ids \subseteq Images  BY DEF Course, ClientTypes, IInv, Types
<1>2. SetToSeq(ids) \in Seq(ids) /\ ElementsOf(SetToSeq(ids)) = ids  BY <1>1, SetToSeqIs
<1> QED  BY <1>1, <1>2, SeqMonotonic

LEMMA AgainIsClient ==
  ASSUME IInv, Course, at \in {"renewing", "waiting"}, SameServer,
         NEW cookies \in Identities, Again(cookies)
  PROVE Client(phase) \/ UNCHANGED albumsVars
<1>1. /\ phase \in Requests /\ phase \in {"upload", "album"}
      /\ phase = "upload" => (page /\ pos <= Len(Chunk))
  <2>1. phase \in Requests /\ phase \in {"upload", "album"}
    BY ImportsAssumption DEF Course, ClientTypes
  <2>2. page  BY DEF Course, Stands
  <2> QED  BY <2>1, <2>2 DEF Course, Looping
<1>2. CASE phase = "upload" /\ stopped
  BY <1>2, SameIsSame DEF Again
<1>3. CASE phase = "upload" /\ ~stopped
  <2>1. Batch \in Seq(Files) /\ Ask("upload", cookies, Batch)
    BY <1>1, <1>3, BatchTyped DEF Again
  <2> QED  BY <1>1, <2>1, AskIsClient DEF Kinds
<1>4. CASE phase = "album"
  <2>1. Ask("create", cookies, SetToSeq(ids))  BY <1>4 DEF Again
  <2> QED  BY <1>1, <2>1, IdsTyped, AskIsClient DEF Kinds
<1> QED  BY <1>1, <1>2, <1>3, <1>4

LEMMA ClientSpeaks ==
  ASSUME IInv, Course, ClientStep
  PROVE (\E q \in Requests : Client(q)) \/ UNCHANGED albumsVars
<1>0. /\ phase \in Requests /\ jar \in Identities /\ Me \in Identities
      /\ phase \in {"upload", "album"}
  BY ImportsAssumption DEF Course, ClientTypes, Identities, Owners
<1>1. CASE NextBatch
  <2>1. SameServer /\ page /\ phase = "upload"  BY <1>1 DEF NextBatch
  <2>2. CASE stopped \/ pos > Len(Chunk)
    BY <1>1, <2>1, <2>2, SameIsSame DEF NextBatch
  <2>3. CASE ~stopped /\ ~(pos > Len(Chunk))
    <3>1. Ask("upload", jar, Batch)  BY <1>1, <2>3 DEF NextBatch
    <3>2. pos <= Len(Chunk)  BY <2>1, <2>3 DEF Course, ClientTypes, Looping
    <3>3. Batch \in Seq(Files)  BY <2>1, <3>2, BatchTyped
    <3> QED  BY <1>0, <2>1, <3>1, <3>3, AskIsClient DEF Kinds
  <2> QED  BY <2>2, <2>3
<1>2. CASE NextAlbum
  <2>1. SameServer  BY <1>2 DEF NextAlbum
  <2>2. UNCHANGED req \/ Ask("create", jar, SetToSeq(ids))  BY <1>2 DEF NextAlbum
  <2> QED  BY <1>0, <2>1, <2>2, SameIsSame, IdsTyped, AskIsClient DEF Kinds
<1>3. CASE EndChunk \/ NotRenewed \/ ApiCut
  BY <1>3, SameIsSame DEF EndChunk, NotRenewed, ApiCut
<1>4. CASE TakeImages \/ TakeAlbum \/ TakeRefusal \/ ApiTake
  <2>1. SameServer /\ req[phase].stage = "answered" /\ Update(phase, Idle)
    BY <1>4 DEF TakeImages, TakeAlbum, TakeRefusal, ApiTake, HasResponse, Response, Receive
  <2> QED  BY <1>0, <2>1, ReceiveIsClient
<1>5. CASE Renewed
  <2>1. jar' \in Identities  BY <1>0, <1>5 DEF Renewed
  <2>2. SameServer /\ Again(jar') /\ at = "renewing"  BY <1>5 DEF Renewed
  <2> QED  BY <1>0, <2>1, <2>2, AgainIsClient
<1>6. CASE Waited
  BY <1>0, <1>6, AgainIsClient DEF Waited
<1>7. CASE Cut
  <2>1. SameServer  BY <1>7 DEF Cut
  <2>2. UNCHANGED req \/ (req[phase].stage \in {"sent", "answered"} /\ Update(phase, Idle))
    BY <1>7 DEF Cut, Response, Receive
  <2> QED  BY <1>0, <2>1, <2>2, SameIsSame, ReceiveIsClient
<1>8. CASE ApiSend
  <2>1. SameServer /\ Ask("auto", Me, plan[1].files)  BY <1>8 DEF ApiSend
  <2>2. plan[1].files \in Seq(Files)
    <3>1. plan \in Plans /\ 1 \in 1..Len(plan)
      <4>1. plan \in Plans /\ group \in 1..Len(plan)  BY DEF Course, ClientTypes
      <4>2. Len(plan) \in Nat \ {0}  BY <4>1, GroupIs
      <4> QED  BY <4>1, <4>2
    <3> QED  BY <3>1, GroupIs
  <2> QED  BY <1>0, <2>1, <2>2, AskIsClient DEF Kinds
<1> QED  BY <1>1, <1>2, <1>3, <1>4, <1>5, <1>6, <1>7, <1>8 DEF ClientStep

LEMMA StepOfAlbums ==
  ASSUME IInv, Course, [Next]_vars
  PROVE [AlbumsNext]_albumsVars
<1>1. CASE UNCHANGED vars
  BY <1>1 DEF vars
<1>2. CASE ClientStep
  BY <1>2, ClientSpeaks DEF AlbumsNext
<1>3. CASE Serves \/ WritesEdit
  BY <1>3 DEF Serves, WritesEdit, AlbumsNext, ServerNext, Edit
<1>4. CASE Unheard
  <2>1. Client("upload")
    BY <1>4, ImportsAssumption, ReceiveIsClient DEF Unheard
  <2> QED  BY <2>1, ImportsAssumption DEF AlbumsNext
<1>5. CASE Expire \/ SwitchAccount \/ Stop
  BY <1>5 DEF Expire, SwitchAccount, Stop
<1>6. CASE Interfere
  BY <1>6 DEF Interfere, AlbumsNext, ServerNext
<1> QED  BY <1>1, <1>2, <1>3, <1>4, <1>5, <1>6 DEF Next

(* What others do to the requests, and what they leave alone *)

LEMMA StepGrows ==
  ASSUME AlbumsAssumption, IInv, Answers, [AlbumsNext]_albumsVars
  PROVE Grow
<1>1. ASSUME NEW q \in Requests, Serve(q) PROVE Grow
  <2>1. CASE \/ Limit(q) \/ Refuse(q) \/ Begin(q) \/ LookUp(q) \/ FailPart(q) \/ TooMany(q)
             \/ AllStored(q) \/ CheckImage(q) \/ FailAlbum(q)
    BY <2>1, SameGrow
    DEF Limit, Refuse, Begin, LookUp, FailPart, TooMany, AllStored, CheckImage, FailAlbum
  <2>2. CASE StorePart(q) \/ StoreUncertain(q)
    BY <2>2 DEF Grow, StorePart, StoreUncertain, InsertRow, albumVars, Answers
  <2>3. CASE MakeAlbum(q) \/ MakeAlbumUnheard(q)
    <3>1. PICK x \in AlbumIds \ used : InsertAlbum(q, x)
      BY <2>3 DEF MakeAlbum, MakeAlbumUnheard
    <3>2. UNCHANGED imageVars  BY <2>3 DEF MakeAlbum, MakeAlbumUnheard
    <3>3. /\ used' = used \cup {x} /\ edited' = edited
          /\ \A y \in used : members'[y] = members[y]
      BY <3>1 DEF InsertAlbum, IInv, Types
    <3> QED  BY <3>2, <3>3 DEF Grow, imageVars, Answers
  <2> QED  BY <1>1, <2>1, <2>2, <2>3 DEF Serve
<1>2. ASSUME NEW e \in Editors, Edit(e) PROVE Grow
  <2>1. CASE \E x \in AlbumIds : ReadDelete(e, x) \/ \E i \in Images : ReadAdd(e, x, i) \/ ReadRemove(e, x, i)
    BY <2>1, SameGrow DEF ReadDelete, ReadAdd, ReadRemove
  <2>2. CASE WriteEdit(e)
    <3>1. edit[e].album \in used  BY <2>2 DEF WriteEdit, IInv, Read
    <3> QED  BY <2>2, <3>1 DEF WriteEdit, Grow, imageVars, IInv, Types, Answers
  <2> QED  BY <1>2, <2>1, <2>2 DEF Edit
<1>3. ASSUME NEW i \in Images, DeleteImage(i) PROVE Grow
  BY <1>3 DEF DeleteImage, Grow, albumVars, Answers
<1>4. ASSUME NEW u \in Users, RemoveUser(u) PROVE Grow
  <2>1. \A x \in AlbumIds : albumOwner[x] = u => x \in used
    BY DEF IInv, Rows, AlbumsAssumption
  <2> QED  BY <1>4, <2>1 DEF RemoveUser, Grow, IInv, Types, Answers
<1>5. CASE Crash \/ \E q \in Requests : Client(q)
  BY <1>5, SameGrow DEF Crash, Client
<1>6. CASE UNCHANGED albumsVars
  BY <1>6, SameGrow DEF albumsVars
<1> QED  BY <1>1, <1>2, <1>3, <1>4, <1>5, <1>6 DEF AlbumsNext, ServerNext

\* The request goes on, or is answered, with the images it had.

Continued(images, more) ==
  ElementsOf(images) \subseteq ElementsOf(more) /\ Len(images) <= Len(more)

Onwards(q, r) ==
  /\ Update(q, r) /\ r.kind = req[q].kind /\ r.input = req[q].input
  /\ r.stage \in {"storing", "checking", "answered"}
  /\ r.kind # "create" => Continued(req[q].images, r.images)

LEMMA AppendContinues ==
  ASSUME NEW S, NEW seq \in Seq(S), NEW x \in S
  PROVE Continued(seq, Append(seq, x))
<1>1. Len(seq) \in Nat /\ Len(Append(seq, x)) = Len(seq) + 1  OBVIOUS
<1>2. \A k \in 1..Len(seq) : Append(seq, x)[k] = seq[k] /\ k \in DOMAIN Append(seq, x)  OBVIOUS
<1>3. DOMAIN seq = 1..Len(seq)  OBVIOUS
<1> QED  BY <1>1, <1>2, <1>3 DEF Continued, ElementsOf

LEMMA ServeGoesOn ==
  ASSUME IInv, NEW q \in Requests, Serve(q)
  PROVE \E r : Onwards(q, r)
<1>0. req[q] \in Requested  BY DEF IInv, Types
<1>6. Continued(req[q].images, req[q].images)
  <2>1. req[q].images \in Seq(Images)  BY <1>0 DEF Requested
  <2>2. Len(req[q].images) \in Nat  BY <2>1
  <2> QED  BY <2>2 DEF Continued
<1> USE DEF Onwards
<1>1. CASE \/ Limit(q) \/ Refuse(q) \/ FailPart(q) \/ StoreUncertain(q) \/ TooMany(q)
           \/ MakeAlbumUnheard(q) \/ FailAlbum(q)
  <2>1. PICK status : Update(q, Answered(req[q], status))
    BY <1>1 DEF Limit, Refuse, FailPart, StoreUncertain, TooMany, MakeAlbumUnheard, FailAlbum,
                NoAlbumMade
  <2> DEFINE r == Answered(req[q], status)
  <2>2. /\ r.kind = req[q].kind /\ r.input = req[q].input /\ r.stage = "answered"
        /\ r.images = req[q].images
    BY <1>0 DEF Answered, Requested
  <2>3. Update(q, r)  BY <2>1
  <2> HIDE DEF r
  <2>4. Onwards(q, r)  BY <1>6, <2>2, <2>3
  <2> QED  BY <2>4
<1>2. CASE Begin(q)
  <2> DEFINE r == IF req[q].kind = "create"
                  THEN [req[q] EXCEPT !.stage = "checking", !.who = req[q].cookies, !.images = req[q].input]
                  ELSE [req[q] EXCEPT !.stage = "storing", !.who = req[q].cookies]
  <2>1. /\ r.kind = req[q].kind /\ r.input = req[q].input
        /\ r.stage \in {"storing", "checking", "answered"}
        /\ r.kind # "create" => r.images = req[q].images
    BY <1>0 DEF Requested
  <2>2. Update(q, r)  BY <1>2 DEF Begin
  <2> HIDE DEF r
  <2>3. Onwards(q, r)  BY <1>6, <2>1, <2>2
  <2> QED  BY <2>3
<1>3. ASSUME NEW r, Update(q, r), r.kind = req[q].kind, r.input = req[q].input,
             r.stage \in {"storing", "checking", "answered"}, r.images = req[q].images
      PROVE Onwards(q, r)
  BY <1>3, <1>6
<1>4. CASE LookUp(q) \/ StorePart(q)
  <2>0. req[q].stage = "storing" /\ req[q].images \in Seq(Images)
    BY <1>0, <1>4 DEF LookUp, StorePart, Storing, LookedUp, Requested
  <2>1. CASE Update(q, [req[q] EXCEPT !.fresh = TRUE])
    <3> DEFINE r == [req[q] EXCEPT !.fresh = TRUE]
    <3>1. /\ r.kind = req[q].kind /\ r.input = req[q].input /\ r.stage = req[q].stage
          /\ r.images = req[q].images
      BY <1>0 DEF Requested
    <3>2. Update(q, r)  BY <2>1
    <3> HIDE DEF r
    <3> QED  BY <1>3, <2>0, <3>1, <3>2
  <2>2. ASSUME NEW i \in Images, NEW fresh,
               Update(q, [req[q] EXCEPT !.images = Append(@, i), !.fresh = fresh])
        PROVE \E r : Onwards(q, r)
    <3> DEFINE r == [req[q] EXCEPT !.images = Append(@, i), !.fresh = fresh]
    <3>1. /\ r.kind = req[q].kind /\ r.input = req[q].input /\ r.stage = req[q].stage
          /\ r.images = Append(req[q].images, i)
      BY <1>0 DEF Requested
    <3>2. Update(q, r)  BY <2>2
    <3> HIDE DEF r
    <3>3. Continued(req[q].images, r.images)  BY <2>0, <3>1, AppendContinues
    <3>4. Onwards(q, r)  BY <2>0, <3>1, <3>2, <3>3
    <3> QED  BY <3>4
  <2>3. ASSUME NEW i \in Same(q), Update(q, [req[q] EXCEPT !.images = Append(@, i)])
        PROVE \E r : Onwards(q, r)
    <3>1. i \in Images  BY DEF Same, IInv, Types
    <3>2. [req[q] EXCEPT !.images = Append(@, i)]
            = [req[q] EXCEPT !.images = Append(@, i), !.fresh = req[q].fresh]
      BY <1>0 DEF Requested
    <3>3. Update(q, [req[q] EXCEPT !.images = Append(@, i), !.fresh = req[q].fresh])
      BY <2>3, <3>2
    <3> QED  BY <2>2, <3>1, <3>3
  <2>4. CASE LookUp(q)  BY <2>1, <2>3, <2>4 DEF LookUp
  <2>5. CASE StorePart(q)
    <3>1. PICK i \in Fresh(NextPart(q)) :
            Update(q, [req[q] EXCEPT !.images = Append(@, i), !.fresh = FALSE])
      BY <2>5 DEF StorePart
    <3>2. i \in Images  BY DEF Fresh
    <3> QED  BY <2>2, <3>1, <3>2
  <2> QED  BY <1>4, <2>4, <2>5
<1>5. CASE AllStored(q) \/ CheckImage(q) \/ MakeAlbum(q)
  <2>1. \/ \E status : Update(q, Answered(req[q], status))
        \/ Update(q, [req[q] EXCEPT !.stage = "checking"])
        \/ req[q].stage = "checking" /\ Update(q, [req[q] EXCEPT !.checked = @ + 1])
        \/ \E x : Update(q, Answered([req[q] EXCEPT !.album = x], "ok"))
    BY <1>5 DEF AllStored, CheckImage, MakeAlbum, NoAlbumMade, Checking
  <2>2. ASSUME NEW status, Update(q, Answered(req[q], status)) PROVE \E r : Onwards(q, r)
    <3> DEFINE r == Answered(req[q], status)
    <3>1. /\ r.kind = req[q].kind /\ r.input = req[q].input /\ r.images = req[q].images
          /\ r.stage = "answered"
      BY <1>0 DEF Answered, Requested
    <3>2. Update(q, r)  BY <2>2
    <3> HIDE DEF r
    <3> QED  BY <1>3, <3>1, <3>2
  <2>3. CASE Update(q, [req[q] EXCEPT !.stage = "checking"])
    <3> DEFINE r == [req[q] EXCEPT !.stage = "checking"]
    <3>1. /\ r.kind = req[q].kind /\ r.input = req[q].input /\ r.images = req[q].images
          /\ r.stage = "checking"
      BY <1>0 DEF Requested
    <3>2. Update(q, r)  BY <2>3
    <3> HIDE DEF r
    <3> QED  BY <1>3, <3>1, <3>2
  <2>4. CASE req[q].stage = "checking" /\ Update(q, [req[q] EXCEPT !.checked = @ + 1])
    <3> DEFINE r == [req[q] EXCEPT !.checked = @ + 1]
    <3>1. /\ r.kind = req[q].kind /\ r.input = req[q].input /\ r.images = req[q].images
          /\ r.stage = "checking"
      BY <1>0, <2>4 DEF Requested
    <3>2. Update(q, r)  BY <2>4
    <3> HIDE DEF r
    <3> QED  BY <1>3, <3>1, <3>2
  <2>5. ASSUME NEW x, Update(q, Answered([req[q] EXCEPT !.album = x], "ok"))
        PROVE \E r : Onwards(q, r)
    <3> DEFINE r == Answered([req[q] EXCEPT !.album = x], "ok")
    <3>1. /\ r.kind = req[q].kind /\ r.input = req[q].input /\ r.images = req[q].images
          /\ r.stage = "answered"
      BY <1>0 DEF Answered, Requested
    <3>2. Update(q, r)  BY <2>5
    <3> HIDE DEF r
    <3> QED  BY <1>3, <3>1, <3>2
  <2> QED  BY <2>1, <2>2, <2>3, <2>4, <2>5
<1> QED  BY <1>1, <1>2, <1>4, <1>5 DEF Serve

LEMMA ServeMoves ==
  ASSUME IInv, NEW q \in Requests, Serve(q)
  PROVE /\ req[q].stage \in {"sent", "storing", "checking"}
        /\ req'[q].stage \in {"storing", "checking", "answered"}
        /\ req'[q].kind = req[q].kind /\ req'[q].input = req[q].input
        /\ req[q].kind # "create" => Continued(req[q].images, req'[q].images)
        /\ \A p \in Requests \ {q} : req'[p] = req[p]
<1>1. req[q].stage \in {"sent", "storing", "checking"}
  BY DEF Serve, Limit, Refuse, Begin, LookUp, StorePart, FailPart, StoreUncertain, TooMany,
         AllStored, CheckImage, MakeAlbum, MakeAlbumUnheard, FailAlbum, Storing, LookedUp,
         Checking, Ready
<1>2. PICK r : Onwards(q, r)  BY ServeGoesOn
<1>3. req'[q] = r  BY <1>2 DEF IInv, Types, Update, Onwards
<1>4. \A p \in Requests \ {q} : req'[p] = req[p]  BY <1>2 DEF IInv, Types, Update, Onwards
<1> QED  BY <1>1, <1>2, <1>3, <1>4 DEF Onwards

Others == Serves \/ WritesEdit \/ Unheard \/ Expire \/ SwitchAccount \/ Stop \/ Interfere

\* A request goes on, or is no more.
RequestMoves(p) ==
  \/ req'[p] = req[p]
  \/ req'[p] = Idle
  \/ /\ req[p].stage \notin {"idle", "answered"} /\ req'[p].stage # "idle"
     /\ req'[p].kind = req[p].kind /\ req'[p].input = req[p].input
     /\ req[p].kind # "create" => Continued(req[p].images, req'[p].images)

LEMMA OthersMove ==
  ASSUME IInv, Course, Others
  PROVE /\ UNCHANGED <<plan, page, clientVars>>
        /\ jar' \in Identities /\ stopped' \in BOOLEAN /\ events' \in 0..MaxEvents
        /\ \A p \in Requests : RequestMoves(p)
<1>0. /\ jar \in Identities /\ stopped \in BOOLEAN /\ events \in 0..MaxEvents
      /\ MaxEvents \in Nat
  BY ImportsAssumption DEF Course, ClientTypes
<1>1. CASE Serves
  <2>1. PICK q \in Requests : Serve(q)  BY <1>1 DEF Serves
  <2>2. \A p \in Requests : RequestMoves(p)  BY <2>1, ServeMoves DEF RequestMoves
  <2> QED  BY <1>0, <1>1, <2>2 DEF Serves, browserVars
<1>2. CASE WritesEdit
  <2>1. UNCHANGED req  BY <1>2 DEF WritesEdit, WriteEdit
  <2> QED  BY <1>0, <1>2, <2>1 DEF WritesEdit, browserVars, RequestMoves
<1>3. CASE Unheard
  <2>1. \A p \in Requests : req'[p] = req[p] \/ req'[p] = Idle
    BY <1>3 DEF Unheard, Update, IInv, Types
  <2> QED  BY <1>0, <1>3, <2>1 DEF Unheard, browserVars, RequestMoves
<1>4. CASE Expire \/ SwitchAccount
  <2>1. jar' \in Identities
    BY <1>4 DEF Expire, SwitchAccount, Identities
  <2>2. events' \in 0..MaxEvents  BY <1>0, <1>4 DEF Expire, SwitchAccount, Happens
  <2>3. UNCHANGED <<req, plan, page, stopped, clientVars>>
    BY <1>4 DEF Expire, SwitchAccount, albumsVars
  <2> QED  BY <1>0, <2>1, <2>2, <2>3 DEF RequestMoves
<1>5. CASE Stop
  <2>1. stopped' \in BOOLEAN  BY <1>5 DEF Stop
  <2>2. UNCHANGED <<req, plan, page, jar, events, clientVars>>  BY <1>5 DEF Stop, albumsVars
  <2> QED  BY <1>0, <2>1, <2>2 DEF RequestMoves
<1>6. CASE Interfere
  <2>1. events' \in 0..MaxEvents  BY <1>0, <1>6 DEF Interfere, Happens
  <2>2. UNCHANGED <<plan, page, jar, stopped, clientVars>>  BY <1>6 DEF Interfere
  <2>3. \A p \in Requests : req'[p] = req[p] \/ req'[p] = Idle
    <3>1. CASE (\E i \in Images : DeleteImage(i)) \/ (\E u \in Users : RemoveUser(u))
      BY <3>1 DEF DeleteImage, RemoveUser
    <3>2. CASE \E e \in Editors : Edit(e)
      BY <3>2 DEF Edit, ReadDelete, ReadAdd, ReadRemove, WriteEdit
    <3>3. CASE Crash
      BY <3>3 DEF Crash
    <3> QED  BY <1>6, <3>1, <3>2, <3>3 DEF Interfere
  <2> QED  BY <1>0, <2>1, <2>2, <2>3 DEF RequestMoves
<1> QED  BY <1>1, <1>2, <1>3, <1>4, <1>5, <1>6 DEF Others

LEMMA CourseOthers ==
  ASSUME AlbumsAssumption, IInv, Answers, Course, Others, Grow
  PROVE Course'
<1>1. /\ UNCHANGED <<plan, page, clientVars>>
      /\ jar' \in Identities /\ stopped' \in BOOLEAN /\ events' \in 0..MaxEvents
      /\ \A p \in Requests : RequestMoves(p)
  BY OthersMove
<1>2. stored \subseteq stored' /\ used \subseteq used'  BY DEF Grow
<1>3. "upload" \in Requests /\ "album" \in Requests  BY ImportsAssumption
<1>4. Idle.stage = "idle"  BY DEF Idle
<1> USE DEF clientVars, loopVars, requestVars, resultVars
<1>5. ClientTypes'
  BY <1>1, <1>2 DEF Course, ClientTypes, Troubles
<1>6. Stands'
  BY <1>1 DEF Course, Stands
<1>7. Looping'
  BY <1>1 DEF Course, Looping, Group, Chunk, ChunkOf
<1>8. UploadAsked'
  <2> SUFFICES ASSUME Upload'.stage # "idle" PROVE UploadAsked'  BY DEF UploadAsked
  <2>1. /\ Upload.stage # "idle"
        /\ Upload'.kind = Upload.kind /\ Upload'.input = Upload.input
    BY <1>1, <1>3, <1>4 DEF Upload, RequestMoves
  <2>2. Batch' = Batch  BY <1>1 DEF Batch, Chunk, ChunkOf
  <2>3. Base' = Base /\ Group(group)' = Group(group) /\ Pending' = Pending /\ Troubles' = Troubles
    BY <1>1 DEF Base, Group, Pending, Troubles
  <2> HIDE DEF clientVars, loopVars
  <2> QED  BY <1>1, <2>1, <2>2, <2>3 DEF Course, UploadAsked
<1>9. AlbumAsked'
  <2> SUFFICES ASSUME Album'.stage # "idle" PROVE AlbumAsked'  BY DEF AlbumAsked
  <2>1. /\ Album.stage # "idle"
        /\ Album'.kind = Album.kind /\ Album'.input = Album.input
    BY <1>1, <1>3, <1>4 DEF Album, RequestMoves
  <2> QED  BY <1>1, <2>1 DEF Course, AlbumAsked
<1>10. Waits'
  <2>1. phase \in Requests  BY DEF Course, ClientTypes
  <2> QED  BY <1>1, <1>4, <2>1 DEF Course, Waits, RequestMoves
<1> QED  BY <1>5, <1>6, <1>7, <1>8, <1>9, <1>10 DEF Course

(* The steps of the client *)

LEMMA AskDoes ==
  ASSUME IInv, phase \in Requests, NEW kind, NEW cookies, NEW input, Ask(kind, cookies, input)
  PROVE /\ at' = "asking" /\ req[phase].stage = "idle"
        /\ req'[phase].stage = "sent" /\ req'[phase].kind = kind /\ req'[phase].input = input
        /\ req'[phase].images = <<>> /\ req'[phase].album = NoAlbum
        /\ \A p \in Requests \ {phase} : req'[p] = req[p]
BY DEF Ask, Send, Update, Idle, IInv, Types

LEMMA ReceiveDoes ==
  ASSUME IInv, phase \in Requests, Receive
  PROVE /\ req'[phase] = Idle /\ req'[phase].stage = "idle"
        /\ \A p \in Requests \ {phase} : req'[p] = req[p]
BY DEF Receive, Update, Idle, IInv, Types

LEMMA Two == Requests = {"upload", "album"} /\ "upload" # "album"
BY ImportsAssumption

LEMMA CourseNextBatch ==
  ASSUME IInv, Course, NextBatch
  PROVE Course'
<1> USE DEF browserVars, loopVars, requestVars, resultVars
<1>0. /\ phase = "upload" /\ at = "loop" /\ page
      /\ UNCHANGED <<plan, page, jar, stopped, events, group, offset, pos>>
      /\ UNCHANGED <<ids, failure, shown, confirmed, error, stored, used>>
  BY DEF NextBatch, SameServer, imageVars, albumVars
<1>1. Retries \in Nat  BY ImportsAssumption
<1>2. CASE stopped \/ pos > Len(Chunk)
  <2>1. phase' = "album" /\ UNCHANGED <<at, req, attempt, refreshed>>  BY <1>2 DEF NextBatch
  <2>2. ClientTypes'  BY <1>0, <2>1, Two DEF Course, ClientTypes, Troubles
  <2>3. Stands' /\ Waits'  BY <1>0, <2>1 DEF Course, Stands, Waits
  <2>4. Looping'  BY <1>0, <2>1 DEF Course, Looping, Group, Chunk, ChunkOf
  <2>5. UploadAsked'
    BY <1>0, <2>1 DEF Course, UploadAsked, Upload, Base, Group, Pending, Troubles
  <2>6. AlbumAsked'  BY <1>0, <2>1 DEF Course, AlbumAsked, Album
  <2> QED  BY <2>2, <2>3, <2>4, <2>5, <2>6 DEF Course
<1>3. CASE ~stopped /\ ~(pos > Len(Chunk))
  <2>1. Ask("upload", jar, Batch) /\ FirstAttempt /\ UNCHANGED phase  BY <1>3 DEF NextBatch
  <2>2. /\ at' = "asking" /\ Upload.stage = "idle"
        /\ Upload'.stage = "sent" /\ Upload'.kind = "upload" /\ Upload'.input = Batch
        /\ Album' = Album
    BY <1>0, <2>1, AskDoes, Two DEF Upload, Album
  <2>3. refreshed' \in BOOLEAN /\ attempt' \in 0..Retries + (IF refreshed' THEN 1 ELSE 0)
    <3>1. attempt' = 0 /\ refreshed' = FALSE  BY <2>1, Zenon DEF FirstAttempt
    <3>2. refreshed' \in BOOLEAN  BY <3>1, Zenon
    <3>3. attempt' \in 0..Retries + (IF refreshed' THEN 1 ELSE 0)  BY <1>1, <3>1
    <3> QED  BY <3>2, <3>3
  <2>4. ClientTypes'
    BY <1>0, <1>1, <2>1, <2>2, <2>3, Two DEF Course, ClientTypes, Troubles
  <2>5. Stands' /\ Waits'  BY <1>0, <2>1, <2>2 DEF Course, Stands, Waits
  <2>6. pos <= Len(Chunk)  BY <1>0, <1>3 DEF Course, ClientTypes, Looping
  <2>7. Looping'  BY <1>0, <2>1, <2>2, <2>6 DEF Course, Looping, Group, Chunk, ChunkOf
  <2>8. UploadAsked'
    <3>1. /\ Base + Len(Batch) <= Len(Group(group))
          /\ \A k \in 1..Len(Batch) : Batch[k] = Group(group)[Base + k]
      BY <2>6, BatchIs DEF Course, ClientTypes, Looping
    <3>2. Base' = Base /\ Group(group)' = Group(group) /\ Batch' = Batch
      BY <1>0 DEF Base, Group, Batch, Chunk, ChunkOf
    <3>3. Pending' /\ page' = page  BY <1>0, <2>1, <2>2 DEF Pending
    <3> QED  BY <1>0, <2>2, <3>1, <3>2, <3>3 DEF UploadAsked
  <2>9. AlbumAsked'  BY <1>0, <2>1, <2>2 DEF Course, AlbumAsked
  <2> QED  BY <2>4, <2>5, <2>7, <2>8, <2>9 DEF Course
<1> QED  BY <1>2, <1>3

\* Nothing that the upload was sent for changes while another request is under way.
LEMMA UploadStays ==
  ASSUME UploadAsked, UNCHANGED <<plan, page, group, offset, pos, error>>, Upload' = Upload,
         failure \subseteq failure', ~Pending, ~Pending'
  PROVE UploadAsked'
<1>1. Base' = Base /\ Group(group)' = Group(group)  BY DEF Base, Group
<1>2. "network" \in Troubles => "network" \in Troubles'  BY DEF Troubles
<1> QED  BY <1>1, <1>2 DEF UploadAsked

LEMMA CourseNextAlbum ==
  ASSUME IInv, Course, NextAlbum
  PROVE Course'
<1> USE DEF browserVars, loopVars, requestVars, resultVars
<1>0. /\ phase = "album" /\ at = "loop" /\ phase' = "album"
      /\ UNCHANGED <<plan, page, jar, stopped, events, group, offset, pos>>
      /\ UNCHANGED <<ids, failure, shown, confirmed, error, stored, used>>
  BY DEF NextAlbum, SameServer, imageVars, albumVars
<1>1. Retries \in Nat  BY ImportsAssumption
<1>2. Looping'  BY <1>0 DEF Course, Looping, Group, Chunk, ChunkOf
<1>3. ~Pending /\ ~Pending'  BY <1>0 DEF Pending
<1>4. CASE at' = "ended" /\ UNCHANGED <<req, requestVars>>
  <2>1. ClientTypes'  BY <1>0, <1>4, Two DEF Course, ClientTypes, Troubles
  <2>2. Stands' /\ Waits'  BY <1>0, <1>4 DEF Course, Stands, Waits
  <2>3. UploadAsked'  BY <1>0, <1>3, <1>4, UploadStays DEF Course, Upload
  <2>4. AlbumAsked'  BY <1>0, <1>4 DEF Course, AlbumAsked, Album
  <2> QED  BY <1>2, <2>1, <2>2, <2>3, <2>4 DEF Course
<1>5. CASE Ask("create", jar, SetToSeq(ids)) /\ FirstAttempt
  <2>1. /\ at' = "asking" /\ Upload' = Upload
        /\ Album'.stage = "sent" /\ Album'.kind = "create" /\ Album'.input = SetToSeq(ids)
    BY <1>0, <1>5, AskDoes, Two DEF Upload, Album
  <2>2. refreshed' \in BOOLEAN /\ attempt' \in 0..Retries + (IF refreshed' THEN 1 ELSE 0)
    <3>1. attempt' = 0 /\ refreshed' = FALSE  BY <1>5, Zenon DEF FirstAttempt
    <3>2. refreshed' \in BOOLEAN  BY <3>1, Zenon
    <3>3. attempt' \in 0..Retries + (IF refreshed' THEN 1 ELSE 0)  BY <1>1, <3>1
    <3> QED  BY <3>2, <3>3
  <2>3. ClientTypes'
    BY <1>0, <1>1, <2>1, <2>2, Two DEF Course, ClientTypes, Troubles
  <2>4. Stands' /\ Waits'  BY <1>0, <2>1 DEF Course, Stands, Waits
  <2>5. UploadAsked'  BY <1>0, <1>3, <2>1, UploadStays DEF Course
  <2>6. AlbumAsked'  BY <1>0, <2>1, IdsTyped DEF AlbumAsked
  <2> QED  BY <1>2, <2>3, <2>4, <2>5, <2>6 DEF Course
<1> QED  BY <1>4, <1>5 DEF NextAlbum

LEMMA CourseEndChunk ==
  ASSUME IInv, Course, EndChunk
  PROVE Course'
<1> USE DEF browserVars, requestVars, resultVars
<1>0. /\ at = "ended" /\ error' = failure /\ phase' = "upload" /\ ids' = {} /\ failure' = {}
      /\ UNCHANGED <<plan, page, jar, stopped, events, attempt, refreshed>>
      /\ UNCHANGED <<shown, confirmed, req, stored, used>>
  BY DEF EndChunk, SameServer, imageVars, albumVars
<1>1. page /\ phase = "album" /\ error = {}  BY <1>0 DEF Course, Stands
<1>2. AlbumMax \in Nat \ {0}  BY ImportsAssumption
<1>3. ~Pending /\ ~Pending'  BY <1>0, <1>1 DEF Pending, EndChunk
<1>4. AlbumAsked' /\ Waits'
  BY <1>0, <1>1 DEF Course, AlbumAsked, Album, Waits, EndChunk
<1>5. IsFiniteSet(ids')  BY <1>0, FS_EmptySet
<1>6. CASE at' = "done" /\ UNCHANGED loopVars
  <2>0. UNCHANGED <<group, offset, pos>>  BY <1>6 DEF loopVars
  <2>1. ClientTypes'  BY <1>0, <1>5, <1>6, <2>0, Two DEF Course, ClientTypes, Troubles
  <2>2. Stands'  BY <1>0, <1>1, <1>6 DEF Course, Stands
  <2>3. Looping'  BY <1>0, <1>6, <2>0 DEF Course, Looping, Group, Chunk, ChunkOf
  <2>4. UploadAsked'
    <3>1. Upload' = Upload /\ Base' = Base /\ Group(group)' = Group(group)
      BY <1>0, <2>0 DEF Upload, Base, Group
    <3>2. Troubles' = Troubles  BY <1>0, <1>1 DEF Troubles
    <3> QED  BY <1>0, <1>3, <3>1, <3>2 DEF Course, UploadAsked
  <2> QED  BY <1>4, <2>1, <2>2, <2>3, <2>4 DEF Course
<1>7. CASE ~(at' = "done" /\ UNCHANGED loopVars)
  <2> DEFINE more == offset + AlbumMax < Len(plan[group].files)
  <2>1. /\ at' = "loop" /\ pos' = 1 /\ failure = {}
        /\ group' = IF more THEN group ELSE group + 1
        /\ offset' = IF more THEN offset + AlbumMax ELSE 0
        /\ more \/ group # Len(plan)
    BY <1>7 DEF EndChunk
  <2> HIDE DEF more
  <2>2. Len(plan) \in Nat /\ group \in 1..Len(plan) /\ plan \in Plans /\ offset \in Nat
    BY GroupIs DEF Course, ClientTypes
  <2>3. group' \in 1..Len(plan) /\ offset' \in Nat /\ offset' < Len(plan[group'].files)
    <3>1. CASE more
      BY <1>2, <2>1, <2>2, <3>1 DEF more
    <3>2. CASE ~more
      <4>1. group' \in 1..Len(plan) /\ offset' = 0  BY <2>1, <2>2, <3>2
      <4>2. Len(plan[group'].files) \in Nat \ {0}  BY <2>2, <4>1, GroupIs
      <4> QED  BY <4>1, <4>2
    <3> QED  BY <3>1, <3>2
  <2>4. ClientTypes'
    BY <1>0, <1>5, <2>1, <2>3, Two DEF Course, ClientTypes, Troubles
  <2>5. Stands'  BY <1>0, <1>1, <2>1 DEF Course, Stands
  <2>6. Looping'
    <3>1. Len(Chunk') \in Nat
      <4>1. plan[group'].files \in Seq(Files)  BY <2>2, <2>3, GroupIs
      <4>2. Chunk' = Piece(plan[group'].files, offset')
        BY <1>0 DEF Chunk, ChunkOf, Piece
      <4>3. Piece(plan[group'].files, offset') \in Seq(Files)
        BY <2>3, <4>1, PieceIs
      <4> QED  BY <4>2, <4>3
    <3>2. \E n \in Nat : offset' = n * AlbumMax
      <4>1. PICK n \in Nat : offset = n * AlbumMax  BY DEF Course, Looping
      <4>2. offset + AlbumMax = (n + 1) * AlbumMax /\ n + 1 \in Nat /\ 0 = 0 * AlbumMax
        BY <1>2, <4>1
      <4> QED  BY <2>1, <4>2
    <3> QED  BY <1>0, <2>1, <2>3, <3>1, <3>2 DEF Looping, Group
  <2>7. UploadAsked'
    <3>1. Upload.stage = "idle"
      <4>1. "network" \notin Troubles  BY <1>1, <2>1 DEF Troubles
      <4> QED  BY <1>3, <4>1 DEF Course, UploadAsked
    <3> QED  BY <1>0, <3>1 DEF UploadAsked, Upload
  <2> QED  BY <1>4, <2>4, <2>5, <2>6, <2>7 DEF Course
<1> QED  BY <1>6, <1>7

LEMMA ElementsFinite ==
  ASSUME NEW S, NEW seq \in Seq(S)
  PROVE IsFiniteSet(ElementsOf(seq)) /\ ElementsOf(seq) \subseteq S
<1>1. Len(seq) \in Nat /\ seq \in [1..Len(seq) -> S]  OBVIOUS
<1>2. seq \in [1..Len(seq) -> ElementsOf(seq)]  BY <1>1 DEF ElementsOf
<1>3. seq \in Surjection(1..Len(seq), ElementsOf(seq))  BY <1>1, <1>2 DEF Surjection, ElementsOf
<1>4. IsFiniteSet(1..Len(seq))  BY <1>1, FS_Interval
<1>5. IsFiniteSet(ElementsOf(seq))  BY <1>3, <1>4, FS_Surjection
<1> QED  BY <1>1, <1>5 DEF ElementsOf

\* The images of an upload are stored.
LEMMA ImagesStored ==
  ASSUME IInv, Answers, NEW q \in Requests, req[q].kind # "create"
  PROVE IsFiniteSet(ElementsOf(req[q].images)) /\ ElementsOf(req[q].images) \subseteq stored
<1>1. req[q].images \in Seq(Images) /\ Filled(req[q], stored)
  BY DEF IInv, Types, Requested, Answers
<1>2. ElementsOf(req[q].images) \subseteq stored  BY <1>1 DEF Filled, ElementsOf
<1> QED  BY <1>1, <1>2, ElementsFinite

LEMMA CourseTakeImages ==
  ASSUME IInv, Answers, Course, TakeImages
  PROVE Course'
<1> USE DEF browserVars, requestVars, resultVars
<1>0. /\ page /\ phase = "upload" /\ at = "asking" /\ Receive
      /\ UNCHANGED <<plan, page, jar, stopped, events, group, offset, attempt, refreshed>>
      /\ UNCHANGED <<confirmed, error, stored, used>>
      /\ ids' = ids \cup ElementsOf(Upload.images) /\ shown' = shown \cup ElementsOf(Upload.images)
      /\ Upload.stage = "answered"
  BY DEF TakeImages, SameServer, imageVars, albumVars, HasResponse, Response, Upload
<1>1. IsFiniteSet(ElementsOf(Upload.images)) /\ ElementsOf(Upload.images) \subseteq stored
  BY <1>0, Two, ImagesStored DEF Course, UploadAsked, Upload
<1>2. IsFiniteSet(ids')  BY <1>0, <1>1, FS_Union DEF Course, ClientTypes
<1>3. pos <= Len(Chunk)  BY <1>0 DEF Course, Looping
<1>4. Len(Batch) \in Nat \ {0} /\ pos + Len(Batch) <= Len(Chunk) + 1
  BY <1>3, BatchIs DEF Course, ClientTypes, Looping
<1>5. \/ at' = "loop" /\ pos' = pos + Len(Batch) /\ UNCHANGED <<phase, failure>>
      \/ /\ at' = "loop" /\ phase' = "album" /\ failure' = failure \cup {"answer"}
         /\ UNCHANGED pos
  BY <1>0 DEF TakeImages, Fail
<1>6. pos' \in Nat \ {0} /\ pos' <= Len(Chunk) + 1
  BY <1>4, <1>5 DEF Course, ClientTypes, Looping
<1>7. at' = "loop" /\ phase' \in {"upload", "album"}  BY <1>0, <1>5
<1>8. Troubles' \subseteq {"answer", "album", "stopped", "network"}
  BY <1>0, <1>5 DEF Course, ClientTypes, Troubles
<1>9. ClientTypes'
  BY <1>0, <1>1, <1>2, <1>6, <1>7, <1>8, Two DEF Course, ClientTypes
<1>10. Stands'  BY <1>0, <1>5 DEF Course, Stands
<1>11. Looping'  BY <1>0, <1>6, <1>7 DEF Course, Looping, Group, Chunk, ChunkOf
<1>12. Upload'.stage = "idle" /\ Album' = Album  BY <1>0, Two, ReceiveDoes DEF Upload, Album
<1>13. UploadAsked' /\ AlbumAsked' /\ Waits'
  BY <1>0, <1>7, <1>12 DEF Course, UploadAsked, AlbumAsked, Waits
<1> QED  BY <1>9, <1>10, <1>11, <1>13 DEF Course

\* The album of an answer that says so was made of the images of the request.
LEMMA AlbumAnswered ==
  ASSUME AlbumsAssumption, IInv, Answers, Course, phase = "album", HasResponse,
         Response.status = "ok"
  PROVE /\ Response.album \in used
        /\ Response.album \in edited \/ members[Response.album] = ids
<1>1. Album.stage = "answered" /\ Album.status = "ok" /\ at = "asking"
  BY DEF HasResponse, Response, Album
<1>2. Album.kind = "create" /\ ElementsOf(Album.input) = ids
  BY <1>1 DEF Course, AlbumAsked
<1>3. Given(Album) /\ Told(Album, used, edited, members)  BY Two DEF Answers, Album
<1>4. Album.album # NoAlbum /\ Album.images = Album.input  BY <1>1, <1>2, <1>3 DEF Given
<1> QED  BY <1>1, <1>2, <1>3, <1>4 DEF Told, Response, Album

LEMMA CourseTakeAlbum ==
  ASSUME AlbumsAssumption, IInv, Answers, Course, TakeAlbum
  PROVE Course'
<1> USE DEF browserVars, loopVars, requestVars, resultVars
<1>0. /\ phase = "album" /\ at = "asking" /\ Receive /\ HasResponse
      /\ UNCHANGED <<plan, page, jar, stopped, events, group, offset, pos, attempt, refreshed>>
      /\ UNCHANGED <<ids, shown, error, stored, used>>
  BY DEF TakeAlbum, SameServer, imageVars, albumVars, HasResponse
<1>1. \/ /\ Response.status = "ok" /\ confirmed' = confirmed \cup {<<Response.album, ids>>}
         /\ at' = "ended" /\ UNCHANGED <<phase, failure>>
      \/ /\ failure' = failure \cup {"album"} /\ at' = "ended" /\ UNCHANGED phase
         /\ UNCHANGED confirmed
  BY <1>0 DEF TakeAlbum, Fail
<1>2. Response.status = "ok" => Response.album \in used  BY <1>0, AlbumAnswered
<1>3. \A c \in confirmed' : c[1] \in used' /\ c[2] \subseteq shown'
  BY <1>0, <1>1, <1>2 DEF Course, ClientTypes
<1>4. Troubles' \subseteq {"answer", "album", "stopped", "network"}
  BY <1>0, <1>1 DEF Course, ClientTypes, Troubles
<1>5. ClientTypes'
  BY <1>0, <1>1, <1>3, <1>4, Two DEF Course, ClientTypes
<1>6. Stands'  BY <1>0, <1>1 DEF Course, Stands
<1>7. Looping'  BY <1>0, <1>1 DEF Course, Looping, Group, Chunk, ChunkOf
<1>8. Upload' = Upload /\ Album'.stage = "idle"  BY <1>0, Two, ReceiveDoes DEF Upload, Album
<1>9. ~Pending /\ ~Pending' /\ failure \subseteq failure'  BY <1>0, <1>1 DEF Pending
<1>10. UploadAsked'  BY <1>0, <1>8, <1>9, UploadStays DEF Course
<1>11. AlbumAsked' /\ Waits'  BY <1>0, <1>1, <1>8 DEF AlbumAsked, Waits
<1> QED  BY <1>5, <1>6, <1>7, <1>10, <1>11 DEF Course

LEMMA CourseTakeRefusal ==
  ASSUME IInv, Course, TakeRefusal
  PROVE Course'
<1> USE DEF browserVars, loopVars, requestVars, resultVars
<1>0. /\ page /\ at = "asking" /\ Receive
      /\ UNCHANGED <<plan, page, jar, stopped, events, group, offset, pos, attempt, refreshed>>
      /\ UNCHANGED <<phase, ids, failure, shown, confirmed, error, stored, used>>
  BY DEF TakeRefusal, SameServer, imageVars, albumVars, HasResponse
<1>1. \/ at' = "renewing" /\ ~refreshed
      \/ at' = "waiting" /\ attempt < Retries
  BY DEF TakeRefusal, Repeats
<1>2. ClientTypes'
  BY <1>0, <1>1, Two DEF Course, ClientTypes, Troubles
<1>3. Stands'  BY <1>0, <1>1 DEF Course, Stands
<1>4. Looping'  BY <1>0, <1>1 DEF Course, Looping, Group, Chunk, ChunkOf
<1>5. phase \in Requests /\ phase \in {"upload", "album"}  BY Two DEF Course, ClientTypes
<1>6. req'[phase].stage = "idle" /\ \A p \in Requests \ {phase} : req'[p] = req[p]
  BY <1>0, <1>5, ReceiveDoes
<1>7. Waits'  BY <1>0, <1>6 DEF Waits
<1>8. UploadAsked'
  <2>1. CASE phase = "upload"
    BY <1>6, <2>1 DEF UploadAsked, Upload
  <2>2. CASE phase = "album"
    <3>1. Upload' = Upload  BY <1>6, <2>2, Two DEF Upload
    <3>2. ~Pending /\ ~Pending'  BY <1>0, <2>2 DEF Pending
    <3> QED  BY <1>0, <3>1, <3>2, UploadStays DEF Course
  <2> QED  BY <1>5, <2>1, <2>2
<1>9. AlbumAsked'
  <2>1. CASE phase = "album"
    BY <1>6, <2>1 DEF AlbumAsked, Album
  <2>2. CASE phase = "upload"
    <3>1. Album' = Album  BY <1>6, <2>2, Two DEF Album
    <3> QED  BY <1>0, <1>1, <3>1 DEF Course, AlbumAsked
  <2> QED  BY <1>5, <2>1, <2>2
<1> QED  BY <1>2, <1>3, <1>4, <1>7, <1>8, <1>9 DEF Course

LEMMA CourseAgain ==
  ASSUME IInv, Course, at \in {"renewing", "waiting"}, SameServer,
         NEW cookies, Again(cookies),
         UNCHANGED <<plan, page, stopped, events, loopVars, ids, resultVars>>,
         jar' \in Identities,
         refreshed' \in BOOLEAN /\ attempt' \in 0..Retries + (IF refreshed' THEN 1 ELSE 0)
  PROVE Course'
<1> USE DEF loopVars, resultVars
<1>0. /\ UNCHANGED <<plan, page, stopped, events, group, offset, pos>>
      /\ UNCHANGED <<ids, shown, confirmed, error, stored, used>>
      /\ phase \in Requests /\ phase \in {"upload", "album"} /\ page
      /\ req[phase].stage = "idle"
  BY Two DEF SameServer, imageVars, albumVars, Course, ClientTypes, Stands, Waits
<1>1. UploadAsked /\ AlbumAsked /\ ~Pending  BY DEF Course, Pending
<1>2. CASE phase = "upload" /\ stopped
  <2>1. /\ at' = "loop" /\ phase' = "album" /\ failure' = failure \cup {"stopped"}
        /\ UNCHANGED req
    BY <1>2 DEF Again, Fail
  <2>2. ClientTypes'  BY <1>0, <2>1, Two DEF Course, ClientTypes, Troubles
  <2>3. Stands' /\ Waits'  BY <1>0, <2>1 DEF Course, Stands, Waits
  <2>4. Looping'  BY <1>0, <2>1 DEF Course, Looping, Group, Chunk, ChunkOf
  <2>5. UploadAsked' /\ AlbumAsked'
    BY <1>0, <1>2, <2>1 DEF UploadAsked, AlbumAsked, Upload, Album, Course
  <2> QED  BY <2>2, <2>3, <2>4, <2>5 DEF Course
<1>3. CASE phase = "upload" /\ ~stopped
  <2>1. Ask("upload", cookies, Batch) /\ UNCHANGED <<phase, failure>>
    BY <1>3 DEF Again
  <2>2. /\ at' = "asking"
        /\ Upload'.stage = "sent" /\ Upload'.kind = "upload" /\ Upload'.input = Batch
        /\ Album' = Album
    BY <1>0, <1>3, <2>1, AskDoes, Two DEF Upload, Album
  <2>3. ClientTypes'
    BY <1>0, <2>1, <2>2, Two DEF Course, ClientTypes, Troubles
  <2>4. Stands' /\ Waits'  BY <1>0, <2>1, <2>2 DEF Course, Stands, Waits
  <2>5. pos <= Len(Chunk)  BY <1>0, <1>3 DEF Course, Looping
  <2>6. Looping'  BY <1>0, <2>1, <2>2, <2>5 DEF Course, Looping, Group, Chunk, ChunkOf
  <2>7. UploadAsked'
    <3>1. /\ Base + Len(Batch) <= Len(Group(group))
          /\ \A k \in 1..Len(Batch) : Batch[k] = Group(group)[Base + k]
      BY <2>5, BatchIs DEF Course, ClientTypes, Looping
    <3>2. Base' = Base /\ Group(group)' = Group(group) /\ Batch' = Batch
      BY <1>0 DEF Base, Group, Batch, Chunk, ChunkOf
    <3>3. Pending' /\ page' = page  BY <1>0, <1>3, <2>1, <2>2 DEF Pending
    <3> QED  BY <1>0, <2>2, <3>1, <3>2, <3>3 DEF UploadAsked
  <2>8. AlbumAsked'  BY <1>1, <1>3, <2>1, <2>2 DEF AlbumAsked
  <2> QED  BY <2>3, <2>4, <2>6, <2>7, <2>8 DEF Course
<1>4. CASE phase = "album"
  <2>1. Ask("create", cookies, SetToSeq(ids)) /\ UNCHANGED <<phase, failure>>
    BY <1>4 DEF Again
  <2>2. /\ at' = "asking" /\ Upload' = Upload
        /\ Album'.stage = "sent" /\ Album'.kind = "create" /\ Album'.input = SetToSeq(ids)
    BY <1>0, <1>4, <2>1, AskDoes, Two DEF Upload, Album
  <2>3. ClientTypes'
    BY <1>0, <2>1, <2>2, Two DEF Course, ClientTypes, Troubles
  <2>4. Stands' /\ Waits'  BY <1>0, <1>4, <2>1, <2>2 DEF Course, Stands, Waits
  <2>5. Looping'  BY <1>0, <1>4, <2>1, <2>2 DEF Course, Looping, Group, Chunk, ChunkOf
  <2>6. UploadAsked'
    <3>1. ~Pending' /\ failure \subseteq failure'  BY <1>4, <2>1 DEF Pending
    <3> QED  BY <1>0, <1>1, <2>2, <3>1, UploadStays
  <2>7. AlbumAsked'  BY <1>0, <2>2, IdsTyped DEF AlbumAsked
  <2> QED  BY <2>3, <2>4, <2>5, <2>6, <2>7 DEF Course
<1> QED  BY <1>0, <1>2, <1>3, <1>4

LEMMA CourseRenewedWaited ==
  ASSUME IInv, Course, Renewed \/ Waited
  PROVE Course'
<1>0. /\ Retries \in Nat /\ Me \in Identities /\ jar \in Identities
      /\ attempt \in 0..Retries + (IF refreshed THEN 1 ELSE 0) /\ refreshed \in BOOLEAN
  BY ImportsAssumption DEF Course, ClientTypes, Identities, Owners
<1>1. CASE Renewed
  <2>1. /\ at = "renewing" /\ SameServer /\ Again(jar')
        /\ UNCHANGED <<plan, page, stopped, events, loopVars, ids, resultVars>>
        /\ jar' \in Identities /\ attempt' = attempt + 1
    BY <1>0, <1>1 DEF Renewed
  <2>2. refreshed' = TRUE /\ ~refreshed  BY <1>1, Zenon DEF Renewed, Course, Stands
  <2>3. attempt \in 0..Retries  BY <1>0, <2>2
  <2>4. refreshed' \in BOOLEAN  BY <2>2, Zenon
  <2>5. attempt' \in 0..Retries + (IF refreshed' THEN 1 ELSE 0)  BY <1>0, <2>1, <2>2, <2>3
  <2> QED  BY <2>1, <2>4, <2>5, CourseAgain
<1>2. CASE Waited
  <2>1. /\ at = "waiting" /\ SameServer /\ Again(jar)
        /\ UNCHANGED <<plan, page, stopped, events, loopVars, ids, resultVars>>
        /\ jar' \in Identities /\ attempt' = attempt + 1
    BY <1>0, <1>2 DEF Waited, browserVars
  <2>2. refreshed' = refreshed  BY <1>2, Zenon DEF Waited
  <2>3. attempt < Retries  BY <2>1 DEF Course, Stands
  <2>4. refreshed' \in BOOLEAN  BY <1>0, <2>2, Zenon
  <2>5. attempt' \in 0..Retries + (IF refreshed' THEN 1 ELSE 0)  BY <1>0, <2>1, <2>2, <2>3
  <2> QED  BY <2>1, <2>4, <2>5, CourseAgain
<1> QED  BY <1>1, <1>2

LEMMA CourseFails ==
  ASSUME IInv, Course, NotRenewed \/ Cut
  PROVE Course'
<1> USE DEF browserVars, loopVars, requestVars, resultVars
<1>0. /\ UNCHANGED <<plan, page, jar, stopped, events, group, offset, pos, attempt, refreshed>>
      /\ UNCHANGED <<ids, shown, confirmed, error, stored, used>>
      /\ phase \in Requests /\ phase \in {"upload", "album"} /\ page
  BY Two DEF NotRenewed, Cut, SameServer, imageVars, albumVars, Course, ClientTypes, Stands
<1>1. PICK cause \in {"answer", "network"} :
        /\ Fail(cause)
        /\ \/ cause = "network"
           \/ at = "renewing" /\ UNCHANGED req
        /\ \/ UNCHANGED req
           \/ Receive
  BY DEF NotRenewed, Cut
<1>2. /\ failure' = failure \cup {cause}
      /\ \/ phase = "upload" /\ phase' = "album" /\ at' = "loop"
         \/ phase = "album" /\ phase' = "album" /\ at' = "ended"
  BY <1>0, <1>1 DEF Fail
<1>3. ClientTypes'  BY <1>0, <1>2, Two DEF Course, ClientTypes, Troubles
<1>4. at # "done"  BY DEF NotRenewed, Cut
<1>5. Stands'  BY <1>0, <1>2, <1>4 DEF Course, Stands
<1>6. Looping'  BY <1>0, <1>2 DEF Course, Looping, Group, Chunk, ChunkOf
<1>7. Waits'  BY <1>2 DEF Waits
<1>8. \A p \in Requests : req'[p] = req[p] \/ req'[p].stage = "idle"
  BY <1>0, <1>1, ReceiveDoes
<1>9. AlbumAsked'
  <2>1. Album' = Album \/ Album'.stage = "idle"  BY <1>8, Two DEF Album
  <2> QED  BY <1>2, <2>1 DEF Course, AlbumAsked
<1>10. UploadAsked'
  <2> SUFFICES ASSUME Upload'.stage # "idle" PROVE UploadAsked'  BY DEF UploadAsked
  <2>1. Upload' = Upload  BY <1>8, Two DEF Upload
  <2>2. Base' = Base /\ Group(group)' = Group(group)  BY <1>0 DEF Base, Group
  <2>3. "network" \in Troubles'
    <3>1. CASE cause = "network"  BY <1>2, <3>1 DEF Troubles
    <3>2. CASE at = "renewing"
      <4>1. phase = "album"
        <5>1. req[phase].stage = "idle"  BY <3>2 DEF Course, Waits
        <5> QED  BY <1>0, <2>1, <5>1 DEF Upload
      <4>2. "network" \in Troubles  BY <2>1, <4>1 DEF Course, UploadAsked, Pending
      <4> QED  BY <1>0, <1>2, <4>2 DEF Troubles
    <3> QED  BY <1>1, <3>1, <3>2
  <2>4. ~Pending'  BY <1>2 DEF Pending
  <2> QED  BY <1>0, <2>1, <2>2, <2>3, <2>4 DEF Course, UploadAsked
<1> QED  BY <1>3, <1>5, <1>6, <1>7, <1>9, <1>10 DEF Course

LEMMA CourseApi ==
  ASSUME AlbumsAssumption, IInv, Answers, Course, ApiSend \/ ApiTake \/ ApiCut
  PROVE Course'
<1> USE DEF browserVars, loopVars, requestVars
<1>0. /\ UNCHANGED <<plan, page, jar, stopped, events, group, offset, pos, attempt, refreshed>>
      /\ UNCHANGED <<phase, ids, failure, stored, used, edited, members>>
      /\ ~page /\ phase = "upload" /\ group = 1 /\ offset = 0 /\ pos = 1 /\ ids = {}
      /\ at \in {"loop", "asking"} /\ error = {} /\ shown = {} /\ confirmed = {}
  BY DEF ApiSend, ApiTake, ApiCut, SameServer, imageVars, albumVars, Course, Stands, HasResponse
<1>1. Base = 0 /\ Base' = Base /\ Group(group)' = Group(group)  BY <1>0 DEF Base, Group
<1>2. CASE ApiSend
  <2>1. /\ at' = "asking" /\ Upload'.stage = "sent" /\ Upload'.kind = "auto"
        /\ Upload'.input = plan[1].files /\ Album' = Album
    BY <1>0, <1>2, AskDoes, Two DEF ApiSend, Upload, Album
  <2>2. UNCHANGED <<shown, confirmed, error>>  BY <1>2 DEF ApiSend, resultVars
  <2>3. ClientTypes'  BY <1>0, <2>1, <2>2 DEF Course, ClientTypes, Troubles
  <2>4. Stands' /\ Waits'  BY <1>0, <2>1, <2>2 DEF Course, Stands, Waits
  <2>5. Looping'  BY <1>0, <2>1 DEF Course, Looping, Group, Chunk, ChunkOf
  <2>6. UploadAsked'
    <3>1. Len(plan[1].files) \in Nat  BY <1>0, GroupIs DEF Course, ClientTypes
    <3>2. Pending'  BY <1>0, <2>1 DEF Pending
    <3>3. /\ Base + Len(plan[1].files) <= Len(Group(group))
          /\ \A k \in 1..Len(plan[1].files) : plan[1].files[k] = Group(group)[Base + k]
      BY <1>0, <1>1, <3>1 DEF Group
    <3> QED  BY <1>0, <1>1, <2>1, <3>2, <3>3 DEF UploadAsked
  <2>7. AlbumAsked'  BY <1>0, <2>1 DEF Course, AlbumAsked
  <2> QED  BY <2>3, <2>4, <2>5, <2>6, <2>7 DEF Course
<1>3. CASE ApiTake
  <2>0. /\ at' = "done" /\ Receive /\ Upload.stage = "answered"
        /\ shown' = ElementsOf(Upload.images)
        /\ confirmed' = IF Upload.album = NoAlbum THEN {}
                        ELSE {<<Upload.album, ElementsOf(Upload.images)>>}
        /\ error' \subseteq {"answer"}
    BY <1>0, <1>3 DEF ApiTake, HasResponse, Response, Upload
  <2>1. Upload'.stage = "idle" /\ Album' = Album  BY <1>0, <2>0, Two, ReceiveDoes DEF Upload, Album
  <2>2. ElementsOf(Upload.images) \subseteq stored
    BY <1>0, <2>0, Two, ImagesStored DEF Course, UploadAsked, Upload
  <2>3. Upload.album # NoAlbum => Upload.album \in used
    BY <2>0, Two DEF Answers, Told, Upload
  <2>4. \A c \in confirmed' : c[1] \in used' /\ c[2] \subseteq shown'
    BY <1>0, <2>0, <2>3
  <2>5. ClientTypes'
    BY <1>0, <2>0, <2>2, <2>4 DEF Course, ClientTypes, Troubles
  <2>6. Stands' /\ Waits'  BY <1>0, <2>0 DEF Course, Stands, Waits
  <2>7. Looping'  BY <1>0, <2>0 DEF Course, Looping, Group, Chunk, ChunkOf
  <2>8. UploadAsked' /\ AlbumAsked'
    BY <1>0, <2>0, <2>1 DEF Course, UploadAsked, AlbumAsked
  <2> QED  BY <2>5, <2>6, <2>7, <2>8 DEF Course
<1>4. CASE ApiCut
  <2>0. /\ at' = "done" /\ error' = {"network"} /\ UNCHANGED <<shown, confirmed, req>>
    BY <1>4 DEF ApiCut
  <2>1. ClientTypes'  BY <1>0, <2>0 DEF Course, ClientTypes, Troubles
  <2>2. Stands' /\ Waits'  BY <1>0, <2>0 DEF Course, Stands, Waits
  <2>3. Looping'  BY <1>0, <2>0 DEF Course, Looping, Group, Chunk, ChunkOf
  <2>4. "network" \in Troubles' /\ ~Pending'  BY <2>0 DEF Troubles, Pending
  <2>5. UploadAsked'  BY <1>0, <1>1, <2>0, <2>4 DEF Course, UploadAsked, Upload
  <2>6. AlbumAsked'  BY <1>0, <2>0 DEF Course, AlbumAsked, Album
  <2> QED  BY <2>1, <2>2, <2>3, <2>5, <2>6 DEF Course
<1> QED  BY <1>2, <1>3, <1>4

LEMMA CourseSame ==
  ASSUME Course, UNCHANGED vars
  PROVE Course'
<1> USE DEF vars, albumsVars, imageVars, albumVars, browserVars, clientVars, loopVars,
            requestVars, resultVars, Course
<1>1. ClientTypes'  BY DEF ClientTypes, Troubles
<1>2. Stands' /\ Waits'  BY DEF Stands, Waits
<1>3. Looping'  BY DEF Looping, Group, Chunk, ChunkOf
<1>4. UploadAsked'
  BY DEF UploadAsked, Upload, Base, Group, Pending, Troubles, Batch, Chunk, ChunkOf
<1>5. AlbumAsked'  BY DEF AlbumAsked, Album
<1> QED  BY <1>1, <1>2, <1>3, <1>4, <1>5

LEMMA CourseStep ==
  ASSUME AlbumsAssumption, IInv, Answers, Course, [Next]_vars
  PROVE Course'
<1>1. CASE ClientStep
  BY <1>1, CourseNextBatch, CourseNextAlbum, CourseEndChunk, CourseTakeImages, CourseTakeAlbum,
     CourseTakeRefusal, CourseRenewedWaited, CourseFails, CourseApi DEF ClientStep
<1>2. CASE Others
  <2>1. Next  BY <1>2 DEF Others, Next
  <2>2. Grow  BY <2>1, StepOfAlbums, StepGrows
  <2> QED  BY <1>2, <2>2, CourseOthers
<1>3. CASE UNCHANGED vars
  BY <1>3, CourseSame
<1> QED  BY <1>1, <1>2, <1>3 DEF Next, Others

LEMMA InitCourse ==
  ASSUME Init
  PROVE Course
<1> USE DEF Init
<1>1. plan \in Plans /\ Len(plan) \in Nat \ {0}
  <2>1. plan \in Seq([titled : BOOLEAN, files : Seq(Files) \ {<<>>}]) \ {<<>>}
    BY ImportsAssumption
  <2> QED  BY <2>1, EmptySeq
<1>2. group \in 1..Len(plan) /\ offset < Len(Group(group))
  BY <1>1, GroupIs DEF Group
<1>3. ClientTypes
  <2>1. Me \in Identities /\ Retries \in Nat /\ MaxEvents \in Nat
    BY ImportsAssumption DEF Identities, Owners
  <2>2. IsFiniteSet(ids)  BY FS_EmptySet
  <2>3. attempt \in 0..Retries + (IF refreshed THEN 1 ELSE 0) /\ events \in 0..MaxEvents
    BY <2>1
  <2>4. page \in BOOLEAN /\ stopped \in BOOLEAN /\ refreshed \in BOOLEAN  BY Zenon
  <2>5. /\ jar \in Identities /\ offset \in Nat /\ pos \in Nat \ {0} /\ phase \in Requests
        /\ at \in {"loop", "asking", "renewing", "waiting", "ended", "done"}
        /\ ids \subseteq shown /\ shown \subseteq stored
        /\ Troubles \subseteq {"answer", "album", "stopped", "network"}
        /\ \A c \in confirmed : c[1] \in used /\ c[2] \subseteq shown
    BY <2>1, Two DEF Troubles
  <2> QED  BY <1>1, <1>2, <2>2, <2>3, <2>4, <2>5 DEF ClientTypes
<1>4. Stands /\ Waits  BY DEF Stands, Waits
<1>5. Looping
  <2>1. Chunk = Piece(Group(group), offset)  BY DEF Chunk, ChunkOf, Piece, Group
  <2>2. Group(group) \in Seq(Files)  BY <1>1, <1>2, GroupIs DEF Group
  <2>3. Piece(Group(group), offset) \in Seq(Files)  BY <1>2, <2>2, PieceIs
  <2>4. Len(Chunk) \in Nat  BY <2>1, <2>3
  <2>5. offset = 0 * AlbumMax /\ 0 \in Nat  BY ImportsAssumption
  <2> QED  BY <1>2, <2>4, <2>5 DEF Looping
<1>6. UploadAsked /\ AlbumAsked
  BY Two DEF UploadAsked, AlbumAsked, Upload, Album, InitAlbums, Idle
<1> QED  BY <1>3, <1>4, <1>5, <1>6 DEF Course

LEMMA KnownStep ==
  ASSUME AlbumsAssumption, IInv, Answers, Course, [Next]_vars
  PROVE IInv' /\ Answers' /\ Course' /\ Grow
BY StepOfAlbums, StepIInv, StepAnswers, StepGrows, CourseStep

LEMMA Known == Spec => [](IInv /\ Answers /\ Course)
<1>1. Init => IInv /\ Answers /\ Course
  BY InitIInv, InitAnswers, InitCourse, AlbumsAssumption DEF Init
<1>2. IInv /\ Answers /\ Course /\ [Next]_vars => (IInv /\ Answers /\ Course)'
  BY KnownStep, AlbumsAssumption
<1> QED  BY <1>1, <1>2, PTL DEF Spec

-----------------------------------------------------------------------------
(* What was shown as an album *)

Whole == \A c \in confirmed : c[1] \in edited \/ members[c[1]] = c[2]

LEMMA WholeStep ==
  ASSUME AlbumsAssumption, IInv, Answers, Course, Whole, [Next]_vars
  PROVE Whole'
<1>0. Grow  BY KnownStep
<1>1. ASSUME NEW c \in confirmed PROVE c[1] \in edited' \/ members'[c[1]] = c[2]
  <2>1. c[1] \in used  BY DEF Course, ClientTypes
  <2> QED  BY <1>0, <2>1 DEF Whole, Grow
<1>2. CASE TakeAlbum
  <2>1. UNCHANGED <<edited, members>> /\ phase = "album" /\ HasResponse
    BY <1>2 DEF TakeAlbum, SameServer, albumVars
  <2>2. \/ UNCHANGED confirmed
        \/ Response.status = "ok" /\ confirmed' = confirmed \cup {<<Response.album, ids>>}
    BY <1>2 DEF TakeAlbum
  <2>3. Response.status = "ok" => (Response.album \in edited \/ members[Response.album] = ids)
    BY <2>1, AlbumAnswered
  <2> QED  BY <1>1, <2>1, <2>2, <2>3 DEF Whole
<1>3. CASE ApiTake
  <2>1. /\ UNCHANGED <<edited, members>> /\ phase = "upload" /\ Upload.stage = "answered"
        /\ confirmed' = IF Upload.album = NoAlbum THEN {}
                        ELSE {<<Upload.album, ElementsOf(Upload.images)>>}
    BY <1>3 DEF ApiTake, SameServer, albumVars, Course, Stands, HasResponse, Response, Upload
  <2>2. Told(Upload, used, edited, members)  BY Two DEF Answers, Upload
  <2> QED  BY <2>1, <2>2 DEF Whole, Told
<1>4. CASE UNCHANGED confirmed
  BY <1>1, <1>4 DEF Whole
<1>5. CASE NextBatch \/ NextAlbum \/ EndChunk \/ TakeImages \/ TakeRefusal \/ Renewed
           \/ NotRenewed \/ Waited \/ Cut \/ ApiSend \/ ApiCut
  BY <1>4, <1>5
  DEF NextBatch, NextAlbum, EndChunk, TakeImages, TakeRefusal, Renewed, NotRenewed, Waited, Cut,
      ApiSend, ApiCut, resultVars
<1>6. CASE Others
  BY <1>4, <1>6, OthersMove DEF clientVars, resultVars
<1>7. CASE UNCHANGED vars
  BY <1>4, <1>7 DEF vars, clientVars, resultVars
<1> QED  BY <1>2, <1>3, <1>5, <1>6, <1>7 DEF Next, ClientStep, Others

-----------------------------------------------------------------------------
(* What became of the images *)

\* A row is made for the next file of the upload, and the answer will name it if
\* its commit was confirmed.
RowMade(i) ==
  /\ i \in Images \ stored /\ stored' = stored \cup {i}
  /\ Upload.stage = "storing" /\ Len(Upload.images) < Len(Upload.input)
  /\ i[1] = Upload.input[Len(Upload.images) + 1]
  /\ \/ Upload'.stage = "storing" /\ Upload'.images = Append(Upload.images, i)
     \/ /\ Upload'.stage = "answered" /\ Upload'.status = "failed" /\ i \in uncertain'
        /\ Upload'.images = Upload.images

LEMMA RowsMade ==
  ASSUME IInv, Answers, Course, [Next]_vars, stored' # stored
  PROVE Others /\ \E i : RowMade(i)
<1>1. ~ClientStep
  BY DEF ClientStep, NextBatch, NextAlbum, EndChunk, TakeImages, TakeAlbum, TakeRefusal, Renewed,
         NotRenewed, Waited, Cut, ApiSend, ApiTake, ApiCut, SameServer, imageVars
<1>2. ~UNCHANGED vars  BY DEF vars, albumsVars, imageVars
<1>3. ~WritesEdit /\ ~Unheard /\ ~Expire /\ ~SwitchAccount /\ ~Stop
  BY DEF WritesEdit, WriteEdit, Unheard, SameServer, Expire, SwitchAccount, Stop, albumsVars, imageVars
<1>4. ~Interfere
  BY DEF Interfere, DeleteImage, RemoveUser, Edit, ReadDelete, ReadAdd, ReadRemove, WriteEdit, Crash,
         imageVars
<1>5. Serves  BY <1>1, <1>2, <1>3, <1>4 DEF Next
<1>6. PICK q \in Requests : Serve(q)  BY <1>5 DEF Serves
<1>7. StorePart(q) \/ StoreUncertain(q)
  BY <1>6 DEF Serve, Limit, Refuse, Begin, LookUp, FailPart, TooMany, AllStored, CheckImage,
              MakeAlbum, MakeAlbumUnheard, FailAlbum, imageVars
<1>8. req[q].stage = "storing" /\ req[q] \in Requested /\ Given(req[q])
  BY <1>7 DEF StorePart, StoreUncertain, LookedUp, Storing, IInv, Types, Answers
<1>9. q = "upload"
  <2>1. req[q].kind # "create"  BY <1>8 DEF Given
  <2>2. q = "album" => req[q].kind = "create"  BY <1>8 DEF Course, AlbumAsked, Album
  <2> QED  BY <2>1, <2>2, Two
<1>10. CASE StorePart(q)
  <2>1. PICK i \in Fresh(NextPart(q)) :
          InsertRow(q, i) /\ Update(q, [req[q] EXCEPT !.images = Append(@, i), !.fresh = FALSE])
    BY <1>10 DEF StorePart
  <2>2. req'[q] = [req[q] EXCEPT !.images = Append(@, i), !.fresh = FALSE]
    BY <2>1 DEF Update, IInv, Types
  <2>3. req'[q].stage = "storing" /\ req'[q].images = Append(req[q].images, i)
    BY <1>8, <2>2 DEF Requested
  <2>4. i \in Images \ stored /\ i[1] = NextPart(q) /\ stored' = stored \cup {i}
    BY <2>1 DEF Fresh, InsertRow
  <2>5. Len(req[q].images) < Len(req[q].input)  BY <1>10 DEF StorePart, LookedUp, Storing
  <2>6. RowMade(i)  BY <1>8, <1>9, <2>3, <2>4, <2>5 DEF RowMade, Upload, NextPart
  <2> QED  BY <1>5, <2>6 DEF Others
<1>11. CASE StoreUncertain(q)
  <2>1. PICK i \in Fresh(NextPart(q)) : InsertRow(q, i) /\ uncertain' = uncertain \cup {i}
    BY <1>11 DEF StoreUncertain
  <2>2. req'[q] = Answered(req[q], "failed")
    BY <1>11 DEF StoreUncertain, Update, IInv, Types
  <2>3. req'[q].stage = "answered" /\ req'[q].status = "failed" /\ req'[q].images = req[q].images
    BY <1>8, <2>2 DEF Requested, Answered
  <2>4. /\ i \in Images \ stored /\ i[1] = NextPart(q) /\ stored' = stored \cup {i}
        /\ i \in uncertain'
    BY <2>1 DEF Fresh, InsertRow
  <2>5. Len(req[q].images) < Len(req[q].input)  BY <1>11 DEF StoreUncertain, LookedUp, Storing
  <2>6. RowMade(i)  BY <1>8, <1>9, <2>3, <2>4, <2>5 DEF RowMade, Upload, NextPart
  <2> QED  BY <1>5, <2>6 DEF Others
<1> QED  BY <1>7, <1>10, <1>11

\* A step of the client forgets no trouble, and when it ends the upload it has
\* shown the images of the answer or has got into trouble.
LEMMA TroubleStays ==
  ASSUME IInv, Answers, Course, ClientStep
  PROVE /\ UNCHANGED <<stored, uncertain>> /\ shown \subseteq shown'
        /\ Troubles \subseteq Troubles'
        /\ Pending =>
             \/ "network" \in Troubles'
             \/ /\ Upload.stage = "answered" /\ ElementsOf(Upload.images) \subseteq shown'
                /\ Upload.status = "failed" => Troubles' # {}
<1> USE DEF browserVars, loopVars, requestVars, resultVars, SameServer, imageVars, Troubles
<1>1. CASE TakeImages
  <2>1. UNCHANGED <<stored, uncertain, error>> /\ shown' = shown \cup ElementsOf(Upload.images)
    BY <1>1 DEF TakeImages, Response, Upload
  <2>2. failure \subseteq failure'  BY <1>1 DEF TakeImages, Fail
  <2>3. Upload.status = "failed" => failure' # {}
    BY <1>1 DEF TakeImages, Fail, Complete, Response, Upload
  <2>4. Upload.stage = "answered"  BY <1>1 DEF TakeImages, HasResponse, Response, Upload
  <2> QED  BY <2>1, <2>2, <2>3, <2>4
<1>2. CASE Cut
  BY <1>2 DEF Cut, Fail
<1>3. CASE ApiCut
  <2>1. error = {}  BY <1>3 DEF ApiCut, Course, Stands
  <2> QED  BY <1>3, <2>1 DEF ApiCut
<1>4. CASE ApiTake
  <2>1. error = {} /\ shown = {} /\ phase = "upload"
    BY <1>4 DEF ApiTake, HasResponse, Course, Stands
  <2>2. /\ UNCHANGED <<stored, uncertain, failure>> /\ shown' = ElementsOf(Upload.images)
        /\ error' = IF Upload.status = "ok" THEN {} ELSE {"answer"}
        /\ Upload.stage = "answered"
    BY <1>4, <2>1 DEF ApiTake, HasResponse, Response, Upload
  <2> QED  BY <2>1, <2>2
<1>5. CASE TakeRefusal
  <2>1. /\ UNCHANGED <<stored, uncertain, shown, failure, error>>
        /\ req[phase].stage = "answered" /\ (phase = "upload" => req[phase].images = <<>>)
        /\ req[phase].status # "failed"
    BY <1>5 DEF TakeRefusal, HasResponse, Response, Repeats
  <2>2. Pending => ElementsOf(Upload.images) = {}
    BY <2>1 DEF Pending, Upload, ElementsOf
  <2> QED  BY <2>1, <2>2 DEF Pending, Upload
<1>6. CASE EndChunk
  <2>1. error = {} /\ ~Pending  BY <1>6 DEF EndChunk, Course, Stands, Pending
  <2> QED  BY <1>6, <2>1 DEF EndChunk
<1>7. CASE NextBatch \/ NextAlbum \/ ApiSend
  BY <1>7 DEF NextBatch, NextAlbum, ApiSend, Pending
<1>8. CASE TakeAlbum
  BY <1>8 DEF TakeAlbum, Fail, Pending
<1>9. CASE Renewed \/ Waited \/ NotRenewed
  BY <1>9 DEF Renewed, Waited, NotRenewed, Again, Fail, Pending
<1> QED  BY <1>1, <1>2, <1>3, <1>4, <1>5, <1>6, <1>7, <1>8, <1>9 DEF ClientStep

LEMMA AccountedClient ==
  ASSUME IInv, Answers, Course, AllAccounted, ClientStep
  PROVE AllAccounted'
<1> SUFFICES ASSUME NEW i \in stored', i \notin shown' PROVE Accounted(i)'
  BY DEF AllAccounted
<1>0. /\ i \in stored \ shown /\ Troubles \subseteq Troubles' /\ uncertain' = uncertain
      /\ Pending =>
           \/ "network" \in Troubles'
           \/ /\ Upload.stage = "answered" /\ ElementsOf(Upload.images) \subseteq shown'
              /\ Upload.status = "failed" => Troubles' # {}
  BY TroubleStays
<1>1. Accounted(i)  BY <1>0 DEF AllAccounted
<1>2. "network" \in Troubles' \/ (i \in uncertain' /\ Troubles' # {})
  BY <1>0, <1>1 DEF Accounted
<1> QED  BY <1>2 DEF Accounted

LEMMA AccountedOthers ==
  ASSUME IInv, Answers, Course, AllAccounted, Others, Grow
  PROVE AllAccounted'
<1> SUFFICES ASSUME NEW i \in stored', i \notin shown' PROVE Accounted(i)'
  BY DEF AllAccounted
<1>1. /\ UNCHANGED <<phase, at, shown, failure, error>> /\ RequestMoves("upload")
  BY OthersMove, Two DEF clientVars, resultVars
<1>2. Troubles' = Troubles /\ Pending' = Pending  BY <1>1 DEF Troubles, Pending
<1>3. uncertain \subseteq uncertain'  BY DEF Grow
<1>4. CASE i \in stored
  <2>1. Accounted(i)  BY <1>1, <1>4 DEF AllAccounted
  <2>2. CASE "network" \in Troubles  BY <1>2, <2>2 DEF Accounted
  <2>3. CASE Pending /\ Upload.stage = "idle"
    <3>1. Upload'.stage = "idle"  BY <1>1, <2>3 DEF RequestMoves, Upload, Idle
    <3> QED  BY <1>2, <2>3, <3>1 DEF Accounted
  <2>4. CASE Pending /\ i \in ElementsOf(Upload.images)
    <3>1. CASE Upload.stage = "idle"  BY <2>3, <2>4, <3>1
    <3>2. CASE Upload.stage # "idle"
      <4>1. Upload.kind # "create"  BY <3>2 DEF Course, UploadAsked
      <4>2. Upload'.stage = "idle" \/ i \in ElementsOf(Upload'.images)
        BY <1>1, <2>4, <4>1 DEF RequestMoves, Continued, Upload, Idle
      <4> QED  BY <1>2, <2>4, <4>2 DEF Accounted
    <3> QED  BY <3>1, <3>2
  <2>5. CASE /\ i \in uncertain
             /\ Troubles # {} \/ (Pending /\ Upload.stage = "answered" /\ Upload.status = "failed")
    <3>1. i \in uncertain'  BY <1>3, <2>5
    <3>2. CASE Troubles # {}  BY <1>2, <3>1, <3>2 DEF Accounted
    <3>3. CASE Pending /\ Upload.stage = "answered" /\ Upload.status = "failed"
      <4>1. Upload' = Upload \/ Upload'.stage = "idle"
        BY <1>1, <3>3 DEF RequestMoves, Upload, Idle
      <4> QED  BY <1>2, <3>1, <3>3, <4>1 DEF Accounted
    <3> QED  BY <2>5, <3>2, <3>3
  <2> QED  BY <2>1, <2>2, <2>3, <2>4, <2>5 DEF Accounted
<1>5. CASE i \notin stored
  <2>0. [Next]_vars  BY DEF Others, Next
  <2>1. PICK j : RowMade(j)  BY <1>5, <2>0, RowsMade
  <2>2. RowMade(i)  BY <1>5, <2>1 DEF RowMade
  <2>3. CASE ~Pending
    <3>1. "network" \in Troubles  BY <2>2, <2>3 DEF RowMade, Course, UploadAsked
    <3> QED  BY <1>2, <3>1 DEF Accounted
  <2>4. CASE Pending
    <3>1. CASE Upload'.stage = "storing" /\ Upload'.images = Append(Upload.images, i)
      <4>1. Upload.images \in Seq(Images)  BY Two DEF Upload, IInv, Types, Requested
      <4>2. i \in ElementsOf(Upload'.images)
        <5>1. Upload'.images[Len(Upload.images) + 1] = i /\ Len(Upload.images) + 1 \in DOMAIN Upload'.images
          BY <2>2, <3>1, <4>1 DEF RowMade
        <5> QED  BY <5>1 DEF ElementsOf
      <4> QED  BY <1>2, <2>4, <4>2 DEF Accounted
    <3>2. CASE Upload'.stage = "answered" /\ Upload'.status = "failed" /\ i \in uncertain'
      BY <1>2, <2>4, <3>2 DEF Accounted
    <3> QED  BY <2>2, <3>1, <3>2 DEF RowMade
  <2> QED  BY <2>3, <2>4
<1> QED  BY <1>4, <1>5

LEMMA AccountedStep ==
  ASSUME AlbumsAssumption, IInv, Answers, Course, AllAccounted, [Next]_vars
  PROVE AllAccounted'
<1>1. CASE ClientStep  BY <1>1, AccountedClient
<1>2. CASE Others  BY <1>2, KnownStep, AccountedOthers
<1>3. CASE UNCHANGED vars
  BY <1>3 DEF vars, albumsVars, imageVars, clientVars, resultVars, AllAccounted, Accounted, Troubles,
              Pending, Upload
<1> QED  BY <1>1, <1>2, <1>3 DEF Next, Others

-----------------------------------------------------------------------------
(* What an import that nothing disturbs has done *)

Undisturbed == page /\ ~stopped /\ Troubles = {}

\* The first n files were shown, as some of the images.
Seen(images, files, n) == \A k \in 1..n : \E i \in images : i[1] = files[k]

FilesOf(images) == {i[1] : i \in images}
Made(albums, files) == \E c \in albums : FilesOf(c[2]) = Range(files)
Deserves(g) == ~(~g.titled /\ Len(g.files) = 1)
MadeBefore(albums, g, o) ==
  Deserves(g) => \A n \in Nat : n * AlbumMax < o => Made(albums, Piece(g.files, n * AlbumMax))

GroupDone(images, albums, g) ==
  Seen(images, g.files, Len(g.files)) /\ MadeBefore(albums, g, Len(g.files))

\* The groups before g are done, and of g the chunks before o and the next n files.
Progress(images, albums, p, g, o, n) ==
  /\ \A h \in 1..(g - 1) : GroupDone(images, albums, p[h])
  /\ Seen(images, p[g].files, o + n)
  /\ MadeBefore(albums, p[g], o)

ProgressMade ==
  Undisturbed =>
    IF at = "done" THEN \A h \in 1..Len(plan) : GroupDone(shown, confirmed, plan[h])
    ELSE /\ Progress(shown, confirmed, plan, group, offset, pos - 1)
         /\ FilesOf(ids) = {Chunk[k] : k \in 1..(pos - 1)}
         /\ phase = "album" => pos = Len(Chunk) + 1
         /\ (at = "ended" /\ Deserves(plan[group])) => Made(confirmed, Chunk)

LEMMA ProgressGrows ==
  ASSUME NEW images, NEW albums, NEW images2, NEW albums2,
         images \subseteq images2, albums \subseteq albums2,
         NEW p, NEW g, NEW o, NEW n, Progress(images, albums, p, g, o, n)
  PROVE Progress(images2, albums2, p, g, o, n)
<1>1. ASSUME NEW files, NEW m, Seen(images, files, m) PROVE Seen(images2, files, m)
  BY <1>1 DEF Seen
<1>2. ASSUME NEW h, NEW m, MadeBefore(albums, h, m) PROVE MadeBefore(albums2, h, m)
  BY <1>2 DEF MadeBefore, Made
<1> QED  BY <1>1, <1>2 DEF Progress, GroupDone

\* What is shown stays; a step within a chunk that adds nothing keeps the progress.
LEMMA ProgressStays ==
  ASSUME ProgressMade, at # "done",
         UNCHANGED <<plan, page, group, offset, pos, ids, shown, confirmed, phase>>,
         stopped => stopped', Troubles \subseteq Troubles', at' \notin {"done", "ended"}
  PROVE ProgressMade'
<1>1. Undisturbed' => Undisturbed  BY DEF Undisturbed
<1>2. Chunk' = Chunk  BY DEF Chunk, ChunkOf
<1> QED  BY <1>1, <1>2 DEF ProgressMade

\* The chunk under way and the group it is of.
LEMMA ChunkIs ==
  ASSUME Course
  PROVE /\ Chunk = Piece(plan[group].files, offset) /\ Chunk \in Seq(Files)
        /\ plan[group].files \in Seq(Files) /\ Len(plan[group].files) \in Nat \ {0}
        /\ offset + Len(Chunk) <= Len(plan[group].files)
        /\ Len(Chunk) = IF offset + AlbumMax <= Len(plan[group].files) THEN AlbumMax
                        ELSE Len(plan[group].files) - offset
        /\ Len(Chunk) \in Nat \ {0}
<1>1. plan[group].files \in Seq(Files) /\ Len(plan[group].files) \in Nat \ {0}
  BY GroupIs DEF Course, ClientTypes
<1>2. offset \in Nat /\ offset < Len(plan[group].files)
  BY DEF Course, ClientTypes, Looping, Group
<1>3. Chunk = Piece(plan[group].files, offset)  BY DEF Chunk, ChunkOf, Piece
<1>4. AlbumMax \in Nat \ {0}  BY ImportsAssumption
<1>5. /\ Chunk \in Seq(Files)
      /\ Len(Chunk) = IF offset + AlbumMax <= Len(plan[group].files) THEN AlbumMax
                      ELSE Len(plan[group].files) - offset
  BY <1>1, <1>2, <1>3, PieceIs
<1> QED  BY <1>1, <1>2, <1>3, <1>4, <1>5

LEMMA ProgressNextBatch ==
  ASSUME Course, ProgressMade, NextBatch
  PROVE ProgressMade'
<1> USE DEF browserVars, loopVars, requestVars, resultVars
<1>0. /\ phase = "upload" /\ at = "loop"
      /\ UNCHANGED <<plan, page, stopped, group, offset, pos, ids, failure, shown, confirmed, error>>
  BY DEF NextBatch
<1>1. CASE stopped \/ pos > Len(Chunk)
  <2>1. phase' = "album" /\ at' = at  BY <1>1 DEF NextBatch
  <2>2. Undisturbed' => Undisturbed  BY <1>0 DEF Undisturbed, Troubles
  <2>3. Undisturbed => pos = Len(Chunk) + 1
    BY <1>1, ChunkIs DEF Undisturbed, Course, ClientTypes, Looping
  <2>4. Chunk' = Chunk  BY <1>0 DEF Chunk, ChunkOf
  <2> QED  BY <1>0, <2>1, <2>2, <2>3, <2>4 DEF ProgressMade
<1>2. CASE ~(stopped \/ pos > Len(Chunk))
  <2>1. at' = "asking" /\ phase' = phase  BY <1>2 DEF NextBatch, Ask
  <2> QED  BY <1>0, <2>1, ProgressStays DEF Troubles
<1> QED  BY <1>1, <1>2

LEMMA ProgressNextAlbum ==
  ASSUME Course, ProgressMade, NextAlbum
  PROVE ProgressMade'
<1> USE DEF browserVars, loopVars, requestVars, resultVars
<1>0. /\ phase = "album" /\ at = "loop"
      /\ UNCHANGED <<plan, page, stopped, group, offset, pos, ids, failure, shown, confirmed, error>>
      /\ UNCHANGED phase
  BY DEF NextAlbum
<1>1. CASE ids = {} \/ Albumless(group)
  <2>1. at' = "ended"  BY <1>1 DEF NextAlbum
  <2>2. Undisturbed' => Undisturbed  BY <1>0 DEF Undisturbed, Troubles
  <2>3. Undisturbed => ids # {}
    <3>1. SUFFICES ASSUME Undisturbed PROVE ids # {}  OBVIOUS
    <3>2. pos = Len(Chunk) + 1 /\ FilesOf(ids) = {Chunk[k] : k \in 1..(pos - 1)}
      BY <1>0, <3>1 DEF ProgressMade
    <3>3. Chunk[1] \in FilesOf(ids)  BY <3>2, ChunkIs
    <3> QED  BY <3>3 DEF FilesOf
  <2>4. Undisturbed => ~Deserves(plan[group])  BY <1>1, <2>3 DEF Albumless, Deserves
  <2>5. Chunk' = Chunk  BY <1>0 DEF Chunk, ChunkOf
  <2> QED  BY <1>0, <2>1, <2>2, <2>4, <2>5 DEF ProgressMade
<1>2. CASE ~(ids = {} \/ Albumless(group))
  <2>1. at' = "asking"  BY <1>2 DEF NextAlbum, Ask
  <2> QED  BY <1>0, <2>1, ProgressStays DEF Troubles
<1> QED  BY <1>1, <1>2

\* A complete answer: the images are of the files of the batch, one for each.
LEMMA ProgressTakeImages ==
  ASSUME IInv, Answers, Course, ProgressMade, TakeImages
  PROVE ProgressMade'
<1> SUFFICES ASSUME Undisturbed' PROVE ProgressMade'  BY DEF ProgressMade
<1> USE DEF browserVars
<1> DEFINE new == ElementsOf(Upload.images)
<1>0. /\ page /\ phase = "upload" /\ at = "asking" /\ Upload.stage = "answered"
      /\ UNCHANGED <<plan, page, stopped, group, offset, confirmed, error>>
      /\ ids' = ids \cup new /\ shown' = shown \cup new
  BY DEF TakeImages, HasResponse, Response, Upload
<1>1. Complete(Upload, Batch) /\ at' = "loop" /\ pos' = pos + Len(Batch) /\ UNCHANGED <<phase, failure>>
  <2>1. failure' = {}  BY DEF Undisturbed, Troubles
  <2> QED  BY <1>0, <2>1 DEF TakeImages, Fail, Response, Upload
<1>2. Progress(shown, confirmed, plan, group, offset, pos - 1)
      /\ FilesOf(ids) = {Chunk[k] : k \in 1..(pos - 1)}
  <2>1. Undisturbed  BY <1>0, <1>1 DEF Undisturbed, Troubles
  <2> QED  BY <1>0, <2>1 DEF ProgressMade
<1>3. pos \in Nat \ {0} /\ offset \in Nat /\ pos <= Len(Chunk)
  BY <1>0 DEF Course, ClientTypes, Looping
<1>4. /\ Len(Batch) \in Nat \ {0} /\ pos + Len(Batch) <= Len(Chunk) + 1
      /\ \A k \in 1..Len(Batch) : Batch[k] = Chunk[pos + k - 1]
      /\ \A k \in 1..Len(Batch) : Batch[k] = plan[group].files[offset + pos - 1 + k]
  BY <1>3, BatchIs DEF Course, ClientTypes, Looping, Base, Group
<1>5. /\ Upload.images \in Seq(Images) /\ Len(Upload.images) = Len(Batch)
      /\ \A k \in 1..Len(Batch) : Upload.images[k][1] = Batch[k]
  <2>1. Upload.input = Batch /\ Upload.kind # "create"
    BY <1>0 DEF Course, UploadAsked, Pending
  <2>2. Filled(Upload, stored) /\ Upload.images \in Seq(Images)
    BY Two DEF Answers, IInv, Types, Requested, Upload
  <2>3. Len(Upload.images) = Len(Batch)  BY <1>1 DEF Complete
  <2> QED  BY <2>1, <2>2, <2>3 DEF Filled
<1>6. new = {Upload.images[k] : k \in 1..Len(Batch)}  BY <1>5 DEF ElementsOf
<1> HIDE DEF new
<1>7. FilesOf(new) = {Batch[k] : k \in 1..Len(Batch)}  BY <1>5, <1>6 DEF FilesOf
<1>8. FilesOf(ids') = {Chunk[k] : k \in 1..(pos' - 1)}
  <2>1. FilesOf(ids') = FilesOf(ids) \cup FilesOf(new)  BY <1>0 DEF FilesOf
  <2>2. FilesOf(ids') \subseteq {Chunk[k] : k \in 1..(pos' - 1)}
    <3>1. ASSUME NEW k \in 1..Len(Batch)
          PROVE pos + k - 1 \in 1..(pos' - 1) /\ Batch[k] = Chunk[pos + k - 1]
      BY <1>1, <1>3, <1>4
    <3>2. 1..(pos - 1) \subseteq 1..(pos' - 1)  BY <1>1, <1>3, <1>4
    <3> QED  BY <1>2, <1>7, <2>1, <3>1, <3>2
  <2>3. ASSUME NEW k \in 1..(pos' - 1) PROVE Chunk[k] \in FilesOf(ids')
    <3>1. CASE k \in 1..(pos - 1)  BY <1>2, <2>1, <3>1
    <3>2. CASE k \notin 1..(pos - 1)
      <4>1. k - pos + 1 \in 1..Len(Batch) /\ pos + (k - pos + 1) - 1 = k
        BY <1>1, <1>3, <1>4, <3>2
      <4>2. Batch[k - pos + 1] = Chunk[k]  BY <1>4, <4>1
      <4> QED  BY <1>7, <2>1, <4>1, <4>2
    <3> QED  BY <3>1, <3>2
  <2> QED  BY <2>2, <2>3
<1>9. Progress(shown', confirmed', plan, group, offset, pos' - 1)
  <2>1. Progress(shown', confirmed', plan, group, offset, pos - 1)
    BY <1>0, <1>2, ProgressGrows
  <2>2. Seen(shown', plan[group].files, offset + (pos' - 1))
    <3>1. SUFFICES ASSUME NEW k \in 1..(offset + (pos' - 1))
                   PROVE \E i \in shown' : i[1] = plan[group].files[k]
      BY DEF Seen
    <3>2. CASE k \in 1..(offset + (pos - 1))  BY <2>1, <3>2 DEF Progress, Seen
    <3>3. CASE k \notin 1..(offset + (pos - 1))
      <4> DEFINE j == k - (offset + pos - 1)
      <4>1. j \in 1..Len(Batch) /\ offset + pos - 1 + j = k  BY <1>1, <1>3, <1>4, <3>3
      <4> HIDE DEF j
      <4>2. Upload.images[j][1] = plan[group].files[k]  BY <1>4, <1>5, <4>1
      <4>3. Upload.images[j] \in shown'  BY <1>0, <1>6, <4>1
      <4> QED  BY <4>2, <4>3
    <3> QED  BY <3>2, <3>3
  <2> QED  BY <2>1, <2>2 DEF Progress
<1>10. Chunk' = Chunk  BY <1>0 DEF Chunk, ChunkOf
<1> QED  BY <1>0, <1>1, <1>8, <1>9, <1>10 DEF ProgressMade

LEMMA ProgressTakeAlbum ==
  ASSUME Course, ProgressMade, TakeAlbum
  PROVE ProgressMade'
<1> SUFFICES ASSUME Undisturbed' PROVE ProgressMade'  BY DEF ProgressMade
<1> USE DEF browserVars, loopVars
<1>0. /\ phase = "album" /\ at = "asking"
      /\ UNCHANGED <<plan, page, stopped, group, offset, pos, ids, shown, error>>
  BY DEF TakeAlbum, HasResponse
<1>1. /\ confirmed' = confirmed \cup {<<Response.album, ids>>}
      /\ at' = "ended" /\ UNCHANGED <<phase, failure>>
  <2>1. failure' = {}  BY DEF Undisturbed, Troubles
  <2> QED  BY <1>0, <2>1 DEF TakeAlbum, Fail
<1>2. /\ Progress(shown, confirmed, plan, group, offset, pos - 1)
      /\ FilesOf(ids) = {Chunk[k] : k \in 1..(pos - 1)} /\ pos = Len(Chunk) + 1
  <2>1. Undisturbed  BY <1>0, <1>1 DEF Undisturbed, Troubles
  <2> QED  BY <1>0, <2>1 DEF ProgressMade
<1>3. Progress(shown, confirmed', plan, group, offset, pos - 1)  BY <1>1, <1>2, ProgressGrows
<1>4. Made(confirmed', Chunk)
  <2>1. FilesOf(ids) = Range(Chunk)  BY <1>2, ChunkIs DEF Range
  <2>2. <<Response.album, ids>> \in confirmed'  BY <1>1
  <2>3. <<Response.album, ids>>[2] = ids  OBVIOUS
  <2> QED  BY <2>1, <2>2, <2>3, Zenon DEF Made
<1>5. Chunk' = Chunk  BY <1>0 DEF Chunk, ChunkOf
<1> QED  BY <1>0, <1>1, <1>2, <1>3, <1>4, <1>5 DEF ProgressMade

\* The chunk that begins at offset is the last that begins before its end.
LEMMA NextChunk ==
  ASSUME Course, NEW n \in Nat, n * AlbumMax < offset + AlbumMax
  PROVE n * AlbumMax < offset \/ n * AlbumMax = offset
<1>1. PICK m \in Nat : offset = m * AlbumMax  BY DEF Course, Looping
<1>2. AlbumMax \in Nat \ {0}  BY ImportsAssumption
<1>3. offset + AlbumMax = (m + 1) * AlbumMax  BY <1>1, <1>2
<1>4. n < m + 1
  <2>1. SUFFICES ASSUME n >= m + 1 PROVE FALSE  OBVIOUS
  <2>2. n * AlbumMax >= (m + 1) * AlbumMax
    <3>1. n = (m + 1) + (n - (m + 1)) /\ n - (m + 1) \in Nat  BY <2>1
    <3>2. n * AlbumMax = (m + 1) * AlbumMax + (n - (m + 1)) * AlbumMax  BY <1>2, <3>1
    <3>3. (n - (m + 1)) * AlbumMax \in Nat /\ (m + 1) * AlbumMax \in Nat  BY <1>2, <3>1
    <3> QED  BY <3>2, <3>3
  <2>3. n * AlbumMax \in Nat /\ (m + 1) * AlbumMax \in Nat  BY <1>2
  <2> QED  BY <1>3, <2>2, <2>3
<1>5. CASE n = m  BY <1>1, <1>5
<1>6. CASE n < m
  <2>1. m = n + (m - n) /\ m - n \in Nat \ {0}  BY <1>6
  <2>2. m * AlbumMax = n * AlbumMax + (m - n) * AlbumMax  BY <1>2, <2>1
  <2>3. (m - n) * AlbumMax > 0 /\ (m - n) * AlbumMax \in Nat /\ n * AlbumMax \in Nat
    BY <1>2, <2>1
  <2> QED  BY <1>1, <2>2, <2>3
<1> QED  BY <1>4, <1>5, <1>6

LEMMA ProgressEndChunk ==
  ASSUME Course, ProgressMade, EndChunk
  PROVE ProgressMade'
<1> SUFFICES ASSUME Undisturbed' PROVE ProgressMade'  BY DEF ProgressMade
<1> USE DEF browserVars
<1> DEFINE G == plan[group]
           more == offset + AlbumMax < Len(G.files)
<1>0. /\ at = "ended" /\ phase = "album" /\ phase' = "upload" /\ ids' = {} /\ error = {}
      /\ failure = {} /\ ~stopped
      /\ UNCHANGED <<plan, page, stopped, shown, confirmed>>
  BY DEF EndChunk, Course, Stands, Undisturbed, Troubles
<1>1. /\ Progress(shown, confirmed, plan, group, offset, pos - 1)
      /\ pos = Len(Chunk) + 1 /\ (Deserves(G) => Made(confirmed, Chunk))
  <2>1. Undisturbed  BY <1>0 DEF Undisturbed, Troubles
  <2> QED  BY <1>0, <2>1 DEF ProgressMade
<1>2. /\ offset \in Nat /\ AlbumMax \in Nat \ {0} /\ group \in 1..Len(plan)
      /\ Len(G.files) \in Nat \ {0} /\ Len(plan) \in Nat
  BY ImportsAssumption, ChunkIs, GroupIs DEF Course, ClientTypes
<1>3. /\ Chunk = Piece(G.files, offset) /\ offset + Len(Chunk) <= Len(G.files)
      /\ Len(Chunk) = IF offset + AlbumMax <= Len(G.files) THEN AlbumMax
                      ELSE Len(G.files) - offset
      /\ Len(Chunk) \in Nat
  BY ChunkIs
<1>4. /\ \A h \in 1..(group - 1) : GroupDone(shown, confirmed, plan[h])
      /\ Seen(shown, G.files, offset + Len(Chunk))
  BY <1>1, <1>3 DEF Progress
<1>5. MadeBefore(confirmed, G, offset + AlbumMax)
  <2>1. SUFFICES ASSUME Deserves(G), NEW n \in Nat, n * AlbumMax < offset + AlbumMax
                 PROVE Made(confirmed, Piece(G.files, n * AlbumMax))
    BY DEF MadeBefore
  <2>2. CASE n * AlbumMax < offset  BY <1>1, <2>1, <2>2 DEF Progress, MadeBefore
  <2>3. CASE n * AlbumMax = offset  BY <1>1, <1>3, <2>1, <2>3
  <2> QED  BY <2>1, <2>2, <2>3, NextChunk
<1> HIDE DEF G
<1>6. CASE more
  <2>1. at' = "loop" /\ pos' = 1 /\ group' = group /\ offset' = offset + AlbumMax
    BY <1>0, <1>6 DEF EndChunk, G
  <2>2. Len(Chunk) = AlbumMax /\ offset + AlbumMax + 0 = offset + AlbumMax  BY <1>2, <1>3, <1>6
  <2>3. Progress(shown, confirmed, plan, group, offset + AlbumMax, 0)
    BY <1>4, <1>5, <2>2 DEF Progress, G
  <2>4. FilesOf(ids') = {Chunk'[k] : k \in 1..(1 - 1)}  BY <1>0 DEF FilesOf
  <2> QED  BY <1>0, <2>1, <2>3, <2>4 DEF ProgressMade
<1>7. CASE ~more
  <2>1. GroupDone(shown, confirmed, G)
    <3>1. offset + Len(Chunk) = Len(G.files) /\ Len(G.files) <= offset + AlbumMax
      BY <1>2, <1>3, <1>7
    <3>2. \A n \in Nat : n * AlbumMax < Len(G.files) => n * AlbumMax < offset + AlbumMax
      <4>1. ASSUME NEW n \in Nat PROVE n * AlbumMax \in Nat  BY <1>2
      <4> QED  BY <1>2, <3>1, <4>1
    <3>3. MadeBefore(confirmed, G, Len(G.files))  BY <1>5, <3>2 DEF MadeBefore
    <3> QED  BY <1>4, <3>1, <3>3 DEF GroupDone
  <2>2. \A h \in 1..group : GroupDone(shown, confirmed, plan[h])
    <3>1. \A h \in 1..group : h \in 1..(group - 1) \/ h = group  BY <1>2
    <3> QED  BY <1>4, <2>1, <3>1 DEF G
  <2>3. CASE group = Len(plan)
    <3>1. at' = "done"  BY <1>0, <1>7, <2>3 DEF EndChunk, G
    <3> QED  BY <1>0, <2>2, <2>3, <3>1 DEF ProgressMade
  <2>4. CASE group # Len(plan)
    <3>1. at' = "loop" /\ pos' = 1 /\ group' = group + 1 /\ offset' = 0
      BY <1>0, <1>7, <2>4 DEF EndChunk, G
    <3>2. Progress(shown, confirmed, plan, group + 1, 0, 0)
      <4>1. (group + 1) - 1 = group /\ 1..(0 + 0) = {}  BY <1>2
      <4>2. \A n \in Nat : ~(n * AlbumMax < 0)
        <5>1. ASSUME NEW n \in Nat PROVE n * AlbumMax \in Nat  BY <1>2
        <5> QED  BY <5>1
      <4> QED  BY <2>2, <4>1, <4>2 DEF Progress, Seen, MadeBefore
    <3>3. FilesOf(ids') = {Chunk'[k] : k \in 1..(1 - 1)}  BY <1>0 DEF FilesOf
    <3>4. 1 - 1 = 0  OBVIOUS
    <3> QED  BY <1>0, <3>1, <3>2, <3>3, <3>4 DEF ProgressMade
  <2> QED  BY <2>3, <2>4
<1> QED  BY <1>6, <1>7

\* Sending a request again, or giving it up.
LEMMA ProgressAgain ==
  ASSUME Course, ProgressMade, TakeRefusal \/ Renewed \/ NotRenewed \/ Waited \/ Cut
  PROVE ProgressMade'
<1> USE DEF browserVars, loopVars, resultVars
<1>0. /\ at # "done"
      /\ UNCHANGED <<plan, page, stopped, group, offset, pos, ids, shown, confirmed, error>>
  BY DEF TakeRefusal, Renewed, NotRenewed, Waited, Cut, HasResponse
<1>1. CASE at' \notin {"done", "ended"} /\ UNCHANGED <<phase, failure>>
  BY <1>0, <1>1, ProgressStays DEF Troubles
<1>2. CASE failure' # {}
  BY <1>2 DEF ProgressMade, Undisturbed, Troubles
<1> QED
  BY <1>1, <1>2 DEF TakeRefusal, Renewed, NotRenewed, Waited, Cut, Again, Ask, Fail

LEMMA ProgressStep ==
  ASSUME IInv, Answers, Course, ProgressMade, [Next]_vars
  PROVE ProgressMade'
<1>1. CASE ApiSend \/ ApiTake \/ ApiCut
  <2>1. ~page'  BY <1>1 DEF ApiSend, ApiTake, ApiCut, browserVars
  <2> QED  BY <2>1 DEF ProgressMade, Undisturbed
<1>2. CASE Others \/ UNCHANGED vars
  <2>0. stopped => stopped'
    <3>1. UNCHANGED stopped \/ stopped' = TRUE
      BY <1>2 DEF vars, browserVars, Others, Serves, WritesEdit, Unheard, Expire, SwitchAccount, Stop,
                  Interfere
    <3> QED  BY <3>1
  <2>1. /\ UNCHANGED <<plan, page, group, offset, pos, phase, at, ids>>
        /\ UNCHANGED <<failure, shown, confirmed, error>> /\ (stopped => stopped')
    <3>1. UNCHANGED <<plan, page, clientVars>>
      BY <1>2, OthersMove DEF vars, browserVars
    <3> QED  BY <2>0, <3>1 DEF clientVars, loopVars, resultVars
  <2>2. Undisturbed' => Undisturbed /\ Chunk' = Chunk
    BY <2>1 DEF Undisturbed, Troubles, Chunk, ChunkOf
  <2> QED  BY <2>1, <2>2 DEF ProgressMade
<1> QED
  BY <1>1, <1>2, ProgressNextBatch, ProgressNextAlbum, ProgressTakeImages, ProgressTakeAlbum,
     ProgressEndChunk, ProgressAgain
  DEF Next, ClientStep, Others

LEMMA InitProgress ==
  ASSUME Init
  PROVE ProgressMade
<1>1. group = 1 /\ offset = 0 /\ pos = 1 /\ phase = "upload" /\ at = "loop" /\ ids = {}
  BY DEF Init
<1>2. pos - 1 = 0 /\ 1..(pos - 1) = {} /\ 1..(group - 1) = {} /\ 1..(offset + 0) = {}  BY <1>1
<1>3. \A n \in Nat : ~(n * AlbumMax < offset)
  <2>1. AlbumMax \in Nat  BY ImportsAssumption
  <2>2. ASSUME NEW n \in Nat PROVE n * AlbumMax \in Nat  BY <2>1
  <2> QED  BY <1>1, <2>2
<1>4. Progress(shown, confirmed, plan, group, offset, pos - 1)
  BY <1>2, <1>3 DEF Progress, Seen, MadeBefore
<1>5. FilesOf(ids) = {Chunk[k] : k \in 1..(pos - 1)}  BY <1>1, <1>2 DEF FilesOf
<1> QED  BY <1>1, <1>4, <1>5 DEF ProgressMade

LEMMA QuotientIs ==
  ASSUME NEW l \in Nat, NEW a \in Nat \ {0}
  PROVE l \div a \in Nat /\ (l \div a) * a <= l
<1>1. a \in Nat /\ a > 0  OBVIOUS
<1> QED  BY <1>1

-----------------------------------------------------------------------------
(* For which place of the plan an image was made *)

\* Another file may be stored: the upload goes on, its answer will be followed by
\* another batch or by the same once more, or the next is about to be sent.
Continues ==
  \/ Upload.stage \in {"sent", "storing", "checking"}
  \/ Upload.stage = "answered" /\ Upload.status \in {"ok", "limited", "unauthorized"}
  \/ Upload.stage = "idle" /\ ~Pending /\ at # "done" /\ failure = {}

\* Files of the group that were stored or passed over
Reached == Base + Len(Upload.images)

\* Each image has a place of its own, which holds its file.
Apart(origin, rows) ==
  /\ origin \in [rows -> Places]
  /\ \A i \in rows : FileAt(origin[i]) = i[1]
  /\ \A i, j \in rows : origin[i] = origin[j] => i = j

Ordered(origin, rows, g, n) ==
  \A i \in rows : origin[i][1] < g \/ (origin[i][1] = g /\ origin[i][2] <= n)

OncePlaced ==
  \E origin : /\ Apart(origin, stored)
              /\ Continues => Ordered(origin, stored, group, Reached)

LEMMA OrderedFurther ==
  ASSUME NEW origin, NEW rows, NEW g \in Nat, NEW n \in Nat, NEW h \in Nat, NEW m \in Nat,
         Course, Apart(origin, rows), Ordered(origin, rows, g, n), g < h \/ (g = h /\ n <= m)
  PROVE Ordered(origin, rows, h, m)
<1> SUFFICES ASSUME NEW i \in rows
             PROVE origin[i][1] < h \/ (origin[i][1] = h /\ origin[i][2] <= m)
  BY DEF Ordered
<1>1. origin[i][1] \in Int /\ origin[i][2] \in Int
  <2>1. PICK x \in DOMAIN plan : origin[i] \in {x} \X DOMAIN plan[x].files
    BY DEF Apart, Places
  <2>2. plan \in Plans  BY DEF Course, ClientTypes
  <2>3. plan \in Seq([titled : BOOLEAN, files : Seq(Files) \ {<<>>}])
    BY <2>2, ImportsAssumption
  <2>4. x \in 1..Len(plan)  BY <2>1, <2>3
  <2>5. plan[x].files \in Seq(Files)  BY <2>2, <2>4, GroupIs
  <2>6. DOMAIN plan[x].files \subseteq Int /\ x \in Int  BY <2>3, <2>4, <2>5
  <2> QED  BY <2>1, <2>6
<1> QED  BY <1>1 DEF Ordered

\* What a step of the client does to the upload and to the loops, if another file
\* may be stored after it: then so it was before, and the place for it is later.
Forward ==
  Continues' => /\ Continues
                /\ group < group' \/ (group' = group /\ Reached <= Reached')

LEMMA ReachedIs ==
  ASSUME IInv, Answers, Course
  PROVE /\ Base \in Nat /\ group \in Nat /\ Len(Upload.images) \in Nat /\ Reached \in Nat
        /\ Upload.stage \in {"idle", "sent"} => (Len(Upload.images) = 0 /\ Reached = Base)
<1>1. Upload.images \in Seq(Images) /\ Given(Upload)
  BY Two DEF IInv, Types, Requested, Answers, Upload
<1>2. Len(Upload.images) \in Nat  BY <1>1
<1>3. Base \in Nat /\ group \in Nat  BY DEF Course, ClientTypes, Base
<1>4. Upload.stage \in {"idle", "sent"} => Len(Upload.images) = 0  BY <1>1 DEF Given
<1> QED  BY <1>2, <1>3, <1>4 DEF Reached

\* Where the upload and the place in the loops stay.
LEMMA ForwardStays ==
  ASSUME IInv, Answers, Course, Upload' = Upload, UNCHANGED <<group, offset, pos>>,
         (Upload.stage = "idle" /\ Continues') => (~Pending /\ at # "done" /\ failure = {})
  PROVE Forward
<1>1. Reached' = Reached /\ Reached \in Nat  BY ReachedIs DEF Reached, Base
<1>2. Continues' => Continues  BY DEF Continues
<1> QED  BY <1>1, <1>2 DEF Forward

LEMMA ForwardBatch ==
  ASSUME IInv, Answers, Course, NextBatch \/ ApiSend
  PROVE Forward
<1> USE DEF browserVars, loopVars, requestVars, resultVars
<1>0. /\ at = "loop" /\ phase = "upload" /\ failure = {} /\ UNCHANGED <<group, offset, pos, failure>>
  BY DEF NextBatch, ApiSend, Course, Stands
<1>1. ~Pending  BY <1>0 DEF Pending
<1>2. CASE UNCHANGED req
  <2>1. Upload' = Upload  BY <1>2 DEF Upload
  <2> QED  BY <1>0, <1>1, <2>1, ForwardStays
<1>3. CASE \E kind, cookies, input : Ask(kind, cookies, input)
  <2>1. Upload.stage = "idle" /\ Upload'.images = <<>>
    BY <1>0, <1>3, AskDoes, Two DEF Upload
  <2>2. Continues  BY <1>0, <1>1, <2>1 DEF Continues
  <2>3. Reached' = Base /\ Reached = Base /\ Base \in Nat
    BY <1>0, <2>1, ReachedIs DEF Reached, Base
  <2> QED  BY <1>0, <2>2, <2>3 DEF Forward
<1> QED  BY <1>2, <1>3 DEF NextBatch, ApiSend

LEMMA ForwardTakeImages ==
  ASSUME IInv, Answers, Course, TakeImages
  PROVE Forward
<1> USE DEF browserVars
<1>0. /\ phase = "upload" /\ at = "asking" /\ Upload.stage = "answered"
      /\ UNCHANGED <<group, offset>>
  BY DEF TakeImages, HasResponse, Response, Upload
<1>1. Upload'.stage = "idle" /\ Upload'.images = <<>>
  <2>1. Upload' = Idle  BY <1>0, ReceiveDoes, Two DEF TakeImages, Upload
  <2> QED  BY <2>1 DEF Idle
<1>2. CASE Complete(Upload, Batch)
  <2>1. pos' = pos + Len(Upload.images) /\ Upload.status = "ok"
    BY <1>0, <1>2 DEF TakeImages, Complete, Response, Upload
  <2>2. Continues  BY <1>0, <2>1 DEF Continues
  <2>3. Reached' = Reached
    <3> DEFINE n == Len(Upload.images)
    <3>1. Reached' = offset + (pos + n) - 1 + 0  BY <1>0, <1>1, <2>1 DEF Reached, Base
    <3>2. n \in Nat /\ offset \in Nat /\ pos \in Nat
      BY ReachedIs DEF Course, ClientTypes
    <3>3. Reached = offset + pos - 1 + n  BY DEF Reached, Base
    <3> HIDE DEF n
    <3> QED  BY <3>1, <3>2, <3>3
  <2> QED  BY <1>0, <2>2, <2>3, ReachedIs DEF Forward
<1>3. CASE ~Complete(Upload, Batch)
  <2>1. failure' # {}  BY <1>0, <1>3 DEF TakeImages, Fail, Response, Upload
  <2>2. ~Continues'  BY <1>1, <2>1 DEF Continues
  <2> QED  BY <2>2 DEF Forward
<1> QED  BY <1>2, <1>3

LEMMA ForwardEndChunk ==
  ASSUME IInv, Answers, Course, EndChunk
  PROVE Forward
<1>0. /\ at = "ended" /\ phase = "album" /\ error = {} /\ Upload' = Upload /\ ~Pending /\ ~Pending'
  BY DEF EndChunk, Course, Stands, Pending, Upload
<1>1. CASE at' = "done" /\ UNCHANGED loopVars
  BY <1>0, <1>1, ForwardStays DEF loopVars, Continues
<1>2. CASE ~(at' = "done" /\ UNCHANGED loopVars)
  <2>1. /\ failure = {} /\ pos' = 1
        /\ \/ group' = group /\ offset' = offset + AlbumMax
           \/ group' = group + 1 /\ offset' = 0
    BY <1>2 DEF EndChunk
  <2>2. Upload.stage = "idle"
    BY <1>0, <2>1 DEF Course, UploadAsked, Troubles
  <2>3. Continues  BY <1>0, <2>1, <2>2 DEF Continues
  <2>4. Reached = Base /\ Reached' = Base' /\ group \in Nat
    <3> DEFINE n == Len(Upload.images)
    <3>1. n = 0 /\ Reached = Base /\ group \in Nat  BY <2>2, ReachedIs
    <3>2. Base' \in Int
      <4>1. offset \in Nat /\ AlbumMax \in Nat
        BY ImportsAssumption DEF Course, ClientTypes
      <4>2. offset' \in Nat /\ pos' \in Nat  BY <2>1, <4>1
      <4> QED  BY <4>2 DEF Base
    <3>3. Reached' = Base' + n  BY <1>0 DEF Reached
    <3> HIDE DEF n
    <3>4. ASSUME NEW b \in Int PROVE b + n = b  BY <3>1
    <3> QED  BY <3>1, <3>2, <3>3, <3>4, Zenon
  <2>5. CASE group' = group + 1  BY <2>3, <2>4, <2>5 DEF Forward
  <2>6. CASE group' = group /\ offset' = offset + AlbumMax
    <3>1. pos <= Len(Chunk) + 1 /\ Len(Chunk) <= AlbumMax /\ Len(Chunk) \in Nat
      <4>1. AlbumMax \in Nat /\ offset \in Nat  BY ImportsAssumption DEF Course, ClientTypes
      <4>2. Len(plan[group].files) \in Nat  BY ChunkIs
      <4>3. pos <= Len(Chunk) + 1  BY DEF Course, Looping
      <4> QED  BY <4>1, <4>2, <4>3, ChunkIs
    <3>2. offset \in Nat /\ pos \in Nat /\ AlbumMax \in Nat
      BY ImportsAssumption DEF Course, ClientTypes
    <3>3. Base <= Base'  BY <2>1, <2>6, <3>1, <3>2 DEF Base
    <3> QED  BY <2>3, <2>4, <2>6, <3>3 DEF Forward
  <2> QED  BY <2>1, <2>5, <2>6
<1> QED  BY <1>1, <1>2

\* A request that is answered, repeated or given up.
LEMMA ForwardRequest ==
  ASSUME IInv, Answers, Course, TakeRefusal \/ Renewed \/ Waited \/ NotRenewed \/ Cut
  PROVE Forward
<1> USE DEF browserVars, loopVars, resultVars
<1>0. /\ UNCHANGED <<group, offset, pos>> /\ at \in {"asking", "renewing", "waiting"}
      /\ phase \in {"upload", "album"} /\ (phase = "upload" => failure = {})
  BY Two DEF TakeRefusal, Renewed, Waited, NotRenewed, Cut, HasResponse, Course, ClientTypes, Stands
<1>1. CASE phase = "album"
  <2>1. Upload' = Upload /\ ~Pending
    <3>1. \/ UNCHANGED req \/ Receive \/ \E kind, cookies, input : Ask(kind, cookies, input)
      BY DEF TakeRefusal, Renewed, Waited, NotRenewed, Cut, Again
    <3> QED  BY <1>1, <3>1, AskDoes, ReceiveDoes, Two DEF Pending, Upload
  <2>2. Continues' => failure = {} \/ Upload.stage # "idle"
    <3>1. failure \subseteq failure'
      BY <1>1 DEF TakeRefusal, Renewed, Waited, NotRenewed, Cut, Again, Fail
    <3> QED  BY <2>1, <3>1 DEF Continues
  <2> QED  BY <1>0, <2>1, <2>2, ForwardStays
<1>2. CASE phase = "upload" /\ TakeRefusal
  <2>1. /\ Upload.stage = "answered" /\ Upload.status \in {"limited", "unauthorized"}
        /\ Upload.images = <<>>
    BY <1>2 DEF TakeRefusal, HasResponse, Response, Repeats, Upload
  <2>2. Upload'.images = <<>>
    <3>1. Upload' = Idle  BY <1>2, ReceiveDoes, Two DEF TakeRefusal, Upload
    <3> QED  BY <3>1 DEF Idle
  <2>3. Reached' = Reached /\ Reached \in Nat  BY <1>0, <2>1, <2>2, ReachedIs DEF Reached, Base
  <2> QED  BY <1>0, <2>1, <2>3 DEF Forward, Continues
<1>3. CASE phase = "upload" /\ (Renewed \/ Waited)
  <2>1. Upload.stage = "idle" /\ ~Pending /\ at # "done"
    BY <1>3 DEF Course, Waits, Upload, Renewed, Waited, Pending
  <2>2. CASE failure' # {} /\ UNCHANGED req
    <3>1. ~Continues'  BY <2>1, <2>2 DEF Continues, Upload
    <3> QED  BY <3>1 DEF Forward
  <2>3. CASE \E kind, cookies, input : Ask(kind, cookies, input)
    <3>1. Upload'.images = <<>>  BY <1>3, <2>3, AskDoes, Two DEF Upload
    <3>2. Reached' = Base /\ Reached = Base /\ Base \in Nat
      BY <1>0, <2>1, <3>1, ReachedIs DEF Reached, Base
    <3>3. Continues  BY <1>0, <1>3, <2>1 DEF Continues
    <3> QED  BY <1>0, <3>2, <3>3 DEF Forward
  <2> QED  BY <1>3, <2>2, <2>3 DEF Renewed, Waited, Again, Fail
<1>4. CASE phase = "upload" /\ (NotRenewed \/ Cut)
  <2>1. failure' # {} /\ (UNCHANGED req \/ Receive)  BY <1>4 DEF NotRenewed, Cut, Fail
  <2>2. Upload' = Upload \/ Upload'.stage = "idle"
    BY <1>4, <2>1, ReceiveDoes, Two DEF Upload
  <2>3. CASE Upload'.stage = "idle"
    <3>1. ~Continues'  BY <2>1, <2>3 DEF Continues
    <3> QED  BY <3>1 DEF Forward
  <2>4. CASE Upload' = Upload /\ Upload.stage # "idle"
    BY <1>0, <2>4, ForwardStays
  <2> QED  BY <2>2, <2>3, <2>4
<1> QED  BY <1>0, <1>1, <1>2, <1>3, <1>4

LEMMA ForwardClient ==
  ASSUME IInv, Answers, Course, ClientStep
  PROVE Forward
<1> USE DEF browserVars, loopVars, requestVars, resultVars
<1>1. CASE NextAlbum
  <2>1. /\ phase = "album" /\ at = "loop" /\ UNCHANGED <<group, offset, pos, failure>>
        /\ UNCHANGED req \/ \E kind, cookies, input : Ask(kind, cookies, input)
    BY <1>1 DEF NextAlbum
  <2>2. Upload' = Upload /\ ~Pending  BY <2>1, AskDoes, Two DEF Upload, Pending
  <2> QED  BY <2>1, <2>2, ForwardStays DEF Continues
<1>2. CASE TakeAlbum
  <2>1. /\ phase = "album" /\ at = "asking" /\ UNCHANGED <<group, offset, pos>> /\ Receive
        /\ failure \subseteq failure'
    BY <1>2 DEF TakeAlbum, HasResponse, Fail
  <2>2. Upload' = Upload /\ ~Pending  BY <2>1, ReceiveDoes, Two DEF Upload, Pending
  <2> QED  BY <2>1, <2>2, ForwardStays DEF Continues
<1>3. CASE ApiTake \/ ApiCut
  <2>1. /\ phase = "upload" /\ at' = "done" /\ UNCHANGED <<group, offset, pos>>
        /\ UNCHANGED req \/ Receive
    BY <1>3 DEF ApiTake, ApiCut, HasResponse, Course, Stands
  <2>2. Upload' = Upload \/ Upload'.stage = "idle"  BY <2>1, ReceiveDoes, Two DEF Upload
  <2>3. CASE Upload'.stage = "idle"
    <3>1. ~Continues'  BY <2>1, <2>3 DEF Continues
    <3> QED  BY <3>1 DEF Forward
  <2>4. CASE Upload' = Upload /\ Upload.stage # "idle"
    BY <2>1, <2>4, ForwardStays
  <2> QED  BY <2>2, <2>3, <2>4
<1> QED
  BY <1>1, <1>2, <1>3, ForwardBatch, ForwardTakeImages, ForwardEndChunk, ForwardRequest
  DEF ClientStep

LEMMA ForwardOthers ==
  ASSUME IInv, Answers, Course, Others
  PROVE Forward
<1>1. /\ UNCHANGED <<group, offset, pos, phase, at, failure>> /\ RequestMoves("upload")
  BY OthersMove, Two DEF clientVars, loopVars
<1>2. Base' = Base /\ Pending' = Pending  BY <1>1 DEF Base, Pending
<1>3. CASE Upload' = Upload
  BY <1>1, <1>3, ForwardStays DEF Continues, Pending
<1>4. CASE Upload' = Idle
  <2>1. Upload'.stage = "idle"  BY <1>4 DEF Idle
  <2>2. Upload.stage = "idle" \/ ~Continues'
    <3>1. SUFFICES ASSUME Continues' PROVE Upload.stage = "idle"  OBVIOUS
    <3>2. ~Pending /\ at # "done" /\ failure = {}  BY <1>1, <1>2, <2>1, <3>1 DEF Continues
    <3> QED  BY <3>2 DEF Course, Stands, UploadAsked, Troubles
  <2>3. CASE Upload.stage = "idle"
    <3>1. Continues' => Continues  BY <1>1, <1>2, <2>1, <2>3 DEF Continues
    <3>2. Upload'.images = <<>>  BY <1>4 DEF Idle
    <3>3. Reached' = Base /\ Reached = Base /\ Base \in Nat
      BY <1>2, <2>3, <3>2, ReachedIs DEF Reached
    <3> QED  BY <1>1, <3>1, <3>3 DEF Forward
  <2> QED  BY <2>2, <2>3 DEF Forward
<1>5. CASE /\ Upload.stage \notin {"idle", "answered"} /\ Upload'.stage # "idle"
           /\ (Upload.kind # "create" => Continued(Upload.images, Upload'.images))
  <2>1. Upload.stage \in {"sent", "storing", "checking"} /\ Upload'.images \in Seq(Images)
    <3>1. Upload \in Requested  BY Two DEF IInv, Types, Upload
    <3>2. Upload' \in Requested
      <4>1. IInv'
        BY KnownStep, AlbumsAssumption DEF Others, Next
      <4> QED  BY <4>1, Two DEF IInv, Types, Upload, Requested, Images, Kinds, Identities, Owners
    <3> QED  BY <1>5, <3>1, <3>2 DEF Requested
  <2>2. Continues  BY <2>1 DEF Continues
  <2>3. Len(Upload.images) <= Len(Upload'.images)
    BY <1>5 DEF Course, UploadAsked, Continued
  <2> DEFINE n == Len(Upload.images)
             m == Len(Upload'.images)
  <2>4. n \in Nat /\ m \in Nat /\ n <= m /\ Base \in Nat  BY <2>1, <2>3, ReachedIs
  <2>5. Reached = Base + n /\ Reached' = Base + m  BY <1>2 DEF Reached
  <2> HIDE DEF n, m
  <2> QED  BY <1>1, <2>2, <2>4, <2>5 DEF Forward
<1> QED  BY <1>1, <1>3, <1>4, <1>5 DEF RequestMoves, Upload

\* A row that is made gets the place that the upload has reached.
LEMMA PlaceOfRow ==
  ASSUME IInv, Answers, Course, NEW i, RowMade(i), NEW origin, Apart(origin, stored),
         Ordered(origin, stored, group, Reached), plan' = plan
  PROVE \E longer : /\ Apart(longer, stored')
                    /\ Ordered(longer, stored', group, Reached + 1)
<1> DEFINE place == <<group, Reached + 1>>
           longer == [j \in stored' |-> IF j = i THEN place ELSE origin[j]]
<1>1. i \notin stored /\ stored' = stored \cup {i}  BY DEF RowMade
<1>2. Reached \in Nat /\ group \in Nat /\ Base \in Nat /\ Len(Upload.images) \in Nat
  BY ReachedIs
<1>3. place \in Places /\ FileAt(place) = i[1]
  <2> DEFINE n == Len(Upload.images)
             m == Len(Upload.input)
             l == Len(Group(group))
  <2>1. /\ n < m /\ i[1] = Upload.input[n + 1] /\ Base + m <= l
        /\ \A k \in 1..m : Upload.input[k] = Group(group)[Base + k]
    BY DEF RowMade, Course, UploadAsked
  <2>2. m \in Nat /\ l \in Nat
    <3>1. Filled(Upload, stored) /\ Upload.kind # "create"
      BY Two DEF Answers, Upload, RowMade, Course, UploadAsked
    <3>2. Upload.input \in Seq(Files)  BY <3>1 DEF Filled
    <3> QED  BY <3>2, ChunkIs DEF Group
  <2>3. Reached = Base + n /\ n \in Nat /\ Base \in Nat  BY <1>2 DEF Reached
  <2> HIDE DEF n, m, l
  <2>4. n + 1 \in 1..m /\ Base + (n + 1) = Reached + 1 /\ Reached + 1 \in 1..l
    BY <2>1, <2>2, <2>3
  <2>5. i[1] = Group(group)[Reached + 1]  BY <2>1, <2>4
  <2>6. group \in DOMAIN plan /\ Reached + 1 \in DOMAIN plan[group].files
    <3>1. plan \in Plans /\ group \in 1..Len(plan)  BY DEF Course, ClientTypes
    <3>2. plan \in Seq([titled : BOOLEAN, files : Seq(Files) \ {<<>>}])
      BY <3>1, ImportsAssumption
    <3>3. Group(group) \in Seq(Files)  BY ChunkIs DEF Group
    <3> QED  BY <2>4, <3>1, <3>2, <3>3 DEF Group, l
  <2>7. place \in {group} \X DOMAIN plan[group].files  BY <2>6
  <2>8. place \in Places  BY <2>6, <2>7, Zenon DEF Places
  <2> QED  BY <2>5, <2>8 DEF FileAt, Group
<1>4. \A j \in stored : origin[j] # place
  <2>1. SUFFICES ASSUME NEW j \in stored, origin[j] = place PROVE FALSE  OBVIOUS
  <2>2. origin[j][1] = group /\ origin[j][2] = Reached + 1  BY <2>1
  <2>3. origin[j][2] <= Reached  BY <1>2, <2>2 DEF Ordered
  <2> QED  BY <1>2, <2>2, <2>3
<1>5. place[1] = group /\ place[2] = Reached + 1  OBVIOUS
<1> HIDE DEF place
<1>6. /\ \A j \in stored : longer[j] = origin[j]
      /\ longer[i] = place /\ longer = [j \in stored' |-> longer[j]]
  BY <1>1
<1> HIDE DEF longer
<1>7. Apart(longer, stored')
  <2>1. longer \in [stored' -> Places]  BY <1>1, <1>3, <1>6 DEF Apart
  <2>2. \A j \in stored' : FileAt(longer[j]) = j[1]  BY <1>1, <1>3, <1>6 DEF Apart
  <2>3. \A j, k \in stored' : longer[j] = longer[k] => j = k
    BY <1>1, <1>4, <1>6 DEF Apart
  <2> QED  BY <2>1, <2>2, <2>3 DEF Apart
<1>8. Ordered(longer, stored', group, Reached + 1)
  <2>1. Ordered(origin, stored, group, Reached + 1)
    BY <1>2, OrderedFurther
  <2> QED  BY <1>1, <1>2, <1>5, <1>6, <2>1 DEF Ordered
<1> QED  BY <1>7, <1>8

LEMMA PlacedStep ==
  ASSUME AlbumsAssumption, IInv, Answers, Course, OncePlaced, [Next]_vars
  PROVE OncePlaced'
<1>1. PICK origin : /\ Apart(origin, stored)
                    /\ Continues => Ordered(origin, stored, group, Reached)
  BY DEF OncePlaced
<1>2. plan' = plan
  <2>1. CASE Others  BY <2>1, OthersMove
  <2>2. CASE ClientStep
    BY <2>2 DEF ClientStep, NextBatch, NextAlbum, EndChunk, TakeImages, TakeAlbum, TakeRefusal,
                Renewed, NotRenewed, Waited, Cut, ApiSend, ApiTake, ApiCut, browserVars
  <2>3. CASE UNCHANGED vars  BY <2>3 DEF vars, browserVars
  <2> QED  BY <2>1, <2>2, <2>3 DEF Next, Others
<1>3. Places' = Places  BY <1>2 DEF Places
<1>4. ASSUME NEW o, Apart(o, stored') PROVE Apart(o, stored)'
  BY <1>2, <1>3, <1>4 DEF Apart, FileAt
<1>5. group' \in Nat /\ Reached' \in Nat
  <2>1. IInv' /\ Course'  BY KnownStep
  <2>2. group' \in Nat /\ Base' \in Nat
    <3>1. group' \in 1..Len(plan') /\ offset' \in Nat /\ pos' \in Nat \ {0}
      BY <2>1 DEF Course, ClientTypes
    <3>2. Len(plan') \in Nat  BY <1>2, GroupIs DEF Course, ClientTypes
    <3>3. group' \in Nat  BY <3>1, <3>2
    <3>4. offset' \in Nat /\ pos' \in Nat \ {0}  BY <3>1
    <3>5. Base' \in Nat
      <4>1. ASSUME NEW o \in Nat, NEW k \in Nat \ {0} PROVE o + k - 1 \in Nat  OBVIOUS
      <4>2. Base' = offset' + pos' - 1  BY DEF Base
      <4> QED  BY <3>4, <4>1, <4>2, Zenon
    <3> QED  BY <3>3, <3>5
  <2>3. Upload'.images \in Seq(Images)
    BY <2>1, Two DEF IInv, Types, Upload, Requested, Images, Kinds, Identities, Owners
  <2>4. Len(Upload'.images) \in Nat  BY <2>3
  <2> QED  BY <2>2, <2>4 DEF Reached
<1>6. CASE stored' = stored
  <2>1. Forward
    <3>1. CASE UNCHANGED vars
      <4>1. Upload' = Upload /\ UNCHANGED <<group, offset, pos, at, phase, failure>>
        BY <3>1 DEF vars, albumsVars, clientVars, loopVars, Upload
      <4> QED  BY <4>1, ForwardStays DEF Continues, Pending
    <3> QED  BY <3>1, ForwardClient, ForwardOthers DEF Next, Others
  <2>2. Apart(origin, stored)'  BY <1>1, <1>4, <1>6
  <2>3. ASSUME Continues' PROVE Ordered(origin, stored', group', Reached')
    <3>1. /\ Ordered(origin, stored, group, Reached)
          /\ group < group' \/ (group = group' /\ Reached <= Reached')
      BY <1>1, <2>1, <2>3 DEF Forward
    <3>2. group \in Nat /\ Reached \in Nat  BY ReachedIs
    <3>3. Ordered(origin, stored, group', Reached')
      BY <1>1, <1>5, <3>1, <3>2, OrderedFurther
    <3> QED  BY <1>6, <3>3
  <2> QED  BY <2>2, <2>3 DEF OncePlaced
<1>7. CASE stored' # stored
  <2>1. Others  BY <1>7, RowsMade
  <2>2. PICK i : RowMade(i)  BY <1>7, RowsMade
  <2>3. Ordered(origin, stored, group, Reached)
    BY <1>1, <2>2 DEF RowMade, Continues
  <2>4. PICK longer : Apart(longer, stored') /\ Ordered(longer, stored', group, Reached + 1)
    BY <1>1, <1>2, <2>2, <2>3, PlaceOfRow
  <2>5. Apart(longer, stored)'  BY <1>4, <2>4
  <2>6. ASSUME Continues' PROVE Ordered(longer, stored', group', Reached')
    <3>1. UNCHANGED <<group, offset, pos>>  BY <2>1, OthersMove DEF clientVars, loopVars
    <3>2. Upload'.images = Append(Upload.images, i)  BY <2>2, <2>6 DEF RowMade, Continues
    <3> DEFINE n == Len(Upload.images)
               m == Len(Upload'.images)
    <3>3. m = n + 1 /\ n \in Nat /\ Base \in Nat
      <4>1. Upload.images \in Seq(Images)  BY Two DEF Upload, IInv, Types, Requested
      <4>2. Base \in Nat  BY ReachedIs
      <4> QED  BY <3>2, <4>1, <4>2
    <3>4. Reached = Base + n /\ Reached' = Base + m  BY <3>1 DEF Reached, Base
    <3> HIDE DEF n, m
    <3>5. Reached' = Reached + 1  BY <3>3, <3>4
    <3> QED  BY <2>4, <3>1, <3>5
  <2> QED  BY <2>5, <2>6 DEF OncePlaced
<1> QED  BY <1>6, <1>7

LEMMA InitPlaced ==
  ASSUME Init
  PROVE OncePlaced
<1> DEFINE none == [i \in {} |-> <<>>]
<1>1. stored = {}  BY DEF Init, InitAlbums
<1>2. Apart(none, stored) /\ Ordered(none, stored, group, Reached)
  BY <1>1 DEF Apart, Ordered
<1> QED  BY <1>2 DEF OncePlaced

\* The places are finitely many.
LEMMA PlacesFinite ==
  ASSUME Course
  PROVE IsFiniteSet(Places)
<1>1. plan \in Plans /\ plan \in Seq([titled : BOOLEAN, files : Seq(Files) \ {<<>>}])
  BY ImportsAssumption DEF Course, ClientTypes
<1>2. DOMAIN plan = 1..Len(plan) /\ Len(plan) \in Nat  BY <1>1
<1> DEFINE row == [g \in 1..Len(plan) |-> {g} \X DOMAIN plan[g].files]
           rows == {row[g] : g \in 1..Len(plan)}
<1>3. IsFiniteSet(rows)
  <2>1. IsFiniteSet(1..Len(plan))  BY <1>2, FS_Interval
  <2>2. row \in Surjection(1..Len(plan), rows)  BY DEF Surjection
  <2> QED  BY <2>1, <2>2, FS_Surjection
<1>4. ASSUME NEW g \in 1..Len(plan) PROVE IsFiniteSet({g} \X DOMAIN plan[g].files)
  <2>1. plan[g].files \in Seq(Files) /\ Len(plan[g].files) \in Nat  BY <1>1, GroupIs
  <2>2. DOMAIN plan[g].files = 1..Len(plan[g].files)  BY <2>1
  <2>3. IsFiniteSet(DOMAIN plan[g].files)
    <3> DEFINE n == Len(plan[g].files)
    <3>0. n \in Int  BY <2>1
    <3> HIDE DEF n
    <3>1. IsFiniteSet(1..n)  BY <3>0, FS_Interval
    <3> USE DEF n
    <3> QED  BY <2>2, <3>1, Zenon
  <2>4. IsFiniteSet({g})  BY FS_Singleton
  <2> QED  BY <2>3, <2>4, FS_Product
<1>5. Places = UNION rows  BY <1>2 DEF Places
<1>6. \A r \in rows : IsFiniteSet(r)  BY <1>4
<1> HIDE DEF rows
<1> QED  BY <1>3, <1>5, <1>6, FS_UNION

-----------------------------------------------------------------------------
(* What is left of the import *)

LEMMA LeftIs ==
  /\ Left[1] = IF at = "done" THEN 0 ELSE 1 + Len(plan) - group
  /\ Left[2] = Len(plan[group].files) - offset
  /\ Left[3] = IF at = "ended" THEN 0 ELSE IF phase = "album" THEN 1 ELSE 2
  /\ Left[4] = 1 + Len(Chunk) - pos
  /\ Left[5] = IF at = "loop" THEN 2 * (Retries + 2)
               ELSE 2 * (Retries + 1 - attempt) + (IF at = "asking" THEN 1 ELSE 0)
BY DEF Left

LEMMA LeftBecomes ==
  /\ Left'[1] = IF at' = "done" THEN 0 ELSE 1 + Len(plan') - group'
  /\ Left'[2] = Len(plan'[group'].files) - offset'
  /\ Left'[3] = IF at' = "ended" THEN 0 ELSE IF phase' = "album" THEN 1 ELSE 2
  /\ Left'[4] = 1 + Len(Chunk') - pos'
  /\ Left'[5] = IF at' = "loop" THEN 2 * (Retries + 2)
                ELSE 2 * (Retries + 1 - attempt') + (IF at' = "asking" THEN 1 ELSE 0)
BY DEF Left

\* The loops stay within the plan, and no request is attempted too often.
LEMMA LeftNat ==
  ASSUME Course
  PROVE \A k \in 1..5 : Left[k] \in Nat
<1>1. Len(plan) \in Nat /\ group \in 1..Len(plan)
  BY GroupIs DEF Course, ClientTypes
<1>2. /\ offset \in Nat /\ offset < Len(plan[group].files) /\ pos \in Nat \ {0}
      /\ pos <= Len(Chunk) + 1 /\ Len(plan[group].files) \in Nat /\ Len(Chunk) \in Nat
  BY ChunkIs DEF Course, ClientTypes, Looping, Group
<1>3. Retries \in Nat /\ attempt \in 0..Retries + 1
  BY ImportsAssumption DEF Course, ClientTypes
<1>4. Left[1] \in Nat  BY <1>1, LeftIs
<1>5. Left[2] \in Nat  BY <1>2, LeftIs
<1>6. Left[3] \in Nat  BY LeftIs
<1>7. Left[4] \in Nat
  <2> DEFINE n == Len(Chunk)
  <2>1. n \in Nat /\ pos \in Nat /\ pos <= n + 1 /\ Left[4] = 1 + n - pos  BY <1>2, LeftIs
  <2> HIDE DEF n
  <2> QED  BY <2>1
<1>8. Left[5] \in Nat  BY <1>3, LeftIs
<1>9. \A k \in 1..5 : k = 1 \/ k = 2 \/ k = 3 \/ k = 4 \/ k = 5  OBVIOUS
<1> QED  BY <1>4, <1>5, <1>6, <1>7, <1>8, <1>9

\* Within a chunk the first two numbers stay, and within a request the fourth.
LEMMA SameChunk ==
  ASSUME UNCHANGED <<plan, group, offset>>, at # "done", at' # "done"
  PROVE Left'[1] = Left[1] /\ Left'[2] = Left[2] /\ Chunk' = Chunk
<1>1. Chunk' = Chunk  BY DEF Chunk, ChunkOf
<1> QED  BY <1>1, LeftIs, LeftBecomes

LEMMA LessStage ==
  ASSUME UNCHANGED <<plan, group, offset>>, at # "done", at' # "done", Left'[3] < Left[3]
  PROVE LessLeft
<1>1. \A j \in 1..2 : Left'[j] = Left[j]
  <2>1. \A j \in 1..2 : j = 1 \/ j = 2  OBVIOUS
  <2> QED  BY <2>1, SameChunk
<1>2. 3 \in 1..5 /\ 3 - 1 = 2  OBVIOUS
<1> QED  BY <1>1, <1>2 DEF LessLeft

LEMMA LessAttempt ==
  ASSUME UNCHANGED <<plan, group, offset, pos, phase>>, at \notin {"done", "ended"},
         at' \notin {"done", "ended"}, Left'[5] < Left[5]
  PROVE LessLeft
<1>1. Left'[3] = Left[3]  BY LeftIs, LeftBecomes
<1>2. Left'[4] = Left[4]
  <2>1. Chunk' = Chunk  BY SameChunk
  <2> QED  BY <2>1, LeftIs, LeftBecomes
<1>3. \A j \in 1..4 : Left'[j] = Left[j]
  <2>1. \A j \in 1..4 : j = 1 \/ j = 2 \/ j = 3 \/ j = 4  OBVIOUS
  <2> QED  BY <1>1, <1>2, <2>1, SameChunk
<1>4. 5 \in 1..5 /\ 5 - 1 = 4  OBVIOUS
<1> QED  BY <1>3, <1>4 DEF LessLeft

\* A failure ends the loop of the batches, or the chunk.
LEMMA LessFail ==
  ASSUME Course, NEW cause, Fail(cause), UNCHANGED <<plan, group, offset>>,
         at \notin {"done", "ended"}
  PROVE LessLeft
<1>1. phase \in {"upload", "album"}  BY Two DEF Course, ClientTypes
<1>2. at' # "done" /\ Left'[3] < Left[3]  BY <1>1, LeftIs, LeftBecomes DEF Fail
<1> QED  BY <1>2, LessStage

\* A new request leaves less than the loop did.
LEMMA LessFirst ==
  ASSUME Course, at = "loop", at' = "asking", attempt' \in Nat,
         UNCHANGED <<plan, group, offset, pos, phase>>
  PROVE LessLeft
<1>1. Retries \in Nat  BY ImportsAssumption
<1>2. Left'[5] < Left[5]
  <2>1. Left[5] = 2 * (Retries + 2) /\ Left'[5] = 2 * (Retries + 1 - attempt') + 1
    BY LeftIs, LeftBecomes
  <2>2. ASSUME NEW a \in Nat PROVE 2 * (Retries + 1 - a) + 1 < 2 * (Retries + 2)
    BY <1>1
  <2> QED  BY <2>1, <2>2
<1> QED  BY <1>2, LessAttempt

LEMMA LessNextBatch ==
  ASSUME Course, NextBatch
  PROVE LessLeft
<1>0. UNCHANGED <<plan, group, offset, pos>> /\ at = "loop" /\ phase = "upload"
  BY DEF NextBatch, browserVars, loopVars
<1>1. CASE phase' = "album" /\ UNCHANGED at
  <2>1. Left'[3] < Left[3]  BY <1>0, <1>1, LeftIs, LeftBecomes
  <2> QED  BY <1>0, <1>1, <2>1, LessStage
<1>2. CASE at' = "asking" /\ attempt' = 0 /\ UNCHANGED phase
  BY <1>0, <1>2, LessFirst
<1> QED  BY <1>1, <1>2 DEF NextBatch, Ask, FirstAttempt

LEMMA LessNextAlbum ==
  ASSUME Course, NextAlbum
  PROVE LessLeft
<1>0. UNCHANGED <<plan, group, offset, pos, phase>> /\ at = "loop" /\ phase = "album"
  BY DEF NextAlbum, browserVars, loopVars
<1>1. CASE at' = "ended"
  <2>1. Left'[3] < Left[3]  BY <1>0, <1>1, LeftIs, LeftBecomes
  <2> QED  BY <1>0, <1>1, <2>1, LessStage
<1>2. CASE at' = "asking" /\ attempt' = 0
  BY <1>0, <1>2, LessFirst
<1> QED  BY <1>1, <1>2 DEF NextAlbum, Ask, FirstAttempt

LEMMA LessEndChunk ==
  ASSUME Course, EndChunk
  PROVE LessLeft
<1>0. at = "ended" /\ plan' = plan  BY DEF EndChunk, browserVars
<1>1. Len(plan) \in Nat /\ group \in 1..Len(plan) /\ offset \in Nat
  BY GroupIs DEF Course, ClientTypes
<1>2. AlbumMax \in Nat \ {0} /\ Len(plan[group].files) \in Nat
  BY ImportsAssumption, ChunkIs
<1>3. 1 \in 1..5 /\ 2 \in 1..5 /\ 1..(1 - 1) = {} /\ (\A j \in 1..(2 - 1) : j = 1)  OBVIOUS
<1>4. CASE at' = "done" \/ group' = group + 1
  <2>1. Left'[1] < Left[1]  BY <1>0, <1>1, <1>4, LeftIs, LeftBecomes
  <2> QED  BY <1>3, <2>1 DEF LessLeft
<1>5. CASE at' = "loop" /\ group' = group /\ offset' = offset + AlbumMax
  <2>1. Left'[1] = Left[1]  BY <1>0, <1>5, LeftIs, LeftBecomes
  <2>2. Left'[2] < Left[2]
    <3> DEFINE n == Len(plan[group].files)
    <3>1. n \in Nat /\ Left[2] = n - offset /\ Left'[2] = n - (offset + AlbumMax)
      BY <1>0, <1>2, <1>5, LeftIs, LeftBecomes
    <3> HIDE DEF n
    <3> QED  BY <1>1, <1>2, <3>1
  <2> QED  BY <1>3, <2>1, <2>2 DEF LessLeft
<1> QED  BY <1>4, <1>5 DEF EndChunk

\* A whole batch, of one file at least, is behind.
LEMMA LessTakeImages ==
  ASSUME Course, TakeImages
  PROVE LessLeft
<1>0. UNCHANGED <<plan, group, offset>> /\ at = "asking" /\ phase = "upload" /\ page
  BY DEF TakeImages, HasResponse, browserVars
<1>1. CASE Fail("answer")
  BY <1>0, <1>1, LessFail
<1>2. CASE at' = "loop" /\ pos' = pos + Len(Batch) /\ UNCHANGED phase
  <2>1. Chunk' = Chunk /\ Left'[1] = Left[1] /\ Left'[2] = Left[2]
    BY <1>0, <1>2, SameChunk
  <2>2. Left'[3] = Left[3]  BY <1>0, <1>2, LeftIs, LeftBecomes
  <2>3. Left'[4] < Left[4]
    <3> DEFINE n == Len(Batch)
               c == Len(Chunk)
    <3>1. n \in Nat \ {0} /\ c \in Nat /\ pos \in Nat
      <4>1. pos <= Len(Chunk)  BY <1>0 DEF Course, Looping
      <4> QED  BY <4>1, BatchIs, ChunkIs DEF Course, ClientTypes, Looping
    <3>2. Left[4] = 1 + c - pos /\ Left'[4] = 1 + c - (pos + n)
      BY <1>2, <2>1, LeftIs, LeftBecomes
    <3> HIDE DEF n, c
    <3> QED  BY <3>1, <3>2
  <2>4. 4 \in 1..5 /\ \A j \in 1..(4 - 1) : j = 1 \/ j = 2 \/ j = 3  OBVIOUS
  <2> QED  BY <2>1, <2>2, <2>3, <2>4 DEF LessLeft
<1> QED  BY <1>1, <1>2 DEF TakeImages

LEMMA LessTakeAlbum ==
  ASSUME Course, TakeAlbum
  PROVE LessLeft
<1>0. UNCHANGED <<plan, group, offset>> /\ at = "asking" /\ phase = "album"
  BY DEF TakeAlbum, HasResponse, browserVars, loopVars
<1>1. at' = "ended"  BY <1>0 DEF TakeAlbum, Fail
<1>2. Left'[3] < Left[3]  BY <1>0, <1>1, LeftIs, LeftBecomes
<1> QED  BY <1>0, <1>1, <1>2, LessStage

LEMMA LessTakeRefusal ==
  ASSUME Course, TakeRefusal
  PROVE LessLeft
<1>0. UNCHANGED <<plan, group, offset, pos, phase, attempt>> /\ at = "asking"
      /\ at' \in {"renewing", "waiting"}
  BY DEF TakeRefusal, HasResponse, browserVars, loopVars, requestVars
<1>1. Retries \in Nat /\ attempt \in Nat  BY ImportsAssumption DEF Course, ClientTypes
<1>2. Left'[5] < Left[5]  BY <1>0, <1>1, LeftIs, LeftBecomes
<1> QED  BY <1>0, <1>2, LessAttempt

\* Once more: an attempt fewer is left.
LEMMA LessAgain ==
  ASSUME Course, Renewed \/ Waited
  PROVE LessLeft
<1>0. /\ UNCHANGED <<plan, group, offset, pos>> /\ at \in {"renewing", "waiting"}
      /\ attempt' = attempt + 1 /\ \E cookies : Again(cookies)
  BY DEF Renewed, Waited, browserVars, loopVars
<1>1. CASE Fail("stopped")
  BY <1>0, <1>1, LessFail
<1>2. CASE at' = "asking" /\ UNCHANGED phase
  <2>1. Retries \in Nat /\ attempt \in Nat  BY ImportsAssumption DEF Course, ClientTypes
  <2>2. Left'[5] < Left[5]  BY <1>0, <1>2, <2>1, LeftIs, LeftBecomes
  <2> QED  BY <1>0, <1>2, <2>2, LessAttempt
<1> QED  BY <1>0, <1>1, <1>2 DEF Again, Ask

LEMMA LessGivenUp ==
  ASSUME Course, NotRenewed \/ Cut
  PROVE LessLeft
<1>0. /\ UNCHANGED <<plan, group, offset>> /\ at \in {"renewing", "asking"}
      /\ Fail("answer") \/ Fail("network")
  BY DEF NotRenewed, Cut, browserVars, loopVars
<1> QED  BY <1>0, LessFail

LEMMA LessApi ==
  ASSUME Course, ApiSend \/ ApiTake \/ ApiCut
  PROVE LessLeft
<1>0. UNCHANGED <<plan, group, offset, pos, phase, attempt>> /\ at \in {"loop", "asking"}
  BY DEF ApiSend, ApiTake, ApiCut, HasResponse, browserVars, loopVars, requestVars
<1>1. CASE ApiSend
  <2>1. at = "loop" /\ at' = "asking" /\ attempt' \in Nat
    BY <1>0, <1>1 DEF ApiSend, Ask, Course, ClientTypes
  <2> QED  BY <1>0, <2>1, LessFirst
<1>2. CASE ApiTake \/ ApiCut
  <2>1. at' = "done"  BY <1>2 DEF ApiTake, ApiCut
  <2>2. Len(plan) \in Nat /\ group \in 1..Len(plan)  BY GroupIs DEF Course, ClientTypes
  <2>3. Left'[1] < Left[1]  BY <1>0, <2>1, <2>2, LeftIs, LeftBecomes
  <2>4. 1 \in 1..5 /\ 1..(1 - 1) = {}  OBVIOUS
  <2> QED  BY <2>3, <2>4 DEF LessLeft
<1> QED  BY <1>1, <1>2

LEMMA LessStep ==
  ASSUME Course, [Next]_vars
  PROVE StepCounts
<1>1. ASSUME ClientStep PROVE LessLeft
  BY <1>1, LessNextBatch, LessNextAlbum, LessEndChunk, LessTakeImages, LessTakeAlbum,
     LessTakeRefusal, LessAgain, LessGivenUp, LessApi DEF ClientStep
<1>2. ASSUME ~ClientStep PROVE UNCHANGED Left
  <2>1. UNCHANGED <<plan, clientVars>>
    BY <1>2 DEF Next, Serves, WritesEdit, Unheard, Expire, SwitchAccount, Stop, Interfere,
                browserVars, vars
  <2>2. Chunk' = Chunk  BY <2>1 DEF Chunk, ChunkOf, clientVars, loopVars
  <2> QED  BY <2>1, <2>2 DEF Left, clientVars, loopVars, requestVars
<1> QED  BY <1>1, <1>2, LeftNat DEF StepCounts

-----------------------------------------------------------------------------
(* Theorems of the import *)

LEMMA KnownWhole == Spec => [](IInv /\ Answers /\ Course /\ Whole /\ AllAccounted)
<1>1. Init => Whole /\ AllAccounted  BY DEF Init, InitAlbums, Whole, AllAccounted
<1>2. IInv /\ Answers /\ Course /\ Whole /\ AllAccounted /\ [Next]_vars => Whole' /\ AllAccounted'
  BY WholeStep, AccountedStep, AlbumsAssumption
<1> QED  BY <1>1, <1>2, Known, PTL DEF Spec

\* The variables of the page and of the server have their types: the loops of
\* run() stay within the plan, no request is attempted more than Retries + 2
\* times, what is shown is stored, and what is called an album is one.
THEOREM ImportTypeCorrect == Spec => []TypeOK
<1>1. IInv /\ Answers /\ Course => TypeOK
  <2> SUFFICES ASSUME IInv, Answers, Course PROVE TypeOK  OBVIOUS
  <2>1. AlbumsTypeOK
    BY DEF IInv, Types, Rows, Answers, AlbumsTypeOK, Requested
  <2>2. attempt \in 0..Retries + 1
    BY ImportsAssumption DEF Course, ClientTypes
  <2> QED  BY <2>1, <2>2 DEF Course, ClientTypes, TypeOK, Troubles
<1> QED  BY <1>1, Known, PTL

\* An album holds images of its own account only, which is there, whatever the
\* page sends and however the import is disturbed.
THEOREM ImportMembersOwned == Spec => []MembersOwned
<1>1. IInv => MembersOwned  BY DEF IInv
<1> QED  BY <1>1, Known, PTL

\* An album that the import has shown holds exactly the images the page says it
\* does, unless it was changed since (AlbumService.Create: all or nothing).
THEOREM ConfirmedIsWhole == Spec => []ConfirmedWhole
<1>1. Whole => ConfirmedWhole  BY DEF Whole, ConfirmedWhole
<1> QED  BY <1>1, KnownWhole, PTL

\* At the end of the import every stored image was shown with its token, but for
\* an answer that did not arrive and a commit that was not confirmed, and then
\* the import reports an error (run(), the upload handler's fail()).
THEOREM ImagesAccounted == Spec => []NothingUnaccounted
<1>1. Course /\ AllAccounted => NothingUnaccounted
  <2> SUFFICES ASSUME Course, AllAccounted, at = "done", NEW i \in stored \ shown
               PROVE "network" \in error \/ (i \in uncertain /\ error # {})
    BY DEF NothingUnaccounted
  <2>1. failure = {} /\ ~Pending  BY DEF Course, Stands, Pending
  <2>2. Troubles = error  BY <2>1 DEF Troubles
  <2> QED  BY <2>1, <2>2 DEF AllAccounted, Accounted
<1> QED  BY <1>1, KnownWhole, PTL

\* An import that ends without an error, and that the user did not stop, has
\* stored and shown every file, and has made one album of each chunk that deserves
\* one, of all the files of the chunk: no group, chunk or batch of run() is left
\* out, whatever was sent again meanwhile.
THEOREM CleanEndCompletes == Spec => []CleanEndIsComplete
<1>1. Course /\ ProgressMade => CleanEndIsComplete
  <2> SUFFICES ASSUME Course, ProgressMade, at = "done", page, error = {}, ~stopped,
                      NEW g \in DOMAIN plan
               PROVE /\ \A f \in Range(plan[g].files) : \E i \in shown : i[1] = f
                     /\ ~Albumless(g) =>
                          \A o \in {n * AlbumMax : n \in 0..(Len(plan[g].files) - 1) \div AlbumMax} :
                            \E c \in confirmed : {i[1] : i \in c[2]} = Range(ChunkOf(g, o))
    BY DEF CleanEndIsComplete
  <2>1. plan \in Plans /\ g \in 1..Len(plan)
    <3>1. plan \in Plans  BY DEF Course, ClientTypes
    <3>2. plan \in Seq([titled : BOOLEAN, files : Seq(Files) \ {<<>>}])
      BY <3>1, ImportsAssumption
    <3> QED  BY <3>1, <3>2
  <2>2. plan[g].files \in Seq(Files) /\ Len(plan[g].files) \in Nat \ {0}  BY <2>1, GroupIs
  <2>3. GroupDone(shown, confirmed, plan[g])
    <3>1. Undisturbed  BY DEF Undisturbed, Troubles, Course, Stands
    <3> QED  BY <2>1, <3>1 DEF ProgressMade
  <2>4. ASSUME NEW f \in Range(plan[g].files) PROVE \E i \in shown : i[1] = f
    <3>1. PICK k \in 1..Len(plan[g].files) : f = plan[g].files[k]  BY <2>2 DEF Range
    <3> QED  BY <2>3, <3>1 DEF GroupDone, Seen
  <2>5. ASSUME ~Albumless(g), NEW n \in 0..(Len(plan[g].files) - 1) \div AlbumMax
        PROVE \E c \in confirmed : {i[1] : i \in c[2]} = Range(ChunkOf(g, n * AlbumMax))
    <3>1. Deserves(plan[g])  BY <2>5 DEF Albumless, Deserves
    <3>2. n \in Nat /\ n * AlbumMax < Len(plan[g].files)
      <4> DEFINE l == Len(plan[g].files) - 1
                 d == l \div AlbumMax
      <4>1. l \in Nat /\ AlbumMax \in Nat \ {0}  BY <2>2, ImportsAssumption
      <4>2. n \in 0..d  OBVIOUS
      <4> HIDE DEF l
      <4>3. d \in Nat /\ d * AlbumMax <= l  BY <4>1, QuotientIs
      <4> HIDE DEF d
      <4>4. n \in Nat /\ d - n \in Nat /\ d = n + (d - n)  BY <4>2, <4>3
      <4>5. d * AlbumMax = n * AlbumMax + (d - n) * AlbumMax  BY <4>1, <4>4
      <4>6. (d - n) * AlbumMax \in Nat /\ n * AlbumMax \in Nat  BY <4>1, <4>4
      <4> QED  BY <2>2, <4>1, <4>3, <4>4, <4>5, <4>6 DEF l
    <3>3. Made(confirmed, Piece(plan[g].files, n * AlbumMax))
      BY <2>3, <3>1, <3>2 DEF GroupDone, MadeBefore
    <3> QED  BY <3>3 DEF Made, FilesOf, Piece, ChunkOf
  <2> QED  BY <2>4, <2>5
<1>2. Init => ProgressMade  BY InitProgress
<1>3. IInv /\ Answers /\ Course /\ ProgressMade /\ [Next]_vars => ProgressMade'
  BY ProgressStep
<1> QED  BY <1>1, <1>2, <1>3, Known, PTL DEF Spec

\* However requests are refused, limited, cut off or answered with an error, and
\* whatever is sent again, a file is stored no more often than the selection has
\* it (request(): "Only replay explicit pre-handler rejections").
THEOREM FilesStoredOnce == Spec => []StoredOnce
<1>1. Course /\ OncePlaced => StoredOnce
  <2> SUFFICES ASSUME Course, OncePlaced, NEW f \in Files
               PROVE Cardinality({i \in stored : i[1] = f}) <= Cardinality({o \in Places : FileAt(o) = f})
    BY DEF StoredOnce
  <2> DEFINE rows == {i \in stored : i[1] = f}
             room == {o \in Places : FileAt(o) = f}
  <2>1. PICK origin : Apart(origin, stored)  BY DEF OncePlaced
  <2> DEFINE places == [i \in rows |-> origin[i]]
  <2>2. places \in Injection(rows, room)
    <3>1. ASSUME NEW i \in rows PROVE i \in stored /\ i[1] = f  OBVIOUS
    <3>2. ASSUME NEW i \in rows PROVE origin[i] \in room
      <4>1. origin[i] \in Places /\ FileAt(origin[i]) = f  BY <2>1, <3>1 DEF Apart
      <4> QED  BY <4>1
    <3> HIDE DEF rows, room
    <3>3. places \in [rows -> room]  BY <3>2
    <3>4. \A i, j \in rows : places[i] = places[j] => i = j  BY <2>1, <3>1 DEF Apart
    <3> HIDE DEF places
    <3>5. DOMAIN places = rows  BY <3>3
    <3> QED  BY <3>3, <3>4, <3>5 DEF Injection, IsInjective
  <2>3. IsFiniteSet(room)  BY PlacesFinite, FS_Subset
  <2> HIDE DEF rows, room
  <2>4. Cardinality(rows) <= Cardinality(room)  BY <2>2, <2>3, FS_Injection
  <2> QED  BY <2>4 DEF rows, room
<1>2. Init => OncePlaced  BY InitPlaced
<1>3. IInv /\ Answers /\ Course /\ OncePlaced /\ [Next]_vars => OncePlaced'
  BY PlacedStep, AlbumsAssumption
<1> QED  BY <1>1, <1>2, <1>3, Known, PTL DEF Spec

\* No step of the client goes back or stands still, for any selection and limits:
\* each makes the five natural numbers of Left smaller in their lexicographic order,
\* which has no endless descent, and no other step makes them larger.  This is the
\* reason why ImportEnds holds (run(), batches(), request()).
THEOREM NoEndlessImport == Spec => ImportAdvances
<1>1. IInv /\ Answers /\ Course /\ [Next]_vars => [StepCounts]_vars
  BY LessStep
<1> QED  BY <1>1, Known, PTL DEF Spec, ImportAdvances

=============================================================================
