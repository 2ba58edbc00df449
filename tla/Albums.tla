------------------------------- MODULE Albums -------------------------------
(***************************************************************************)
(* Albums and the requests that fill them: an upload of several files with *)
(* the album it may make of them, the creation of an album from images     *)
(* that are there, and adding, removing and deleting, each of which reads  *)
(* before it writes.  Meanwhile images are deleted, accounts are removed,  *)
(* commit answers are lost and the server dies.                            *)
(*                                                                         *)
(* What an image needs to exist (file, quota) is the matter of ImageStore: *)
(* here a row is there, deleted, or was never made.                        *)
(***************************************************************************)
EXTENDS FiniteSets, Naturals, Sequences

CONSTANTS
  Users,       \* accounts; one that is removed never comes back
  Nobody,      \* the owner of an anonymous image, or no credentials
  Stale,       \* cookies of a session that is over
  Files,       \* what a client may send: files with the same bytes are one
  Copies,      \* bound: images that one file may become
  AlbumIds,
  NoAlbum,
  Requests,    \* requests of clients
  Editors,     \* requests that change an album
  MaxFiles,    \* Upload.MaxFiles
  Faults       \* {"db", "crash"}

Images == Files \X (1..Copies)
Owners == Users \cup {Nobody}
Identities == Owners \cup {Stale}

ASSUME AlbumsAssumption ==
  /\ Nobody \notin Users /\ Stale \notin Users \cup {Nobody}
  /\ NoAlbum \notin AlbumIds
  /\ Copies \in Nat /\ MaxFiles \in Nat \ {0}

VARIABLES
  users,       \* accounts that are there
  stored,      \* images with a row, deleted or not
  deleted,     \* images with deleted_at
  owner,       \* user_id of each image
  uncertain,   \* images whose commit was not confirmed
  albumOwner,  \* user_id of each album; Nobody where there is none
  members,     \* album_images
  used,        \* album ids that have been given
  edited,      \* albums changed after they were made
  req,         \* the requests at the server
  edit         \* an editor between what it read and what it writes

imageVars == <<users, stored, deleted, owner, uncertain>>
albumVars == <<albumOwner, members, used, edited>>
albumsVars == <<imageVars, albumVars, req, edit>>

Kinds == {"upload", "auto", "create"}

Idle == [stage |-> "idle", kind |-> "upload", cookies |-> Nobody, who |-> Nobody,
         input |-> <<>>, images |-> <<>>, fresh |-> FALSE, checked |-> 0, album |-> NoAlbum,
         status |-> "none"]

NoEdit == [op |-> "none", album |-> NoAlbum, image |-> <<>>]

ElementsOf(seq) == {seq[k] : k \in DOMAIN seq}

InitAlbums ==
  /\ users = Users
  /\ stored = {} /\ deleted = {} /\ uncertain = {}
  /\ owner = [i \in Images |-> Nobody]
  /\ albumOwner = [a \in AlbumIds |-> Nobody]
  /\ members = [a \in AlbumIds |-> {}]
  /\ used = {} /\ edited = {}
  /\ req = [q \in Requests |-> Idle]
  /\ edit = [e \in Editors |-> NoEdit]

-----------------------------------------------------------------------------
(* Requests come and are answered *)

Update(q, r) == req' = [req EXCEPT ![q] = r]
Answered(r, status) == [r EXCEPT !.stage = "answered", !.status = status, !.fresh = FALSE]

\* kind "auto" is an upload without auto_album=false.
Send(q, kind, cookies, input) ==
  /\ req[q].stage = "idle"
  /\ Update(q, [Idle EXCEPT !.stage = "sent", !.kind = kind, !.cookies = cookies, !.input = input])

\* RateLimiter: 429 before the handler
Limit(q) ==
  /\ req[q].stage = "sent"
  /\ Update(q, Answered(req[q], "limited"))
  /\ UNCHANGED <<imageVars, albumVars, edit>>

\* An upload with credentials that identify no account is refused, and one
\* without any is anonymous; the album routes need an account.
Refuse(q) ==
  /\ req[q].stage = "sent"
  /\ \/ req[q].cookies \in (Users \ users) \cup {Stale}
     \/ req[q].cookies = Nobody /\ req[q].kind = "create"
  /\ Update(q, Answered(req[q], "unauthorized"))
  /\ UNCHANGED <<imageVars, albumVars, edit>>

Begin(q) ==
  LET r == req[q] IN
  /\ r.stage = "sent"
  /\ r.cookies \in IF r.kind = "create" THEN users ELSE users \cup {Nobody}
  /\ Update(q, IF r.kind = "create"
               THEN [r EXCEPT !.stage = "checking", !.who = r.cookies, !.images = r.input]
               ELSE [r EXCEPT !.stage = "storing", !.who = r.cookies])
  /\ UNCHANGED <<imageVars, albumVars, edit>>

-----------------------------------------------------------------------------
(* Upload: one part after the other, each committed on its own *)

NextPart(q) == req[q].input[Len(req[q].images) + 1]
Fresh(f) == {i \in Images \ stored : i[1] = f /\ \A n \in 1..i[2] - 1 : <<f, n>> \in stored}

Storing(q) ==
  /\ req[q].stage = "storing"
  /\ Len(req[q].images) < Len(req[q].input)
  /\ Len(req[q].images) < MaxFiles

InsertRow(q, i) ==
  /\ req[q].who \in users \cup {Nobody}
  /\ stored' = stored \cup {i}
  /\ owner' = [owner EXCEPT ![i] = req[q].who]

\* GetBySHA256: what the account already has of the same bytes
Same(q) == {i \in stored \ deleted : i[1] = NextPart(q) /\ owner[i] = req[q].who}

\* A file that the account has is not stored again, and its answer is that of
\* the image which is there.
LookUp(q) ==
  LET r == req[q] IN
  /\ Storing(q) /\ ~r.fresh /\ r.who # Nobody
  /\ IF Same(q) = {} THEN Update(q, [r EXCEPT !.fresh = TRUE])
     ELSE \E i \in Same(q) : Update(q, [r EXCEPT !.images = Append(@, i)])
  /\ UNCHANGED <<imageVars, albumVars, edit>>

LookedUp(q) == Storing(q) /\ (req[q].fresh \/ req[q].who = Nobody)

StorePart(q) ==
  /\ LookedUp(q)
  /\ \E i \in Fresh(NextPart(q)) :
       /\ InsertRow(q, i)
       /\ Update(q, [req[q] EXCEPT !.images = Append(@, i), !.fresh = FALSE])
  /\ UNCHANGED <<users, deleted, uncertain, albumVars, edit>>

\* Faulty variant: the images stored so far are not named when a later part fails.
FailPartAlone(q) ==
  /\ Storing(q)
  /\ Update(q, Answered([req[q] EXCEPT !.images = <<>>], "failed"))
  /\ UNCHANGED <<imageVars, albumVars, edit>>

\* fail(): whatever is wrong with a part ends the request, and the answer names
\* the images of the parts before it.
FailPart(q) ==
  /\ Storing(q)
  /\ Update(q, Answered(req[q], "failed"))
  /\ UNCHANGED <<imageVars, albumVars, edit>>

\* CreateWithQuota does not learn what became of its commit (ErrCommitUncertain);
\* when nothing was committed it is a part that failed.
StoreUncertain(q) ==
  /\ "db" \in Faults /\ LookedUp(q)
  /\ \E i \in Fresh(NextPart(q)) : InsertRow(q, i) /\ uncertain' = uncertain \cup {i}
  /\ Update(q, Answered(req[q], "failed"))
  /\ UNCHANGED <<users, deleted, albumVars, edit>>

\* More files than Upload.MaxFiles
TooMany(q) ==
  /\ req[q].stage = "storing"
  /\ Len(req[q].images) = MaxFiles /\ Len(req[q].input) > MaxFiles
  /\ Update(q, Answered(req[q], "failed"))
  /\ UNCHANGED <<imageVars, albumVars, edit>>

\* All parts are stored; two and more of an account become an album.
AllStored(q) ==
  LET r == req[q] IN
  /\ r.stage = "storing" /\ Len(r.images) = Len(r.input)
  /\ Update(q, IF r.kind = "auto" /\ Len(r.images) > 1 /\ r.who # Nobody
               THEN [r EXCEPT !.stage = "checking"]
               ELSE Answered(r, "ok"))
  /\ UNCHANGED <<imageVars, albumVars, edit>>

-----------------------------------------------------------------------------
(* AlbumService.Create: look at the images one by one, then one transaction *)

\* An album that fails is not a failure of the upload that asked for it.
NoAlbumMade(q) == Update(q, Answered(req[q], IF req[q].kind = "auto" THEN "ok" ELSE "failed"))

Checking(q) == req[q].stage = "checking" /\ req[q].checked < Len(req[q].images)
Candidate(q) == req[q].images[req[q].checked + 1]
MayAdd(u, i) == i \in stored \ deleted /\ owner[i] = u

\* Faulty variant: the owner of an image is not looked at.
CheckImageAnyOwner(q) ==
  /\ Checking(q)
  /\ IF Candidate(q) \in stored \ deleted
     THEN Update(q, [req[q] EXCEPT !.checked = @ + 1])
     ELSE NoAlbumMade(q)
  /\ UNCHANGED <<imageVars, albumVars, edit>>

\* Faulty variant: an image that may not be added is left out.
CheckImageSkipping(q) ==
  LET r == req[q] IN
  /\ Checking(q)
  /\ Update(q, IF MayAdd(r.who, Candidate(q)) THEN [r EXCEPT !.checked = @ + 1]
               ELSE [r EXCEPT !.images = SelectSeq(@, LAMBDA i : i # Candidate(q))])
  /\ UNCHANGED <<imageVars, albumVars, edit>>

CheckImage(q) ==
  /\ Checking(q)
  /\ IF MayAdd(req[q].who, Candidate(q))
     THEN Update(q, [req[q] EXCEPT !.checked = @ + 1])
     ELSE NoAlbumMade(q)
  /\ UNCHANGED <<imageVars, albumVars, edit>>

Ready(q) == req[q].stage = "checking" /\ req[q].checked = Len(req[q].images)

\* The foreign key holds users off while the album is inserted.
InsertAlbum(q, a) ==
  /\ req[q].who \in users
  /\ albumOwner' = [albumOwner EXCEPT ![a] = req[q].who]
  /\ members' = [members EXCEPT ![a] = ElementsOf(req[q].images)]
  /\ used' = used \cup {a}
  /\ UNCHANGED edited

MakeAlbum(q) ==
  /\ Ready(q)
  /\ \E a \in AlbumIds \ used :
       /\ InsertAlbum(q, a)
       /\ Update(q, Answered([req[q] EXCEPT !.album = a], "ok"))
  /\ UNCHANGED <<imageVars, edit>>

\* The commit answer is lost, or loadImages fails after it: the album is there
\* and the request does not say so.
MakeAlbumUnheard(q) ==
  /\ "db" \in Faults /\ Ready(q)
  /\ \E a \in AlbumIds \ used : InsertAlbum(q, a)
  /\ NoAlbumMade(q)
  /\ UNCHANGED <<imageVars, edit>>

\* The database fails, or the account is gone.
FailAlbum(q) ==
  /\ req[q].stage = "checking"
  /\ "db" \in Faults \/ (Ready(q) /\ req[q].who \notin users)
  /\ NoAlbumMade(q)
  /\ UNCHANGED <<imageVars, albumVars, edit>>

-----------------------------------------------------------------------------
(* AddImage, RemoveImage, Delete: what they read, then what they write *)

Edits(e, r) == edit' = [edit EXCEPT ![e] = r]

ReadAdd(e, a, i) ==
  /\ edit[e] = NoEdit /\ albumOwner[a] # Nobody
  /\ MayAdd(albumOwner[a], i)
  /\ Edits(e, [op |-> "add", album |-> a, image |-> i])
  /\ UNCHANGED <<imageVars, albumVars, req>>

ReadRemove(e, a, i) ==
  /\ edit[e] = NoEdit /\ albumOwner[a] # Nobody
  /\ i \in stored \ deleted
  /\ Edits(e, [op |-> "remove", album |-> a, image |-> i])
  /\ UNCHANGED <<imageVars, albumVars, req>>

ReadDelete(e, a) ==
  /\ edit[e] = NoEdit /\ albumOwner[a] # Nobody
  /\ Edits(e, [op |-> "delete", album |-> a, image |-> <<>>])
  /\ UNCHANGED <<imageVars, albumVars, req>>

\* Nothing is written for an album that has gone: the foreign key refuses a
\* member of it, and the other statements meet no row.
WriteEdit(e) ==
  LET op == edit[e].op
      a  == edit[e].album
  IN
  /\ op # "none"
  /\ IF albumOwner[a] = Nobody THEN UNCHANGED <<albumOwner, members, edited>>
     ELSE /\ members' = [members EXCEPT ![a] = CASE op = "add"    -> @ \cup {edit[e].image}
                                                 [] op = "remove" -> @ \ {edit[e].image}
                                                 [] op = "delete" -> {}]
          /\ albumOwner' = [albumOwner EXCEPT ![a] = IF op = "delete" THEN Nobody ELSE @]
          /\ edited' = edited \cup {a}
  /\ Edits(e, NoEdit)
  /\ UNCHANGED <<imageVars, used, req>>

-----------------------------------------------------------------------------
(* What happens to images, accounts and the server meanwhile *)

DeleteImage(i) ==
  /\ i \in stored \ deleted
  /\ deleted' = deleted \cup {i}
  /\ UNCHANGED <<users, stored, owner, uncertain, albumVars, req, edit>>

\* DELETE FROM users: the images stay and lose their owner (ON DELETE SET NULL),
\* the albums go with the account (ON DELETE CASCADE).
RemoveUser(u) ==
  LET albums == {a \in AlbumIds : albumOwner[a] = u} IN
  /\ u \in users
  /\ users' = users \ {u}
  /\ owner' = [i \in Images |-> IF owner[i] = u THEN Nobody ELSE owner[i]]
  /\ albumOwner' = [a \in AlbumIds |-> IF a \in albums THEN Nobody ELSE albumOwner[a]]
  /\ members' = [a \in AlbumIds |-> IF a \in albums THEN {} ELSE members[a]]
  /\ edited' = edited \cup albums
  /\ UNCHANGED <<stored, deleted, uncertain, used, req, edit>>

\* Requests that were running are gone without an answer.
Crash ==
  /\ "crash" \in Faults
  /\ req' = [q \in Requests |-> IF req[q].stage = "answered" THEN req[q] ELSE Idle]
  /\ edit' = [e \in Editors |-> NoEdit]
  /\ UNCHANGED <<imageVars, albumVars>>

-----------------------------------------------------------------------------
Serve(q) ==
  \/ Limit(q) \/ Refuse(q) \/ Begin(q)
  \/ LookUp(q) \/ StorePart(q) \/ FailPart(q) \/ StoreUncertain(q) \/ TooMany(q) \/ AllStored(q)
  \/ CheckImage(q) \/ MakeAlbum(q) \/ MakeAlbumUnheard(q) \/ FailAlbum(q)

Edit(e) ==
  \/ \E a \in AlbumIds : ReadDelete(e, a) \/ \E i \in Images : ReadAdd(e, a, i) \/ ReadRemove(e, a, i)
  \/ WriteEdit(e)

\* Any client sends what it likes, and its answer is taken or is lost.
Sent(r) ==
  /\ r.kind \in Kinds /\ r.cookies \in Identities
  /\ r.input \in IF r.kind = "create" THEN Seq(Images) ELSE Seq(Files)
  /\ r = [Idle EXCEPT !.stage = "sent", !.kind = r.kind, !.cookies = r.cookies, !.input = r.input]

Client(q) ==
  /\ \/ req[q].stage = "idle" /\ Sent(req'[q])
     \/ req[q].stage \in {"sent", "answered"} /\ req'[q] = Idle
  /\ Update(q, req'[q])
  /\ UNCHANGED <<imageVars, albumVars, edit>>

ServerNext ==
  \/ \E q \in Requests : Serve(q)
  \/ \E e \in Editors : Edit(e)

AlbumsNext ==
  \/ ServerNext
  \/ \E q \in Requests : Client(q)
  \/ \E i \in Images : DeleteImage(i)
  \/ \E u \in Users : RemoveUser(u)
  \/ Crash

AlbumsSpec == InitAlbums /\ [][AlbumsNext]_albumsVars

-----------------------------------------------------------------------------
(* Properties *)

AlbumsTypeOK ==
  /\ users \subseteq Users
  /\ deleted \subseteq stored /\ stored \subseteq Images /\ uncertain \subseteq stored
  /\ owner \in [Images -> Owners]
  /\ albumOwner \in [AlbumIds -> Owners]
  /\ members \in [AlbumIds -> SUBSET stored]
  /\ edited \subseteq used /\ used \subseteq AlbumIds
  /\ req \in [Requests ->
       [stage : {"idle", "sent", "storing", "checking", "answered"}, kind : Kinds,
        cookies : Identities, who : Owners, input : Seq(Files) \cup Seq(Images),
        images : Seq(Images), fresh : BOOLEAN, checked : Nat, album : AlbumIds \cup {NoAlbum},
        status : {"none", "ok", "failed", "limited", "unauthorized"}]]
  /\ edit \in [Editors -> [op : {"none", "add", "remove", "delete"},
                           album : AlbumIds \cup {NoAlbum}, image : Images \cup {<<>>}]]

\* An album that can be opened belongs to an account that is there, and so does
\* every image in it, though the owner of an image, the album and the account
\* are read before the statement that makes it a member (AlbumService.Create,
\* AddImage; the upload handler's album).
MembersOwned ==
  \A a \in AlbumIds :
    IF albumOwner[a] = Nobody THEN members[a] = {}
    ELSE albumOwner[a] \in users /\ \A i \in members[a] : owner[i] = albumOwner[a]
=============================================================================
