------------------------------ MODULE Imports ------------------------------
(***************************************************************************)
(* PXLUpload.run in the upload page: the files of a selection go out in    *)
(* batches, one request at a time, and the images of a group end in one    *)
(* album.  Requests are refused, limited, cut off or half done, the user   *)
(* stops, and another page of the same browser signs out or in.            *)
(*                                                                         *)
(* Albums is the server.  The same module carries an API client that sends *)
(* one upload and lets the server make the album.                          *)
(***************************************************************************)
EXTENDS Albums, Functions, SequencesExt

CONSTANTS
  Me,          \* who is signed in when the import begins
  Plans,       \* what planFiles may return: sequences of groups
  Size,        \* bytes of each file
  MaxBytes,    \* 32 MiB
  AlbumMax,    \* 1000
  Retries,     \* 3
  MaxEvents    \* bound: how often others interfere

ASSUME ImportsAssumption ==
  /\ Me \in Users
  /\ Requests = {"upload", "album"}
  /\ Size \in [Files -> Nat]
  /\ {AlbumMax, MaxBytes} \subseteq Nat \ {0} /\ {Retries, MaxEvents} \subseteq Nat
  \* planFiles puts a file in every group that it makes, and run() does nothing
  \* with a plan of no group.
  /\ Plans \subseteq Seq([titled : BOOLEAN, files : Seq(Files) \ {<<>>}]) \ {<<>>}

VARIABLES
  plan,        \* the groups: [titled, files]
  page,        \* the client is the upload page, or else an API client
  jar,         \* what the cookies of the browser identify
  group, offset, pos,  \* the loops: group, start of the chunk, next file of the chunk
  phase,       \* the request under way is an "upload" or makes an "album"
  at,          \* where the client stands
  attempt, refreshed,  \* of the request under way
  ids,         \* images of this chunk, as answered
  failure,     \* what went wrong in this chunk
  stopped,     \* the user stopped the import
  shown,       \* images whose links and deletion tokens were shown
  confirmed,   \* albums shown, each with the images it was made of
  error,       \* what the summary reports
  events

loopVars == <<group, offset, pos>>
requestVars == <<attempt, refreshed>>
resultVars == <<shown, confirmed, error>>
browserVars == <<plan, page, jar, stopped, events>>
clientVars == <<loopVars, phase, at, requestVars, ids, failure, resultVars>>
vars == <<albumsVars, browserVars, clientVars>>

Init ==
  /\ InitAlbums
  /\ plan \in Plans /\ page \in BOOLEAN
  /\ jar = Me
  /\ group = 1 /\ offset = 0 /\ pos = 1
  /\ phase = "upload" /\ at = "loop"
  /\ attempt = 0 /\ refreshed = FALSE
  /\ ids = {} /\ failure = {}
  /\ stopped = FALSE
  /\ shown = {} /\ confirmed = {} /\ error = {}
  /\ events = 0

-----------------------------------------------------------------------------
(* The loops of run() *)

ChunkOf(g, o) == SubSeq(plan[g].files, o + 1, Min({o + AlbumMax, Len(plan[g].files)}))
Chunk == ChunkOf(group, offset)

Bytes(files) == FoldSeq(LAMBDA f, n : Size[f] + n, 0, files)

\* batches(): a batch takes files as long as their number and bytes allow it,
\* and one file at least.
Batch ==
  LET Upto(e) == SubSeq(Chunk, pos, e)
  IN Upto(Max({e \in pos..Len(Chunk) :
                 e = pos \/ (Len(Upto(e)) <= MaxFiles /\ Bytes(Upto(e)) <= MaxBytes)}))

SameServer == UNCHANGED <<imageVars, albumVars, edit>>
FirstAttempt == attempt' = 0 /\ refreshed' = FALSE

Ask(kind, cookies, input) == Send(phase, kind, cookies, input) /\ at' = "asking"

\* The next batch; stopping between two ends the loop without an error.
NextBatch ==
  /\ page /\ at = "loop" /\ phase = "upload"
  /\ IF stopped \/ pos > Len(Chunk)
     THEN phase' = "album" /\ UNCHANGED <<at, req, requestVars>>
     ELSE Ask("upload", jar, Batch) /\ FirstAttempt /\ UNCHANGED phase
  /\ UNCHANGED <<browserVars, loopVars, ids, failure, resultVars>>
  /\ SameServer

\* No album of no image, nor of a single loose file.
Albumless(g) == ~plan[g].titled /\ Len(plan[g].files) = 1

NextAlbum ==
  /\ at = "loop" /\ phase = "album"
  /\ IF ids = {} \/ Albumless(group)
     THEN at' = "ended" /\ UNCHANGED <<req, requestVars>>
     ELSE Ask("create", jar, SetToSeq(ids)) /\ FirstAttempt
  /\ UNCHANGED <<browserVars, loopVars, phase, ids, failure, resultVars>>
  /\ SameServer

\* A failure ends the import; else the next chunk, the next group, or the end.
EndChunk ==
  LET more == offset + AlbumMax < Len(plan[group].files) IN
  /\ at = "ended"
  /\ error' = failure
  /\ IF failure # {} \/ stopped \/ (~more /\ group = Len(plan))
     THEN at' = "done" /\ UNCHANGED loopVars
     ELSE /\ at' = "loop" /\ pos' = 1
          /\ group' = IF more THEN group ELSE group + 1
          /\ offset' = IF more THEN offset + AlbumMax ELSE 0
  /\ phase' = "upload" /\ ids' = {} /\ failure' = {}
  /\ UNCHANGED <<browserVars, requestVars, shown, confirmed, req>>
  /\ SameServer

-----------------------------------------------------------------------------
(* request(): one request, and what is done with its answer *)

Response == req[phase]
HasResponse == at = "asking" /\ Response.stage = "answered"
Receive == Update(phase, Idle)

Fail(cause) ==
  /\ failure' = failure \cup {cause}
  /\ IF phase = "upload" THEN phase' = "album" /\ at' = "loop"
     ELSE at' = "ended" /\ UNCHANGED phase

\* Faulty variant: an upload that failed at the server is sent again, too.
RepeatsFailed ==
  /\ phase = "upload" => Response.images = <<>>
  /\ \/ Response.status = "unauthorized" /\ ~refreshed
     \/ Response.status \in {"limited", "failed"} /\ attempt < Retries

\* Faulty variant: a limited request is sent again however often it was.
RepeatsAlways ==
  /\ phase = "upload" => Response.images = <<>>
  /\ (Response.status = "unauthorized" /\ ~refreshed) \/ Response.status = "limited"

\* Only what the server refused before it did anything.
Repeats ==
  /\ phase = "upload" => Response.images = <<>>
  /\ \/ Response.status = "unauthorized" /\ ~refreshed
     \/ Response.status = "limited" /\ attempt < Retries

\* Faulty variant: any answer with images is a success.
CompleteIfAny(r, batch) == r.images # <<>>

\* 2xx, and as many images as files
Complete(r, batch) == r.status = "ok" /\ Len(r.images) = Len(batch)

TakeImages ==
  /\ page /\ phase = "upload" /\ HasResponse /\ ~Repeats
  /\ ids' = ids \cup ElementsOf(Response.images)
  /\ shown' = shown \cup ElementsOf(Response.images)
  /\ IF Complete(Response, Batch)
     THEN at' = "loop" /\ pos' = pos + Len(Batch) /\ UNCHANGED <<phase, failure>>
     ELSE Fail("answer") /\ UNCHANGED pos
  /\ Receive
  /\ UNCHANGED <<browserVars, group, offset, requestVars, confirmed, error>>
  /\ SameServer

TakeAlbum ==
  /\ phase = "album" /\ HasResponse /\ ~Repeats
  /\ IF Response.status = "ok"
     THEN /\ confirmed' = confirmed \cup {<<Response.album, ids>>}
          /\ at' = "ended" /\ UNCHANGED <<phase, failure>>
     ELSE Fail("album") /\ UNCHANGED confirmed
  /\ Receive
  /\ UNCHANGED <<browserVars, loopVars, requestVars, ids, shown, error>>
  /\ SameServer

\* A refusal is followed by a renewal of the session, a 429 by a wait.
TakeRefusal ==
  /\ page /\ HasResponse /\ Repeats
  /\ at' = IF Response.status = "unauthorized" THEN "renewing" ELSE "waiting"
  /\ Receive
  /\ UNCHANGED <<browserVars, loopVars, phase, requestVars, ids, failure, resultVars>>
  /\ SameServer

\* Once more with the same body and the cookies of now.  The user may have
\* stopped an upload meanwhile; an album is made all the same.
Again(cookies) ==
  IF phase = "upload"
  THEN IF stopped THEN Fail("stopped") /\ UNCHANGED req
       ELSE Ask("upload", cookies, Batch) /\ UNCHANGED <<phase, failure>>
  ELSE Ask("create", cookies, SetToSeq(ids)) /\ UNCHANGED <<phase, failure>>

\* PXLSession.refresh has renewed the session, or another page has.
Renewed ==
  /\ at = "renewing" /\ jar # Nobody
  /\ jar = Stale => Me \in users
  /\ jar' = IF jar = Stale THEN Me ELSE jar
  /\ refreshed' = TRUE /\ attempt' = attempt + 1
  /\ Again(jar')
  /\ UNCHANGED <<plan, page, stopped, events, loopVars, ids, resultVars>>
  /\ SameServer

\* The 401 is the answer.
NotRenewed ==
  /\ at = "renewing"
  /\ Fail("answer")
  /\ UNCHANGED <<browserVars, loopVars, requestVars, ids, resultVars, req>>
  /\ SameServer

\* Faulty variant: the attempts are not counted.
WaitedForever ==
  /\ at = "waiting"
  /\ Again(jar)
  /\ UNCHANGED <<browserVars, loopVars, requestVars, ids, resultVars>>
  /\ SameServer

Waited ==
  /\ at = "waiting"
  /\ attempt' = attempt + 1
  /\ Again(jar)
  /\ UNCHANGED <<browserVars, loopVars, refreshed, ids, resultVars>>
  /\ SameServer

\* The connection breaks, or nothing was heard for five minutes.  The server
\* may not have heard of the request, or go on with it.
Cut ==
  /\ page /\ at = "asking"
  /\ Fail("network")
  /\ UNCHANGED req \/ (Response.stage \in {"sent", "answered"} /\ Receive)
  /\ UNCHANGED <<browserVars, loopVars, requestVars, ids, resultVars>>
  /\ SameServer

-----------------------------------------------------------------------------
(* An API client: one upload, an album made by the server, no repetition *)

ApiSend ==
  /\ ~page /\ at = "loop"
  /\ Ask("auto", Me, plan[1].files)
  /\ UNCHANGED <<browserVars, loopVars, phase, requestVars, ids, failure, resultVars>>
  /\ SameServer

ApiTake ==
  /\ ~page /\ HasResponse
  /\ shown' = ElementsOf(Response.images)
  /\ confirmed' = IF Response.album = NoAlbum THEN {}
                  ELSE {<<Response.album, ElementsOf(Response.images)>>}
  /\ error' = IF Response.status = "ok" THEN {} ELSE {"answer"}
  /\ at' = "done"
  /\ Receive
  /\ UNCHANGED <<browserVars, loopVars, phase, requestVars, ids, failure>>
  /\ SameServer

ApiCut ==
  /\ ~page /\ at = "asking"
  /\ error' = {"network"} /\ at' = "done"
  /\ UNCHANGED <<browserVars, loopVars, phase, requestVars, ids, failure, shown, confirmed, req>>
  /\ SameServer

-----------------------------------------------------------------------------
(* What others do while the import runs, MaxEvents times in all *)

Happens == at # "done" /\ events < MaxEvents /\ events' = events + 1

\* The session is over, and renewing it may or may not work.
Expire ==
  /\ Happens /\ jar \in Users
  /\ jar' = Stale
  /\ UNCHANGED <<albumsVars, plan, page, stopped, clientVars>>

\* Another page signs out, or signs in as anyone.
SwitchAccount ==
  /\ Happens
  /\ jar' \in Owners \ {jar} /\ jar' \in users \cup {Nobody}
  /\ UNCHANGED <<albumsVars, plan, page, stopped, clientVars>>

Stop ==
  /\ page /\ at # "done" /\ ~stopped
  /\ stopped' = TRUE
  /\ UNCHANGED <<albumsVars, plan, page, jar, events, clientVars>>

Interfere ==
  /\ Happens
  /\ \/ \E i \in Images : DeleteImage(i)
     \/ \E u \in Users : RemoveUser(u)
     \/ \E e \in Editors : Edit(e)
     \/ Crash
  /\ UNCHANGED <<plan, page, jar, stopped, clientVars>>

WritesEdit == (\E e \in Editors : WriteEdit(e)) /\ UNCHANGED <<browserVars, clientVars>>
Serves == (\E q \in Requests : Serve(q)) /\ UNCHANGED <<browserVars, clientVars>>

\* The answer to a request that the client has given up.
Unheard ==
  /\ at # "asking" \/ phase = "album"
  /\ req["upload"].stage = "answered"
  /\ Update("upload", Idle)
  /\ SameServer /\ UNCHANGED <<browserVars, clientVars>>

ClientStep ==
  \/ NextBatch \/ NextAlbum \/ EndChunk
  \/ TakeImages \/ TakeAlbum \/ TakeRefusal
  \/ Renewed \/ NotRenewed \/ Waited \/ Cut
  \/ ApiSend \/ ApiTake \/ ApiCut

Next ==
  \/ ClientStep \/ Serves \/ WritesEdit \/ Unheard
  \/ Expire \/ SwitchAccount \/ Stop \/ Interfere

\* Scripts run, requests are answered or time out, and waits end.
Spec == Init /\ [][Next]_vars
FairSpec == Spec /\ WF_vars(ClientStep)

-----------------------------------------------------------------------------
(* Properties *)

TypeOK ==
  /\ AlbumsTypeOK
  /\ plan \in Plans /\ page \in BOOLEAN /\ stopped \in BOOLEAN /\ refreshed \in BOOLEAN
  /\ jar \in Identities
  /\ group \in 1..Len(plan) /\ {offset, pos} \subseteq Nat
  /\ phase \in Requests /\ at \in {"loop", "asking", "renewing", "waiting", "ended", "done"}
  /\ attempt \in 0..Retries + 1 /\ events \in 0..MaxEvents
  /\ ids \subseteq shown /\ shown \subseteq stored
  /\ failure \cup error \subseteq {"answer", "album", "stopped", "network"}
  /\ \A c \in confirmed : c[1] \in used /\ c[2] \subseteq shown

Places == UNION {{g} \X DOMAIN plan[g].files : g \in DOMAIN plan}
FileAt(place) == plan[place[1]].files[place[2]]

\* However requests are refused, limited, cut off or answered with an error, a
\* file is stored once for each time the selection has it, if not less: "Only replay explicit pre-handler
\* rejections. Network/5xx failures may have committed data" (request()).
StoredOnce ==
  \A f \in Files :
    Cardinality({i \in stored : i[1] = f}) <= Cardinality({o \in Places : FileAt(o) = f})

\* An import that ends without an error and was not stopped has stored and shown
\* every file, and has made one album of each chunk that deserves one, of all
\* the files of the chunk (run()).
CleanEndIsComplete ==
  (at = "done" /\ page /\ error = {} /\ ~stopped) =>
    \A g \in DOMAIN plan :
      /\ \A f \in Range(plan[g].files) : \E i \in shown : i[1] = f
      /\ ~Albumless(g) =>
           \A o \in {n * AlbumMax : n \in 0..(Len(plan[g].files) - 1) \div AlbumMax} :
             \E c \in confirmed : {i[1] : i \in c[2]} = Range(ChunkOf(g, o))

\* The album that was shown holds exactly the images of which the page says it
\* does, unless it was changed since (AlbumService.Create: all or nothing).
ConfirmedWhole ==
  \A c \in confirmed : c[1] \in edited \/ members[c[1]] = c[2]

\* "Earlier parts are committed individually. Return their one-time deletion
\* capabilities even when a later part fails": at the end every stored image was
\* shown with its token, but for those of an answer that did not arrive, and for
\* a commit that was not confirmed; and then the import reports an error.
NothingUnaccounted ==
  at = "done" => \A i \in stored \ shown :
                   "network" \in error \/ (i \in uncertain /\ error # {})

\* What is left of the import, from the coarse to the fine: groups, files of the
\* group, requests of the chunk, files of the chunk, attempts of the request.
Left == <<
  IF at = "done" THEN 0 ELSE 1 + Len(plan) - group,
  Len(plan[group].files) - offset,
  IF at = "ended" THEN 0 ELSE IF phase = "album" THEN 1 ELSE 2,
  1 + Len(Chunk) - pos,
  IF at = "loop" THEN 2 * (Retries + 2)
  ELSE 2 * (Retries + 1 - attempt) + (IF at = "asking" THEN 1 ELSE 0)>>

\* One of the numbers goes down, and those before it stay.
LessLeft ==
  \E k \in 1..5 : Left'[k] < Left[k] /\ \A j \in 1..(k - 1) : Left'[j] = Left[j]

StepCounts ==
  /\ \A k \in 1..5 : Left[k] \in Nat
  /\ IF ClientStep THEN LessLeft ELSE UNCHANGED Left

\* The loops of run(), batches() and request() never go back or stand still: every
\* step of the client leaves less to do, whatever is refused, cut off or sent
\* again, and nothing that others do leaves more.  No import has endless steps.
ImportAdvances == [][StepCounts]_vars

\* The import comes to an end: 401 and 429 are not repeated for ever.
ImportEnds == <>(at = "done")
=============================================================================
