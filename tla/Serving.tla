------------------------------- MODULE Serving -------------------------------
(***************************************************************************)
(* Answering requests for images and thumbnails: what an answer holds, who *)
(* may keep it, whether it burns the image, and whether it counts as a     *)
(* view.  A request reads the row once and the storage later; meanwhile    *)
(* images are deleted and thumbnails rendered, and the process stops.      *)
(***************************************************************************)
EXTENDS Views

CONSTANTS
  Requests,    \* goroutines in ServeImage and ServeThumbnail
  Private, Burn, Expiring,   \* the images with is_private, burn_after_view, expires_at
  Size,        \* size_bytes of an image
  NoRange,     \* of a request without a Range header
  Workloads    \* what clients ask for and which images change, one per behaviour

Absent == -1

\* first and last as read from "bytes=first-last"; two Absent stand for a Range that
\* cannot be read.
RangeHeader == [first : Nat \cup {Absent}, last : Nat \cup {Absent}]

Ask == [image : Images, url : {"image", "thumbnail"}, head : BOOLEAN,
        match : BOOLEAN,     \* If-None-Match names the ETag
        range : RangeHeader \cup {NoRange},
        other : BOOLEAN,     \* If-Range names another ETag
        cookie : BOOLEAN,    \* the answer renews the session: Set-Cookie
        owner : BOOLEAN]

ASSUME ServingAssumption ==
  /\ IsFiniteSet(Requests)
  /\ Private \cup Burn \cup Expiring \subseteq Images
  /\ Size \in Nat /\ NoRange \notin RangeHeader
  /\ \A w \in Workloads :
       /\ w.asks \subseteq Ask /\ w.requests \subseteq Requests
       /\ w.changing \subseteq Images /\ w.views \in Nat

VARIABLES
  workload,
  request,     \* the phase of each request, what it asked for, and its Cache-Control
  live,        \* images with a row that is not deleted
  stored,      \* images with their object in the storage
  thumbs,      \* images with a thumbnail in the storage
  shared,      \* what a shared cache holds: of which image, at which URL, what
  burned,      \* answers with an image or about it, of the images in Burn
  served,      \* how often each of the others was served
  timedOut     \* srv.Shutdown gave up on requests still running

imageVars == <<live, stored, thumbs>>
answerVars == <<shared, burned, served>>
vars == <<viewVars, workload, request, imageVars, answerVars, timedOut>>

Idle == [phase |-> "idle"]
Total == FoldFunction(+, 0, served)

Init ==
  /\ ViewsInit
  /\ workload \in Workloads
  /\ request = [r \in Requests |-> Idle]
  /\ live = Images /\ stored = Images /\ thumbs = {}
  /\ shared = {} /\ burned = None /\ served = None
  /\ timedOut = FALSE

-----------------------------------------------------------------------------
(* parseSingleRange *)

Unsatisfiable == [offset |-> Absent, length |-> 0]
Span(from, upTo) == [offset |-> from, length |-> upTo - from + 1]
Whole == Span(0, Size - 1)
Least(a, b) == IF a < b THEN a ELSE b

\* A faulty variant: an end beyond the image is clipped one byte late.
ParsedLate(range) ==
  IF range.first = Absent
  THEN IF range.last \in {Absent, 0} \/ Size = 0 THEN Unsatisfiable
       ELSE Span(Size - Least(range.last, Size), Size - 1)
  ELSE IF range.first >= Size \/ (range.last # Absent /\ range.last < range.first)
       THEN Unsatisfiable
       ELSE Span(range.first, IF range.last = Absent THEN Size - 1 ELSE Least(range.last, Size))

Parsed(range) ==
  IF range.first = Absent
  THEN IF range.last \in {Absent, 0} \/ Size = 0 THEN Unsatisfiable
       ELSE Span(Size - Least(range.last, Size), Size - 1)
  ELSE IF range.first >= Size \/ (range.last # Absent /\ range.last < range.first)
       THEN Unsatisfiable
       ELSE Span(range.first, IF range.last = Absent THEN Size - 1 ELSE Least(range.last, Size - 1))

\* What the answer to a request holds; another If-Range asks for all of it.
Part(q) == IF q.range = NoRange \/ q.other THEN Whole ELSE Parsed(q.range)

-----------------------------------------------------------------------------
Asked(r) == request[r].ask
Image(r) == request[r].ask.image
InPhase(r, phase) == request[r].phase = phase /\ shutdown # "exited"
Advance(r, phase) == request' = [request EXCEPT ![r].phase = phase]
End(r) == request' = [request EXCEPT ![r] = Idle]

\* What goes into a shared cache: answers to GET whose Cache-Control is public
Keep(r, holds) ==
  shared' = IF request[r].public /\ ~Asked(r).head
            THEN shared \cup {[image |-> Image(r), url |-> Asked(r).url, holds |-> holds,
                               cookie |-> Asked(r).cookie]}
            ELSE shared

\* FinalizeBurn, deferred to the end of a request that has claimed the view; the
\* deletion of the original may fail.
Finalize(r) ==
  IF request[r].phase \in {"claimed", "open"} /\ Image(r) \in Burn
  THEN /\ stored' \in {stored \ {Image(r)}} \cup (IF "storage" \in Faults THEN {stored} ELSE {})
       /\ thumbs' = thumbs \ {Image(r)}
       /\ UNCHANGED live
  ELSE UNCHANGED imageVars

\* An answer about a burn image to anything but HEAD
Burns(r) ==
  burned' = IF Image(r) \in Burn /\ ~Asked(r).head
            THEN [burned EXCEPT ![Image(r)] = @ + 1] ELSE burned

\* GetByShortIDForUser finds the row and the handler decides on Cache-Control; a
\* 404 changes nothing.
Begin(r, q) ==
  /\ shutdown = "no" /\ request[r] = Idle
  /\ q.image \in live /\ (q.image \in Private => q.owner)
  /\ q.url = "thumbnail" => q.image \notin Burn
  /\ request' = [request EXCEPT ![r] =
       [phase |-> "found", ask |-> q,
        public |-> q.image \notin Private \cup Burn \cup Expiring /\ ~q.cookie]]
  /\ UNCHANGED <<viewVars, workload, imageVars, answerVars, timedOut>>

\* A faulty variant: a request that may end with 304 does not claim.
MustClaimUnlessKnown(r) == Image(r) \in Burn /\ ~Asked(r).head /\ ~Asked(r).match

MustClaim(r) == Image(r) \in Burn /\ ~Asked(r).head

\* ClaimBurnView: one claim succeeds, and counts as the view; or 404, also when the
\* claim took effect and its answer was lost.
Claim(r) ==
  /\ InPhase(r, "found") /\ Asked(r).url = "image" /\ MustClaim(r)
  /\ \/ /\ Image(r) \in live
        /\ live' = live \ {Image(r)}
        /\ viewCount' = [viewCount EXCEPT ![Image(r)] = @ + 1]
        /\ Advance(r, "claimed") \/ ("db" \in Faults /\ End(r))
     \/ /\ Image(r) \notin live \/ "db" \in Faults
        /\ End(r)
        /\ UNCHANGED <<live, viewCount>>
  /\ UNCHANGED <<channel, workerVars, shutdown, lossy, workload, stored, thumbs, answerVars,
                 timedOut>>

Ready(r) ==
  /\ InPhase(r, "found") \/ InPhase(r, "claimed")
  /\ Asked(r).url = "image" /\ (MustClaim(r) => request[r].phase = "claimed")

\* etagMatches: 304, after the claim
NotModified(r) ==
  /\ Ready(r) /\ Asked(r).match
  /\ Burns(r) /\ Finalize(r) /\ End(r)
  /\ UNCHANGED <<viewVars, workload, shared, served, timedOut>>

\* 416, which leaves Cache-Control as it is
RangeRefused(r) ==
  /\ Ready(r) /\ ~Asked(r).match /\ Part(Asked(r)) = Unsatisfiable
  /\ Keep(r, "refusal")
  /\ Burns(r) /\ Finalize(r) /\ End(r)
  /\ UNCHANGED <<viewVars, workload, served, timedOut>>

HeadOnly(r) ==
  /\ Ready(r) /\ ~Asked(r).match /\ Part(Asked(r)) # Unsatisfiable /\ Asked(r).head
  /\ End(r)
  /\ UNCHANGED <<viewVars, workload, imageVars, answerVars, timedOut>>

WantsBytes(r) ==
  Ready(r) /\ ~Asked(r).match /\ Part(Asked(r)) # Unsatisfiable /\ ~Asked(r).head

\* ServeRaw or ServeRange finds the object
Open(r) ==
  /\ WantsBytes(r) /\ Image(r) \in stored
  /\ Advance(r, "open")
  /\ UNCHANGED <<viewVars, workload, imageVars, answerVars, timedOut>>

\* ... or not: 500, which no cache may keep
Unavailable(r) ==
  /\ WantsBytes(r) /\ (Image(r) \in stored => "storage" \in Faults)
  /\ Burns(r) /\ Finalize(r) /\ End(r)
  /\ UNCHANGED <<viewVars, workload, shared, served, timedOut>>

\* io.Copy returns: it sent everything, something, or nothing.  A cache keeps no
\* answer shorter than its Content-Length.
Send(r) ==
  /\ InPhase(r, "open")
  /\ \/ Keep(r, IF Part(Asked(r)) = Whole THEN "image" ELSE "part")
     \/ UNCHANGED shared
  /\ Burns(r)
  /\ IF Image(r) \in Burn
     THEN Finalize(r) /\ End(r) /\ UNCHANGED served
     ELSE /\ Total < workload.views
          /\ Advance(r, "sent")
          /\ served' = [served EXCEPT ![Image(r)] = @ + 1]
          /\ UNCHANGED imageVars
  /\ UNCHANGED <<viewVars, workload, timedOut>>

SendNothing(r) ==
  /\ InPhase(r, "open")
  /\ Burns(r) /\ Finalize(r) /\ End(r)
  /\ UNCHANGED <<viewVars, workload, shared, served, timedOut>>

OfferView(r) ==
  /\ InPhase(r, "sent")
  /\ Offer(Image(r))
  /\ End(r)
  /\ UNCHANGED <<workload, imageVars, answerVars, timedOut>>

-----------------------------------------------------------------------------
\* ServeThumbnail opens the thumbnail, or will fall back to the original.
OpenThumbnail(r) ==
  /\ InPhase(r, "found") /\ Asked(r).url = "thumbnail"
  /\ \/ Image(r) \in thumbs /\ Advance(r, "thumbnail")
     \/ (Image(r) \in thumbs => "storage" \in Faults) /\ Advance(r, "fallback")
  /\ UNCHANGED <<viewVars, workload, imageVars, answerVars, timedOut>>

\* A faulty variant: a fallback is as public as the thumbnail.
ThumbnailPublicAlways(r, ready) == request[r].public

ThumbnailPublic(r, ready) == request[r].public /\ ready

\* Size, or the original, is there when it is asked for, and the answer is sent.
SendThumbnail(r) ==
  /\ \/ InPhase(r, "thumbnail") /\ Image(r) \in thumbs
     \/ InPhase(r, "fallback") /\ Image(r) \in stored
  /\ LET ready == request[r].phase = "thumbnail" IN
     IF ThumbnailPublic(r, ready)
     THEN Keep(r, IF ready THEN "thumbnail" ELSE "image")
     ELSE UNCHANGED shared
  /\ End(r)
  /\ UNCHANGED <<viewVars, workload, imageVars, burned, served, timedOut>>

\* ... or is not, or an error: 404
ThumbnailGone(r) ==
  /\ \/ InPhase(r, "thumbnail") /\ (Image(r) \in thumbs => "storage" \in Faults)
     \/ InPhase(r, "fallback") /\ (Image(r) \in stored => "storage" \in Faults)
  /\ End(r)
  /\ UNCHANGED <<viewVars, workload, imageVars, answerVars, timedOut>>

-----------------------------------------------------------------------------
(* What happens to the images meanwhile *)

\* SoftDelete, by its owner, an administrator or the expiry sweep
Delete(i) ==
  /\ i \in live
  /\ live' = live \ {i}
  /\ UNCHANGED <<viewVars, workload, request, stored, thumbs, answerVars, timedOut>>

\* DeleteFiles, of an image whose row the deletion marked
DeleteFiles(i) ==
  /\ i \notin live /\ (i \in Burn => viewCount[i] = 0)
  /\ \/ i \in stored /\ stored' = stored \ {i} /\ UNCHANGED thumbs
     \/ i \in thumbs \ stored /\ thumbs' = thumbs \ {i} /\ UNCHANGED stored
  /\ UNCHANGED <<viewVars, workload, request, live, answerVars, timedOut>>

\* The thumbnail worker, which may have read the image before it was deleted; it
\* removes what it stored for an image that is gone, like DeleteFiles.
StoreThumbnail(i) ==
  /\ i \notin thumbs
  /\ thumbs' = thumbs \cup {i}
  /\ UNCHANGED <<viewVars, workload, request, live, stored, answerVars, timedOut>>

ImageStep(i) == shutdown = "no" /\ (Delete(i) \/ DeleteFiles(i) \/ StoreThumbnail(i))

RequestStep(r) ==
  \/ Claim(r) \/ NotModified(r) \/ RangeRefused(r) \/ HeadOnly(r)
  \/ Open(r) \/ Unavailable(r) \/ Send(r) \/ SendNothing(r) \/ OfferView(r)
  \/ OpenThumbnail(r) \/ SendThumbnail(r) \/ ThumbnailGone(r)

Quiet == UNCHANGED <<workload, request, imageVars, answerVars, timedOut>>

\* srv.Shutdown may have given up on requests that are still running.
Cancel ==
  /\ CancelViews
  /\ timedOut' = (\E r \in Requests : request[r] # Idle)
  /\ UNCHANGED <<workload, request, imageVars, answerVars>>

Next ==
  \/ \E r \in workload.requests, q \in workload.asks : Begin(r, q)
  \/ \E r \in Requests : RequestStep(r)
  \/ \E i \in workload.changing : ImageStep(i)
  \/ (WorkerStep \/ BeginShutdown \/ Exit) /\ Quiet
  \/ Cancel

-----------------------------------------------------------------------------
\* The select of the loop is fair between the channel, the ticker and the
\* context, the writes return, and so does srv.Shutdown once its time is up.
Fairness ==
  /\ WF_vars(Receive /\ Quiet) /\ WF_vars(Tick /\ Quiet) /\ SF_vars(StartDrain /\ Quiet)
  /\ WF_vars(Drain /\ Quiet) /\ WF_vars((Flush \/ FlushFails) /\ Quiet)
  /\ WF_vars(Cancel) /\ WF_vars(Exit /\ Quiet)
  /\ \A r \in Requests : WF_vars(OfferView(r))

Spec == Init /\ [][Next]_vars
FairSpec == Spec /\ Fairness

-----------------------------------------------------------------------------
(* Properties *)

Phases == {"found", "claimed", "open", "sent", "thumbnail", "fallback"}
Shown == [image : Images, url : {"image", "thumbnail"},
          holds : {"image", "part", "refusal", "thumbnail"}, cookie : BOOLEAN]

TypeOK ==
  /\ ViewTypes
  /\ workload \in Workloads
  /\ \A r \in Requests :
       request[r] # Idle =>
         request[r].phase \in Phases /\ request[r].ask \in workload.asks
           /\ request[r].public \in BOOLEAN
  /\ live \subseteq Images /\ stored \subseteq Images /\ thumbs \subseteq Images
  /\ shared \subseteq Shown
  /\ burned \in [Images -> Nat] /\ served \in [Images -> Nat]
  /\ timedOut \in BOOLEAN

Offering(i) == Cardinality({r \in Requests : InPhase(r, "sent") /\ Image(r) = i})

\* A view is counted once at most: whatever was written, is being written or
\* waits, never adds up to more than was served, even when a write whose answer
\* was lost took effect (ServeImage, runViewsWorker, IncrementViewsBatch).
NeverOvercounted ==
  \A i \in Images \ Burn :
    viewCount[i] + batch[i] + pending[i] + Queued(i) + Offering(i) <= served[i]

\* "Stop flushes buffered view counters during graceful shutdown": when no
\* request outlived srv.Shutdown, no channel was full and no write failed, the
\* process ends with every view counted (Stop, runViewsWorker).
StopFlushes ==
  shutdown = "exited" /\ ~timedOut /\ ~lossy =>
    \A i \in Images \ Burn : viewCount[i] = served[i]

\* A burn image answers one request other than HEAD, be it with its bytes, a part of
\* them, 304 or 416, and that answer was counted as its view (ServeImage, ClaimBurnView).
BurnAnsweredOnce ==
  \A i \in Burn : burned[i] <= viewCount[i] /\ viewCount[i] <= 1

\* What a shared cache keeps for a year may be shown to everybody and is what its
\* URL is for: the original that stands in for a thumbnail not rendered yet does not
\* become the thumbnail (SecurityHeaders, ServeImage, ServeThumbnail).
CachedForAll ==
  \A e \in shared :
    /\ e.image \notin Private \cup Burn \cup Expiring /\ ~e.cookie
    /\ e.url = "thumbnail" => e.holds = "thumbnail"

\* The bytes a range names, as RFC 7233 counts them
Named(range) ==
  {p \in 0..(Size - 1) :
     IF range.first = Absent THEN range.last # Absent /\ p >= Size - range.last
     ELSE p >= range.first /\ (range.last = Absent \/ p <= range.last)}

RangeExact(range) ==
  LET part == Parsed(range) IN
  IF Named(range) = {} THEN part = Unsatisfiable
  ELSE part.offset..(part.offset + part.length - 1) = Named(range)

\* A range is answered with the bytes it names and no others, and refused when it
\* names none (parseSingleRange).
RangesExact ==
  \A r \in Requests :
    request[r] # Idle /\ request[r].ask.range # NoRange => RangeExact(request[r].ask.range)

\* A shutdown ends, whatever is still offered while it drains (Stop).
StopReturns == (shutdown = "waiting") ~> (shutdown = "exited")

\* A view that reached the channel does not stay in memory: it is written, or
\* forgotten with a failed write, or the process ends (runViewsWorker).
ViewsSettle ==
  Pending # {} \/ channel # <<>>
    ~> (Pending = {} /\ channel = <<>>) \/ shutdown = "exited"

=============================================================================
