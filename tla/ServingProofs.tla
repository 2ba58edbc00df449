---------------------------- MODULE ServingProofs ----------------------------
(***************************************************************************)
(* For any number of images, requests and sizes: ranges are answered with  *)
(* the bytes they name, a burn image answers once, a shared cache keeps    *)
(* what everybody may see, and every view is counted, once.                *)
(*                                                                         *)
(* BurnAnsweredOnce is not inductive: a request that has claimed the view  *)
(* answers much later.  IInv says that such a request is alone, that the   *)
(* view is counted and not yet answered, and that no batch of views ever   *)
(* holds a burn image.  Balanced follows the views of the other images     *)
(* from the request that is about to offer one to the row; it is exact     *)
(* until a view is lost.  Control says what the worker still holds in each *)
(* of its places, and Publicly what a request remembers of its decision on *)
(* Cache-Control.                                                          *)
(***************************************************************************)
EXTENDS Serving, SequenceTheorems, FiniteSetTheorems, TLAPS

Active == [phase : Phases, ask : Ask, public : BOOLEAN]

Types ==
  /\ workload \in Workloads
  /\ request \in [Requests -> {Idle} \cup Active]
  /\ live \subseteq Images
  /\ burned \in [Images -> Nat] /\ viewCount \in [Images -> Nat]
  /\ batch \in [Images -> Nat] /\ pending \in [Images -> Nat]
  /\ channel \in Seq(Images)

\* r has claimed i and has not answered yet.
Holds(r, i) == request[r].phase \in {"claimed", "open"} /\ Image(r) = i

Asking ==
  \A r \in Requests :
    /\ request[r].phase = "sent" => Image(r) \notin Burn
    /\ request[r].phase \in {"claimed", "open"} /\ Image(r) \in Burn => ~Asked(r).head

Uncounted ==
  \A i \in Burn :
    batch[i] = 0 /\ pending[i] = 0 /\ (\A k \in 1..Len(channel) : channel[k] # i)

Claimed ==
  \A i \in Burn :
    /\ i \in live => viewCount[i] = 0
    /\ \A r \in Requests : Holds(r, i) => burned[i] = 0 /\ viewCount[i] = 1
    /\ \A r, s \in Requests : Holds(r, i) /\ Holds(s, i) => r = s

IInv == Types /\ Asking /\ Uncounted /\ Claimed /\ BurnAnsweredOnce

-----------------------------------------------------------------------------
LEMMA IdlePhase == Idle.phase = "idle" /\ Idle.phase \notin Phases
BY DEF Idle, Phases

LEMMA InitIInv == ASSUME ServingAssumption, Init PROVE IInv
<1> USE DEF Init, ViewsInit, None, ServingAssumption
<1>1. Types  BY DEF Types
<1>2. \A r \in Requests : request[r].phase = "idle"  BY IdlePhase
<1>3. Asking /\ Uncounted /\ Claimed /\ BurnAnsweredOnce
  BY <1>2 DEF Asking, Uncounted, Claimed, Holds, BurnAnsweredOnce
<1> QED  BY <1>1, <1>3 DEF IInv

LEMMA BeginStep ==
  ASSUME ServingAssumption, IInv, NEW r \in Requests, NEW q \in workload.asks, Begin(r, q)
  PROVE  IInv'
<1> DEFINE public == q.image \notin Private \cup Burn \cup Expiring /\ ~q.cookie
           new == [phase |-> "found", ask |-> q, public |-> public]
<1>1. q \in Ask  BY DEF ServingAssumption, IInv, Types
<1>2. new \in Active  BY <1>1 DEF Active, Phases
<1>3. /\ request' = [request EXCEPT ![r] = new]
      /\ UNCHANGED <<viewVars, workload, imageVars, answerVars>>
  BY DEF Begin
<1> HIDE DEF new
<1>4. new.phase = "found"  BY DEF new
<1>5. Types'  BY <1>2, <1>3 DEF IInv, Types, viewVars, workerVars, imageVars, answerVars
<1>6. \A s \in Requests : request'[s] = IF s = r THEN new ELSE request[s]
  BY <1>3 DEF IInv, Types
<1>7. Asking' /\ Uncounted' /\ Claimed' /\ BurnAnsweredOnce'
  BY <1>3, <1>4, <1>6
     DEF IInv, Asking, Uncounted, Claimed, BurnAnsweredOnce, Holds, Image, Asked,
         viewVars, workerVars, imageVars, answerVars
<1> QED  BY <1>5, <1>7 DEF IInv

\* A request that ends keeps the rest, when it has claimed nothing.
LEMMA Ends ==
  ASSUME IInv, NEW r \in Requests, End(r),
         UNCHANGED <<workload, live, burned, viewCount, batch, pending, channel>>
  PROVE  IInv'
<1>1. Types'  BY DEF IInv, Types, End
<1>2. \A s \in Requests : request'[s] = IF s = r THEN Idle ELSE request[s]
  BY DEF IInv, Types, End
<1>3. Asking' /\ Uncounted' /\ Claimed' /\ BurnAnsweredOnce'
  BY <1>2, IdlePhase
     DEF IInv, Asking, Uncounted, Claimed, BurnAnsweredOnce, Holds, Image, Asked
<1> QED  BY <1>1, <1>3 DEF IInv

\* A request that answers ends too, and its answer is the first when it burns.
LEMMA Answers ==
  ASSUME IInv, NEW r \in Requests, End(r), Burns(r), request[r].phase # "idle",
         Image(r) \in Burn /\ ~Asked(r).head => request[r].phase \in {"claimed", "open"},
         UNCHANGED <<workload, live, viewCount, batch, pending, channel>>
  PROVE  IInv'
<1>0. request[r] \in Active /\ Image(r) \in Images  BY IdlePhase DEF IInv, Types, Active, Ask, Image
<1>1. CASE Image(r) \in Burn /\ ~Asked(r).head
  <2>0. PICK i \in Burn : i = Image(r)  BY <1>1
  <2>1. Holds(r, i)  BY <1>1, <2>0 DEF Holds
  <2>2. burned' = [burned EXCEPT ![i] = @ + 1]  BY <1>1, <2>0 DEF Burns
  <2>3. burned[i] = 0 /\ viewCount[i] = 1
    BY <2>1 DEF IInv, Claimed
  <2>4. \A s \in Requests : request'[s] = IF s = r THEN Idle ELSE request[s]
    BY DEF IInv, Types, End
  <2>5. Types'  BY <1>0, <2>0, <2>2 DEF IInv, Types, End
  <2>6. \A s \in Requests, j \in Burn : Holds(s, j)' => s # r /\ Holds(s, j)
    BY <2>4, IdlePhase DEF Holds, Image, Asked
  <2>7. \A s \in Requests : ~Holds(s, i)'
    BY <2>1, <2>6 DEF IInv, Claimed
  <2>8. \A j \in Burn : j # i => burned'[j] = burned[j]
    BY <2>2 DEF IInv, Types
  <2>9. burned'[i] = 1
    BY <1>0, <2>0, <2>2, <2>3 DEF IInv, Types
  <2>10. Asking' /\ Uncounted'
    BY <2>4, IdlePhase DEF IInv, Asking, Uncounted, Image, Asked
  <2>11. Claimed'
    BY <2>6, <2>7, <2>8 DEF IInv, Claimed
  <2>12. BurnAnsweredOnce'
    BY <2>3, <2>8, <2>9 DEF IInv, BurnAnsweredOnce
  <2> QED  BY <2>5, <2>10, <2>11, <2>12 DEF IInv
<1>2. CASE ~(Image(r) \in Burn /\ ~Asked(r).head)
  BY <1>2, Ends DEF Burns
<1> QED  BY <1>1, <1>2

\* A request that goes on.
LEMMA Advances ==
  ASSUME IInv, NEW r \in Requests, NEW phase \in Phases, Advance(r, phase),
         request[r].phase # "idle",
         phase = "sent" => Image(r) \notin Burn,
         phase \in {"claimed", "open"} /\ Image(r) \in Burn =>
           request[r].phase \in {"claimed", "open"},
         UNCHANGED <<workload, live, burned, viewCount, batch, pending, channel>>
  PROVE  IInv'
<1>1. request[r] \in Active  BY IdlePhase DEF IInv, Types
<1> DEFINE new == [request[r] EXCEPT !.phase = phase]
<1>2. new \in Active /\ new.phase = phase /\ new.ask = request[r].ask  BY <1>1 DEF Active
<1>3. request' = [request EXCEPT ![r] = new]  BY DEF Advance
<1> HIDE DEF new
<1>4. Types'  BY <1>2, <1>3 DEF IInv, Types
<1>5. \A s \in Requests : request'[s] = IF s = r THEN new ELSE request[s]
  BY <1>3 DEF IInv, Types
<1>6. Asking' /\ Uncounted' /\ Claimed' /\ BurnAnsweredOnce'
  BY <1>2, <1>5
     DEF IInv, Asking, Uncounted, Claimed, BurnAnsweredOnce, Holds, Image, Asked
<1> QED  BY <1>4, <1>6 DEF IInv

\* The one claim of a burn image that is live.
LEMMA Claims ==
  ASSUME ServingAssumption, IInv, NEW r \in Requests, Claim(r)
  PROVE  IInv'
<1> DEFINE i == Image(r)
<1>1. request[r].phase = "found" /\ request[r] \in Active /\ i \in Burn /\ ~Asked(r).head
  BY IdlePhase DEF Claim, InPhase, MustClaim, IInv, Types
<1>2. i \in Images  BY <1>1 DEF Active, Ask, Image
<1>3. UNCHANGED <<workload, burned, batch, pending, channel>>
  BY DEF Claim, workerVars, answerVars
<1>4. CASE i \in live /\ live' = live \ {i} /\ viewCount' = [viewCount EXCEPT ![i] = @ + 1]
  <2>1. viewCount[i] = 0 /\ viewCount'[i] = 1 /\ burned[i] = 0
        /\ \A s \in Requests : ~Holds(s, i)
    BY <1>1, <1>2, <1>4 DEF IInv, Types, Claimed, BurnAnsweredOnce
  <2>2. \A j \in Burn : j # i => viewCount'[j] = viewCount[j] /\ (j \in live' => j \in live)
    BY <1>4 DEF IInv, Types
  <2>3. viewCount' \in [Images -> Nat] /\ live' \subseteq Images
    BY <1>2, <1>4 DEF IInv, Types
  <2>4. BurnAnsweredOnce'
    BY <1>3, <2>1, <2>2 DEF IInv, BurnAnsweredOnce
  <2>5. CASE End(r)
    <3>1. \A s \in Requests : request'[s] = IF s = r THEN Idle ELSE request[s]
      BY <2>5 DEF IInv, Types, End
    <3>2. Types'  BY <1>3, <2>3, <2>5 DEF IInv, Types, End
    <3>3. \A s \in Requests, j \in Burn : Holds(s, j)' => j # i /\ Holds(s, j)
      BY <2>1, <3>1, IdlePhase DEF Holds, Image, Asked
    <3>4. Asking' /\ Uncounted'
      BY <1>3, <3>1, IdlePhase DEF IInv, Asking, Uncounted, Image, Asked
    <3>5. Claimed'  BY <1>3, <1>4, <2>1, <2>2, <3>3 DEF IInv, Claimed
    <3> QED  BY <2>4, <3>2, <3>4, <3>5 DEF IInv
  <2>6. CASE Advance(r, "claimed")
    <3> DEFINE new == [request[r] EXCEPT !.phase = "claimed"]
    <3>1. new \in Active /\ new.phase = "claimed" /\ new.ask = request[r].ask
      BY <1>1 DEF Active, Phases
    <3>2. request' = [request EXCEPT ![r] = new]  BY <2>6 DEF Advance
    <3> HIDE DEF new
    <3>3. Types'  BY <1>3, <2>3, <3>1, <3>2 DEF IInv, Types
    <3>4. \A s \in Requests : request'[s] = IF s = r THEN new ELSE request[s]
      BY <3>2 DEF IInv, Types
    <3>5. \A s \in Requests, j \in Burn :
            Holds(s, j)' => (s = r /\ j = i) \/ (s # r /\ j # i /\ Holds(s, j))
      BY <2>1, <3>1, <3>4 DEF Holds, Image, Asked
    <3>6. Asking' /\ Uncounted'
      BY <1>1, <1>3, <3>1, <3>4 DEF IInv, Asking, Uncounted, Image, Asked
    <3>7. Claimed'  BY <1>3, <1>4, <2>1, <2>2, <3>5 DEF IInv, Claimed
    <3> QED  BY <2>4, <3>3, <3>6, <3>7 DEF IInv
  <2> QED  BY <1>4, <2>5, <2>6 DEF Claim
<1>5. CASE End(r) /\ UNCHANGED <<live, viewCount>>
  BY <1>3, <1>5, Ends
<1> QED  BY <1>4, <1>5 DEF Claim

-----------------------------------------------------------------------------
(* The requests *)

\* Past the claim, a request about a burn image has it, or is a HEAD.
LEMMA ReadyHolds ==
  ASSUME NEW r \in Requests, Ready(r)
  PROVE  /\ request[r].phase # "idle" /\ request[r].phase \in {"found", "claimed"}
         /\ Image(r) \in Burn /\ ~Asked(r).head => request[r].phase = "claimed"
BY DEF Ready, InPhase, MustClaim

LEMMA RequestStepKeeps ==
  ASSUME ServingAssumption, IInv, NEW r \in Requests, RequestStep(r)
  PROVE  IInv'
<1> USE DEF viewVars, workerVars, imageVars, answerVars
<1>1. CASE Claim(r)  BY <1>1, Claims
<1>2. CASE NotModified(r) \/ RangeRefused(r) \/ Unavailable(r)
  <2>1. Ready(r) /\ End(r) /\ Burns(r)
        /\ UNCHANGED <<workload, viewCount, batch, pending, channel>>
    BY <1>2 DEF NotModified, RangeRefused, Unavailable, WantsBytes
  <2>2. UNCHANGED live
    BY <1>2 DEF NotModified, RangeRefused, Unavailable, Finalize
  <2> QED  BY <2>1, <2>2, ReadyHolds, Answers
<1>3. CASE HeadOnly(r)
  BY <1>3, Ends DEF HeadOnly
<1>4. CASE Open(r)
  <2>1. Ready(r) /\ ~Asked(r).head /\ Advance(r, "open")
        /\ UNCHANGED <<workload, live, burned, viewCount, batch, pending, channel>>
    BY <1>4 DEF Open, WantsBytes
  <2> QED  BY <2>1, ReadyHolds, Advances DEF Phases
<1>5. CASE Send(r)
  <2>1. request[r].phase = "open" /\ Burns(r)
        /\ UNCHANGED <<workload, live, viewCount, batch, pending, channel>>
    BY <1>5 DEF Send, InPhase, Finalize
  <2>2. CASE Image(r) \in Burn
    BY <1>5, <2>1, <2>2, Answers DEF Send
  <2>3. CASE Image(r) \notin Burn
    BY <1>5, <2>1, <2>3, Advances DEF Send, Burns, Phases
  <2> QED  BY <2>2, <2>3
<1>6. CASE SendNothing(r)
  <2>1. request[r].phase = "open" /\ Burns(r) /\ End(r)
        /\ UNCHANGED <<workload, live, viewCount, batch, pending, channel>>
    BY <1>6 DEF SendNothing, InPhase, Finalize
  <2> QED  BY <2>1, Answers
<1>7. CASE OfferView(r)
  <2>1. request[r].phase = "sent" /\ request[r] \in Active
    BY <1>7, IdlePhase DEF OfferView, InPhase, IInv, Types
  <2>2. PICK x \in Images \ Burn : x = Image(r)
    BY <2>1 DEF IInv, Asking, Active, Ask, Image
  <2>3. \A s \in Requests : request'[s] = IF s = r THEN Idle ELSE request[s]
    BY <1>7 DEF OfferView, IInv, Types, End
  <2>4. channel' \in {channel, Append(channel, x)}
        /\ UNCHANGED <<workload, live, burned, viewCount, batch, pending>>
    BY <1>7, <2>2 DEF OfferView, Offer
  <2>5. Types'
    <3>0. channel \in Seq(Images) /\ x \in Images  BY <2>2 DEF IInv, Types
    <3>a. Append(channel, x) \in Seq(Images)  BY <3>0, AppendProperties
    <3>1. channel' \in Seq(Images)  BY <2>4, <3>0, <3>a
    <3> QED  BY <1>7, <2>4, <3>1 DEF OfferView, End, IInv, Types
  <2>6. Uncounted'
    <3>1. CASE channel' = channel  BY <2>4, <3>1 DEF IInv, Uncounted
    <3>2. CASE channel' = Append(channel, x)
      <4>1. /\ Len(channel') = Len(channel) + 1
            /\ \A k \in 1..Len(channel) : channel'[k] = channel[k]
            /\ channel'[Len(channel')] = x
        BY <2>2, <3>2 DEF IInv, Types
      <4>2. Len(channel) \in Nat
            /\ \A i \in Burn : batch[i] = 0 /\ pending[i] = 0
                               /\ \A k \in 1..Len(channel) : channel[k] # i
        BY DEF IInv, Types, Uncounted
      <4>3. ASSUME NEW i \in Burn, NEW k \in 1..Len(channel') PROVE channel'[k] # i
        <5>1. CASE k \in 1..Len(channel)  BY <4>1, <4>2, <5>1
        <5>2. CASE k = Len(channel')
          <6>1. channel'[k] = x  BY <4>1, <5>2
          <6>2. x # i  BY <2>2
          <6> QED  BY <6>1, <6>2
        <5> QED  BY <4>1, <4>2, <5>1, <5>2
      <4> QED  BY <2>4, <4>2, <4>3 DEF Uncounted
    <3> QED  BY <2>4, <3>1, <3>2
  <2>7. Asking' /\ Claimed' /\ BurnAnsweredOnce'
    BY <2>3, <2>4, IdlePhase DEF IInv, Asking, Claimed, BurnAnsweredOnce, Holds, Image, Asked
  <2> QED  BY <2>5, <2>6, <2>7 DEF IInv
<1>8. CASE OpenThumbnail(r)
  <2>1. /\ request[r].phase = "found"
        /\ Advance(r, "thumbnail") \/ Advance(r, "fallback")
        /\ UNCHANGED <<workload, live, burned, viewCount, batch, pending, channel>>
    BY <1>8 DEF OpenThumbnail, InPhase
  <2> QED  BY <2>1, Advances DEF Phases
<1>9. CASE SendThumbnail(r) \/ ThumbnailGone(r)
  BY <1>9, Ends DEF SendThumbnail, ThumbnailGone
<1> QED
  BY <1>1, <1>2, <1>3, <1>4, <1>5, <1>6, <1>7, <1>8, <1>9 DEF RequestStep

-----------------------------------------------------------------------------
(* The images and the counter *)

LEMMA ImageStepKeeps ==
  ASSUME IInv, NEW i \in Images, ImageStep(i)
  PROVE  IInv'
<1>1. CASE Delete(i)
  <2>1. live' \subseteq live
        /\ UNCHANGED <<workload, request, burned, viewCount, batch, pending, channel>>
    BY <1>1 DEF Delete, answerVars, viewVars, workerVars
  <2>2. Types'  BY <2>1 DEF IInv, Types
  <2>3. \A r \in Requests, j \in Burn : Holds(r, j)' <=> Holds(r, j)
    BY <2>1 DEF Holds, Image, Asked
  <2>4. Claimed'  BY <2>1, <2>3 DEF IInv, Claimed
  <2>5. Asking' /\ Uncounted' /\ BurnAnsweredOnce'
    BY <2>1 DEF IInv, Asking, Uncounted, BurnAnsweredOnce, Image, Asked
  <2> QED  BY <2>2, <2>4, <2>5 DEF IInv
<1>2. CASE DeleteFiles(i) \/ StoreThumbnail(i)
  <2>1. UNCHANGED <<workload, live, request, burned, viewCount, batch, pending, channel>>
    BY <1>2 DEF DeleteFiles, StoreThumbnail, answerVars, viewVars, workerVars
  <2> QED
    BY <2>1 DEF IInv, Types, Asking, Uncounted, Claimed, BurnAnsweredOnce, Holds, Image, Asked
<1> QED
  BY <1>1, <1>2 DEF ImageStep

\* What the worker does to batch, pending and channel leaves burn images out.
LEMMA WorkerKeeps ==
  ASSUME ServingAssumption, IInv, Quiet, Uncounted',
         batch' \in [Images -> Nat], pending' \in [Images -> Nat], channel' \in Seq(Images),
         viewCount' \in {viewCount, Counted}
  PROVE  IInv'
<1>1. UNCHANGED <<workload, request, live, burned>>
  BY DEF Quiet, imageVars, answerVars
<1>2. Burn \subseteq Images  BY DEF ServingAssumption
<1>3. Counted \in [Images -> Nat] /\ \A i \in Burn : Counted[i] = viewCount[i]
  BY <1>2 DEF IInv, Types, Uncounted, Counted
<1>4. viewCount' \in [Images -> Nat] /\ \A i \in Burn : viewCount'[i] = viewCount[i]
  BY <1>3 DEF IInv, Types
<1>5. Types'  BY <1>1, <1>4 DEF IInv, Types
<1>6. Asking'  BY <1>1 DEF IInv, Asking, Image, Asked
<1>7. \A r \in Requests, i \in Burn : Holds(r, i)' <=> Holds(r, i)
  BY <1>1 DEF Holds, Image, Asked
<1>8. Claimed'  BY <1>1, <1>4, <1>7 DEF IInv, Claimed
<1>9. BurnAnsweredOnce'  BY <1>1, <1>4 DEF IInv, BurnAnsweredOnce
<1> QED  BY <1>5, <1>6, <1>8, <1>9 DEF IInv

\* Receiving a view adds it to pending, and it is of no burn image.
LEMMA Received ==
  ASSUME ServingAssumption, IInv, channel # <<>>, channel' = Tail(channel)
  PROVE  /\ channel' \in Seq(Images)
         /\ [pending EXCEPT ![Head(channel)] = @ + 1] \in [Images -> Nat]
         /\ \A i \in Burn : [pending EXCEPT ![Head(channel)] = @ + 1][i] = 0
         /\ \A i \in Burn : \A k \in 1..Len(channel') : channel'[k] # i
<1>1. channel \in Seq(Images) /\ Len(channel) \in Nat \ {0}
  BY EmptySeq DEF IInv, Types
<1>2. Head(channel) = channel[1] /\ channel[1] \in Images /\ 1 \in 1..Len(channel)
  BY <1>1
<1>3. /\ channel' \in Seq(Images) /\ Len(channel') = Len(channel) - 1
      /\ \A k \in 1..Len(channel') : channel'[k] = channel[k + 1] /\ k + 1 \in 1..Len(channel)
  BY <1>1
<1>4. \A i \in Burn : i \in Images /\ pending[i] = 0 /\ Head(channel) # i
  BY <1>2 DEF IInv, Uncounted, ServingAssumption
<1>5. \A i \in Burn : \A k \in 1..Len(channel') : channel'[k] # i
  BY <1>3 DEF IInv, Uncounted
<1>6. pending \in [Images -> Nat] /\ Head(channel) \in Images  BY <1>2 DEF IInv, Types
<1>7. [pending EXCEPT ![Head(channel)] = @ + 1] \in [Images -> Nat]  BY <1>6
<1>8. \A i \in Burn : [pending EXCEPT ![Head(channel)] = @ + 1][i] = 0  BY <1>4, <1>6
<1> QED  BY <1>3, <1>5, <1>7, <1>8

LEMMA WorkerStepKeeps ==
  ASSUME ServingAssumption, IInv, WorkerStep, Quiet
  PROVE  IInv'
<1> DEFINE counted == [pending EXCEPT ![Head(channel)] = @ + 1]
<1>0. /\ pending \in [Images -> Nat] /\ batch \in [Images -> Nat] /\ channel \in Seq(Images)
      /\ None \in [Images -> Nat] /\ Burn \subseteq Images /\ \A i \in Images : None[i] = 0
      /\ \A i \in Burn : batch[i] = 0 /\ pending[i] = 0
                         /\ \A k \in 1..Len(channel) : channel[k] # i
  BY DEF IInv, Types, Uncounted, None, ServingAssumption
<1>1. CASE Receive
  <2>1. /\ channel # <<>> /\ channel' = Tail(channel) /\ viewCount' = viewCount
        /\ \/ batch' = counted /\ pending' = None
           \/ pending' = counted /\ batch' = batch
    BY <1>1 DEF Receive
  <2> HIDE DEF counted
  <2>2. /\ counted \in [Images -> Nat] /\ \A i \in Burn : counted[i] = 0
        /\ channel' \in Seq(Images)
        /\ \A i \in Burn : \A k \in 1..Len(channel') : channel'[k] # i
    BY <2>1, Received DEF counted
  <2>3. Uncounted'  BY <1>0, <2>1, <2>2 DEF Uncounted
  <2> QED  BY <1>0, <2>1, <2>2, <2>3, WorkerKeeps
<1>2. CASE Tick
  <2>1. batch' = pending /\ pending' = None /\ UNCHANGED <<channel, viewCount>>
    BY <1>2 DEF Tick, TakeBatch
  <2>2. Uncounted'  BY <1>0, <2>1 DEF Uncounted
  <2> QED  BY <1>0, <2>1, <2>2, WorkerKeeps
<1>3. CASE StartDrain
  <2>1. UNCHANGED <<channel, batch, pending, viewCount>>
    BY <1>3 DEF StartDrain
  <2>2. Uncounted'  BY <1>0, <2>1 DEF Uncounted
  <2> QED  BY <1>0, <2>1, <2>2, WorkerKeeps
<1>4. CASE Drain
  <2>1. CASE channel # <<>>
    <3>1. /\ channel' = Tail(channel) /\ viewCount' = viewCount
          /\ pending' = counted /\ batch' = batch
      BY <1>4, <2>1 DEF Drain
    <3> HIDE DEF counted
    <3>2. /\ counted \in [Images -> Nat] /\ \A i \in Burn : counted[i] = 0
          /\ channel' \in Seq(Images)
          /\ \A i \in Burn : \A k \in 1..Len(channel') : channel'[k] # i
      BY <2>1, <3>1, Received DEF counted
    <3>3. Uncounted'  BY <1>0, <3>1, <3>2 DEF Uncounted
    <3> QED  BY <1>0, <3>1, <3>2, <3>3, WorkerKeeps
  <2>2. CASE channel = <<>>
    <3>1. batch' = pending /\ pending' = None /\ UNCHANGED <<channel, viewCount>>
      BY <1>4, <2>2 DEF Drain, TakeBatch
    <3>2. Uncounted'  BY <1>0, <3>1 DEF Uncounted
    <3> QED  BY <1>0, <3>1, <3>2, WorkerKeeps
  <2> QED  BY <2>1, <2>2
<1>5. CASE Flush \/ FlushFails
  <2>1. /\ batch' = None /\ viewCount' \in {viewCount, Counted}
        /\ UNCHANGED <<channel, pending>>
    BY <1>5 DEF Flush, FlushFails, EndFlush
  <2>2. Uncounted'  BY <1>0, <2>1 DEF Uncounted
  <2> QED  BY <1>0, <2>1, <2>2, WorkerKeeps
<1> QED  BY <1>1, <1>2, <1>3, <1>4, <1>5 DEF WorkerStep

LEMMA StepKeeps ==
  ASSUME ServingAssumption, IInv, [Next]_vars
  PROVE  IInv'
<1>1. ASSUME NEW r \in workload.requests, NEW q \in workload.asks, Begin(r, q)
      PROVE  IInv'
  <2>1. r \in Requests  BY DEF ServingAssumption, IInv, Types
  <2> QED  BY <1>1, <2>1, BeginStep
<1>2. ASSUME NEW r \in Requests, RequestStep(r) PROVE IInv'
  BY <1>2, RequestStepKeeps
<1>3. ASSUME NEW i \in workload.changing, ImageStep(i) PROVE IInv'
  <2>1. i \in Images  BY DEF ServingAssumption, IInv, Types
  <2> QED  BY <1>3, <2>1, ImageStepKeeps
<1>4. CASE WorkerStep /\ Quiet  BY <1>4, WorkerStepKeeps
<1>5. CASE ((BeginShutdown \/ Exit) /\ Quiet) \/ Cancel \/ UNCHANGED vars
  <2>1. UNCHANGED <<workload, live, request, burned, viewCount, batch, pending, channel>>
    BY <1>5 DEF BeginShutdown, Exit, Quiet, Cancel, CancelViews, vars, viewVars, workerVars,
                imageVars, answerVars
  <2> QED
    BY <2>1 DEF IInv, Types, Asking, Uncounted, Claimed, BurnAnsweredOnce, Holds, Image, Asked
<1> QED  BY <1>1, <1>2, <1>3, <1>4, <1>5 DEF Next

LEMMA Inductive == Spec => []IInv
<1>1. Init => IInv  BY ServingAssumption, InitIInv
<1>2. IInv /\ [Next]_vars => IInv'  BY ServingAssumption, StepKeeps
<1> QED  BY <1>1, <1>2, PTL DEF Spec

-----------------------------------------------------------------------------
(* Ranges *)

\* A range that can be met is the span from its first byte to its last.
LEMMA ParsedExact ==
  ASSUME ServingAssumption, NEW range \in RangeHeader
  PROVE  RangeExact(range)
<1> USE DEF RangeHeader, Absent, Unsatisfiable, Span, Least
<1>1. Size \in Nat /\ range.first \in Nat \cup {-1} /\ range.last \in Nat \cup {-1}
  BY DEF ServingAssumption
<1>2. CASE range.first = -1 /\ (range.last \in {-1, 0} \/ Size = 0)
  <2>1. Parsed(range) = Unsatisfiable  BY <1>2 DEF Parsed
  <2>2. Named(range) = {}  BY <1>1, <1>2 DEF Named
  <2> QED  BY <2>1, <2>2 DEF RangeExact
<1>3. CASE range.first = -1 /\ ~(range.last \in {-1, 0} \/ Size = 0)
  <2> DEFINE from == Size - Least(range.last, Size)
  <2>1. Parsed(range) = Span(from, Size - 1)  BY <1>3 DEF Parsed
  <2>2. from \in 0..(Size - 1)  BY <1>1, <1>3
  <2>3. \A p \in 0..(Size - 1) : p >= Size - range.last <=> p >= from  BY <1>1, <1>3
  <2>4. Named(range) = from..(Size - 1)
    <3> HIDE DEF from
    <3> QED  BY <1>1, <1>3, <2>2, <2>3 DEF Named
  <2> HIDE DEF from
  <2> QED  BY <1>1, <2>1, <2>2, <2>4 DEF RangeExact
<1>4. CASE /\ range.first # -1
           /\ range.first >= Size \/ (range.last # -1 /\ range.last < range.first)
  <2>1. Parsed(range) = Unsatisfiable  BY <1>4 DEF Parsed
  <2>2. Named(range) = {}  BY <1>1, <1>4 DEF Named
  <2> QED  BY <2>1, <2>2 DEF RangeExact
<1>5. CASE /\ range.first # -1
           /\ ~(range.first >= Size \/ (range.last # -1 /\ range.last < range.first))
  <2> DEFINE upTo == IF range.last = -1 THEN Size - 1 ELSE Least(range.last, Size - 1)
  <2>1. Parsed(range) = Span(range.first, upTo)  BY <1>5 DEF Parsed
  <2>2. range.first \in 0..(Size - 1) /\ upTo \in range.first..(Size - 1)  BY <1>1, <1>5
  <2>3. \A p \in 0..(Size - 1) : (range.last = -1 \/ p <= range.last) <=> p <= upTo
    BY <1>1, <1>5
  <2>4. Named(range) = range.first..upTo
    <3> HIDE DEF upTo
    <3> QED  BY <1>1, <1>5, <2>2, <2>3 DEF Named
  <2> HIDE DEF upTo
  <2> QED  BY <1>1, <2>1, <2>2, <2>4 DEF RangeExact
<1> QED  BY <1>2, <1>3, <1>4, <1>5

-----------------------------------------------------------------------------
(* The type invariant *)

\* A request goes on, ends, or is left alone, and what a cache gets has the type.
LEMMA RequestTyped ==
  ASSUME ServingAssumption, IInv, TypeOK, NEW r \in Requests, RequestStep(r)
  PROVE  \A s \in Requests :
           request'[s] # Idle =>
             request'[s].phase \in Phases /\ request'[s].ask \in workload.asks
               /\ request'[s].public \in BOOLEAN
<1>1. request[r] # Idle
  BY IdlePhase
  DEF RequestStep, Claim, NotModified, RangeRefused, HeadOnly, Open, Unavailable, Send,
      SendNothing, OfferView, OpenThumbnail, SendThumbnail, ThumbnailGone, WantsBytes, Ready,
      InPhase
<1>2. End(r) \/ \E phase \in Phases : Advance(r, phase)
  BY DEF RequestStep, Claim, NotModified, RangeRefused, HeadOnly, Open, Unavailable, Send,
         SendNothing, OfferView, OpenThumbnail, SendThumbnail, ThumbnailGone, Phases
<1>3. request \in [Requests -> {Idle} \cup Active]  BY DEF IInv, Types
<1>4. CASE End(r)
  BY <1>3, <1>4 DEF End, TypeOK
<1>5. ASSUME NEW phase \in Phases, Advance(r, phase)
      PROVE  \A s \in Requests :
               request'[s] # Idle =>
                 request'[s].phase \in Phases /\ request'[s].ask \in workload.asks
                   /\ request'[s].public \in BOOLEAN
  <2>1. request[r] \in Active  BY <1>1, <1>3
  <2>2. request'[r] = [request[r] EXCEPT !.phase = phase]  BY <1>3, <1>5 DEF Advance
  <2>3. /\ request'[r].phase = phase /\ request'[r].ask = request[r].ask
        /\ request'[r].public = request[r].public
    BY <2>1, <2>2 DEF Active
  <2>4. \A s \in Requests \ {r} : request'[s] = request[s]  BY <1>3, <1>5 DEF Advance
  <2> QED  BY <1>1, <2>3, <2>4 DEF TypeOK
<1> QED  BY <1>2, <1>4, <1>5

LEMMA AnswerTyped ==
  ASSUME ServingAssumption, IInv, TypeOK, NEW r \in Requests, RequestStep(r)
  PROVE  /\ shared' \subseteq Shown /\ served' \in [Images -> Nat]
         /\ stored' \subseteq Images /\ thumbs' \subseteq Images
<1>1. request[r] \in Active
  BY IdlePhase
  DEF RequestStep, Claim, NotModified, RangeRefused, HeadOnly, Open, Unavailable, Send,
      SendNothing, OfferView, OpenThumbnail, SendThumbnail, ThumbnailGone, WantsBytes, Ready,
      InPhase, IInv, Types
<1>2. Image(r) \in Images /\ Asked(r).url \in {"image", "thumbnail"} /\ Asked(r).cookie \in BOOLEAN
  BY <1>1 DEF Active, Ask, Image, Asked
<1>3. ASSUME NEW holds \in {"image", "part", "refusal", "thumbnail"}, Keep(r, holds)
      PROVE  shared' \subseteq Shown
  BY <1>2, <1>3 DEF Keep, Shown, TypeOK
<1>4. ASSUME UNCHANGED shared PROVE shared' \subseteq Shown  BY <1>4 DEF TypeOK
<1>5. UNCHANGED shared
      \/ \E holds \in {"image", "part", "refusal", "thumbnail"} : Keep(r, holds)
  BY DEF RequestStep, Claim, NotModified, RangeRefused, HeadOnly, Open, Unavailable, Send,
         SendNothing, OfferView, OpenThumbnail, SendThumbnail, ThumbnailGone, answerVars
<1>6. UNCHANGED imageVars \/ Finalize(r) \/ UNCHANGED <<stored, thumbs>>
  BY DEF RequestStep, Claim, NotModified, RangeRefused, HeadOnly, Open, Unavailable, Send,
         SendNothing, OfferView, OpenThumbnail, SendThumbnail, ThumbnailGone
<1>7. stored' \subseteq Images /\ thumbs' \subseteq Images
  BY <1>6 DEF Finalize, imageVars, TypeOK
<1>8. served' \in [Images -> Nat]
  <2>1. UNCHANGED served \/ served' = [served EXCEPT ![Image(r)] = @ + 1]
    BY DEF RequestStep, Claim, NotModified, RangeRefused, HeadOnly, Open, Unavailable, Send,
           SendNothing, OfferView, OpenThumbnail, SendThumbnail, ThumbnailGone, answerVars
  <2> QED  BY <1>2, <2>1 DEF TypeOK
<1> QED  BY <1>3, <1>4, <1>5, <1>7, <1>8

\* The channel never holds more than it has room for.
LEMMA ChannelTyped ==
  ASSUME ServingAssumption, IInv, TypeOK, [Next]_vars
  PROVE  Len(channel') <= QueueSize
<1> USE DEF viewVars, workerVars
<1>0. /\ channel \in Seq(Images) /\ Len(channel) \in Nat /\ Len(channel) <= QueueSize
      /\ QueueSize \in Nat
  BY ViewsAssumption DEF IInv, Types, TypeOK, ViewTypes
<1>1. ASSUME NEW x \in Images, Offer(x) PROVE Len(channel') <= QueueSize
  <2>1. CASE channel' = channel  BY <1>0, <2>1
  <2>2. CASE Len(channel) < QueueSize /\ channel' = Append(channel, x)
    <3>1. Len(channel') = Len(channel) + 1  BY <1>0, <2>2
    <3> QED  BY <1>0, <2>2, <3>1
  <2> QED  BY <1>1, <2>1, <2>2 DEF Offer
<1>2. CASE channel' = channel  BY <1>0, <1>2
<1>3. CASE channel # <<>> /\ channel' = Tail(channel)
  <2>1. Len(channel') = Len(channel) - 1  BY <1>0, <1>3, EmptySeq
  <2> QED  BY <1>0, <2>1
<1>4. ASSUME NEW r \in Requests, RequestStep(r), channel' # channel
      PROVE  Len(channel') <= QueueSize
  <2>1. OfferView(r)
    BY <1>4 DEF RequestStep, Claim, NotModified, RangeRefused, HeadOnly, Open, Unavailable,
                Send, SendNothing, OpenThumbnail, SendThumbnail, ThumbnailGone
  <2>2. Image(r) \in Images
    BY <2>1, IdlePhase DEF OfferView, InPhase, IInv, Types, Active, Ask, Image
  <2> QED  BY <1>1, <2>1, <2>2 DEF OfferView
<1>5. CASE WorkerStep
  <2>1. channel' = channel \/ (channel # <<>> /\ channel' = Tail(channel))
    BY <1>5 DEF WorkerStep, Receive, Tick, StartDrain, Drain, Flush, FlushFails
  <2> QED  BY <1>2, <1>3, <2>1
<1>6. ASSUME \/ \E r \in workload.requests, q \in workload.asks : Begin(r, q)
             \/ \E i \in workload.changing : ImageStep(i)
             \/ BeginShutdown \/ Exit \/ Cancel \/ UNCHANGED vars
      PROVE  channel' = channel
  BY <1>6 DEF Begin, ImageStep, Delete, DeleteFiles, StoreThumbnail, BeginShutdown, Exit,
              Cancel, CancelViews, vars
<1> QED  BY <1>2, <1>4, <1>5, <1>6 DEF Next

LEMMA TypesNext ==
  ASSUME ServingAssumption, IInv, TypeOK, [Next]_vars
  PROVE  TypeOK'
<1> USE DEF viewVars, workerVars
<1>1. /\ workload' = workload
      /\ worker' \in {"loop", "flush", "drain", "last", "done"}
      /\ shutdown' \in {"no", "waiting", "cancelled", "exited"}
      /\ lossy' \in BOOLEAN /\ timedOut' \in BOOLEAN
  <2>0. /\ worker \in {"loop", "flush", "drain", "last", "done"}
        /\ shutdown \in {"no", "waiting", "cancelled", "exited"}
        /\ lossy \in BOOLEAN /\ timedOut \in BOOLEAN
    BY DEF TypeOK, ViewTypes
  <2>1. ASSUME NEW r \in Requests, RequestStep(r)
        PROVE  UNCHANGED <<workload, worker, shutdown, timedOut>> /\ lossy' \in {lossy, TRUE}
    BY <2>1 DEF RequestStep, Claim, NotModified, RangeRefused, HeadOnly, Open, Unavailable, Send,
         SendNothing, OfferView, Offer, OpenThumbnail, SendThumbnail, ThumbnailGone
  <2>2. ASSUME WorkerStep, Quiet
        PROVE  /\ UNCHANGED <<workload, shutdown, timedOut>> /\ lossy' \in {lossy, TRUE}
               /\ worker' \in {worker, "loop", "flush", "drain", "last", "done"}
    BY <2>2 DEF WorkerStep, Quiet, Receive, Tick, StartDrain, Drain, Flush, FlushFails,
                EndFlush, TakeBatch
  <2>3. ASSUME \/ \E r \in workload.requests, q \in workload.asks : Begin(r, q)
               \/ \E i \in workload.changing : ImageStep(i)
               \/ (BeginShutdown \/ Exit) /\ Quiet
               \/ Cancel \/ UNCHANGED vars
        PROVE  /\ UNCHANGED <<workload, worker, lossy>>
               /\ shutdown' \in {shutdown, "waiting", "cancelled", "exited"}
               /\ timedOut' = timedOut \/ timedOut' \in BOOLEAN
    BY <2>3 DEF Begin, ImageStep, Delete, DeleteFiles, StoreThumbnail, BeginShutdown, Exit,
                Quiet, Cancel, CancelViews, vars
  <2> QED  BY <2>0, <2>1, <2>2, <2>3 DEF Next
<1>2. ASSUME NEW r \in Requests, RequestStep(r) PROVE TypeOK'
  <2>1. IInv'  BY StepKeeps
  <2> QED
    BY <1>1, <1>2, <2>1, RequestTyped, AnswerTyped, ChannelTyped
    DEF TypeOK, ViewTypes, IInv, Types
<1>3. ASSUME NEW r \in workload.requests, NEW q \in workload.asks, Begin(r, q)
      PROVE  TypeOK'
  <2>0. r \in Requests  BY DEF ServingAssumption, IInv, Types
  <2> DEFINE public == q.image \notin Private \cup Burn \cup Expiring /\ ~q.cookie
             new == [phase |-> "found", ask |-> q, public |-> public]
  <2>1. /\ request' = [request EXCEPT ![r] = new]
        /\ UNCHANGED <<stored, thumbs, shared, served>>
    BY <1>3 DEF Begin, imageVars, answerVars
  <2>2. new.phase \in Phases /\ new.ask \in workload.asks /\ new.public \in BOOLEAN
    BY DEF Phases
  <2> HIDE DEF new
  <2>3. \A s \in Requests : request'[s] = IF s = r THEN new ELSE request[s]
    BY <2>1 DEF IInv, Types
  <2>4. IInv'  BY StepKeeps
  <2> QED  BY <1>1, <2>1, <2>2, <2>3, <2>4, ChannelTyped DEF TypeOK, ViewTypes, IInv, Types
<1>4. ASSUME \/ \E i \in workload.changing : ImageStep(i)
             \/ (WorkerStep \/ BeginShutdown \/ Exit) /\ Quiet
             \/ Cancel \/ UNCHANGED vars
      PROVE  TypeOK'
  <2>1. workload.changing \subseteq Images  BY DEF ServingAssumption, IInv, Types
  <2>2. /\ UNCHANGED <<request, shared, served>>
        /\ stored' \subseteq Images /\ thumbs' \subseteq Images
    BY <1>4, <2>1 DEF ImageStep, Delete, DeleteFiles, StoreThumbnail, Quiet, Cancel, vars,
                      imageVars, answerVars, TypeOK
  <2>3. IInv'  BY StepKeeps
  <2> QED  BY <1>1, <2>2, <2>3, ChannelTyped DEF TypeOK, ViewTypes, IInv, Types
<1> QED  BY <1>2, <1>3, <1>4 DEF Next

-----------------------------------------------------------------------------
(* What a shared cache keeps *)

\* The decision on Cache-Control stays true, and thumbnails never open as images.
Publicly ==
  \A r \in Requests :
    request[r] # Idle =>
      /\ request[r].public =>
           Image(r) \notin Private \cup Burn \cup Expiring /\ ~Asked(r).cookie
      /\ request[r].phase = "open" => Asked(r).url = "image"

\* A step of a request keeps what it asked for and who may keep the answer.
LEMMA Publishes ==
  ASSUME IInv, Publicly, NEW r \in Requests, RequestStep(r)
  PROVE  Publicly'
<1>1. request[r] # Idle
  BY IdlePhase
  DEF RequestStep, Claim, NotModified, RangeRefused, HeadOnly, Open, Unavailable, Send,
      SendNothing, OfferView, OpenThumbnail, SendThumbnail, ThumbnailGone, WantsBytes, Ready,
      InPhase
<1>2. \/ End(r)
      \/ \E phase \in Phases : Advance(r, phase) /\ (phase = "open" => Asked(r).url = "image")
  BY DEF RequestStep, Claim, NotModified, RangeRefused, HeadOnly, Open, Unavailable, Send,
         SendNothing, OfferView, OpenThumbnail, SendThumbnail, ThumbnailGone, WantsBytes, Ready,
         Phases
<1>3. request \in [Requests -> {Idle} \cup Active]  BY DEF IInv, Types
<1>4. CASE End(r)
  BY <1>3, <1>4 DEF End, Publicly, Image, Asked
<1>5. ASSUME NEW phase \in Phases, Advance(r, phase), phase = "open" => Asked(r).url = "image"
      PROVE  Publicly'
  <2>1. request[r] \in Active  BY <1>1, <1>3
  <2>2. request'[r] = [request[r] EXCEPT !.phase = phase]  BY <1>3, <1>5 DEF Advance
  <2>3. /\ request'[r].phase = phase /\ request'[r].ask = request[r].ask
        /\ request'[r].public = request[r].public
    BY <2>1, <2>2 DEF Active
  <2>4. \A s \in Requests \ {r} : request'[s] = request[s]  BY <1>3, <1>5 DEF Advance
  <2> QED  BY <1>1, <1>5, <2>3, <2>4 DEF Publicly, Image, Asked
<1> QED  BY <1>2, <1>4, <1>5

LEMMA PubliclyNext ==
  ASSUME ServingAssumption, IInv, Publicly, [Next]_vars
  PROVE  Publicly'
<1>1. ASSUME NEW r \in workload.requests, NEW q \in workload.asks, Begin(r, q)
      PROVE  Publicly'
  <2>1. r \in Requests  BY DEF ServingAssumption, IInv, Types
  <2> DEFINE public == q.image \notin Private \cup Burn \cup Expiring /\ ~q.cookie
             new == [phase |-> "found", ask |-> q, public |-> public]
  <2>2. request' = [request EXCEPT ![r] = new]  BY <1>1 DEF Begin
  <2>3. new.phase = "found" /\ new.ask = q /\ (new.public <=> public)  OBVIOUS
  <2> HIDE DEF new
  <2>4. \A s \in Requests : request'[s] = IF s = r THEN new ELSE request[s]
    BY <2>2 DEF IInv, Types
  <2> QED  BY <2>1, <2>3, <2>4 DEF Publicly, Image, Asked
<1>2. ASSUME NEW r \in Requests, RequestStep(r) PROVE Publicly'
  BY <1>2, Publishes
<1>3. CASE UNCHANGED request
  BY <1>3 DEF Publicly, Image, Asked
<1>4. ASSUME \/ \E i \in workload.changing : ImageStep(i)
             \/ (WorkerStep \/ BeginShutdown \/ Exit) /\ Quiet
             \/ Cancel \/ UNCHANGED vars
      PROVE  UNCHANGED request
  BY <1>4 DEF ImageStep, Delete, DeleteFiles, StoreThumbnail, Quiet, Cancel, vars
<1> QED  BY <1>1, <1>2, <1>3, <1>4 DEF Next

\* Nothing enters the cache but a public answer, under the URL that was asked for.
LEMMA CachedNext ==
  ASSUME ServingAssumption, IInv, Publicly, CachedForAll, [Next]_vars
  PROVE  CachedForAll'
<1>1. ASSUME NEW r \in Requests, NEW holds, Keep(r, holds), request[r] # Idle,
             Asked(r).url = "thumbnail" => holds = "thumbnail"
      PROVE  CachedForAll'
  <2>1. \A e \in shared' : e \notin shared =>
          /\ request[r].public
          /\ e.image = Image(r) /\ e.url = Asked(r).url /\ e.holds = holds
          /\ e.cookie = Asked(r).cookie
    BY <1>1 DEF Keep
  <2> QED  BY <1>1, <2>1 DEF CachedForAll, Publicly
<1>2. ASSUME NEW r \in Requests, RangeRefused(r) PROVE CachedForAll'
  <2>1. request[r] # Idle /\ Asked(r).url = "image" /\ Keep(r, "refusal")
    BY <1>2, IdlePhase DEF RangeRefused, Ready, InPhase
  <2> QED  BY <1>1, <2>1
<1>3. ASSUME NEW r \in Requests, Send(r) PROVE CachedForAll'
  <2>1. request[r] # Idle /\ request[r].phase = "open"  BY <1>3, IdlePhase DEF Send, InPhase
  <2>2. Asked(r).url = "image"  BY <2>1 DEF Publicly
  <2>3. CASE UNCHANGED shared  BY <2>3 DEF CachedForAll
  <2>4. CASE Keep(r, IF Part(Asked(r)) = Whole THEN "image" ELSE "part")
    BY <1>1, <2>1, <2>2, <2>4
  <2> QED  BY <1>3, <2>3, <2>4 DEF Send
<1>4. ASSUME NEW r \in Requests, SendThumbnail(r) PROVE CachedForAll'
  <2>1. request[r] # Idle  BY <1>4, IdlePhase DEF SendThumbnail, InPhase
  <2>2. UNCHANGED shared \/ Keep(r, "thumbnail")  BY <1>4 DEF SendThumbnail, ThumbnailPublic
  <2> QED  BY <1>1, <2>1, <2>2 DEF CachedForAll
<1>5. CASE UNCHANGED shared
  BY <1>5 DEF CachedForAll
<1>6. ASSUME ~(\E r \in Requests : RangeRefused(r) \/ Send(r) \/ SendThumbnail(r))
      PROVE  UNCHANGED shared
  BY <1>6
  DEF Next, Begin, RequestStep, Claim, NotModified, HeadOnly, Open, Unavailable,
      SendNothing, OfferView, OpenThumbnail, ThumbnailGone, ImageStep, Delete, DeleteFiles,
      StoreThumbnail, Quiet, Cancel, vars, answerVars
<1> QED  BY <1>2, <1>3, <1>4, <1>5, <1>6

-----------------------------------------------------------------------------
(* The stop of the worker *)

\* Where the worker is, says what it still holds, and a stop that waited for every
\* request leaves nobody to offer more.
Control ==
  /\ worker \in {"loop", "drain", "done"} => batch = None
  /\ worker \in {"last", "done"} => pending = None
  /\ worker \in {"drain", "last", "done"} => shutdown \in {"cancelled", "exited"}
  /\ shutdown = "exited" => worker = "done"
  /\ shutdown \in {"cancelled", "exited"} /\ ~timedOut =>
       /\ \A r \in Requests : request[r] = Idle
       /\ worker \in {"last", "done"} => channel = <<>>

LEMMA ControlNext ==
  ASSUME ServingAssumption, IInv, Control, [Next]_vars
  PROVE  Control'
<1> USE DEF viewVars, workerVars
<1>1. ASSUME NEW r \in workload.requests, NEW q \in workload.asks, Begin(r, q)
      PROVE  Control'
  BY <1>1 DEF Begin, Control
<1>2. ASSUME NEW r \in Requests, RequestStep(r) PROVE Control'
  <2>1. request[r] # Idle
    BY <1>2, IdlePhase
    DEF RequestStep, Claim, NotModified, RangeRefused, HeadOnly, Open, Unavailable, Send,
        SendNothing, OfferView, OpenThumbnail, SendThumbnail, ThumbnailGone, WantsBytes, Ready,
        InPhase
  <2>2. UNCHANGED <<batch, pending, worker, shutdown, timedOut>>
    BY <1>2
    DEF RequestStep, Claim, NotModified, RangeRefused, HeadOnly, Open, Unavailable, Send,
        SendNothing, OfferView, Offer, OpenThumbnail, SendThumbnail, ThumbnailGone
  <2> QED  BY <2>1, <2>2 DEF Control
<1>3. CASE WorkerStep /\ Quiet
  <2>1. UNCHANGED <<request, timedOut, shutdown>>
    BY <1>3 DEF Quiet, WorkerStep, Receive, Tick, StartDrain, Drain, Flush, FlushFails
  <2>2. CASE Receive \/ Tick  BY <2>1, <2>2 DEF Receive, Tick, TakeBatch, Control
  <2>3. CASE StartDrain  BY <2>1, <2>3 DEF StartDrain, Control
  <2>4. CASE Drain  BY <2>1, <2>4 DEF Drain, TakeBatch, Control
  <2>5. CASE Flush \/ FlushFails  BY <2>1, <2>5 DEF Flush, FlushFails, EndFlush, Control
  <2> QED  BY <1>3, <2>2, <2>3, <2>4, <2>5 DEF WorkerStep
<1>4. CASE (BeginShutdown \/ Exit) /\ Quiet
  BY <1>4 DEF BeginShutdown, Exit, Quiet, Control
<1>5. CASE Cancel
  BY <1>5 DEF Cancel, CancelViews, Control
<1>6. ASSUME (\E i \in workload.changing : ImageStep(i)) \/ UNCHANGED vars
      PROVE  Control'
  BY <1>6 DEF ImageStep, Delete, DeleteFiles, StoreThumbnail, vars, Control
<1> QED  BY <1>1, <1>2, <1>3, <1>4, <1>5, <1>6 DEF Next

-----------------------------------------------------------------------------
(* Views of the images that do not burn *)

Places(i) == {k \in 1..Len(channel) : channel[k] = i}
Sent(i) == {r \in Requests : request[r].phase = "sent" /\ Image(r) = i}
Load(i) == viewCount[i] + batch[i] + pending[i] + Cardinality(Places(i)) + Cardinality(Sent(i))

Balanced ==
  /\ served \in [Images -> Nat]
  /\ \A i \in Images \ Burn : Load(i) <= served[i] /\ (~lossy => Load(i) = served[i])

LEMMA Finite ==
  ASSUME ServingAssumption, Types, NEW i
  PROVE  /\ IsFiniteSet(Places(i)) /\ Cardinality(Places(i)) \in Nat
         /\ IsFiniteSet(Sent(i)) /\ Cardinality(Sent(i)) \in Nat
<1>1. Len(channel) \in Int  BY DEF Types
<1>2. IsFiniteSet(1..Len(channel))  BY <1>1, FS_Interval
<1>3. IsFiniteSet(Places(i))  BY <1>2, FS_Subset DEF Places
<1>4. IsFiniteSet(Sent(i))  BY FS_Subset DEF Sent, ServingAssumption
<1> QED  BY <1>3, <1>4, FS_CardinalityType

\* An offer puts one view into the channel, at its end.
LEMMA Appended ==
  ASSUME ServingAssumption, Types, NEW x \in Images, channel' = Append(channel, x), NEW i \in Images
  PROVE  Cardinality(Places(i)') = Cardinality(Places(i)) + (IF i = x THEN 1 ELSE 0)
<1>1. /\ Len(channel) \in Nat /\ Len(channel') = Len(channel) + 1
      /\ \A k \in 1..Len(channel) : channel'[k] = channel[k]
      /\ channel'[Len(channel) + 1] = x
  BY DEF Types
<1>2. Places(i)' = {k \in 1..Len(channel') : channel'[k] = i}  BY DEF Places
<1>3. CASE i = x
  <2>1. Places(i)' = Places(i) \cup {Len(channel) + 1} /\ Len(channel) + 1 \notin Places(i)
    BY <1>1, <1>2, <1>3 DEF Places
  <2> QED  BY <1>3, <2>1, Finite, FS_AddElement
<1>4. CASE i # x
  <2>1. Places(i)' = Places(i)  BY <1>1, <1>2, <1>4 DEF Places
  <2> QED  BY <1>4, <2>1, Finite
<1> QED  BY <1>3, <1>4

\* Receiving takes one view out of the channel, from its head.
LEMMA Taken ==
  ASSUME ServingAssumption, Types, channel # <<>>, channel' = Tail(channel), NEW i \in Images
  PROVE  /\ Cardinality(Places(i)') + (IF i = Head(channel) THEN 1 ELSE 0) = Cardinality(Places(i))
         /\ Cardinality(Places(i)') \in Nat
<1>0. channel \in Seq(Images) /\ Len(channel) \in Nat \ {0} /\ Head(channel) = channel[1]
  BY EmptySeq DEF Types
<1>1. /\ Len(channel') = Len(channel) - 1
      /\ \A k \in 1..Len(channel') : channel'[k] = channel[k + 1] /\ k + 1 \in 1..Len(channel)
  BY <1>0
<1>2. Places(i)' = {k \in 1..Len(channel') : channel'[k] = i}  BY DEF Places
<1> DEFINE later == [k \in Places(i)' |-> k + 1]
<1>3. later \in [Places(i)' -> Places(i) \ {1}]
  <2> SUFFICES ASSUME NEW k \in Places(i)' PROVE k + 1 \in Places(i) \ {1}  OBVIOUS
  <2>1. k \in 1..Len(channel') /\ channel'[k] = i  BY <1>2
  <2> QED  BY <1>1, <2>1 DEF Places
<1>4. \A j, k \in Places(i)' : later[j] = later[k] => j = k
  BY <1>2
<1>s. \A k \in Places(i) \ {1} : \E j \in Places(i)' : later[j] = k
  <2> SUFFICES ASSUME NEW k \in Places(i) \ {1} PROVE k - 1 \in Places(i)' /\ (k - 1) + 1 = k
    OBVIOUS
  <2>1. k \in 1..Len(channel) /\ k # 1 /\ channel[k] = i  BY DEF Places
  <2>2. k - 1 \in 1..Len(channel') /\ (k - 1) + 1 = k  BY <1>0, <1>1, <2>1
  <2> QED  BY <1>1, <1>2, <2>1, <2>2
<1> HIDE DEF later
<1>5. /\ later \in Injection(Places(i)', Places(i) \ {1})
      /\ later \in Surjection(Places(i)', Places(i) \ {1})
  BY <1>3, <1>4, <1>s DEF Injection, IsInjective, Surjection
<1>6. IsFiniteSet(Places(i) \ {1})
      /\ Cardinality(Places(i) \ {1}) = Cardinality(Places(i)) - (IF i = Head(channel) THEN 1 ELSE 0)
  <2>1. 1 \in Places(i) <=> i = Head(channel)  BY <1>0 DEF Places
  <2> QED  BY <2>1, Finite, FS_RemoveElement
<1>7. /\ IsFiniteSet(Places(i)')
      /\ Cardinality(Places(i)') = Cardinality(Places(i) \ {1})
  BY <1>5, <1>6, FS_Injection
<1>8. Cardinality(Places(i)') \in Nat  BY <1>7, FS_CardinalityType
<1> QED  BY <1>6, <1>7, <1>8, Finite

\* What has been received, and not yet written, is what weighs on an image.
LEMMA Carries ==
  ASSUME ServingAssumption, Types, Balanced, UNCHANGED <<request, served>>,
         viewCount' \in [Images -> Nat], batch' \in [Images -> Nat], pending' \in [Images -> Nat],
         \A i \in Images \ Burn :
           /\ Cardinality(Places(i)') \in Nat
           /\ viewCount'[i] + batch'[i] + pending'[i] + Cardinality(Places(i)')
                <= viewCount[i] + batch[i] + pending[i] + Cardinality(Places(i))
           /\ ~lossy' =>
                /\ ~lossy
                /\ viewCount'[i] + batch'[i] + pending'[i] + Cardinality(Places(i)')
                     = viewCount[i] + batch[i] + pending[i] + Cardinality(Places(i))
  PROVE  Balanced'
<1> SUFFICES ASSUME NEW i \in Images \ Burn
             PROVE  Load(i)' <= served[i] /\ (~lossy' => Load(i)' = served[i])
  BY DEF Balanced
<1>1. Sent(i)' = Sent(i)  BY DEF Sent, Image
<1>2. Load(i)' = viewCount'[i] + batch'[i] + pending'[i] + Cardinality(Places(i)')
                   + Cardinality(Sent(i))
  BY <1>1 DEF Load
<1>3. /\ {viewCount'[i], batch'[i], pending'[i], Cardinality(Places(i)')} \subseteq Nat
      /\ {viewCount[i], batch[i], pending[i], Cardinality(Places(i)), Cardinality(Sent(i))} \subseteq Nat
      /\ served[i] \in Nat /\ Load(i) <= served[i] /\ (~lossy => Load(i) = served[i])
  BY Finite DEF Types, Balanced
<1>4. CASE lossy'  BY <1>2, <1>3, <1>4 DEF Load
<1>5. CASE ~lossy'  BY <1>2, <1>3, <1>5 DEF Load
<1> QED  BY <1>4, <1>5

LEMMA WorkerBalanced ==
  ASSUME ServingAssumption, IInv, Control, Balanced, WorkerStep, Quiet
  PROVE  Balanced'
<1>0. /\ viewCount \in [Images -> Nat] /\ pending \in [Images -> Nat] /\ batch \in [Images -> Nat]
      /\ None \in [Images -> Nat] /\ \A i \in Images : None[i] = 0
      /\ Types /\ UNCHANGED <<request, served>>
      /\ \A i \in Images : Cardinality(Places(i)) \in Nat
  BY Finite DEF IInv, Types, None, Quiet, answerVars
<1> DEFINE counted == [pending EXCEPT ![Head(channel)] = @ + 1]
<1>1. CASE /\ channel # <<>> /\ channel' = Tail(channel) /\ viewCount' = viewCount
           /\ \/ batch' = counted /\ pending' = None
              \/ pending' = counted /\ batch' = batch
           /\ batch = None /\ lossy' = lossy
  <2>1. Head(channel) \in Images  BY <1>1, EmptySeq DEF IInv, Types
  <2>2. /\ counted \in [Images -> Nat]
        /\ \A i \in Images : counted[i] = pending[i] + (IF i = Head(channel) THEN 1 ELSE 0)
    BY <1>0, <2>1
  <2>3. \A i \in Images :
          /\ Cardinality(Places(i)') + (IF i = Head(channel) THEN 1 ELSE 0) = Cardinality(Places(i))
          /\ Cardinality(Places(i)') \in Nat
    BY <1>0, <1>1, Taken
  <2> HIDE DEF counted
  <2>4. /\ batch' \in [Images -> Nat] /\ pending' \in [Images -> Nat]
        /\ \A i \in Images : batch'[i] + pending'[i] = batch[i] + counted[i]
    BY <1>0, <1>1, <2>2
  <2>5. ASSUME NEW i \in Images
        PROVE  viewCount'[i] + batch'[i] + pending'[i] + Cardinality(Places(i)')
                 = viewCount[i] + batch[i] + pending[i] + Cardinality(Places(i))
    <3>1. /\ viewCount'[i] = viewCount[i] /\ viewCount[i] \in Nat
          /\ {batch[i], pending[i], batch'[i], pending'[i]} \subseteq Nat
          /\ Cardinality(Places(i)) \in Nat /\ Cardinality(Places(i)') \in Nat
      BY <1>0, <1>1, <2>3, <2>4
    <3>2. batch'[i] + pending'[i] = batch[i] + counted[i]  BY <2>4
    <3>3. CASE i = Head(channel)
      <4>1. counted[i] = pending[i] + 1 /\ Cardinality(Places(i)') + 1 = Cardinality(Places(i))
        BY <2>2, <2>3, <3>3
      <4> QED  BY <3>1, <3>2, <4>1
    <3>4. CASE i # Head(channel)
      <4>1. counted[i] = pending[i] /\ Cardinality(Places(i)') = Cardinality(Places(i))
        BY <2>2, <2>3, <3>1, <3>4
      <4> QED  BY <3>1, <3>2, <4>1
    <3> QED  BY <3>3, <3>4
  <2>6. ASSUME NEW i \in Images
        PROVE  viewCount'[i] + batch'[i] + pending'[i] + Cardinality(Places(i)') \in Int
    <3>1. {viewCount'[i], batch'[i], pending'[i], Cardinality(Places(i)')} \subseteq Nat
      BY <1>0, <1>1, <2>3, <2>4
    <3> QED  BY <3>1
  <2>7. \A i \in Images :
          viewCount'[i] + batch'[i] + pending'[i] + Cardinality(Places(i)')
            <= viewCount[i] + batch[i] + pending[i] + Cardinality(Places(i))
    BY <2>5, <2>6
  <2> QED  BY <1>0, <1>1, <2>3, <2>4, <2>5, <2>7, Carries
<1>2. CASE /\ viewCount' \in {viewCount, Counted} /\ batch' = None
           /\ pending' = pending /\ channel' = channel
           /\ lossy' \/ (lossy' = lossy /\ viewCount' = Counted)
  <2>1. Counted \in [Images -> Nat] /\ \A i \in Images : Counted[i] = viewCount[i] + batch[i]
    BY <1>0 DEF Counted
  <2>2. viewCount' \in [Images -> Nat]
        /\ \A i \in Images : viewCount'[i] <= viewCount[i] + batch[i]
    BY <1>0, <1>2, <2>1
  <2>3. \A i \in Images : Places(i)' = Places(i)  BY <1>2 DEF Places
  <2>4. ASSUME NEW i \in Images
        PROVE  viewCount'[i] + batch'[i] + pending'[i] + Cardinality(Places(i)')
                 <= viewCount[i] + batch[i] + pending[i] + Cardinality(Places(i))
    BY <1>0, <1>2, <2>2, <2>3
  <2>5. ASSUME NEW i \in Images, ~lossy'
        PROVE  /\ ~lossy
               /\ viewCount'[i] + batch'[i] + pending'[i] + Cardinality(Places(i)')
                    = viewCount[i] + batch[i] + pending[i] + Cardinality(Places(i))
    BY <1>0, <1>2, <2>1, <2>3, <2>5
  <2> QED  BY <1>0, <1>2, <2>2, <2>3, <2>4, <2>5, Carries
<1>3. CASE \/ /\ batch = None /\ batch' = pending /\ pending' = None
              /\ UNCHANGED <<channel, viewCount, lossy>>
           \/ UNCHANGED <<channel, viewCount, batch, pending, lossy>>
  <2>1. \A i \in Images : Places(i)' = Places(i)  BY <1>3 DEF Places
  <2>2. ASSUME NEW i \in Images
        PROVE  LET before == viewCount[i] + batch[i] + pending[i] + Cardinality(Places(i))
                   after == viewCount'[i] + batch'[i] + pending'[i] + Cardinality(Places(i)')
               IN  after = before /\ after <= before
    <3>1. {viewCount[i], batch[i], pending[i], Cardinality(Places(i))} \subseteq Nat  BY <1>0
    <3> QED  BY <1>0, <1>3, <2>1, <3>1
  <2> QED  BY <1>0, <1>3, <2>1, <2>2, Carries
<1> QED
  BY <1>1, <1>2, <1>3
  DEF WorkerStep, Receive, Tick, StartDrain, Drain, Flush, FlushFails, EndFlush, TakeBatch,
      Control

\* A request that ends, or goes on to anything but an offer, takes nothing from
\* the counter and adds nothing to it.
LEMMA RequestBalanced ==
  ASSUME ServingAssumption, IInv, Balanced, NEW r \in Requests, request[r].phase # "sent",
         \/ End(r)
         \/ /\ request[r].phase # "idle"
            /\ \E phase \in Phases \ {"sent"} : Advance(r, phase),
         UNCHANGED <<served, batch, pending, channel, lossy>>,
         \A i \in Images \ Burn : viewCount'[i] = viewCount[i]
  PROVE  Balanced'
<1>0. request \in [Requests -> {Idle} \cup Active]  BY DEF IInv, Types
<1>1. /\ request'[r].phase # "sent"
      /\ \A s \in Requests \ {r} : request'[s] = request[s]
  <2>1. CASE End(r)  BY <1>0, <2>1, IdlePhase DEF End
  <2>2. ASSUME request[r].phase # "idle", NEW phase \in Phases \ {"sent"}, Advance(r, phase)
        PROVE  /\ request'[r].phase # "sent"
               /\ \A s \in Requests \ {r} : request'[s] = request[s]
    <3>1. request[r] \in Active  BY <1>0, <2>2, IdlePhase
    <3>2. request'[r] = [request[r] EXCEPT !.phase = phase]  BY <1>0, <2>2 DEF Advance
    <3>3. request'[r].phase = phase  BY <3>1, <3>2 DEF Active
    <3> QED  BY <1>0, <2>2, <3>3 DEF Advance
  <2> QED  BY <2>1, <2>2
<1>2. ASSUME NEW i \in Images \ Burn PROVE Load(i)' = Load(i)
  <2>1. Sent(i)' = Sent(i)  BY <1>1 DEF Sent, Image
  <2>2. Places(i)' = Places(i)  BY DEF Places
  <2> QED  BY <2>1, <2>2 DEF Load
<1> QED  BY <1>2 DEF Balanced

\* A request served an image, and will offer its view.
LEMMA SendBalanced ==
  ASSUME ServingAssumption, IInv, Balanced, NEW r \in Requests, Send(r)
  PROVE  Balanced'
<1>0. /\ request \in [Requests -> {Idle} \cup Active] /\ served \in [Images -> Nat]
      /\ request[r].phase = "open" /\ request[r] \in Active
      /\ UNCHANGED <<viewCount, batch, pending, channel, lossy>>
  BY IdlePhase DEF Send, InPhase, IInv, Types, Balanced, viewVars, workerVars
<1>1. CASE Image(r) \in Burn
  BY <1>1, <1>0, RequestBalanced DEF Send
<1>2. CASE Image(r) \notin Burn
  <2>1. PICK x \in Images : x = Image(r)  BY <1>0 DEF Active, Ask, Image
  <2>2. Advance(r, "sent") /\ served' = [served EXCEPT ![x] = @ + 1]
    BY <1>2, <2>1 DEF Send
  <2>3. request'[r] = [request[r] EXCEPT !.phase = "sent"]  BY <1>0, <2>2 DEF Advance
  <2>4. request'[r].phase = "sent" /\ request'[r].ask = request[r].ask
    BY <1>0, <2>3 DEF Active
  <2>5. \A s \in Requests \ {r} : request'[s] = request[s]  BY <1>0, <2>2 DEF Advance
  <2>6. ASSUME NEW i \in Images \ Burn
        PROVE  Load(i)' <= served'[i] /\ (~lossy' => Load(i)' = served'[i])
    <3>1. Sent(i)' = IF i = x THEN Sent(i) \cup {r} ELSE Sent(i)
      BY <1>0, <2>1, <2>4, <2>5 DEF Sent, Image
    <3>2. r \notin Sent(i)  BY <1>0 DEF Sent
    <3>3. Cardinality(Sent(i)') = Cardinality(Sent(i)) + (IF i = x THEN 1 ELSE 0)
      <4>1. IsFiniteSet(Sent(i)) /\ Cardinality(Sent(i)) \in Nat  BY Finite DEF IInv
      <4>2. Cardinality(Sent(i) \cup {r}) = Cardinality(Sent(i)) + 1
        BY <3>2, <4>1, FS_AddElement
      <4> QED  BY <3>1, <4>1, <4>2
    <3>4. Places(i)' = Places(i)  BY <1>0 DEF Places
    <3>5. Load(i)' = viewCount[i] + batch[i] + pending[i] + Cardinality(Places(i))
                       + Cardinality(Sent(i)')
      BY <1>0, <3>4 DEF Load
    <3>6. /\ {viewCount[i], batch[i], pending[i], served[i]} \subseteq Nat
          /\ Load(i) <= served[i] /\ (~lossy' => Load(i) = served[i])
          /\ {Cardinality(Places(i)), Cardinality(Sent(i))} \subseteq Nat
      BY <1>0, Finite DEF IInv, Types, Balanced
    <3>7. served'[i] = served[i] + (IF i = x THEN 1 ELSE 0)  BY <1>0, <2>2
    <3> QED  BY <3>3, <3>5, <3>6, <3>7 DEF Load
  <2>7. served' \in [Images -> Nat]  BY <1>0, <2>2
  <2> QED  BY <2>6, <2>7 DEF Balanced
<1> QED  BY <1>1, <1>2

\* A request leaves its view to the channel, or drops it.
LEMMA OfferBalanced ==
  ASSUME ServingAssumption, IInv, Balanced, NEW r \in Requests, OfferView(r)
  PROVE  Balanced'
<1>0. /\ request \in [Requests -> {Idle} \cup Active] /\ served \in [Images -> Nat]
      /\ request[r].phase = "sent" /\ request[r] \in Active
      /\ UNCHANGED <<viewCount, batch, pending, served>>
  BY IdlePhase DEF OfferView, Offer, InPhase, IInv, Types, Balanced, workerVars, answerVars
<1>1. PICK x \in Images : x = Image(r)  BY <1>0 DEF Active, Ask, Image
<1>2. \/ channel' = channel /\ lossy'
      \/ channel' = Append(channel, x) /\ lossy' = lossy
  BY <1>1 DEF OfferView, Offer
<1>3. request'[r].phase = "idle" /\ \A s \in Requests \ {r} : request'[s] = request[s]
  BY <1>0, IdlePhase DEF OfferView, End
<1>4. ASSUME NEW i \in Images \ Burn
      PROVE  Load(i)' <= served[i] /\ (~lossy' => Load(i)' = served[i])
  <2>1. Sent(i)' = Sent(i) \ {r} /\ (r \in Sent(i) <=> i = x)
    BY <1>0, <1>1, <1>3 DEF Sent, Image
  <2>2. Cardinality(Sent(i)') = Cardinality(Sent(i)) - (IF i = x THEN 1 ELSE 0)
    <3>1. IsFiniteSet(Sent(i)) /\ Cardinality(Sent(i)) \in Nat  BY Finite DEF IInv
    <3>2. Cardinality(Sent(i) \ {r})
            = IF r \in Sent(i) THEN Cardinality(Sent(i)) - 1 ELSE Cardinality(Sent(i))
      BY <3>1, FS_RemoveElement
    <3> QED  BY <2>1, <3>1, <3>2
  <2>3. \/ Cardinality(Places(i)') = Cardinality(Places(i)) /\ lossy'
        \/ /\ Cardinality(Places(i)') = Cardinality(Places(i)) + (IF i = x THEN 1 ELSE 0)
           /\ lossy' = lossy
    <3>1. CASE channel' = channel /\ lossy'
      <4>1. Places(i)' = Places(i)  BY <3>1 DEF Places
      <4> QED  BY <3>1, <4>1
    <3>2. CASE channel' = Append(channel, x) /\ lossy' = lossy
      BY <3>2, Appended DEF IInv
    <3> QED  BY <1>2, <3>1, <3>2
  <2>4. Load(i)' = viewCount[i] + batch[i] + pending[i] + Cardinality(Places(i)')
                     + Cardinality(Sent(i)')
    BY <1>0 DEF Load
  <2>5. /\ {viewCount[i], batch[i], pending[i], served[i]} \subseteq Nat
        /\ Load(i) <= served[i] /\ (~lossy => Load(i) = served[i])
        /\ {Cardinality(Places(i)), Cardinality(Sent(i))} \subseteq Nat
    BY Finite DEF IInv, Types, Balanced
  <2> QED  BY <2>2, <2>3, <2>4, <2>5 DEF Load
<1> QED  BY <1>0, <1>4 DEF Balanced

LEMMA BalancedNext ==
  ASSUME ServingAssumption, IInv, Control, Balanced, [Next]_vars
  PROVE  Balanced'
<1> USE DEF viewVars, workerVars, imageVars, answerVars
<1>1. ASSUME NEW r \in Requests, RequestStep(r) PROVE Balanced'
  <2>1. CASE Claim(r)
    <3>1. /\ request[r].phase = "found" /\ Image(r) \in Burn
          /\ UNCHANGED <<served, batch, pending, channel, lossy>>
          /\ End(r) \/ Advance(r, "claimed")
      BY <2>1 DEF Claim, InPhase, MustClaim
    <3>2. \A i \in Images \ Burn : viewCount'[i] = viewCount[i]
      BY <2>1, <3>1 DEF Claim, IInv, Types
    <3> QED  BY <3>1, <3>2, RequestBalanced DEF Phases
  <2>2. CASE NotModified(r) \/ RangeRefused(r) \/ Unavailable(r) \/ HeadOnly(r)
               \/ SendNothing(r) \/ SendThumbnail(r) \/ ThumbnailGone(r)
    <3>1. /\ End(r) /\ request[r].phase # "sent"
          /\ UNCHANGED <<served, batch, pending, channel, viewCount, lossy>>
      BY <2>2 DEF NotModified, RangeRefused, Unavailable, HeadOnly, SendNothing,
                  SendThumbnail, ThumbnailGone, WantsBytes, Ready, InPhase
    <3> QED  BY <3>1, RequestBalanced
  <2>3. CASE Open(r) \/ OpenThumbnail(r)
    <3>1. /\ request[r].phase \in {"found", "claimed"}
          /\ Advance(r, "open") \/ Advance(r, "thumbnail") \/ Advance(r, "fallback")
          /\ UNCHANGED <<served, batch, pending, channel, viewCount, lossy>>
      BY <2>3, ReadyHolds DEF Open, OpenThumbnail, WantsBytes, InPhase
    <3> QED  BY <3>1, RequestBalanced DEF Phases
  <2> QED  BY <1>1, <2>1, <2>2, <2>3, SendBalanced, OfferBalanced DEF RequestStep
<1>2. ASSUME NEW r \in workload.requests, NEW q \in workload.asks, Begin(r, q)
      PROVE  Balanced'
  <2>0. r \in Requests /\ q \in Ask  BY DEF ServingAssumption, IInv, Types
  <2> DEFINE new == [phase |-> "found", ask |-> q,
                     public |-> q.image \notin Private \cup Burn \cup Expiring /\ ~q.cookie]
  <2>1. /\ request' = [request EXCEPT ![r] = new] /\ request[r].phase # "sent"
        /\ UNCHANGED <<served, batch, pending, channel, viewCount, lossy>>
    BY <1>2, IdlePhase DEF Begin
  <2>2. new.phase = "found"  OBVIOUS
  <2> HIDE DEF new
  <2>3. \A i : Sent(i)' = Sent(i)
    <3>1. \A s \in Requests : request'[s] = IF s = r THEN new ELSE request[s]
      BY <2>1 DEF IInv, Types
    <3> QED  BY <2>1, <2>2, <3>1 DEF Sent, Image
  <2>4. \A i : Places(i)' = Places(i)  BY <2>1 DEF Places
  <2> QED  BY <2>1, <2>3, <2>4 DEF Balanced, Load
<1>3. CASE WorkerStep /\ Quiet  BY <1>3, WorkerBalanced
<1>4. CASE UNCHANGED <<served, batch, pending, channel, viewCount, lossy, request>>
  <2>1. \A i : Places(i)' = Places(i) /\ Sent(i)' = Sent(i)  BY <1>4 DEF Places, Sent, Image
  <2> QED  BY <1>4, <2>1 DEF Balanced, Load
<1>5. ASSUME \/ \E i \in workload.changing : ImageStep(i)
             \/ (BeginShutdown \/ Exit) /\ Quiet
             \/ Cancel
             \/ UNCHANGED vars
      PROVE  UNCHANGED <<served, batch, pending, channel, viewCount, lossy, request>>
  BY <1>5 DEF ImageStep, Delete, DeleteFiles, StoreThumbnail, BeginShutdown, Exit, Quiet,
              Cancel, CancelViews, vars
<1> QED  BY <1>1, <1>2, <1>3, <1>4, <1>5 DEF Next

-----------------------------------------------------------------------------
(* The theorems *)

\* The variables keep their types, and the channel its bound (runViewsWorker,
\* ServeImage, ServeThumbnail).
THEOREM ServingTyped == Spec => []TypeOK
<1>1. Init => TypeOK
  <2> SUFFICES ASSUME Init PROVE TypeOK  OBVIOUS
  <2>1. Len(channel) <= QueueSize /\ channel \in Seq(Images)
    BY ViewsAssumption DEF Init, ViewsInit
  <2>2. None \in [Images -> Nat]  BY DEF None
  <2>3. ViewTypes  BY <2>1, <2>2 DEF Init, ViewsInit, ViewTypes
  <2> QED  BY <2>2, <2>3, ServingAssumption DEF Init, TypeOK
<1>2. IInv /\ TypeOK /\ [Next]_vars => TypeOK'
  BY ServingAssumption, TypesNext
<1> QED  BY <1>1, <1>2, Inductive, PTL DEF Spec

\* For any number of requests and images, and whatever fails: a burn image answers
\* one request other than HEAD, and that answer was counted as its view
\* (ServeImage, ClaimBurnView).
THEOREM BurnsOnce == Spec => []BurnAnsweredOnce
<1>1. IInv => BurnAnsweredOnce  BY DEF IInv
<1> QED  BY <1>1, Inductive, PTL

\* For images of any size and any range: the answer holds the bytes that the range
\* names, and it is refused when it names none (parseSingleRange).
THEOREM RangesAnswered == Spec => []RangesExact
<1>1. IInv => RangesExact
  <2> SUFFICES ASSUME IInv, NEW r \in Requests, request[r] # Idle,
                      request[r].ask.range # NoRange
               PROVE  RangeExact(request[r].ask.range)
    BY DEF RangesExact
  <2>1. request[r].ask.range \in RangeHeader  BY DEF IInv, Types, Active, Ask
  <2> QED  BY <2>1, ParsedExact, ServingAssumption
<1> QED  BY <1>1, Inductive, PTL

\* For any number of requests, whatever they ask for and however images change
\* meanwhile: a shared cache keeps only what everybody may see, and no original as a
\* thumbnail (SecurityHeaders, ServeImage, ServeThumbnail).
THEOREM CachesKeepPublic == Spec => []CachedForAll
<1>1. Init => Publicly /\ CachedForAll
  BY DEF Init, Publicly, CachedForAll
<1>2. IInv /\ Publicly /\ CachedForAll /\ [Next]_vars => Publicly' /\ CachedForAll'
  BY ServingAssumption, PubliclyNext, CachedNext
<1> QED  BY <1>1, <1>2, Inductive, PTL DEF Spec

LEMMA Accounted == Spec => [](Control /\ Balanced)
<1>1. Init => Control /\ Balanced
  <2> SUFFICES ASSUME Init PROVE Control /\ Balanced  OBVIOUS
  <2>1. \A i : Places(i) = {} /\ Sent(i) = {}
    BY IdlePhase DEF Init, ViewsInit, Places, Sent
  <2>2. ASSUME NEW i \in Images PROVE Load(i) = 0 /\ served[i] = 0
    <3>1. viewCount[i] = 0 /\ batch[i] = 0 /\ pending[i] = 0 /\ served[i] = 0
      BY DEF Init, ViewsInit, None
    <3>2. Cardinality(Places(i)) = 0 /\ Cardinality(Sent(i)) = 0
      BY <2>1, FS_EmptySet
    <3> QED  BY <3>1, <3>2 DEF Load
  <2> QED  BY <2>2 DEF Init, ViewsInit, None, Control, Balanced
<1>2. IInv /\ Control /\ Balanced /\ [Next]_vars => Control' /\ Balanced'
  BY ServingAssumption, ControlNext, BalancedNext
<1> QED  BY <1>1, <1>2, Inductive, PTL DEF Spec

\* For any number of requests, images and batches, and whatever is lost: no view
\* is counted twice (ServeImage, runViewsWorker, IncrementViewsBatch).
THEOREM ViewsNeverOvercounted == Spec => []NeverOvercounted
<1>1. IInv /\ Balanced => NeverOvercounted
  <2> SUFFICES ASSUME IInv, Balanced, NEW i \in Images \ Burn
               PROVE  viewCount[i] + batch[i] + pending[i] + Queued(i) + Offering(i) <= served[i]
    BY DEF NeverOvercounted
  <2>1. Queued(i) = Cardinality(Places(i))
    <3>1. DOMAIN channel = 1..Len(channel)  BY DEF IInv, Types
    <3> QED  BY <3>1 DEF Queued, Places
  <2>2. Offering(i) <= Cardinality(Sent(i)) /\ Offering(i) \in Nat
    <3>1. {r \in Requests : InPhase(r, "sent") /\ Image(r) = i} \subseteq Sent(i)
      BY DEF InPhase, Sent
    <3> QED  BY <3>1, Finite, FS_Subset, FS_CardinalityType, ServingAssumption DEF Offering, IInv
  <2>3. /\ {viewCount[i], batch[i], pending[i], served[i]} \subseteq Nat /\ Load(i) <= served[i]
        /\ {Cardinality(Places(i)), Cardinality(Sent(i))} \subseteq Nat
    BY Finite, ServingAssumption DEF IInv, Types, Balanced
  <2> QED  BY <2>1, <2>2, <2>3 DEF Load
<1> QED  BY <1>1, Accounted, Inductive, PTL

\* For any number of requests, images and batches: a process that ends in its own
\* time, with no view dropped and no write failed, leaves every view counted
\* (Stop, runViewsWorker).
THEOREM NothingLeftUncounted == Spec => []StopFlushes
<1>1. IInv /\ Control /\ Balanced => StopFlushes
  <2> SUFFICES ASSUME IInv, Control, Balanced, shutdown = "exited", ~timedOut, ~lossy,
                      NEW i \in Images \ Burn
               PROVE  viewCount[i] = served[i]
    BY DEF StopFlushes
  <2>1. /\ batch = None /\ pending = None /\ channel = <<>>
        /\ \A r \in Requests : request[r] = Idle
    BY DEF Control
  <2>2. Places(i) = {} /\ Sent(i) = {}  BY <2>1, IdlePhase DEF Places, Sent
  <2>3. Cardinality(Places(i)) = 0 /\ Cardinality(Sent(i)) = 0  BY <2>2, FS_EmptySet
  <2>4. batch[i] = 0 /\ pending[i] = 0  BY <2>1 DEF None
  <2>5. Load(i) = served[i] /\ viewCount[i] \in Nat  BY DEF IInv, Types, Balanced
  <2> QED  BY <2>3, <2>4, <2>5 DEF Load
<1> QED  BY <1>1, Accounted, Inductive, PTL

=============================================================================
