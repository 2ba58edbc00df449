-------------------------------- MODULE Views --------------------------------
(***************************************************************************)
(* Counting the views of images: a served image is offered to a bounded    *)
(* channel, one goroutine adds them up and writes them in batches, and a   *)
(* shutdown drains what is left.  Serving has the requests that offer.     *)
(***************************************************************************)
EXTENDS SequencesExt, Integers

CONSTANTS
  Images,
  QueueSize,    \* cap(h.viewsWorker)
  BatchSize,    \* distinct images that make the worker write at once
  Faults        \* {"db"} when a write may fail or its answer be lost

ASSUME ViewsAssumption ==
  QueueSize \in Nat \ {0} /\ BatchSize \in Nat \ {0}

VARIABLES
  channel,     \* h.viewsWorker
  pending,     \* the worker's map from image to count
  batch,       \* the map a flush has taken
  worker,      \* "loop", "flush", "drain", "last" (the flush of the drain), "done"
  viewCount,   \* images.view_count
  shutdown,    \* "no", "waiting" (srv.Shutdown), "cancelled" (Stop), "exited"
  lossy        \* views were dropped at a full channel or with a failed write

workerVars == <<pending, batch, worker>>
viewVars == <<channel, workerVars, viewCount, shutdown, lossy>>

None == [i \in Images |-> 0]
Pending == {i \in Images : pending[i] > 0}      \* len(pending)

ViewsInit ==
  /\ channel = <<>>
  /\ pending = None /\ batch = None /\ worker = "loop"
  /\ viewCount = None
  /\ shutdown = "no" /\ lossy = FALSE

-----------------------------------------------------------------------------
\* select { case h.viewsWorker <- img.ID: default: dropped }
Offer(i) ==
  /\ IF Len(channel) < QueueSize
     THEN channel' = Append(channel, i) /\ UNCHANGED lossy
     ELSE lossy' = TRUE /\ UNCHANGED channel
  /\ UNCHANGED <<workerVars, viewCount, shutdown>>

-----------------------------------------------------------------------------
TakeBatch(next) ==
  /\ batch' = pending /\ pending' = None
  /\ worker' = next

\* case id := <-h.viewsWorker; the select may still choose it after cancel.
Receive ==
  /\ worker = "loop" /\ channel # <<>>
  /\ LET counted == [pending EXCEPT ![Head(channel)] = @ + 1] IN
     IF Cardinality({i \in Images : counted[i] > 0}) >= BatchSize
     THEN batch' = counted /\ pending' = None /\ worker' = "flush"
     ELSE pending' = counted /\ UNCHANGED <<batch, worker>>
  /\ channel' = Tail(channel)
  /\ UNCHANGED <<viewCount, shutdown, lossy>>

\* A faulty variant: the ticker leaves a small batch for later.
TickFullOnly ==
  /\ worker = "loop" /\ Cardinality(Pending) >= BatchSize
  /\ TakeBatch("flush")
  /\ UNCHANGED <<channel, viewCount, shutdown, lossy>>

Tick ==
  /\ worker = "loop" /\ Pending # {}
  /\ TakeBatch("flush")
  /\ UNCHANGED <<channel, viewCount, shutdown, lossy>>

\* case <-ctx.Done()
StartDrain ==
  /\ worker = "loop" /\ shutdown = "cancelled"
  /\ worker' = "drain"
  /\ UNCHANGED <<channel, pending, batch, viewCount, shutdown, lossy>>

\* Faulty variants: a stop flushes what was received and looks no further; the
\* drain receives without a default.
DrainSkipped ==
  /\ worker = "drain"
  /\ TakeBatch("last")
  /\ UNCHANGED <<channel, viewCount, shutdown, lossy>>

DrainBlocks ==
  /\ worker = "drain" /\ channel # <<>>
  /\ pending' = [pending EXCEPT ![Head(channel)] = @ + 1]
  /\ channel' = Tail(channel)
  /\ UNCHANGED <<batch, worker, viewCount, shutdown, lossy>>

\* The inner loop: receive until the channel is empty, then flush and return.
Drain ==
  /\ worker = "drain"
  /\ IF channel # <<>>
     THEN /\ pending' = [pending EXCEPT ![Head(channel)] = @ + 1]
          /\ channel' = Tail(channel)
          /\ UNCHANGED <<batch, worker>>
     ELSE TakeBatch("last") /\ UNCHANGED channel
  /\ UNCHANGED <<viewCount, shutdown, lossy>>

Counted == [i \in Images |-> viewCount[i] + batch[i]]

EndFlush ==
  /\ worker \in {"flush", "last"}
  /\ worker' = IF worker = "flush" THEN "loop" ELSE "done"
  /\ batch' = None

\* IncrementViewsBatch: one statement, for all images or for none.
Flush ==
  /\ EndFlush
  /\ viewCount' = Counted
  /\ UNCHANGED <<channel, pending, shutdown, lossy>>

\* A faulty variant: a batch whose write reported an error is kept for the next.
FlushFailsRetried ==
  /\ "db" \in Faults
  /\ EndFlush
  /\ viewCount' \in {viewCount, Counted}
  /\ pending' = [i \in Images |-> pending[i] + batch[i]]
  /\ lossy' = TRUE
  /\ UNCHANGED <<channel, shutdown>>

\* The statement fails or its five seconds pass, whether or not it took effect:
\* the batch is forgotten.
FlushFails ==
  /\ "db" \in Faults
  /\ EndFlush
  /\ viewCount' \in {viewCount, Counted}
  /\ lossy' = TRUE
  /\ UNCHANGED <<channel, pending, shutdown>>

-----------------------------------------------------------------------------
BeginShutdown ==
  /\ shutdown = "no"
  /\ shutdown' = "waiting"
  /\ UNCHANGED <<channel, workerVars, viewCount, lossy>>

\* srv.Shutdown returns and imgHandler.Stop cancels the worker.
CancelViews ==
  /\ shutdown = "waiting"
  /\ shutdown' = "cancelled"
  /\ UNCHANGED <<channel, workerVars, viewCount, lossy>>

\* viewsDone.Wait returns and main ends the process.
Exit ==
  /\ shutdown = "cancelled" /\ worker = "done"
  /\ shutdown' = "exited"
  /\ UNCHANGED <<channel, workerVars, viewCount, lossy>>

-----------------------------------------------------------------------------
WorkerStep == Receive \/ Tick \/ StartDrain \/ Drain \/ Flush \/ FlushFails

-----------------------------------------------------------------------------
Queued(i) == Cardinality({k \in DOMAIN channel : channel[k] = i})

ViewTypes ==
  /\ channel \in Seq(Images) /\ Len(channel) <= QueueSize
  /\ \A f \in {pending, batch, viewCount} : f \in [Images -> Nat]
  /\ worker \in {"loop", "flush", "drain", "last", "done"}
  /\ shutdown \in {"no", "waiting", "cancelled", "exited"}
  /\ lossy \in BOOLEAN

=============================================================================
