----------------------------- MODULE Thumbnails -----------------------------
(***************************************************************************)
(* How a thumbnail job reaches a worker: the bounded channel, the upload   *)
(* that offers its image once, the reconciliation that lists what is still *)
(* missing, the pool that works the channel off, and the restart that      *)
(* loses all of it.  What a job writes, and how it races with deletions,   *)
(* is the subject of ImageStore.                                           *)
(***************************************************************************)
EXTENDS SequencesExt, Integers

CONSTANTS
  Images,       \* numbered by created_at, the oldest first
  Broken,       \* images whose bytes no attempt can turn into a thumbnail
  Workers,      \* goroutines of the pool
  NoJob,
  QueueSize,    \* cap(w.queue)
  MaxFaults     \* bound: restarts and failed attempts in a behaviour

ASSUME ThumbnailAssumption ==
  /\ Images \subseteq Nat /\ Broken \subseteq Images
  /\ NoJob \notin Images
  /\ QueueSize \in Nat \ {0} /\ MaxFaults \in Nat

VARIABLES
  row,        \* "none", "missing" (thumb_generated=false), "made" or "deleted"
  offering,   \* images whose upload is between its commit and Queue
  queue,      \* w.queue
  listed,     \* what the reconciliation has still to offer of its list
  job,        \* what each worker is processing
  faults      \* how much of MaxFaults is used

vars == <<row, offering, queue, listed, job, faults>>

Init ==
  /\ row = [i \in Images |-> "none"]
  /\ offering = {}
  /\ queue = <<>>
  /\ listed = <<>>
  /\ job = [w \in Workers |-> NoJob]
  /\ faults = 0

Fault == faults < MaxFaults /\ faults' = faults + 1

-----------------------------------------------------------------------------
\* CreateWithQuota has committed.  created_at is the start of its transaction,
\* so an older image may appear after a younger one.
Create(i) ==
  /\ row[i] = "none"
  /\ row' = [row EXCEPT ![i] = "missing"]
  /\ offering' = offering \cup {i}
  /\ UNCHANGED <<queue, listed, job, faults>>

\* A faulty variant: the channel is taken to have room.
QueueUnbounded(i) ==
  /\ i \in offering
  /\ offering' = offering \ {i}
  /\ queue' = Append(queue, i)
  /\ UNCHANGED <<row, listed, job, faults>>

\* select { case w.queue <- img: default: dropped }
Queue(i) ==
  /\ i \in offering
  /\ offering' = offering \ {i}
  /\ queue' = IF Len(queue) < QueueSize THEN Append(queue, i) ELSE queue
  /\ UNCHANGED <<row, listed, job, faults>>

Delete(i) ==
  /\ row[i] \in {"missing", "made"}
  /\ row' = [row EXCEPT ![i] = "deleted"]
  /\ UNCHANGED <<offering, queue, listed, job, faults>>

Oldest(S) == LET sorted == SetToSortSeq(S, <)
             IN  SubSeq(sorted, 1, IF Len(sorted) < QueueSize THEN Len(sorted) ELSE QueueSize)

\* A faulty variant: ListMissingThumbnails without thumb_generated=false.
ListAnyRow ==
  /\ listed = <<>>
  /\ listed' = Oldest({i \in Images : row[i] \in {"missing", "made"}})
  /\ UNCHANGED <<row, offering, queue, job, faults>>

\* The ticker fires: ListMissingThumbnails(cap(w.queue)), oldest first.
List ==
  /\ listed = <<>>
  /\ listed' = Oldest({i \in Images : row[i] = "missing"})
  /\ UNCHANGED <<row, offering, queue, job, faults>>

\* One turn of the enqueue loop, which a full channel ends.
Enqueue ==
  /\ listed # <<>>
  /\ IF Len(queue) < QueueSize
     THEN queue' = Append(queue, Head(listed)) /\ listed' = Tail(listed)
     ELSE UNCHANGED queue /\ listed' = <<>>
  /\ UNCHANGED <<row, offering, job, faults>>

Take(w) ==
  /\ job[w] = NoJob /\ queue # <<>>
  /\ job' = [job EXCEPT ![w] = Head(queue)]
  /\ queue' = Tail(queue)
  /\ UNCHANGED <<row, offering, listed, faults>>

\* GenerateThumbnail gives the same answer for the same bytes.
Renders(i) == i \notin Broken

\* process: nothing remembers that a broken image was tried, and a row deleted
\* meanwhile is not marked.
Process(w) ==
  /\ job[w] # NoJob
  /\ row' = IF Renders(job[w]) /\ row[job[w]] = "missing"
            THEN [row EXCEPT ![job[w]] = "made"] ELSE row
  /\ job' = [job EXCEPT ![w] = NoJob]
  /\ UNCHANGED <<offering, queue, listed, faults>>

\* The storage or the database fails under a worker.
ProcessFails(w) ==
  /\ job[w] # NoJob /\ Fault
  /\ job' = [job EXCEPT ![w] = NoJob]
  /\ UNCHANGED <<row, offering, queue, listed>>

\* Shutdown or crash, and start: what was only in memory is gone.
Restart ==
  /\ Fault
  /\ offering' = {} /\ queue' = <<>> /\ listed' = <<>>
  /\ job' = [w \in Workers |-> NoJob]
  /\ UNCHANGED row

-----------------------------------------------------------------------------
Next ==
  \/ \E i \in Images : Create(i) \/ Queue(i) \/ Delete(i)
  \/ \E w \in Workers : Take(w) \/ Process(w) \/ ProcessFails(w)
  \/ List \/ Enqueue \/ Restart

\* The ticker keeps firing, both loops keep turning, and a job returns.  No
\* upload has to be made and no image has to be deleted.
Fairness ==
  /\ WF_vars(List) /\ WF_vars(Enqueue)
  /\ \A w \in Workers : WF_vars(Take(w)) /\ WF_vars(Process(w))

Spec == Init /\ [][Next]_vars /\ Fairness

-----------------------------------------------------------------------------
(* Properties *)

\* Types; the channel never holds more than it was made for.
TypeOK ==
  /\ row \in [Images -> {"none", "missing", "made", "deleted"}]
  /\ offering \subseteq Images
  /\ queue \in Seq(Images) /\ Len(queue) <= QueueSize
  /\ listed \in Seq(Images) /\ Len(listed) <= QueueSize
  /\ job \in [Workers -> Images \cup {NoJob}]
  /\ faults \in 0..MaxFaults

\* "reconcile recovers jobs lost during a restart or a temporary queue burst":
\* an image that can be rendered gets its thumbnail, unless it is deleted
\* (thumbnail.go, reconcile).
JobsRecovered ==
  \A i \in Images \ Broken : row[i] = "missing" ~> row[i] # "missing"

=============================================================================
