---------------------------- MODULE ObjectStore ----------------------------
(***************************************************************************)
(* What the rest of the server takes a storage backend to be: a name has   *)
(* the whole content of one completed write or nothing, a write happens at *)
(* once or not at all, and a reader keeps what it opened.                  *)
(***************************************************************************)
CONSTANTS
  Jobs,        \* writes; each has a content of its own
  Path,        \* the name each of them writes
  Readers,
  NoObject

VARIABLES
  object,      \* whose content each name has
  outcome,     \* of each write: "none" so far, "stored" or "failed"
  reading      \* whose content each reader has opened

vars == <<object, outcome, reading>>

Paths == {Path[j] : j \in Jobs}

Init ==
  /\ object = [p \in Paths |-> NoObject]
  /\ outcome = [j \in Jobs |-> "none"]
  /\ reading = [r \in Readers |-> NoObject]

Put(j) ==
  /\ outcome[j] = "none"
  /\ object' = [object EXCEPT ![Path[j]] = j]
  /\ outcome' = [outcome EXCEPT ![j] = "stored"]
  /\ UNCHANGED reading

Remove(p) ==
  /\ object' = [object EXCEPT ![p] = NoObject]
  /\ UNCHANGED <<outcome, reading>>

Open(r, p) ==
  /\ reading[r] = NoObject /\ object[p] # NoObject
  /\ reading' = [reading EXCEPT ![r] = object[p]]
  /\ UNCHANGED <<object, outcome>>

\* Writes fail and readers end, one at a time or all of them with the process.
End(S, R) ==
  /\ \A j \in S : outcome[j] = "none"
  /\ outcome' = [j \in Jobs |-> IF j \in S THEN "failed" ELSE outcome[j]]
  /\ reading' = [r \in Readers |-> IF r \in R THEN NoObject ELSE reading[r]]
  /\ UNCHANGED object

Next ==
  \/ \E j \in Jobs : Put(j)
  \/ \E p \in Paths : Remove(p) \/ \E r \in Readers : Open(r, p)
  \/ \E S \in SUBSET Jobs, R \in SUBSET Readers : End(S, R)

Spec == Init /\ [][Next]_vars

-----------------------------------------------------------------------------
\* What follows from the promise: what a name leads to, and what a reader holds, is
\* the content of a write to that name that succeeded.
Completed ==
  /\ \A p \in Paths : object[p] # NoObject =>
       object[p] \in Jobs /\ Path[object[p]] = p /\ outcome[object[p]] = "stored"
  /\ \A r \in Readers : reading[r] # NoObject =>
       reading[r] \in Jobs /\ outcome[reading[r]] = "stored"
=============================================================================
