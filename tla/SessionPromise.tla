--------------------------- MODULE SessionPromise ---------------------------
(***************************************************************************)
(* What an account owner may expect of sessions: a session begins once, and*)
(* once it has ended - logged out, revoked or expired - nothing brings it  *)
(* back.  A session may end before it has begun: a login that was under way*)
(* when the sessions were revoked.                                         *)
(***************************************************************************)
CONSTANT Sessions

VARIABLES
  valid,   \* sessions with a credential the server takes
  ended    \* sessions that are over

Init == valid = {} /\ ended = {}

Begin(s) ==
  /\ s \in Sessions \ (valid \cup ended)
  /\ valid' = valid \cup {s}
  /\ UNCHANGED ended

End(S) ==
  /\ ended' = ended \cup S
  /\ valid' = valid \ S

Next ==
  \/ \E s \in Sessions : Begin(s)
  \/ \E S \in SUBSET (Sessions \ ended) : End(S)

Spec == Init /\ [][Next]_<<valid, ended>>

-----------------------------------------------------------------------------
\* What follows from the promise: no session is over and taken all the same, and
\* one that is over stays so.
Disjoint == valid \cap ended = {}

OverForGood == [][ended \subseteq ended']_<<valid, ended>>

=============================================================================
