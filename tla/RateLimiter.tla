----------------------------- MODULE RateLimiter -----------------------------
(***************************************************************************)
(* The rate limiter: each address has a visitor in the shard its hash      *)
(* names, with the requests it has left and the start of its window, and a *)
(* sweep forgets the visitors that stayed away.  A request holds the lock  *)
(* of its shard from beginning to end, so it is one step; the sweep takes  *)
(* the shards one after the other, with the cutoff it computed before.     *)
(***************************************************************************)
EXTENDS Integers

CONSTANTS
  IPs,
  Shards,      \* 0..63 in the code
  Shard,       \* the shard of an address
  Rate,
  Window,      \* ticks of the clock
  Second,      \* ticks that make the unit of Retry-After
  Horizon      \* bound: ticks in a behaviour

ASSUME RateLimiterAssumption ==
  /\ Shards \subseteq Nat /\ Shard \in [IPs -> Shards]
  /\ Rate \in Nat \ {0} /\ Window \in Nat \ {0} /\ Second \in Nat \ {0}
  /\ Horizon \in Nat

VARIABLES
  now,
  known,       \* addresses with a visitor
  tokens,      \* visitor.tokens, 0 without one
  lastReset,   \* visitor.lastReset, 0 without one
  stopped,     \* stopCh is closed and cleanup has seen it
  unswept,     \* shards the sweep in progress has still to visit
  cutoff,      \* its cutoff
  promised     \* when the last Retry-After is over, Never once one got through

sweepVars == <<stopped, unswept, cutoff>>
visitorVars == <<known, tokens, lastReset>>
vars == <<now, visitorVars, sweepVars, promised>>

Never == -1

Init ==
  /\ now = 0
  /\ known = {}
  /\ tokens = [ip \in IPs |-> 0]
  /\ lastReset = [ip \in IPs |-> 0]
  /\ stopped = FALSE /\ unswept = {} /\ cutoff = 0
  /\ promised = [ip \in IPs |-> Never]

-----------------------------------------------------------------------------
Tick ==
  /\ now < Horizon
  /\ now' = now + 1
  /\ UNCHANGED <<visitorVars, sweepVars, promised>>

\* The request finds no visitor, or one whose window is over.
Renewed(ip) == ip \notin known \/ now - lastReset[ip] > Window
TokensLeft(ip) == IF Renewed(ip) THEN Rate ELSE tokens[ip]

\* A faulty variant: a window that starts again with every request.
AllowSliding(ip) ==
  /\ TokensLeft(ip) > 0
  /\ known' = known \cup {ip}
  /\ tokens' = [tokens EXCEPT ![ip] = TokensLeft(ip) - 1]
  /\ lastReset' = [lastReset EXCEPT ![ip] = now]
  /\ promised' = [promised EXCEPT ![ip] = Never]
  /\ UNCHANGED <<now, sweepVars>>

\* Handler lets the request through.
Allow(ip) ==
  /\ TokensLeft(ip) > 0
  /\ known' = known \cup {ip}
  /\ tokens' = [tokens EXCEPT ![ip] = TokensLeft(ip) - 1]
  /\ lastReset' = [lastReset EXCEPT ![ip] = IF Renewed(ip) THEN now ELSE @]
  /\ promised' = [promised EXCEPT ![ip] = Never]
  /\ UNCHANGED <<now, sweepVars>>

\* A faulty variant: the rest of a second is cut off.
RetryAfterTruncated(ip) ==
  LET whole == (Window - (now - lastReset[ip])) \div Second IN
  IF whole < 1 THEN 1 ELSE whole

\* Whole seconds until the window ends, rounded up, and one at least
RetryAfter(ip) ==
  LET remaining == Window - (now - lastReset[ip])
      whole == remaining \div Second
      rounded == IF remaining % Second > 0 THEN whole + 1 ELSE whole
  IN IF rounded < 1 THEN 1 ELSE rounded

\* Handler answers 429 with Retry-After.
Refuse(ip) ==
  /\ TokensLeft(ip) <= 0
  /\ promised' = [promised EXCEPT ![ip] = now + RetryAfter(ip) * Second]
  /\ UNCHANGED <<now, visitorVars, sweepVars>>

-----------------------------------------------------------------------------
\* A faulty variant: visitors idle at this very moment are taken for gone.
SweepNow ==
  /\ ~stopped /\ unswept = {}
  /\ unswept' = Shards
  /\ cutoff' = now
  /\ UNCHANGED <<now, stopped, visitorVars, promised>>

\* case <-ticker.C, whose period has no relation to the window
Sweep ==
  /\ ~stopped /\ unswept = {}
  /\ unswept' = Shards
  /\ cutoff' = now - 2 * Window
  /\ UNCHANGED <<now, stopped, visitorVars, promised>>

Idle(s) == {ip \in known : Shard[ip] = s /\ lastReset[ip] < cutoff}

\* One shard, under its lock
SweepShard(s) ==
  /\ s \in unswept /\ \A other \in unswept : s <= other
  /\ unswept' = unswept \ {s}
  /\ known' = known \ Idle(s)
  /\ tokens' = [ip \in IPs |-> IF ip \in Idle(s) THEN 0 ELSE tokens[ip]]
  /\ lastReset' = [ip \in IPs |-> IF ip \in Idle(s) THEN 0 ELSE lastReset[ip]]
  /\ UNCHANGED <<now, stopped, cutoff, promised>>

\* Stop, seen by the select between two sweeps
StopSweeps ==
  /\ ~stopped /\ unswept = {}
  /\ stopped' = TRUE
  /\ UNCHANGED <<now, visitorVars, unswept, cutoff, promised>>

Next ==
  \/ Tick
  \/ \E ip \in IPs : Allow(ip) \/ Refuse(ip)
  \/ Sweep \/ (\E s \in Shards : SweepShard(s)) \/ StopSweeps

Spec == Init /\ [][Next]_vars

-----------------------------------------------------------------------------
(* Properties *)

TypeOK ==
  /\ now \in 0..Horizon
  /\ known \subseteq IPs
  /\ tokens \in [IPs -> 0..Rate]
  /\ lastReset \in [IPs -> 0..Horizon]
  /\ stopped \in BOOLEAN
  /\ unswept \subseteq Shards
  /\ cutoff \in Int
  /\ promised \in [IPs -> Int]

\* A client that waits longer than it was told finds a new window, unless
\* another request of its address was let through meanwhile (Retry-After).
RetryAfterEnough ==
  \A ip \in IPs : promised[ip] # Never /\ now > promised[ip] => TokensLeft(ip) = Rate

\* The sweep and the shards cannot be noticed: a forgotten visitor is one whose
\* window is over.
Promise ==
  INSTANCE RatePromise WITH
    begun <- [ip \in IPs |-> IF Renewed(ip) THEN Never ELSE lastReset[ip]],
    passed <- [ip \in IPs |-> IF Renewed(ip) THEN 0 ELSE Rate - tokens[ip]]

\* Addresses get the windows RatePromise describes, whenever the sweep comes
\* (Handler, cleanup).
KeepsWindows == Promise!Spec

-----------------------------------------------------------------------------
(* The inductive invariant behind RetryAfterEnough and KeepsWindows. *)

SweepInv ==
  /\ \A ip \in known : lastReset[ip] <= now
  /\ unswept # {} => cutoff <= now - 2 * Window
  /\ \A ip \in IPs :
       promised[ip] # Never => \/ Renewed(ip)
                               \/ tokens[ip] = 0 /\ promised[ip] >= lastReset[ip] + Window

IndInv == TypeOK /\ SweepInv

=============================================================================
