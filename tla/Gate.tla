--------------------------------- MODULE Gate ---------------------------------
(***************************************************************************)
(* A request on its way to the rate limiter: it comes from a client        *)
(* through any number of proxies, RealIP works out whose it is, and the    *)
(* limiter counts it for that address.  RateLimiter knows addresses; this  *)
(* module knows the clients behind them.                                   *)
(***************************************************************************)
EXTENDS RateLimiter, Sequences

CONSTANTS
  Clients,     \* addresses requests come from
  Proxies,     \* addresses the configuration trusts (TRUSTED_PROXIES)
  NoAddress,   \* an entry of a header that is no address, or a header left out
  Prefixes,    \* what a client may have in X-Forwarded-For, e.g. of a proxy of its own
  Paths        \* the proxies a request passes, the nearest to the client first

ASSUME GateAssumption ==
  /\ Clients \subseteq IPs /\ Proxies \subseteq IPs
  /\ Clients \cap Proxies = {} /\ NoAddress \notin IPs
  /\ Prefixes \subseteq Seq(IPs \cup {NoAddress}) /\ Paths \subseteq Seq(Proxies)

VARIABLE recent    \* recent[c][age]: requests of a client let through in the last age ticks

gateVars == <<vars, recent>>

-----------------------------------------------------------------------------
(* RealIP *)

Rightmost(places) == CHOOSE k \in places : \A other \in places : other <= k
Leftmost(places) == CHOOSE k \in places : \A other \in places : k <= other

\* The entries net.ParseIP can read, and those of them that are no trusted proxy
Readable(chain) == {k \in DOMAIN chain : chain[k] \in IPs}
Foreign(chain) == {k \in Readable(chain) : chain[k] \notin Proxies}

\* A faulty variant: the first address of the header.
FirstEntry(peer, chain) ==
  IF Readable(chain) = {} THEN peer ELSE chain[Leftmost(Readable(chain))]

\* From the right, the first address that is no trusted proxy; when all are, the
\* leftmost one; when none can be read, the peer.
ForwardedFor(peer, chain) ==
  IF Readable(chain) = {} THEN peer
  ELSE IF Foreign(chain) = {} THEN chain[Leftmost(Readable(chain))]
  ELSE chain[Rightmost(Foreign(chain))]

RealIP(request) ==
  IF request.peer \notin Proxies THEN request.peer
  ELSE IF request.forwarded # <<>> THEN ForwardedFor(request.peer, request.forwarded)
  ELSE IF request.realIP \in IPs THEN request.realIP
  ELSE request.peer

\* Each proxy adds the address it was called from to X-Forwarded-For.
Forwarded(c, prefix, path) ==
  [peer |-> IF path = <<>> THEN c ELSE path[Len(path)],
   forwarded |-> IF path = <<>> THEN prefix
                 ELSE (prefix \o <<c>>) \o SubSeq(path, 1, Len(path) - 1),
   realIP |-> NoAddress]

\* A single proxy that sets X-Real-IP and sends no X-Forwarded-For
Replaced(c, proxy) == [peer |-> proxy, forwarded |-> <<>>, realIP |-> c]

\* The addresses under which the requests of a client are counted
CountedAs ==
  [c \in Clients |->
     {RealIP(Forwarded(c, prefix, path)) : prefix \in Prefixes, path \in Paths}
       \cup {RealIP(Replaced(c, proxy)) : proxy \in Proxies}]

-----------------------------------------------------------------------------
GateInit == Init /\ recent = [c \in Clients |-> [age \in 0..Window |-> 0]]

GateTick ==
  /\ Tick
  /\ recent' = [c \in Clients |->
                  [age \in 0..Window |-> IF age = 0 THEN 0 ELSE recent[c][age - 1]]]

LetThrough(c) ==
  /\ \E ip \in CountedAs[c] : Allow(ip)
  /\ recent' = [recent EXCEPT ![c] = [age \in 0..Window |-> @[age] + 1]]

TurnAway(c) ==
  /\ \E ip \in CountedAs[c] : Refuse(ip)
  /\ UNCHANGED recent

Forget ==
  /\ Sweep \/ (\E s \in Shards : SweepShard(s)) \/ StopSweeps
  /\ UNCHANGED recent

GateNext ==
  \/ GateTick
  \/ \E c \in Clients : LetThrough(c) \/ TurnAway(c)
  \/ Forget

GateSpec == GateInit /\ [][GateNext]_gateVars

-----------------------------------------------------------------------------
(* Properties *)

Passed(c) == recent[c][Window]

\* Within any span as long as the window, two windows' worth of a client's requests
\* get through and no more, whatever proxies they pass and whatever headers they
\* begin with: a window that ends and one that begins, and no third one because a
\* visitor was forgotten (RealIP, Handler, cleanup).
TwoWindowsAtMost == \A c \in Clients : Passed(c) <= 2 * Rate

\* A client is turned away only after a whole window's worth of its own requests:
\* what others send, behind the same proxies or with its address in their headers,
\* takes nothing from it (RealIP, Handler).
RefusalsEarned ==
  [][\A c \in Clients :
       promised'[c] # promised[c] /\ promised'[c] # Never => Passed(c) >= Rate]_gateVars

-----------------------------------------------------------------------------
(* The invariant behind TwoWindowsAtMost and RefusalsEarned: what got through *)
(* since the window began is what the visitor has used, and what got through  *)
(* in the Window ticks before it was one window's worth.                      *)

RecentOK ==
  /\ recent \in [Clients -> [0..Window -> Nat]]
  /\ \A c \in Clients : \A age, longer \in 0..Window :
       age <= longer => recent[c][age] <= recent[c][longer]

WindowCounted(c) ==
  LET since == now - lastReset[c] IN
  IF Renewed(c)
  THEN recent[c][0] = 0 /\ recent[c][Window] <= Rate
  ELSE /\ recent[c][since] = Rate - tokens[c]
       /\ recent[c][Window] - recent[c][since] <= Rate

Counted == RecentOK /\ \A c \in Clients : WindowCounted(c)

=============================================================================
