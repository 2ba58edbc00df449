------------------------------ MODULE GateProofs ------------------------------
(***************************************************************************)
(* RealIP takes a client behind trusted proxies for itself, whatever its   *)
(* headers claim, and the limiter behind it keeps the windows it promises, *)
(* refuses only what has used its window up, and names the right wait.     *)
(* The walk of ForwardedFor goes from the right, so what matters is only   *)
(* the part of the chain that the proxies wrote.                           *)
(***************************************************************************)
EXTENDS Gate, SequenceTheorems, TLAPS

(* The limiter by itself *)

LEMMA TypeInit == Init => TypeOK
<1> USE RateLimiterAssumption DEF RateLimiterAssumption
<1> SUFFICES ASSUME Init PROVE TypeOK
  OBVIOUS
<1>1. promised \in [IPs -> Int] /\ cutoff \in Int
  BY DEF Init, Never
<1>2. tokens \in [IPs -> 0..Rate] /\ lastReset \in [IPs -> 0..Horizon] /\ now \in 0..Horizon
  BY DEF Init
<1>3. known \subseteq IPs /\ stopped \in BOOLEAN /\ unswept \subseteq Shards
  BY DEF Init
<1> QED
  BY <1>1, <1>2, <1>3 DEF TypeOK

\* What a request finds is between nothing and the whole rate.
LEMMA TokensLeftRange ==
  ASSUME TypeOK, NEW ip \in IPs
  PROVE  TokensLeft(ip) \in 0..Rate
  BY RateLimiterAssumption DEF RateLimiterAssumption, TypeOK, TokensLeft

LEMMA RetryAfterType ==
  ASSUME TypeOK, NEW ip \in IPs
  PROVE  RetryAfter(ip) \in Int
<1> DEFINE remaining == Window - (now - lastReset[ip])
           whole == remaining \div Second
<1>1. remaining \in Int /\ Second \in Nat \ {0}
  BY RateLimiterAssumption DEF RateLimiterAssumption, TypeOK
<1>2. whole \in Int
  BY <1>1
<1> QED
  BY <1>2 DEF RetryAfter

\* Division with a remainder, as \div and % define it.
LEMMA Division ==
  ASSUME NEW a \in Int, NEW b \in Nat \ {0}
  PROVE  a \div b \in Int /\ a = (a \div b) * b + (a % b) /\ a % b \in 0..(b - 1)
<1>1. a \div b \in Int /\ a % b \in 0..(b - 1)
  OBVIOUS
<1>2. a = b * (a \div b) + (a % b)
  OBVIOUS
<1> QED
  BY <1>1, <1>2

\* The promise reaches to the end of the window.
LEMMA RetryAfterReaches ==
  ASSUME TypeOK, NEW ip \in IPs
  PROVE  now + RetryAfter(ip) * Second >= lastReset[ip] + Window
<1> DEFINE remaining == Window - (now - lastReset[ip])
           whole == remaining \div Second
           rounded == IF remaining % Second > 0 THEN whole + 1 ELSE whole
           retry == IF rounded < 1 THEN 1 ELSE rounded
<1>1. remaining \in Int /\ Second \in Nat \ {0} /\ now \in Int /\ lastReset[ip] \in Int
      /\ Window \in Int
  BY RateLimiterAssumption DEF RateLimiterAssumption, TypeOK
<1>2. /\ whole \in Int
      /\ remaining = whole * Second + (remaining % Second)
      /\ remaining % Second \in 0..(Second - 1)
  <2> HIDE DEF remaining
  <2> QED
    BY <1>1, Division
<1>3. rounded \in Int /\ rounded * Second >= remaining
  <2>1. CASE remaining % Second > 0
    <3>1. rounded = whole + 1
      BY <2>1
    <3>2. (whole + 1) * Second = whole * Second + Second
      BY <1>1, <1>2
    <3> HIDE DEF whole, rounded
    <3> QED
      BY <1>1, <1>2, <3>1, <3>2
  <2>2. CASE ~(remaining % Second > 0)
    <3>1. rounded = whole
      BY <2>2
    <3> HIDE DEF whole, rounded
    <3> QED
      BY <1>1, <1>2, <2>2, <3>1
  <2> QED
    BY <2>1, <2>2
<1>4. retry \in Int /\ retry * Second >= remaining
  <2>1. CASE rounded < 1
    <3>1. rounded * Second <= 0 /\ retry = 1
      <4> HIDE DEF rounded
      <4> QED
        BY <1>1, <1>3, <2>1
    <3> HIDE DEF rounded, retry
    <3> QED
      BY <1>1, <1>3, <3>1
  <2>2. CASE ~(rounded < 1)
    BY <1>3, <2>2
  <2> QED
    BY <2>1, <2>2
<1>5. RetryAfter(ip) = retry
  BY DEF RetryAfter
<1> HIDE DEF retry, whole, rounded
<1> QED
  BY <1>1, <1>4, <1>5

\* Every step keeps the types.
LEMMA TypeStep == TypeOK /\ [Next]_vars => TypeOK'
<1> SUFFICES ASSUME TypeOK, [Next]_vars PROVE TypeOK'
  OBVIOUS
<1> USE RateLimiterAssumption DEF RateLimiterAssumption, visitorVars, sweepVars, Never
<1>1. CASE Tick
  BY <1>1 DEF TypeOK, Tick
<1>2. ASSUME NEW ip \in IPs, Allow(ip) PROVE TypeOK'
  <2>1. TokensLeft(ip) - 1 \in 0..Rate
    BY <1>2, TokensLeftRange DEF Allow
  <2>2. tokens' \in [IPs -> 0..Rate] /\ lastReset' \in [IPs -> 0..Horizon]
    BY <1>2, <2>1 DEF TypeOK, Allow
  <2>3. promised' \in [IPs -> Int] /\ known' \subseteq IPs
    BY <1>2 DEF TypeOK, Allow
  <2> QED
    BY <1>2, <2>2, <2>3 DEF TypeOK, Allow
<1>3. ASSUME NEW ip \in IPs, Refuse(ip) PROVE TypeOK'
  <2>1. now \in Int /\ RetryAfter(ip) \in Int /\ Second \in Int
    BY RetryAfterType DEF TypeOK
  <2>2. now + RetryAfter(ip) * Second \in Int
    BY <2>1
  <2>3. promised' \in [IPs -> Int]
    BY <1>3, <2>2 DEF TypeOK, Refuse
  <2> QED
    BY <1>3, <2>3 DEF TypeOK, Refuse
<1>4. CASE Sweep
  BY <1>4 DEF TypeOK, Sweep
<1>5. ASSUME NEW s \in Shards, SweepShard(s) PROVE TypeOK'
  BY <1>5 DEF TypeOK, SweepShard
<1>6. CASE StopSweeps
  BY <1>6 DEF TypeOK, StopSweeps
<1>7. CASE UNCHANGED vars
  BY <1>7 DEF TypeOK, vars
<1> QED
  BY <1>1, <1>2, <1>3, <1>4, <1>5, <1>6, <1>7 DEF Next

\* Every step keeps what the sweep and Retry-After rely on.
LEMMA SweepStep == TypeOK /\ SweepInv /\ [Next]_vars => SweepInv'
<1> SUFFICES ASSUME TypeOK, SweepInv, [Next]_vars PROVE SweepInv'
  OBVIOUS
<1> USE RateLimiterAssumption DEF RateLimiterAssumption, visitorVars, sweepVars, Never
<1>1. CASE Tick
  BY <1>1 DEF TypeOK, SweepInv, Tick, Renewed
<1>2. ASSUME NEW ip \in IPs, Allow(ip) PROVE SweepInv'
  BY <1>2 DEF TypeOK, SweepInv, Allow, Renewed
<1>3. ASSUME NEW ip \in IPs, Refuse(ip) PROVE SweepInv'
  <2>1. now + RetryAfter(ip) * Second >= lastReset[ip] + Window
    BY RetryAfterReaches
  <2>2. ~Renewed(ip) /\ tokens[ip] = 0
    BY <1>3 DEF TypeOK, Refuse, TokensLeft
  <2>3. promised' = [promised EXCEPT ![ip] = now + RetryAfter(ip) * Second]
        /\ UNCHANGED <<now, known, tokens, lastReset, unswept, cutoff>>
    BY <1>3 DEF Refuse
  <2> HIDE DEF RateLimiterAssumption
  <2> QED
    BY <2>1, <2>2, <2>3 DEF TypeOK, SweepInv, Renewed
<1>4. CASE Sweep
  BY <1>4 DEF TypeOK, SweepInv, Sweep, Renewed
<1>5. ASSUME NEW s \in Shards, SweepShard(s) PROVE SweepInv'
  BY <1>5 DEF TypeOK, SweepInv, SweepShard, Idle, Renewed
<1>6. CASE StopSweeps
  BY <1>6 DEF TypeOK, SweepInv, StopSweeps, Renewed
<1>7. CASE UNCHANGED vars
  BY <1>7 DEF TypeOK, SweepInv, vars, Renewed
<1> QED
  BY <1>1, <1>2, <1>3, <1>4, <1>5, <1>6, <1>7 DEF Next

LEMMA Inductive == Spec => []IndInv
<1>1. Init => SweepInv
  BY DEF Init, SweepInv
<1>2. Init => IndInv
  BY <1>1, TypeInit DEF IndInv
<1>3. IndInv /\ [Next]_vars => IndInv'
  BY TypeStep, SweepStep DEF IndInv
<1> QED
  BY <1>2, <1>3, PTL DEF Spec

-----------------------------------------------------------------------------
(* Theorems of the limiter *)

\* A visitor never has a negative number of tokens or more than the rate.
THEOREM TypeCorrect == Spec => []TypeOK
<1>1. IndInv => TypeOK
  BY DEF IndInv
<1> QED
  BY <1>1, Inductive, PTL

\* Retry-After is never too early, for any window and any unit of time.
THEOREM RetryAfterKept == Spec => []RetryAfterEnough
<1>1. IndInv => RetryAfterEnough
  BY RateLimiterAssumption
     DEF RateLimiterAssumption, IndInv, TypeOK, SweepInv, RetryAfterEnough, Renewed, TokensLeft, Never
<1> QED
  BY <1>1, Inductive, PTL

\* A step of the limiter is a step of the promise, or changes nothing of it.
LEMMA PromiseStep == IndInv /\ [Next]_vars => [Promise!Next]_(Promise!vars)
<1> SUFFICES ASSUME IndInv, [Next]_vars PROVE [Promise!Next]_(Promise!vars)
  OBVIOUS
<1> USE RateLimiterAssumption DEF RateLimiterAssumption, visitorVars, sweepVars,
        Never, Promise!Never
<1> DEFINE begun == [ip \in IPs |-> IF Renewed(ip) THEN Never ELSE lastReset[ip]]
           passed == [ip \in IPs |-> IF Renewed(ip) THEN 0 ELSE Rate - tokens[ip]]
<1>1. CASE Tick
  <2>1. /\ now \in Nat /\ now' = now + 1 /\ Window \in Nat
        /\ \A ip \in IPs : lastReset[ip] \in Nat
        /\ UNCHANGED <<known, lastReset, tokens>>
    BY <1>1 DEF IndInv, TypeOK, Tick
  <2>2. ASSUME NEW ip \in IPs
        PROVE  Renewed(ip)' <=> Renewed(ip) \/ Promise!Ended(ip)
    BY <2>1 DEF Renewed, Promise!Ended
  <2>3. begun' = [ip \in IPs |-> IF Promise!Ended(ip) THEN Never ELSE begun[ip]]
    BY <2>1, <2>2
  <2>4. passed' = [ip \in IPs |-> IF Promise!Ended(ip) THEN 0 ELSE passed[ip]]
    BY <2>1, <2>2
  <2> QED
    BY <2>1, <2>3, <2>4 DEF Promise!Next, Promise!Tick
<1>2. ASSUME NEW ip \in IPs, Allow(ip) PROVE Promise!Next
  <2>1. /\ \A i \in IPs : tokens[i] \in 0..Rate /\ lastReset[i] \in Nat
        /\ now \in Nat /\ Rate \in Nat \ {0} /\ Window \in Nat \ {0}
        /\ now' = now
    BY <1>2 DEF IndInv, TypeOK, Allow
  <2>2. /\ known' = known \cup {ip}
        /\ tokens' = [tokens EXCEPT ![ip] = TokensLeft(ip) - 1]
        /\ lastReset' = [lastReset EXCEPT ![ip] = IF Renewed(ip) THEN now ELSE @]
        /\ tokens \in [IPs -> 0..Rate] /\ lastReset \in [IPs -> 0..Horizon]
        /\ TokensLeft(ip) > 0
    BY <1>2 DEF IndInv, TypeOK, Allow
  <2>3. ~Renewed(ip)'
    BY <2>1, <2>2 DEF Renewed
  <2>4. \A i \in IPs \ {ip} : Renewed(i)' = Renewed(i)
    BY <2>1, <2>2 DEF Renewed
  <2>5. begun' = [begun EXCEPT ![ip] = IF @ = Never THEN now ELSE @]
    <3>1. lastReset'[ip] = IF begun[ip] = Never THEN now ELSE begun[ip]
      BY <2>1, <2>2
    <3>2. \A i \in IPs \ {ip} : lastReset'[i] = lastReset[i]
      BY <2>2
    <3>3. begun' = [i \in IPs |-> IF i = ip THEN lastReset'[ip] ELSE begun[i]]
      BY <2>3, <2>4, <3>2
    <3> QED
      BY <3>1, <3>3
  <2>6. passed[ip] = Rate - TokensLeft(ip) /\ TokensLeft(ip) \in 0..Rate
    BY <2>1 DEF TokensLeft
  <2>7. passed' = [passed EXCEPT ![ip] = @ + 1]
    <3>1. Rate - tokens'[ip] = passed[ip] + 1
      BY <2>1, <2>2, <2>6
    <3>2. \A i \in IPs \ {ip} : tokens'[i] = tokens[i]
      BY <2>2
    <3>3. passed' = [i \in IPs |-> IF i = ip THEN Rate - tokens'[ip] ELSE passed[i]]
      BY <2>3, <2>4, <3>2
    <3> HIDE DEF passed
    <3> QED
      BY <3>1, <3>3 DEF passed
  <2>8. passed[ip] < Rate
    BY <2>1, <2>2, <2>6
  <2>9. Promise!Pass(ip)
    BY <2>1, <2>5, <2>7, <2>8 DEF Promise!Pass
  <2> QED
    BY <2>9 DEF Promise!Next
<1>3. ASSUME NEW ip \in IPs, Refuse(ip) PROVE UNCHANGED Promise!vars
  BY <1>3 DEF Refuse, Renewed, Promise!vars
<1>4. CASE Sweep
  BY <1>4 DEF Sweep, Renewed, Promise!vars
<1>5. ASSUME NEW s \in Shards, SweepShard(s) PROVE UNCHANGED Promise!vars
  <2>1. \A ip \in IPs : Renewed(ip)' = Renewed(ip)
    BY <1>5 DEF IndInv, TypeOK, SweepInv, SweepShard, Idle, Renewed
  <2>2. \A ip \in IPs : ~Renewed(ip) => tokens'[ip] = tokens[ip] /\ lastReset'[ip] = lastReset[ip]
    BY <1>5 DEF IndInv, TypeOK, SweepInv, SweepShard, Idle, Renewed
  <2> QED
    BY <1>5, <2>1, <2>2 DEF SweepShard, Promise!vars
<1>6. CASE StopSweeps
  BY <1>6 DEF StopSweeps, Renewed, Promise!vars
<1>7. CASE UNCHANGED vars
  BY <1>7 DEF vars, Renewed, Promise!vars
<1> QED
  BY <1>1, <1>2, <1>3, <1>4, <1>5, <1>6, <1>7 DEF Next

\* The limiter implements RatePromise, wherever the sweep and its delays fall.
THEOREM LimiterKeepsWindows == Spec => KeepsWindows
<1>1. Init => Promise!Init
  BY DEF Init, Promise!Init, Renewed, Never, Promise!Never
<1>2. IndInv /\ [Next]_vars => [Promise!Next]_(Promise!vars)
  BY PromiseStep
<1> QED
  BY <1>1, <1>2, Inductive, PTL DEF Spec, KeepsWindows, Promise!Spec

-----------------------------------------------------------------------------
(* RealIP *)

\* The rightmost of some places is well defined by what it is.
LEMMA RightmostIs ==
  ASSUME NEW places \in SUBSET Int, NEW k \in places, \A other \in places : other <= k
  PROVE  Rightmost(places) = k
<1>1. \A j \in places : (\A other \in places : other <= j) => j = k
  OBVIOUS
<1> QED
  BY <1>1 DEF Rightmost

\* When everything to the right of an address is a trusted proxy, and the address
\* is none, it is the one ForwardedFor finds, whatever is to its left.
LEMMA FoundBehindProxies ==
  ASSUME GateAssumption,
         NEW chain \in Seq(IPs \cup {NoAddress}), NEW peer,
         NEW k \in DOMAIN chain, chain[k] \in IPs \ Proxies,
         \A j \in DOMAIN chain : j > k => chain[j] \in Proxies
  PROVE  ForwardedFor(peer, chain) = chain[k]
<1>1. k \in Foreign(chain) /\ Foreign(chain) \subseteq Readable(chain)
  BY DEF Foreign, Readable
<1>2. DOMAIN chain \subseteq Int /\ Foreign(chain) \subseteq DOMAIN chain
  BY DEF Foreign, Readable
<1>3. \A j \in Foreign(chain) : j <= k
  BY <1>2 DEF Foreign
<1>4. Rightmost(Foreign(chain)) = k
  BY <1>1, <1>2, <1>3, RightmostIs
<1> QED
  BY <1>1, <1>4 DEF ForwardedFor

\* A client's requests are its own, whatever trusted proxies they pass, in
\* whatever order, and whatever its X-Forwarded-For holds before the first of them.
LEMMA OwnBehindProxies ==
  ASSUME GateAssumption, NEW c \in Clients,
         NEW prefix \in Seq(IPs \cup {NoAddress}), NEW path \in Seq(Proxies)
  PROVE  RealIP(Forwarded(c, prefix, path)) = c
<1> DEFINE request == Forwarded(c, prefix, path)
           behind == SubSeq(path, 1, Len(path) - 1)
           chain == (prefix \o <<c>>) \o behind
<1>1. c \in IPs \ Proxies /\ Proxies \subseteq IPs
  BY DEF GateAssumption
<1>2. CASE path = <<>>
  BY <1>1, <1>2 DEF RealIP, Forwarded
<1>3. CASE path # <<>>
  <2>1. Len(path) \in Nat \ {0} /\ path[Len(path)] \in Proxies
    BY <1>3
  <2>2. request.peer = path[Len(path)] /\ request.forwarded = chain
    BY <1>3 DEF Forwarded
  <2>3. behind \in Seq(Proxies)
    BY <2>1
  <2>4. prefix \o <<c>> \in Seq(IPs \cup {NoAddress}) /\ Len(prefix \o <<c>>) = Len(prefix) + 1
        /\ (prefix \o <<c>>)[Len(prefix) + 1] = c
    BY <1>1
  <2>5. behind \in Seq(IPs \cup {NoAddress})
    BY <1>1, <2>3
  <2> DEFINE head == prefix \o <<c>>
             k == Len(prefix) + 1
  <2>6. chain = head \o behind
    OBVIOUS
  <2> HIDE DEF behind, head, chain, request
  <2>7. chain \in Seq(IPs \cup {NoAddress}) /\ Len(chain) = k + Len(behind)
    BY <2>4, <2>5, <2>6 DEF head
  <2>8. k \in DOMAIN chain /\ chain[k] = c
    BY <2>4, <2>5, <2>6, <2>7 DEF head
  <2>9. \A j \in DOMAIN chain : j > k => chain[j] \in Proxies
    <3> SUFFICES ASSUME NEW j \in DOMAIN chain, j > k PROVE chain[j] \in Proxies
      OBVIOUS
    <3>1. chain[j] = behind[j - k] /\ j - k \in 1..Len(behind)
      BY <2>4, <2>5, <2>6, <2>7 DEF head
    <3> QED
      BY <2>3, <3>1
  <2>10. chain # <<>>
    BY <2>8
  <2>11. ForwardedFor(request.peer, chain) = c
    BY <1>1, <2>7, <2>8, <2>9, FoundBehindProxies
  <2> QED
    BY <2>1, <2>2, <2>10, <2>11 DEF RealIP, request
<1> QED
  BY <1>2, <1>3

-----------------------------------------------------------------------------
(* The theorems *)

\* Every request of a client is counted for that client and for nobody else, for
\* any proxies, any chain of them and any headers the request began with (RealIP).
THEOREM CountedAsOneself ==
  ASSUME GateAssumption, NEW c \in Clients
  PROVE  CountedAs[c] \subseteq {c}
<1>1. ASSUME NEW prefix \in Prefixes, NEW path \in Paths
      PROVE  RealIP(Forwarded(c, prefix, path)) = c
  BY OwnBehindProxies DEF GateAssumption
<1>2. ASSUME NEW proxy \in Proxies PROVE RealIP(Replaced(c, proxy)) = c
  BY DEF GateAssumption, RealIP, Replaced
<1> QED
  BY <1>1, <1>2 DEF CountedAs

\* All that clients and proxies do is a step of the limiter.
LEMMA GateStep == [GateNext]_gateVars => [Next]_vars
<1> SUFFICES ASSUME [GateNext]_gateVars PROVE [Next]_vars
  OBVIOUS
<1>1. CASE GateTick
  BY <1>1 DEF GateTick, Next
<1>2. ASSUME NEW c \in Clients, LetThrough(c) \/ TurnAway(c) PROVE Next
  <2>1. CountedAs[c] \subseteq IPs
    BY GateAssumption, CountedAsOneself DEF GateAssumption
  <2> QED
    BY <1>2, <2>1 DEF LetThrough, TurnAway, Next
<1>3. CASE Forget
  BY <1>3 DEF Forget, Next
<1>4. CASE UNCHANGED gateVars
  BY <1>4 DEF gateVars
<1> QED
  BY <1>1, <1>2, <1>3, <1>4 DEF GateNext

\* The limiter behind RealIP keeps the windows RatePromise describes: all that
\* clients and proxies do is a step of the limiter.
THEOREM GateKeepsWindows == GateSpec => KeepsWindows
<1>1. GateInit => Init
  BY DEF GateInit
<1> QED
  BY <1>1, GateStep, LimiterKeepsWindows, PTL DEF GateSpec, Spec

-----------------------------------------------------------------------------
(* What a client got through within a window's length *)

LEMMA CountedInit == GateInit => Counted
<1> USE RateLimiterAssumption DEF RateLimiterAssumption
<1> SUFFICES ASSUME GateInit PROVE Counted
  OBVIOUS
<1>1. RecentOK
  BY DEF GateInit, RecentOK
<1>2. \A c \in Clients : WindowCounted(c)
  BY DEF GateInit, Init, WindowCounted, Renewed
<1> QED
  BY <1>1, <1>2 DEF Counted

\* A request let through counts for its client alone, in every span that ends now.
LEMMA LetThroughCounts ==
  ASSUME IndInv, Counted, NEW c \in Clients, LetThrough(c)
  PROVE  Counted'
<1> USE RateLimiterAssumption DEF RateLimiterAssumption
<1>1. c \in IPs /\ Clients \subseteq IPs /\ Allow(c)
  BY GateAssumption, CountedAsOneself DEF GateAssumption, LetThrough
<1>2. /\ recent' = [recent EXCEPT ![c] = [age \in 0..Window |-> recent[c][age] + 1]]
      /\ recent \in [Clients -> [0..Window -> Nat]]
  BY DEF LetThrough, Counted, RecentOK
<1>3. /\ \A age \in 0..Window : recent[c][age] \in Nat /\ recent'[c][age] = recent[c][age] + 1
      /\ \A d \in Clients \ {c} : recent'[d] = recent[d]
  BY <1>2
<1>4. RecentOK'
  <2>1. recent' \in [Clients -> [0..Window -> Nat]]
    BY <1>2, <1>3
  <2>2. \A d \in Clients : \A age, longer \in 0..Window :
          age <= longer => recent'[d][age] <= recent'[d][longer]
    BY <1>2, <1>3 DEF Counted, RecentOK
  <2> QED
    BY <2>1, <2>2 DEF RecentOK
<1>5. /\ now \in Nat /\ now' = now /\ tokens[c] \in 0..Rate /\ lastReset[c] \in Nat
      /\ known' = known \cup {c}
      /\ tokens'[c] = TokensLeft(c) - 1
      /\ lastReset'[c] = IF Renewed(c) THEN now ELSE lastReset[c]
      /\ \A d \in IPs \ {c} : tokens'[d] = tokens[d] /\ lastReset'[d] = lastReset[d]
  BY <1>1 DEF IndInv, TypeOK, Allow
<1>6. WindowCounted(c)'
  <2>1. CASE Renewed(c)
    <3>1. recent[c][0] = 0 /\ recent[c][Window] <= Rate
      BY <2>1 DEF Counted, WindowCounted
    <3>2. ~Renewed(c)' /\ (now - lastReset[c])' = 0 /\ tokens'[c] = Rate - 1
      BY <1>5, <2>1 DEF Renewed, TokensLeft
    <3>3. recent'[c][0] = 1 /\ recent'[c][Window] = recent[c][Window] + 1
      BY <1>3, <3>1
    <3>4. recent'[c][Window] - recent'[c][0] <= Rate /\ recent'[c][0] = Rate - tokens'[c]
      BY <1>3, <3>1, <3>2, <3>3
    <3> QED
      BY <3>2, <3>4 DEF WindowCounted
  <2>2. CASE ~Renewed(c)
    <3> DEFINE since == now - lastReset[c]
    <3>1. since \in 0..Window
      BY <1>5, <2>2 DEF IndInv, SweepInv, Renewed
    <3>2. recent[c][since] = Rate - tokens[c] /\ recent[c][Window] - recent[c][since] <= Rate
      BY <2>2 DEF Counted, WindowCounted
    <3>3. ~Renewed(c)' /\ (now - lastReset[c])' = since /\ tokens'[c] = tokens[c] - 1
      BY <1>5, <2>2, <3>1 DEF Renewed, TokensLeft
    <3>4. recent'[c][since] = recent[c][since] + 1 /\ recent'[c][Window] = recent[c][Window] + 1
          /\ recent[c][since] \in Nat /\ recent[c][Window] \in Nat
      BY <1>3, <3>1
    <3> HIDE DEF since
    <3>5. recent'[c][Window] - recent'[c][since] <= Rate /\ recent'[c][since] = Rate - tokens'[c]
      BY <1>5, <3>2, <3>3, <3>4
    <3> QED
      BY <3>3, <3>5 DEF WindowCounted
  <2> QED
    BY <2>1, <2>2
<1>7. ASSUME NEW d \in Clients, d # c PROVE WindowCounted(d)'
  <2>1. d \in IPs \ {c}
    BY <1>1, <1>7
  <2>2. Renewed(d)' = Renewed(d) /\ (now - lastReset[d])' = now - lastReset[d]
        /\ tokens'[d] = tokens[d] /\ recent'[d] = recent[d]
    BY <1>3, <1>5, <1>7, <2>1 DEF Renewed
  <2>3. WindowCounted(d)
    BY DEF Counted
  <2> QED
    BY <2>2, <2>3 DEF WindowCounted
<1> QED
  BY <1>4, <1>6, <1>7 DEF Counted

\* As time goes by, a window ends with at most its requests to be remembered.
LEMMA TickCounts ==
  ASSUME IndInv, Counted, GateTick
  PROVE  Counted'
<1> USE RateLimiterAssumption DEF RateLimiterAssumption
<1>1. /\ recent \in [Clients -> [0..Window -> Nat]]
      /\ \A c \in Clients : \A age, longer \in 0..Window :
           age <= longer => recent[c][age] <= recent[c][longer]
  BY DEF Counted, RecentOK
<1>2. /\ recent' \in [Clients -> [0..Window -> Nat]]
      /\ \A c \in Clients : recent'[c][0] = 0
      /\ \A c \in Clients : \A age \in 1..Window : recent'[c][age] = recent[c][age - 1]
  <2>1. recent' = [c \in Clients |->
                     [age \in 0..Window |-> IF age = 0 THEN 0 ELSE recent[c][age - 1]]]
    BY DEF GateTick
  <2> QED
    BY <1>1, <2>1
<1>3. RecentOK'
  <2>1. ASSUME NEW c \in Clients, NEW age \in 0..Window, NEW longer \in 0..Window, age <= longer
        PROVE  recent'[c][age] <= recent'[c][longer]
    <3>1. CASE age = 0
      BY <1>2, <3>1
    <3>2. CASE age # 0
      <4>1. age - 1 \in 0..Window /\ longer - 1 \in 0..Window /\ age - 1 <= longer - 1
            /\ age \in 1..Window /\ longer \in 1..Window
        BY <2>1, <3>2
      <4> QED
        BY <1>1, <1>2, <4>1
    <3> QED
      BY <3>1, <3>2
  <2> QED
    BY <1>2, <2>1 DEF RecentOK
<1>4. ASSUME NEW c \in Clients PROVE WindowCounted(c)'
  <2>1. /\ now \in Nat /\ now' = now + 1 /\ tokens[c] \in 0..Rate /\ lastReset[c] \in Nat
        /\ UNCHANGED <<known, tokens, lastReset>>
    BY GateAssumption DEF GateAssumption, IndInv, TypeOK, GateTick, Tick, visitorVars
  <2>2. recent'[c][Window] = recent[c][Window - 1] /\ recent'[c][0] = 0
        /\ recent[c][Window - 1] <= recent[c][Window]
        /\ recent[c][Window - 1] \in Nat /\ recent[c][Window] \in Nat
    BY <1>1, <1>2
  <2>3. CASE Renewed(c)
    <3>1. Renewed(c)'
      BY <2>1, <2>3 DEF Renewed
    <3>2. recent[c][Window] <= Rate
      BY <2>3 DEF Counted, WindowCounted
    <3> QED
      BY <2>2, <3>1, <3>2 DEF WindowCounted
  <2>4. CASE ~Renewed(c)
    <3> DEFINE since == now - lastReset[c]
    <3>1. since \in 0..Window
      BY <2>1, <2>4 DEF IndInv, SweepInv, Renewed
    <3>2. recent[c][since] = Rate - tokens[c] /\ recent[c][Window] - recent[c][since] <= Rate
      BY <2>4 DEF Counted, WindowCounted
    <3>3. CASE since = Window
      <4>1. Renewed(c)'
        BY <2>1, <3>3 DEF Renewed
      <4>2. recent[c][Window] <= Rate
        BY <2>1, <3>2, <3>3
      <4> QED
        BY <2>2, <4>1, <4>2 DEF WindowCounted
    <3>4. CASE since # Window
      <4>1. ~Renewed(c)' /\ (now - lastReset[c])' = since + 1
        BY <2>1, <2>4, <3>1, <3>4 DEF Renewed
      <4>2. since + 1 \in 1..Window /\ recent[c][since] \in Nat
        BY <1>1, <3>1, <3>4
      <4>3. recent'[c][since + 1] = recent[c][since]
        BY <1>2, <4>2, <3>1
      <4> HIDE DEF since
      <4>4. recent'[c][since + 1] = Rate - tokens'[c]
            /\ recent'[c][Window] - recent'[c][since + 1] <= Rate
        BY <2>1, <2>2, <3>2, <4>2, <4>3
      <4> QED
        BY <4>1, <4>4 DEF WindowCounted
    <3> QED
      BY <3>3, <3>4
  <2> QED
    BY <2>3, <2>4
<1> QED
  BY <1>3, <1>4 DEF Counted

\* A sweep forgets nobody whose window goes on.
LEMMA ForgetCounts ==
  ASSUME IndInv, Counted, Forget
  PROVE  Counted'
<1> USE RateLimiterAssumption DEF RateLimiterAssumption
<1>1. recent' = recent /\ now' = now
  BY DEF Forget, Sweep, SweepShard, StopSweeps
<1>2. ASSUME NEW c \in Clients
      PROVE  /\ Renewed(c)' = Renewed(c)
             /\ ~Renewed(c) => tokens'[c] = tokens[c] /\ lastReset'[c] = lastReset[c]
  <2>1. c \in IPs
    BY GateAssumption DEF GateAssumption
  <2>2. CASE Sweep \/ StopSweeps
    BY <2>2 DEF Sweep, StopSweeps, Renewed, visitorVars
  <2>3. CASE \E s \in Shards : SweepShard(s)
    BY <2>1, <2>3 DEF IndInv, TypeOK, SweepInv, SweepShard, Idle, Renewed
  <2> QED
    BY <2>2, <2>3 DEF Forget
<1>3. ASSUME NEW c \in Clients PROVE WindowCounted(c)'
  <2>1. WindowCounted(c)
    BY DEF Counted
  <2> QED
    BY <1>1, <1>2, <2>1 DEF WindowCounted
<1> QED
  BY <1>1, <1>3 DEF Counted, RecentOK

LEMMA CountedStep == IndInv /\ Counted /\ [GateNext]_gateVars => Counted'
<1> SUFFICES ASSUME IndInv, Counted, [GateNext]_gateVars PROVE Counted'
  OBVIOUS
<1>1. ASSUME NEW c \in Clients, TurnAway(c) PROVE Counted'
  BY <1>1 DEF TurnAway, Refuse, Counted, RecentOK, WindowCounted, Renewed, visitorVars
<1>2. CASE UNCHANGED gateVars
  BY <1>2 DEF gateVars, vars, Counted, RecentOK, WindowCounted, Renewed, visitorVars
<1> QED
  BY <1>1, <1>2, TickCounts, LetThroughCounts, ForgetCounts DEF GateNext

\* Whatever the sweep does in between, a client has its count and its window.
LEMMA GateInductive == GateSpec => [](IndInv /\ Counted)
<1>1. GateInit => Init
  BY DEF GateInit
<1>2. GateSpec => []IndInv
  BY <1>1, GateStep, Inductive, PTL DEF GateSpec, Spec
<1> QED
  BY <1>2, CountedInit, CountedStep, PTL DEF GateSpec

\* No client gets more than two windows' worth of requests through within a
\* window's length, for any rate and window, any chain of proxies, any headers, and
\* wherever the sweep falls between its requests (RealIP, Handler, cleanup).
THEOREM TwoWindows == GateSpec => []TwoWindowsAtMost
<1>1. IndInv /\ Counted => TwoWindowsAtMost
  <2> USE RateLimiterAssumption DEF RateLimiterAssumption
  <2> SUFFICES ASSUME IndInv, Counted, NEW c \in Clients PROVE recent[c][Window] <= 2 * Rate
    BY DEF TwoWindowsAtMost, Passed
  <2>1. c \in IPs /\ WindowCounted(c) /\ recent[c] \in [0..Window -> Nat]
    BY GateAssumption DEF GateAssumption, Counted, RecentOK
  <2>2. recent[c][Window] \in Nat /\ tokens[c] \in 0..Rate
    BY <2>1 DEF IndInv, TypeOK
  <2>3. CASE Renewed(c)
    BY <2>1, <2>2, <2>3 DEF WindowCounted
  <2>4. CASE ~Renewed(c)
    <3>1. recent[c][now - lastReset[c]] = Rate - tokens[c]
          /\ recent[c][Window] - recent[c][now - lastReset[c]] <= Rate
      BY <2>1, <2>4 DEF WindowCounted
    <3> QED
      BY <2>2, <3>1
  <2> QED
    BY <2>3, <2>4
<1> QED
  BY <1>1, GateInductive, PTL

\* A client that is turned away has had a whole window's worth of its own requests
\* let through, whatever anybody else sends and from behind which proxies (Handler).
THEOREM Refusals == GateSpec => RefusalsEarned
<1> DEFINE Earned == \A c \in Clients :
             promised'[c] # promised[c] /\ promised'[c] # Never => Passed(c) >= Rate
<1>1. IndInv /\ Counted /\ [GateNext]_gateVars => [Earned]_gateVars
  <2> USE RateLimiterAssumption DEF RateLimiterAssumption
  <2> SUFFICES ASSUME IndInv, Counted, GateNext, NEW c \in Clients,
                      promised'[c] # promised[c], promised'[c] # Never
               PROVE  recent[c][Window] >= Rate
    BY DEF Passed
  <2>1. c \in IPs /\ Clients \subseteq IPs
        /\ \A d \in Clients : CountedAs[d] \subseteq {d}
    BY GateAssumption, CountedAsOneself DEF GateAssumption
  <2>2. promised \in [IPs -> Int]
    BY DEF IndInv, TypeOK
  <2>3. ~GateTick /\ ~Forget
    BY DEF GateTick, Tick, Forget, Sweep, SweepShard, StopSweeps
  <2>4. ASSUME NEW d \in Clients, LetThrough(d) PROVE FALSE
    BY <2>1, <2>2, <2>4 DEF LetThrough, Allow
  <2>5. Refuse(c)
    BY <2>1, <2>2, <2>3, <2>4 DEF GateNext, TurnAway, Refuse
  <2>6. /\ ~Renewed(c) /\ tokens[c] = 0
        /\ now \in Nat /\ lastReset[c] \in Nat
    BY <2>1, <2>5 DEF Refuse, TokensLeft, IndInv, TypeOK
  <2>7. now - lastReset[c] \in 0..Window
    BY <2>6 DEF IndInv, SweepInv, Renewed
  <2>8. recent[c][now - lastReset[c]] = Rate
    BY <2>6 DEF Counted, WindowCounted
  <2> QED
    BY <2>7, <2>8 DEF Counted, RecentOK
<1> QED
  BY <1>1, GateInductive, PTL DEF GateSpec, RefusalsEarned

\* Retry-After is never too early for a client behind proxies either.
THEOREM GateRetryAfterKept == GateSpec => []RetryAfterEnough
<1>1. GateInit => Init
  BY DEF GateInit
<1> QED
  BY <1>1, GateStep, RetryAfterKept, PTL DEF GateSpec, Spec

=============================================================================
