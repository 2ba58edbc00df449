------------------------- MODULE BrowserSessionProofs -------------------------
(***************************************************************************)
(* A live session of the browser is in its cookies or on its way to them.  *)
(* The argument is about who knows a pair of tokens: until its answer      *)
(* arrives only that answer does, so no other request can have used its    *)
(* refresh token up, and whichever answer comes last brings a pair that    *)
(* still lives, unless a sign-out ended it.                                *)
(* That no call is set back is shown step by step, for all calls at once.  *)
(***************************************************************************)
EXTENDS BrowserSession, TLAPS

FetchType == [stage : {"none", "going", "coming"}, cookies : 0..MaxPairs,
              ok : BOOLEAN, set : Clear..MaxPairs]

\* What a request, an answer or its end changes of the fetches on the wire
LEMMA FetchChanged ==
  ASSUME TypeOK, NEW f \in Fetchers, NEW r, fetch' = [fetch EXCEPT ![f] = r]
  PROVE  /\ fetch'[f] = r
         /\ \A g \in Fetchers \ {f} : fetch'[g] = fetch[g]
         /\ r \in FetchType => fetch' \in [Fetchers -> FetchType]
  BY DEF TypeOK, FetchType

\* A request leaves with no cookies to set, an answer is what the server said.
LEMMA FetchValues ==
  ASSUME TypeOK
  PROVE  /\ NoFetch \in FetchType /\ Going(jar) \in FetchType
         /\ \A ok \in BOOLEAN, set \in Clear..MaxPairs :
              [stage |-> "coming", cookies |-> 0, ok |-> ok, set |-> set] \in FetchType
         /\ \A f \in Fetchers : fetch[f] \in FetchType
  BY BrowserSessionAssumption DEF BrowserSessionAssumption, TypeOK, FetchType, NoFetch, Going, Clear

-----------------------------------------------------------------------------
(* Types, and what was done for each call *)

\* The server's answer to a request: a call is handled with a good answer only.
LEMMA AnswerTypes ==
  ASSUME TypeOK, DoneOnce, NEW f \in Fetchers, fetch[f].stage = "going",
         NEW ok \in BOOLEAN, NEW set \in Clear..MaxPairs, Answer(f, ok, set), ServerOnly,
         issued' \in Pairs, signedOut' \in 0..MaxPairs,
         live' \subseteq 1..issued', valid' \subseteq 1..issued',
         \/ f \in Calls /\ ok /\ Handle(f)
         \/ (f \in Pages \/ ~ok) /\ handled' = handled
  PROVE  TypeOK' /\ DoneOnce'
<1> USE BrowserSessionAssumption DEF BrowserSessionAssumption
<1> DEFINE answer == [stage |-> "coming", cookies |-> 0, ok |-> ok, set |-> set]
<1>1. /\ fetch'[f] = answer /\ \A g \in Fetchers \ {f} : fetch'[g] = fetch[g]
      /\ fetch' \in [Fetchers -> FetchType]
  <2>1. answer \in FetchType /\ fetch' = [fetch EXCEPT ![f] = answer]
    BY FetchValues DEF Answer
  <2> HIDE DEF answer
  <2> QED
    BY <2>1, FetchChanged
<1>2. fetch'[f].stage = "coming" /\ fetch'[f].ok = ok
  BY <1>1
<1>3. \A g \in Fetchers : fetch'[g].stage = "none" <=> fetch[g].stage = "none"
  BY <1>1, <1>2
<1>4. handled' \in [Calls -> 0..2] /\ DoneOnce'
  <2>1. \A c \in Calls : handled[c] \in {0, 1} /\ handled \in [Calls -> 0..2]
    BY DEF TypeOK, DoneOnce
  <2>2. f \in Calls => handled[f] = 0
    BY DEF DoneOnce
  <2>3. CASE f \in Calls /\ ok /\ Handle(f)
    <3>1. handled'[f] = 1 /\ \A c \in Calls \ {f} : handled'[c] = handled[c]
      BY <2>1, <2>2, <2>3 DEF Handle
    <3>2. handled' \in [Calls -> 0..2]
      BY <2>1, <2>2, <2>3 DEF Handle
    <3> QED
      BY <1>1, <1>2, <2>3, <3>1, <3>2 DEF DoneOnce, Fetchers
  <2>4. CASE (f \in Pages \/ ~ok) /\ handled' = handled
    <3>1. handled' \in [Calls -> 0..2]
      BY <2>1, <2>4 DEF TypeOK
    <3>2. ASSUME NEW c \in Calls
          PROVE  handled'[c] = IF fetch'[c].stage = "coming" /\ fetch'[c].ok THEN 1 ELSE 0
      <4>1. CASE c = f
        <5>1. ~fetch'[c].ok /\ handled'[c] = 0
          BY <1>2, <2>2, <2>4, <4>1
        <5> QED
          BY <5>1
      <4>2. CASE c # f
        BY <1>1, <2>4, <4>2 DEF DoneOnce, Fetchers
      <4> QED
        BY <4>1, <4>2
    <3> QED
      BY <3>1, <3>2 DEF DoneOnce
  <2> QED
    BY <2>3, <2>4
<1>5. /\ kind' = kind /\ at' = at /\ jar' = jar /\ lost' = lost /\ overtaken' = overtaken
  BY DEF ServerOnly
<1>6. \A c \in Calls : fetch'[c].stage # "none" <=> at'[c] \in {"first", "again"}
  BY <1>3, <1>5 DEF TypeOK, Fetchers
<1>7. \A p \in Pages : fetch'[p].stage = "none" =>
         \A c \in Calls : Page[c] = p => at'[c] # "awaiting"
  BY <1>3, <1>5 DEF TypeOK, Fetchers
<1> QED
  BY <1>1, <1>4, <1>5, <1>6, <1>7 DEF TypeOK, FetchType, Pairs

\* An answer arrives or a connection breaks, and the calls that hang on it return.
LEMMA EndTypes ==
  ASSUME TypeOK, DoneOnce, NEW f \in Fetchers, Settle(f), UNCHANGED serverVars,
         jar' \in 0..MaxPairs, lost' \in BOOLEAN, overtaken' \in BOOLEAN,
         NEW calls \in SUBSET Calls, Return(calls),
         calls = IF f \in Calls THEN {f} ELSE Awaiting(f)
  PROVE  TypeOK' /\ DoneOnce'
<1> USE BrowserSessionAssumption DEF BrowserSessionAssumption
<1>1. /\ fetch'[f] = NoFetch /\ \A g \in Fetchers \ {f} : fetch'[g] = fetch[g]
      /\ fetch' \in [Fetchers -> FetchType]
  <2>1. NoFetch \in FetchType /\ fetch' = [fetch EXCEPT ![f] = NoFetch]
    BY FetchValues DEF Settle
  <2> QED
    BY <2>1, FetchChanged
<1>2. fetch'[f].stage = "none"
  BY <1>1 DEF NoFetch
<1>3. /\ at' = [c \in Calls |-> IF c \in calls THEN "idle" ELSE at[c]]
      /\ kind' = [c \in Calls |-> IF c \in calls THEN "any" ELSE kind[c]]
      /\ handled' = [c \in Calls |-> IF c \in calls THEN 0 ELSE handled[c]]
  BY DEF Return
<1>4. /\ at' \in [Calls -> {"idle", "first", "refused", "awaiting", "renewed", "again"}]
      /\ kind' \in [Calls -> {"any", "login", "logout"}]
      /\ handled' \in [Calls -> 0..2]
  BY <1>3 DEF TypeOK
<1>5. \A c \in Calls : fetch'[c].stage # "none" <=> at'[c] \in {"first", "again"}
  <2> SUFFICES ASSUME NEW c \in Calls
               PROVE  fetch'[c].stage # "none" <=> at'[c] \in {"first", "again"}
    OBVIOUS
  <2>1. CASE c = f
    BY <1>2, <1>3, <2>1
  <2>2. CASE c # f
    <3>1. fetch'[c] = fetch[c] /\ (fetch[c].stage # "none" <=> at[c] \in {"first", "again"})
      BY <1>1, <2>2 DEF Fetchers, TypeOK
    <3>2. c \in calls => at[c] = "awaiting"
      BY <2>2 DEF Awaiting
    <3> QED
      BY <1>3, <3>1, <3>2
  <2> QED
    BY <2>1, <2>2
<1>6. \A p \in Pages : fetch'[p].stage = "none" =>
         \A c \in Calls : Page[c] = p => at'[c] # "awaiting"
  <2> SUFFICES ASSUME NEW p \in Pages, fetch'[p].stage = "none",
                      NEW c \in Calls, Page[c] = p, at'[c] = "awaiting"
               PROVE  FALSE
    OBVIOUS
  <2>1. c \notin calls /\ at[c] = "awaiting"
    BY <1>3
  <2>2. CASE p = f
    BY <2>1, <2>2 DEF Awaiting
  <2>3. CASE p # f
    BY <1>1, <2>1, <2>3 DEF TypeOK, Fetchers
  <2> QED
    BY <2>2, <2>3
<1>7. DoneOnce'
  <2> SUFFICES ASSUME NEW c \in Calls
               PROVE  handled'[c] = IF fetch'[c].stage = "coming" /\ fetch'[c].ok THEN 1 ELSE 0
    BY DEF DoneOnce
  <2>1. CASE c = f
    BY <1>2, <1>3, <2>1
  <2>2. CASE c # f /\ c \in calls
    <3>1. fetch'[c] = fetch[c] /\ fetch[c].stage = "none"
      BY <1>1, <2>2 DEF Fetchers, TypeOK, Awaiting
    <3> QED
      BY <1>3, <2>2, <3>1
  <2>3. CASE c # f /\ c \notin calls
    BY <1>1, <1>3, <2>3 DEF DoneOnce, Fetchers
  <2> QED
    BY <2>1, <2>2, <2>3
<1> QED
  BY <1>1, <1>4, <1>5, <1>6, <1>7 DEF TypeOK, FetchType, Pairs, serverVars

\* A call that changes its place without an answer to it.
LEMMA MoveTypes ==
  ASSUME TypeOK, DoneOnce, NEW f \in Fetchers, NEW r \in FetchType, r.stage # "coming",
         fetch[f].stage = "coming" => ~fetch[f].ok \/ f \in Pages,
         fetch' = [fetch EXCEPT ![f] = r], UNCHANGED serverVars,
         jar' \in 0..MaxPairs, lost' \in BOOLEAN, overtaken' \in BOOLEAN,
         kind' \in [Calls -> {"any", "login", "logout"}], handled' = handled,
         at' \in [Calls -> {"idle", "first", "refused", "awaiting", "renewed", "again"}],
         f \in Calls => (r.stage # "none" <=> at'[f] \in {"first", "again"}),
         \A c \in Calls \ {f} : at'[c] # at[c] =>
             {at[c], at'[c]} \cap {"first", "again"} = {},
         \A c \in Calls : at'[c] = "awaiting" =>
             \/ at[c] = "awaiting" /\ Page[c] # f
             \/ fetch'[Page[c]].stage # "none"
  PROVE  TypeOK' /\ DoneOnce'
<1> USE BrowserSessionAssumption DEF BrowserSessionAssumption
<1>1. /\ fetch'[f] = r /\ \A g \in Fetchers \ {f} : fetch'[g] = fetch[g]
      /\ fetch' \in [Fetchers -> FetchType]
  BY FetchChanged
<1>2. \A c \in Calls : fetch'[c].stage # "none" <=> at'[c] \in {"first", "again"}
  BY <1>1 DEF TypeOK, Fetchers
<1>3. \A p \in Pages : fetch'[p].stage = "none" =>
         \A c \in Calls : Page[c] = p => at'[c] # "awaiting"
  BY <1>1 DEF TypeOK, Fetchers
<1>4. DoneOnce'
  BY <1>1 DEF DoneOnce, Fetchers
<1> QED
  BY <1>1, <1>2, <1>3, <1>4 DEF TypeOK, FetchType, Pairs, serverVars

-----------------------------------------------------------------------------
(* Who knows a pair *)

LEMMA Records == 
  /\ NoFetch.stage = "none" /\ NoFetch.cookies = 0 /\ NoFetch.set = 0
  /\ \A pair : /\ Going(pair).stage = "going" /\ Going(pair).cookies = pair
               /\ Going(pair).set = 0
  BY DEF NoFetch, Going

\* A request that leaves takes the cookies along, and no pair on its way is theirs.
LEMMA SendKeeps ==
  ASSUME TypeOK, Delivered, SessionKept, NEW f \in Fetchers, fetch[f].stage = "none",
         fetch' = [fetch EXCEPT ![f] = Going(jar)], UNCHANGED <<serverVars, jar, lost, overtaken>>
  PROVE  Delivered' /\ SessionKept'
<1>1. /\ fetch'[f] = Going(jar) /\ \A g \in Fetchers \ {f} : fetch'[g] = fetch[g]
  BY FetchChanged
<1>2. /\ fetch'[f].stage = "going" /\ fetch'[f].cookies = jar /\ fetch'[f].set = 0
  BY <1>1, Records
<1>3. jar \in Int /\ issued \in Nat /\ jar <= issued /\ signedOut <= issued
  BY DEF TypeOK, Pairs, Delivered
<1>4. \A g \in Fetchers : FetchOK(g)'
  <2>1. FetchOK(f)'
    BY <1>2, <1>3 DEF FetchOK, serverVars, Clear
  <2>2. \A g \in Fetchers \ {f} : FetchOK(g)'
    BY <1>1 DEF FetchOK, Delivered, serverVars
  <2> QED
    BY <2>1, <2>2
<1>5. ASSUME NEW g \in Fetchers, OnTheWay(g)' PROVE Unknown(g)'
  <2>1. g # f /\ fetch'[g] = fetch[g]
    BY <1>1, <1>2, <1>5 DEF OnTheWay
  <2>2. OnTheWay(g) /\ Unknown(g)
    BY <1>5, <2>1 DEF OnTheWay, Delivered
  <2>3. fetch[g].set > 0 /\ fetch[g].set # 0
    BY <2>2 DEF OnTheWay, TypeOK
  <2> QED
    BY <1>1, <1>2, <2>1, <2>2, <2>3 DEF Unknown, serverVars
<1>6. SessionKept'
  BY <1>1 DEF SessionKept, serverVars
<1> QED
  BY <1>3, <1>4, <1>5, <1>6 DEF Delivered, serverVars

\* An answer without a new pair changes nobody's knowledge.
LEMMA AnswerKeeps ==
  ASSUME TypeOK, Delivered, SessionKept, NEW f \in Fetchers, fetch[f].stage = "going",
         NEW ok \in BOOLEAN, Answer(f, ok, 0),
         UNCHANGED <<issued, live, signedOut, jar, lost, overtaken>>
  PROVE  Delivered' /\ SessionKept'
<1> DEFINE answer == [stage |-> "coming", cookies |-> 0, ok |-> ok, set |-> 0]
<1>1. /\ fetch'[f] = answer /\ \A g \in Fetchers \ {f} : fetch'[g] = fetch[g]
  BY FetchChanged DEF Answer
<1>2. /\ fetch'[f].stage = "coming" /\ fetch'[f].cookies = 0 /\ fetch'[f].set = 0
  BY <1>1
<1> HIDE DEF answer
<1>3. jar \in Int /\ issued \in Nat /\ jar <= issued /\ signedOut <= issued
  BY DEF TypeOK, Pairs, Delivered
<1>4. \A g \in Fetchers : FetchOK(g)'
  <2>1. FetchOK(f)'
    BY <1>2, <1>3 DEF FetchOK, Clear
  <2>2. \A g \in Fetchers \ {f} : FetchOK(g)'
    BY <1>1 DEF FetchOK, Delivered
  <2> QED
    BY <2>1, <2>2
<1>5. ASSUME NEW g \in Fetchers, OnTheWay(g)' PROVE Unknown(g)'
  <2>1. g # f /\ fetch'[g] = fetch[g]
    BY <1>1, <1>2, <1>5 DEF OnTheWay
  <2>2. OnTheWay(g) /\ Unknown(g)
    BY <1>5, <2>1 DEF OnTheWay, Delivered
  <2>3. fetch[g].set > 0 /\ fetch[g].set # 0
    BY <2>2 DEF OnTheWay, TypeOK
  <2> QED
    BY <1>1, <1>2, <2>1, <2>2, <2>3 DEF Unknown
<1>6. SessionKept'
  BY <1>1 DEF SessionKept
<1> QED
  BY <1>3, <1>4, <1>5, <1>6 DEF Delivered

\* An answer with a new pair is the only one to know it, and the pair given for it
\* was known to its request, so it is on the way to nobody.
LEMMA NewPairKeeps ==
  ASSUME TypeOK, Delivered, SessionKept, NEW f \in Fetchers, fetch[f].stage = "going",
         Answer(f, TRUE, issued + 1), issued' = issued + 1,
         NEW given \in {0, fetch[f].cookies},
         live' = (live \ {given}) \cup {issued + 1},
         UNCHANGED <<signedOut, jar, lost, overtaken>>
  PROVE  Delivered' /\ SessionKept'
<1> DEFINE answer == [stage |-> "coming", cookies |-> 0, ok |-> TRUE, set |-> issued + 1]
<1>1. /\ fetch'[f] = answer /\ \A g \in Fetchers \ {f} : fetch'[g] = fetch[g]
  BY FetchChanged DEF Answer
<1>2. /\ fetch'[f].stage = "coming" /\ fetch'[f].cookies = 0 /\ fetch'[f].set = issued + 1
  BY <1>1
<1> HIDE DEF answer
<1>3. /\ jar \in Int /\ issued \in Nat /\ jar <= issued /\ signedOut \in Int /\ signedOut <= issued
      /\ live \subseteq Int
  BY DEF TypeOK, Pairs, Delivered
<1>4. \A g \in Fetchers : fetch[g].cookies \in Int /\ fetch[g].cookies <= issued
                           /\ fetch[g].set \in Int /\ fetch[g].set <= issued
  BY DEF TypeOK, Delivered, FetchOK, Clear
<1>5. \A g \in Fetchers : FetchOK(g)'
  <2>1. FetchOK(f)'
    BY <1>2, <1>3 DEF FetchOK, Clear
  <2>2. \A g \in Fetchers \ {f} : FetchOK(g)'
    BY <1>1, <1>3, <1>4 DEF FetchOK, Delivered
  <2> QED
    BY <2>1, <2>2
<1>6. Unknown(f)'
  <2>1. jar # issued + 1 /\ issued + 1 \in live'
    BY <1>3
  <2>2. \A g \in Fetchers : fetch'[g].cookies # issued + 1
    BY <1>1, <1>2, <1>3, <1>4
  <2>3. \A g \in Fetchers \ {f} : fetch'[g].set # issued + 1
    BY <1>1, <1>3, <1>4
  <2> QED
    BY <1>2, <2>1, <2>2, <2>3 DEF Unknown
<1>7. ASSUME NEW g \in Fetchers \ {f}, OnTheWay(g)' PROVE Unknown(g)'
  <2>1. fetch'[g] = fetch[g]
    BY <1>1
  <2>2. OnTheWay(g) /\ Unknown(g)
    BY <1>7, <2>1 DEF OnTheWay, Delivered
  <2>3. fetch[g].set > 0 /\ fetch[g].set # 0 /\ fetch[g].set # issued + 1
    BY <1>3, <1>4, <2>2 DEF OnTheWay
  <2>4. fetch[g].set # given
    BY <2>2, <2>3 DEF Unknown
  <2> QED
    BY <1>1, <1>2, <2>1, <2>2, <2>3, <2>4 DEF Unknown
<1>8. SessionKept'
  BY <1>2 DEF SessionKept
<1> QED
  BY <1>3, <1>5, <1>6, <1>7, <1>8 DEF Delivered

\* After a sign-out no pair is live, and those on their way were signed out.
LEMMA SignOutKeeps ==
  ASSUME TypeOK, Delivered, NEW f \in Calls, fetch[f].stage = "going",
         Answer(f, TRUE, Clear), issued' \in {issued, issued + 1},
         live' = {}, signedOut' = issued', UNCHANGED <<jar, lost, overtaken>>
  PROVE  Delivered' /\ SessionKept'
<1> DEFINE answer == [stage |-> "coming", cookies |-> 0, ok |-> TRUE, set |-> Clear]
<1>1. /\ fetch'[f] = answer /\ \A g \in Fetchers \ {f} : fetch'[g] = fetch[g]
      /\ f \in Fetchers /\ f \notin Pages
  BY FetchChanged, BrowserSessionAssumption DEF Answer, Fetchers, BrowserSessionAssumption
<1>2. /\ fetch'[f].stage = "coming" /\ fetch'[f].cookies = 0 /\ fetch'[f].set = -1
  BY <1>1 DEF Clear
<1> HIDE DEF answer
<1>3. /\ jar \in Int /\ issued \in Nat /\ jar <= issued /\ issued' \in Nat /\ issued <= issued'
  BY DEF TypeOK, Pairs, Delivered
<1>4. \A g \in Fetchers : fetch[g].cookies \in Int /\ fetch[g].cookies <= issued
                           /\ fetch[g].set \in Int /\ fetch[g].set <= issued
  BY DEF TypeOK, Delivered, FetchOK, Clear
<1>5. \A g \in Fetchers : FetchOK(g)'
  <2>1. FetchOK(f)'
    BY <1>1, <1>2, <1>3 DEF FetchOK
  <2>2. \A g \in Fetchers \ {f} : FetchOK(g)'
    BY <1>1, <1>3, <1>4 DEF FetchOK, Delivered
  <2> QED
    BY <2>1, <2>2
<1>6. ASSUME NEW g \in Fetchers, OnTheWay(g)' PROVE Unknown(g)'
  <2>1. g # f /\ fetch'[g] = fetch[g]
    BY <1>1, <1>2, <1>6 DEF OnTheWay
  <2>2. OnTheWay(g) /\ Unknown(g)
    BY <1>6, <2>1 DEF OnTheWay, Delivered
  <2>3. fetch[g].set > 0 /\ fetch[g].set # 0 /\ fetch[g].set # -1 /\ fetch[g].set <= signedOut'
    BY <1>3, <1>4, <2>2 DEF OnTheWay
  <2> QED
    BY <1>1, <1>2, <2>1, <2>2, <2>3 DEF Unknown
<1>7. SessionKept'
  BY DEF SessionKept
<1> QED
  BY <1>3, <1>5, <1>6, <1>7 DEF Delivered

\* The cookies of an answer are stored, or lost with it; the fetch is over.
LEMMA StoredKeeps ==
  ASSUME TypeOK, Delivered, SessionKept, NEW f \in Fetchers, Settle(f),
         \/ StoreCookies(f) /\ UNCHANGED lost
         \/ lost' = (lost \/ fetch[f].set > 0) /\ UNCHANGED <<jar, overtaken>>,
         UNCHANGED serverVars
  PROVE  /\ Delivered' /\ SessionKept'
         /\ jar' \in 0..MaxPairs /\ lost' \in BOOLEAN /\ overtaken' \in BOOLEAN
<1> DEFINE set == fetch[f].set
           late == live # {} /\ ((f \in Calls /\ set = Clear) \/ (0 < set /\ set <= signedOut))
<1>1. /\ fetch'[f] = NoFetch /\ \A g \in Fetchers \ {f} : fetch'[g] = fetch[g]
  BY FetchChanged DEF Settle
<1>2. /\ fetch'[f].stage = "none" /\ fetch'[f].cookies = 0 /\ fetch'[f].set = 0
  BY <1>1, Records
<1>3. /\ jar \in 0..MaxPairs /\ issued \in Nat /\ jar <= issued
      /\ signedOut \in Int /\ signedOut <= issued
      /\ lost \in BOOLEAN /\ overtaken \in BOOLEAN
  BY DEF TypeOK, Pairs, Delivered
<1>4. \A g \in Fetchers : fetch[g].cookies \in Int /\ fetch[g].cookies <= issued
                           /\ fetch[g].set \in -1..MaxPairs /\ fetch[g].set <= issued
  BY BrowserSessionAssumption DEF BrowserSessionAssumption, TypeOK, Delivered, FetchOK, Clear
<1>5. /\ jar' \in 0..MaxPairs /\ jar' <= issued
      /\ jar' \in {jar, 0, set} /\ (jar' = set => jar' = jar \/ jar' = 0 \/ set > 0)
  <2>1. jar' = jar \/ jar' = IF set = -1 THEN 0 ELSE IF set = 0 THEN jar ELSE set
    BY DEF StoreCookies, Clear
  <2>2. set \in -1..MaxPairs /\ set <= issued
    BY <1>4
  <2> HIDE DEF set
  <2> QED
    BY <1>3, <2>1, <2>2, BrowserSessionAssumption DEF BrowserSessionAssumption
<1>9. /\ lost' \in BOOLEAN /\ (~lost' => ~lost)
      /\ overtaken' \in BOOLEAN /\ (~overtaken' => ~overtaken)
  <2>1. CASE StoreCookies(f) /\ UNCHANGED lost
    <3>1. lost' = lost
      BY <2>1
    <3>2. overtaken' = (overtaken \/ late)
      BY <2>1 DEF StoreCookies
    <3> HIDE DEF set
    <3> QED
      BY <1>3, <3>1, <3>2, Zenon
  <2>2. CASE lost' = (lost \/ fetch[f].set > 0) /\ UNCHANGED <<jar, overtaken>>
    <3>1. overtaken' = overtaken /\ lost' = (lost \/ fetch[f].set > 0)
      BY <2>2
    <3> QED
      BY <1>3, <3>1, Zenon
  <2> QED
    BY <2>1, <2>2
<1>6. \A g \in Fetchers : FetchOK(g)'
  <2>1. FetchOK(f)'
    BY <1>1, <1>2, <1>3 DEF FetchOK, Clear, NoFetch, serverVars
  <2>2. \A g \in Fetchers \ {f} : FetchOK(g)'
    BY <1>1 DEF FetchOK, Delivered, serverVars
  <2> QED
    BY <2>1, <2>2
<1>7. ASSUME NEW g \in Fetchers, OnTheWay(g)' PROVE Unknown(g)'
  <2>1. g # f /\ fetch'[g] = fetch[g]
    BY <1>1, <1>2, <1>7 DEF OnTheWay
  <2>2. OnTheWay(g) /\ Unknown(g)
    BY <1>7, <2>1 DEF OnTheWay, Delivered
  <2>3. fetch[g].set # 0
    BY <1>4, <2>2 DEF OnTheWay
  <2>4. fetch[g].set # jar /\ fetch[g].set # set
    BY <2>1, <2>2 DEF Unknown
  <2> QED
    BY <1>1, <1>2, <1>5, <2>1, <2>2, <2>3, <2>4 DEF Unknown, serverVars
<1>8. SessionKept'
  <2> SUFFICES ASSUME live # {}, ~lost', ~overtaken'
               PROVE  \/ jar' \in live
                      \/ \E g \in Fetchers : fetch'[g].stage = "coming" /\ fetch'[g].set \in live
    BY DEF SessionKept, serverVars
  <2>1. live \subseteq 1..issued
    BY DEF TypeOK
  <2>2. ~lost /\ ~overtaken
    BY <1>9
  <2>3. CASE StoreCookies(f) /\ set > 0
    <3>1. jar' = set
      BY <1>4, <2>3 DEF StoreCookies, Clear
    <3>4. ~(0 < set /\ set <= signedOut)
      <4>1. overtaken' = (overtaken \/ late)
        BY <2>3 DEF StoreCookies
      <4> HIDE DEF set
      <4> QED
        BY <4>1, Zenon
    <3>5. set > signedOut
      BY <1>3, <1>4, <2>3, <3>4
    <3>2. fetch[f].stage = "coming"
      BY <1>4, <2>3, FetchValues DEF FetchType, Delivered, FetchOK, NoFetch
    <3>3. Unknown(f)
      BY <2>3, <3>2 DEF Delivered, OnTheWay
    <3> QED
      BY <1>3, <1>4, <3>1, <3>3, <3>5 DEF Unknown
  <2>4. CASE StoreCookies(f) /\ ~(set > 0)
    <3>1. set # Clear
      <4>1. CASE f \in Pages
        BY <4>1 DEF Delivered, FetchOK
      <4>2. CASE f \in Calls
        <5>1. overtaken' = (overtaken \/ late)
          BY <2>4 DEF StoreCookies
        <5> HIDE DEF set
        <5> QED
          BY <4>2, <5>1, Zenon
      <4> QED
        BY <4>1, <4>2 DEF Fetchers
    <3>2. set = 0 /\ jar' = jar
      BY <1>4, <2>4, <3>1 DEF StoreCookies, Clear
    <3>3. set \notin live
      BY <2>1, <3>2
    <3> QED
      BY <1>1, <2>2, <3>2, <3>3 DEF SessionKept
  <2>5. CASE lost' = (lost \/ set > 0) /\ UNCHANGED <<jar, overtaken>>
    <3>1. ~(set > 0)
      BY <2>5
    <3>2. set \notin live
      BY <1>3, <1>4, <2>1, <3>1
    <3> QED
      BY <1>1, <2>2, <2>5, <3>2 DEF SessionKept
  <2> QED
    BY <2>3, <2>4, <2>5
<1> HIDE DEF set
<1> QED
  BY <1>3, <1>5, <1>6, <1>7, <1>8, <1>9 DEF Delivered, serverVars

-----------------------------------------------------------------------------
(* The steps *)

\* A pair more is within the bound.
LEMMA OneMore ==
  ASSUME NEW n \in 1..MaxPairs, n < MaxPairs, NEW pairs \in SUBSET (1..n), NEW given
  PROVE  /\ n + 1 \in Pairs /\ n + 1 \in Clear..MaxPairs
         /\ pairs \cup {n + 1} \subseteq 1..(n + 1)
         /\ (pairs \ {given}) \cup {n + 1} \subseteq 1..(n + 1)
<1>1. MaxPairs \in Nat /\ n \in Nat /\ 1 <= n /\ n + 1 <= MaxPairs
  BY BrowserSessionAssumption DEF BrowserSessionAssumption
<1>2. n + 1 \in 1..MaxPairs /\ n + 1 \in -1..MaxPairs /\ n + 1 \in 1..(n + 1)
  BY <1>1
<1>3. \A pair \in pairs : pair \in 1..(n + 1)
  BY <1>1
<1> QED
  BY <1>2, <1>3 DEF Pairs, Clear

LEMMA InitInv == Init => IndInv
<1> USE BrowserSessionAssumption DEF BrowserSessionAssumption
<1> SUFFICES ASSUME Init PROVE IndInv
  OBVIOUS
<1>1. /\ issued = 1 /\ live = {1} /\ valid = {1} /\ signedOut = 0 /\ jar = 1
      /\ at = [c \in Calls |-> "idle"] /\ kind = [c \in Calls |-> "any"]
      /\ handled = [c \in Calls |-> 0] /\ lost = FALSE /\ overtaken = FALSE
      /\ \A f \in Fetchers : fetch[f] = NoFetch
  BY DEF Init
<1>2. fetch \in [Fetchers -> FetchType]
  <2>1. NoFetch \in FetchType
    BY DEF NoFetch, FetchType, Clear
  <2> QED
    BY <2>1 DEF Init
<1>3. TypeOK
  <2>1. \A c \in Calls : ~(fetch[c].stage # "none") /\ at[c] = "idle"
    BY <1>1, Records DEF Fetchers
  <2>2. /\ issued \in Pairs /\ signedOut \in 0..MaxPairs /\ jar \in 0..MaxPairs
        /\ live \subseteq 1..issued /\ valid \subseteq 1..issued
    <3>1. 1 \in 1..MaxPairs /\ 1 \in 0..MaxPairs /\ 0 \in 0..MaxPairs /\ {1} \subseteq 1..1
      OBVIOUS
    <3> QED
      BY <1>1, <3>1 DEF Pairs
  <2>4. lost \in BOOLEAN /\ overtaken \in BOOLEAN
    BY <1>1
  <2>3. /\ kind \in [Calls -> {"any", "login", "logout"}]
        /\ at \in [Calls -> {"idle", "first", "refused", "awaiting", "renewed", "again"}]
        /\ handled \in [Calls -> 0..2]
    BY <1>1
  <2> QED
    BY <1>2, <2>1, <2>2, <2>3, <2>4 DEF TypeOK, FetchType
<1>4. Delivered
  BY <1>1, Records DEF Delivered, FetchOK, OnTheWay, Clear
<1>5. DoneOnce
  BY <1>1, Records DEF DoneOnce, Fetchers
<1>6. SessionKept
  BY <1>1 DEF SessionKept
<1> QED
  BY <1>3, <1>4, <1>5, <1>6 DEF IndInv

\* A page sends a call, or sends it again.
LEMMA SentStep ==
  ASSUME IndInv, NEW c \in Calls, (\E k \in Kinds[c] : Start(c, k)) \/ Again(c)
  PROVE  IndInv'
<1> USE BrowserSessionAssumption DEF BrowserSessionAssumption
<1>1. TypeOK /\ Delivered /\ DoneOnce /\ SessionKept /\ c \in Fetchers /\ c \notin Pages
  BY DEF IndInv, Fetchers
<1>2. /\ at[c] \in {"idle", "renewed"}
      /\ at' = [at EXCEPT ![c] = "first"] \/ at' = [at EXCEPT ![c] = "again"]
      /\ fetch' = [fetch EXCEPT ![c] = Going(jar)]
      /\ UNCHANGED <<serverVars, jar, handled, lost, overtaken>>
  BY DEF Start, Again
<1>3. kind' \in [Calls -> {"any", "login", "logout"}]
  BY <1>1 DEF Start, Again, TypeOK
<1>4. fetch[c].stage = "none"
  BY <1>1, <1>2 DEF TypeOK
<1>5. Delivered' /\ SessionKept'
  BY <1>1, <1>2, <1>4, SendKeeps
<1>6. /\ at' \in [Calls -> {"idle", "first", "refused", "awaiting", "renewed", "again"}]
      /\ at'[c] \in {"first", "again"}
      /\ \A d \in Calls \ {c} : at'[d] = at[d]
  BY <1>1, <1>2 DEF TypeOK
<1>7. /\ Going(jar) \in FetchType /\ Going(jar).stage = "going"
      /\ jar' \in 0..MaxPairs /\ lost' \in BOOLEAN /\ overtaken' \in BOOLEAN
  BY <1>1, <1>2, FetchValues, Records DEF TypeOK
<1>8. \A d \in Calls : at'[d] = "awaiting" =>
        (at[d] = "awaiting" /\ Page[d] # c) \/ fetch'[Page[d]].stage # "none"
  BY <1>1, <1>6
<1>9. \A d \in Calls \ {c} : at'[d] # at[d] => {at[d], at'[d]} \cap {"first", "again"} = {}
  BY <1>6
<1>10. /\ Going(jar).stage # "coming" /\ Going(jar).stage # "none" /\ fetch[c].stage # "coming"
       /\ UNCHANGED serverVars /\ handled' = handled
       /\ fetch' = [fetch EXCEPT ![c] = Going(jar)]
       /\ c \in Calls => (Going(jar).stage # "none" <=> at'[c] \in {"first", "again"})
  BY <1>2, <1>4, <1>6, <1>7
<1>11. TypeOK' /\ DoneOnce'
  <2>1. fetch[c].stage = "coming" => ~fetch[c].ok \/ c \in Pages
    BY <1>10
  <2> HIDE DEF IndInv, BrowserSessionAssumption
  <2> QED
    BY <1>1, <1>3, <1>6, <1>7, <1>8, <1>9, <1>10, <2>1, MoveTypes
<1> QED
  BY <1>5, <1>11 DEF IndInv

\* A refused call waits for the renewal of its page, and begins it when it must.
LEMMA AwaitStep ==
  ASSUME IndInv, NEW c \in Calls, AwaitRefresh(c)
  PROVE  IndInv'
<1> USE BrowserSessionAssumption DEF BrowserSessionAssumption
<1>1. TypeOK /\ Delivered /\ DoneOnce /\ SessionKept
  BY DEF IndInv
<1> DEFINE p == Page[c]
<1>2. p \in Pages /\ p \in Fetchers /\ p \notin Calls
  BY DEF Fetchers
<1>3. /\ at[c] = "refused" /\ at' = [at EXCEPT ![c] = "awaiting"]
      /\ UNCHANGED <<serverVars, jar, kind, handled, lost, overtaken>>
  BY DEF AwaitRefresh
<1>4. /\ at' \in [Calls -> {"idle", "first", "refused", "awaiting", "renewed", "again"}]
      /\ at'[c] = "awaiting"
      /\ \A d \in Calls \ {c} : at'[d] = at[d]
  BY <1>1, <1>3 DEF TypeOK
<1> HIDE DEF p
<1>5. CASE fetch[p] = NoFetch
  <2>1. fetch' = [fetch EXCEPT ![p] = Going(jar)]
    BY <1>5 DEF AwaitRefresh, p
  <2>2. fetch[p].stage = "none"
    BY <1>5, Records
  <2>3. Delivered' /\ SessionKept'
    BY <1>1, <1>2, <1>3, <2>1, <2>2, SendKeeps
  <2>4. fetch'[p].stage = "going" /\ \A g \in Fetchers \ {p} : fetch'[g] = fetch[g]
    <3>1. fetch'[p] = Going(jar) /\ \A g \in Fetchers \ {p} : fetch'[g] = fetch[g]
      BY <1>1, <1>2, <2>1, FetchChanged
    <3> QED
      BY <3>1, Records
  <2>5. \A d \in Calls : at'[d] = "awaiting" =>
          (at[d] = "awaiting" /\ Page[d] # p) \/ fetch'[Page[d]].stage # "none"
    BY <1>4, <2>4 DEF p
  <2>6. /\ Going(jar) \in FetchType /\ Going(jar).stage = "going"
        /\ jar' \in 0..MaxPairs /\ lost' \in BOOLEAN /\ overtaken' \in BOOLEAN
        /\ kind' \in [Calls -> {"any", "login", "logout"}]
    BY <1>1, <1>3, FetchValues, Records DEF TypeOK
  <2>7. \A d \in Calls \ {p} : at'[d] # at[d] => {at[d], at'[d]} \cap {"first", "again"} = {}
    BY <1>3, <1>4
  <2>8. /\ Going(jar).stage # "coming" /\ fetch[p].stage # "coming"
        /\ UNCHANGED serverVars /\ handled' = handled
    BY <1>3, <2>2, <2>6
  <2>9. TypeOK' /\ DoneOnce'
    BY <1>1, <1>2, <1>4, <2>1, <2>5, <2>6, <2>7, <2>8, MoveTypes
  <2> QED
    BY <2>3, <2>9 DEF IndInv
<1>6. CASE fetch[p] # NoFetch
  <2>1. fetch' = fetch
    BY <1>6 DEF AwaitRefresh, p
  <2>2. fetch[p].stage # "none"
    BY <1>1, <1>2, <1>6 DEF Delivered, FetchOK
  <2>3. \A d \in Calls : fetch'[d].stage # "none" <=> at'[d] \in {"first", "again"}
    BY <1>1, <1>3, <1>4, <2>1 DEF TypeOK
  <2>4. \A q \in Pages : fetch'[q].stage = "none" =>
          \A d \in Calls : Page[d] = q => at'[d] # "awaiting"
    BY <1>1, <1>4, <2>1, <2>2 DEF TypeOK, p
  <2>5. TypeOK'
    BY <1>1, <1>3, <1>4, <2>1, <2>3, <2>4 DEF TypeOK, serverVars, Pairs
  <2>6. Delivered' /\ DoneOnce' /\ SessionKept'
    BY <1>1, <1>3, <2>1
       DEF Delivered, DoneOnce, SessionKept, FetchOK, OnTheWay, Unknown, serverVars
  <2> QED
    BY <2>5, <2>6 DEF IndInv
<1> QED
  BY <1>5, <1>6

\* The server answers a call.
LEMMA ServedStep ==
  ASSUME IndInv, NEW c \in Calls,
         ServeLogin(c) \/ ServeAccepted(c) \/ ServeRenewed(c) \/ ServeRefused(c)
  PROVE  IndInv'
<1> USE BrowserSessionAssumption DEF BrowserSessionAssumption
<1>1. /\ TypeOK /\ Delivered /\ DoneOnce /\ SessionKept /\ c \in Fetchers
      /\ fetch[c].stage = "going" /\ ServerOnly
  BY DEF IndInv, Fetchers, ServeLogin, ServeAccepted, ServeRenewed, ServeRefused
<1>2. UNCHANGED <<jar, lost, overtaken>>
  BY <1>1 DEF ServerOnly
<1>3. /\ issued \in 1..MaxPairs /\ signedOut \in 0..MaxPairs
      /\ live \subseteq 1..issued /\ valid \subseteq 1..issued
  BY <1>1 DEF TypeOK, Pairs
<1>4. 0 \in Clear..MaxPairs /\ Clear \in Clear..MaxPairs
      /\ (issued < MaxPairs => issued + 1 \in Clear..MaxPairs /\ issued + 1 \in Pairs)
  BY <1>3 DEF Clear, Pairs
<1>5. ASSUME Handle(c), Answer(c, TRUE, issued + 1), issued < MaxPairs,
             issued' = issued + 1, valid' = valid \cup {issued + 1}, signedOut' = signedOut,
             NEW given \in {0, fetch[c].cookies}, live' = (live \ {given}) \cup {issued + 1}
      PROVE  IndInv'
  <2>1. Delivered' /\ SessionKept'
    BY <1>1, <1>2, <1>5, NewPairKeeps
  <2>2. TypeOK' /\ DoneOnce'
    <3>1. live' \subseteq 1..issued' /\ valid' \subseteq 1..issued' /\ issued' \in Pairs
      BY <1>3, <1>5, OneMore
    <3> QED
      BY <1>1, <1>3, <1>4, <1>5, <3>1, AnswerTypes
  <2> QED
    BY <2>1, <2>2 DEF IndInv
<1>6. ASSUME Handle(c), Answer(c, TRUE, Clear), issued' \in {issued, issued + 1},
             issued' \in Pairs, live' = {}, valid' = {}, signedOut' = issued'
      PROVE  IndInv'
  <2>1. Delivered' /\ SessionKept'
    BY <1>1, <1>2, <1>6, SignOutKeeps
  <2>2. signedOut' \in 0..MaxPairs
    BY <1>6 DEF Pairs
  <2>3. TypeOK' /\ DoneOnce'
    BY <1>1, <1>4, <1>6, <2>2, AnswerTypes
  <2> QED
    BY <2>1, <2>3 DEF IndInv
<1>7. ASSUME NEW ok \in BOOLEAN, Answer(c, ok, 0), UNCHANGED serverVars,
             \/ ok /\ Handle(c)
             \/ ~ok /\ handled' = handled
      PROVE  IndInv'
  <2>1. Delivered' /\ SessionKept'
    BY <1>1, <1>2, <1>7, AnswerKeeps DEF serverVars
  <2>2. TypeOK' /\ DoneOnce'
    BY <1>1, <1>3, <1>4, <1>7, AnswerTypes DEF serverVars, Pairs
  <2> QED
    BY <2>1, <2>2 DEF IndInv
<1>8. CASE ServeLogin(c)
  <2>1. live' = (live \ {0}) \cup {issued + 1}
    BY <1>3, <1>8 DEF ServeLogin
  <2> QED
    BY <1>5, <1>8, <2>1 DEF ServeLogin
<1>9. CASE ServeAccepted(c)
  <2>1. CASE kind[c] = "logout"
    BY <1>3, <1>6, <1>9, <2>1 DEF ServeAccepted, SignOut, Pairs
  <2>2. CASE kind[c] # "logout"
    BY <1>7, <1>9, <2>2 DEF ServeAccepted
  <2> QED
    BY <2>1, <2>2
<1>10. CASE ServeRenewed(c)
  <2>1. CASE kind[c] = "logout"
    BY <1>4, <1>6, <1>10, <2>1 DEF ServeRenewed
  <2>2. CASE kind[c] # "logout"
    BY <1>5, <1>10, <2>2 DEF ServeRenewed, Rotate
  <2> QED
    BY <2>1, <2>2
<1>11. CASE ServeRefused(c)
  BY <1>7, <1>11 DEF ServeRefused
<1> QED
  BY <1>8, <1>9, <1>10, <1>11

\* The server answers a renewal.
LEMMA RefreshServedStep ==
  ASSUME IndInv, NEW p \in Pages, ServeRefresh(p) \/ RefuseRefresh(p)
  PROVE  IndInv'
<1> USE BrowserSessionAssumption DEF BrowserSessionAssumption
<1>1. /\ TypeOK /\ Delivered /\ DoneOnce /\ SessionKept /\ p \in Fetchers
      /\ fetch[p].stage = "going" /\ ServerOnly /\ handled' = handled
  BY DEF IndInv, Fetchers, ServeRefresh, RefuseRefresh
<1>2. UNCHANGED <<jar, lost, overtaken>>
  BY <1>1 DEF ServerOnly
<1>3. /\ issued \in 1..MaxPairs /\ signedOut \in 0..MaxPairs
      /\ live \subseteq 1..issued /\ valid \subseteq 1..issued
  BY <1>1 DEF TypeOK, Pairs
<1>4. CASE ServeRefresh(p)
  <2>1. /\ issued < MaxPairs /\ issued' = issued + 1 /\ Answer(p, TRUE, issued + 1)
        /\ live' = (live \ {fetch[p].cookies}) \cup {issued + 1}
        /\ valid' = valid \cup {issued + 1} /\ signedOut' = signedOut
    BY <1>4 DEF ServeRefresh, Rotate
  <2>2. Delivered' /\ SessionKept'
    BY <1>1, <1>2, <2>1, NewPairKeeps
  <2>3. /\ live' \subseteq 1..issued' /\ valid' \subseteq 1..issued' /\ issued' \in Pairs
        /\ issued + 1 \in Clear..MaxPairs
    BY <1>3, <2>1, OneMore
  <2>4. TypeOK' /\ DoneOnce'
    BY <1>1, <1>3, <2>1, <2>3, AnswerTypes
  <2> QED
    BY <2>2, <2>4 DEF IndInv
<1>5. CASE RefuseRefresh(p)
  <2>1. Answer(p, FALSE, 0) /\ UNCHANGED serverVars
    BY <1>5 DEF RefuseRefresh
  <2>2. Delivered' /\ SessionKept'
    BY <1>1, <1>2, <2>1, AnswerKeeps DEF serverVars
  <2>3. 0 \in Clear..MaxPairs
    BY DEF Clear
  <2>4. TypeOK' /\ DoneOnce'
    BY <1>1, <1>3, <2>1, <2>3, AnswerTypes DEF serverVars, Pairs
  <2> QED
    BY <2>2, <2>4 DEF IndInv
<1> QED
  BY <1>4, <1>5

\* An answer arrives, or the connection breaks.
LEMMA EndedStep ==
  ASSUME IndInv, NEW f \in Fetchers,
         \/ f \in Calls /\ (CallAnswered(f) \/ CallFails(f))
         \/ f \in Pages /\ (RefreshAnswered(f) \/ RefreshFails(f))
  PROVE  IndInv'
<1> USE BrowserSessionAssumption DEF BrowserSessionAssumption
<1>1. TypeOK /\ Delivered /\ DoneOnce /\ SessionKept
  BY DEF IndInv
<1>2. /\ Settle(f) /\ UNCHANGED serverVars
      /\ \/ StoreCookies(f) /\ UNCHANGED lost
         \/ lost' = (lost \/ fetch[f].set > 0) /\ UNCHANGED <<jar, overtaken>>
  BY DEF CallAnswered, CallFails, RefreshAnswered, RefreshFails, Broken
<1>3. /\ Delivered' /\ SessionKept'
      /\ jar' \in 0..MaxPairs /\ lost' \in BOOLEAN /\ overtaken' \in BOOLEAN
  BY <1>1, <1>2, StoredKeeps
<1>4. ASSUME NEW calls \in SUBSET Calls, Return(calls),
             calls = IF f \in Calls THEN {f} ELSE Awaiting(f)
      PROVE  IndInv'
  <2>1. TypeOK' /\ DoneOnce'
    BY <1>1, <1>2, <1>3, <1>4, EndTypes
  <2> QED
    BY <1>3, <2>1 DEF IndInv
<1>5. ASSUME f \in Calls, at' = [at EXCEPT ![f] = "refused"], UNCHANGED <<kind, handled>>,
             fetch[f].stage = "coming", ~fetch[f].ok
      PROVE  IndInv'
  <2>1. /\ at' \in [Calls -> {"idle", "first", "refused", "awaiting", "renewed", "again"}]
        /\ at'[f] = "refused" /\ \A d \in Calls \ {f} : at'[d] = at[d]
        /\ kind' \in [Calls -> {"any", "login", "logout"}]
    BY <1>1, <1>5 DEF TypeOK
  <2>2. \A d \in Calls : at'[d] = "awaiting" => at[d] = "awaiting" /\ Page[d] # f
    BY <1>5, <2>1
  <2>3. NoFetch \in FetchType /\ NoFetch.stage = "none" /\ fetch' = [fetch EXCEPT ![f] = NoFetch]
    BY <1>1, <1>2, FetchValues, Records DEF Settle
  <2>4. TypeOK' /\ DoneOnce'
    BY <1>1, <1>2, <1>3, <1>5, <2>1, <2>2, <2>3, MoveTypes
  <2> QED
    BY <1>3, <2>4 DEF IndInv
<1>6. ASSUME f \in Pages, UNCHANGED <<kind, handled>>,
             at' = [c \in Calls |-> IF c \in Awaiting(f) THEN "renewed" ELSE at[c]]
      PROVE  IndInv'
  <2>1. /\ at' \in [Calls -> {"idle", "first", "refused", "awaiting", "renewed", "again"}]
        /\ kind' \in [Calls -> {"any", "login", "logout"}]
    BY <1>1, <1>6 DEF TypeOK
  <2>2. \A d \in Calls : at'[d] = "awaiting" => at[d] = "awaiting" /\ Page[d] # f
    BY <1>6 DEF Awaiting
  <2>3. \A d \in Calls \ {f} : at'[d] # at[d] => {at[d], at'[d]} \cap {"first", "again"} = {}
    BY <1>6 DEF Awaiting
  <2>4. NoFetch \in FetchType /\ NoFetch.stage = "none" /\ fetch' = [fetch EXCEPT ![f] = NoFetch]
    BY <1>1, <1>2, FetchValues, Records DEF Settle
  <2>5. TypeOK' /\ DoneOnce'
    BY <1>1, <1>2, <1>3, <1>6, <2>1, <2>2, <2>3, <2>4, MoveTypes
  <2> QED
    BY <1>3, <2>5 DEF IndInv
<1>7. CASE f \in Calls /\ (CallAnswered(f) \/ CallFails(f))
  <2>1. f \notin Pages /\ {f} \in SUBSET Calls
    BY <1>7
  <2>2. Return({f}) \/ (at' = [at EXCEPT ![f] = "refused"] /\ UNCHANGED <<kind, handled>>
                        /\ fetch[f].stage = "coming" /\ ~fetch[f].ok)
    BY <1>7 DEF CallAnswered, CallFails
  <2> QED
    BY <1>4, <1>5, <1>7, <2>1, <2>2
<1>8. CASE f \in Pages /\ (RefreshAnswered(f) \/ RefreshFails(f))
  <2>1. f \notin Calls /\ Awaiting(f) \in SUBSET Calls
    BY <1>8 DEF Awaiting
  <2>2. Return(Awaiting(f))
        \/ (at' = [c \in Calls |-> IF c \in Awaiting(f) THEN "renewed" ELSE at[c]]
            /\ UNCHANGED <<kind, handled>>)
    BY <1>8 DEF RefreshAnswered, RefreshFails
  <2> QED
    BY <1>4, <1>6, <1>8, <2>1, <2>2
<1> QED
  BY <1>7, <1>8

LEMMA InvStep == IndInv /\ [Next]_vars => IndInv'
<1> SUFFICES ASSUME IndInv, [Next]_vars PROVE IndInv'
  OBVIOUS
<1>1. ASSUME NEW c \in Calls, CallStep(c) PROVE IndInv'
  BY <1>1, SentStep, AwaitStep, ServedStep, EndedStep DEF CallStep, Fetchers
<1>2. ASSUME NEW c \in Calls, NEW k \in Kinds[c], Start(c, k) PROVE IndInv'
  BY <1>2, SentStep
<1>3. ASSUME NEW p \in Pages, PageStep(p) PROVE IndInv'
  BY <1>3, RefreshServedStep, EndedStep DEF PageStep, Fetchers
<1>4. CASE ExpireAccess
  <2>1. /\ UNCHANGED <<issued, live, signedOut, handled, fetch, jar, kind, at, lost, overtaken>>
        /\ valid' \subseteq valid
    BY <1>4 DEF ExpireAccess, ServerOnly
  <2> QED
    BY <2>1 DEF IndInv, TypeOK, Pairs, Delivered, DoneOnce, SessionKept, FetchOK, OnTheWay, Unknown
<1>5. CASE UNCHANGED vars
  BY <1>5 DEF vars, serverVars, IndInv, TypeOK, Pairs, Delivered, DoneOnce, SessionKept,
              FetchOK, OnTheWay, Unknown
<1> QED
  BY <1>1, <1>2, <1>3, <1>4, <1>5 DEF Next

LEMMA Inductive == Spec => []IndInv
<1> QED
  BY InitInv, InvStep, PTL DEF Spec

-----------------------------------------------------------------------------
(* What is left of a call *)

LEMMA LeftValues ==
  /\ StagesLeft["idle"] = 0 /\ StagesLeft["again"] = 1 /\ StagesLeft["renewed"] = 2
  /\ StagesLeft["awaiting"] = 3 /\ StagesLeft["refused"] = 4 /\ StagesLeft["first"] = 5
  /\ WireLeft["none"] = 0 /\ WireLeft["coming"] = 1 /\ WireLeft["going"] = 2
  BY DEF StagesLeft, WireLeft

\* Where a call and what it waits for can be.
LEMMA CallTypes ==
  ASSUME TypeOK, NEW c \in Calls
  PROVE  /\ at[c] \in {"idle", "first", "refused", "awaiting", "renewed", "again"}
         /\ Awaited(c) \in Fetchers /\ (at[c] # "awaiting" => Awaited(c) = c)
         /\ fetch[Awaited(c)].stage \in {"none", "going", "coming"}
         /\ at[c] \in {"first", "awaiting", "again"} => fetch[Awaited(c)].stage # "none"
         /\ at[c] \notin {"first", "awaiting", "again"} => fetch[Awaited(c)].stage = "none"
         /\ Left(c) = 3 * StagesLeft[at[c]] + WireLeft[fetch[Awaited(c)].stage]
<1> USE BrowserSessionAssumption DEF BrowserSessionAssumption
<1>1. Awaited(c) \in Fetchers /\ (at[c] # "awaiting" => Awaited(c) = c)
  BY DEF Awaited, Fetchers
<1>2. fetch[Awaited(c)] \in FetchType
  BY <1>1, FetchValues
<1>3. fetch[Awaited(c)].stage \in {"none", "going", "coming"}
  BY <1>2 DEF FetchType
<1>4. CASE at[c] = "awaiting"
  BY <1>1, <1>3, <1>4 DEF TypeOK, Left, Awaited
<1>5. CASE at[c] # "awaiting"
  BY <1>1, <1>3, <1>5 DEF TypeOK, Left
<1> QED
  BY <1>4, <1>5

\* A call that stays where it is, with what it waits for.
LEMMA CallStays ==
  ASSUME NEW c \in Calls, at'[c] = at[c], fetch'[Awaited(c)].stage = fetch[Awaited(c)].stage
  PROVE  Left(c)' = Left(c)
<1>1. Awaited(c)' = Awaited(c)
  BY DEF Awaited
<1> QED
  BY <1>1 DEF Left

\* A call that goes to a place where nothing is awaited.
LEMMA CallGoes ==
  ASSUME NEW c \in Calls, NEW stage \in {"idle", "refused", "renewed"}, at'[c] = stage,
         fetch'[c].stage = "none"
  PROVE  Left(c)' = 3 * StagesLeft[stage]
<1>1. Awaited(c)' = c
  BY DEF Awaited
<1>2. Left(c)' = 3 * StagesLeft[stage] + WireLeft["none"]
  BY <1>1 DEF Left
<1>3. StagesLeft[stage] \in 0..5
  BY LeftValues
<1> QED
  BY <1>2, <1>3, LeftValues

\* The server answers: what waits for it is one step nearer, and nothing else moves.
LEMMA AnswerCounts ==
  ASSUME TypeOK, NEW f \in Fetchers, fetch[f].stage = "going",
         NEW ok, NEW set, Answer(f, ok, set), at' = at, NEW c \in Calls
  PROVE  IF Awaited(c) = f THEN Left(c)' < Left(c) ELSE Left(c)' = Left(c)
<1> DEFINE answer == [stage |-> "coming", cookies |-> 0, ok |-> ok, set |-> set]
<1>1. fetch' = [fetch EXCEPT ![f] = answer] /\ answer.stage = "coming"
  BY DEF Answer
<1> HIDE DEF answer
<1>2. fetch'[f].stage = "coming" /\ \A g \in Fetchers \ {f} : fetch'[g] = fetch[g]
  BY <1>1, FetchChanged
<1>3. CASE Awaited(c) = f
  <2>1. Awaited(c)' = f
    BY <1>3 DEF Awaited
  <2>2. Left(c)' = 3 * StagesLeft[at[c]] + 1 /\ Left(c) = 3 * StagesLeft[at[c]] + 2
    BY <1>2, <1>3, <2>1, LeftValues DEF Left
  <2>3. StagesLeft[at[c]] \in 0..5
    BY CallTypes, LeftValues
  <2> QED
    BY <1>3, <2>2, <2>3
<1>4. CASE Awaited(c) # f
  BY <1>2, <1>4, CallTypes, CallStays
<1> QED
  BY <1>3, <1>4

\* AwaitRefresh: the call waits from now on, and a renewal that others already wait
\* for is the same as before.
LEMMA AwaitCounts ==
  ASSUME TypeOK, TypeOK', NEW d \in Calls, AwaitRefresh(d), NEW c \in Calls
  PROVE  IF c = d THEN Left(c)' < Left(c) ELSE Left(c)' = Left(c)
<1> USE BrowserSessionAssumption DEF BrowserSessionAssumption
<1>1. /\ at[d] = "refused" /\ at'[d] = "awaiting"
      /\ \A e \in Calls \ {d} : at'[e] = at[e]
  BY DEF AwaitRefresh, TypeOK
<1>2. CASE c = d
  <2>1. Awaited(c)' = Page[c] /\ Page[c] \in Pages /\ Page[c] \in Fetchers
    BY <1>1, <1>2 DEF Awaited, Fetchers
  <2>2. fetch'[Page[c]].stage \in {"none", "going", "coming"}
    BY <2>1 DEF TypeOK
  <2>3. Left(c)' = 9 + WireLeft[fetch'[Page[c]].stage]
    BY <1>1, <1>2, <2>1, LeftValues DEF Left
  <2>4. Left(c)' <= 11 /\ Left(c)' \in Nat
    BY <2>2, <2>3, LeftValues
  <2>5. Left(c) = 12
    BY <1>1, <1>2, CallTypes, LeftValues
  <2> QED
    BY <1>2, <2>4, <2>5
<1>3. CASE c # d
  <2>1. CASE fetch[Page[d]] = NoFetch
    <3>1. /\ fetch' = [fetch EXCEPT ![Page[d]] = Going(jar)] /\ Page[d] \in Fetchers
          /\ fetch[Page[d]].stage = "none"
      BY <2>1, Records DEF AwaitRefresh, Fetchers
    <3>2. \A g \in Fetchers \ {Page[d]} : fetch'[g] = fetch[g]
      BY <3>1, FetchChanged
    <3>3. Awaited(c) # Page[d]
      BY <3>1 DEF TypeOK, Awaited
    <3> QED
      BY <1>1, <1>3, <3>2, <3>3, CallTypes, CallStays
  <2>2. CASE fetch[Page[d]] # NoFetch
    BY <1>1, <1>3, <2>2, CallStays DEF AwaitRefresh
  <2> QED
    BY <1>3, <2>1, <2>2
<1> QED
  BY <1>2, <1>3

\* A call is sent, for the first time or again: it was idle, or its renewal is done.
LEMMA SendCounts ==
  ASSUME TypeOK, NEW d \in Calls, at[d] \in {"idle", "renewed"},
         NEW stage \in {"first", "again"}, at' = [at EXCEPT ![d] = stage],
         fetch' = [fetch EXCEPT ![d] = Going(jar)], NEW c \in Calls
  PROVE  /\ c # d => Left(c)' = Left(c)
         /\ c = d /\ at[d] = "renewed" /\ stage = "again" => Left(c)' < Left(c)
<1> USE BrowserSessionAssumption DEF BrowserSessionAssumption
<1>1. /\ at'[d] = stage /\ \A e \in Calls \ {d} : at'[e] = at[e]
      /\ d \in Fetchers /\ d \notin Pages
  BY DEF TypeOK, Fetchers
<1>2. fetch'[d].stage = "going" /\ \A g \in Fetchers \ {d} : fetch'[g] = fetch[g]
  <2>1. fetch'[d] = Going(jar) /\ \A g \in Fetchers \ {d} : fetch'[g] = fetch[g]
    BY <1>1, FetchChanged
  <2> QED
    BY <2>1, Records
<1>3. ASSUME c # d PROVE Left(c)' = Left(c)
  <2>1. Awaited(c) # d
    BY <1>1, <1>3 DEF Awaited
  <2> QED
    BY <1>1, <1>2, <1>3, <2>1, CallTypes, CallStays
<1>4. ASSUME c = d, at[d] = "renewed", stage = "again" PROVE Left(c)' < Left(c)
  <2>1. Awaited(c)' = c
    BY <1>1, <1>4 DEF Awaited
  <2>2. Left(c)' = 5
    BY <1>1, <1>2, <1>4, <2>1, LeftValues DEF Left
  <2>3. Left(c) = 6
    BY <1>4, CallTypes, LeftValues
  <2> QED
    BY <2>2, <2>3
<1> QED
  BY <1>3, <1>4

\* The answer of a call arrives or its connection breaks: it returns, or it was
\* refused for the first time.
LEMMA CallEndCounts ==
  ASSUME TypeOK, NEW d \in Calls, CallAnswered(d) \/ CallFails(d), NEW c \in Calls
  PROVE  IF c = d THEN Left(c)' < Left(c) ELSE Left(c)' = Left(c)
<1> USE BrowserSessionAssumption DEF BrowserSessionAssumption
<1>1. d \in Fetchers /\ d \notin Pages /\ fetch[d].stage # "none" /\ Settle(d)
  BY DEF CallAnswered, CallFails, Broken, Fetchers
<1>2. fetch'[d].stage = "none" /\ \A g \in Fetchers \ {d} : fetch'[g] = fetch[g]
  BY <1>1, FetchChanged, Records DEF Settle
<1>3. /\ at'[d] = "idle" \/ (at'[d] = "refused" /\ at[d] = "first")
      /\ \A e \in Calls \ {d} : at'[e] = at[e]
  <2>1. CASE Return({d})
    BY <2>1 DEF Return
  <2>2. CASE ~Return({d})
    BY <2>2 DEF CallAnswered, CallFails, TypeOK
  <2> QED
    BY <2>1, <2>2
<1>4. CASE c = d
  <2>1. at[c] \in {"first", "again"} /\ Awaited(c) = c
    BY <1>1, <1>4 DEF TypeOK, Awaited
  <2>2. /\ Left(c) \in Nat
        /\ at[c] = "first" => Left(c) >= 15
        /\ at[c] = "again" => Left(c) >= 3
    BY <2>1, CallTypes, LeftValues
  <2>3. CASE at'[c] = "idle"
    BY <1>2, <1>4, <2>1, <2>2, <2>3, CallGoes, LeftValues
  <2>4. CASE at'[c] = "refused" /\ at[c] = "first"
    BY <1>2, <1>4, <2>1, <2>2, <2>4, CallGoes, LeftValues
  <2> QED
    BY <1>3, <1>4, <2>3, <2>4
<1>5. CASE c # d
  <2>1. Awaited(c) # d
    BY <1>1, <1>5 DEF Awaited
  <2> QED
    BY <1>2, <1>3, <1>5, <2>1, CallTypes, CallStays
<1> QED
  BY <1>4, <1>5

\* The renewal of a page ends, and every call that waits for it goes on.
LEMMA RefreshEndCounts ==
  ASSUME TypeOK, NEW p \in Pages, RefreshAnswered(p) \/ RefreshFails(p), NEW c \in Calls
  PROVE  IF Awaited(c) = p THEN Left(c)' < Left(c) ELSE Left(c)' = Left(c)
<1> USE BrowserSessionAssumption DEF BrowserSessionAssumption
<1>1. p \in Fetchers /\ p \notin Calls /\ Settle(p)
  BY DEF RefreshAnswered, RefreshFails, Broken, Fetchers
<1>2. fetch'[p].stage = "none" /\ \A g \in Fetchers \ {p} : fetch'[g] = fetch[g]
  BY <1>1, FetchChanged, Records DEF Settle
<1>3. c \in Awaiting(p) <=> Awaited(c) = p
  BY <1>1 DEF Awaiting, Awaited
<1>4. IF c \in Awaiting(p) THEN at'[c] \in {"idle", "renewed"} ELSE at'[c] = at[c]
  <2>1. CASE Return(Awaiting(p))
    BY <2>1 DEF Return
  <2>2. CASE ~Return(Awaiting(p))
    BY <2>2 DEF RefreshAnswered, RefreshFails
  <2> QED
    BY <2>1, <2>2
<1>5. CASE Awaited(c) = p
  <2>1. at[c] = "awaiting" /\ c \in Fetchers /\ c # p
    BY <1>1, <1>3, <1>5 DEF Awaiting, Fetchers
  <2>2. fetch'[c].stage = "none"
    BY <1>2, <2>1 DEF TypeOK
  <2>3. Left(c) \in Nat /\ Left(c) >= 9
    BY <2>1, CallTypes, LeftValues
  <2>4. at'[c] \in {"idle", "renewed"}
    BY <1>3, <1>4, <1>5
  <2>5. Left(c)' = 0 \/ Left(c)' = 6
    BY <2>2, <2>4, CallGoes, LeftValues
  <2> QED
    BY <1>5, <2>3, <2>5
<1>6. CASE Awaited(c) # p
  BY <1>2, <1>3, <1>4, <1>6, CallTypes, CallStays
<1> QED
  BY <1>5, <1>6

\* A step of a call brings that call forward and leaves the others where they are.
LEMMA CallStepCounts ==
  ASSUME TypeOK, TypeOK', NEW d \in Calls, CallStep(d), NEW c \in Calls
  PROVE  IF c = d THEN Left(c)' < Left(c) ELSE Left(c)' = Left(c)
<1> USE BrowserSessionAssumption DEF BrowserSessionAssumption
<1>1. CASE AwaitRefresh(d)
  BY <1>1, AwaitCounts
<1>2. CASE Again(d)
  BY <1>2, SendCounts DEF Again
<1>3. CASE CallAnswered(d) \/ CallFails(d)
  BY <1>3, CallEndCounts
<1>4. CASE ServeLogin(d) \/ ServeAccepted(d) \/ ServeRenewed(d) \/ ServeRefused(d)
  <2>1. /\ d \in Fetchers /\ d \notin Pages /\ fetch[d].stage = "going" /\ at' = at
        /\ \E ok \in BOOLEAN : \E set : Answer(d, ok, set)
    BY <1>4 DEF ServeLogin, ServeAccepted, ServeRenewed, ServeRefused, ServerOnly, Fetchers
  <2>2. Awaited(c) = d <=> c = d
    BY <2>1 DEF Awaited, TypeOK
  <2>3. IF Awaited(c) = d THEN Left(c)' < Left(c) ELSE Left(c)' = Left(c)
    BY <2>1, AnswerCounts
  <2> QED
    BY <2>2, <2>3
<1> QED
  BY <1>1, <1>2, <1>3, <1>4 DEF CallStep

\* A step of a renewal brings every call that waits for it forward.
LEMMA PageStepCounts ==
  ASSUME TypeOK, NEW p \in Pages, PageStep(p), NEW c \in Calls
  PROVE  IF Awaited(c) = p THEN Left(c)' < Left(c) ELSE Left(c)' = Left(c)
<1>1. CASE RefreshAnswered(p) \/ RefreshFails(p)
  BY <1>1, RefreshEndCounts
<1>2. CASE ServeRefresh(p) \/ RefuseRefresh(p)
  <2>1. /\ p \in Fetchers /\ fetch[p].stage = "going" /\ at' = at
        /\ \E ok \in BOOLEAN : \E set : Answer(p, ok, set)
    BY <1>2 DEF ServeRefresh, RefuseRefresh, ServerOnly, Fetchers
  <2> QED
    BY <2>1, AnswerCounts
<1> QED
  BY <1>1, <1>2 DEF PageStep

LEMMA CountsStep ==
  ASSUME TypeOK, TypeOK', [Next]_vars, NEW c \in Calls
  PROVE  CallCounts(c)
<1> USE BrowserSessionAssumption DEF BrowserSessionAssumption
<1>1. /\ at[c] \in {"first", "awaiting", "again"} => fetch[Awaited(c)].stage # "none"
      /\ Left(c) \in 0..17
  BY CallTypes, LeftValues
<1> DEFINE now == Left(c)  next == Left(c)'
<1>2. now \in Int /\ next \in Int
  <2>1. Awaited(c)' \in Fetchers
    BY DEF Awaited, Fetchers
  <2>2. /\ at'[c] \in {"idle", "first", "refused", "awaiting", "renewed", "again"}
        /\ fetch'[Awaited(c)'].stage \in {"none", "going", "coming"}
    BY <2>1 DEF TypeOK
  <2>3. next = 3 * StagesLeft[at'[c]] + WireLeft[fetch'[Awaited(c)'].stage]
    BY DEF Left
  <2> HIDE DEF next
  <2> QED
    BY <1>1, <2>2, <2>3, LeftValues
<1>3. next < now => next <= now
  <2> HIDE DEF now, next
  <2> QED
    BY <1>2
<1>4. ASSUME at[c] # "idle" PROVE Left(c)' <= Left(c)
  <2>1. ASSUME NEW d \in Calls, CallStep(d) PROVE Left(c)' <= Left(c)
    <3>1. IF c = d THEN Left(c)' < Left(c) ELSE Left(c)' = Left(c)
      BY <2>1, CallStepCounts
    <3> QED
      BY <1>2, <1>3, <3>1
  <2>2. ASSUME NEW d \in Calls, NEW k \in Kinds[d], Start(d, k) PROVE Left(c)' = Left(c)
    <3>1. c # d
      BY <1>4, <2>2 DEF Start
    <3> QED
      BY <2>2, <3>1, SendCounts DEF Start
  <2>3. ASSUME NEW p \in Pages, PageStep(p) PROVE Left(c)' <= Left(c)
    <3>1. IF Awaited(c) = p THEN Left(c)' < Left(c) ELSE Left(c)' = Left(c)
      BY <2>3, PageStepCounts
    <3> QED
      BY <1>2, <1>3, <3>1
  <2>4. ASSUME ExpireAccess \/ UNCHANGED vars PROVE Left(c)' = Left(c)
    BY <2>4, CallStays DEF ExpireAccess, ServerOnly, vars
  <2> QED
    BY <1>1, <2>1, <2>2, <2>3, <2>4 DEF Next
<1>5. ASSUME MovesOn(c) PROVE Left(c)' < Left(c)
  <2>1. CASE CallStep(c)
    BY <2>1, CallStepCounts
  <2>2. CASE at[c] = "awaiting" /\ PageStep(Page[c])
    <3>1. Page[c] \in Pages /\ Awaited(c) = Page[c]
      BY <2>2 DEF Awaited
    <3> QED
      BY <2>2, <3>1, PageStepCounts
  <2> QED
    BY <1>5, <2>1, <2>2 DEF MovesOn
<1> QED
  BY <1>1, <1>4, <1>5 DEF CallCounts

-----------------------------------------------------------------------------
(* The theorems *)

\* Every variable keeps its type, a call has a request on the wire exactly when it
\* was sent, and no call waits for a renewal that is not under way (refreshing).
THEOREM TypeCorrect == Spec => []TypeOK
<1>1. IndInv => TypeOK
  BY DEF IndInv
<1> QED
  BY <1>1, Inductive, PTL

\* A call that is sent again was refused before anything was done for it, for any
\* number of calls and pages that renew at the same time (PXLSession.request).
THEOREM SentAgainHandledOnce == Spec => []HandledOnce
<1>1. IndInv => HandledOnce
  BY DEF IndInv, DoneOnce, HandledOnce
<1> QED
  BY <1>1, Inductive, PTL

\* A live session is in the cookies or on its way to them, for any number of pages,
\* calls and renewals in any order, unless an answer was lost or overtaken by a
\* sign-out (BrowserRefresh, refreshBrowserSession).
THEOREM LosersKeepSession == Spec => []SessionKept
<1>1. IndInv => SessionKept
  BY DEF IndInv
<1> QED
  BY <1>1, Inductive, PTL

\* No call is ever set back and each of its steps, and each of the renewal it waits
\* for, brings its end nearer, for any number of calls and pages and whatever is
\* refused or lost (PXLSession.request, refresh).
THEOREM CallsGoForward == Spec => CallsAdvance
<1>1. IndInv => TypeOK
  BY DEF IndInv
<1>2. TypeOK /\ TypeOK' /\ [Next]_vars => [\A c \in Calls : CallCounts(c)]_vars
  BY CountsStep
<1> QED
  BY <1>1, <1>2, Inductive, PTL DEF Spec, CallsAdvance

=============================================================================
