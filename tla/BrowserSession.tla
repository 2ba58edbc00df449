---------------------------- MODULE BrowserSession ----------------------------
(***************************************************************************)
(* The session of a browser with several pages open: the cookies they      *)
(* share, the calls of PXLSession.request in each page, the renewal each   *)
(* page shares among its calls, and the server, which also renews on its   *)
(* own when a request comes with an access token that is not valid.        *)
(*                                                                         *)
(* What the server does with one request is one step here: Sessions says   *)
(* why a refresh token is consumed once.  Both cookies are always set      *)
(* together, so a pair of tokens is one number; 0 stands for no cookies.   *)
(***************************************************************************)
EXTENDS FiniteSets, Integers

CONSTANTS
  Calls,       \* calls of PXLSession.request, of logout and of the login page
  Pages,
  Page,        \* the page that makes a call
  Kinds,       \* what a call may ask for
  MaxPairs,    \* bound: pairs of tokens issued
  Faults       \* {"network", "db"}

ASSUME BrowserSessionAssumption ==
  /\ Page \in [Calls -> Pages]
  /\ Kinds \in [Calls -> SUBSET {"any", "login", "logout"}]
  /\ Calls \cap Pages = {}
  /\ MaxPairs \in Nat \ {0}

VARIABLES
  issued,      \* pairs issued so far
  live,        \* pairs whose refresh token is usable
  valid,       \* pairs whose access token is accepted
  jar,         \* the pair in the cookies
  kind,        \* what each call asks for: "any", "login", "logout"
  at,          \* where each call stands
  fetch,       \* the request of a call, or of a page's renewal, on the wire
  handled,     \* how often the server did what the call asks for
  signedOut,   \* pairs issued before the last sign-out
  lost,        \* an answer with a new pair did not arrive
  overtaken    \* an answer from before a sign-out came after the next sign-in

serverVars == <<issued, live, valid, signedOut>>
vars == <<serverVars, jar, kind, at, fetch, handled, lost, overtaken>>

-----------------------------------------------------------------------------
Fetchers == Calls \cup Pages
Clear == -1                \* clearBrowserCookies

NoFetch == [stage |-> "none", cookies |-> 0, ok |-> FALSE, set |-> 0]
Going(pair) == [stage |-> "going", cookies |-> pair, ok |-> FALSE, set |-> 0]

Init ==
  /\ issued = 1 /\ live = {1} /\ valid = {1} /\ signedOut = 0
  /\ jar = 1
  /\ kind = [c \in Calls |-> "any"]
  /\ at = [c \in Calls |-> "idle"]
  /\ fetch = [f \in Fetchers |-> NoFetch]
  /\ handled = [c \in Calls |-> 0]
  /\ lost = FALSE /\ overtaken = FALSE

-----------------------------------------------------------------------------
(* The pages *)

\* fetch(url) leaves with the cookies of this moment.
Start(c, k) ==
  /\ at[c] = "idle"
  /\ kind' = [kind EXCEPT ![c] = k]
  /\ at' = [at EXCEPT ![c] = "first"]
  /\ fetch' = [fetch EXCEPT ![c] = Going(jar)]
  /\ UNCHANGED <<serverVars, jar, handled, lost, overtaken>>

\* A faulty variant: every call that is refused begins a renewal for its page.
AwaitRefreshAnew(c) ==
  /\ at[c] = "refused"
  /\ at' = [at EXCEPT ![c] = "awaiting"]
  /\ fetch' = [fetch EXCEPT ![Page[c]] = Going(jar)]
  /\ UNCHANGED <<serverVars, jar, kind, handled, lost, overtaken>>

\* refresh(): the first call of the page to be refused begins the renewal, the
\* others wait for the same promise.
AwaitRefresh(c) ==
  /\ at[c] = "refused"
  /\ at' = [at EXCEPT ![c] = "awaiting"]
  /\ fetch' = IF fetch[Page[c]] = NoFetch
              THEN [fetch EXCEPT ![Page[c]] = Going(jar)] ELSE fetch
  /\ UNCHANGED <<serverVars, jar, kind, handled, lost, overtaken>>

\* The renewal succeeded: the request is sent again, once.
Again(c) ==
  /\ at[c] = "renewed"
  /\ at' = [at EXCEPT ![c] = "again"]
  /\ fetch' = [fetch EXCEPT ![c] = Going(jar)]
  /\ UNCHANGED <<serverVars, jar, kind, handled, lost, overtaken>>

-----------------------------------------------------------------------------
(* The server *)

Answer(f, ok, set) ==
  fetch' = [fetch EXCEPT ![f] = [stage |-> "coming", cookies |-> 0, ok |-> ok, set |-> set]]

\* The rotation of a refresh token: one pair for another.
Rotate(pair) ==
  /\ issued < MaxPairs
  /\ pair \in live
  /\ issued' = issued + 1
  /\ live' = (live \ {pair}) \cup {issued + 1}
  /\ valid' = valid \cup {issued + 1}
  /\ UNCHANGED signedOut

SignOut ==
  /\ live' = {} /\ valid' = {}
  /\ signedOut' = issued

Handle(c) == handled' = [handled EXCEPT ![c] = @ + 1]
ServerOnly == UNCHANGED <<jar, kind, at, lost, overtaken>>

\* BrowserLogin, and the login that follows BrowserRegister
ServeLogin(c) ==
  /\ fetch[c].stage = "going" /\ kind[c] = "login"
  /\ issued < MaxPairs
  /\ issued' = issued + 1
  /\ live' = live \cup {issued + 1}
  /\ valid' = valid \cup {issued + 1}
  /\ Answer(c, TRUE, issued + 1)
  /\ Handle(c)
  /\ UNCHANGED signedOut
  /\ ServerOnly

\* authenticate accepts the access token of the cookies.
ServeAccepted(c) ==
  /\ fetch[c].stage = "going" /\ kind[c] # "login"
  /\ fetch[c].cookies \in valid
  /\ IF kind[c] = "logout"
     THEN SignOut /\ UNCHANGED issued /\ Answer(c, TRUE, Clear)
     ELSE UNCHANGED serverVars /\ Answer(c, TRUE, 0)
  /\ Handle(c)
  /\ ServerOnly

\* refreshBrowserSession renews the session of a request that came with an
\* access token that is not valid any more, and lets it through.
ServeRenewed(c) ==
  /\ fetch[c].stage = "going" /\ kind[c] # "login"
  /\ fetch[c].cookies \notin valid
  /\ IF kind[c] = "logout"
     THEN /\ issued < MaxPairs /\ fetch[c].cookies \in live
          /\ issued' = issued + 1
          /\ live' = {} /\ valid' = {}
          /\ signedOut' = issued + 1
          /\ Answer(c, TRUE, Clear)
     ELSE Rotate(fetch[c].cookies) /\ Answer(c, TRUE, issued + 1)
  /\ Handle(c)
  /\ ServerOnly

\* The refresh token is not usable either, or RefreshJWT failed; a sign-in with
\* a wrong password.
ServeRefused(c) ==
  /\ fetch[c].stage = "going"
  /\ kind[c] = "login" \/ fetch[c].cookies \notin valid
  /\ kind[c] = "login" \/ fetch[c].cookies \notin live \/ "db" \in Faults
  /\ Answer(c, FALSE, 0)
  /\ UNCHANGED <<serverVars, handled>>
  /\ ServerOnly

\* BrowserRefresh
ServeRefresh(p) ==
  /\ fetch[p].stage = "going"
  /\ Rotate(fetch[p].cookies)
  /\ Answer(p, TRUE, issued + 1)
  /\ UNCHANGED handled
  /\ ServerOnly

\* A faulty variant: a refused renewal takes the cookies away.
RefuseRefreshClears(p) ==
  /\ fetch[p].stage = "going"
  /\ fetch[p].cookies \notin live \/ "db" \in Faults
  /\ Answer(p, FALSE, Clear)
  /\ UNCHANGED <<serverVars, handled>>
  /\ ServerOnly

\* BrowserRefresh answers 401 and leaves the cookies alone.
RefuseRefresh(p) ==
  /\ fetch[p].stage = "going"
  /\ fetch[p].cookies \notin live \/ "db" \in Faults
  /\ Answer(p, FALSE, 0)
  /\ UNCHANGED <<serverVars, handled>>
  /\ ServerOnly

\* An access token's time is up, and so is that of its cookie.
ExpireAccess ==
  /\ \E pair \in valid : valid' = valid \ {pair}
  /\ UNCHANGED <<issued, live, signedOut, handled, fetch>>
  /\ ServerOnly

-----------------------------------------------------------------------------
(* The network *)

\* The cookies of an answer replace those of the browser, whatever came before.
StoreCookies(f) ==
  LET set == fetch[f].set IN
  /\ jar' = IF set = Clear THEN 0 ELSE IF set = 0 THEN jar ELSE set
  /\ overtaken' = (overtaken \/ (live # {} /\ \/ f \in Calls /\ set = Clear
                                              \/ 0 < set /\ set <= signedOut))

Awaiting(p) == {c \in Calls : Page[c] = p /\ at[c] = "awaiting"}

Settle(f) == fetch' = [fetch EXCEPT ![f] = NoFetch]

\* The calls return or throw; what the server did for them is forgotten.
Return(calls) ==
  /\ at' = [c \in Calls |-> IF c \in calls THEN "idle" ELSE at[c]]
  /\ kind' = [c \in Calls |-> IF c \in calls THEN "any" ELSE kind[c]]
  /\ handled' = [c \in Calls |-> IF c \in calls THEN 0 ELSE handled[c]]

\* request() has its answer: done, or refused for the first time.
CallAnswered(c) ==
  /\ fetch[c].stage = "coming"
  /\ StoreCookies(c)
  /\ Settle(c)
  /\ IF ~fetch[c].ok /\ at[c] = "first" /\ kind[c] # "login"
     THEN at' = [at EXCEPT ![c] = "refused"] /\ UNCHANGED <<kind, handled>>
     ELSE Return({c})
  /\ UNCHANGED <<serverVars, lost>>

\* refreshSession() ends, and finally() forgets the promise.
RefreshAnswered(p) ==
  /\ fetch[p].stage = "coming"
  /\ StoreCookies(p)
  /\ Settle(p)
  /\ IF fetch[p].ok
     THEN /\ at' = [c \in Calls |-> IF c \in Awaiting(p) THEN "renewed" ELSE at[c]]
          /\ UNCHANGED <<kind, handled>>
     ELSE Return(Awaiting(p))
  /\ UNCHANGED <<serverVars, lost>>

\* The connection breaks on the way there, on the way back, or after the cookies
\* arrived.
Broken(f) ==
  /\ "network" \in Faults
  /\ fetch[f].stage \in {"going", "coming"}
  /\ \/ StoreCookies(f) /\ UNCHANGED lost
     \/ /\ lost' = (lost \/ fetch[f].set > 0)
        /\ UNCHANGED <<jar, overtaken>>
  /\ Settle(f)
  /\ UNCHANGED serverVars

\* A faulty variant: a request that failed is sent again.
CallFailsRetried(c) ==
  /\ Broken(c)
  /\ IF at[c] = "first"
     THEN at' = [at EXCEPT ![c] = "renewed"] /\ UNCHANGED <<kind, handled>>
     ELSE Return({c})

\* fetch() rejects, and so does request().
CallFails(c) ==
  /\ Broken(c)
  /\ Return({c})

\* A faulty variant: the rejected renewal is not passed on.
RefreshFailsSilently(p) ==
  /\ Broken(p)
  /\ UNCHANGED <<at, kind, handled>>

\* The promise rejects for every call that awaits it, and finally() forgets it.
RefreshFails(p) ==
  /\ Broken(p)
  /\ Return(Awaiting(p))

-----------------------------------------------------------------------------
CallStep(c) ==
  \/ AwaitRefresh(c) \/ Again(c)
  \/ ServeLogin(c) \/ ServeAccepted(c) \/ ServeRenewed(c) \/ ServeRefused(c)
  \/ CallAnswered(c) \/ CallFails(c)

PageStep(p) == ServeRefresh(p) \/ RefuseRefresh(p) \/ RefreshAnswered(p) \/ RefreshFails(p)

Next ==
  \/ \E c \in Calls : CallStep(c) \/ \E k \in Kinds[c] : Start(c, k)
  \/ \E p \in Pages : PageStep(p)
  \/ ExpireAccess

Spec == Init /\ [][Next]_vars

\* Scripts run, the server answers or its connection times out.
Fairness ==
  /\ \A c \in Calls : WF_vars(CallStep(c))
  /\ \A p \in Pages : WF_vars(PageStep(p))

FairSpec == Spec /\ Fairness

-----------------------------------------------------------------------------
(* Properties *)

Pairs == 1..MaxPairs

TypeOK ==
  /\ issued \in Pairs /\ signedOut \in 0..MaxPairs
  /\ live \subseteq 1..issued /\ valid \subseteq 1..issued
  /\ jar \in 0..MaxPairs
  /\ kind \in [Calls -> {"any", "login", "logout"}]
  /\ at \in [Calls -> {"idle", "first", "refused", "awaiting", "renewed", "again"}]
  /\ fetch \in [Fetchers -> [stage : {"none", "going", "coming"}, cookies : 0..MaxPairs,
                             ok : BOOLEAN, set : Clear..MaxPairs]]
  /\ handled \in [Calls -> 0..2]
  /\ lost \in BOOLEAN /\ overtaken \in BOOLEAN
  /\ \A c \in Calls : fetch[c].stage # "none" <=> at[c] \in {"first", "again"}
  /\ \A p \in Pages : fetch[p].stage = "none" =>
       \A c \in Calls : Page[c] = p => at[c] # "awaiting"

\* "A losing response must not erase the winner's session": however the pages
\* renew at the same time, a live session is in the cookies or on its way to
\* them, unless an answer was lost or overtaken by a sign-out (BrowserRefresh,
\* refreshBrowserSession).
SessionKept ==
  live # {} /\ ~lost /\ ~overtaken =>
    \/ jar \in live
    \/ \E f \in Fetchers : fetch[f].stage = "coming" /\ fetch[f].set \in live

\* A call that is sent again was refused before anything was done for it
\* (PXLSession.request).
HandledOnce == \A c \in Calls : handled[c] <= 1

\* What is left of a call: the stages it may still go through and, within one, how
\* far the answer it waits for is, its own or that of the renewal of its page.
StagesLeft ==
  [idle |-> 0, again |-> 1, renewed |-> 2, awaiting |-> 3, refused |-> 4, first |-> 5]
WireLeft == [none |-> 0, coming |-> 1, going |-> 2]

Awaited(c) == IF at[c] = "awaiting" THEN Page[c] ELSE c
Left(c) == 3 * StagesLeft[at[c]] + WireLeft[fetch[Awaited(c)].stage]

\* The steps that c waits for.
MovesOn(c) == CallStep(c) \/ (at[c] = "awaiting" /\ PageStep(Page[c]))

CallCounts(c) ==
  /\ at[c] \in {"first", "awaiting", "again"} => fetch[Awaited(c)].stage # "none"
  /\ Left(c) \in 0..17
  /\ at[c] # "idle" => Left(c)' <= Left(c)
  /\ MovesOn(c) => Left(c)' < Left(c)

\* Nothing sets a call back once it is made: neither an answer, a refusal or a lost
\* connection, nor another call of the page that joins the renewal or starts the
\* next one; what it waits for is under way, and every step of it brings the end
\* nearer (request, refresh, its finally).
CallsAdvance == [][\A c \in Calls : CallCounts(c)]_vars

\* Every call ends, also when the renewal it waits for is refused or lost
\* (refreshing).
CallsEnd == \A c \in Calls : at[c] # "idle" ~> at[c] = "idle"

-----------------------------------------------------------------------------
(* The inductive invariant behind SessionKept and HandledOnce: a pair on its  *)
(* way to the browser is known to nobody else, so nobody can use it up.       *)

FetchOK(f) ==
  /\ fetch[f].stage = "none" => fetch[f] = NoFetch
  /\ fetch[f].stage = "going" => fetch[f].set = 0
  /\ fetch[f].cookies <= issued /\ fetch[f].set <= issued
  /\ f \in Pages => fetch[f].set # Clear

OnTheWay(f) == fetch[f].stage = "coming" /\ fetch[f].set > 0

Unknown(f) ==
  LET pair == fetch[f].set IN
  /\ pair \in live \/ pair <= signedOut
  /\ jar # pair
  /\ \A g \in Fetchers : fetch[g].cookies # pair
  /\ \A g \in Fetchers \ {f} : fetch[g].set # pair

Delivered ==
  /\ jar <= issued /\ signedOut <= issued
  /\ \A f \in Fetchers : FetchOK(f) /\ (OnTheWay(f) => Unknown(f))

DoneOnce ==
  \A c \in Calls : handled[c] = IF fetch[c].stage = "coming" /\ fetch[c].ok THEN 1 ELSE 0

IndInv == TypeOK /\ Delivered /\ DoneOnce /\ SessionKept

=============================================================================
