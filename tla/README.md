# PXL in TLA+

PXL is an image host: a Go server that keeps image rows and accounts in
PostgreSQL, bytes in a storage backend (a local directory or S3), and some
bookkeeping in memory, and the scripts of its web pages. This directory holds
TLA+ modules of its stateful core, the TLC configurations that check them on
small instances, and proofs of the most important properties for every
instance. Paths below are relative to `src/`; `internal/` is left out of most.

Contents: [the system](#the-system) · [modules](#modules) · [runs](#runs) ·
[bounds](#bounds) · [fairness](#fairness) · [findings](#findings) ·
[proofs](#proofs) · [what is left out](#what-is-left-out) · [plan](#plan)

## The system

| Component | State | Operations | What makes it hard |
|---|---|---|---|
| Images (`service/image_service.go`, `repository/image_repo.go`) | rows of `images`, the owner's counters in `users`, objects and thumbnails in the backend | upload, delete, forced delete, burn view, expiry sweep, account removal, quota change | one PostgreSQL transaction each, with the storage calls before or after it; row locks on owner and image taken in different orders; lost COMMIT answers; process end anywhere |
| Upload space and local storage (`reserveUploadSpace`, `storage/local.go`) | `inFlight` under a mutex, the free bytes of the disk, directory entries, inodes | reserve, stage, link, copy, rename, get, delete | free space shrinks while admitted uploads write; a file outlives its names; the machine may take what was not synced |
| S3 (`storage/s3.go`) | none of its own | put, get, delete | a service that fails |
| Thumbnails (`worker/thumbnail.go`) | a bounded channel, one job per worker, `thumb_generated` | queue, reconcile, process | jobs dropped at a full channel, lost by a restart; an image deleted under a job |
| Serving (`handler/image_handler.go`) | a phase for each request; caches outside | image, thumbnail, range, conditional, burn claim | the row is read once and the storage later; a year of public caching; one view of a burn image among many requests |
| View counter (`handler/image_handler.go`) | a bounded channel, a map of counts, `view_count` | offer, receive, flush, drain | batches whose write is lost or unanswered; shutdown with requests running |
| Sessions (`service/auth_service.go`, `repository/refresh_token_repo.go`, `middleware/auth.go`) | `auth_version`, password hash, API key, refresh tokens; signed access tokens outside | login, rotate, logout, password change, suspend, delete, authenticate | rows read before a transaction and used in it; replayed rotations; stateless access tokens that must die |
| Browser sessions (`web/static/pxl-session.js`, `handler/auth_handler.go`, `middleware/auth.go`) | two cookies shared by all pages, one renewal promise for each page | request, refresh, retry, logout, login | pages and the middleware renew at once; answers arrive in any order or never |
| Administration (`service/auth_service.go`, `repository/user_repo.go`) | role and activity of accounts | update, delete, register, bootstrap | administrators who remove each other; a count taken before the lock |
| Albums (`service/album_service.go`, `repository/album_repo.go`, the upload handler) | albums and their membership | create, add, remove, delete | images, albums and accounts that go between the read and the write |
| Import queue (`web/static/pxl-upload.js`) | loops over groups, chunks and batches; what was answered | run, request, stop | requests refused, limited, cut off or half done; which may be repeated |
| Request address and rate limiter (`middleware/middleware.go`) | visitors in 64 shards | find the client, allow, refuse, clean up | headers that clients write; a clean-up that pauses between shards while requests go on |
| Migrations, start-up, shutdown (`repository/db.go`, `cmd/server/main.go`) | schema | migrate, bootstrap, drain | two servers starting at once; the order of the shutdown |
| Audit log, configuration, crypto, metrics, image processing | an append-only table, counters | | nothing in the program decides by them |

Interactions. A request passes RealIP and the rate limiter (Gate) and then
`middleware/auth.go`, which authenticates it (Sessions) and may renew its
cookies (BrowserSession). An upload reserves space and writes its bytes through
the backend (LocalStorage), inserts its row under its owner's row lock
(ImageStore), offers the image to the thumbnail channel (Thumbnails), and may
make an album (Albums). The upload page sends many such requests, one at a time
(Imports). Serving an image claims a burn image or offers a view to the counter
(Serving, Views). The expiry ticker of `main` marks rows and then removes files
(ImageStore). Account updates and deletions take the advisory lock of
`protectLastAdmin` (Accounts), revoke sessions (Sessions), and a deletion makes
the account's images anonymous (ImageStore) and takes its albums along (Albums).

What makes each component correct:

- Images: a visible row has its bytes; counters are exactly what is owned; no
  upload passes the quota; a claimed burn view has its bytes; files of deleted
  images go away.
- Storage: a name has the whole content of one write or nothing, whatever dies
  when; the uploads admitted together leave the reserve free; no call leaves
  private files behind.
- Thumbnails: an image that can be rendered is rendered in the end.
- Serving: a burn image answers once; what a shared cache keeps may be shown to
  everybody; a range is answered with the bytes it names.
- Views: none counted twice; a graceful stop loses none, and ends.
- Sessions: what was revoked stays revoked; a login never branches into two
  usable refresh tokens.
- Browser sessions: losing a race for a renewal never loses the session; a
  retried request was not executed before; a page never hangs.
- Albums and imports: an album holds its owner's images; a file is not stored
  twice, and none disappears without an error.
- Administration: an administrator who can sign in is always left.
- Gate: a client is counted as itself; the limit holds around the end of a
  window and whatever the clean-up does; `Retry-After` is not too early.

`PROJECT.json` lists the hazards behind these, each at its line.

## Modules

| Module | Models |
|---|---|
| `ImageStore`, `MCImageStore` | image rows, counters, objects and thumbnails; uploads, removers, the sweep, thumbnail workers, account removal |
| `LocalStorage`, `MCLocalStorage` | `LocalBackend` by system call, the staging files of uploads and their reservations |
| `ObjectStore` | abstract: what the server takes a backend to be |
| `Thumbnails` | the channel, the pool, the reconciliation, restarts |
| `Views` | the channel of views, the batching worker, flushes, shutdown |
| `Serving`, `MCServing` | requests for images and thumbnails, on top of `Views` |
| `Sessions`, `MCSessions` | one account, its refresh and access tokens, concurrent requests |
| `SessionPromise` | abstract: a session begins once and once ended never comes back |
| `BrowserSession`, `MCBrowserSession` | cookies, pages, renewals and answers on their way |
| `Accounts` | roles and activity, administrators' requests, the advisory lock, registration, bootstrap |
| `Albums` | uploads of several files and albums, as requests at the server |
| `Imports`, `MCImports` | the upload page (or an API client) against `Albums` |
| `RateLimiter` | visitors, shards, the sweep, a clock |
| `RatePromise` | abstract: windows of `Rate` requests, nothing ever forgotten |
| `Gate`, `MCGate` | clients behind proxies, RealIP, in front of `RateLimiter` |
| `*Proofs` | the theorems about `ImageStore`, `LocalStorage`, `Serving` with `Views`, `Sessions`, `Accounts`, `BrowserSession`, `Imports` with `Albums`, `Gate` with `RateLimiter` |

How a module reads. A goroutine is an element of a set with a program counter
(`up`, `rpc`, `pc`, ...); a step is what happens between two points where
another goroutine, transaction or process end can come in. A PostgreSQL
transaction is split at its locks: the action that takes the row lock, then
the commit, the abort, or the commit whose answer is lost. What a transaction
reads before its lock is a variable of the process, so stale reads are
behaviours of the model. Conditional `UPDATE ... WHERE` statements are guards
of the commit. Faults are in a constant `Faults`, so that a run chooses which of
them it has. Identifiers are finite sets whose elements are used once; a
behaviour that used them up stops, which is why the runs say
`CHECK_DEADLOCK FALSE`. Faulty variants of actions ("A faulty
variant: ...") stand beside the real ones. They are not part of `Next`; they are
the plausible bugs that each property is known to catch.

### ImageStore

`row`, `owner` and `expired` are the columns of `images`; `account`,
`usedImages`, `usedBytes`, `quotaImages`, `quotaBytes` those of `users`;
`object` and `thumb` what the backend holds. An upload goes through
`UploadCheck` (validation, duplicate, early quota check) or `UploadReject`,
`StoreOriginal`, `LockOwner` (the second quota check under `FOR UPDATE`), then
`CreateCommit`, `CreateFails` or `CreateUncertain`. Only a certain failure is
followed by `Compensate`; an uncertain commit resolves either way later
(`UncertainResolves`) and its object is kept, as the code does. A remover is a
`Delete`, `ForceDelete` or a burn view: it reads the row (`ReadImage`), marks it
(`MarkDeleted`: the conditional `UPDATE` and the release of the counters), and
after the commit removes original and thumbnail; a burn view serves the bytes
in between. The sweep locks a batch with its owners and removes its files one
by one. PostgreSQL may abort a removal or a sweep at any point
(`RemoveAbort`, `SweepAbort`), which is how it ends the deadlocks between the
sweep and an account removal. A worker renders, puts, marks and undoes.
`Crash` drops all processes and open transactions and keeps the rows and files.
Sizes are the constant function `Bytes` on sets of images, so that both counters
can be compared with what is owned without a recursive sum. `leaked` remembers,
for the properties only, which images a failed storage call, a lost commit
answer or a crash has left with files that nothing visits again.

### LocalStorage and ObjectStore

A file is an inode: its bytes take space while a directory entry or an open
descriptor leads to it. `Bytes` is the set of them, each a file and a position,
and what a disk has occupied is the number of its elements. An upload reserves
(`Reserve`, all under the mutex) and stages a byte at a time (`Stage`; the limit
reader admits one byte more than the maximum); `PutFile` syncs, links the
staging file to a private name, renames it into place and removes the staging
name (`LinkStaged`, `CommitStaged`, `RemoveSource`); when the staging directory
is outside the root (`inside` is FALSE), `Put` copies, as it does for every
thumbnail (`StartCopy`, `CopyByte`, `CommitCopy`). Each way out runs the
deferred functions (`Discard`, `Abandon`, `Finish`, `Release`). Readers open
what a name leads to and keep it; deletions unlink; `Other` takes space for the
database and everybody else. `Restart` is the death of the process, or of the
machine, which also takes bytes that were not synced. The refinement maps a name
to the job whose whole content it leads to; part of a file, or a file that lost
bytes, would map to no state of `ObjectStore`.

### Serving and Views

`Views`: `Receive`, `Tick`, `StartDrain` are the three cases of the `select`;
`Flush` writes a batch in one statement, and `FlushFails` is an error or a
timeout after which the write may have taken effect; `CancelViews` is
`srv.Shutdown` returning, in time or not, and `Stop`.

`Serving`: a request finds its row and decides on `Cache-Control` (`Begin`),
claims a burn image (`Claim`), and answers 304, 416, headers alone or from the
object (`NotModified`, `RangeRefused`, `HeadOnly`, `Open` and `Send`), in which
case it offers a view (`OfferView`); a claim is followed by `FinalizeBurn` on
every way out. Thumbnails fall back to the original. `Delete`, `DeleteFiles` and
`StoreThumbnail` change the images meanwhile. `shared` is what a cache between
the server and its users has kept. `workload` fixes, for one behaviour, what its
clients ask for; the workloads share one module and one run.

### Sessions and SessionPromise

One account: its row, the `refresh_tokens` rows, and `jwts`, the access tokens
that were issued, each with the `auth_version` and hash it carries. Login reads
the row and checks the password (`LoginRead`), and creates its tokens only if
the version is still the same under the user's row lock (`LoginCreate`), or
does so and the answer is lost. A rotation locks (`RotateLock`), consumes and
replaces the token (`RotateCommit`, or `RotateReject`), and answers
(`RotateAnswer`, `RotateLost`). `Logout`, `PasswordCommit`, `Suspend` raise the
version and revoke every refresh token in one transaction;
`RevokeAllForUser` and `DeleteUser` are the two transactions of a removal.
Time is `ExpireToken` and `ExpireJwt` at any moment. `barred` remembers the
logins that a revocation found, for the properties only. The refinement maps a
login with something the server takes to `valid`, and one that is over to
`ended`.

### BrowserSession

What one request does at the server is one step (Sessions justifies that for
the rotation). `jar` is the pair of cookies; a request carries the cookies of
the moment it leaves and its answer may carry new ones, which take effect when
it arrives, in any order. A page has one renewal at a time that all its refused
calls wait for. The server side is `Auth`/`OptionalAuth` (`ServeAccepted`,
`ServeRefused`), `refreshBrowserSession` in the middleware (`ServeRenewed`),
`BrowserRefresh`, `BrowserLogin` and `Logout`. With `"network"` in `Faults`
either half of an exchange may be lost, with `"db"` the server may fail.

### Accounts

`role` and `active` of each account and `named`, the account that bears the
configured administrator's name. A request is authenticated as an administrator
(`Authenticate`), reads its target (`ReadTarget`), counts without the lock
(`CountActiveAdmins`), takes the advisory lock (`LockAdmins`), counts again
(`ProtectLastAdmin`) and updates or deletes. An aborted transaction gives the
lock back. Registration and restart (with `EnsureAdminExists`) may add
accounts at any time.

### Albums and Imports

`Albums` is the server: an upload takes one part after the other (`LookUp`,
`StorePart`, `FailPart`, `StoreUncertain`, `TooMany`), an album is made by looking
at its images one by one and then in one transaction (`CheckImage`, `MakeAlbum`),
and an editor adds, removes or deletes by reading and then writing
(`ReadAdd`, ..., `WriteEdit`). Images and accounts go at any time. `AlbumsSpec`
leaves clients free to send anything; the theorem is about that.

`Imports` puts a client on top: `run()` with its groups, chunks of `AlbumMax` and
batches, its retries after 401 and 429 and its stop, or an API client that
sends one upload and leaves the album to the server. `jar` is what the cookies
identify; another page may sign out or in.

### Thumbnails

`Queue` drops at a full channel; `List` is the query of the ticker with its
limit, `Enqueue` one turn of the loop after it, which gives up at a full
channel; `Restart` empties what is in memory. `Broken` are the images that
`GenerateThumbnail` refuses each time.

### RateLimiter and Gate

A request holds its shard's lock throughout and is one step; a sweep computes
its cutoff once and visits the shards one after the other. `promised` is the last
`Retry-After`. The refinement maps an address whose window is over to one
without a window, whether or not the limiter still remembers it. The limiters of
the public routes, the API and the sign-in are instances of the same code.

`Gate` has the clients behind the addresses. A request starts with any header of
`Prefixes` and passes the proxies of a path, each of which appends the address
it was called from to `X-Forwarded-For`; or a single proxy sets `X-Real-IP`.
`RealIP` walks the header from the right. `recent` counts what a client got
through in the last ticks, for each number of them up to `Window`; it exists for
the properties only.

## Runs

| Run | Checks | Shows |
|---|---|---|
| `image_safety` | `LiveRowHasObject`, `ClaimServable`, `QuotaExact`, `QuotaRespected` | two uploads, two removers, the sweep and a quota change, under storage, database and crash faults |
| `image_reclaim` | `GarbageAttended`, `FilesReclaimed`, `ReclaimedForGood` | under the same faults, with a thumbnail worker: a file without a row is always in somebody's hands, goes away, and never comes back, unless `Leak` records the failure that hit it |
| `image_delete_retry` (violation) | `DeletedBytesReclaimed` | one failed storage deletion leaves the bytes for ever |
| `local_storage` | `ReserveKept`, `ReservationsExact`, `NothingLeftBehind`, `KeepsObjects` | two uploads and two thumbnails of one path as system calls, a reader, a filling disk, deaths of the process and the machine; refinement of `ObjectStore` |
| `serving` | `NeverOvercounted`, `StopFlushes`, `BurnAnsweredOnce`, `CachedForAll`, `RangesExact`, `StopReturns`, `ViewsSettle` | counted views up to a shutdown, clients after one burn image, every range, and every kind of request for images that change |
| `sessions` | `RevokedStayOut`, `SingleDescendant`, `KeepsPromise` | two requests against an administrator, with lost answers; refinement of `SessionPromise` |
| `browser` | `SessionKept`, `HandledOnce`, `CallsEnd`, `CallsAdvance` | two pages renew, sign out and in, lose answers, and no call is ever set back |
| `admin` | `AdminRemains`, `AdministrationGoesOn` | two concurrent administrators: one is always left, and the lock always comes back |
| `imports` | `MembersOwned`, `StoredOnce`, `CleanEndIsComplete`, `ConfirmedWhole`, `NothingUnaccounted`, `ImportEnds`, `ImportAdvances` | an import or an API upload against refusals, limits, lost answers, crashes, deletions and another page |
| `thumb_recovery` | `TypeOK`, `JobsRecovered` | dropped, failed and lost jobs are recovered when every image can be rendered |
| `thumb_starvation` (violation) | `JobsRecovered` | one image that cannot be rendered starves a younger one |
| `gate` | `TwoWindowsAtMost`, `RetryAfterEnough`, `KeepsWindows`, `RefusalsEarned` | two clients with any headers, two proxies, two shards and a sweep; refinement of `RatePromise` |

Each property has a faulty variant of an action or operator of its module
(`mutants` in `PROJECT.json`) under which the same run finds it violated. The
type invariants are proved for every instance (`TypeCorrect`, `ServingTyped`,
`ImportTypeCorrect`) and not repeated in the runs, but for that of `Thumbnails`. So are
most of the safety properties of the runs ([proofs](#proofs)): the run shows
that the case happens, the theorem that it ends well for any number of them.

Some properties carry exceptions that the code makes necessary. `SessionKept`
excludes an answer that was lost and one that a sign-out overtook: no server can
order the answers a browser receives. `StopFlushes` excludes a shutdown that
timed out, a full channel and a failed write, each of which the code gives up on
explicitly. `FilesReclaimed` excludes the files that `Leak` names: those of the
first finding, and an object whose commit was never confirmed. `ReserveKept`
allows the one byte by which each refused upload overshoots, and, with a staging
directory outside the root, what has been copied while the staging file is still
there: `reserveUploadSpace` does not count it. `NothingUnaccounted` excludes the
images of an answer that did not arrive, which nobody can name.
`ConfirmedWhole` excludes albums changed since. `TwoWindowsAtMost` states what a
window that restarts with the first request after it can promise: two bursts may
meet around its end.

## Bounds

- `image_*`: an image that exists (one-shot and expiring, so that its three
  ways to die race) and one or two uploads. Two uploads of one owner are what it
  takes to pass the early check together, and the quota fits either of them but
  not everything. Two removers are what it takes to claim or to release twice.
  `CleanupLimit` 2 lets the sweep hold several rows. The proofs remove the
  bound for all safety properties.
- `local_storage`: two uploads compete for a disk of 2 or 3 bytes with a reserve
  of 1, so that none, one or both fit; files of 1 byte have a moment at which
  they are torn, and a second at which an upload is too large. Two thumbnails of
  the same path replace each other under a reader. `MaxForeign` 1 lets others
  take a byte after a reservation.
- `serving`: two requests are what a race for a burn image takes; `Size` 3 has a
  first, an inner and a last byte; two images reach `BatchSize` 2, and a channel
  of 2 fills up with the 4 views of the counting workload.
- `sessions`: three tokens for a login, its descendant and another login's; two
  requests; `MaxVersion` 2 allows two revocations. The theorems hold without.
- `browser`: three calls in two pages, `MaxPairs` 3: the first pair, a renewal
  and a sign-in or a second renewal. Two pages are what a race takes, two calls
  in one page what the shared promise takes.
- `admin`: two accounts and two requests: two administrators who each remove the
  other are the smallest case, and `AdminAlwaysRemains` covers the rest.
- `imports`: one selection repeats bytes within a group longer than `AlbumMax` 2,
  so that it becomes two chunks; the other has two files that exceed
  `MaxBytes` 3 together, so that a group takes two batches, and a loose file
  without an album. `Copies` 2 allows an image to be stored again after its
  deletion, or by mistake; `Retries` 1 and `MaxEvents` 2 allow a refusal and its
  repetition with two interferences from outside.
- `thumb_*`: more images than the channel holds, so that jobs are dropped and
  the limit of the list bites; `MaxFaults` 2 bounds restarts and failures, since
  an unbounded number of them would recover nothing.
- `gate`: a window of 3 ticks, a unit of `Retry-After` of 2 ticks so that
  rounding matters, 8 ticks (`Horizon`): two windows and a sweep between them,
  whose cutoff is two windows back. The prefixes hold the other client's
  address, a proxy's and an entry that is none; the paths have no, one and two
  proxies in either order.

Symmetry is used for removers, requests, tokens, logins, uploads and thumbnails,
only in runs without liveness under fairness.

## Fairness

Fairness is for work already begun, never for clients: no upload, login,
deletion or request has to be made.

- `ImageStore`: weak fairness on the steps of each process under way: storage
  calls and transactions return, with success or without.
- `Accounts`: weak fairness on the statements of a request, strong on
  `LockAdmins`, since PostgreSQL grants a contended advisory lock in the order
  of the requests.
- `Thumbnails`: the ticker fires, loops turn, a job returns (weak).
- `Views` and `Serving`: weak on the ticker, the channel, the drain and on a
  request that has sent its answer; strong on `StartDrain`, because Go's `select`
  chooses at random among the cases that are ready, so a cancelled context cannot
  be passed over for ever. Writes have a timeout of five seconds, and
  `srv.Shutdown` has one too.
- `Imports`: weak on the client's loop, which the server's answer or the end of
  the connection always reaches; nothing is asked of the user, of other pages or
  of the rate limiter.
- `BrowserSession`: scripts run, and the server answers or the connection fails.

The limits of the checks are stated with them: `JobsRecovered` holds when every
image can be rendered (see the second finding).

## Findings

1. `image_delete_retry`. `DeleteFiles` logs a failed storage deletion, and all
   its callers reach it once, after the row was marked deleted. Nothing visits
   deleted rows again. Its comment expects that "cleanup can safely retry
   storage failures" (`service/image_service.go:381-382`). The same holds for a
   process that ends between the commit and `DeleteFiles`.
2. `thumb_starvation`. The reconciliation lists the oldest images without a
   thumbnail, as many as the channel holds. Images that can never be rendered
   stay at the head of that list. When they are as many as the channel holds,
   a younger image whose job was lost is never listed, although "reconcile
   recovers jobs lost during a restart or a temporary queue burst"
   (`worker/thumbnail.go:71`).

Behaviours that the models have and that contradict nothing in the repository:
an object kept after an uncertain commit stays when the commit was rolled back;
the private files of a process that died stay; a 416 keeps the `Cache-Control`
of the image and may be cached as publicly as it; `logout()` takes a 401 for a
session that is over, also when it is the 401 of a page that lost a renewal; a
request let in before a password change may install a new API key after it; an
answer from before a sign-out may replace the cookies of the next sign-in. When
another page signs out during an import, the rest of it is stored anonymously;
the summary then says that the images are under "Mes images"
(`pxl-upload.js:132`), where they are not.

## Proofs

For every number of images, users, accounts, albums, files, requests, tokens,
addresses and every value of the other constants that the named assumptions
admit (`ImageAssumption`, `StorageAssumption`, `ServingAssumption`,
`ViewsAssumption`, `SessionsAssumption`, `AccountsAssumption`,
`AlbumsAssumption`, `ImportsAssumption`, `BrowserSessionAssumption`,
`RateLimiterAssumption`, `GateAssumption`), TLAPS checks:

| Module | Theorems |
|---|---|
| `ImageStoreProofs` | `TypeCorrect`, `LiveImagesServable`, `ClaimsExclusive`, `CountersExact`, `QuotaNeverPassed`, `NoFileForgotten`, `ReclaimedStays` |
| `LocalStorageProofs` | `TypeCorrect`, `ImplementsObjectStore`, `OnlyCompletedSeen`, `NothingLeft`, `ReservationsKept`, `ReserveHolds` |
| `ServingProofs` | `ServingTyped`, `BurnsOnce`, `RangesAnswered`, `CachesKeepPublic`, `ViewsNeverOvercounted`, `NothingLeftUncounted` |
| `SessionsProofs` | `TypeCorrect`, `RevocationFinal`, `RotationLinear`, `SessionsImplementPromise`, `SessionsEndForGood` |
| `AccountsProofs` | `TypeCorrect`, `AdminAlwaysRemains` |
| `BrowserSessionProofs` | `TypeCorrect`, `LosersKeepSession`, `SentAgainHandledOnce`, `CallsGoForward` |
| `ImportsProofs` | `AlbumsMembersOwned` (any client), and of the page `ImportTypeCorrect`, `ImportMembersOwned`, `ConfirmedIsWhole`, `ImagesAccounted`, `CleanEndCompletes`, `FilesStoredOnce`, `NoEndlessImport` |
| `GateProofs` | the limiter alone: `TypeCorrect`, `RetryAfterKept`, `LimiterKeepsWindows`; behind proxies: `CountedAsOneself`, `GateKeepsWindows`, `GateRetryAfterKept`, `TwoWindows`, `Refusals` |

The assumptions are on the constants only: sets that are finite or disjoint,
sizes that are natural numbers; for `LocalStorage` that a storage path is no
private name, as the random names and the layout of the root make it; and for
`Imports` that a selection has the form `planFiles` gives it: one group at
least, and in each group one file at least. TLC evaluates each of them in a run.

The arguments. None of the invariants is inductive alone.

- `ImageStore`. `StoreInv` says where each process stands relative to its row:
  a remover past its conditional `UPDATE` has the image to itself, a stored or
  uncertain upload still has its object, a batch holds live rows until the
  sweep commits. `LockInv` says that an upload has its owner's row alone and
  fits the quota all the while, and that the owner a remover remembers is the
  row's owner or has been removed. With them `QuotaExact` is inductive. That a
  release subtracts exactly what the images weigh is the lemma `Difference`,
  from the additivity of `Bytes`, which is what `ImageAssumption` states of it.
  `GarbageAttended` follows what becomes of each file: an operation that makes a
  row disappear has the files in hand in the same step, and lets go of a file
  only when it is gone or `Leak` has recorded why not. `FileOrigins` closes it at
  the other end: before its put an upload has no bytes, and a thumbnail belongs
  to a row that is or was live. `ReclaimedForGood` needs the same, and that
  a worker reads the original before it stores a thumbnail.
- `LocalStorage`. `Own` says which private names a call has at each of its
  points and that nothing of its files is torn before it renames; `Kept` says
  what a file that is public, or that a reader has open, never loses: its
  bytes, and that they are synced. `StepKeeps` lets each action show only what it
  does to its own job. `WholeObjects` then reads the refinement mapping as "the
  job that wrote the file", and `Publishes`, `FailEnds` and `Stutters` map the
  steps: the two renames are `Put`, failures and deaths are `End`, all other
  steps of a write change nothing that `ObjectStore` shows.
  `OnlyCompletedSeen` is about `ObjectStore` and reaches `LocalStorage` through
  the refinement.
  `ReserveKept` speaks of what is on the disk, which any write changes; its
  invariant `Budget` is about `Charge`, what the uploads admitted may still come
  to hold: all of `MaxSize` while one stages, later the bytes it has. `Charge`
  grows in `Reserve` only, and there it fits, because every element of it is a
  byte on the disk or in a reservation (`ChargeCovered`, an injection, and
  `ReservationsExact`). `DiskAccounted` maps the bytes of the disk back: each is
  charged, or a thumbnail's, a copy's beside its staging file, or the last byte
  of an upload that overshot.
- `Serving`. A request that has claimed a burn image is alone, its view is
  counted and unanswered, and no batch ever holds a burn image (`Claimed`,
  `Uncounted`). `ParsedExact` takes `parseSingleRange` case by case.
  `Publicly`: a request's decision on `Cache-Control` stays true of what it asked
  for, since whether an image is private never changes in a behaviour, and only
  the image's own URL opens the original as itself. `Balanced` is
  `NeverOvercounted` with the requests that are about to offer a view, and an
  equation as long as no view was lost; `Appended` and `Taken` say what a send and
  a receive do to the number of times an image is in the channel. `Control` says
  that a batch is empty except around its write, and that a stop which waited for
  every request finds the channel empty when the drain ends: the equation then
  gives `StopFlushes`.
- `Sessions`. `CredentialInv`: a credential that carries the current version
  belongs to no barred session, because a revocation raises the version and
  revokes all tokens in one step. `TokenInv`: live tokens carry the current
  version. `RotateInv`: a rotation works on the row as it is, and alone.
  `LineageInv`: a login has no token before it is through and one live token at
  most afterwards. The refinement needs all four: `LoginBegins` shows the one
  step that begins a session, `OnlyEnds` covers every other one.
  `SessionsEndForGood` follows from `SessionPromise` alone, through the refinement.
- `Accounts`. `LockInv`: one transaction at a time is past the lock, and what it
  was allowed to remove leaves another administrator. The earlier count without
  the lock plays no part.
- `Albums`. `Looked` and `Read`: an image that a request or an editor has looked
  at belongs to the account it was looked at for, as long as that account is
  there; owners change only when their account goes, and its albums go with it.
- `Imports`. `Answers` is what any client may conclude: the images of an upload
  are made of its first files in their order, a refused request did nothing, an
  answered album holds what it says. `Course` ties `group`, `offset`, `pos` and
  `phase` to the request under way: what it carries is the batch at that
  position of the plan. On these two stand four invariants. `Whole` is
  `ConfirmedWhole` itself. `AllAccounted`: an image that is stored and not shown
  is in the answer under way, or there was trouble. `ProgressMade`: an import
  that was not disturbed has shown the files, and made the albums, of all
  positions before its own. `OncePlaced`: there is a map from images to places of
  the selection, one to one, and as long as the import goes on all of them lie
  before the position reached. It is an existence statement because which of two
  equal files an image was made of is nowhere in the state; each step extends the
  map by the file it stores. `ImportAdvances` is a variant: `Left` has five numbers,
  the groups, the files of the group, the requests of the chunk, its files and the
  attempts that remain, in this order. Every step of the client lowers one of them
  and keeps those before it, and no step of anybody else touches any (`LessStep`),
  so that no import takes infinitely many steps. That the client does take its next
  step is the fairness of `ImportEnds`, and with TLC.
- `BrowserSession`. `Unknown`: a pair of cookies on its way to the browser is
  live or ended by a sign-out, and nobody else has it: not the jar, no request
  under way, no other answer. So no rotation can have used it up before it
  arrives, and the answer that arrives last leaves a pair that still works. A
  renewal that loses sets nothing. `HandledOnce` needs only that a call is
  executed exactly when its answer is one of success. `CallsAdvance` is a variant,
  too: `Left` counts the stages a call may still go through and, within one, how far
  the answer it waits for is. A call that joins the renewal of its page leaves it as
  it is for the others (`AwaitCounts`), and its end moves all of them on
  (`RefreshEndCounts`).
- `RateLimiter`. `SweepInv`: the cutoff of a sweep in progress is two windows
  back or older, so a forgotten visitor is one whose window is over; and a
  promise not yet over belongs to a window that ends before it does.
  `RetryAfterReaches` does the rounding.
- `Gate`. Behind the client's own entry there are only trusted proxies
  (`FoundBehindProxies`), so it is the one the walk finds, whatever precedes it.
  `Counted` says what the limiter knows of a client: it got through, since its
  window began, exactly the tokens that are gone, and in the `Window` ticks
  up to any moment one window's worth before that. Two windows' worth is then the
  most (`TwoWindowsAtMost`), and a refusal comes after a whole one
  (`RefusalsEarned`).

Only model-checked: all liveness properties (`FilesReclaimed`, `JobsRecovered`,
`AdministrationGoesOn`, `StopReturns`, `ViewsSettle`, `CallsEnd`, `ImportEnds`),
since fairness and ENABLED are beyond the prover. What carries three of them is
proved all the same: `GarbageAttended` and `ReclaimedForGood` for `FilesReclaimed`,
`ImportAdvances` for `ImportEnds`, `CallsAdvance` for `CallsEnd`; what is left to TLC
there is that somebody takes the next step. And `Thumbnails!TypeOK`, whose
only claims beyond types are the guards of the channel and the limit of the list
that `SetToSortSeq` sorts. All other safety properties of the runs are theorems.

## What is left out

- Migrations: one transaction behind an advisory lock, of which nothing is
  visible in between. The wiring and the flags of `main`.
- Methods that nothing calls (`SoftDelete`, `IncrementViews`,
  `BurnAfterViewDelete`, the refresh tokens' `CleanupExpired`).
- Of the local backend: that a rename is not followed by a sync of the
  directory, so that a machine may forget the name (never part of the bytes);
  the copy made when the staging directory is within the root but on another
  file system (`EXDEV`), which does what `inside` being FALSE does; the
  arithmetic of blocks. S3 is calls that
  succeed or fail, as steps of `ImageStore`.
- Of serving: the digits of a `Range` header and the list of `If-None-Match`
  (a request has them parsed or unreadable), other headers, and an expired row
  not yet swept, which is a 404 like a deleted one. The thumbnail of a burn image
  is always removed; only the deletion of its original may fail.
- Of the import: `planFiles` and `droppedFiles`, which sort a selection before
  anything is sent (`Plans` are results of them), and all drawing.
- CORS and `CookieOriginProtection`, which answer from the headers of one
  request and keep no state; networks as sets of addresses.
- The audit log and metrics (nothing decides by them), configuration (read once;
  its checks are the assumptions on constants), hashes and random identifiers
  (distinct model values), pixels (an image can be rendered or cannot),
  templates.
- Wording, logging and encodings of answers.

## Plan

In order, with what has been done marked.

1. [done] `ImageStore`, its runs and proofs: the heart of the program.
2. [done] `Sessions` with `SessionPromise`, `Accounts`, and their proofs.
3. [done] `Thumbnails`, `Views`, `RateLimiter` with `RatePromise` and its proofs,
   `BrowserSession`.
4. [done] `LocalStorage` with `ObjectStore`, `Albums` with `Imports`, `Serving`
   on top of `Views`, `Gate` in front of `RateLimiter`, and their proofs.
5. [done] Proofs of `BrowserSession`, of `Imports`, of the two window properties of
   `Gate` and of the reserve of `LocalStorage`.
6. [done] What carries the liveness properties: no file of an image that is gone is
   forgotten or written again, no step of an import or of a call sets it back; and
   what clients may rely on, derived from `SessionPromise` and `ObjectStore`.
7. Migrations and start-up of two servers, should they stop being one
   transaction.
