# Gruff, in TLA+

Gruff is a Go web portal that hands out short-lived credentials: OpenVPN client
profiles (X.509 certificates) and SSH user certificates. A user is identified by
a proxy's headers or by an OpenID Connect login, is issued a credential for a
profile their roles allow, and can revoke it. What was revoked is published as a
CRL for OpenVPN and a KRL for sshd, on a volume both servers read.

This directory holds TLA+ models of that program, the TLC configurations that
model-check them on small instances, and TLAPS proofs that hold for every value
of the constants. `tlc -config X.cfg M` runs a configuration, `tlapm M.tla`
checks the proofs of a module; `PROJECT.json` lists the runs, the theorems, the
source lines every definition stands for, and a mutation of the code that breaks
each property.

## Inventory

| part | state | operations | who calls it |
|---|---|---|---|
| Session store (`internal/portal/session.go`, `revoke.go`) | `sessions`, newest first, at most `Max`; `revoked` | `Add`, `For`, `All`, `Tracked`, `Revoke`, `Revocations`; each under one mutex, each pruning | handlers, publishers, the metrics gauges |
| Revocation and publication (`revoke.go`, `publish.go`) | none of its own: a list built from the store, a file | `handleRevoke`, `PublishRevocations`, `RefreshRevocations` | a request, `main`, an hourly goroutine |
| CRL validity (`pki/crl.go`) | `nextUpdate` in `crl.pem` | `CA.CRL` | the publishers; OpenSSL refuses all clients past it |
| Start-up and shutdown (`cmd/gruff/main.go`) | the process | load, write the config dir, publish, serve, drain | the operator |
| Issuance handlers (`handlers.go`, `ssh.go`) | none | identify, authorize, limit, sign, `Add`, answer | a request |
| Rate limiter (`ratelimit.go`) | a token bucket per user | `allow`, `sweep` | the issuance handlers |
| Atomic file (`atomicfile.go`) | a temporary file, and what of it is on disk | write, fsync, rename, fsync the directory | publishers, the config dir |
| OpenVPN config directory (`openvpn/`) | routes, rules, `connect.sh` on the volume | written once at start-up | `main`; read by the VPN server |
| OIDC login (`oidcauth/`, `portal/auth.go`) | none: flow and session cookies in the browser | login, callback, logout | a browser, the provider |
| Session cookie codec (`authsession/`) | a key | `Seal`, `Open`, for one of two purposes | login, the session gate |
| Routes and identity (`routes.go`, `auth.go`) | none | `gate`, `requireSession`, `identify` | every request |
| X.509 CA, SSH CA (`pki/`, `sshca/`) | a key | sign, bounded expiry, CRL and KRL encoding | the handlers, one-shot commands |
| Configuration (`config/`) | read once | load, validate | `main` |
| Metrics, setup page, SSH installer, sign-server, sign-host, Helm chart | counters at most | rendering, one-shot | scrapes, users, operators |

How they interact. A handler asks the limiter, has a CA sign, and `Add`s to the
store. A revocation looks a serial up in the store, records it there, and
publishes: read the store, build the list, replace the file, for the CRL and
then the KRL. The hourly refresher and `main` publish in the same way. The store
is shared memory behind a mutex; the files are shared with two servers that
re-read them at every connection.

What is hard. No lock spans the read of the store and the rename, so publishers
overtake each other. A publication may fail half-way, and the handler only logs
it. The process loses the store when it dies and keeps the files. The bounded
store drops sessions that may still be revoked. The CRL expires if the refresher
lags. The limiter sees times out of order. A browser has several tabs and one
cookie jar. The config directory is rewritten file by file under clients that
connect, by starts that may die half-way and have different configurations, on a
machine whose power may fail. Issuing reads the session, the limiter, the CA and
the clock one after another, and a credential exists before anything knows of it. `PROJECT.json` lists each of these hazards at its line, with the
properties that cover it.

What makes each part correct is in the properties below. How the modules build on
one another:

```
AtomicReplace <- AtomicFile (refines it) <- Startup -> Config
SessionStore  <- MemoryStore (refines it)
SessionStore  <- Revocation (extends it)
RateLimit     <- RetryAfter (extends it)
RateLimit, SessionStore <- Issuance (instances) -> Config
CrlRefresh, Login
```

## Modules

### SessionStore — what the store promises

The store as two sets of serials over a log of the issued credentials, any of which
may have ended before it was added. A serial
is the position of its credential in the order of the `Add` calls: that is all
the eviction rule can tell from the position in the slice. One action per
method: `Add`, `Look` (`For`, `All`, `Tracked` and a failed lookup, which prune
and differ in what they return only), `Revoke`, `ReadRevocations`; `Tick` is the
clock. `Prune` is the rule of `prune`: drop the expired, then the
shortest-lived, the oldest first on a tie, down to the bound.

* `HeldAreTheLongestLived`: the unexpired sessions in the store are exactly the
  longest-lived of *all* unexpired credentials ever issued. It is about history:
  an eviction must never be regretted when room opens up later. The comment in
  `session.go` says why eviction by age would be wrong, and the mutant that
  evicts by age breaks it.
* `HeldAreBounded`, `RevocationsAreHeld`: the bound holds after every call; a
  revocation is held exactly as long as its certificate may be valid, though its
  session has left the store.

### MemoryStore — the slices, and their refinement

The code's data structures: `prune` drops what expired, sorts the positions of the
rest by `Sooner`, drops a prefix of that order and rebuilds the slice from what is
left (`Keep`: `slices.DeleteFunc` and the loop at the end of `prune`). That the loop
writes over the array it reads is left out: what is modelled is the order it yields,
on which the next tie-break relies. `Revoke`
appends unless the serial is there. A sorted list is the one that is sorted
(`Sorted`), which is unique, as `Sooner` never holds both ways.
`NewestFirst` and `RevokedOnce` are its own invariants, and
`ImplementsSessionStore` is the refinement: with `held` and `revoked` mapped to
the serials in the slices, every step of `MemoryStore` is a step of
`SessionStore`. Its run checks the store's two retention properties on the slices
too, so that a slip in the slices is seen as what it costs.

### Revocation — from the request to the files

Composes `SessionStore` (EXTENDS) with the goroutines that publish: any number
of handlers, the refresher, and `main` at start-up. A publisher moves through
`readCRL`, `writeCRL`, `readKRL`, `writeKRL`, each one atomic step of the code (a
method under the mutex, or a rename), so every interleaving in between is
explored. `handleRevoke` is `LookUp` (prunes, finds the serial among what its
caller sees), `Record`, and then a publication: three separate lock regions.
`Lists` are the kinds there is a CA for: a deployment of SSH only begins at `readKRL`.
`FailedWrite` fails before the rename, or after it when the fsync of the
directory does, and skips the rest of `publishRevocations`. `Crash` clears what
is in memory; the files stay.

* `OnlyRevokedAreListed`: a list never refuses a credential nobody revoked, nor
  names a serial of the other kind, whoever wrote it and when.
* `SnapshotNamesItsTarget`: between `Record` and the rename, other publishers
  prune the store and evictions drop the session; the list the handler is about
  to write still names what it was asked to revoke.
* `ServesWithItsLists`: no path, through failures and crashes, leads to serving
  with a list missing.
* `RevocationTakesHold` (liveness): a recorded revocation is in the end refused
  for good, whatever was written over it meanwhile.
* `OnlyOlderListsUndo` (action property): a recorded revocation can be undone only by
  a list that was built before it, and by each of them once: nobody builds a list
  without it any more. It is what remains true of `ListedStaysListed`.
* `SettledRevocationsHold` (temporal, and safety): so once a list names a revoked
  credential and none of those older lists is left to be written (`Settled`), it stays
  refused for the rest of the process's life, by whatever is published next.
* `ListedStaysListed`, `StartupKeepsRevocations`: what the documentation says
  and the code does not do; see Findings.

### CrlRefresh — is crl.pem ever out of date

The clock is explicit here and the contents are not: `nextUpdate` of the file,
of the list the refresher built, and of those that handlers have built and may
still rename on top. The ticker's channel holds one tick. `CrlIsCurrent` says
that `now` never passes the `nextUpdate` on disk.

`RevocationsListedInTime` reads the same clock the other way: when the list on disk
was built. The store had by then every revocation that was recorded earlier, so the
property bounds, in ticks, how long Revocation's races and failing writes can keep one
off the list: the failing cycles and one more, and a lag at either end. A refresher
that left a list alone while it is valid would keep `CrlIsCurrent` and break this.

### RateLimit — the token buckets

`allow` and `sweep` in integer ticks: `TokenTicks` of refill are a token. A
request reads the clock (`Arrive`) before it gets the mutex (`Allow`, `Refuse`),
so calls reach a bucket out of the order of their times; `Refill` may then be
negative, and `last` move back, as in the code. Each call writes the bucket and
sweeps. The buckets are in memory: `Restart` empties them, and the histories with
them, so that every property is about what one process does.

* `BudgetHolds`: from any credential on, one process granted a user at most the
  capacity and what refilled since. A swept bucket must give nothing away. The slack is
  what overtaking can blur: `MaxLag`, once and twice more per sweep of that user.
* `RefusedOnlyWhenSpent` (action property): when a request is refused, some
  window of grants shows that its user has no token left.
* `WaitIsEnough`: see Findings.

### RetryAfter — what a 429 promises

RateLimit with a history: when each user was told to come back, since its last
credential. `Grant` and `TooMany` are `Allow` and `Refuse` with what `rateLimited`
answers. A promise outlives the process that made it: after a restart the bucket is
full.

* `PromiseIsKept` (action property): a user who comes back half a second later than any
  such moment, or later, is not refused, though requests of that user were refused or
  overtook each other meanwhile and buckets were swept. A refusal writes the bucket
  too, so it rests on none of those taking anything from what refills.

### Login — browsers, tabs and cookies

Gruff keeps nothing of a login: the flow (state, nonce, verifier, deadline) and
the session (user, deadline) are sealed cookies. So the state is the browsers':
`jar` is what each browser holds, `tab` what each of its tabs is doing, `logins`
the log of the logins that were started, with who signed in and which browser
used up the code. A request carries the cookies of the moment it is sent
(`Send`); an answer changes the jar when it arrives (`Receive`), whatever other
tabs did meanwhile. `Lose` drops a request or an answer, `Reopen` opens a
callback a second time, in any browser.

The handlers are an action for each outcome: `requireSession` (`PassGate`,
`Bounce`) and then, later and with the clock read again, `identify` (`Serve`,
`ServeNobody`); `handleLogin` (`SkipLogin`, `Start`); `handleCallback`
(`RefuseFlow`, or `CheckFlow` and after the provider's time `Exchange` or
`FailExchange`); `handleLogout`. `WriteTimeout` is the server's 15 s: what a
handler answers after it reaches nobody.

* `SessionIsOwn`: whichever callbacks are opened where, a browser holds only
  sessions of logins that it started, of the user who signed in there.
* `CodeIsSpentAtHome`: a browser in which somebody else's callback is opened
  does not use up the code, and so does not spoil the other's login.
* `AccessEndsWithAccount` (action property): once the provider disables an
  account, the last request is served as that user within the session's
  lifetime, and the flow's and the answer's that a login in flight adds.

### AtomicReplace, AtomicFile — replacing a file

`AtomicReplace` is what package atomicfile promises: a name is a register,
replaced in one step; a power failure leaves one of the versions since the
directory was last settled. `AtomicFile` is the code: `Create`, `Render`, `Sync`,
`Rename`, `SyncDir`, by any number of writers at once, and `Fail` at any of them
(also between the rename and the directory's fsync, when the new file is there
and `Write` returns an error). `Die` ends the process with its writers;
`PowerLoss` leaves, of every name, one of the files it led to since its directory
was last synced, torn if that file's contents were not. A version's number `at`
counts the renames of its name.

* `NeverTorn`: no name leads, or can be made by a power failure to lead, to a
  file with half its contents.
* `ReturnedIsDurable`: a `Write` that returned is not undone: whatever a power
  failure leaves is that version or a later one.
* `ImplementsAtomicReplace`: every step of the code is a `Replace`, a `Settle`, a
  `Lose` or nothing.

The random name of a temporary file is taken not to repeat, and the creation of
the directory to be durable.

### Config — which configurations Gruff serves

Pure operators: `Valid` is `Config.validate` with all it calls, `LoadCA` and
`LoadSSHCA` what `main` makes of the keys, `Loads` all that `run` checks before it
writes a file; `Lookup`, `AllowedFor`, `LocalRoles`, `MergeRoles` are the gate's.
Strings are what their checks tell apart (a text is `"none"`, `"bad"` or `"good"`).

### Startup — from the configuration to a connecting client

Composes `AtomicFile` and `Config` with `main`, the publishers and OpenVPN's
`connect.sh`. `Start` picks any candidate configuration and goes on if it
`Loads`; `BeginItem`, `StepItem`, `EndItem` write the files of `Plan` in the code's
order, each in AtomicFile's steps; `FailItem` ends the process; `Serve`; `Publish`
rewrites a list while serving. `Kill` and `MachineFails` may come anywhere, and a
start with another configuration after them. A client runs the script that is
there (`RunScript`) and, later, copies the routes that are there (`CopyRoutes`):
`main` may be anywhere in between. A body is which start wrote it, for which
profiles. Publication is list by list here; its inner steps are Revocation's.

* `RoutesMatchTheScript`: who is admitted by a script gets whole routes, of the
  profile, of the script's start or a later one. It rests on the order of the
  files (`connect.sh` last), their atomicity, and the directory's fsyncs: the
  script must not survive a power failure that its routes do not.
* `ServesItsConfig`: while Gruff serves, each of its files is what its
  configuration says, to a reader now and after a power failure.
* `ServesWhatItOffers`: each profile offered can be signed for, is found under
  its name, and lasts no longer than the cap. The handlers dereference the CA and
  the template unchecked: this is what makes that right.
* `MatchingRoutesAreHandedBack`: see Findings.

### Issuance — from the request to the credential

`handleIssue` and `handleSSHIssue` over the limiter (an INSTANCE of RateLimit)
and the store (an INSTANCE of SessionStore), in OIDC mode. A request is `Ask`
(the session and its roles are read, the profile authorized, the limiter
entered), `Grant` or `Refuse`, `Sign` or `FailSign`, `Record`, and `Answer` or
`LoseAnswer`; several run at once and the clock goes on between any two steps.
A login is two steps: `Authenticate`, when the provider fixes the claims, and `SignIn`,
when `Complete` has exchanged the code and verified the token and seals them into a
session that lasts from then. Between the two is at most what the flow and the
callback's answer may take, as in Login. `Withdraw` takes a role from the user, of
which neither a login under way nor a session knows. Identity and authorization are
read in one step, as nothing else can change them within the same tick.

`Restart` is the death of the process at any point and its next start with the same
configuration: requests, the limiter's buckets and the store are gone, while cookies,
logins under way and credentials are in other hands. The serials of `delivered` are
those of the store of the process that issued them, and become `Forgotten` with it.

* `CredentialsEndWithRoles`: nobody holds a credential that ends later than what is
  left of a login under way (the flow's lifetime and the callback's answer), a session's
  lifetime, the answer's and its own after the last role that granted it was withdrawn.
  There is no tighter bound: in the run a credential ends at its very end, and so
  would break one that is a tick shorter.
* `DeliveredCanBeRevoked`: a credential that reached its user is in the list from
  which it can be revoked until its last instant, while the process that issued it
  lives, and unless the list is full of credentials that outlive it. What an earlier
  process issued cannot be revoked at all: the store is "gone with the process"
  (`session.go`), and the list "is gone on restart" (the repository's README).
* `ExpiryIsHonest`: what the portal says of a credential's end is right to the
  second and never too early, and no VPN certificate outlives its CA.
* `CredentialsArePaidFor`: over requests that overtake each other and fail, no
  user has more credentials of a process, recorded or on the way, than it took tokens.
* `IssuedWithinBudget`: what the limiter is for. From a user's first grant by a
  process on, the credentials of both kinds that it made for that user come to no more than the bucket's
  capacity and what refilled, up to RateLimit's blur. It relates what was signed and
  recorded to the clock; RateLimit knows of grants only.
* `UsesTheLimiter`: the composition behaves, to the limiter, as RateLimit's
  environment does, so RateLimit's theorems hold of it.

## Runs

| run | module, cfg | question | bounds, and why they are enough |
|---|---|---|---|
| `memory_store` | MCMemoryStore, MemoryStore | slices against sets, and the retention of sessions | 4 credentials, room for 2 (and `Max` 0 so that the default bound is used), lifetimes −1, 0 and 2: one that has ended when it is added, two evictions with ties, a longer-lived arrival after an eviction, and room that opens again by expiry |
| `revocation_safety` | MCRevocation, RevocationSafety | safety of publication | 2 handlers, refresher and main: any of them overtaken by two others; 2 credentials, room for 1, so that a revoked session is evicted; 1 crash anywhere; handlers are symmetric |
| `revocation_liveness` | MCRevocation, RevocationLiveness | does a revocation take hold, and stay once it has | both lists, so that a failure of the CRL skips the KRL; a handler that revokes, the refresher that overtakes and repairs it, and main; 2 credentials, room for 1, expiry within the clock's 1, a crash anywhere. More handlers make more late writers, which `revocation_safety` has; the safety property is proved for any number. No symmetry, which is not sound for liveness |
| `crl_refresh` | CrlRefresh | is the CRL current, and its contents | interval 3, lag 1, 2 failures in a row, 8 cycles; validity 12, a tick more than `WindowIsWide` asks for. Validity 10 would break `CrlIsCurrent`, and a bound of 10 ticks instead of 11 is not kept by `RevocationsListedInTime` |
| `rate_limit` | MCRetryAfter, RateLimit | the budget, and what a 429 promises | 2 users, 2 requests, limit 1, a token and a second of 3 ticks each, so that waits of 1, 2 and 3 ticks are rounded to 0 or 3; a sweep from 2 buckets on, lag 1, 5 ticks: more than the hour of 3 after which a bucket is idle; the process may die at any point, and as often as it may. A limit of 2 is in `wait_is_enough`, and any limit in the proofs |
| `login` | MCLogin, Login | whose sessions and codes, and for how long | 2 browsers, one with 2 tabs (interchangeable), 2 logins, so that a flow cookie is overwritten and a callback opened abroad; 1 user, disabled at any moment; all lifetimes 0, 1 tick: a flow is completed at once or late, a session expires between the gate and the handler, and a tick passes after the bound on a disabled account, which is 0 |
| `startup` | MCStartup, Startup | files, their order, and what is served | 2 starts, each of 5 good configurations (both CAs, one profile withdrawn, SSH only, no config dir, a profile named `rules`) and 48 that must not load, one for each check; main and 2 publishers (symmetric) as writers, 2 versions of a list, so that two renames and a failure fall between two fsyncs; 1 client, as clients change nothing that another sees |
| `issuance` | MCIssuance, Issuance | the handlers' promises | 1 user, with a local role for the VPN profile and one of the provider's, which it may withdraw, for SSH; 2 requests that overtake each other (symmetric), 1 token that refills in 2 ticks, so that the second is granted while the first is still being signed, a store of 1, so that a delivered credential is evicted; the second is 3 ticks, so that a lifetime of 1 and the CA's end at 4 are no whole number of seconds; the clock's 3 reach past the end of a session of 1. A login takes a tick and an answer a tick, which is how long a withdrawn role is seen to last. The process dies at any point and as often as it may, as long as no more than 1 credential was delivered (`MaxForgotten`). No lag at the mutex, which `rate_limit` has |
| `wait_is_enough`, `listed_stays_listed`, `startup_keeps_revocations`, `krl_profile` | | findings | the smallest instance that shows each |

`MaxIssued`, `MaxForgotten`, `MaxTime`, `MaxCrashes`, `MaxBoots` and `MaxVersions` bound the models
only: no code corresponds to them. Deadlock is checked wherever the system goes on
for ever: also at the bounds the store can be looked at, a list built, a request
answered. `startup`, `krl_profile` and `issuance` say `CHECK_DEADLOCK FALSE`: at their
bounds a process that is down is not started again and a clock has stopped.

### Fairness

`RevocationTakesHold` is checked under `FairSpec`. Weak fairness on booting, on
recording, on each publisher's next step and on the ticker says that the
scheduler runs a goroutine that can run and that the ticker keeps firing: the
code has no other condition to wait for, except a mutex held for bounded work.
Strong fairness on the refresher's and main's renames says that a write does not
fail for ever, an assumption about the volume; nothing of the kind is assumed of
the handlers, whose writes may always fail. Without the ticker (a mutant) the
property is violated.

## Proofs

`SessionStore_proofs`, `MemoryStore_proofs`, `Revocation_proofs`,
`CrlRefresh_proofs`, `RateLimit_proofs`, `Login_proofs`, `Startup_proofs` (which has
AtomicFile's proofs too) and `Issuance_proofs` prove every invariant, action property
and refinement that a passing run checks, for every value of the constants that
satisfies the modules' named ASSUMEs.

* SessionStore. The type invariant is inductive, and so is `RevocationsAreHeld`
  with it. `HeldAreTheLongestLived` rests on a lemma about the rule itself: the
  longest-lived of a set that contains the longest-lived of a larger one are the
  same, so pruning early or late, once or often, makes no difference. The bound
  counts what the rule keeps. `MissingCorrect` follows: whatever is valid and cannot be
  revoked was pushed out by as many credentials that outlive it as the store holds.
* MemoryStore. `IInv` is inductive: `NewestFirst`, `RevokedOnce`, the types and the
  bound, and `EntriesFollow`, which says that an entry of a slice repeats what the log
  has of its serial: without it nothing relates the order of the slice, which compares
  entries, to that of the sets, which compares serials. A finite set can be listed in
  any strict total order of it, each member at its rank (`ListedInOrder`), so `Sorted`
  and `Keep` are what their definitions say. What survives the cut are then the
  entries that fewer than the bound come after in the sorted order
  (`SurvivorsOfTheCut`), and these are the serials that fewer than the bound outlive
  (`DropSurplusIsLongest`), as long as the slice is newest first. That makes each
  method a step of SessionStore, and its theorems hold of the slices
  (`RetentionOfTheSlice`).
* Revocation. The invariant adds, to the store's, that every snapshot and every
  file names revoked serials of its kind only, that a handler past `Record` has
  its target in `ordered`, and that a list exists once `main` is past it. The
  proof has one step per action; publishers are uniform, so their number does not
  matter. `OnlyOlderListsUndo` follows from it: a list that is read names every
  recorded revocation that still matters (`WhatIsRead`), so a publisher that is about
  to write one without it was so before (`WithoutShrinks`), and the one that takes it
  off the file no longer is (`WhoUndoes`). `SettledHolds` puts the two together:
  nobody is left to undo what is settled. That lasts to the process's end and no
  further, and needs that a serial which a crash took is never ordered anew
  (`LostIsGone`), or it could be recorded and not yet listed.
* CrlRefresh. `CrlIsCurrent` is not inductive. What is: the refresher's last good
  cycle answered a tick at most `failures + 1` intervals before the next one
  (`LastGoodTick`), and what is on disk, or may still land on it, was built no
  more than a lag before that (`DiskIsRecent`). `WindowIsWide` then closes the
  gap. `RevocationsListedInTime` needs it not at all, and no validity: it is what the
  same invariant says of the age of the list on disk, from which `CrlIsCurrent` then
  follows.
* RateLimit. The quantity `tokens - last` of a bucket only falls by grants, and
  a lag at most, between two refills that do not reach the cap: it bounds what was
  granted since any earlier moment (`Solvent`), and in the other direction
  accounts for every tick that is missing (`PaidFor`, `Earned`). A swept bucket is
  idle for the hour after which it would be full. `PromisesAreKept` is about the moment
  a user's token is due, `last + TokenTicks - tokens`: a refusal leaves it where it is,
  also that of a request that was overtaken, and a grant forgets what was told. The wait rounds to less than half a second before that moment (`PromiseInv`),
  which is the arithmetic of `\div`.
* Login. A cookie that is sound in a jar must be sound wherever it goes: the
  invariant states what holds of a session and of a flow (`IInv`), and says it of
  the jars, of the cookies that went with each request and of those that each
  answer sets. Logins are only ever appended or completed, so what was sound
  stays so. `AccessEndsWithAccount` adds the deadlines: a session's is bounded by
  the time its user was disabled, because nobody signs in after that.
* AtomicFile. The invariant `FileInv` says that every file a name may lead to is
  whole and synced, no older than what was acknowledged and no newer than what is
  shown, and that what a writer past the rename has in hand is whole, synced and no
  newer than what is shown: so the directory's fsync acknowledges nothing that it
  did not put on disk. `FilesAreReplacedAtomically` uses it in `PowerLoss`, whose
  torn files do not occur, and maps each step to one of `AtomicReplace` or none.
* Startup. `StartupWritesFiles` shows that its steps are AtomicFile's, so that
  `FileInv` comes with it. `StartInv` adds main's place in its plan, and that main and
  the publishers write only what the plan has. For the two properties of the
  directory, `WrittenInv` says that the items before main's place are what their
  names lead to, now and after a power failure; `ScriptInv` that, whatever survives as
  the script, the routes that it names survive of its start or a later one;
  `ClientInv` carries it over to a client that has read a script. They are proved
  for configurations with `NoKRLProfile`, that is with no profile named `krl`:
  without it they are false, as the finding below shows. `OffersCanBeHad` needs
  no such hypothesis.
* Issuance. `LimiterIsUsed` shows that its steps are RateLimit's, so that the theorems
  about the budget hold of what both handlers grant. `Sound` says what a request has
  in hand at each step and that the store knows of it; `HonestInv` carries a
  certificate's times from `Sign` to `Answer`, and `PaidInv` counts the credentials
  on the way along with those recorded, each of which a grant precedes.
  `IssuanceIsWithinBudget` joins that count to `BudgetIsKept`, a theorem of
  RateLimit_proofs that is used through an INSTANCE: `SameLimiter` shows that the
  limiter there, by itself, is the one that the handlers use.
  `AccessEndsWithRoles` rests on a `Claim`: at a moment that is past, the user's roles
  granted this kind, or were all gone no longer than `SessionWindow` before. A claim
  stays true when a role is withdrawn (`ClaimKept`), a cookie's roles make one
  (`CookieInv`), since the roles of a login's claims were the user's when they were fixed
  (`LoginInv`), and `Answer`'s deadline dates a credential from its request (`Start`).
  `StoreIsUsed` shows that its steps are SessionStore's, or lose the store
  (`StoreLost`). So the theorems about SessionStore, which begin with an empty store at
  time 0, are not used as they stand: `StoreInvHolds` runs their induction once more,
  from their lemmas by name, with the step that empties the store. `DeliveredAreRevocable`
  is then that `MissingFollows`, a fact about the store alone, with what `Sound` knows of
  a delivered credential is what the portal promises its user. The limiter's theorems
  include its restart. They are proved for configurations in OIDC mode, which is all that
  Issuance models.

Only model-checked: the liveness property `RevocationTakesHold`, as its fairness speaks
of ENABLED, which TLAPS cannot reason about. The four properties that are violated are
not theorems; what holds instead is (`OnlyOlderListsUndo`, `SettledRevocationsHold`,
`RevocationsListedInTime`, `PromiseIsKept`, `ServesItsConfig` under `NoKRLProfile`).

## Findings

* `listed_stays_listed`. A publisher that read the store before a revocation may
  rename after that revocation's own list and take its serial off again, until
  the next hourly refresh (`RevocationTakesHold` shows that it does come back).
  `atomicfile.go` calls such a list coherent; it is the older one. How often this can
  happen is bounded (`OnlyOlderListsUndo`), that it ends too (`SettledRevocationsHold`),
  and the time it lasts (`RevocationsListedInTime`).
* `startup_keeps_revocations`. The store is empty after a restart, and `main`
  replaces lists that still name unexpired revoked certificates by empty ones.
* `wait_is_enough`. `Retry-After` is rounded to the nearest second and may be
  too short, or 0. It is less than half a second short (`PromiseIsKept`).
* `krl_profile`. A VPN profile may be called `krl`. Its routes are written to the
  path of the KRL, which replaces them before Gruff serves; `connect.sh` then hands
  its clients the KRL.

Met on the way, and not findings of a run:

* A token bucket that starts full gives almost twice `issues-per-hour` in an hour;
  `conf.yaml` calls it a cap per hour. `BudgetHolds` is the bound it does keep.
* The second of two tabs that log in replaces the one flow cookie, so the first
  tab's callback is refused, and clears the cookie of the second. Login models it;
  its properties say that no session comes of it that should not, and not that either
  login succeeds.
* `pki.go` truncates the time of issue so that the expiry it reports does not drift
  from the certificate's; a `max-session` that is no whole number of seconds makes
  it drift all the same, by less than a second (`ExpiryIsHonest`).
* A profile named `rules` is valid, and start-up fails on it: the name is a
  directory's (the configuration `NamedRules` of the `startup` run).
* A restart gives every user a fresh hour's budget, and takes from every user the
  means to revoke what is valid: `BudgetHolds` and `DeliveredCanBeRevoked` are promises
  of one process.
* A revocation that was recorded when the process dies before the rename is lost, and
  the code promises no other: no property is about it.
* A disabled account is kept out after its session; a credential issued in the
  session's last moment works for its own lifetime after that
  (`CredentialsEndWithRoles`).

## Not modelled

* In Issuance: the mode in which a proxy identifies the user, the characters of a
  username, and an entry that two requests of different users would race for: the
  store and the limiter are each under a mutex. Its restarts keep the configuration
  and the CAs; Startup has those with another.
* In Startup: files outside the config dir (the generated development CA is written
  once, before anything is served), file modes, and a config dir that cannot be
  created, which ends main as a failing write does.
* Pages that only show something (index, setup, issued), counters, the SSH
  installer (a script for the user's machine), `sign-server` and `sign-host` (read
  a key, sign, write a file, exit) and the Helm chart: no state of the program and
  no order of steps to get wrong.
* In Login: the cipher of the cookies, its purposes and a changed key (what a
  browser sends is what was once set under that name), the claims and the roles
  they give, where the login returns to (`safeNext`), the provider's own logout,
  and the mode in which a proxy identifies the user, which has no state.
* The encodings: X.509, CRL and KRL bytes, cookies, templates, the metrics
  exposition. The models keep what an encoding says: which serials, until when.
* The config dir switched off (nothing is published then), and a limit of zero
  (the limiter is nil and allows everything): one guard each.
* The rounding of `float64` in the limiter.
* Draining requests on SIGTERM: the process that dies at any point covers it.
* Handlers that fail in the store: `MemoryStore` never returns an error.

## Plan

Done: the store and its refinement, publication, the CRL's validity, the limiter,
the login, the atomic file and its refinement, the configuration, start-up with the
config directory and its clients, and issuance over limiter and store.

What is left, the most useful first:

1. Revocation over AtomicFile, as one refinement. Revocation decides at the rename
   whether a write fails; the code may still fail at the directory's fsync, when the
   new file is already read. Mapping one to the other takes a prophecy variable, or a
   Revocation in which the rename and the fsync are two steps. `Replace` as one step is
   justified by `FilesAreReplacedAtomically`.
2. The KRL of a serial of 0 (`krl.go:39`), which only a generator of random bits
   that returns 0 meets.
