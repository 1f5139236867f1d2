# TLA+ models of the Caddy LLM gateway

The program is a Caddy module that proxies OpenAI- and Anthropic-style requests
to LLM providers. Requests are admitted and routed by definitions in a config
store (SQLite) or in the Caddyfile. Providers that are reached through a vendor's
CLI account use OAuth credentials that the program obtains, stores, refreshes,
schedules and puts on hold by itself. This directory models the parts that keep
state and run concurrently, checks them with TLC on small instances and proves
every safety property of these runs with TLAPS for every instance: of the
scheduler, the credential manager, the gateway, the request path, logins and the
refresh of tokens.

## 1. Inventory

| part | state | operations | talks to |
|---|---|---|---|
| credential rules `llm/cliauth/credential`, `manager/selector.go` | none; the `Credential` record | the branches of `MarkResult`, quota backoff, `isCredentialBlockedForModel`, `needsRefresh` | used by scheduler and manager |
| scheduler `manager/scheduler.go` | per provider: credentials; per model: entries, ready buckets with cursors, blocked list | `upsert`, `remove`, `rebuild`, `pick`, `setStrategy` | called by the manager under the scheduler's own mutex |
| manager `manager/manager.go` | `creds` map, refresh semaphore, cancel function of the loop | `Register`, `Update`, `Deregister`, `MarkResult`, `Load`, `StartRefreshLoop`, `StopRefreshLoop`, cycles, `refreshOne` | credential store, scheduler, authenticators |
| config store `configstore/sqlite` | one table per kind of object, one JSON row per ID | `Create`, `Update`, `Delete`, `Get`, `List` | manager, gateway, admin API |
| authenticators `llm/cliauth/authenticator` | none between calls; a callback server or a polling loop during a login, an attempt counter during a refresh | `Login` (browser, device), `RefreshLead` with its retries | vendors' OAuth endpoints |
| auth-managed provider `llm/provider/authmanaged.go`, `httputil.go` | none but the context of the call, which carries the picked credential | `Generate`, `Stream`: pick, call with retries, mark | manager, provider implementations |
| provider implementations `llm/provider/*` | an HTTP client per instance | `Generate`, `Stream`, `ListModels`, embeddings | vendors' APIs |
| route policy `gateway/route` | none | key and request admission, target selection | gateway |
| gateway `gateway/agentgateway.go`, `providerresolver.go` | `routes`, the cache of provider instances | `ResolveProvider` and its parts | stores, route policy |
| app `gateway/app.go` | the store, the manager, the gateway | `Provision`, `Start`, `Stop` | Caddy's reload |
| admin API `admin/` | login status per CLI name, sessions | CRUD of routes, keys, providers; logins; deletion of credentials | stores, manager |
| LLM API handlers `api/llmapi` | none | one request, streamed or not | gateway, auth-managed provider |

What is hard here:

* **Three copies of a credential.** Row, map and scheduler are written one after
  the other under different locks, by request handlers and refresh goroutines.
  Any of the writes can fail, be cancelled or be cut off by a crash.
* **An incremental index.** The scheduler keeps buckets and blocked lists per
  model up to date instead of recomputing them, and skips work when it thinks
  nothing changed. Holds end with the passing of time.
* **Refreshing.** A cycle works on snapshots, a bounded number of goroutines
  write them back later, tokens rotate at the provider, errors are ignored.
* **Reads without a transaction.** A request reads route, key and provider one
  after the other while an administrator changes them, and shares a cache with
  other requests.
* **Reload and login.** Two apps share the store during a Caddy reload; logins
  run in the background and report through a shared status table.
* **Calls that share a credential.** A call picks a credential once, retries with
  it, and reports on it with a copy that it reads, changes and writes back while
  other calls do the same, the credential is refreshed or deleted, and the client
  may have left, which cancels the write.
* **Rotating refresh tokens.** The vendor spends a token when it answers, whether
  the answer arrives or not and whether the new token is stored or not; two apps
  may present the same one.

What makes the parts correct: the index serves exactly the credentials that are
not held, best priority first, in turn; the three copies agree when nobody works
on the credential; a refreshed token is the one in use; a slot is always given
back and a due credential is served; a deleted credential stays deleted; a
request is answered from rows that were valid while it ran, and from nothing
else; a weighted choice is fair; a credential is held against only what calls
with it met; every call ends and its client and the manager are told the same;
a rotated token reaches the newest app. `PROJECT.json` lists each hazard with its line
and the properties aimed at it.

## 2. Plan

1. **done** `Credential`, `Scheduler` with its abstract specification
   `CredentialPool`.
2. **done** `Manager` over the abstract pool; `Manager_proofs`,
   `ManagerAgree_proofs`.
3. **done** `RoutePolicy` and `Gateway`.
4. **done** `Exchange`: the request path, from the client's request through the
   pick, the retries and the report to the answer or the stream. Composes
   `CredentialPool` and the rules of `Credential` with the callers.
5. **done** `Login`: `admin/cliauth.go` with the browser and device flows of
   the authenticators, across reloads; `Login_proofs`. Left: admin sessions,
   which live in the handler without an expiry.
6. **done** `TokenRefresh`: the refresh loops of several apps over one store as
   `app.go` runs them during Caddy reloads, with the authenticators' retries and
   the vendor's rotating tokens; `TokenRefresh_proofs`.
7. **done** Theorems for all invariants and action properties of the passing
   runs, and the refinement `ImplementsPool`: the modules above and
   `Scheduler_proofs`, `Exchange_proofs`, `Gateway_proofs`. Left: a theorem that
   says of `Answers`, the reference of `OutcomeIsDecided`, that its outcome is
   unique but for the weighted choice, and what the two violation runs of the
   manager leave true once their cause is excluded.

The abstract specifications worth having are `CredentialPool` (written) and, for
the gateway, the declarative answer `Answers` (written, as a reference in
`Gateway`).

## 3. Modules

### Credential (`credential/*.go`, `selector.go`, `manager.go`)

The record with the fields that some condition reads, and pure operators on it:
`BlockedForModel`, `NeedsRefresh`, `Backoff`, `ApplyResult` (the branches of
`MarkResult`), `Loaded` (the status that `Load` resets). Time is a natural
number and 0 is Go's zero time. A token is the number of the token pair the
vendor issued, 0 when there is no refresh token. A model name is the sequence of
its segments between colons, which is all that `canonicalModelKey` looks at.
`ModelStates` is a total function with `None` for the missing keys.

### Scheduler and CredentialPool (`scheduler.go`, `selector.go`)

Each method holds the scheduler's mutex, so it is one action. A shard is built
by the first pick of its model and then maintained by `UpsertEntry`,
`RemoveEntry`, `PromoteExpired` and `RebuildIndexes`, with the code's early
return when state, retry time and priority are the same. Buckets hold the
credential of the time of the last rebuild, as the code's slices of pointers do.
`round` is a ghost, the IDs a bucket served in the current turn. The inputs are
credentials the manager can hand over (`MCScheduler`).

`CredentialPool` says what the scheduler is for: a set of enabled credentials,
the latest version per ID, and a pick that returns the ID of an unheld one of
the best priority, or the reason why there is none. `Scheduler` implements it
(`ImplementsPool`): `pool` is the credential of each ID, `answer` the last pick
by ID. Which version of the credential is returned is not part of it, because
the code returns stale ones (`PickIsLatest`, section 5).

### Manager (`manager.go`, with `jsonstore.go` and `RefreshLead`)

`ops[t]` is the operation a goroutine is in. `Register` and `Update` are three
steps, `Persist`, `WriteMemory` and `WriteSchedule`, each the code between two
lock operations; `PersistFails` is every way the store may refuse (row there or
missing, context cancelled, I/O error) and returns before the map is touched, as
the code does. `MarkResult` computes the new credential from the map and calls
`Update`. `Deregister` empties the map, then the scheduler, then the store.
`RunRefreshCycle` takes the snapshot; `SpawnRefresh` and `CycleFull` are the two
cases of the semaphore's `select`. A candidate whose provider has no refresher
is passed over without any effect and does not appear. `refreshOne` is an
`Update` to refreshing, the call to the vendor (`RefreshSucceeds`, `RefreshFails`,
`RefreshAnswerLost`, `RefreshNothing`) and another `Update`, whose error it
ignores. `Restart` is a crash and the next process up to the end of `Load`.

The scheduler is represented by its pool. `issued` is the vendor's latest token;
a refresh with an older one can only fail. Two ghosts say when an operation met
another on the same credential (`overlapped`) and when one was cut short by a
fault (`faulted`); the properties use them to say what is *not* promised.

### RoutePolicy and Gateway (`gateway/route`, `agentgateway.go`, `providerresolver.go`, `admin/routes.go`)

`RoutePolicy` holds the pure parts: admission by key and policies, and
`SelectTarget`, which gives the set of targets that some value of `rand.Intn`
leads to. A slice of targets that the code filters out of a route is the set of
their positions, and the sum of weights is that of unbounded integers: weights
whose sum overflows Go's `int` are left out. `Gateway` has the requests' steps,
one per store call or lock: load the route (`LoadRoute`), write it to `g.routes`
(`EnsureRoute`), read the key, check and select (`Admit`), read the provider row
(`ReadConfig`), look into the cache (`ReadCache`), build and cache
(`WriteCache`), fall back to the static provider (`ResolveStatic`). Each admin
handler is one statement on one row. Histories are the rows that an earlier
process left. `seen[t]` is a ghost: the rows that were current at some time
since request `t` began. `StaticTable` is what `SetRoutes` leaves in `g.routes`;
`OutcomeIsDecided` excepts the static routes that a route store hides
(`HiddenByStore`), which `gateway_static` shows not to be served.

### Login (`admin/cliauth.go`, `authenticator/*.go`, `app.go`)

A login is a POST and the goroutine it starts; it also stands for its OAuth
state, its PKCE verifier and the credential it builds, which are fresh random
values in the code. `HandleCLIAuth` writes the running entry; the goroutine then
goes through a browser flow (`Listen`, `HandleCallback`, `TakeResult`,
`RefuseResult`, `CallbackTimeout`) or the device flow (`RequestUserCode`, `Grant`,
`PollSucceeds`, `PollFails`), exchanges its code, registers and reports. `port`
says whose callback server listens where, `resultCh` is the server's channel of
one slot with its non-blocking send. The deferred `stop` of the server is part
of every step that leaves `loginWithBrowser`. `pages` are the authorization pages
users have open: a page may send its callback at any time, also after its login
has ended, and more than once, and the server that listens on the port then
takes it. `Flow` tells codex and claude (state check and PKCE) from gemini (a
constant state that is not checked, no PKCE) and from codex's device flow.
`RedirectPort` is a constant of its own because the redirect URIs of codex and
claude name a fixed port, whatever `callback_port` says.

`Provision` and `Switch` are a reload: the new app loads the rows while requests
still reach the old one. `home` is the app whose handler and manager a goroutine
goes on using. `Register` is one step here; `Manager` has its three writes.
`regAt` is a ghost, the latest app at the time of the registration. Deleting
credentials is left to `Manager`.

### Exchange (`api/llmapi/*/handler.go`, `authmanaged.go`, `httputil.go`, `llm/provider/*`)

`calls[q]` is the goroutine of request `q`: what was asked, the instance that
serves it, what `pickCredential` put into the context, the statuses of the
attempts, the report, and what the client has been sent. `ServeLLMApi` is the
handler up to the gateway; any answer of `ResolveProvider` may come (`Resolve`,
`ResolveFails`), since the answers themselves are `Gateway`'s part.
`PickCredential` and `PickNone` are `pickCredential`: `ShouldUseCredential`, then
a pick that is the abstract pool's (`Pool`, an instance of `CredentialPool`, so
what is checked here holds for the scheduler that implements it). The pick may
hand over an older token, as the scheduler does (`PickIsLatest`, section 5).
`CallSucceeds`, `CallFails` and `CallCancelled` are one attempt: `SecretFor` says
which secret each of the five providers presents, `WrapEinoError` and
`MoreAttempts` are the classification and the loop of `RetryGenerate`, which does
not look at the context. `MarkResult` copies the credential and computes what
becomes of it by `ApplyResult` of `Credential`; `Update` and `UpdateFails` write
it back with the request's context. `Reply`, `StreamChunk` and `StreamEnds` are
the answers of both handlers.

The three copies of a credential, which `Manager` takes apart, are one here, and
a deletion (`Deregister`) is one step. A refresh takes its copy (`BeginRefresh`),
writes it back as refreshing (`MarkRefreshing`) and, with the vendor's answer in
the same step, writes what has become of it: a new token (`RefreshSucceeds`), the
status error with a time for the next try (`RefreshFails`) or the status active
(`RefreshNothing`). Each write may fail and its error is ignored. When a token
expires is left open, and two refreshes of one credential at a time are left to
`Manager`. `blame` is a ghost: the ways in which calls that had picked a
credential failed in the end with their clients waiting, and whether a refresh
of it failed.

### TokenRefresh (`manager.go` refreshOne, `RefreshLead` of codex, claude and gemini, `app.go`)

An app is a configuration: `Provision` loads the rows while the previous app
runs, `Start` and `Stop` start and cancel the refresh loop, in Caddy's order:
the new one starts before the old one stops. `refresh[a][id]` is the goroutine
of app `a` for a credential, `store` the rows all apps share, `creds[a]` an
app's copies, `live` the refresh token the vendor accepts. `Begin` is a cycle
that finds the credential due, `MarkRefreshing` and `Write` are the two
`Update`s of `refreshOne`, which change nothing when the context is cancelled.
The vendor's answer is a step before its arrival (`VendorRotates`,
`VendorKeeps`, `VendorRefuses`, then `ReceiveToken`, `ReceiveRefusal` or
`AttemptFails`), so an answer can get lost after the token is spent. `Retried`,
`CodexRefused` and `WaitEnds` are `refreshTokensWithRetry`; codex alone gives up
on a token that was reused, when the text of the refusal says so, which the
vendor decides. `CodexToken`, `ClaudeToken` and `GeminiToken` are the three
`applyTokenToMetadata`: the first two write the answer's token even when it is
empty.

The manager's semaphore, its two cycles on one credential, failures of the store
other than a cancelled context, and the request handlers are left to `Manager`.
`reuses` and `unheard` are ghosts of a refresh: how often it showed the vendor a
spent token, and how many of the refusals did not arrive or did not say why. Two
more ghosts name what is not promised: `crossed`, the credentials of which one app
held a copy while another refreshed it, and `lost`, those whose new token did not
get into a row.

## 4. Runs that pass

| run | instance | shows |
|---|---|---|
| `scheduler_picks` | 3 credentials, 2 providers, 2 priorities, the empty and one named model, 3 time units, inputs after each kind of outcome | `PlacementAgrees`, `IndexesAgree`: the maps and the incremental indexes match after any sequence of operations; `ImplementsPool`: a pick returns an unheld credential of the best priority, or says that there is none, relative to the code's own rule for holds (`BlockedForModel`); `EvenRotation`: nobody is served twice before everybody was served once, between two rebuilds; `HeldUntilRetryOnly`: a hold ends at a time its credential asked for |
| `manager_faults` | 1 credential, 1 client, 2 refresh goroutines and 2 slots, faults, cancellation, crashes | `SettledAgree`: row, map and scheduler agree when all is quiet; `SemaphoreCountsWorkers`; `NoRowResurrected`: an update that lost to a delete cannot bring the row back |
| `manager_live` | 2 credentials, one of them always due, 1 slot, 2 time units, fair to the program and not to vendors | `SlotsReturn`: a slot comes back unless its goroutine waits for the vendor; `DueIsServed`: a due credential is served unless every slot is kept by a vendor that does not answer; `TokenIsCurrent` and `RefreshingEnds` over retried refreshes |
| `gateway_resolve` | 2 requests, 2 routes, 1 key, 2 providers, 3 configurations, 1 change, read faults, with and without a store | `ServedFromWindow`: a request is served from rows that were current while it ran; `OutcomeIsDecided`: an undisturbed request gets the answer the declarative rules give, but for static routes that the store hides (section 5); `WeightsAreShares` |
| `login_outcomes` | 2 logins over a codex, a gemini and a device authenticator, the browser ones on one port, 3 apps, fair | `StatusIsHonest`: an entry of the status table is true of the login it names, however logins overwrite each other; `PortsComeBack`; `OwnCode`: late callbacks of other logins are not used; `KnownToItsAppAndLater`: which manager knows which credential after reloads; `EndsOrAtVendor` |
| `exchange_calls` | 2 requests, one openai and one anthropic stream, 1 credential and its refresh in steps, 5 instances, one of each provider kind and auth strategy, vendor errors 401, 429 and unclassified, store faults, fair | `BlameIsDeserved`: a credential is disabled, held or has an error on record only for what a call with it met while its client waited, and its status says error only for that or a failed refresh; `SecretIsAccounted`: the two places that choose between credential and key agree; `RetriesAreJustified`; `ClientAndManagerAgree`; `DisabledIsFinal`: once the calls and the refresh under way have ended, a disabled or deleted credential does not come back; `EveryCallEnds` |
| `token_refresh` | 1 credential of any of the 3 authenticators, 2 apps, 3 attempts, 3 tokens, vendors that rotate, omit, refuse or lose tokens, fair | `TokenSurvivesReload`: the newest app and the row have the vendor's token; `RefreshingIsUnderWay`: nothing stays refreshing with nobody at it; `RefreshTokenIsKept`; `ReuseHasACause`: a vendor is shown a spent token only after a lost answer or a crossing reload, and by a codex refresh once more at most than refusals of it got lost or did not say so; `OldAppFallsSilent`: a stopped app's refreshes end although vendors may never answer |

Bounds. Three credentials are the least for a rotation that is not an
alternation, and one of them takes every form there is (another priority or
provider, held, disabled, refreshed). Three time units let a shorter retry hold
and a quota hold end one after the other. No pick has a tried set, because the
program's one caller passes none; the theorem about `ImplementsPool` is for all
of them. In `manager_faults` one credential is enough because credentials share
only the semaphore; its clock stands still, and retries after a failed refresh
are in `manager_live`, which has a clock. `SemaphoreCap` is 8 in the code; one
slot and two rivals make the semaphore full, two slots let two refreshes run at
once. Only authentication errors are marked in `manager_faults`: what an outcome
does to the record is covered by `Scheduler`'s inputs, and here only matters
that the record changes. Goroutines that differ in name only are a symmetry set.
In `gateway_resolve` one change during two requests already gives every order of
one change and the reads and cache writes of two requests; earlier changes are
the histories. In `login_outcomes` two logins are enough for one to meet what
another left behind (its port, its page, its entry), and three apps for a login
to start before a reload, register after it and be loaded by the next one.
Deadlock is not checked there because all logins end. In `exchange_calls` two
requests are the least that can write back copies of one credential over each
other, and one credential is enough because calls meet only on the one they
share; one outside event (a tick, a departure, a deletion, a refresh), or two
where a stream meets a call that may retry with the same credential, may come
between the steps of the calls (`FewDisturbances`, which cuts off only steps
without fairness), and a stream has one chunk before its end, which is all that
tells a stream that breaks at once from one that breaks later. Deadlock is not
checked because all requests end. In `token_refresh` credentials share nothing,
so one is enough; two apps are all that run at a time, and three tokens let each
of them rotate one; the proofs of section 6 have no bounds. There a state
without successor is a deadlock; none exists, since the newest app can always
begin a refresh. Bounds named in the modules: `MaxTime`, `MaxLevel`, `MaxToken`,
`MaxChanges`, `MaxApps`, `MaxFrames`.

Fairness, `manager_live`. Goroutines are scheduled, SQLite calls return
and the ticker fires, hence weak fairness of threads, of the loop's cycle and of
what a refresh goroutine does by itself (`OwnStep`). The vendor owes nothing: the
code sets no timeout on these HTTP clients and the loop's context has no
deadline, so a call may last for ever and keep its slot, which the two liveness
properties name as their exceptions (`AtVendor`, `AllAtVendor`). Without the
exception TLC refutes `DueIsServed`. Only a loop that is stopped ends such a call,
by cancelling its context. The order of candidates is a Go map iteration, which is
random, so a credential that is a candidate of infinitely many cycles with a
free slot is served at some time: strong fairness per credential (`SpawnFor`).
Clients, stopping the loop and the clock have no fairness. The run restricts
handlers to credentials nobody else is working on (`Apart`, which cuts off only
steps without fairness); refresh cycles may still overlap with everything.

Fairness, `login_outcomes`. Only the goroutine's own steps are fair, among them
the time limit of the wait. Users and vendors owe nothing: `EndsOrAtVendor` lets
a login stay in a request to the vendor for ever, since the HTTP client has no
timeout, and such a login also keeps its port.

Fairness, `exchange_calls`. Goroutines run, and a call to a vendor ends, for a
stream with its body: the providers' HTTP clients have a time limit of 120
seconds by default, which is an error like any other. The client, the refresh
loop, the administrator and the clock owe nothing.

Fairness, `token_refresh`. Caddy starts the app it has provisioned and stops the
one it has replaced, and goroutines run. Vendors owe nothing, because the
authenticators' HTTP clients have no time limit: what ends a call that is never
answered is the cancelled context (`AttemptCancelled`), which is why
`OldAppFallsSilent` speaks of apps that have been replaced.

## 5. Runs that refute a statement of the repository

| run | statement | what happens |
|---|---|---|
| `scheduler_stale` | `scheduler.go:98` "upsert incrementally synchronizes one credential into the scheduler" | a refresh changes only the token, the rebuild is skipped, picks return the old token |
| `scheduler_variant` | `selector.go:121` "strips variant suffixes for consistent model key lookup" | results are stored under the raw name, so the hold of `m:x` is not found by a pick for `m:x` |
| `manager_stuck` | `manager.go:200` "StatusRefreshing is a transient in-process state" | when the last `Update` of `refreshOne` fails it stays until a restart, and the credential is never refreshed |
| `gateway_static` | the repository's `README.md:151` "loads the route definition from the config store when available, otherwise from static app config" (and its Quick Start, which declares the route in the Caddyfile next to a store) | with a store, a route that only the Caddyfile declares answers 503: the loader's not-found error is returned before `g.routes` is looked at (`agentgateway.go:192`) |
| `manager_reenable` | `manager.go:410` "Auth errors disable the credential" | a refresh that began earlier writes its snapshot back and enables it |

More that the modelling met. The models do what the code does, and properties
name these as exceptions where they touch them:

* `selector.go:103` says "fall through to credential-level check", and the next
  line returns not blocked instead (`BlockedForModel`).
* `manager.go:275` "Deregister removes a credential from memory": an `Update`
  that overlaps it puts the credential back into the map or the scheduler. This
  is what `SettledAgree` excludes by `overlapped`.
* `credential_only` falls back to the static key when no credential can be
  picked (`PickNone`, `ResolveCredential`).
* An ollama instance may pick a credential and reports its results on it, but
  never presents it (`OllamaSecret`).
* A stream that breaks half-way is closed with the same frames as one that ended
  and counts as a success of its credential (`StreamEnds`).
* A call or a refresh that read a credential before a 401 disabled it may write
  its copy back and enable it; `DisabledIsFinal` therefore begins when they have
  ended.
* When the client has left, the write of a 401 or a 429 is cancelled and nobody
  is told (`UpdateFails`).
* Logins of the same CLI name overwrite each other's entry in the status table.
* `Load` resets a refreshing row because "the refresh never completed"
  (`manager.go:200`). During a reload the old app is still at it: the new app may
  present the spent token, fail, and write it back over the rotated one. This is
  what `TokenSurvivesReload` excludes by `crossed`.
* codex and claude erase the refresh token when an answer comes without one
  (`CodexToken`, `ClaudeToken`); from then on the credential is never refreshed.

## 6. Proofs

The theorems about the manager hold for every choice of the constants that satisfies
`ConstantsAssumption` and `ManagerAssumption`: any sets of IDs, clients, loops
and results, any finite set of workers, any capacity, with or without faults and
crashes.

`Credential_proofs` has the lemmas about the record: each operator of
`Credential` that builds a credential returns one, with the same ID.

`Manager_proofs` has the invariant
`TypeInv == TypeOK /\ Shapes /\ OwnIds /\ SemaphoreCountsWorkers`.
`TypeOK` alone is not inductive: `Shapes` says which fields an operation has at
which `pc` (a thread about to persist has a credential, a worker in a call a
snapshot, a client never waits for a release), and `OwnIds` that whatever is
filed under an ID carries it. `SemaphoreCountsWorkers` needs `Shapes` to know
that only workers reach `release` and only from a slot they hold; its steps are
cardinality arguments on the set of active workers.

* `TypeCorrect`: `Spec => []TypeOK`.
* `SemaphoreSafe`: `Spec => []SemaphoreCountsWorkers`.
* `RowsComeFromRegister`: `Spec => NoRowResurrected`, an action property that
  needs `Shapes` for the step that writes a row.

`ManagerAgree_proofs` first proves `Agreement`: `Spec => []SettledAgree`, with
`IInv == TypeInv /\ AgreeInv` and `AgreeInv == Exclusive /\ Stages /\ AtRest`.
`Exclusive`: on a credential without overlap at most one thread or cycle is at
work. `Stages`: what the three copies are at each `pc` of that thread, for
instance that after the store write the map and the scheduler still hold what
the row held before. `AtRest`: they agree for a credential nobody works on.
`SettledAgree` is `AtRest` for credentials without overlap; the other parts carry
it through the operations, with one step per action and a lemma for the steps
that leave the three copies alone. `IInv` was checked with TLC before.

Its second half proves `TokenAlwaysCurrent` (`TokenIsCurrent`) and
`RefreshingAlwaysEnds` (`RefreshingEnds`) with `TokenInv` on top of `IInv`.
`TokenStage` says what the credential in a thread's hand is worth at each `pc`,
for one without overlap and fault: what is about to be written has the latest
token and is not refreshing, unless it is the first `Update` of a refresh, whose
snapshot then has both. `Snapshots` says that a snapshot which waits in a cycle
is still what the map holds. The step that needs all of it is a failing second
`Update` of `refreshOne`: by `Agree` a credential that is in the map has its row,
so the store did not refuse it for a missing row, and the failure is a fault. A
restart needs `Agree` too, to say that the row it loads is what the map was.

`Login_proofs` proves `TypeOK`, `StatusIsHonest`, `PortsComeBack`, `OwnCode` and
`KnownToItsAppAndLater` under `LoginAssumption`, which only gives the constants
their types: any number of logins, authenticators, ports and apps. The invariant
is `LoginInv`. `TypeOK` needs that a login which exchanges a code has one
(`Coded`). The others use `Flows` (a login that has begun has a CLI name, and
only browser logins wait for a callback), `Owned` (the code and the state of a
callback are of the same page) and `Rows` (a row exists exactly from the
registration on, and managers know only rows); `StatusIsHonest` rests on `Flows`
and `Rows`. Each part has a lemma with one step per action.

`TokenRefresh_proofs` proves the five invariants of `token_refresh` under
`RefreshAssumption`: any number of credentials, apps, attempts and tokens, any
set of vendors that omit tokens. A first part states once per action all that it
does (`BeginMoves`, `MarkMoves`, ...), and that it touches only its own app and
credential (`LocalStep`); the invariants are then carried by these facts.

* `RefreshTypeCorrect` (`TypeOK`) needs `Shape`: which apps have copies, that a
  goroutine belongs to a started app and has a copy, that one about to write has
  what to write, and that the newest app is not stopped.
* `MarksEnd` (`RefreshingIsUnderWay`) needs `Marked`: what goroutines copy and
  write back is never itself marked as refreshing, so the last write of a
  refresh that is not cancelled takes the mark away.
* `ReuseAlwaysCaused` (`ReuseHasACause`) needs `Provided`, that copies have the
  provider of their row, `Heard`: a codex refresh under way has shown a spent
  token as often as its refusals went unheard, and once more while one is on its
  way or has just made it give up; and `Current`, of which below.
* `TokenKept` (`RefreshTokenIsKept`) needs `Kept`: copies, answers and what is to
  be written have a refresh token too, or the answer is gemini's.
* `TokenSurvives` (`TokenSurvivesReload`) needs `Current`: for a credential that
  is neither crossed nor lost only the newest app is at work on it, it has shown
  no spent token, and at each `pc` the token it carries is the vendor's or none, in
  the copy, in the answer or in what is to be written.

`Scheduler_proofs` holds under `SchedulerAssumption`: any finite set of IDs, any
inputs, models and tried sets. Here the slices of the code are sets and the
smallest ID, the best priority and the earliest retry are choices in finite
sets, which exist by well-founded induction on subsets (`FiniteMin`). The
invariant `SchedInv` has `PlacesOK` (the maps by provider and ID), `ShardsOK`
(for every shard that exists its entries are those of its provider's
credentials, each with the state that `BlockedForModel` gave it at some time up
to now, and buckets and blocked list partition the entries) and `LastOK`.

* `SchedulerTypeCorrect`, `PlacesAlwaysAgree`, `IndexesAlwaysAgree` and
  `NobodyHeldForGood` follow from it. The early return of `upsertEntryLocked` is
  where the proof has work: state, retry time and priority are all that an index
  depends on, so it is still right, while the bucket keeps the old pointer.
* `RotationIsEven` (`EvenRotation`) needs `RotationInv`: the ghost `round`
  has exactly those of a bucket that come before its cursor. It assumes
  `TriedSets \subseteq {{}}`, as the run does: the program's one caller of `Pick`
  passes no tried set (`authmanaged.go:71`), and with one a turn skips.
* `SchedulerImplementsPool`: `Spec => ImplementsPool`, the initial state and one
  lemma per action that maps it to a step of `CredentialPool` or a stutter. The
  pick has the weight: promoting what has expired and then looking at buckets
  finds exactly the unheld credentials of the best priority, and the error it
  returns instead is the right one.

`Exchange_proofs` holds under `ExchangeAssumption` and `ConstantsAssumption`: any
requests, instances, errors and credentials. `ExchangeInv` has, for each call,
what its fields say at each `pc` (`CallsOK`: the log has no more attempts than
allowed, only the last may be final, the report is that of the log), and for the
ghost `BlameOK` and `RefreshOK`: a report on its way, and a copy that a call or a
refresh is to write back, claim nothing that `blame` does not have.
`BlameIsDeserved` alone is not inductive because such a copy may be written after
others; what a refresh changes in it keeps it deserved, a failure because it is
itself put on record. `DisabledStaysFinal` is an action property: no step of a call
that has picked the credential and no refresh of it is left, and none can begin.

`Gateway_proofs` holds under `RoutePolicyAssumption` and `GatewayAssumption`: any
routes, keys, providers, requests and changes, and any rows an earlier process
left. Its first half is about the rules:

* `Cuts` is a recursive function over the positions of a route's targets.
  Induction is written as the least counterexample (`Least`), which the library
  gives without an operator parameter. It yields `CutsFacts` (cuts increase by the
  weight of each member of the slice), `ChosenShare` and `Shares`: the numbers
  that lead to a target are an interval as long as its weight. That is
  `WeightsAreAlwaysShares`.
* `SelectionIsChoice`, `PolicyAgrees` and `UsableAgrees`: the code's order of
  checks gives what the declarative `Answers` says.

The second half carries `GatewayInv`, which says for each request that what it
has read so far was current at some time since it began (`SeenOK`, `RouteOK`,
`AdmittedOK`, `ConfigOK`, `ServedOK`) and that its answer is the one its rows
decide (`AnswerOK`). `AlwaysServedFromWindow` and `OutcomeAlwaysDecided` follow.
One lemma says that what a request has seen only grows (`Grows`), which takes
care of administrators and of the steps of other requests. Two rules had been
written with a `CASE` whose guards overlap, which TLA+ leaves open; the proof
failed there, and they are now nested conditions in the order of the code.

The inductive invariants were checked with TLC on the instances of section 4
before they were proved. Assumptions such as `None \notin Entry` and
`None \notin BOOLEAN` say that Go's nil is none of the values it is told from.

Only model-checked: the liveness properties (`SlotsReturn`, `DueIsServed`,
`EndsOrAtVendor`, `EveryCallEnds`, `OldAppFallsSilent`), which need `ENABLED` and
fairness and are out of the prover's reach; and the five runs of section 5,
which exhibit a behaviour. What `ComputeBackoff` computes for every level is not
stated: its doubling would need a closed form of a recursive function, and
the proofs only need that it is a duration.

## 7. Not modelled

* Planned, see section 2: admin sessions.
* In the request path: listing models, which is passed on without a pick or a
  report, and embeddings, which no handler calls; headers; the JSON of messages
  and frames. The delays
  between attempts are not modelled, since nothing depends on their length.
* Two refresh cycles of one app on the same credential in `TokenRefresh`; they
  are in `Manager`.
* In a login: what tokens and claims contain, the caddyfile options, the pages
  that are served, claude's state in the fragment of a code.
* `SetStrategy` as two steps of the manager (snapshot, then rebuild): no caller
  outside the package; atomic in `Scheduler`.
* `Register` over an existing ID is refused by the store's `Create` although its
  comment (`manager.go:215`) promises a replacement. Logins use fresh UUIDs.
  The refusal is modelled (`RowAccepts`).
* In the gateway: `Route.Disabled`, which no code reads; `ModelMap`; the retry,
  quota and rate-limit policies, which are parsed and not used; `ValidateRoute`
  and `Reset`, which have no caller.
* Message converters, Caddyfile parsing, loggers: pure
  conversion or I/O. MCP, memory and agent packages: stubs.
