# Verification of the Super-MCP router

Super-MCP is one MCP server that stands in front of many. It reads a list of
*packages* (stdio or HTTP MCP servers) from configuration files, connects to
each on demand, keeps a catalog of their tools, and offers a small set of
meta-tools to find, run, restart and authenticate them. This directory holds
TLA+ modules for the parts of it where order, failure and concurrency decide
whether it is right, the TLC configurations that check them on small
instances, and proofs, checked by TLAPS, of what must hold on every instance.
Paths below are relative to the repository; line numbers are in `PROJECT.json`
("map").

## 1. Inventory

The program is one Node.js process (or several, each started by another host)
with one thread: code between two `await`s is atomic, and everything hard
happens at an `await`, a timer, a callback, a second process or a kill.

| component | state it keeps | operations | what makes it correct |
|---|---|---|---|
| `catalog.ts` Catalog | `cache` (per package: status, tools, retry, in-flight flag, generation), `configurationGeneration` | begin / finish / commit ready / commit failure / clear / new generation; retry hints, completeness | the tools kept for a package are those of its present configuration; the in-flight flag is lowered by whoever raised it |
| `catalogRefresher.ts` CatalogRefresher | `queue`, `inFlight`, `activeCount`, `wakeTimer`, readiness promise | start, scheduleRefresh, refreshNow, configurationChanged, dispose, registry events, drainQueue, runRefresh with its timeout | limit kept, nobody lost, late answers dropped, retries always scheduled, readiness promises always resolved |
| OAuth token refresh (`auth/refreshTransaction.ts`, `auth/tokenRefreshLock.ts`, `auth/providers/simple.ts`, `refreshOnly.ts`) | the token file and the reconnect marker shared by processes, the lock directory, in-process chains, the echoes each process remembers | the locked refresh transaction, saveTokens, clear and mark, invalidate, shutdown drain | a single-use refresh token is never presented twice by processes that follow the lock, a rotated token is never overwritten by an older one, a dead token is flagged |
| `registry.ts` PackageRegistry: lifecycle | `clients`, `clientPromises`, `leases`, `evictions`, closes under way | getClient, acquireLease / releaseLease, callTool, evictClient, restartPackage, sweepIdleClients, terminal drain, closeAll | every client closed exactly once, never while leased, none leaked, one connect at a time per package |
| `registry.ts` PackageRegistry: configuration | `packages`, the raw `config`, `envRefreshQueue` | load, merge, normalise, reconcile, apply additions, refresh the env before a spawn, restart | a configured package keeps its identity; an old env never comes back; a spawn has the env of its time |
| `configWatcher.ts` ConfigWatcher | watched paths, debounce timer, reload chain | file events, reload of policy then packages | no change is lost; the policy ends as the files say |
| `server.ts` HTTP server and sessions | `sessions`, shutdown flag | session create / touch / idle collection / delete, shutdown | no session collected while used; shutdown runs once and always exits |
| `clients/stdioClient.ts` | request queue (1), abort signal, transport, the child and its tree | connect, list, call, clean stop then kill | a call is sent once, on its own connection; a stop leaves no process behind |
| `clients/httpClient.ts` | request queue (5), abort signal, transport kind, OAuth provider | connect with fallback, refresh, reconnect | the same; late handshakes do no harm |
| `clients/failDroppedAnswers.ts` | ids awaiting an answer on a stream | watch a stream, fail what it dropped | each id is answered exactly once |
| `clients/packageHomeClient.ts` | transport, connected flag | collect files, forward to the host of a package, disconnect on failure | the same, without a queue |
| `ownerWatchdog.ts` | consecutive dead reads | probe, shut down | one bad read does not stop the router |
| `toolNotes.ts` | the notes file, its lock | record, remove, read, clean up what a read saw | bounded; no note of another process lost |
| `handlers/authenticate.ts`, `auth/callbackServer.ts` | callback server, waiters, port, saved registration | choose a port, probe, wait, exchange, verify, stop | a code reaches the attempt it belongs to; ports are released; tokens fit their registration |
| tool execution (`handlers/useTool.ts`, `bulkExport.ts`, ...) | counters of failed attempts, cache of long results, temporary files of exports | validate, call, count, cache, read on; page, write, publish | told to stop only for failures of one's own; long results can be read to their end; an export reports what it published |
| discovery handlers, `summarize.ts`, `catalogFormatters.ts` | - | read the snapshot | read-only |
| `security.ts`, `toolAccess.ts` | policy | allow / block; replaced on reload | most specific rule wins, user rules over host; the policy follows the files |
| `utils/normalizeInput.ts`, `validator.ts`, `paramAliasMap.ts` | - | repair arguments | a valid argument is left alone |
| file protocol, CLI, logging, ids | - | I/O and formatting | - |

Who calls whom: handlers run in the server's request callbacks and call the
catalog (`ensurePackageLoaded`, `scheduleRefresh`) and the registry
(`acquireLease`, `callTool`, `restartPackage`). The catalog asks the refresher;
the refresher asks the registry for a client (`connectForCatalog`,
`evictClient`) and writes the catalog. The registry emits lifecycle events the
refresher listens to. The config watcher tells the registry, then the
refresher. HTTP clients refresh tokens through the OAuth provider, whose files
other processes share. `authenticate` works beside the registry: it makes clients
of its own and writes the client map directly.


The hard behaviours, and where they bite:

- *Interleaving at awaits.* A caller reads `clients`, awaits a close or a health
  check, and acts on what it read (`getClient`, `restartPackage`); a refresh
  lists tools while the configuration it connected under changes.
- *Late results.* An attempt that loses its race with the timeout goes on, and
  its answer arrives generations later; the SDK saves tokens a second time
  after the lock is released.
- *Several processes.* The token file, the marker and the lock directory are
  shared; a holder can be killed or put to sleep between any two steps.
- *Files read in pieces.* Reloads, applies and spawns read the same files, one at a
  time, while the host rewrites them, and queue behind each other.
- *Connections that end at any moment.* A call outlives the connection it was made
  on; a child leaves helpers behind; a stream ends without its answer.
- *Progress.* Queues with a limit, retries on one timer, promises resolved by
  hand, evictions that wait for leases and calls that wait for evictions, a
  shutdown that waits for calls.

`PROJECT.json` ("hazards") lists them one by one, at the line.

## 2. Plan

| module | what it is for | state |
|---|---|---|
| `Catalog`, `CatalogRefresher` | tools match the configuration; nobody is forgotten | done, its safety proved |
| `TokenRefresh` | one transaction at a time, across processes and faults | done, its safety proved |
| `RegistryLifecycle` | calls are not interrupted; no client is lost | done, its safety proved |
| `Configuration` | reloads, applies, spawns and restarts read the same files | done, its safety proved |
| `SignIn` | a code, its port and its registration belong together | done, its safety proved |
| `UpstreamClient` with its abstract specification `CallLedger` | a call is sent and settled once, on its own connection | done, refinement proved |
| `Router` | sessions, shutdown, owner watchdog | done, its safety proved |
| `UseTool`, `ResultCache`, `BulkExport`, `ToolNotes` | the state of the handlers | done, their safety proved |
| `SignIn` with `RegistryLifecycle` in one state space | leases held on a client that `authenticate` replaces | left |
| an abstract `TokenLedger` of which `TokenRefresh` is a refinement | each refresh token is spent once while no holder is stale | left |

Every safety property that a passing run checks is a theorem (section 6); some hold
in the scope named there. Liveness stays with TLC.

## 3. Modules

Code between two awaits is one action. An action therefore starts where an
await comes back and does everything up to the next one, including the
microtasks that are certain to run before any timer or I/O. Sets named
`Events`, `Clearable` and `Removable` say which of the environment's moves an
instance allows, so that each run asks one question.

### Catalog, CatalogRefresher

`Catalog` has no variables: its operators are the methods of `Catalog` as
functions from the cache to the next cache. An entry carries its status, its
tools, the identity and generation it was connected under, its retry and
whether a refresh is in flight. Tools are abstracted to the *identity* of the
configuration they were listed under (the JSON of the connection-relevant
fields in the code), which is what staleness is about.

`CatalogRefresher` holds the cache, the configuration and the refresher:

| variable | code |
|---|---|
| `config`, `gen` | the registry's packages, by identity; `configurationGeneration` |
| `cache` | `Catalog.cache` |
| `phase` | started, disposed |
| `queue` | the map `queue`: rank of insertion, force flag, the callers whose promise it holds |
| `attempt`, `active` | the map `inFlight` with the locals of `runRefresh`; `activeCount` |
| `op[p][s]` | the connect-list-commit promise in slot `s`; it outlives its attempt when the timeout wins |
| `timer` | `wakeTimer` |
| `readiness` | the readiness promise of the generation |
| `caller`, `watcher` | callers of `refreshNow`; requests in `whenCurrentGenerationReady` |

`Begin`, `Connected`, `ConnectFails`, `Listed`, `ListingFails` are the awaits of
the refresh; `TimesOut` and `Evicted` the losing race and the eviction that
follows it; `Finish` the `finally` that lowers the count and drains the queue;
`TimerFires` the wake timer; `ConfigurationChanged`, `Remove`, `RegistryEvent`,
`Restart`, `ClearOnly`, `Dispose` the entry points from the registry and the
handlers. Every one of them ends, as the code does, with `DrainQueue`,
`ArmWakeTimer` and `UpdateReadiness` where the method calls them. Retry delays
(backoff, jitter) are abstracted to *pending* and *due*. The registry's push of
additions and the controller's `configurationChanged` are one step.

### TokenRefresh

Several `Flow`s (HTTP requests whose access token the server rejected) run in
`Owner[f]`, one of several `Proc`esses that share the token file, the reconnect
marker and the lock directory. Tokens are numbered in the order the server
issues them; the server honours a refresh token once when it answers with a
new one, and refuses what it does not honour.

| variable | code |
|---|---|
| `disk`, `kind` | the token file: the pair, and whether it is absent, the lock's placeholder, or holds tokens in date or not |
| `marker` | the needs-reconnect file |
| `lock` | the flow that made the lock directory |
| `chain` | `inProcessChains`, FIFO per process |
| `flow` | where a request is in the transaction, what it read and what it will return |
| `mem`, `echoes`, `rejected` | `savedTokens`; `authoritativeTokenEchoes`, the sets this process wrote under the lock; `rejectedAccessToken` |
| `proc`, `awaited` | whether the process is up, draining or down, and the flows its drain awaits |
| `issued`, `grants`, `alive` | the authorisation server: the last set issued, the refresh tokens it honours, the access tokens it accepts |

`Acquire`, `LockBusy`, `ReadUnderLock`, `ServerGrants`, `ServerDenies`, `ServerErrs`,
`MergeRotated`, `PersistRotated`, `PersistFails`, `ClearMarker`, `PeerRotated`,
`Recheck` and `Release` follow `refreshTransaction.ts` in order;
`KeepTokens`, `Overwrite`, `ClearTokens`, `MarkNeedsReconnect`, `Invalidate` and `Discard`
are `saveTokens` and the invalidations of the two providers; `BeginShutdown`,
`Drained`, `Exit`, `Crash`, `Restart` are a process's life; `SignIn`, `StoreSignIn`,
`FinishSignIn` an interactive sign-in. The lock library is external: its directory is
free, held, or taken over when its holder died or has slept for the stale
window ("suspend"). The echo list is capped at eight in the code and not in the
model: to reach the cap a process would need nine saves outstanding, and a
client runs at most five requests.

### RegistryLifecycle

One package (the maps are keyed by package; packages share only the terminal
flag) and a pool of `Client`s, each constructed at most once.

| variable | code |
|---|---|
| `clients` | `clients[package]`, the published client |
| `clientPromises` | `clientPromises[package]`: the user whose attempt is shared |
| `constructedClients` | clients an attempt has made, neither published nor closed |
| `state[c]` | the client itself, from unused through connecting and connected to closed |
| `user` | a call (leases, dispatches, releases) or a getter (no lease): where it is, the client in hand and the client its lease is bound to |
| `activeLeases`, `leaseDrainWaiters` | the calls that hold a lease; who awaits a change of them |
| `evictionPromises`, `evictor` | the chain of `evictClient` calls and where each is |
| `restarter` | `restartPackage` calls |
| `terminal`, `drain` | the terminal flag, `drainTerminalOwnership` and `closeAll` |

`AcquireLease`, `GetClient`, `HealthOk`, `HealthBad`, `Spawn`, `Join`, `Connected`,
`ConnectFails`, `Retry`, `Publish`, `Dispatch`, `Answer`, `ReleaseLease` are a call;
`Evict` ... `Evicted` an eviction; `Sweep` the idle reaper; `RestartTakes` ...
`Restarted` `restartPackage`; `CloseAll`, `DrainReconciles`, `DrainLoop`,
`DrainGoesOn` the shutdown. An action that another client's answer could
overtake is guarded by `Due` and `RestartDue`: a continuation whose awaited promise
has settled runs before any I/O answer. "drop" is a close at shutdown that
discards a queued request without answering, which the drain's reconciliation
is written for (`registry.ts`, comment at 1920).

### Configuration

The files as the host writes them (`disk`), the watcher (`watched`, `changed`,
`timer`), the policy in force, and the registry's half of the configuration:
`packages`, the raw `config` and `queue`, which is `envRefreshQueue`. Everything
that reads files is a *task* that reads one file at a step, in the order of the
walk through `configPaths`, while the host goes on writing:

- a debounced reload and `POST /api/config/apply`: `ReadPolicy`, `SetPolicy`
  (`loadMergedSecurityConfig`), then `Reconcile`, `ReadPackages`, `Compare`, `Rehome`,
  `Reconciled` (`reloadConfigurationFromDisk`, `applyAdditions`);
- the refresh of the env before each spawn (`configForNextSpawn`): `Spawn` to
  `SpawnGoesOn`, through the same queue;
- `restartPackage`: `Restart` finds an index, `Restarted` writes with it after its
  awaits.

A task remembers in `spawn`, `of` and `at` what the code keeps in locals across
these awaits. `Reading(d)` is a whole reading of files that stay as they are in
`d`, step by step; `Load(d)` is its end.

An entry is its transport, the *identity* of the fields a reconciliation may not
change, and its env. A file is absent, broken, or one of a few contents
(`MCConfiguration`): a changed env with a new home, another identity, an invalid
entry, an addition, files that refer to each other. One assumption on time is
a guard: the reading of the policy that began before a change ends before that
change's quiet period does (`ReadsAreFast`).

### SignIn

`handleAuthenticateCore` for one HTTP package: calls (`flow`) that may overlap,
each with up to `MaxAttempts` attempts and the last one again with the browser
(`Floor`); the callback servers by port; the pages left open in the browser; the
two files of the provider, as the client each was made for; the registry's
client; and exchanges that go on after their time limit. An attempt is named by
its call and number, and so are the state of its page and the client it
registers: `CodeIsOwn` compares them. `Bootstrap` is `connectWithOAuth` and its
redirect, `ProbeRejects` `authorizeProbe.ts`, `Callback` the callback server with
`checkCallbackState`, `Exchange` ... `Verified` `finishOAuth` and what follows,
`Stop` the `finally` of an attempt. `taken` are ports that other programs hold.
`Begin` chooses freely whether a call is forced, which covers the marker. One
assumption on time: a connection (30 s) ends before the wait for its callback
does (300 s). The result of a call is "authenticated" or anything else.

### UpstreamClient, CallLedger

The client of one upstream server, of one `kind`: the stdio client, the HTTP
client or the client of a package home. They share their shape: `connect` with its
states (`connecting`, `link`), calls in a request queue (`queue`; a home has none)
that capture the signal current when they were made, streams that may end
without their answer, and `close`. `FallBack` and `LateHandshake` are the HTTP
client's two transports and the connect that comes up after its time limit;
`Prime`, `StreamAnswers`, `StreamEnds` are `failDroppedAnswers.ts`; `ListTree`,
`StopChild`, `GraceOver`, `KillTree` the stdio close, with `helper` the processes the
child started and `late`/`stray` those no listing can find.

`CallLedger` is what each kind promises: a call is sent at most once, only on the
connection it was made on and never once that connection's close has begun, and
settled once. `Ledger == INSTANCE CallLedger WITH ...` is the refinement mapping:
`connects` for the connections, "no close has begun" for `open`, and the many
states of a call folded to *made*, *sent* and *settled*.

### Router

The process around all this: sessions with the time of their last request, open
POSTs, the idle collection with its two limits, and the shutdown as `main` runs
it (drain, watcher, refresher, sessions, registry, exit), each awaited step of
which may reject (`TeardownFails`); the triggers (a signal, the endpoint, the
watchdog) and the watchdog's two dead reads. Over stdio there are no sessions.

### UseTool, ResultCache, BulkExport, ToolNotes

- `UseTool`: `validationAttemptMap` as a sequence, least recently touched first,
  with what increments and what resets it in every branch of a call. The history
  variables `failures` and `since` say whose failures they were, and which other
  keys have failed since. `Others` spells out the selection that `Reset` makes,
  as a function over the places of the map, because the provers know nothing of
  `SelectSeq`.
- `ResultCache`: `resultCache` with its size, its time to live, and callers that
  read on in chunks of any limit.
- `BulkExport`: exports to one name, page by page and item by item: back-pressure,
  retries, the stream that breaks, the abort, and the two ways of publishing
  (`link` without overwriting, `rename` with).
- `ToolNotes`: the file, its lock, workers of any process that record, remove, or
  clean up what an earlier read saw (`seen`), quotas, expiry, malformed and
  unreadable files, and holders that crash.

### Server

`UpstreamClient`, `Router`, `UseTool`, `ResultCache`, `BulkExport` and `ToolNotes` share
nothing but the clock. `Server` puts them beside each other, every step a step of
one of them, and names their properties. The theorems of section 6 are about
`ServerSpec`, where the parts run interleaved.

### MC modules

`MCCatalogRefresher`, `MCTokenRefresh`, `MCRegistryLifecycle`, `MCConfiguration` and
`MCSignIn` declare the members of the sets, the assignment of flows to processes,
the contents of files and the symmetry (flows of the same process; clients and
calls; identities and slots). Liveness runs use no symmetry.

Three of them run several instances in one state space; a behaviour belongs to
one of them, chosen in its first state:

- `MCTokenRefresh` (`scenario`): sign-ins and answers that do not rotate, or writes
  that fail and answers that cannot be used.
- `MCTokenFaults` (`scenario`): two requests of one process with access tokens that end at any
  moment and a grant withdrawn, or one request in each of two processes with
  kills, sleeps and lost answers.
- `MCServer` (`part`): the parts of `Server`, one at a time; parts that share no state
  cannot disturb each other, and their product would be too large. "router" has one session, "exports"
  no retries; "exit" and "solo" are smaller instances of the router and of an
  export, for liveness.

Their fairness is that of the instance a behaviour belongs to, written out in
`FaultsSpec` and `PartSpec`.

Definitions whose comment speaks of a mutation or a mutant, and others named after
a fault (`NeverUsable`, `NoEcho`, `WithoutUnhealthy`, ...) are no part of the
specifications: they are the altered forms that each property has been shown to
catch (`PROJECT.json`, "mutants").

## 4. Runs

| run | instance | checks |
|---|---|---|
| `catalog_generations` | one package, two identities, two outstanding operations, three generations, one caller, removals and clears | `ToolsMatchConfiguration`, `InFlightFlagHasOwner`, `CallersAreServed`, `LateResultsAreDropped` |
| `catalog_liveness` | two packages (one blocked by its setup), one place, two generations, a watcher, fair | `RetryIsScheduled`, `NothingWaitsForEver` |
| `token_rotation` | three requests over two processes, shutdowns and restarts; sign-ins, or failing writes | `OneTransactionAtATime`, `SingleUse`, `NoSilentWedge`, `NoNeedlessRotation` |
| `token_faults` | two requests of one process with revocation, or one in each of two with kills and sleeps, fair | `NoDowngrade`, `FlowEnds` |
| `registry_calls` | two calls, one eviction at a time, three clients that may exit, the reaper, shutdown | `NoOrphan`, `NothingSurvivesShutdown`, `CallsAreNotInterrupted`, `SpawnIsShared` |
| `registry_liveness` | one call, one eviction, one restart; clients hang, exit, discard requests, fair | `ShutdownCompletes`, `EveryEvictionEnds` |
| `configuration` | two files and one that is not there, two packages, two edits; a reload, a spawn, and a task that applies or restarts, fair | `RawInStep`, `IdentityIsKept`, `FreshSpawn`, `PolicySettles` |
| `sign_in` | two calls, two ports, two attempts and the floor, fair | `CodeIsOwn`, `PortsAreReleased`, `LoneSignInsMatch`, `SignedInIsConnected`, `SignInEnds` |
| `server` | the parts of `Server`, one at a time | `PartsTypeOK`; upstream: `StreamsAnswerOnce`, `TreeIsStopped`, `KeepsLedger` (refinement); router: `BusySessionsStay`, `TeardownIsNotCutShort`; tools: `StopIsEarned`, `RecentCountsSurvive`, `LongResultsCanBeRead`; exports: `ReportIsTrue`, `NothingIsOverwritten`; notes: `NotesAreKept`; and `PartsEnd` |
| `token_late_save` | one request in each of two processes | finds `NoDowngrade` violated |
| `registry_shared_spawn` | a call and a getter, hung clients | finds `SpawnIsShared` violated |
| `registry_restart_orphan` | two calls and a restart | finds `NothingSurvivesShutdown` violated |

The type invariants of the refresher, the tokens, the registry, the sign-in and
the server's parts are theorems (section 6). That of `Configuration` was checked
while the module was written and is kept in it; what its proofs need of it is
in `Shape` and `QueueInv`, which are proved.

**Bounds.** `MaxGen` bounds configuration changes: three generations let an
operation begun in the first return in the third, with the identity changed and
changed back. Two slots let a timed-out operation run beside the one that
replaced it. One place and two packages make every launch a contest.
`MaxIssued` bounds the tokens the server issues: three are two rotations, so
that a set from disk can be outdated twice over; the scenario of kills and
sleeps uses two. Three requests over two processes contend in one process and
across processes at once. Three clients are one published, one being closed and
one being connected; two calls are one that holds a lease and one that arrives
meanwhile. `Evictor` and `Restarter` bound those under way at once, not how often
they come. `MaxEdits = 2` lets a file change under a reload and change back
under the next. `MaxConnects = 2` is one reconnect: a call made on the first
connection meets the second. One slot and two calls make every request queue. Two attempts
and two ports let a page of the first meet the server of the second call's.
`MaxTime = 2` with limits of zero and one tick passes each limit while the
other holds. `MaxFailures`, `MaxAttemptMapSize` and `StopRetryingThreshold` are two: the map overflows
with three keys. Two pages of two items, one retry and `max_pages` of one or two
end an export at a page, within one and at the limit. Three note keys over two
packages, one note per package and two in all hit both quotas.

**Deadlock.** The refresher's instances stop when it has been disposed and
everything has settled, so those runs do not check for deadlock. Neither does
`registry_liveness`, where a request discarded at shutdown hangs for ever; that
`closeAll` resolves all the same is what the run is about. `sign_in` stops when both calls have
returned, and the parts of `server` when the router has exited, the exports have
answered, or time has run to its bound. All other runs check it.

**Fairness.** Refresher: a timeout fires, an operation ends (clients time their
requests out), an eviction returns once the calls in progress have, microtasks
and timers run. Callers, configuration changes and disposal are under no
obligation. Tokens: an await comes back, the lock library gives up after its
retries, a request has a timeout; no process is obliged to stay up, to shut
down, or to send requests. Registry: requests have timeouts, a close has a
grace and a kill, awaits come back; nobody is obliged to call, to evict, to
restart or to shut down. Configuration: changes are reported, timers fire, files
can be read; the host need not edit and nobody need ask. Sign-in: the event loop
goes on, and each wait has its limit; the person, the browser and the provider
owe nothing. Upstream: jobs start, a request's timer fires, close runs on; no
server need answer and no child exit. Router: the awaits of the teardown settle,
the watchdog's timer fires. Exports: the event loop goes on and the timeout
fires. All of it is weak fairness.

**What the instances exclude, and why.**

- `catalog_liveness`: no removals and no clears. A package
  removed by a failed restart and added back under the same identity counts as
  unchanged and its retry is not armed until a reader asks for it; a clear
  without a refresh leaves it *connecting* for the next reader. A removal can
  also leave a readiness watcher waiting although the snapshot has become
  complete, until the next refresh ends. `catalog_generations` has all of these.
- `token_rotation` and the second scenario of `token_faults`: access tokens end only
  while no request is under way (`QuietExpiry`). Without it the save of a set
  answered from disk can undo a peer's rotation, which is what
  `token_late_save` shows.
- `token_rotation`, failing writes: the server always rotates there. When it does not, a set stored
  after the file was cleared has no refresh token until the SDK's own save puts
  it back, and a kill between the two loses it.
- "suspend" only in `token_faults`: a takeover of a sleeping holder goes
  unnoticed until its heartbeat, and there can be two transactions meanwhile.
- "exit" only, in `registry_calls`: `getClient` closes a client whose health
  check fails even when another call holds a lease on it, and a restart closes
  by design. Getters are left to `registry_shared_spawn`.
- One call in `registry_liveness`: with two users, a restart and "drop", the
  `clientPromises` entry a restart deletes can leave a client in no map, and the
  drain waiting for a lease whose request was discarded. Real stdio and HTTP
  clients settle the requests they have queued (`src/test/client-close-queue.test.ts`),
  so "drop" is the assumption at fault there, not the drain.
- `server`: a server that sends progress for ever keeps the timer of a request
  from firing (`resetTimeoutOnProgress` has no maximum); `CallsSettle` assumes none
  does. Calls on a home are made once it is connected.
- `sign_in`: `LoneSignInsMatch` speaks of sign-ins that do not overlap, and
  `SignedInIsConnected` of a call after which no other began; see the observations.

## 5. Disagreements between the code and what it says

1. `token_late_save`. The comment at `src/src/auth/providers/simple.ts:441` says
   that non-authoritative writes cannot downgrade a newer token. The guard knows
   only sets its own process wrote. A refresh answered from disk hands the SDK a
   peer's set; when the peer rotates again before the SDK saves it, the save
   writes the used-up refresh token over the new one.
2. `registry_shared_spawn`. The comment at `src/src/registry.ts:2240` says
   concurrent callers share one spawn and leave a live child alone. A caller
   whose health check failed resumes from the close of that client and looks
   only at `clientPromises`; a client published meanwhile is replaced without
   being closed.
3. `registry_restart_orphan`. `closeAll` reports all clients closed
   (`src/src/registry.ts:775`). `restartPackage` awaits the close of the client
   it read and then deletes whatever the package maps to; a client published
   meanwhile leaves the map unclosed, and no drain finds it.

### Observations

Seen while modelling; the models contain them, and no run claims otherwise.

- Tokens: a refresh-only invalidation can delete a pair that a sign-in in
  another process stored between its store and the removal of the marker;
  clearing the tokens of a dead grant may delete the pair a sign-in has just
  stored.
- Sign-in: two sign-ins of one package on different ports can leave tokens of
  one beside the registration of the other, which cannot be refreshed. A
  callback that arrives before the wait is armed is answered with success and
  lost. A discarded attempt may leave its closed client in the registry's map;
  replacing an ambient client drops it unclosed; `Evict` removes whatever the map
  holds after its await. An exchange that outlives its limit still saves its
  tokens.
- `useTool.ts`: a success whose result is materialized returns (2154-2195)
  before the counter of downstream failures is reset (2355);
  `test/useTool-validation-attempt-map.test.ts` resets it on success.
- `bulkExport.ts`: a broken stream after some lines answers "partial" though nothing
  was published; a link that succeeds followed by a removal that fails answers
  with an error though the file is there; a crash leaves the temporary file.
- `toolNotes.ts`: a note on an expired key of a file over its quota counts as a
  replacement; a malformed file is overwritten by the next record.
- Router: an owner watchdog that starts after a shutdown has begun is not
  stopped by it and may exit the process before the teardown ends (`late`).
- Stdio close: helpers started after the last listing, and those whose parent
  crashed before the first, survive; a killed pid may have been reused.

## 6. Proofs

Every theorem holds for any values of the constants that satisfy the named
assumptions (`CatalogAssumption`, `RefresherAssumption`, `TokenAssumption`,
`RegistryAssumption`, `SignInAssumption`,
`UpstreamAssumption`, `ConfigurationAssumption`, `ServerAssumption`), which TLC evaluates on every run.

- **`CatalogRefresherProofs`.** `TypeCorrect`: `TypeOK`, one step per action.
  `ToolsAlwaysMatch`: `Spec => []ToolsMatchConfiguration`. The property is not
  inductive: nothing in it says what an operation under way will commit. `ToolsInv`
  adds that an entry knows under which identity its tools were listed unless it
  was written while the package was removed, and that an operation of the
  present generation connected under the present configuration; a commit of an
  older generation is then refused by its own guard. `CallersServed`:
  `[]CallersAreServed`, from `ServedInv`: an attempt that is over has no waiters, and
  no step takes a waiter, or the wish to reconnect, out of a queue entry or an
  attempt without handing it on (`Serves`). `FlagHasOwner`: `[]InFlightFlagHasOwner`;
  `FlagInv` adds that a cached entry is of the present generation, which is why
  the operations of an older one find nothing to lower. `RetriesScheduled`:
  `[]RetryIsScheduled`; `RetryInv` adds that a package that is not configured has left
  no entry, place or attempt behind, so that it is taken for new when it comes.
  `LateResultsDropped` is the action property `LateResultsAreDropped`.
- **`TokenRefreshProofs`.** `TypeCorrect` is proved together with `MutexHeld`: a
  flow past the in-process mutex heads its chain. Without it `Tail` of a chain
  could remove someone else. `MutualExclusion`: assuming no holder sleeps beyond
  the stale window (`"suspend" \notin Events`), `OneTransactionAtATime`, from
  `Holds`: a flow in its critical section is the maker of the lock directory.
  Kills, restarts, shutdowns, failed writes and any number of processes and
  requests are allowed.
- **`TokenRotationProofs`.** What becomes of the tokens, on top of it.
  `NoRotationIsNeedless`: `Spec => NoNeedlessRotation` for all faults, assuming that
  access tokens end between requests and no grant is withdrawn. `FreshInv` says
  why the comparison with the refused token in `hasUsableAccessToken` is enough:
  a token noted as refused never comes back, and what is on disk is that token,
  or none, or one the server accepts (`Refusal`).
  `TokensAreSingleUse`, `WedgesAreFlagged` and `RotationsAreKept` are `[]SingleUse`,
  `[]NoSilentWedge` and `NoDowngrade` in `Scope`, the two scenarios of
  `token_rotation` for any processes and requests. None of the three is
  inductive. `RotationInv` is, with `FreshInv`, the mutual exclusion, and `DrainInv` (a drain
  awaits every request past the mutex, so an exit cuts no transaction off):
  while a request rotates nobody still saves an earlier answer (`Alone`); the
  grant is on disk, on its way there, or lost (`Backed`); a refresh token not yet
  stored is known to one request only (`Secrets`); and once a rotation has come
  to nothing nobody can present a token that is honoured (`LostForGood`). `Scope` cannot be
  widened by one event: TLC finds `SingleUse` or `NoSilentWedge` violated with
  access tokens that end during requests; with a kill, a lost answer, a drain out of time, a sleep or a
  revocation; with sign-ins beside failing writes or unusable bodies; and
  `NoSilentWedge` with either of these beside answers that keep the refresh token.
- **`RegistryLifecycleProofs`.** `TypeCorrect`, with `EvictionsInTurn`: an
  eviction past its turn is first in the chain. `CallsUninterrupted`: assuming
  no restart and no failing health check, `Spec => CallsAreNotInterrupted`. Its
  inductive invariant `IInv` is `TypeInv` and four facts: until
  shutdown, a call holds a lease from before it gets its client to its answer
  (`LeasesHeld`); an eviction about to take a client has seen that there is no
  lease, and none is granted before it has taken it (`EvictionsWait`); a
  connecting attempt owns its client alone (`StartsAlone`); the drain touches
  nothing before shutdown (`DrainOff`). `NoClientIsLost`, `ShutdownIsFinal` and
  `SpawnsShared` prove `[]NoOrphan`, `[]NothingSurvivesShutdown` and `SpawnIsShared`
  under `CallsOnly`: calls, evictions, the reaper and shutdown, the scope of
  `registry_calls`. `OwnInv` adds to `IInv` that one request at a time connects and
  only while nothing is published (`OneAttempt`), that what is published is alive
  or has ended by itself (`PublishedAlive`), and that the client a request probes,
  holds or discards is the published one or gone (`InHand`, `Discards`), so that it
  never unpublishes another. `CallsOnly` is needed: `registry_shared_spawn` and
  `registry_restart_orphan` are what happens without it.
- **`UpstreamClientProofs`.** `TypeCorrect`, with `Distinct`: a call waits in one
  place of the queue. `AnsweredOnce`: `Spec => []StreamsAnswerOnce`. The number of
  answers alone is not inductive; the invariant ties it to the state of the
  call's stream. `TreeStopped`: `Spec => []TreeIsStopped`, from what each stage of
  `close` has already established about the child and the helpers listed
  (`TreeInv`). `LedgerIsKept`: `Spec => KeepsLedger`, the refinement of `CallLedger`.
  Its invariant `LedgerInv` is why the code captures the signal with the call: in
  a client with a queue the signals are one behind the connections, the current
  one is aborted exactly while none is open, and a call carries the signal of
  the connection it was made on. A home has no signals; there a single connection
  and the state of its link do the same. Each action is then shown
  to be one ledger step or a stutter (`StepSettles`, `StepMoves`, ...).
- **`SignInProofs`.** `TypeCorrect`, `CodesAreOwn` and `PortsReleased` follow from one
  invariant, `Serving`: a port is listened on by the present attempt of a call
  that is at it, and such an attempt does listen on its port. It is what makes the
  comparison of states in `checkCallbackState` enough: a page an earlier attempt
  left open cannot carry the state of the attempt that listens now. `SignedIn`:
  `SignedInIsConnected`, from what a call that nobody interferes with has
  secured at each place (`ConnInv`). `LoneSignInsKeepMatch`: `LoneSignInsMatch`. Here
  the property says nothing of what an attempt will write; `Lone` adds that the
  client it holds is the one on disk, and that a port is probed only when there are
  no tokens (or the registration is for another port), because a rejection takes
  the registration and leaves the tokens (`Rejected`). That is the one place where
  they could part. The assumption about `None` says that it is no listener.

- **`ConfigurationProofs`.** `RawEntriesAreKept`, `PackagesKeepIdentity` and
  `SpawnsAreFresh` prove `[]RawInStep`, `IdentityIsKept` and `FreshSpawn` for any files,
  edits, readers and restarts, from one inductive invariant (`Invariant`). None of the three is
  inductive. `RawInStep` and `IdentityIsKept` need that one reconciliation at a time
  is under way and that it heads the queue (`QueueInv`), that the packages are the
  valid raw entries, each once (`PackageInv`), and that what a task found before
  its awaits still holds after them (`Remembers`): the index of a restart, because
  packages only grow at the end, and that the additions of an apply are not yet
  packages. `FreshSpawn` says nothing of the refreshes a spawn waits behind;
  `FreshInv` adds that a task under way when the files last changed, or since, has
  read so far a beginning of one whole reading (`OnCourse`), so that what it ends
  with is `Load(disk)`, and that the env then stays that of the files until the
  spawn goes on (`EnvOfFiles`). `Load` is recursive: that the recursion has a
  solution and that each of its steps is a reading is proved by an induction
  on a set of numbers (`SetInduction`, from the library's theorem that `<` is
  well-founded).
- **`ServerProofs`.** One theorem for each property of `server` that
  `UpstreamClientProofs` does not prove, of the parts interleaved. `ServerInv` is the
  conjunction of the invariants of the parts, and `Moves` takes a step apart: one part
  moves, or the clock.
  - `BusySessionsAreKept`, `TeardownIsWhole`. The idle collection compares the session's last
    activity, not the age of its POSTs; `PostsCount` says that no open POST is later
    than that. `WatchdogIsFirst`: a watchdog that still runs began before any shutdown, or late.
  - `StopsAreEarned`, `CountsSurvive`. A count is no higher than the failures of its
    key (`IsBacked`). The map is in the order of the last failures (`InTurn`: whatever
    stands behind a key has failed since), so the entry that a full map drops has had
    at least as many others fail since as the map holds. That the recursive selection in
    `Reset` keeps this order is `ResetEmbeds`, again by `SetInduction`.
  - `LongResultsAreKept`. The property says nothing of what the next result will
    push out. `InAge` adds that ids grow with time, and `Hinted` that the entry a
    caller was told of is there with the time it was told; `OldIsOutOfReach` counts
    that an entry dropped from a full cache has as many newer ones.
  - `FilesAreSafe`, `ExportsReportTrue`. `Accounted` ties the temporary file to the
    state of the export: unless the stream broke it holds every item up to a
    place, in order, and nothing else (`AtMark`), and what is published is that file.
  - `NotesAreSafe`. `NotesInv` adds that whoever writes holds the lock, and that what it
    is about to write drops a live note only if it was asked to by key or had
    seen that very note (`Keeps`). Reconciling an observation keeps this because notes
    that have changed since it are taken first, and filling the quota never takes
    out what is in (`FillKeeps`, `ReconciledKeeps`). No note is from later than now, which is why one that
    is live now was live when it was read.

Only model-checked: liveness (`NothingWaitsForEver`, `FlowEnds`,
`ShutdownCompletes`, `EveryEvictionEnds`, `PolicySettles`, `SignInEnds`, `PartsEnd`), because
fairness and `ENABLED` are out of the prover's reach; and the passing
properties of tokens and registry beyond the scopes named above, where TLC has
found violations. Induction is available over numbers (`SetInduction`), not
over arbitrary data.

## 7. Not modelled

`PROJECT.json` ("components") says of each part what is left out. In the
modelled parts:

- catalog: the path without a refresher, etags, digests, pagination, the resource map;
- tokens: the verifier and state of the OAuth provider, its count of refusals;
- registry: package homes and their replay, clients that need authentication,
  closes that fail, lifecycle events and counters; a getter counts as a pending
  request only until `getClient` returns, so the reaper is freer in the model
  than in the code;
- configuration: environment expansion, the depth limit of nested files,
  diagnostics;
- sign-in: `wait_for_completion: false`, packages with a home, stdio packages that
  authenticate themselves, markers that cannot be read;
- upstream clients: headers, pagination, the classification of errors (taken as
  given), resolution of commands, process trees on Windows, an HTTP close that
  fails, content of forwarded files;
- router: the routing of requests to handlers, schemas, the package endpoint;
- use_tool: resolution and repair of names and arguments, resources, recovery
  hints; exports: removal of files is taken to succeed; notes: the text and its
  limits, and a live holder's lock lost to a long sleep (the library's heartbeat
  is taken to be on time).

Left out for good: the decision of the security policy over patterns and lists,
argument normalisation and validation, which are pure functions of strings and
schemas whose model would be the program again; argument parsing, logging,
formatting and file reads, which keep no protocol state.
