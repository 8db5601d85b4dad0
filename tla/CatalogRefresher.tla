-------------------------- MODULE CatalogRefresher --------------------------
(***************************************************************************)
(* src/catalogRefresher.ts: the owner of every connect-for-catalog         *)
(* attempt, together with the catalog it writes and the handlers, lifecycle*)
(* events and configuration changes that drive it.                         *)
(*                                                                         *)
(* An attempt for a package is "launched" by drainQueue, then races its    *)
(* operation (connect, then listTools) against a timeout.  A timed-out     *)
(* attempt evicts the client and records the failure; its operation goes   *)
(* on in the background and may return late.  A settled attempt is finished*)
(* by the finally block of drainQueue, which starts the next one.          *)
(***************************************************************************)
EXTENDS Catalog, Integers

CONSTANTS
  Caller,       \* requests that may be awaiting refreshNow at once
  Watcher,      \* requests that may be in whenCurrentGenerationReady
  Slot,         \* operations of one package that may be outstanding: a bound
  NoSlot,       \* the slot of an attempt that has not begun
  Concurrency,  \* options.concurrency
  AuthProbe,    \* whether authProbeIntervalMs is not 0
  Clearable,    \* packages a handler may clear without asking for a refresh
  Removable,    \* packages a restart may find invalid and remove
  MaxGen        \* bound on the configuration generations explored

ASSUME RefresherAssumption ==
  /\ NoSlot \notin Slot
  /\ Concurrency \in Nat \ {0}
  /\ AuthProbe \in BOOLEAN
  /\ Clearable \subseteq Pkg /\ Removable \subseteq Pkg
  /\ MaxGen \in Nat

VARIABLES
  config,    \* registry.packages, by identity
  gen,       \* catalog.configurationGeneration
  cache,     \* catalog.cache
  phase,     \* started / disposed
  queue,     \* the Map "queue": insertion rank (0 when absent), force, waiters
  attempt,   \* the Map "inFlight" and the locals of runRefresh
  active,    \* activeCount
  op,        \* performRefresh promises, by the slot they occupy
  timer,     \* wakeTimer
  readiness, \* readinessGeneration and readinessResolved
  caller,    \* the request each caller awaits
  watcher    \* the loop of whenCurrentGenerationReady, per watcher

vars == <<config, gen, cache, phase, queue, attempt, active, op, timer,
          readiness, caller, watcher>>

Queue == [Pkg -> [rank : Nat, force : BOOLEAN, waiters : SUBSET Caller]]
Attempts == [Pkg -> [stage : {"none", "launched", "racing", "evicting", "settled"},
                     force : BOOLEAN, gen : Nat, slot : Slot \cup {NoSlot},
                     waiters : SUBSET Caller]]
Operations ==
  [Pkg -> [Slot -> [stage : {"none", "connecting"}, gen : Nat,
                    ident : Ident \cup {NoPackage}]
                   \cup [stage : {"listing"}, gen : Nat, ident : Ident]]]

NotQueued == [rank |-> 0, force |-> FALSE, waiters |-> {}]
NoOp      == [stage |-> "none", gen |-> 0, ident |-> NoPackage]
Idle      == [pkg |-> NoPackage, force |-> FALSE]

InFlight(p) == attempt[p].stage # "none"
Queued(p)   == queue[p].rank > 0

(* Mutation: the attempts in flight are forgotten.                         *)
InterruptedConnecting == {p \in Pkg : cache[p].status = "connecting"}

(* What a new generation interrupts and must refresh again.                *)
Interrupted == {p \in Pkg : InFlight(p) \/ cache[p].status = "connecting"}

(* The operation in slot s of p is that of an attempt still racing: the    *)
(* closure variable attemptActive.                                         *)
Live(p, s) == attempt[p].stage = "racing" /\ attempt[p].slot = s

IsCurrent(p, s) == Live(p, s) /\ phase # "disposed" /\ op[p][s].gen = gen
-----------------------------------------------------------------------------
(* The steps the handlers share.  Each is given, or reads primed, the state*)
(* the handler has built so far.                                           *)

(* Mutation: a second request replaces the waiters of the first.           *)
EnqueueReplacing(q, S, F, W) ==
  [p \in Pkg |->
     IF p \in S /\ config'[p] # NoPackage
       THEN [rank    |-> IF q[p].rank > 0 THEN q[p].rank
                         ELSE Cardinality({r \in Pkg : q[r].rank > 0}) + 1,
             force   |-> q[p].force \/ p \in F,
             waiters |-> W]
       ELSE q[p]]

(* enqueue for each package of S, with a forced reconnect for those in F   *)
(* and W the new waiters.  Packages enqueued together share a rank: their  *)
(* order is that of the configuration, which is not modelled.              *)
Enqueue(q, S, F, W) ==
  LET next == Cardinality({p \in Pkg : q[p].rank > 0}) + 1
  IN  [p \in Pkg |->
         IF p \in S /\ config'[p] # NoPackage
           THEN [rank    |-> IF q[p].rank > 0 THEN q[p].rank ELSE next,
                 force   |-> q[p].force \/ p \in F,
                 waiters |-> q[p].waiters \cup W]
           ELSE q[p]]

Launch(q, p) ==
  [stage |-> "launched", force |-> q[p].force, gen |-> 0,
   slot |-> NoSlot, waiters |-> q[p].waiters]

NoAttempt == [stage |-> "none", force |-> FALSE, gen |-> 0,
              slot |-> NoSlot, waiters |-> {}]

Eligible(q, att) == {p \in Pkg : q[p].rank > 0 /\ att[p].stage = "none"}

(* Mutation: the newest request goes first.                                *)
StartableNewestFirst(q, att, act, L) ==
  /\ L \subseteq Eligible(q, att)
  /\ act + Cardinality(L) <= Concurrency
  /\ L = Eligible(q, att) \/ act + Cardinality(L) = Concurrency
  /\ \A p \in L, r \in Eligible(q, att) \ L : q[p].rank >= q[r].rank

(* The packages drainQueue may take: not in flight, first come first       *)
(* served, until every place is taken or nothing is left to start.         *)
Startable(q, att, act, L) ==
  /\ L \subseteq Eligible(q, att)
  /\ act + Cardinality(L) <= Concurrency
  /\ L = Eligible(q, att) \/ act + Cardinality(L) = Concurrency
  /\ \A p \in L, r \in Eligible(q, att) \ L : q[p].rank <= q[r].rank

DrainQueue(q, att, act) ==
  \E L \in SUBSET Pkg :
     /\ IF phase' = "started" THEN Startable(q, att, act, L) ELSE L = {}
     /\ queue' = [p \in Pkg |->
          IF p \in L THEN NotQueued
          ELSE IF q[p].rank = 0 THEN q[p]
          ELSE [q[p] EXCEPT !.rank =
                  1 + Cardinality({r \in Pkg \ L : 0 < q[r].rank
                                                 /\ q[r].rank < q[p].rank})]]
     /\ attempt' = [p \in Pkg |-> IF p \in L THEN Launch(q, p) ELSE att[p]]
     /\ active' = act + Cardinality(L)

(* Mutation: only a retry that is already due is waited for.               *)
ArmWakeTimerWhenDue ==
  timer' = IF phase' # "started" THEN timer
           ELSE IF \E p \in Configured(config') :
                      /\ attempt'[p].stage = "none" /\ queue'[p].rank = 0
                      /\ RetryHint(cache', config', p) = "due"
                  THEN "armed" ELSE "null"

ArmWakeTimer ==
  timer' = IF phase' # "started" THEN timer
           ELSE IF \E p \in Configured(config') :
                      /\ attempt'[p].stage = "none"
                      /\ queue'[p].rank = 0
                      /\ RetryHint(cache', config', p) # "none"
                  THEN "armed" ELSE "null"

Complete == IsSnapshotComplete(cache, gen, config)

(* Mutation: completeness does not resolve the promise.                    *)
NotifiedOfGeneration(w) ==
  IF watcher[w].pc = "waiting" /\ readiness.gen # gen'
    THEN [watcher[w] EXCEPT !.pc = "woken"]
    ELSE watcher[w]

(* updateReadiness: a promise is resolved when its generation is over or   *)
(* the snapshot is complete, and that wakes the watchers awaiting it.      *)
Notified(w) ==
  IF watcher[w].pc = "waiting" /\ (readiness.gen # gen' \/ Complete')
    THEN [watcher[w] EXCEPT !.pc = "woken"]
    ELSE watcher[w]

UpdateReadiness ==
  /\ readiness' = [gen |-> gen', resolved |-> Complete']
  /\ watcher' = [w \in Watcher |-> Notified(w)]

(* ensureAuthProbeScheduled for the packages of S.                         *)
EnsureAuthProbe(S) ==
  [p \in Pkg |->
     IF p \notin S \/ cache[p].status # "auth_required" THEN cache[p]
     ELSE IF ~AuthProbe THEN [cache[p] EXCEPT !.retry = "none"]
     ELSE IF cache[p].retry = "none" THEN [cache[p] EXCEPT !.retry = "pending"]
     ELSE cache[p]]

(* A refresh of a package that needs authentication reconnects.            *)
ForcedByAuth(S) == {p \in S : cache[p].status = "auth_required"}

(* What the caller of refreshNow awaits: the attempt in flight, unless it  *)
(* asked for a reconnect and that attempt does not make one, or else the   *)
(* attempt that will follow.                                               *)
RefreshNow(c, p, force) ==
  /\ caller' = [caller EXCEPT ![c] = [pkg |-> p, force |-> force]]
  /\ IF InFlight(p) /\ (force => attempt[p].force)
       THEN /\ attempt' = [attempt EXCEPT ![p].waiters = @ \cup {c}]
            /\ UNCHANGED <<queue, active>>
       ELSE LET forced == IF force THEN {p} ELSE ForcedByAuth({p})
            IN  DrainQueue(Enqueue(queue, {p}, forced, {c}), attempt, active)
-----------------------------------------------------------------------------
(* What drives the refresher.                                              *)

Start ==
  /\ phase = "new"
  /\ phase' = "started"
  /\ LET status(p) == PackageStatus(cache, config, p)
         cold == {p \in Configured(config) :
                    status(p) \notin {"auth_required", "ready"}}
     IN  /\ cache' = EnsureAuthProbe(Configured(config))
         /\ UNCHANGED <<config, gen, op, caller>>
         /\ DrainQueue(Enqueue(queue, cold, {}, {}), attempt, active)
  /\ ArmWakeTimer
  /\ UpdateReadiness

(* A passive discovery read of p: list_tools, search_tools, GET /api/tools *)
ScheduleRefresh(p) ==
  /\ phase # "disposed"
  /\ cache' = EnsureAuthProbe({p})
  /\ UNCHANGED <<config, gen, phase, op, readiness, caller, watcher>>
  /\ IF RetryHint(cache', config, p) = "due"
       THEN /\ DrainQueue(Enqueue(queue, {p}, ForcedByAuth({p}), {}), attempt, active)
            /\ timer' = timer
       ELSE /\ UNCHANGED <<queue, attempt, active>>
            /\ ArmWakeTimer

(* ensurePackageLoaded by use_tool, read_resource, bulk_export.            *)
EnsurePackageLoaded(c, p, force) ==
  /\ phase # "disposed" /\ caller[c] = Idle /\ config[p] # NoPackage
  /\ LET due == RetryHint(cache, config, p) = "due"
     IN  /\ force \/ ~Cached(cache[p]) \/ due
         /\ force \/ InFlight(p) \/ due
  /\ UNCHANGED <<config, gen, cache, phase, op, timer, readiness, watcher>>
  /\ RefreshNow(c, p, force)

(* restart_package and authenticate: clear the entry, reconnect.           *)
Restart(c, p) ==
  /\ phase # "disposed" /\ caller[c] = Idle /\ config[p] # NoPackage
  /\ cache' = ClearPackage(cache, gen, config, p)
  /\ UNCHANGED <<config, gen, phase, op, timer, readiness, watcher>>
  /\ RefreshNow(c, p, TRUE)

(* read_resource, health_check: clear the entry and leave it to others.    *)
ClearOnly(p) ==
  /\ p \in Clearable
  /\ cache' = ClearPackage(cache, gen, config, p)
  /\ UNCHANGED <<config, gen, phase, queue, attempt, active, op, timer,
                 readiness, caller, watcher>>

(* A lifecycle event that is not filtered out.                             *)
RegistryEvent(p) ==
  /\ phase = "started" /\ config[p] # NoPackage /\ ~InFlight(p)
  /\ UNCHANGED <<config, gen, cache, phase, op, timer, readiness, caller, watcher>>
  /\ DrainQueue(Enqueue(queue, {p}, {}, {}), attempt, active)

(* restartPackage finds the package invalid and takes it out of the list.  *)
(* Nobody tells the catalog.                                               *)
Remove(p) ==
  /\ p \in Removable /\ config[p] # NoPackage
  /\ config' = [config EXCEPT ![p] = NoPackage]
  /\ UNCHANGED <<gen, cache, phase, queue, attempt, active, op, timer,
                 readiness, caller, watcher>>

(* applyConfigurationChange: the registry adds packages, never changes a   *)
(* running one, and configurationChanged publishes the next generation.    *)
ConfigurationChanged(new) ==
  /\ phase # "disposed" /\ gen < MaxGen
  /\ \A p \in Configured(config) : new[p] = config[p]
  /\ config' = new
  /\ gen' = gen + 1
  /\ cache' = SetConfigurationGeneration(cache, new, gen + 1)
  /\ UNCHANGED <<phase, op, timer, caller>>
  /\ LET changed     == ChangedPackages(cache, new)
     IN  DrainQueue(Enqueue(queue, changed \cup Interrupted, changed, {}),
                    attempt, active)
  /\ UpdateReadiness

(* dispose: the queue is dropped, the racing attempts are rejected.        *)
Dispose ==
  /\ phase # "disposed"
  /\ phase' = "disposed"
  /\ timer' = "null"
  /\ queue' = [p \in Pkg |-> NotQueued]
  /\ caller' = [c \in Caller |->
       IF \E p \in Pkg : c \in queue[p].waiters THEN Idle ELSE caller[c]]
  /\ attempt' = [p \in Pkg |->
       IF attempt[p].stage = "racing"
         THEN [attempt[p] EXCEPT !.stage = "settled"] ELSE attempt[p]]
  /\ readiness' = [readiness EXCEPT !.resolved = TRUE]
  /\ watcher' = [w \in Watcher |->
       IF watcher[w].pc = "waiting" THEN [watcher[w] EXCEPT !.pc = "woken"]
                                    ELSE watcher[w]]
  /\ UNCHANGED <<config, gen, cache, active, op>>
-----------------------------------------------------------------------------
(* One attempt.                                                            *)

(* runRefresh: note the generation, start the operation in a free slot.    *)
Begin(p, s) ==
  /\ attempt[p].stage = "launched" /\ op[p][s] = NoOp
  /\ cache' = BeginRefresh(cache, gen, config, p)
  /\ op' = [op EXCEPT ![p][s] =
              [stage |-> "connecting", gen |-> gen, ident |-> config[p]]]
  /\ attempt' = [attempt EXCEPT ![p] =
                   [@ EXCEPT !.stage = "racing", !.gen = gen, !.slot = s]]
  /\ UNCHANGED <<config, gen, phase, queue, active, timer, readiness, caller, watcher>>

(* The operation in slot s returns, and with it an attempt still racing.   *)
OperationEnds(p, s) ==
  /\ op' = [op EXCEPT ![p][s] = NoOp]
  /\ attempt' = IF Live(p, s) THEN [attempt EXCEPT ![p].stage = "settled"] ELSE attempt
  /\ UNCHANGED <<config, gen, phase, queue, active, timer, readiness, caller, watcher>>

(* connectForCatalog reached a healthy client.                             *)
Connected(p, s) ==
  /\ op[p][s].stage = "connecting"
  /\ op[p][s].ident # NoPackage /\ p \notin SetupBlocked
  /\ IF IsCurrent(p, s)
       THEN /\ op' = [op EXCEPT ![p][s].stage = "listing"]
            /\ UNCHANGED <<config, gen, cache, phase, queue, attempt, active, timer,
                           readiness, caller, watcher>>
       ELSE OperationEnds(p, s) /\ UNCHANGED cache

TransientFailure == [status |-> "error", retry |-> "pending"]
AuthRequired     == [status |-> "auth_required",
                     retry  |-> IF AuthProbe THEN "pending" ELSE "none"]

(* The outcomes other than "connected".  A permanent failure is never      *)
(* retried; its message may read like an authentication error.             *)
ConnectFailures(p, ident) ==
  LET permanent == {[status |-> "error", retry |-> "none"],
                    [status |-> "auth_required", retry |-> "none"]}
  IN  IF ident = NoPackage THEN permanent
      ELSE IF p \in SetupBlocked
             THEN {[status |-> "setup_incomplete", retry |-> "none"]}
             ELSE permanent \cup {TransientFailure, AuthRequired}

ConnectFails(p, s) ==
  /\ op[p][s].stage = "connecting"
  /\ \E failure \in ConnectFailures(p, op[p][s].ident) :
       cache' = IF IsCurrent(p, s)
                  THEN CommitFailure(cache, gen, config, p, op[p][s].gen, failure)
                  ELSE cache
  /\ OperationEnds(p, s)

Listed(p, s) ==
  /\ op[p][s].stage = "listing"
  /\ cache' = IF IsCurrent(p, s)
                THEN CommitReady(cache, gen, config, p, op[p][s].gen, op[p][s].ident)
                ELSE cache
  /\ OperationEnds(p, s)

(* listTools rejects; a disposed refresher records nothing.                *)
ListingFails(p, s) ==
  /\ op[p][s].stage = "listing"
  /\ \E failure \in {TransientFailure, AuthRequired} :
       cache' = IF Live(p, s) /\ phase # "disposed"
                  THEN CommitFailure(cache, gen, config, p, op[p][s].gen, failure)
                  ELSE cache
  /\ OperationEnds(p, s)

(* The timeout wins the race; the operation is not cancelled.              *)
TimesOut(p) ==
  /\ attempt[p].stage = "racing"
  /\ attempt' = [attempt EXCEPT ![p].stage =
                   IF phase = "disposed" THEN "settled" ELSE "evicting"]
  /\ UNCHANGED <<config, gen, cache, phase, queue, active, op, timer, readiness,
                 caller, watcher>>

(* evictClient has returned: the failure is recorded only now.             *)
Evicted(p) ==
  /\ attempt[p].stage = "evicting"
  /\ cache' = CommitFailure(cache, gen, config, p, attempt[p].gen, TransientFailure)
  /\ attempt' = [attempt EXCEPT ![p].stage = "settled"]
  /\ UNCHANGED <<config, gen, phase, queue, active, op, timer, readiness, caller, watcher>>

(* The finally blocks of runRefresh and of drainQueue.                     *)
Finish(p) ==
  /\ attempt[p].stage = "settled"
  /\ cache' = FinishRefreshWithoutChange(cache, p, attempt[p].gen)
  /\ caller' = [c \in Caller |-> IF c \in attempt[p].waiters THEN Idle ELSE caller[c]]
  /\ UNCHANGED <<config, gen, phase, op>>
  /\ UpdateReadiness
  /\ DrainQueue(queue, [attempt EXCEPT ![p] = NoAttempt], active - 1)
  /\ ArmWakeTimer
-----------------------------------------------------------------------------
(* Time and the watchers.                                                  *)

(* A retry time is reached.                                                *)
RetryFallsDue(p) ==
  /\ cache[p].retry = "pending"
  /\ cache' = [cache EXCEPT ![p].retry = "due"]
  /\ UNCHANGED <<config, gen, phase, queue, attempt, active, op, timer, readiness,
                 caller, watcher>>

(* The wake timer: enqueueDueRefreshes.                                    *)
TimerFires ==
  /\ timer = "armed" /\ phase = "started"
  /\ UNCHANGED <<config, gen, cache, phase, op, readiness, caller, watcher>>
  /\ LET due == {p \in Configured(config) :
                   ~InFlight(p) /\ ~Queued(p) /\ RetryHint(cache, config, p) = "due"}
     IN  DrainQueue(Enqueue(queue, due, ForcedByAuth(due), {}), attempt, active)
  /\ ArmWakeTimer

(* One turn of the loop of whenCurrentGenerationReady up to its await.     *)
Watch(w) ==
  /\ watcher[w].pc = "idle"
     \/ /\ watcher[w].pc = "woken"
        /\ phase # "disposed" /\ ~(watcher[w].gen = gen /\ Complete)
  /\ phase # "disposed"
  /\ UNCHANGED <<config, gen, cache, phase, queue, attempt, active, op, timer, caller>>
  /\ readiness' = [gen |-> gen, resolved |-> Complete]
  /\ watcher' = [v \in Watcher |->
       IF v = w THEN [pc |-> IF Complete THEN "woken" ELSE "waiting", gen |-> gen]
                ELSE Notified(v)]

(* The await is over and the loop returns.                                 *)
Return(w) ==
  /\ watcher[w].pc = "woken"
  /\ phase = "disposed" \/ (watcher[w].gen = gen /\ Complete)
  /\ watcher' = [watcher EXCEPT ![w] = [pc |-> "idle", gen |-> 0]]
  /\ UNCHANGED <<config, gen, cache, phase, queue, attempt, active, op, timer,
                 readiness, caller>>
-----------------------------------------------------------------------------
Init ==
  /\ config \in Config
  /\ gen = 1
  /\ cache = [p \in Pkg |-> NoEntry]
  /\ phase = "new"
  /\ queue = [p \in Pkg |-> NotQueued]
  /\ attempt = [p \in Pkg |-> NoAttempt]
  /\ active = 0
  /\ op = [p \in Pkg |-> [s \in Slot |-> NoOp]]
  /\ timer = "null"
  /\ readiness = [gen |-> 1, resolved |-> FALSE]
  /\ caller = [c \in Caller |-> Idle]
  /\ watcher = [w \in Watcher |-> [pc |-> "idle", gen |-> 0]]

Request(p) ==
  \/ ScheduleRefresh(p)
  \/ \E c \in Caller, force \in BOOLEAN : EnsurePackageLoaded(c, p, force)
  \/ \E c \in Caller : Restart(c, p)
  \/ ClearOnly(p)
  \/ RegistryEvent(p)
  \/ Remove(p)

Operation(p, s) ==
  \/ Connected(p, s)
  \/ ConnectFails(p, s)
  \/ Listed(p, s)
  \/ ListingFails(p, s)

Attempt(p) ==
  \/ \E s \in Slot : Begin(p, s)
  \/ \E s \in Slot : Operation(p, s)
  \/ TimesOut(p)
  \/ Evicted(p)
  \/ Finish(p)

(* The server starts the refresher as it creates it, before any request.   *)
Next ==
  \/ Start
  \/ /\ phase # "new"
     /\ \/ Dispose
        \/ \E new \in Config : ConfigurationChanged(new)
        \/ \E p \in Pkg : Request(p) \/ Attempt(p) \/ RetryFallsDue(p)
        \/ TimerFires
        \/ \E w \in Watcher : Watch(w) \/ Return(w)

Spec == Init /\ [][Next]_vars

(* What the runtime provides: the timeout of an attempt fires, operations  *)
(* end (the clients time their own requests out), an eviction returns once *)
(* the tool calls in progress have, microtasks and timers run.             *)
Fairness ==
  /\ WF_vars(Start)
  /\ \A p \in Pkg :
       /\ WF_vars(\E s \in Slot : Begin(p, s))
       /\ \A s \in Slot : WF_vars(Operation(p, s))
       /\ WF_vars(TimesOut(p))
       /\ WF_vars(Evicted(p))
       /\ WF_vars(Finish(p))
       /\ WF_vars(RetryFallsDue(p))
  /\ WF_vars(TimerFires)
  /\ \A w \in Watcher : WF_vars(Watch(w) /\ watcher[w].pc = "woken") /\ WF_vars(Return(w))

FairSpec == Spec /\ Fairness
-----------------------------------------------------------------------------
(* The type invariant.                                                     *)
TypeOK ==
  /\ config \in Config
  /\ gen \in Nat
  /\ cache \in [Pkg -> Entry]
  /\ phase \in {"new", "started", "disposed"}
  /\ queue \in Queue
  /\ attempt \in Attempts
  /\ active \in Int
  /\ op \in Operations
  /\ timer \in {"null", "armed"}
  /\ readiness \in [gen : Nat, resolved : BOOLEAN]
  /\ caller \in [Caller -> [pkg : Pkg \cup {NoPackage}, force : BOOLEAN]]
  /\ watcher \in [Watcher -> [pc : {"idle", "waiting", "woken"}, gen : Nat]]

(* The tools kept for a configured package, advertised or retained behind  *)
(* a failure, were listed by a server of its present configuration, however*)
(* late an answer comes and whatever was reconfigured, restarted or cleared*)
(* meanwhile (the generation guards of commitReady and commitFailure).     *)
ToolsMatchConfiguration ==
  \A p \in Configured(config) : cache[p].tools \in {NoTools, config[p]}

(* An entry that says a refresh is in flight has an attempt running or     *)
(* queued that will lower the flag again: a new generation, which disarms  *)
(* finishRefreshWithoutChange, must queue what it interrupts.              *)
InFlightFlagHasOwner ==
  phase # "disposed" =>
    \A p \in Pkg : cache[p].inFlight => InFlight(p) \/ Queued(p)

(* Whoever awaits refreshNow is among the waiters of an attempt running or *)
(* queued for its package, and of one that reconnects if it asked for that:*)
(* merging queue entries loses neither.                                    *)
CallersAreServed ==
  \A c \in Caller : caller[c] # Idle =>
    LET p == caller[c].pkg
    IN  \/ c \in queue[p].waiters /\ (caller[c].force => queue[p].force)
        \/ c \in attempt[p].waiters /\ (caller[c].force => attempt[p].force)

(* No lost wake-up: a configured package that has a retry to make and      *)
(* neither an attempt nor a place in the queue has the wake timer behind   *)
(* it.  Two cases are left to the next reader: a "connecting" entry that a *)
(* handler cleared without asking for a refresh, and a package that was    *)
(* removed and comes back with the same identity, which configurationChanged *)
(* takes for unchanged.                                                    *)
RetryIsScheduled ==
  phase = "started" =>
    \A p \in Configured(config) \ Removable :
      \/ InFlight(p) \/ Queued(p) \/ timer = "armed"
      \/ RetryHint(cache, config, p) = "none"
      \/ p \in Clearable /\ cache[p].status = "connecting"

(* A queued refresh starts: packages that keep coming back cannot starve   *)
(* one that waits, and disposing drops it.                                 *)
EveryQueuedRefreshRuns ==
  \A p \in Pkg : []<>(phase # "started" \/ ~Queued(p))

(* Once the snapshot stays complete, no watcher waits for it for ever.     *)
EveryWatcherReturns ==
  \A w \in Watcher : []<>(watcher[w].pc = "idle" \/ ~Complete)
=============================================================================
