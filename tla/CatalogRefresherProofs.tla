----------------------- MODULE CatalogRefresherProofs -----------------------
(***************************************************************************)
(* Theorems about CatalogRefresher, for any set of packages, identities,   *)
(* callers and slots, any limit on concurrency and any number of           *)
(* generations.                                                            *)
(***************************************************************************)
EXTENDS CatalogRefresher, FiniteSetTheorems, TLAPS

-----------------------------------------------------------------------------
(* The operators of the catalog return maps of entries.                    *)

(* The writes of an attempt keep the cache a map of entries.               *)
LEMMA BeginRefreshType ==
  ASSUME NEW c \in [Pkg -> Entry], NEW g \in Nat, NEW cfg \in Config, NEW p \in Pkg
  PROVE  BeginRefresh(c, g, cfg, p) \in [Pkg -> Entry]
<1>1. [c[p] EXCEPT !.inFlight = TRUE, !.gen = g] \in Entry
  BY DEF Entry
<1>2. [Connecting(cfg[p], g) EXCEPT !.inFlight = TRUE] \in Entry
  BY DEF Connecting, Entry, Status, Retry, Config
<1> QED
  BY <1>1, <1>2 DEF BeginRefresh

LEMMA FinishRefreshType ==
  ASSUME NEW c \in [Pkg -> Entry], NEW p \in Pkg, NEW h \in Nat
  PROVE  FinishRefreshWithoutChange(c, p, h) \in [Pkg -> Entry]
BY DEF FinishRefreshWithoutChange, Entry

LEMMA CommitReadyType ==
  ASSUME NEW c \in [Pkg -> Entry], NEW g \in Nat, NEW cfg \in Config, NEW p \in Pkg,
         NEW h \in Nat, NEW t \in Ident
  PROVE  CommitReady(c, g, cfg, p, h, t) \in [Pkg -> Entry]
BY DEF CommitReady, Entry, Config, Status, Retry

LEMMA CommitFailureType ==
  ASSUME NEW c \in [Pkg -> Entry], NEW g \in Nat, NEW cfg \in Config, NEW p \in Pkg,
         NEW h \in Nat, NEW f \in [status : Status, retry : Retry]
  PROVE  CommitFailure(c, g, cfg, p, h, f) \in [Pkg -> Entry]
BY DEF CommitFailure, Entry, Config

(* Clearing a package and publishing a generation do too.                  *)
LEMMA CatalogInvalidationType ==
  ASSUME NEW c \in [Pkg -> Entry], NEW g \in Nat, NEW cfg \in Config,
         NEW p \in Pkg
  PROVE  /\ ClearPackage(c, g, cfg, p) \in [Pkg -> Entry]
         /\ SetConfigurationGeneration(c, cfg, g) \in [Pkg -> Entry]
<1>1. NoEntry \in Entry
  BY DEF NoEntry, Entry, Status, Retry
<1>2. \A r \in Pkg : Connecting(cfg[r], g) \in Entry
  BY DEF Connecting, Entry, Status, Retry, Config
<1>3. ClearPackage(c, g, cfg, p) \in [Pkg -> Entry]
  <2>1. [Connecting(cfg[p], g) EXCEPT !.tools = c[p].tools] \in Entry
    BY <1>2 DEF Entry
  <2> QED
    BY <1>1, <1>2, <2>1 DEF ClearPackage
<1>4. \A r \in Pkg : [c[r] EXCEPT !.gen = g] \in Entry
  BY DEF Entry
<1>5. SetConfigurationGeneration(c, cfg, g) \in [Pkg -> Entry]
  BY <1>1, <1>2, <1>4 DEF SetConfigurationGeneration
<1> QED
  BY <1>3, <1>5

(* ensureAuthProbeScheduled only moves a retry time.                       *)
LEMMA EnsureAuthProbeType ==
  ASSUME TypeOK, NEW S
  PROVE  EnsureAuthProbe(S) \in [Pkg -> Entry]
BY DEF EnsureAuthProbe, TypeOK, Entry, Retry

-----------------------------------------------------------------------------
(* The queue.                                                              *)

(* A queue never holds more packages than there are.                       *)
LEMMA PartOfPkg ==
  ASSUME NEW S \in SUBSET Pkg
  PROVE  IsFiniteSet(S) /\ Cardinality(S) \in Nat
BY CatalogAssumption, FS_Subset, FS_CardinalityType

(* enqueue keeps the queue a map of requests.                              *)
LEMMA EnqueueType ==
  ASSUME NEW q \in Queue, NEW S, NEW F, NEW W \in SUBSET Caller
  PROVE  Enqueue(q, S, F, W) \in Queue
<1> DEFINE next == Cardinality({p \in Pkg : q[p].rank > 0}) + 1
<1>1. next \in Nat
  BY PartOfPkg
<1> HIDE DEF next
<1>2. Enqueue(q, S, F, W) =
        [p \in Pkg |->
           IF p \in S /\ config'[p] # NoPackage
             THEN [rank    |-> IF q[p].rank > 0 THEN q[p].rank ELSE next,
                   force   |-> q[p].force \/ p \in F,
                   waiters |-> q[p].waiters \cup W]
             ELSE q[p]]
  BY DEF Enqueue, next
<1> QED
  BY <1>1, <1>2 DEF Queue

(* drainQueue starts attempts and keeps the types of what it writes.       *)
LEMMA DrainQueueType ==
  ASSUME NEW q \in Queue, NEW att \in Attempts, NEW act \in Int,
         DrainQueue(q, att, act)
  PROVE  queue' \in Queue /\ attempt' \in Attempts /\ active' \in Int
<1>1. PICK L \in SUBSET Pkg :
        /\ queue' = [p \in Pkg |->
             IF p \in L THEN NotQueued
             ELSE IF q[p].rank = 0 THEN q[p]
             ELSE [q[p] EXCEPT !.rank =
                     1 + Cardinality({r \in Pkg \ L : 0 < q[r].rank
                                                    /\ q[r].rank < q[p].rank})]]
        /\ attempt' = [p \in Pkg |-> IF p \in L THEN Launch(q, p) ELSE att[p]]
        /\ active' = act + Cardinality(L)
  BY DEF DrainQueue
<1>2. \A p \in Pkg : Cardinality({r \in Pkg \ L : 0 < q[r].rank
                                               /\ q[r].rank < q[p].rank}) \in Nat
  BY PartOfPkg
<1>3. queue' \in Queue
  BY <1>1, <1>2 DEF Queue, NotQueued
<1>4. attempt' \in Attempts
  BY <1>1 DEF Queue, Attempts, Launch
<1>5. active' \in Int
  BY <1>1, PartOfPkg
<1> QED
  BY <1>3, <1>4, <1>5
-----------------------------------------------------------------------------
(* The single steps of an attempt and of an operation.                     *)
LEMMA AttemptStepType ==
  ASSUME NEW a \in Attempts, NEW p \in Pkg
  PROVE  /\ \A c \in Caller : [a EXCEPT ![p].waiters = @ \cup {c}] \in Attempts
         /\ \A t \in {"evicting", "settled"} : [a EXCEPT ![p].stage = t] \in Attempts
         /\ \A s \in Slot, g \in Nat :
              [a EXCEPT ![p] = [@ EXCEPT !.stage = "racing", !.gen = g, !.slot = s]]
                \in Attempts
         /\ [a EXCEPT ![p] = NoAttempt] \in Attempts
         /\ a[p].gen \in Nat
<1>1. \A c \in Caller : [a EXCEPT ![p].waiters = @ \cup {c}] \in Attempts
  BY DEF Attempts
<1>2. \A t \in {"evicting", "settled"} : [a EXCEPT ![p].stage = t] \in Attempts
  BY DEF Attempts
<1>3. \A s \in Slot, g \in Nat :
        [a EXCEPT ![p] = [@ EXCEPT !.stage = "racing", !.gen = g, !.slot = s]]
          \in Attempts
  BY DEF Attempts
<1>4. [a EXCEPT ![p] = NoAttempt] \in Attempts /\ a[p].gen \in Nat
  BY DEF Attempts, NoAttempt
<1> QED
  BY <1>1, <1>2, <1>3, <1>4

LEMMA OperationStepType ==
  ASSUME NEW o \in Operations, NEW p \in Pkg, NEW s \in Slot
  PROVE  /\ [o EXCEPT ![p][s] = NoOp] \in Operations
         /\ \A g \in Nat, i \in Ident \cup {NoPackage} :
              [o EXCEPT ![p][s] = [stage |-> "connecting", gen |-> g, ident |-> i]]
                \in Operations
         /\ o[p][s].stage = "connecting" /\ o[p][s].ident # NoPackage =>
              [o EXCEPT ![p][s].stage = "listing"] \in Operations
         /\ o[p][s].gen \in Nat
         /\ o[p][s].stage = "listing" => o[p][s].ident \in Ident
BY DEF Operations, NoOp

(* The failures an operation can end in.                                   *)
LEMMA FailureType ==
  /\ TransientFailure \in [status : Status, retry : Retry]
  /\ AuthRequired \in [status : Status, retry : Retry]
  /\ \A p \in Pkg, i \in Ident \cup {NoPackage} :
       ConnectFailures(p, i) \subseteq [status : Status, retry : Retry]
BY DEF TransientFailure, AuthRequired, ConnectFailures, Status, Retry

-----------------------------------------------------------------------------
(* Type correctness.                                                       *)

LEMMA InitType == Init => TypeOK
<1> SUFFICES ASSUME Init PROVE TypeOK
  OBVIOUS
<1>1. NoEntry \in Entry
  BY DEF NoEntry, Entry, Status, Retry
<1>2. queue \in Queue /\ attempt \in Attempts /\ op \in Operations
  BY DEF Init, Queue, NotQueued, Attempts, NoAttempt, Operations, NoOp
<1> QED
  BY <1>1, <1>2 DEF Init, TypeOK, Idle

(* UpdateReadiness and ArmWakeTimer write values of the right types.       *)
LEMMA ReadinessType ==
  ASSUME TypeOK, gen' \in Nat, UpdateReadiness
  PROVE  /\ readiness' \in [gen : Nat, resolved : BOOLEAN]
         /\ watcher' \in [Watcher -> [pc : {"idle", "waiting", "woken"}, gen : Nat]]
<1>1. Complete' \in BOOLEAN
  BY DEF Complete, IsSnapshotComplete
<1>2. \A w \in Watcher : Notified(w) \in [pc : {"idle", "waiting", "woken"}, gen : Nat]
  BY DEF Notified, TypeOK
<1> QED
  BY <1>1, <1>2 DEF UpdateReadiness

LEMMA TimerType ==
  ASSUME TypeOK, ArmWakeTimer
  PROVE  timer' \in {"null", "armed"}
BY DEF TypeOK, ArmWakeTimer

(* refreshNow, whichever attempt the caller ends up awaiting.              *)
LEMMA RefreshNowType ==
  ASSUME TypeOK, NEW c \in Caller, NEW p \in Pkg, NEW force \in BOOLEAN,
         RefreshNow(c, p, force)
  PROVE  /\ queue' \in Queue /\ attempt' \in Attempts /\ active' \in Int
         /\ caller' \in [Caller -> [pkg : Pkg \cup {NoPackage}, force : BOOLEAN]]
<1>1. caller' \in [Caller -> [pkg : Pkg \cup {NoPackage}, force : BOOLEAN]]
  BY DEF RefreshNow, TypeOK
<1>2. CASE InFlight(p) /\ (force => attempt[p].force)
  <2>1. /\ attempt' = [attempt EXCEPT ![p].waiters = @ \cup {c}]
        /\ UNCHANGED <<queue, active>>
    BY <1>2 DEF RefreshNow
  <2> QED
    BY <1>1, <2>1, AttemptStepType DEF TypeOK
<1>3. CASE ~(InFlight(p) /\ (force => attempt[p].force))
  <2> DEFINE forced == IF force THEN {p} ELSE ForcedByAuth({p})
  <2>1. Enqueue(queue, {p}, forced, {c}) \in Queue
    BY EnqueueType DEF TypeOK
  <2>2. DrainQueue(Enqueue(queue, {p}, forced, {c}), attempt, active)
    BY <1>3 DEF RefreshNow
  <2> QED
    BY <1>1, <2>1, <2>2, DrainQueueType DEF TypeOK
<1> QED
  BY <1>2, <1>3

THEOREM TypeCorrect == Spec => []TypeOK
<1>1. ASSUME TypeOK, [Next]_vars PROVE TypeOK'
  <2> USE <1>1
  <2>1. CASE Start
    <3>1. cache' \in [Pkg -> Entry]
      BY <2>1, EnsureAuthProbeType DEF Start
    <3>2. queue' \in Queue /\ attempt' \in Attempts /\ active' \in Int
      BY <2>1, EnqueueType, DrainQueueType DEF Start, TypeOK
    <3> QED
      BY <2>1, <3>1, <3>2, ReadinessType, TimerType DEF Start, TypeOK
  <2>2. CASE Dispose
    <3>1. queue' \in Queue /\ attempt' \in Attempts
      <4>1. queue' = [p \in Pkg |-> NotQueued]
        BY <2>2 DEF Dispose
      <4>2. attempt' = [p \in Pkg |->
              IF attempt[p].stage = "racing"
                THEN [attempt[p] EXCEPT !.stage = "settled"] ELSE attempt[p]]
        BY <2>2 DEF Dispose
      <4>3. attempt \in Attempts
        BY DEF TypeOK
      <4>4. queue' \in Queue
        BY <4>1 DEF Queue, NotQueued
      <4>5. attempt' \in Attempts
        BY <4>2, <4>3 DEF Attempts
      <4> QED
        BY <4>4, <4>5
    <3> QED
      BY <2>2, <3>1 DEF Dispose, TypeOK, Idle
  <2>3. ASSUME NEW new \in Config, ConfigurationChanged(new) PROVE TypeOK'
    <3>1. cache' \in [Pkg -> Entry] /\ gen' \in Nat /\ config' \in Config
      <4>1. config' = new /\ gen' = gen + 1
            /\ cache' = SetConfigurationGeneration(cache, new, gen + 1)
        BY <2>3 DEF ConfigurationChanged
      <4>2. gen + 1 \in Nat
        BY DEF TypeOK
      <4>3. \A p \in Pkg : cache' \in [Pkg -> Entry]
        BY <4>1, <4>2, CatalogInvalidationType DEF TypeOK
      <4>4. CASE Pkg = {}
        BY <4>1, <4>2, <4>4 DEF SetConfigurationGeneration
      <4> QED
        BY <4>1, <4>2, <4>3, <4>4
    <3>2. queue' \in Queue /\ attempt' \in Attempts /\ active' \in Int
      BY <2>3, EnqueueType, DrainQueueType DEF ConfigurationChanged, TypeOK
    <3> QED
      BY <2>3, <3>1, <3>2, ReadinessType DEF ConfigurationChanged, TypeOK
  <2>4. ASSUME NEW p \in Pkg, Request(p) PROVE TypeOK'
    <3>1. CASE ScheduleRefresh(p)
      <4>1. cache' \in [Pkg -> Entry]
        BY <3>1, EnsureAuthProbeType DEF ScheduleRefresh
      <4>2. queue' \in Queue /\ attempt' \in Attempts /\ active' \in Int
        BY <3>1, EnqueueType, DrainQueueType DEF ScheduleRefresh, TypeOK
      <4>3. timer' \in {"null", "armed"}
        BY <3>1, TimerType DEF ScheduleRefresh, TypeOK
      <4> QED
        BY <3>1, <4>1, <4>2, <4>3 DEF ScheduleRefresh, TypeOK
    <3>2. ASSUME NEW c \in Caller, NEW force \in BOOLEAN,
                 EnsurePackageLoaded(c, p, force)
          PROVE  TypeOK'
      BY <3>2, RefreshNowType DEF EnsurePackageLoaded, TypeOK
    <3>3. ASSUME NEW c \in Caller, Restart(c, p) PROVE TypeOK'
      <4>1. cache' \in [Pkg -> Entry]
        BY <3>3, CatalogInvalidationType DEF Restart, TypeOK
      <4> QED
        BY <3>3, <4>1, RefreshNowType DEF Restart, TypeOK
    <3>4. CASE ClearOnly(p)
      BY <3>4, CatalogInvalidationType DEF ClearOnly, TypeOK
    <3>5. CASE RegistryEvent(p)
      BY <3>5, EnqueueType, DrainQueueType DEF RegistryEvent, TypeOK
    <3>6. CASE Remove(p)
      BY <3>6 DEF Remove, TypeOK, Config
    <3> QED
      BY <2>4, <3>1, <3>2, <3>3, <3>4, <3>5, <3>6 DEF Request
  <2>5. ASSUME NEW p \in Pkg, Attempt(p) PROVE TypeOK'
    <3>0. /\ cache \in [Pkg -> Entry] /\ gen \in Nat /\ config \in Config
          /\ attempt \in Attempts /\ op \in Operations
      BY DEF TypeOK
    <3>1. ASSUME NEW s \in Slot, Begin(p, s) PROVE TypeOK'
      <4>1. cache' = BeginRefresh(cache, gen, config, p)
        BY <3>1 DEF Begin
      <4>2. cache' \in [Pkg -> Entry]
        BY <3>0, <4>1, BeginRefreshType
      <4>3. config[p] \in Ident \cup {NoPackage}
        BY <3>0 DEF Config
      <4>4. op' \in Operations /\ attempt' \in Attempts
        BY <3>0, <3>1, <4>3, AttemptStepType, OperationStepType DEF Begin
      <4> QED
        BY <3>1, <4>2, <4>4 DEF Begin, TypeOK
    <3>2. ASSUME NEW s \in Slot, OperationEnds(p, s), cache' \in [Pkg -> Entry]
          PROVE  TypeOK'
      <4>1. op' \in Operations /\ attempt' \in Attempts
        BY <3>0, <3>2, AttemptStepType, OperationStepType DEF OperationEnds
      <4> QED
        BY <3>2, <4>1 DEF OperationEnds, TypeOK
    <3>3. ASSUME NEW s \in Slot, Operation(p, s) PROVE TypeOK'
      <4>1. op[p][s].gen \in Nat /\ op[p][s].ident \in Ident \cup {NoPackage}
        BY <3>0 DEF Operations
      <4>2. CASE Connected(p, s)
        <5>1. CASE IsCurrent(p, s)
          <6>1. /\ op' = [op EXCEPT ![p][s].stage = "listing"]
                /\ op[p][s].stage = "connecting" /\ op[p][s].ident # NoPackage
            BY <4>2, <5>1 DEF Connected
          <6>2. op' \in Operations
            BY <3>0, <6>1, OperationStepType
          <6> QED
            BY <4>2, <5>1, <6>2 DEF Connected, TypeOK
        <5>2. CASE ~IsCurrent(p, s)
          BY <3>0, <4>2, <5>2, <3>2 DEF Connected
        <5> QED
          BY <5>1, <5>2
      <4>3. CASE ConnectFails(p, s)
        <5>1. PICK failure \in ConnectFailures(p, op[p][s].ident) :
                cache' = IF IsCurrent(p, s)
                           THEN CommitFailure(cache, gen, config, p, op[p][s].gen, failure)
                           ELSE cache
          BY <4>3 DEF ConnectFails
        <5>2. cache' \in [Pkg -> Entry]
          BY <3>0, <4>1, <5>1, FailureType, CommitFailureType
        <5> QED
          BY <3>2, <4>3, <5>2 DEF ConnectFails
      <4>4. CASE Listed(p, s)
        <5>1. op[p][s].ident \in Ident
          BY <3>0, <4>4, OperationStepType DEF Listed
        <5>2. cache' = IF IsCurrent(p, s)
                THEN CommitReady(cache, gen, config, p, op[p][s].gen, op[p][s].ident)
                ELSE cache
          BY <4>4 DEF Listed
        <5>3. cache' \in [Pkg -> Entry]
          BY <3>0, <4>1, <5>1, <5>2, CommitReadyType
        <5> QED
          BY <3>2, <4>4, <5>3 DEF Listed
      <4>5. CASE ListingFails(p, s)
        <5>1. PICK failure \in {TransientFailure, AuthRequired} :
                cache' = IF Live(p, s) /\ phase # "disposed"
                           THEN CommitFailure(cache, gen, config, p, op[p][s].gen, failure)
                           ELSE cache
          BY <4>5 DEF ListingFails
        <5>2. cache' \in [Pkg -> Entry]
          BY <3>0, <4>1, <5>1, FailureType, CommitFailureType
        <5> QED
          BY <3>2, <4>5, <5>2 DEF ListingFails
      <4> QED
        BY <3>3, <4>2, <4>3, <4>4, <4>5 DEF Operation
    <3>4. CASE TimesOut(p)
      <4>1. attempt' \in Attempts
        BY <3>0, <3>4, AttemptStepType DEF TimesOut
      <4> QED
        BY <3>4, <4>1 DEF TimesOut, TypeOK
    <3>5. CASE Evicted(p)
      <4>1. cache' = CommitFailure(cache, gen, config, p, attempt[p].gen, TransientFailure)
        BY <3>5 DEF Evicted
      <4>2. cache' \in [Pkg -> Entry]
        BY <3>0, <4>1, FailureType, AttemptStepType, CommitFailureType
      <4>3. attempt' \in Attempts
        BY <3>0, <3>5, AttemptStepType DEF Evicted
      <4> QED
        BY <3>5, <4>2, <4>3 DEF Evicted, TypeOK
    <3>6. CASE Finish(p)
      <4>1. cache' = FinishRefreshWithoutChange(cache, p, attempt[p].gen)
        BY <3>6 DEF Finish
      <4>2. cache' \in [Pkg -> Entry]
        BY <3>0, <4>1, AttemptStepType, FinishRefreshType
      <4>3. /\ DrainQueue(queue, [attempt EXCEPT ![p] = NoAttempt], active - 1)
            /\ queue \in Queue /\ active - 1 \in Int
        BY <3>6 DEF Finish, TypeOK
      <4>4. queue' \in Queue /\ attempt' \in Attempts /\ active' \in Int
        BY <3>0, <4>3, AttemptStepType, DrainQueueType
      <4>5. caller' \in [Caller -> [pkg : Pkg \cup {NoPackage}, force : BOOLEAN]]
        <5>1. caller' = [c \in Caller |->
                           IF c \in attempt[p].waiters THEN Idle ELSE caller[c]]
          BY <3>6 DEF Finish
        <5> QED
          BY <5>1 DEF TypeOK, Idle
      <4> QED
        BY <3>6, <4>2, <4>4, <4>5, ReadinessType, TimerType DEF Finish, TypeOK
    <3> QED
      BY <2>5, <3>1, <3>3, <3>4, <3>5, <3>6 DEF Attempt
  <2>6. ASSUME NEW p \in Pkg, RetryFallsDue(p) PROVE TypeOK'
    <3>1. cache' = [cache EXCEPT ![p].retry = "due"]
      BY <2>6 DEF RetryFallsDue
    <3>2. cache' \in [Pkg -> Entry]
      BY <3>1 DEF TypeOK, Entry, Retry
    <3> QED
      BY <2>6, <3>2 DEF RetryFallsDue, TypeOK
  <2>7. CASE TimerFires
    <3>1. queue' \in Queue /\ attempt' \in Attempts /\ active' \in Int
      BY <2>7, EnqueueType, DrainQueueType DEF TimerFires, TypeOK
    <3> QED
      BY <2>7, <3>1, TimerType DEF TimerFires, TypeOK
  <2>8. ASSUME NEW w \in Watcher, Watch(w) \/ Return(w) PROVE TypeOK'
    <3>1. Complete \in BOOLEAN
      BY DEF Complete, IsSnapshotComplete
    <3>2. \A v \in Watcher :
            Notified(v) \in [pc : {"idle", "waiting", "woken"}, gen : Nat]
      BY DEF Notified, TypeOK
    <3> QED
      BY <2>8, <3>1, <3>2 DEF Watch, Return, TypeOK
  <2>9. CASE UNCHANGED vars
    BY <2>9 DEF vars, TypeOK
  <2> QED
    BY <2>1, <2>2, <2>3, <2>4, <2>5, <2>6, <2>7, <2>8, <2>9 DEF Next
<1> QED
  BY <1>1, InitType, PTL DEF Spec
-----------------------------------------------------------------------------
(* The tools kept for a package are those of its configuration.            *)

(* What makes ToolsMatchConfiguration inductive: an entry knows whose tools*)
(* it holds unless it was written while its package was removed, and an    *)
(* operation of the present generation works for the present configuration:*)
(* only a new generation brings a package back under another identity.     *)
ToolsInv ==
  /\ \A p \in Pkg : cache[p].ident = NoPackage \/ cache[p].tools \in {NoTools, cache[p].ident}
  /\ ToolsMatchConfiguration
  /\ \A p \in Pkg, s \in Slot : op[p][s].stage # "none" =>
       /\ op[p][s].gen <= gen
       /\ op[p][s].gen = gen => config[p] \in {op[p][s].ident, NoPackage}

(* A step that moves only flags, retry times and schedules.                *)
LEMMA ToolsFrame ==
  ASSUME ToolsInv, config' = config, gen' = gen, op' = op,
         \A p \in Pkg : /\ cache'[p].tools = cache[p].tools
                        /\ cache'[p].ident = cache[p].ident
  PROVE  ToolsInv'
BY DEF ToolsInv, ToolsMatchConfiguration, Configured

(* A failure keeps the tools and takes the present identity.               *)
LEMMA ToolsCommitFailure ==
  ASSUME TypeOK, ToolsInv, NEW p \in Pkg, NEW g, NEW f,
         cache' = CommitFailure(cache, gen, config, p, g, f),
         config' = config, gen' = gen,
         \A q \in Pkg, s \in Slot : op'[q][s] = op[q][s] \/ op'[q][s] = NoOp
  PROVE  ToolsInv'
<1>1. \A q \in Pkg : \/ cache'[q] = cache[q]
                     \/ cache'[q].tools = cache[q].tools /\ cache'[q].ident = config[q]
  BY DEF CommitFailure, TypeOK
<1> QED
  BY <1>1 DEF ToolsInv, ToolsMatchConfiguration, Configured, NoOp

THEOREM ToolsAlwaysMatch == Spec => []ToolsMatchConfiguration
<1>1. Init => ToolsInv
  BY DEF Init, ToolsInv, ToolsMatchConfiguration, Configured, NoEntry, NoOp
<1>2. ASSUME TypeOK, ToolsInv, [Next]_vars PROVE ToolsInv'
  <2> USE <1>2
  <2>0. /\ cache \in [Pkg -> Entry] /\ gen \in Nat /\ config \in Config
        /\ op \in Operations
    BY DEF TypeOK
  <2>1. CASE Start
    <3>1. cache' = EnsureAuthProbe(Configured(config))
          /\ config' = config /\ gen' = gen /\ op' = op
      BY <2>1 DEF Start
    <3>2. \A p \in Pkg : cache'[p].tools = cache[p].tools /\ cache'[p].ident = cache[p].ident
      BY <2>0, <3>1 DEF EnsureAuthProbe, Entry
    <3> QED
      BY <3>1, <3>2, ToolsFrame
  <2>2. CASE Dispose
    BY <2>2, ToolsFrame DEF Dispose
  <2>3. ASSUME NEW new \in Config, ConfigurationChanged(new) PROVE ToolsInv'
    <3>1. /\ config' = new /\ gen' = gen + 1 /\ op' = op
          /\ cache' = SetConfigurationGeneration(cache, new, gen + 1)
          /\ \A p \in Pkg : config[p] # NoPackage => new[p] = config[p]
      BY <2>3 DEF ConfigurationChanged, Configured
    <3>2. \A p \in Pkg : \/ cache'[p] = NoEntry
                         \/ cache'[p] = Connecting(new[p], gen + 1)
                         \/ /\ cache[p].ident = new[p]
                            /\ cache'[p] = [cache[p] EXCEPT !.gen = gen + 1]
                            /\ new[p] # NoPackage
      BY <3>1 DEF SetConfigurationGeneration, ChangedPackages
    <3>3. \A p \in Pkg :
            /\ cache'[p].ident = NoPackage \/ cache'[p].tools \in {NoTools, cache'[p].ident}
            /\ new[p] # NoPackage => cache'[p].tools \in {NoTools, new[p]}
      <4> TAKE p \in Pkg
      <4>1. CASE cache'[p] = NoEntry
        BY <4>1 DEF NoEntry
      <4>2. CASE cache'[p] = Connecting(new[p], gen + 1)
        BY <4>2 DEF Connecting
      <4>3. CASE /\ cache[p].ident = new[p] /\ new[p] # NoPackage
                 /\ cache'[p] = [cache[p] EXCEPT !.gen = gen + 1]
        <5>1. cache'[p].ident = new[p] /\ cache'[p].tools = cache[p].tools
          BY <2>0, <4>3 DEF Entry
        <5>2. cache[p].tools \in {NoTools, new[p]}
          BY <4>3 DEF ToolsInv
        <5> QED
          BY <5>1, <5>2
      <4> QED
        BY <3>2, <4>1, <4>2, <4>3
    <3>4. \A p \in Pkg, s \in Slot : op[p][s].stage # "none" =>
            op[p][s].gen <= gen + 1 /\ op[p][s].gen # gen + 1
      <4> TAKE p \in Pkg, s \in Slot
      <4>1. op[p][s].gen \in Nat
        BY <2>0, OperationStepType
      <4>2. op[p][s].stage # "none" => op[p][s].gen <= gen
        BY DEF ToolsInv
      <4> QED
        BY <2>0, <4>1, <4>2
    <3> QED
      BY <3>1, <3>3, <3>4 DEF ToolsInv, ToolsMatchConfiguration, Configured
  <2>4. ASSUME NEW p \in Pkg, ScheduleRefresh(p) PROVE ToolsInv'
    <3>1. cache' = EnsureAuthProbe({p}) /\ config' = config /\ gen' = gen /\ op' = op
      BY <2>4 DEF ScheduleRefresh
    <3>2. \A q \in Pkg : cache'[q].tools = cache[q].tools /\ cache'[q].ident = cache[q].ident
      BY <2>0, <3>1 DEF EnsureAuthProbe, Entry
    <3> QED
      BY <3>1, <3>2, ToolsFrame
  <2>5. ASSUME NEW p \in Pkg, cache' = ClearPackage(cache, gen, config, p),
               config' = config, gen' = gen, op' = op
        PROVE  ToolsInv'
    <3>1. \A q \in Pkg :
            \/ cache'[q] = cache[q]
            \/ cache'[q] = NoEntry
            \/ cache'[q].ident = config[q] /\ cache'[q].tools \in {NoTools, cache[q].tools}
      BY <2>0, <2>5 DEF ClearPackage, Connecting
    <3> QED
      BY <2>5, <3>1 DEF ToolsInv, ToolsMatchConfiguration, Configured, NoEntry
  <2>6. ASSUME NEW p \in Pkg, Request(p) PROVE ToolsInv'
    <3>1. ASSUME NEW c \in Caller, NEW force \in BOOLEAN, EnsurePackageLoaded(c, p, force)
          PROVE  ToolsInv'
      BY <3>1, ToolsFrame DEF EnsurePackageLoaded
    <3>2. ASSUME NEW c \in Caller, Restart(c, p) PROVE ToolsInv'
      BY <3>2, <2>5 DEF Restart
    <3>3. CASE ClearOnly(p)
      BY <3>3, <2>5 DEF ClearOnly
    <3>4. CASE RegistryEvent(p)
      BY <3>4, ToolsFrame DEF RegistryEvent
    <3>5. CASE Remove(p)
      <4>1. /\ config' = [config EXCEPT ![p] = NoPackage]
            /\ gen' = gen /\ cache' = cache /\ op' = op
        BY <3>5 DEF Remove
      <4>2. \A q \in Pkg : config'[q] \in {config[q], NoPackage}
        BY <2>0, <4>1 DEF Config
      <4> QED
        BY <4>1, <4>2 DEF ToolsInv, ToolsMatchConfiguration, Configured
    <3> QED
      BY <2>6, <2>4, <3>1, <3>2, <3>3, <3>4, <3>5 DEF Request
  <2>7. ASSUME NEW p \in Pkg, Attempt(p) PROVE ToolsInv'
    <3>1. ASSUME NEW s \in Slot, Begin(p, s) PROVE ToolsInv'
      <4>1. /\ cache' = BeginRefresh(cache, gen, config, p)
            /\ op' = [op EXCEPT ![p][s] =
                        [stage |-> "connecting", gen |-> gen, ident |-> config[p]]]
            /\ config' = config /\ gen' = gen
        BY <3>1 DEF Begin
      <4>2. \A q \in Pkg :
              \/ cache'[q].tools = cache[q].tools /\ cache'[q].ident = cache[q].ident
              \/ cache'[q].tools = NoTools
        BY <2>0, <4>1 DEF BeginRefresh, Connecting, Entry
      <4>3. \A q \in Pkg, r \in Slot :
              \/ op'[q][r] = op[q][r]
              \/ op'[q][r].gen = gen /\ op'[q][r].ident = config[q]
        BY <2>0, <4>1 DEF Operations
      <4>4. \A q \in Pkg, r \in Slot : op'[q][r].stage # "none" =>
              /\ op'[q][r].gen <= gen
              /\ op'[q][r].gen = gen => config[q] \in {op'[q][r].ident, NoPackage}
        BY <2>0, <4>3 DEF ToolsInv
      <4> QED
        BY <4>1, <4>2, <4>4 DEF ToolsInv, ToolsMatchConfiguration, Configured
    <3>2. ASSUME NEW s \in Slot, OperationEnds(p, s)
          PROVE  /\ config' = config /\ gen' = gen
                 /\ \A q \in Pkg, r \in Slot : op'[q][r] = op[q][r] \/ op'[q][r] = NoOp
      BY <2>0, <3>2 DEF OperationEnds, Operations
    <3>3. ASSUME NEW s \in Slot, OperationEnds(p, s), cache' = cache
          PROVE  ToolsInv'
      <4>1. \A q \in Pkg, r \in Slot : op'[q][r] = op[q][r] \/ op'[q][r].stage = "none"
        BY <3>2, <3>3 DEF NoOp
      <4> QED
        BY <3>2, <3>3, <4>1 DEF ToolsInv, ToolsMatchConfiguration, Configured
    <3>4. ASSUME NEW s \in Slot, Operation(p, s) PROVE ToolsInv'
      <4>1. CASE Connected(p, s)
        <5>1. CASE IsCurrent(p, s)
          <6>1. /\ op' = [op EXCEPT ![p][s].stage = "listing"] /\ cache' = cache
                /\ config' = config /\ gen' = gen /\ op[p][s].stage = "connecting"
            BY <4>1, <5>1 DEF Connected
          <6>2. \A q \in Pkg, r \in Slot :
                  /\ op'[q][r].gen = op[q][r].gen /\ op'[q][r].ident = op[q][r].ident
                  /\ op'[q][r].stage # "none" => op[q][r].stage # "none"
            BY <2>0, <6>1 DEF Operations
          <6> QED
            BY <6>1, <6>2 DEF ToolsInv, ToolsMatchConfiguration, Configured
        <5>2. CASE ~IsCurrent(p, s)
          BY <3>3, <4>1, <5>2 DEF Connected
        <5> QED
          BY <5>1, <5>2
      <4>2. CASE ConnectFails(p, s)
        <5>1. CASE IsCurrent(p, s)
          <6>1. PICK failure \in ConnectFailures(p, op[p][s].ident) :
                  cache' = CommitFailure(cache, gen, config, p, op[p][s].gen, failure)
            BY <4>2, <5>1 DEF ConnectFails
          <6> QED
            BY <3>2, <4>2, <6>1, ToolsCommitFailure DEF ConnectFails
        <5>2. CASE ~IsCurrent(p, s)
          BY <3>3, <4>2, <5>2 DEF ConnectFails
        <5> QED
          BY <5>1, <5>2
      <4>3. CASE Listed(p, s)
        <5>1. CASE IsCurrent(p, s)
          <6>1. /\ cache' = CommitReady(cache, gen, config, p, op[p][s].gen, op[p][s].ident)
                /\ op[p][s].stage = "listing"
            BY <4>3, <5>1 DEF Listed
          <6>2. op[p][s].gen = gen
            BY <5>1 DEF IsCurrent
          <6>3. config[p] \in {op[p][s].ident, NoPackage}
            BY <6>1, <6>2 DEF ToolsInv
          <6>4. \A q \in Pkg : \/ cache'[q] = cache[q]
                               \/ /\ q = p
                                  /\ cache'[q].tools = op[p][s].ident
                                  /\ cache'[q].ident = config[p]
            BY <2>0, <6>1 DEF CommitReady
          <6>5. /\ config' = config /\ gen' = gen
                /\ \A q \in Pkg, r \in Slot : op'[q][r] = op[q][r] \/ op'[q][r].stage = "none"
            BY <3>2, <4>3 DEF Listed, NoOp
          <6> QED
            BY <6>3, <6>4, <6>5 DEF ToolsInv, ToolsMatchConfiguration, Configured
        <5>2. CASE ~IsCurrent(p, s)
          BY <3>3, <4>3, <5>2 DEF Listed
        <5> QED
          BY <5>1, <5>2
      <4>4. CASE ListingFails(p, s)
        <5>1. CASE Live(p, s) /\ phase # "disposed"
          <6>1. PICK failure \in {TransientFailure, AuthRequired} :
                  cache' = CommitFailure(cache, gen, config, p, op[p][s].gen, failure)
            BY <4>4, <5>1 DEF ListingFails
          <6> QED
            BY <3>2, <4>4, <6>1, ToolsCommitFailure DEF ListingFails
        <5>2. CASE ~(Live(p, s) /\ phase # "disposed")
          BY <3>3, <4>4, <5>2 DEF ListingFails
        <5> QED
          BY <5>1, <5>2
      <4> QED
        BY <3>4, <4>1, <4>2, <4>3, <4>4 DEF Operation
    <3>5. CASE TimesOut(p)
      BY <3>5, ToolsFrame DEF TimesOut
    <3>6. CASE Evicted(p)
      <4>1. /\ cache' = CommitFailure(cache, gen, config, p, attempt[p].gen, TransientFailure)
            /\ config' = config /\ gen' = gen /\ op' = op
        BY <3>6 DEF Evicted
      <4> QED
        BY <4>1, ToolsCommitFailure
    <3>7. CASE Finish(p)
      <4>1. /\ cache' = FinishRefreshWithoutChange(cache, p, attempt[p].gen)
            /\ config' = config /\ gen' = gen /\ op' = op
        BY <3>7 DEF Finish
      <4>2. \A q \in Pkg : cache'[q].tools = cache[q].tools /\ cache'[q].ident = cache[q].ident
        BY <2>0, <4>1 DEF FinishRefreshWithoutChange, Entry
      <4> QED
        BY <4>1, <4>2, ToolsFrame
    <3> QED
      BY <2>7, <3>1, <3>4, <3>5, <3>6, <3>7 DEF Attempt
  <2>8. ASSUME NEW p \in Pkg, RetryFallsDue(p) PROVE ToolsInv'
    <3>1. \A q \in Pkg : cache'[q].tools = cache[q].tools /\ cache'[q].ident = cache[q].ident
      BY <2>0, <2>8 DEF RetryFallsDue, Entry
    <3> QED
      BY <2>8, <3>1, ToolsFrame DEF RetryFallsDue
  <2>9. CASE TimerFires
    BY <2>9, ToolsFrame DEF TimerFires
  <2>10. ASSUME NEW w \in Watcher, Watch(w) \/ Return(w) PROVE ToolsInv'
    BY <2>10, ToolsFrame DEF Watch, Return
  <2>11. CASE UNCHANGED vars
    BY <2>11, ToolsFrame DEF vars
  <2> QED
    BY <2>1, <2>2, <2>3, <2>6, <2>7, <2>8, <2>9, <2>10, <2>11 DEF Next
<1>3. ToolsInv => ToolsMatchConfiguration
  BY DEF ToolsInv
<1> QED
  BY <1>1, <1>2, <1>3, TypeCorrect, PTL DEF Spec
-----------------------------------------------------------------------------
(* What enqueue and drainQueue do to one package.                          *)

(* A request is never lost in the queue, nor is its force or a waiter.     *)
LEMMA Enqueued ==
  ASSUME NEW q \in Queue, NEW S, NEW F, NEW W \in SUBSET Caller, NEW p \in Pkg
  PROVE  LET e == Enqueue(q, S, F, W)[p] IN
         /\ q[p].rank > 0 => e.rank > 0
         /\ q[p].waiters \subseteq e.waiters /\ (q[p].force => e.force)
         /\ p \in S /\ config'[p] # NoPackage =>
              e.rank > 0 /\ W \subseteq e.waiters /\ (p \in F => e.force)
         /\ config'[p] = NoPackage => e = q[p]
<1> DEFINE next == Cardinality({r \in Pkg : q[r].rank > 0}) + 1
           e    == Enqueue(q, S, F, W)
<1>1. next \in Nat /\ next > 0
  BY PartOfPkg
<1> HIDE DEF next
<1>2. e[p] = IF p \in S /\ config'[p] # NoPackage
               THEN [rank    |-> IF q[p].rank > 0 THEN q[p].rank ELSE next,
                     force   |-> q[p].force \/ p \in F,
                     waiters |-> q[p].waiters \cup W]
               ELSE q[p]
  BY DEF Enqueue, next
<1> HIDE DEF e
<1>3. CASE p \in S /\ config'[p] # NoPackage
  <2>1. /\ e[p].rank = IF q[p].rank > 0 THEN q[p].rank ELSE next
        /\ e[p].force = (q[p].force \/ p \in F)
        /\ e[p].waiters = q[p].waiters \cup W
    BY <1>2, <1>3
  <2> QED
    BY <1>1, <1>3, <2>1 DEF e
<1>4. CASE ~(p \in S /\ config'[p] # NoPackage)
  BY <1>2, <1>4 DEF e
<1> QED
  BY <1>3, <1>4

(* What is taken from the queue becomes an attempt; nothing else changes.  *)
LEMMA Drained ==
  ASSUME NEW q \in Queue, NEW att, NEW act, DrainQueue(q, att, act), NEW p \in Pkg
  PROVE  \/ /\ q[p].rank > 0 /\ att[p].stage = "none"
            /\ queue'[p] = NotQueued /\ attempt'[p] = Launch(q, p)
         \/ /\ attempt'[p] = att[p]
            /\ queue'[p].force = q[p].force /\ queue'[p].waiters = q[p].waiters
            /\ q[p].rank > 0 <=> queue'[p].rank > 0
<1>1. PICK L \in SUBSET Pkg :
        /\ IF phase' = "started" THEN Startable(q, att, act, L) ELSE L = {}
        /\ queue' = [r \in Pkg |->
             IF r \in L THEN NotQueued
             ELSE IF q[r].rank = 0 THEN q[r]
             ELSE [q[r] EXCEPT !.rank =
                     1 + Cardinality({t \in Pkg \ L : 0 < q[t].rank
                                                    /\ q[t].rank < q[r].rank})]]
        /\ attempt' = [r \in Pkg |-> IF r \in L THEN Launch(q, r) ELSE att[r]]
  BY DEF DrainQueue
<1>2. CASE p \in L
  BY <1>1, <1>2 DEF Startable, Eligible
<1>3. CASE p \notin L
  <2> DEFINE n == Cardinality({t \in Pkg \ L : 0 < q[t].rank /\ q[t].rank < q[p].rank})
  <2>1. n \in Nat
    BY PartOfPkg
  <2>2. queue'[p] = IF q[p].rank = 0 THEN q[p] ELSE [q[p] EXCEPT !.rank = 1 + n]
    BY <1>1, <1>3
  <2> HIDE DEF n
  <2>3. q[p].rank \in Nat /\ q[p] \in [rank : Nat, force : BOOLEAN, waiters : SUBSET Caller]
    BY DEF Queue
  <2> QED
    BY <1>1, <1>3, <2>1, <2>2, <2>3
<1> QED
  BY <1>2, <1>3

(* So a request keeps what is under way, and puts the package it is for in *)
(* the queue or under way.                                                 *)
Keeps(p) ==
  /\ InFlight(p) => attempt'[p].stage = attempt[p].stage /\ attempt'[p].gen = attempt[p].gen
  /\ Queued(p) => Queued(p)' \/ attempt'[p].stage = "launched"
  /\ ~InFlight(p) /\ ~Queued(p) /\ config'[p] = NoPackage => ~InFlight(p)' /\ ~Queued(p)'

LEMMA RequestKeeps ==
  ASSUME TypeOK, NEW S, NEW F, NEW W \in SUBSET Caller,
         DrainQueue(Enqueue(queue, S, F, W), attempt, active), NEW p \in Pkg
  PROVE  /\ Keeps(p)
         /\ p \in S /\ config'[p] # NoPackage => Queued(p)' \/ attempt'[p].stage = "launched"
<1> DEFINE e == Enqueue(queue, S, F, W)
<1>1. e \in Queue /\ queue \in Queue
  BY EnqueueType DEF TypeOK
<1>2. /\ queue[p].rank > 0 => e[p].rank > 0
      /\ p \in S /\ config'[p] # NoPackage => e[p].rank > 0
      /\ config'[p] = NoPackage => e[p] = queue[p]
  BY <1>1, Enqueued
<1>3. \/ /\ e[p].rank > 0 /\ attempt[p].stage = "none"
         /\ queue'[p] = NotQueued /\ attempt'[p] = Launch(e, p)
      \/ attempt'[p] = attempt[p] /\ (e[p].rank > 0 <=> queue'[p].rank > 0)
  BY <1>1, Drained
<1> HIDE DEF e
<1> QED
  BY <1>2, <1>3 DEF Keeps, Queued, InFlight, Launch, NotQueued

LEMMA RefreshNowKeeps ==
  ASSUME TypeOK, NEW c \in Caller, NEW r \in Pkg, NEW force \in BOOLEAN,
         RefreshNow(c, r, force), NEW p \in Pkg
  PROVE  /\ Keeps(p)
         /\ p = r /\ config'[p] # NoPackage => Queued(p)' \/ InFlight(p)'
<1>1. CASE InFlight(r) /\ (force => attempt[r].force)
  <2>1. attempt' = [attempt EXCEPT ![r].waiters = @ \cup {c}] /\ queue' = queue
    BY <1>1 DEF RefreshNow
  <2>2. attempt'[p].stage = attempt[p].stage /\ attempt'[p].gen = attempt[p].gen
    BY <2>1 DEF TypeOK, Attempts
  <2> QED
    BY <1>1, <2>1, <2>2 DEF Keeps, InFlight, Queued
<1>2. CASE ~(InFlight(r) /\ (force => attempt[r].force))
  <2> DEFINE forced == IF force THEN {r} ELSE ForcedByAuth({r})
  <2>1. DrainQueue(Enqueue(queue, {r}, forced, {c}), attempt, active)
    BY <1>2 DEF RefreshNow
  <2> HIDE DEF forced
  <2> QED
    BY <2>1, RequestKeeps DEF InFlight
<1> QED
  BY <1>1, <1>2
-----------------------------------------------------------------------------
(* Whoever awaits a refresh is served.                                     *)

(* An attempt that is none serves nobody, so that launching one loses      *)
(* nobody.                                                                 *)
Served(c) ==
  caller[c] # Idle =>
    /\ caller[c].pkg \in Pkg
    /\ LET p == caller[c].pkg
       IN  \/ c \in queue[p].waiters /\ (caller[c].force => queue[p].force)
           \/ c \in attempt[p].waiters /\ (caller[c].force => attempt[p].force)

ServedInv ==
  /\ \A p \in Pkg : attempt[p].stage = "none" => attempt[p].waiters = {}
  /\ \A c \in Caller : Served(c)

(* What a package's queue entry and attempt promise is only added to.      *)
Serves(p) ==
  /\ attempt'[p].stage = "none" => attempt'[p].waiters = {}
  /\ \A c \in Caller, force \in BOOLEAN :
       \/ c \in queue[p].waiters /\ (force => queue[p].force)
       \/ c \in attempt[p].waiters /\ (force => attempt[p].force)
       => \/ c \in queue'[p].waiters /\ (force => queue'[p].force)
          \/ c \in attempt'[p].waiters /\ (force => attempt'[p].force)

LEMMA ServedFrame ==
  ASSUME TypeOK, ServedInv, \A p \in Pkg : Serves(p),
         \A c \in Caller : caller'[c] = caller[c] \/ Served(c)'
  PROVE  ServedInv'
<1>1. ASSUME NEW c \in Caller PROVE Served(c)'
  <2>1. CASE caller'[c] = caller[c] /\ caller[c] # Idle
    <3>1. caller[c].pkg \in Pkg /\ Serves(caller[c].pkg) /\ caller[c].force \in BOOLEAN
      BY <2>1 DEF ServedInv, Served, TypeOK
    <3> QED
      BY <2>1, <3>1 DEF ServedInv, Served, Serves
  <2>2. CASE caller'[c] = Idle
    BY <2>2 DEF Served, Idle
  <2> QED
    BY <2>1, <2>2
<1> QED
  BY <1>1 DEF ServedInv, Serves

(* A request adds to the queue what it needs, and draining keeps it.       *)
LEMMA RequestServes ==
  ASSUME TypeOK, ServedInv, NEW S, NEW F, NEW W \in SUBSET Caller,
         DrainQueue(Enqueue(queue, S, F, W), attempt, active), NEW p \in Pkg
  PROVE  /\ Serves(p)
         /\ p \in S /\ config'[p] # NoPackage =>
              \/ W \subseteq queue'[p].waiters /\ (p \in F => queue'[p].force)
              \/ W \subseteq attempt'[p].waiters /\ (p \in F => attempt'[p].force)
<1> DEFINE e == Enqueue(queue, S, F, W)
<1>1. e \in Queue /\ queue \in Queue
  BY EnqueueType DEF TypeOK
<1>2. /\ queue[p].waiters \subseteq e[p].waiters /\ (queue[p].force => e[p].force)
      /\ p \in S /\ config'[p] # NoPackage =>
           W \subseteq e[p].waiters /\ (p \in F => e[p].force)
  BY <1>1, Enqueued
<1>3. \/ /\ attempt[p].stage = "none"
         /\ queue'[p] = NotQueued /\ attempt'[p] = Launch(e, p)
      \/ /\ attempt'[p] = attempt[p]
         /\ queue'[p].force = e[p].force /\ queue'[p].waiters = e[p].waiters
  BY <1>1, Drained
<1> HIDE DEF e
<1>4. attempt[p].stage = "none" => attempt[p].waiters = {}
  BY DEF ServedInv
<1> QED
  BY <1>2, <1>3, <1>4 DEF Serves, Launch

LEMMA RefreshNowServes ==
  ASSUME TypeOK, ServedInv, NEW c \in Caller, NEW r \in Pkg, NEW force \in BOOLEAN,
         RefreshNow(c, r, force), config'[r] # NoPackage
  PROVE  ServedInv'
<1>0. caller' = [caller EXCEPT ![c] = [pkg |-> r, force |-> force]]
  BY DEF RefreshNow
<1>1. /\ \A d \in Caller \ {c} : caller'[d] = caller[d]
      /\ caller'[c].pkg = r /\ caller'[c].force = force
  BY <1>0 DEF TypeOK
<1>2. CASE InFlight(r) /\ (force => attempt[r].force)
  <2>1. attempt' = [attempt EXCEPT ![r].waiters = @ \cup {c}] /\ queue' = queue
    BY <1>2 DEF RefreshNow
  <2>2. /\ \A p \in Pkg : /\ attempt'[p].stage = attempt[p].stage
                          /\ attempt'[p].force = attempt[p].force
                          /\ attempt[p].waiters \subseteq attempt'[p].waiters
                          /\ p # r => attempt'[p] = attempt[p]
        /\ c \in attempt'[r].waiters
    BY <2>1 DEF TypeOK, Attempts
  <2>3. \A p \in Pkg : Serves(p)
    BY <1>2, <2>1, <2>2 DEF Serves, ServedInv, InFlight
  <2>4. Served(c)'
    BY <1>1, <1>2, <2>2 DEF Served
  <2> QED
    BY <1>1, <2>3, <2>4, ServedFrame
<1>3. CASE ~(InFlight(r) /\ (force => attempt[r].force))
  <2> DEFINE forced == IF force THEN {r} ELSE ForcedByAuth({r})
  <2>1. DrainQueue(Enqueue(queue, {r}, forced, {c}), attempt, active)
    BY <1>3 DEF RefreshNow
  <2>2. force => r \in forced
    OBVIOUS
  <2> HIDE DEF forced
  <2>3. \A p \in Pkg : Serves(p)
    BY <2>1, RequestServes
  <2>4. \/ {c} \subseteq queue'[r].waiters /\ (r \in forced => queue'[r].force)
        \/ {c} \subseteq attempt'[r].waiters /\ (r \in forced => attempt'[r].force)
    BY <2>1, RequestServes
  <2>5. Served(c)'
    BY <1>1, <2>2, <2>4 DEF Served
  <2> QED
    BY <1>1, <2>3, <2>5, ServedFrame
<1> QED
  BY <1>2, <1>3

(* Nothing changes in the queue, and in the attempts only how far they are. *)
LEMMA ProgressServes ==
  ASSUME TypeOK, ServedInv, queue' = queue, caller' = caller,
         \A p \in Pkg : \/ attempt'[p] = attempt[p]
                        \/ /\ attempt'[p].waiters = attempt[p].waiters
                           /\ attempt'[p].force = attempt[p].force
                           /\ attempt'[p].stage # "none"
  PROVE  ServedInv'
<1>1. \A p \in Pkg : Serves(p)
  BY DEF Serves, ServedInv
<1> QED
  BY <1>1, ServedFrame

LEMMA StillServes ==
  ASSUME TypeOK, ServedInv, NEW p \in Pkg, queue' = queue, caller' = caller,
         \/ attempt' = attempt
         \/ \E t \in {"settled", "evicting"} : attempt' = [attempt EXCEPT ![p].stage = t]
  PROVE  ServedInv'
<1>1. \A r \in Pkg : \/ attempt'[r] = attempt[r]
                     \/ /\ attempt'[r].waiters = attempt[r].waiters
                        /\ attempt'[r].force = attempt[r].force
                        /\ attempt'[r].stage # "none"
  BY DEF TypeOK, Attempts
<1> QED
  BY <1>1, ProgressServes

LEMMA AttemptServes ==
  ASSUME TypeOK, ServedInv, NEW p \in Pkg, Attempt(p)
  PROVE  ServedInv'
<1>1. CASE Finish(p)
  <2>1. /\ caller' = [c \in Caller |-> IF c \in attempt[p].waiters THEN Idle ELSE caller[c]]
        /\ DrainQueue(queue, [attempt EXCEPT ![p] = NoAttempt], active - 1)
    BY <1>1 DEF Finish
  <2> DEFINE att == [attempt EXCEPT ![p] = NoAttempt]
  <2>2. \A r \in Pkg : att[r] = IF r = p THEN NoAttempt ELSE attempt[r]
    BY DEF TypeOK, Attempts
  <2> HIDE DEF att
  <2>3. /\ DrainQueue(queue, att, active - 1) /\ queue \in Queue
        /\ \A r \in Pkg : attempt[r].stage = "none" => attempt[r].waiters = {}
    BY <2>1 DEF TypeOK, att, ServedInv
  <2>4. ASSUME NEW r \in Pkg
        PROVE  /\ attempt'[r].stage = "none" => attempt'[r].waiters = {}
               /\ \A c \in Caller, force \in BOOLEAN :
                    \/ c \in queue[r].waiters /\ (force => queue[r].force)
                    \/ r # p /\ c \in attempt[r].waiters /\ (force => attempt[r].force)
                    => \/ c \in queue'[r].waiters /\ (force => queue'[r].force)
                       \/ c \in attempt'[r].waiters /\ (force => attempt'[r].force)
    <3>1. \/ /\ att[r].stage = "none"
             /\ queue'[r] = NotQueued /\ attempt'[r] = Launch(queue, r)
          \/ /\ attempt'[r] = att[r]
             /\ queue'[r].force = queue[r].force /\ queue'[r].waiters = queue[r].waiters
      BY <2>3, Drained
    <3>2. CASE att[r].stage = "none" /\ attempt'[r] = Launch(queue, r)
      <4>1. /\ attempt'[r].stage = "launched" /\ attempt'[r].waiters = queue[r].waiters
            /\ attempt'[r].force = queue[r].force
        BY <3>2 DEF Launch
      <4>2. r # p => attempt[r].waiters = {}
        BY <2>2, <2>3, <3>2
      <4> QED
        BY <4>1, <4>2
    <3>3. CASE attempt'[r] = att[r] /\ queue'[r].force = queue[r].force
                                    /\ queue'[r].waiters = queue[r].waiters
      <4>1. CASE r = p
        <5>1. attempt'[r] = NoAttempt
          BY <2>2, <3>3, <4>1
        <5> QED
          BY <3>3, <4>1, <5>1 DEF NoAttempt
      <4>2. CASE r # p
        <5>1. attempt'[r] = attempt[r]
          BY <2>2, <3>3, <4>2
        <5> QED
          BY <2>3, <3>3, <5>1
      <4> QED
        BY <4>1, <4>2
    <3> QED
      BY <3>1, <3>2, <3>3
  <2>5. ASSUME NEW c \in Caller PROVE Served(c)'
    <3>1. CASE c \in attempt[p].waiters
      BY <2>1, <3>1 DEF Served
    <3>2. CASE c \notin attempt[p].waiters /\ caller[c] # Idle
      <4>1. caller'[c] = caller[c] /\ caller[c].pkg \in Pkg
        BY <2>1, <3>2 DEF ServedInv, Served
      <4>2. PICK r \in Pkg : r = caller[c].pkg
        BY <4>1
      <4>3. \/ c \in queue[r].waiters /\ (caller[c].force => queue[r].force)
            \/ r # p /\ c \in attempt[r].waiters /\ (caller[c].force => attempt[r].force)
        BY <3>2, <4>2 DEF ServedInv, Served
      <4>4. caller[c].force \in BOOLEAN
        BY DEF TypeOK
      <4>5. \/ c \in queue'[r].waiters /\ (caller[c].force => queue'[r].force)
            \/ c \in attempt'[r].waiters /\ (caller[c].force => attempt'[r].force)
        BY <2>4, <4>3, <4>4
      <4> QED
        BY <4>1, <4>2, <4>5 DEF Served
    <3>3. CASE c \notin attempt[p].waiters /\ caller[c] = Idle
      BY <2>1, <3>3 DEF Served
    <3> QED
      BY <3>1, <3>2, <3>3
  <2> QED
    BY <2>4, <2>5 DEF ServedInv
<1>2. CASE ~Finish(p)
  <2> DEFINE Ends  == \E t \in {"settled", "evicting"} :
                        attempt' = [attempt EXCEPT ![p].stage = t]
             Still == attempt' = attempt \/ Ends
  <2>1. ASSUME NEW s \in Slot, OperationEnds(p, s)
        PROVE  queue' = queue /\ caller' = caller /\ Still
    BY <2>1 DEF OperationEnds
  <2>2. ASSUME NEW s \in Slot, Operation(p, s)
        PROVE  queue' = queue /\ caller' = caller /\ Still
    <3>1. CASE OperationEnds(p, s)
      BY <2>1, <3>1
    <3>2. CASE ~OperationEnds(p, s)
      BY <2>2, <3>2 DEF Operation, Connected, ConnectFails, Listed, ListingFails
    <3> QED
      BY <3>1, <3>2
  <2>3. CASE TimesOut(p)
    <3>1. queue' = queue /\ caller' = caller /\ Still
      BY <2>3 DEF TimesOut
    <3> QED
      BY <3>1, StillServes
  <2>4. CASE Evicted(p)
    <3>1. queue' = queue /\ caller' = caller /\ Still
      BY <2>4 DEF Evicted
    <3> QED
      BY <3>1, StillServes
  <2>5. ASSUME NEW s \in Slot, Begin(p, s) PROVE ServedInv'
    <3>1. /\ queue' = queue /\ caller' = caller
          /\ attempt' = [attempt EXCEPT ![p] =
                           [@ EXCEPT !.stage = "racing", !.gen = gen, !.slot = s]]
      BY <2>5 DEF Begin
    <3>2. \A r \in Pkg : \/ attempt'[r] = attempt[r]
                         \/ /\ attempt'[r].waiters = attempt[r].waiters
                            /\ attempt'[r].force = attempt[r].force
                            /\ attempt'[r].stage # "none"
      BY <3>1 DEF TypeOK, Attempts
    <3> QED
      BY <3>1, <3>2, ProgressServes
  <2>6. CASE \E s \in Slot : Operation(p, s)
    BY <2>2, <2>6, StillServes
  <2> QED
    BY <1>2, <2>3, <2>4, <2>5, <2>6 DEF Attempt
<1> QED
  BY <1>1, <1>2

LEMMA ServedNext == TypeOK /\ ServedInv /\ [Next]_vars => ServedInv'
<1> SUFFICES ASSUME TypeOK, ServedInv, [Next]_vars PROVE ServedInv'
  OBVIOUS
<1>1. ASSUME NEW S, NEW F, DrainQueue(Enqueue(queue, S, F, {}), attempt, active),
             caller' = caller
      PROVE  ServedInv'
  BY <1>1, RequestServes, ServedFrame
<1>2. CASE Start
  BY <1>1, <1>2 DEF Start
<1>3. CASE Dispose
  <2>1. /\ queue' = [p \in Pkg |-> NotQueued]
        /\ caller' = [c \in Caller |->
             IF \E p \in Pkg : c \in queue[p].waiters THEN Idle ELSE caller[c]]
        /\ attempt' = [p \in Pkg |->
             IF attempt[p].stage = "racing"
               THEN [attempt[p] EXCEPT !.stage = "settled"] ELSE attempt[p]]
    BY <1>3 DEF Dispose
  <2>2. \A p \in Pkg : /\ attempt'[p].waiters = attempt[p].waiters
                       /\ attempt'[p].force = attempt[p].force
                       /\ attempt'[p].stage = "none" => attempt[p].stage = "none"
    BY <2>1 DEF TypeOK, Attempts
  <2>3. ASSUME NEW c \in Caller PROVE Served(c)'
    <3>1. CASE \E p \in Pkg : c \in queue[p].waiters
      BY <2>1, <3>1 DEF Served
    <3>2. CASE ~\E p \in Pkg : c \in queue[p].waiters
      BY <2>1, <2>2, <3>2 DEF Served, ServedInv
    <3> QED
      BY <3>1, <3>2
  <2> QED
    BY <2>2, <2>3 DEF ServedInv
<1>4. ASSUME NEW new \in Config, ConfigurationChanged(new) PROVE ServedInv'
  BY <1>1, <1>4 DEF ConfigurationChanged
<1>5. ASSUME NEW p \in Pkg, Request(p) PROVE ServedInv'
  <2>1. CASE ScheduleRefresh(p)
    <3>1. CASE RetryHint(cache', config, p) = "due"
      BY <1>1, <2>1, <3>1 DEF ScheduleRefresh
    <3>2. CASE RetryHint(cache', config, p) # "due"
      BY <2>1, <3>2, ProgressServes DEF ScheduleRefresh
    <3> QED
      BY <3>1, <3>2
  <2>2. ASSUME NEW c \in Caller, NEW force \in BOOLEAN, EnsurePackageLoaded(c, p, force)
        PROVE  ServedInv'
    BY <2>2, RefreshNowServes DEF EnsurePackageLoaded
  <2>3. ASSUME NEW c \in Caller, Restart(c, p) PROVE ServedInv'
    BY <2>3, RefreshNowServes DEF Restart
  <2>4. CASE ClearOnly(p) \/ Remove(p)
    BY <2>4, ProgressServes DEF ClearOnly, Remove
  <2>5. CASE RegistryEvent(p)
    BY <1>1, <2>5 DEF RegistryEvent
  <2> QED
    BY <1>5, <2>1, <2>2, <2>3, <2>4, <2>5 DEF Request
<1>6. CASE TimerFires
  BY <1>1, <1>6 DEF TimerFires
<1>7. CASE \/ \E p \in Pkg : RetryFallsDue(p)
           \/ \E w \in Watcher : Watch(w) \/ Return(w)
           \/ UNCHANGED vars
  <2>1. queue' = queue /\ attempt' = attempt /\ caller' = caller
    BY <1>7 DEF RetryFallsDue, Watch, Return, vars
  <2> QED
    BY <2>1, ProgressServes
<1> QED
  BY <1>2, <1>3, <1>4, <1>5, <1>6, <1>7, AttemptServes DEF Next

(* src/catalogRefresher.ts, refreshNow: merging queue entries and launching *)
(* them loses no waiter and no reconnect that was asked for.               *)
THEOREM CallersServed == Spec => []CallersAreServed
<1>1. Init => ServedInv
  BY DEF Init, ServedInv, Served, NoAttempt
<1>2. ServedInv => CallersAreServed
  BY DEF ServedInv, Served, CallersAreServed
<1> QED
  BY <1>1, <1>2, ServedNext, TypeCorrect, PTL DEF Spec
-----------------------------------------------------------------------------
(* What one attempt writes, apart from its finally block: the entry of its *)
(* own package, in its own generation, while it is in flight.              *)
Written(p) ==
  \/ cache'[p] = cache[p]
  \/ /\ InFlight(p)
     /\ Cached(cache'[p]) /\ cache'[p].gen = gen
     /\ cache'[p].inFlight => attempt'[p].gen = gen

AttemptWrites(p) ==
  /\ UNCHANGED <<config, gen, phase, queue, timer>>
  /\ \A r \in Pkg : attempt'[r].stage = "none" <=> attempt[r].stage = "none"
  /\ \A r \in Pkg \ {p} : attempt'[r] = attempt[r] /\ cache'[r] = cache[r]
  /\ attempt'[p].gen \in {attempt[p].gen, gen}
  /\ attempt[p].stage = "launched" => attempt'[p] = attempt[p] \/ attempt'[p].gen = gen
  /\ Written(p)

LEMMA CommitWrites ==
  ASSUME TypeOK, NEW p \in Pkg, NEW g, NEW tools, NEW failure, failure.status # "unknown",
         InFlight(p),
         \/ cache' = CommitFailure(cache, gen, config, p, g, failure)
         \/ cache' = CommitReady(cache, gen, config, p, g, tools)
  PROVE  Written(p) /\ \A r \in Pkg \ {p} : cache'[r] = cache[r]
<1>1. CASE g # gen
  BY <1>1 DEF CommitFailure, CommitReady, Written
<1>2. CASE g = gen
  <2>1. /\ \A r \in Pkg \ {p} : cache'[r] = cache[r]
        /\ cache'[p].status \in {"ready", failure.status}
        /\ cache'[p].gen = gen /\ cache'[p].inFlight = FALSE
    BY <1>2 DEF CommitFailure, CommitReady, TypeOK
  <2> QED
    BY <2>1 DEF Written, Cached
<1> QED
  BY <1>1, <1>2

(* No failure leaves a package without an entry.                           *)
LEMMA FailureStatus ==
  /\ TransientFailure.status # "unknown" /\ AuthRequired.status # "unknown"
  /\ \A p \in Pkg, i \in Ident \cup {NoPackage} :
       \A failure \in ConnectFailures(p, i) : failure.status # "unknown"
BY DEF TransientFailure, AuthRequired, ConnectFailures

(* How far an attempt is changes only at its own package.                  *)
LEMMA StageWrites ==
  ASSUME TypeOK, NEW p \in Pkg, InFlight(p), attempt[p].stage # "launched",
         \E t \in {"settled", "evicting"} : attempt' = [attempt EXCEPT ![p].stage = t]
  PROVE  /\ \A r \in Pkg : attempt'[r].stage = "none" <=> attempt[r].stage = "none"
         /\ \A r \in Pkg \ {p} : attempt'[r] = attempt[r]
         /\ attempt'[p].gen = attempt[p].gen
BY DEF TypeOK, Attempts, InFlight

(* The result of an operation is written only while its attempt is racing. *)
LEMMA OperationWrites ==
  ASSUME TypeOK, NEW p \in Pkg, NEW s \in Slot, Operation(p, s)
  PROVE  /\ AttemptWrites(p)
         /\ ~Live(p, s) => cache' = cache
         /\ \A q \in Pkg, t \in Slot : op'[q][t] = op[q][t] \/ (q = p /\ t = s)
<1>0. /\ UNCHANGED <<config, gen, phase, queue, timer>>
      /\ \A q \in Pkg, t \in Slot : op'[q][t] = op[q][t] \/ (q = p /\ t = s)
  <2>0. PICK D : op \in [Pkg -> [Slot -> D]]
    BY DEF TypeOK, Operations
  <2>1. CASE OperationEnds(p, s)
    <3>1. UNCHANGED <<config, gen, phase, queue, timer>> /\ op' = [op EXCEPT ![p][s] = NoOp]
      BY <2>1 DEF OperationEnds
    <3>2. ASSUME NEW q \in Pkg, NEW t \in Slot, ~(q = p /\ t = s) PROVE op'[q][t] = op[q][t]
      BY <2>0, <3>1, <3>2
    <3> QED
      BY <3>1, <3>2
  <2>2. CASE ~OperationEnds(p, s)
    <3>1. /\ UNCHANGED <<config, gen, phase, queue, timer>>
          /\ op' = [op EXCEPT ![p][s].stage = "listing"]
      BY <2>2 DEF Operation, Connected, ConnectFails, Listed, ListingFails
    <3>2. ASSUME NEW q \in Pkg, NEW t \in Slot, ~(q = p /\ t = s) PROVE op'[q][t] = op[q][t]
      BY <2>0, <3>1, <3>2
    <3> QED
      BY <3>1, <3>2
  <2> QED
    BY <2>1, <2>2
<1>1. CASE ~Live(p, s)
  <2>1. cache' = cache /\ OperationEnds(p, s)
    BY <1>1 DEF Operation, Connected, ConnectFails, Listed, ListingFails, IsCurrent
  <2>2. attempt' = attempt
    BY <1>1, <2>1 DEF OperationEnds
  <2> QED
    BY <1>0, <2>1, <2>2 DEF AttemptWrites, Written
<1>2. CASE Live(p, s)
  <2>0. attempt[p].stage = "racing" /\ InFlight(p)
    BY <1>2 DEF Live, InFlight
  <2>1. \/ attempt' = attempt
        \/ \E t \in {"settled", "evicting"} : attempt' = [attempt EXCEPT ![p].stage = t]
    <3>1. CASE OperationEnds(p, s)
      BY <3>1 DEF OperationEnds
    <3>2. CASE ~OperationEnds(p, s)
      BY <3>2 DEF Operation, Connected, ConnectFails, Listed, ListingFails
    <3> QED
      BY <3>1, <3>2
  <2>2. /\ \A r \in Pkg : attempt'[r].stage = "none" <=> attempt[r].stage = "none"
        /\ \A r \in Pkg \ {p} : attempt'[r] = attempt[r]
        /\ attempt'[p].gen = attempt[p].gen
    BY <2>0, <2>1, StageWrites
  <2>3. Written(p) /\ \A r \in Pkg \ {p} : cache'[r] = cache[r]
    <3>0. CASE cache' = cache
      BY <3>0 DEF Written
    <3>1. CASE ConnectFails(p, s) /\ cache' # cache
      <4>1. PICK failure \in ConnectFailures(p, op[p][s].ident) :
              cache' = CommitFailure(cache, gen, config, p, op[p][s].gen, failure)
        BY <3>1 DEF ConnectFails
      <4>2. op[p][s].ident \in Ident \cup {NoPackage}
        BY <3>1 DEF ConnectFails, TypeOK, Operations
      <4>3. failure.status # "unknown"
        BY <4>2, FailureStatus
      <4> QED
        BY <2>0, <4>1, <4>3, CommitWrites
    <3>2. CASE Listed(p, s) /\ cache' # cache
      <4>1. cache' = CommitReady(cache, gen, config, p, op[p][s].gen, op[p][s].ident)
        BY <3>2 DEF Listed
      <4> QED
        BY <2>0, <4>1, CommitWrites, FailureStatus
    <3>3. CASE ListingFails(p, s) /\ cache' # cache
      <4>1. PICK failure \in {TransientFailure, AuthRequired} :
              cache' = CommitFailure(cache, gen, config, p, op[p][s].gen, failure)
        BY <3>3 DEF ListingFails
      <4>2. failure.status # "unknown"
        BY FailureStatus
      <4> QED
        BY <2>0, <4>1, <4>2, CommitWrites
    <3>4. CASE Connected(p, s)
      BY <3>0, <3>4 DEF Connected
    <3> QED
      BY <3>0, <3>1, <3>2, <3>3, <3>4 DEF Operation
  <2> QED
    BY <1>0, <1>2, <2>0, <2>2, <2>3 DEF AttemptWrites
<1> QED
  BY <1>1, <1>2

LEMMA AttemptStepWrites ==
  ASSUME TypeOK, NEW p \in Pkg, Attempt(p), ~Finish(p)
  PROVE  AttemptWrites(p)
<1>1. ASSUME NEW s \in Slot, Begin(p, s) PROVE AttemptWrites(p)
  <2>1. /\ UNCHANGED <<config, gen, phase, queue, timer>>
        /\ attempt[p].stage = "launched"
        /\ cache' = BeginRefresh(cache, gen, config, p)
        /\ attempt' = [attempt EXCEPT ![p] =
                         [@ EXCEPT !.stage = "racing", !.gen = gen, !.slot = s]]
    BY <1>1 DEF Begin
  <2>2. /\ \A r \in Pkg \ {p} : attempt'[r] = attempt[r]
        /\ attempt'[p].stage = "racing" /\ attempt'[p].gen = gen
    BY <2>1 DEF TypeOK, Attempts
  <2>3. /\ \A r \in Pkg \ {p} : cache'[r] = cache[r]
        /\ Cached(cache'[p]) /\ cache'[p].gen = gen
    BY <2>1 DEF BeginRefresh, TypeOK, Entry, Cached, Connecting
  <2> QED
    BY <2>1, <2>2, <2>3 DEF AttemptWrites, Written, InFlight
<1>2. CASE TimesOut(p)
  <2>1. /\ UNCHANGED <<config, gen, phase, queue, timer, cache>>
        /\ InFlight(p) /\ attempt[p].stage # "launched"
        /\ \E t \in {"settled", "evicting"} : attempt' = [attempt EXCEPT ![p].stage = t]
    BY <1>2 DEF TimesOut, InFlight
  <2> QED
    BY <2>1, StageWrites DEF AttemptWrites, Written
<1>3. CASE Evicted(p)
  <2>1. /\ UNCHANGED <<config, gen, phase, queue, timer>>
        /\ InFlight(p) /\ attempt[p].stage # "launched"
        /\ cache' = CommitFailure(cache, gen, config, p, attempt[p].gen, TransientFailure)
        /\ \E t \in {"settled", "evicting"} : attempt' = [attempt EXCEPT ![p].stage = t]
    BY <1>3 DEF Evicted, InFlight
  <2>2. Written(p) /\ \A r \in Pkg \ {p} : cache'[r] = cache[r]
    BY <2>1, CommitWrites, FailureStatus
  <2> QED
    BY <2>1, <2>2, StageWrites DEF AttemptWrites
<1> QED
  BY <1>1, <1>2, <1>3, OperationWrites DEF Attempt
-----------------------------------------------------------------------------
(* The entry that says a refresh is in flight.                             *)

(* A package whose flag is up waits in the queue, is about to begin, or is *)
(* being refreshed in the present generation, whose end lowers the flag.   *)
Owned(p) ==
  \/ Queued(p)
  \/ attempt[p].stage = "launched"
  \/ InFlight(p) /\ attempt[p].gen = gen

Flagged(p) ==
  /\ cache[p].inFlight => Cached(cache[p])
  /\ Cached(cache[p]) => cache[p].gen = gen
  /\ phase # "disposed" /\ cache[p].inFlight => Owned(p)

FlagInv == \A p \in Pkg : Flagged(p)

LEMMA KeepsOwned ==
  ASSUME TypeOK, NEW p \in Pkg, Keeps(p), gen' = gen, Owned(p)
  PROVE  Owned(p)'
BY DEF Keeps, Owned, InFlight, Queued

(* A request that leaves the flag and the generation of an entry alone.    *)
LEMMA FlagFrame ==
  ASSUME TypeOK, NEW p \in Pkg, Flagged(p), Keeps(p), gen' = gen,
         phase' = "disposed" \/ phase # "disposed",
         \/ ~cache'[p].inFlight /\ (Cached(cache'[p]) => cache'[p].gen = gen)
         \/ /\ cache'[p].inFlight = cache[p].inFlight /\ cache'[p].gen = cache[p].gen
            /\ cache'[p].status = cache[p].status
  PROVE  Flagged(p)'
<1>1. Owned(p) => Owned(p)'
  BY KeepsOwned
<1> QED
  BY <1>1 DEF Flagged, Cached

LEMMA AuthProbeFrame ==
  ASSUME TypeOK, NEW S, NEW p \in Pkg
  PROVE  LET e == EnsureAuthProbe(S)[p] IN
         /\ e.inFlight = cache[p].inFlight /\ e.gen = cache[p].gen
         /\ e.status = cache[p].status /\ e.ident = cache[p].ident
         /\ p \notin S => e = cache[p]
BY DEF EnsureAuthProbe, TypeOK, Entry

(* Publishing a generation queues again whatever it leaves flagged.        *)
LEMMA ChangeFlags ==
  ASSUME TypeOK, FlagInv, NEW new \in Config, ConfigurationChanged(new)
  PROVE  FlagInv'
<1> DEFINE changed == ChangedPackages(cache, new)
<1>1. /\ config' = new /\ gen' = gen + 1 /\ phase' = phase /\ phase # "disposed"
      /\ cache' = SetConfigurationGeneration(cache, new, gen + 1)
      /\ DrainQueue(Enqueue(queue, changed \cup Interrupted, changed, {}), attempt, active)
  BY DEF ConfigurationChanged
<1> SUFFICES ASSUME NEW p \in Pkg PROVE Flagged(p)'
  BY DEF FlagInv
<1>2. cache'[p] = IF ~Cached(cache[p]) \/ new[p] = NoPackage THEN NoEntry
                  ELSE IF p \in changed THEN Connecting(new[p], gen + 1)
                  ELSE [cache[p] EXCEPT !.gen = gen + 1]
  BY <1>1 DEF SetConfigurationGeneration
<1>3. /\ Keeps(p)
      /\ p \in changed \cup Interrupted /\ new[p] # NoPackage =>
           Queued(p)' \/ attempt'[p].stage = "launched"
  BY <1>1, RequestKeeps
<1> HIDE DEF changed
<1>4. CASE ~Cached(cache[p]) \/ new[p] = NoPackage
  BY <1>2, <1>4 DEF Flagged, NoEntry, Cached
<1>5. CASE Cached(cache[p]) /\ new[p] # NoPackage /\ p \in changed
  BY <1>1, <1>2, <1>5 DEF Flagged, Connecting, Cached
<1>6. CASE Cached(cache[p]) /\ new[p] # NoPackage /\ p \notin changed
  <2>1. /\ cache'[p].status = cache[p].status /\ cache'[p].gen = gen'
        /\ cache'[p].inFlight = cache[p].inFlight
    BY <1>1, <1>2, <1>6 DEF TypeOK, Entry
  <2>2. cache[p].inFlight => Owned(p)
    BY <1>1 DEF FlagInv, Flagged
  <2>3. cache[p].inFlight => Owned(p)'
    <3>1. InFlight(p) => p \in Interrupted
      BY DEF Interrupted, InFlight
    <3>2. Queued(p) => Queued(p)' \/ attempt'[p].stage = "launched"
      BY <1>3 DEF Keeps
    <3> QED
      BY <1>3, <1>6, <2>2, <3>1, <3>2 DEF Owned, InFlight
  <2> QED
    BY <1>6, <2>1, <2>3 DEF Flagged, Cached
<1> QED
  BY <1>4, <1>5, <1>6

(* The end of an attempt lowers the flag it owned.                         *)
LEMMA FinishFlags ==
  ASSUME TypeOK, FlagInv, NEW p \in Pkg, Finish(p)
  PROVE  FlagInv'
<1> DEFINE att == [attempt EXCEPT ![p] = NoAttempt]
<1>1. /\ attempt[p].stage = "settled" /\ gen' = gen /\ phase' = phase
      /\ cache' = FinishRefreshWithoutChange(cache, p, attempt[p].gen)
      /\ DrainQueue(queue, att, active - 1) /\ queue \in Queue
  BY DEF Finish, TypeOK
<1>2. \A r \in Pkg : att[r] = IF r = p THEN NoAttempt ELSE attempt[r]
  BY DEF TypeOK, Attempts
<1> HIDE DEF att
<1> SUFFICES ASSUME NEW r \in Pkg PROVE Flagged(r)'
  BY DEF FlagInv
<1>3. \/ /\ queue[r].rank > 0 /\ att[r].stage = "none"
         /\ queue'[r] = NotQueued /\ attempt'[r] = Launch(queue, r)
      \/ attempt'[r] = att[r] /\ (queue[r].rank > 0 <=> queue'[r].rank > 0)
  BY <1>1, Drained
<1>4. Queued(r) => Queued(r)' \/ attempt'[r].stage = "launched"
  BY <1>3 DEF Queued, Launch
<1>5. /\ cache'[r].status = cache[r].status /\ cache'[r].gen = cache[r].gen
      /\ cache'[r].inFlight => cache[r].inFlight
      /\ r = p /\ Cached(cache[p]) /\ cache[p].gen = attempt[p].gen => ~cache'[r].inFlight
  BY <1>1 DEF FinishRefreshWithoutChange, TypeOK, Entry
<1>6. phase # "disposed" /\ cache'[r].inFlight => Owned(r)'
  <2>1. Flagged(r)
    BY DEF FlagInv
  <2>2. CASE r = p
    BY <1>1, <1>4, <1>5, <2>1, <2>2 DEF Flagged, Owned
  <2>3. CASE r # p
    <3>1. InFlight(r) => attempt'[r] = attempt[r]
      BY <1>2, <1>3, <2>3 DEF InFlight
    <3> QED
      BY <1>1, <1>4, <1>5, <2>1, <3>1 DEF Flagged, Owned, InFlight
  <2> QED
    BY <2>2, <2>3
<1> QED
  BY <1>1, <1>5, <1>6 DEF FlagInv, Flagged, Cached

LEMMA AttemptFlags ==
  ASSUME TypeOK, FlagInv, NEW p \in Pkg, Attempt(p)
  PROVE  FlagInv'
<1>1. CASE ~Finish(p)
  <2> SUFFICES ASSUME NEW r \in Pkg PROVE Flagged(r)'
    BY DEF FlagInv
  <2>1. AttemptWrites(p) /\ Flagged(r)
    BY <1>1, AttemptStepWrites DEF FlagInv
  <2>2. CASE r # p
    BY <2>1, <2>2 DEF AttemptWrites, Flagged, Owned, Queued, InFlight
  <2>3. CASE r = p /\ cache'[p] = cache[p]
    BY <2>1, <2>3 DEF AttemptWrites, Flagged, Owned, Queued, InFlight
  <2>4. CASE r = p /\ cache'[p] # cache[p]
    BY <2>1, <2>4 DEF AttemptWrites, Written, Flagged, Owned, Queued, InFlight
  <2> QED
    BY <2>2, <2>3, <2>4
<1> QED
  BY <1>1, FinishFlags

LEMMA FlagNext == TypeOK /\ FlagInv /\ [Next]_vars => FlagInv'
<1> SUFFICES ASSUME TypeOK, FlagInv, [Next]_vars PROVE FlagInv'
  OBVIOUS
<1>0. \A p \in Pkg : queue' = queue /\ attempt' = attempt => Keeps(p)
  BY DEF Keeps, Queued, InFlight
<1>1. ASSUME NEW S, NEW F, NEW T, phase # "disposed", gen' = gen,
             cache' = cache \/ cache' = EnsureAuthProbe(T),
             DrainQueue(Enqueue(queue, S, F, {}), attempt, active)
      PROVE  FlagInv'
  <2>1. ASSUME NEW p \in Pkg PROVE Flagged(p)'
    <3>1. /\ cache'[p].inFlight = cache[p].inFlight /\ cache'[p].gen = cache[p].gen
          /\ cache'[p].status = cache[p].status
      BY <1>1, AuthProbeFrame
    <3>2. Keeps(p)
      BY <1>1, RequestKeeps
    <3> QED
      BY <1>1, <3>1, <3>2, FlagFrame DEF FlagInv
  <2> QED
    BY <2>1 DEF FlagInv
<1>2. CASE Start
  <2>1. phase # "disposed" /\ gen' = gen /\ cache' = EnsureAuthProbe(Configured(config))
    BY <1>2 DEF Start
  <2> QED
    BY <1>1, <1>2, <2>1 DEF Start
<1>3. CASE Dispose
  BY <1>3 DEF Dispose, FlagInv, Flagged
<1>4. ASSUME NEW new \in Config, ConfigurationChanged(new) PROVE FlagInv'
  BY <1>4, ChangeFlags
<1>5. ASSUME NEW p \in Pkg, Request(p) PROVE FlagInv'
  <2>1. CASE ScheduleRefresh(p)
    <3>1. phase # "disposed" /\ gen' = gen /\ cache' = EnsureAuthProbe({p})
      BY <2>1 DEF ScheduleRefresh
    <3>2. CASE RetryHint(cache', config, p) = "due"
      BY <1>1, <2>1, <3>1, <3>2 DEF ScheduleRefresh
    <3>3. CASE RetryHint(cache', config, p) # "due"
      <4>1. queue' = queue /\ attempt' = attempt
        BY <2>1, <3>3 DEF ScheduleRefresh
      <4> QED
        BY <1>0, <3>1, <4>1, AuthProbeFrame, FlagFrame DEF FlagInv
    <3> QED
      BY <3>2, <3>3
  <2>2. ASSUME NEW c \in Caller, NEW force \in BOOLEAN, EnsurePackageLoaded(c, p, force)
        PROVE  FlagInv'
    <3>1. /\ gen' = gen /\ cache' = cache /\ phase' = phase /\ phase # "disposed"
          /\ RefreshNow(c, p, force)
      BY <2>2 DEF EnsurePackageLoaded
    <3> QED
      BY <3>1, RefreshNowKeeps, FlagFrame DEF FlagInv
  <2>3. ASSUME NEW r \in Pkg, cache' = ClearPackage(cache, gen, config, p)
        PROVE  \/ cache'[r] = cache[r]
               \/ ~cache'[r].inFlight /\ (Cached(cache'[r]) => cache'[r].gen = gen)
    BY <2>3 DEF ClearPackage, TypeOK, Cached, NoEntry, Connecting
  <2>4. ASSUME NEW c \in Caller, Restart(c, p) PROVE FlagInv'
    <3>1. /\ gen' = gen /\ cache' = ClearPackage(cache, gen, config, p)
          /\ phase' = phase /\ phase # "disposed" /\ RefreshNow(c, p, TRUE)
      BY <2>4 DEF Restart
    <3>2. ASSUME NEW r \in Pkg PROVE Flagged(r)'
      <4>1. Keeps(r)
        BY <3>1, RefreshNowKeeps
      <4>2. \/ cache'[r] = cache[r]
            \/ ~cache'[r].inFlight /\ (Cached(cache'[r]) => cache'[r].gen = gen)
        BY <2>3, <3>1
      <4> QED
        BY <3>1, <4>1, <4>2, FlagFrame DEF FlagInv
    <3> QED
      BY <3>2 DEF FlagInv
  <2>5. CASE ClearOnly(p)
    <3>1. /\ gen' = gen /\ cache' = ClearPackage(cache, gen, config, p)
          /\ phase' = phase /\ queue' = queue /\ attempt' = attempt
      BY <2>5 DEF ClearOnly
    <3>2. ASSUME NEW r \in Pkg PROVE Flagged(r)'
      <4>2. \/ cache'[r] = cache[r]
            \/ ~cache'[r].inFlight /\ (Cached(cache'[r]) => cache'[r].gen = gen)
        BY <2>3, <3>1
      <4> QED
        BY <1>0, <3>1, <4>2, FlagFrame DEF FlagInv
    <3> QED
      BY <3>2 DEF FlagInv
  <2>6. CASE RegistryEvent(p)
    <3>1. phase # "disposed" /\ gen' = gen /\ cache' = cache
      BY <2>6 DEF RegistryEvent
    <3> QED
      BY <1>1, <2>6, <3>1 DEF RegistryEvent
  <2>7. CASE Remove(p)
    BY <2>7 DEF Remove, FlagInv, Flagged, Owned, Queued, InFlight
  <2> QED
    BY <1>5, <2>1, <2>2, <2>4, <2>5, <2>6, <2>7 DEF Request
<1>6. CASE TimerFires
  <2>1. phase # "disposed" /\ gen' = gen /\ cache' = cache
    BY <1>6 DEF TimerFires
  <2> QED
    BY <1>1, <1>6, <2>1 DEF TimerFires
<1>7. ASSUME NEW p \in Pkg, RetryFallsDue(p) PROVE FlagInv'
  <2>1. /\ gen' = gen /\ phase' = phase /\ queue' = queue /\ attempt' = attempt
        /\ \A r \in Pkg : /\ cache'[r].inFlight = cache[r].inFlight
                          /\ cache'[r].gen = cache[r].gen
                          /\ cache'[r].status = cache[r].status
    BY <1>7 DEF RetryFallsDue, TypeOK, Entry
  <2> QED
    BY <1>0, <2>1, FlagFrame DEF FlagInv
<1>8. CASE \/ \E w \in Watcher : Watch(w) \/ Return(w)
           \/ UNCHANGED vars
  BY <1>8 DEF Watch, Return, vars, FlagInv, Flagged, Owned, Queued, InFlight
<1> QED
  BY <1>2, <1>3, <1>4, <1>5, <1>6, <1>7, <1>8, AttemptFlags DEF Next

(* src/catalogRefresher.ts, configurationChanged and runRefresh: an entry  *)
(* that says a refresh is in flight is lowered by an attempt that exists,  *)
(* however many generations pass meanwhile.                                *)
THEOREM FlagHasOwner == Spec => []InFlightFlagHasOwner
<1>1. Init => FlagInv
  BY DEF Init, FlagInv, Flagged, NoEntry, Cached
<1>2. FlagInv => InFlightFlagHasOwner
  BY DEF FlagInv, Flagged, Owned, InFlightFlagHasOwner, InFlight
<1> QED
  BY <1>1, <1>2, FlagNext, TypeCorrect, PTL DEF Spec
-----------------------------------------------------------------------------
(* No retry is forgotten.                                                  *)

Scheduled(p) ==
  phase = "started" /\ config[p] # NoPackage =>
    \/ InFlight(p) \/ Queued(p) \/ timer = "armed"
    \/ RetryHint(cache, config, p) = "none"
    \/ p \in Clearable /\ cache[p].status = "connecting"

(* A package that is not configured has left nothing behind, so that it is *)
(* taken for new when it comes.                                            *)
Absent(p) ==
  config[p] = NoPackage => ~Cached(cache[p]) /\ ~Queued(p) /\ ~InFlight(p)

RetryInv == \A p \in Pkg \ Removable : Scheduled(p) /\ Absent(p)

LEMMA HintFrame ==
  ASSUME NEW p \in Pkg, config'[p] = config[p],
         cache'[p].status = cache[p].status, cache'[p].retry = cache[p].retry
  PROVE  RetryHint(cache', config', p) = RetryHint(cache, config, p)
BY DEF RetryHint, PackageStatus, Cached

(* Nothing is taken from a package.                                        *)
LEMMA RetryFrame ==
  ASSUME TypeOK, NEW p \in Pkg, Scheduled(p), Absent(p), Keeps(p),
         config'[p] = config[p], phase' = phase, timer' = timer,
         cache'[p].status = cache[p].status, cache'[p].retry = cache[p].retry
  PROVE  Scheduled(p)' /\ Absent(p)'
<1>1. RetryHint(cache', config', p) = RetryHint(cache, config, p)
  BY HintFrame
<1>2. InFlight(p) \/ Queued(p) => InFlight(p)' \/ Queued(p)'
  BY DEF Keeps, InFlight, Queued
<1>3. Scheduled(p)'
  BY <1>1, <1>2 DEF Scheduled
<1>4. Absent(p)'
  BY DEF Absent, Keeps, Cached
<1> QED
  BY <1>3, <1>4

(* Arming the timer looks at every package.                                *)
LEMMA ArmedScheduled ==
  ASSUME TypeOK', ArmWakeTimer, NEW p \in Pkg
  PROVE  Scheduled(p)'
<1>1. CASE p \in Configured(config')
  <2>1. queue'[p].rank \in Nat
    BY DEF TypeOK, Queue
  <2> QED
    BY <1>1, <2>1 DEF ArmWakeTimer, Scheduled, InFlight, Queued
<1>2. CASE p \notin Configured(config')
  BY <1>2 DEF Scheduled, Configured
<1> QED
  BY <1>1, <1>2

LEMMA AbsentFrame ==
  ASSUME NEW p \in Pkg, Absent(p), Keeps(p), config'[p] = config[p],
         cache'[p].status = cache[p].status \/ config[p] # NoPackage
  PROVE  Absent(p)'
BY DEF Absent, Keeps, Cached

(* What a new configuration adds or changes is queued; the rest is as it   *)
(* was.                                                                    *)
LEMMA ChangeSchedules ==
  ASSUME TypeOK, RetryInv, NEW new \in Config, ConfigurationChanged(new)
  PROVE  RetryInv'
<1> DEFINE changed == ChangedPackages(cache, new)
<1>1. /\ config' = new /\ phase' = phase /\ timer' = timer
      /\ \A p \in Configured(config) : new[p] = config[p]
      /\ cache' = SetConfigurationGeneration(cache, new, gen + 1)
      /\ DrainQueue(Enqueue(queue, changed \cup Interrupted, changed, {}), attempt, active)
  BY DEF ConfigurationChanged
<1> SUFFICES ASSUME NEW p \in Pkg \ Removable PROVE Scheduled(p)' /\ Absent(p)'
  BY DEF RetryInv
<1>2. cache'[p] = IF ~Cached(cache[p]) \/ new[p] = NoPackage THEN NoEntry
                  ELSE IF p \in changed THEN Connecting(new[p], gen + 1)
                  ELSE [cache[p] EXCEPT !.gen = gen + 1]
  BY <1>1 DEF SetConfigurationGeneration
<1>3. /\ Keeps(p)
      /\ p \in changed \cup Interrupted /\ new[p] # NoPackage =>
           Queued(p)' \/ attempt'[p].stage = "launched"
  BY <1>1, RequestKeeps
<1>4. Scheduled(p) /\ Absent(p)
  BY DEF RetryInv
<1>5. CASE new[p] = NoPackage
  <2>1. config[p] = NoPackage
    BY <1>1, <1>5 DEF Configured
  <2>2. ~Cached(cache'[p])
    BY <1>2, <1>5 DEF NoEntry, Cached
  <2>3. ~InFlight(p)' /\ ~Queued(p)'
    BY <1>1, <1>3, <1>4, <1>5, <2>1 DEF Absent, Keeps
  <2> QED
    BY <1>1, <1>5, <2>2, <2>3 DEF Scheduled, Absent
<1>6. CASE new[p] # NoPackage /\ p \in changed
  BY <1>1, <1>3, <1>6 DEF Scheduled, Absent, InFlight, Queued
<1>7. CASE new[p] # NoPackage /\ p \notin changed
  <2>1. Cached(cache[p])
    BY <1>7 DEF ChangedPackages
  <2>2. config[p] = new[p]
    BY <1>1, <1>4, <2>1 DEF Absent, Configured
  <2>3. cache'[p].status = cache[p].status /\ cache'[p].retry = cache[p].retry
    BY <1>2, <1>7, <2>1 DEF TypeOK, Entry
  <2> HIDE DEF changed
  <2> QED
    BY <1>1, <1>3, <1>4, <2>2, <2>3, RetryFrame
<1> QED
  BY <1>5, <1>6, <1>7

LEMMA AttemptSchedules ==
  ASSUME TypeOK, TypeOK', RetryInv, NEW p \in Pkg, Attempt(p)
  PROVE  RetryInv'
<1>1. CASE Finish(p)
  <2> DEFINE att == [attempt EXCEPT ![p] = NoAttempt]
  <2>1. /\ attempt[p].stage = "settled" /\ config' = config
        /\ cache' = FinishRefreshWithoutChange(cache, p, attempt[p].gen)
        /\ DrainQueue(queue, att, active - 1) /\ queue \in Queue
        /\ ArmWakeTimer
    BY <1>1 DEF Finish, TypeOK
  <2>2. \A r \in Pkg : att[r] = IF r = p THEN NoAttempt ELSE attempt[r]
    BY DEF TypeOK, Attempts
  <2> HIDE DEF att
  <2>3. ASSUME NEW r \in Pkg \ Removable, config'[r] = NoPackage
        PROVE  ~Cached(cache'[r]) /\ ~Queued(r)' /\ ~InFlight(r)'
    <3>1. ~Cached(cache[r]) /\ ~Queued(r) /\ ~InFlight(r)
      BY <2>1, <2>3 DEF RetryInv, Absent
    <3>2. r # p /\ att[r] = attempt[r]
      BY <2>1, <2>2, <3>1 DEF InFlight
    <3>3. attempt'[r] = attempt[r] /\ ~Queued(r)'
      BY <2>1, <3>1, <3>2, Drained DEF Queued
    <3>4. cache'[r] = cache[r]
      BY <2>1, <3>2 DEF FinishRefreshWithoutChange, TypeOK
    <3> QED
      BY <3>1, <3>3, <3>4 DEF InFlight
  <2> QED
    BY <2>1, <2>3, ArmedScheduled DEF RetryInv, Absent
<1>2. CASE ~Finish(p)
  <2> SUFFICES ASSUME NEW r \in Pkg \ Removable PROVE Scheduled(r)' /\ Absent(r)'
    BY DEF RetryInv
  <2>1. AttemptWrites(p) /\ Scheduled(r) /\ Absent(r)
    BY <1>2, AttemptStepWrites DEF RetryInv
  <2>2. /\ config' = config /\ phase' = phase /\ timer' = timer
        /\ Queued(r)' = Queued(r) /\ InFlight(r)' = InFlight(r)
    BY <2>1 DEF AttemptWrites, Queued, InFlight
  <2>3. CASE cache'[r] = cache[r]
    <3>1. RetryHint(cache', config', r) = RetryHint(cache, config, r)
      BY <2>2, <2>3, HintFrame
    <3> QED
      BY <2>1, <2>2, <2>3, <3>1 DEF Scheduled, Absent
  <2>4. CASE cache'[r] # cache[r]
    <3>1. r = p /\ InFlight(r)
      BY <2>1, <2>4 DEF AttemptWrites, Written
    <3> QED
      BY <2>1, <2>2, <3>1 DEF Scheduled, Absent
  <2> QED
    BY <2>3, <2>4
<1> QED
  BY <1>1, <1>2

LEMMA RequestSchedules ==
  ASSUME TypeOK, TypeOK', RetryInv, NEW p \in Pkg, Request(p)
  PROVE  RetryInv'
<1>0. \A r \in Pkg : queue' = queue /\ attempt' = attempt => Keeps(r)
  BY DEF Keeps, Queued, InFlight
<1>1. CASE ScheduleRefresh(p)
  <2>1. config' = config /\ phase' = phase /\ cache' = EnsureAuthProbe({p})
    BY <1>1 DEF ScheduleRefresh
  <2>2. CASE RetryHint(cache', config, p) = "due"
    <3> DEFINE forced == ForcedByAuth({p})
    <3>1. timer' = timer /\ DrainQueue(Enqueue(queue, {p}, forced, {}), attempt, active)
      BY <1>1, <2>2 DEF ScheduleRefresh
    <3> HIDE DEF forced
    <3>2. ASSUME NEW r \in Pkg \ Removable PROVE Scheduled(r)' /\ Absent(r)'
      <4>1. /\ Keeps(r) /\ Scheduled(r) /\ Absent(r)
            /\ r = p /\ config'[r] # NoPackage => Queued(r)' \/ attempt'[r].stage = "launched"
        BY <3>1, RequestKeeps DEF RetryInv
      <4>2. cache'[r].status = cache[r].status /\ (r # p => cache'[r] = cache[r])
        BY <2>1, AuthProbeFrame
      <4>3. Absent(r)'
        BY <2>1, <4>1, <4>2, AbsentFrame
      <4>4. CASE r = p
        BY <2>1, <4>1, <4>3, <4>4 DEF Scheduled, InFlight
      <4>5. CASE r # p
        BY <2>1, <3>1, <4>1, <4>2, <4>5, RetryFrame
      <4> QED
        BY <4>3, <4>4, <4>5
    <3> QED
      BY <3>2 DEF RetryInv
  <2>3. CASE RetryHint(cache', config, p) # "due"
    <3>1. queue' = queue /\ attempt' = attempt /\ ArmWakeTimer
      BY <1>1, <2>3 DEF ScheduleRefresh
    <3> QED
      BY <1>0, <2>1, <3>1, AuthProbeFrame, AbsentFrame, ArmedScheduled DEF RetryInv
  <2> QED
    BY <2>2, <2>3
<1>2. ASSUME NEW c \in Caller, NEW force \in BOOLEAN, EnsurePackageLoaded(c, p, force)
      PROVE  RetryInv'
  <2>1. /\ config' = config /\ cache' = cache /\ phase' = phase /\ timer' = timer
        /\ RefreshNow(c, p, force)
    BY <1>2 DEF EnsurePackageLoaded
  <2> QED
    BY <2>1, RefreshNowKeeps, RetryFrame DEF RetryInv
<1>3. ASSUME NEW c \in Caller, Restart(c, p) PROVE RetryInv'
  <2>1. /\ config' = config /\ cache' = ClearPackage(cache, gen, config, p)
        /\ phase' = phase /\ timer' = timer /\ RefreshNow(c, p, TRUE)
        /\ config[p] # NoPackage
    BY <1>3 DEF Restart
  <2>2. ASSUME NEW r \in Pkg \ Removable PROVE Scheduled(r)' /\ Absent(r)'
    <3>1. /\ Keeps(r) /\ Scheduled(r) /\ Absent(r)
          /\ r = p /\ config'[r] # NoPackage => Queued(r)' \/ InFlight(r)'
      BY <2>1, RefreshNowKeeps DEF RetryInv
    <3>2. CASE r = p
      BY <2>1, <3>1, <3>2 DEF Scheduled, Absent
    <3>3. CASE r # p
      <4>1. cache'[r] = cache[r]
        BY <2>1, <3>3 DEF ClearPackage, TypeOK
      <4> QED
        BY <2>1, <3>1, <4>1, RetryFrame
    <3> QED
      BY <3>2, <3>3
  <2> QED
    BY <2>2 DEF RetryInv
<1>4. CASE ClearOnly(p)
  <2>1. /\ p \in Clearable /\ config' = config /\ phase' = phase /\ timer' = timer
        /\ cache' = ClearPackage(cache, gen, config, p)
        /\ queue' = queue /\ attempt' = attempt
    BY <1>4 DEF ClearOnly
  <2>2. ASSUME NEW r \in Pkg \ Removable PROVE Scheduled(r)' /\ Absent(r)'
    <3>1. Keeps(r) /\ Scheduled(r) /\ Absent(r)
      BY <1>0, <2>1 DEF RetryInv
    <3>2. CASE r = p
      <4>1. cache'[p].status = IF config[p] = NoPackage THEN "unknown" ELSE "connecting"
        BY <2>1 DEF ClearPackage, TypeOK, NoEntry, Connecting
      <4> QED
        BY <2>1, <3>1, <3>2, <4>1 DEF Scheduled, Absent, Cached, Queued, InFlight
    <3>3. CASE r # p
      <4>1. cache'[r] = cache[r]
        BY <2>1, <3>3 DEF ClearPackage, TypeOK
      <4> QED
        BY <2>1, <3>1, <4>1, RetryFrame
    <3> QED
      BY <3>2, <3>3
  <2> QED
    BY <2>2 DEF RetryInv
<1>5. CASE RegistryEvent(p)
  <2>1. /\ config' = config /\ cache' = cache /\ phase' = phase /\ timer' = timer
        /\ DrainQueue(Enqueue(queue, {p}, {}, {}), attempt, active)
    BY <1>5 DEF RegistryEvent
  <2> QED
    BY <2>1, RequestKeeps, RetryFrame DEF RetryInv
<1>6. CASE Remove(p)
  <2>1. /\ p \in Removable /\ config' = [config EXCEPT ![p] = NoPackage]
        /\ cache' = cache /\ phase' = phase /\ timer' = timer
        /\ queue' = queue /\ attempt' = attempt
    BY <1>6 DEF Remove
  <2>2. \A r \in Pkg \ Removable : config'[r] = config[r]
    BY <2>1 DEF TypeOK, Config
  <2> QED
    BY <1>0, <2>1, <2>2, RetryFrame DEF RetryInv
<1> QED
  BY <1>1, <1>2, <1>3, <1>4, <1>5, <1>6 DEF Request

LEMMA RetryNext == TypeOK /\ TypeOK' /\ RetryInv /\ [Next]_vars => RetryInv'
<1> SUFFICES ASSUME TypeOK, TypeOK', RetryInv, [Next]_vars PROVE RetryInv'
  OBVIOUS
<1>0. \A r \in Pkg : queue' = queue /\ attempt' = attempt => Keeps(r)
  BY DEF Keeps, Queued, InFlight
<1>1. CASE Start \/ TimerFires
  <2>1. /\ config' = config /\ ArmWakeTimer
        /\ cache' = cache \/ \E T : cache' = EnsureAuthProbe(T)
        /\ \E S, F : DrainQueue(Enqueue(queue, S, F, {}), attempt, active)
    BY <1>1 DEF Start, TimerFires
  <2>2. ASSUME NEW r \in Pkg \ Removable PROVE Absent(r)'
    <3>1. Keeps(r)
      BY <2>1, RequestKeeps
    <3>2. cache'[r].status = cache[r].status
      BY <2>1, AuthProbeFrame
    <3> QED
      BY <2>1, <3>1, <3>2, AbsentFrame DEF RetryInv
  <2> QED
    BY <2>1, <2>2, ArmedScheduled DEF RetryInv
<1>2. CASE Dispose
  <2>1. /\ config' = config /\ cache' = cache /\ phase' = "disposed"
        /\ queue' = [p \in Pkg |-> NotQueued]
        /\ attempt' = [p \in Pkg |->
             IF attempt[p].stage = "racing"
               THEN [attempt[p] EXCEPT !.stage = "settled"] ELSE attempt[p]]
    BY <1>2 DEF Dispose
  <2>2. \A r \in Pkg : ~Queued(r)' /\ (~InFlight(r) => ~InFlight(r)')
    BY <2>1 DEF Queued, InFlight, NotQueued
  <2> QED
    BY <2>1, <2>2 DEF RetryInv, Scheduled, Absent
<1>3. ASSUME NEW new \in Config, ConfigurationChanged(new) PROVE RetryInv'
  BY <1>3, ChangeSchedules
<1>4. ASSUME NEW p \in Pkg, RetryFallsDue(p) PROVE RetryInv'
  <2>1. /\ config' = config /\ phase' = phase /\ timer' = timer
        /\ queue' = queue /\ attempt' = attempt
        /\ cache[p].retry = "pending" /\ cache' = [cache EXCEPT ![p].retry = "due"]
    BY <1>4 DEF RetryFallsDue
  <2>2. ASSUME NEW r \in Pkg \ Removable PROVE Scheduled(r)' /\ Absent(r)'
    <3>1. Keeps(r) /\ Scheduled(r) /\ Absent(r)
      BY <1>0, <2>1 DEF RetryInv
    <3>2. /\ cache'[r].status = cache[r].status
          /\ cache'[r].retry = cache[r].retry \/ cache[r].retry = "pending"
      BY <2>1 DEF TypeOK, Entry
    <3>3. Absent(r)'
      BY <2>1, <3>1, <3>2, AbsentFrame
    <3>4. RetryHint(cache, config, r) = "none" => RetryHint(cache', config', r) = "none"
      BY <2>1, <3>2 DEF RetryHint, PackageStatus, Cached
    <3>5. Scheduled(r)'
      BY <2>1, <3>1, <3>2, <3>4 DEF Scheduled, InFlight, Queued
    <3> QED
      BY <3>3, <3>5
  <2> QED
    BY <2>2 DEF RetryInv
<1>5. CASE \/ \E w \in Watcher : Watch(w) \/ Return(w)
           \/ UNCHANGED vars
  <2>1. /\ config' = config /\ phase' = phase /\ timer' = timer
        /\ queue' = queue /\ attempt' = attempt /\ cache' = cache
    BY <1>5 DEF Watch, Return, vars
  <2> QED
    BY <1>0, <2>1, RetryFrame DEF RetryInv
<1> QED
  BY <1>1, <1>2, <1>3, <1>4, <1>5, AttemptSchedules, RequestSchedules DEF Next

(* src/catalogRefresher.ts: a package that has a retry to make is never    *)
(* left without an attempt, a place in the queue or the wake timer.        *)
THEOREM RetriesScheduled == Spec => []RetryIsScheduled
<1>1. Init => RetryInv
  BY DEF Init, RetryInv, Scheduled, Absent, NoEntry, Cached, Queued, NotQueued,
         InFlight, NoAttempt
<1>2. RetryInv => RetryIsScheduled
  BY DEF RetryInv, Scheduled, RetryIsScheduled, Configured
<1> QED
  BY <1>1, <1>2, RetryNext, TypeCorrect, PTL DEF Spec
=============================================================================
