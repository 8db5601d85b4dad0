----------------------------- MODULE Configuration -----------------------------
(***************************************************************************)
(* How a change of the configuration files reaches the router.             *)
(* src/configWatcher.ts reloads the security policy and the packages after *)
(* a quiet period; POST /api/config/apply does it at once and is the only  *)
(* way in for a new package; each spawn of a stdio package reads the files *)
(* first (src/registry.ts, configForNextSpawn); restartPackage normalises  *)
(* the raw entry again.  The readers are tasks: one file is read at a step,*)
(* while the host goes on editing.                                         *)
(*                                                                         *)
(* The depth limit of nested files and the wording of diagnostics are left *)
(* out; environment variables of the router itself do not change.          *)
(***************************************************************************)
EXTENDS Naturals, Sequences, FiniteSets, SequencesExt

CONSTANTS
  File,
  Root,       \* the file named on the command line
  Server,     \* ids of packages
  Contents,   \* Contents[f]: what the host may write to f
  Absent, Broken,
  StartDisk,  \* the files the router may find when it starts
  Debounced,  \* reloads the watcher may have under way
  Applying,   \* apply requests under way
  Spawning,   \* spawns of stdio packages under way
  Restarting, \* restart requests under way
  Nobody,
  MaxEdits    \* a bound

Loading == Debounced \cup Applying \cup Spawning
Task    == Loading \cup Restarting

(* What a file holds: servers, the entries by id; the security policy, its *)
(* blocked packages; homes, by id; configPaths, the files it refers to.    *)
IsEntry(e) == e = [transport |-> e.transport, identity |-> e.identity, env |-> e.env]

IsContent(c) ==
  /\ IsFiniteSet(DOMAIN c.servers) /\ DOMAIN c.servers \subseteq Server
  /\ \A s \in DOMAIN c.servers : IsEntry(c.servers[s])
  /\ c.configPaths \in Seq(File)

ASSUME ConfigurationAssumption ==
  /\ Root \in File /\ IsFiniteSet(File)
  /\ \A f \in File : \A c \in Contents[f] \ {Broken} : IsContent(c)
  /\ \A d \in StartDisk : DOMAIN d = File
  /\ Absent # Broken
  /\ \A f \in File : Absent \notin Contents[f]
  /\ Debounced \cap (Applying \cup Spawning \cup Restarting) = {}
  /\ Applying \cap Spawning = {}
  /\ Nobody \notin Task
  /\ \A d \in StartDisk : \A f \in File : d[f] \in Contents[f] \cup {Absent}
  /\ MaxEdits \in Nat

VARIABLES
  disk,               \* the files
  edits,              \* how often the host has written one
  watched,            \* allResolvedPaths of the watcher
  changed,            \* files whose change is still to be reported
  timer,              \* debounceTimer: "off", "armed", or "stopped" for good
  policy,             \* the security policy in force: what it blocks
  packages,           \* sequence of [id, entry]
  config,             \* the raw configuration: [servers, homes]
  queue,             \* envRefreshQueue
  task,
  terminal            \* admission is closed

vars == <<disk, edits, watched, changed, timer, policy, packages, config, queue,
          task, terminal>>

host     == <<disk, edits, watched>>
watcher  == <<changed, timer>>
registry == <<packages, config>>

NoMap == [s \in {} |-> Nobody]

(* todo, seen, got: the walk through the files; asOf: edits when the task  *)
(* began; added: the packages an apply is to admit; rehome: those whose    *)
(* home has changed; spawn: the package of a spawn; of, at: that of a      *)
(* restart, and its index.                                                 *)
IdleTask == [pc |-> "idle", todo |-> <<>>, seen |-> {}, got |-> NoMap, asOf |-> 0,
             added |-> {}, rehome |-> {}, spawn |-> Nobody, of |-> Nobody, at |-> 0]

At(t, pc) == task[t].pc = pc

Become(t, r) == task' = [task EXCEPT ![t] = r]

Ids(ps) == {ps[i].id : i \in DOMAIN ps}

Index(id) == CHOOSE i \in DOMAIN packages : packages[i].id = id
-----------------------------------------------------------------------------
(* Reading the files.                                                      *)

Readable(f) == disk[f] \notin {Absent, Broken}

(* Start a walk at the root.                                               *)
Walk(r, pc, empty) ==
  [r EXCEPT !.pc = pc, !.todo = <<Root>>, !.seen = {}, !.got = empty]

(* loadMergedSecurityConfig: what each file blocks adds up.                *)
MergePolicy(got, c) == got \cup c.security

(* loadMergedConfigFiles: a later entry overrides, disabled ids add up.    *)
Override(f, g) == [s \in DOMAIN f \cup DOMAIN g |-> IF s \in DOMAIN g THEN g[s] ELSE f[s]]

MergePackages(got, c) ==
  [servers  |-> Override(got.servers, c.servers),
   homes    |-> Override(got.homes, c.homes),
   disabled |-> got.disabled \cup c.disabledServers]

Nothing == [servers |-> NoMap, homes |-> NoMap, disabled |-> {}]

(* An entry with all the fields its transport needs.                       *)
Valid(entry) == entry.identity # "invalid"

(* validateConfig passes over the others.                                  *)
ValidIds(got) == {s \in DOMAIN got.servers : Valid(got.servers[s])}

Usable(got) == ValidIds(got) \ got.disabled

(* normalizeConfig: entries become packages.                               *)
AsPackages(got, ids) ==
  LET order == SetToSeq(ids) IN
  [i \in DOMAIN order |-> [id |-> order[i], entry |-> got.servers[order[i]]]]

(* One file of a whole reading at one moment, in the order of the walk.    *)
LoadNext(d, w) ==
  LET f == Head(w.todo) IN
  IF ~w.ok \/ w.todo = <<>> THEN w
  ELSE IF d[f] \in {Absent, Broken} \/ f \in w.seen THEN [w EXCEPT !.ok = FALSE]
  ELSE [todo |-> d[f].configPaths \o Tail(w.todo), seen |-> w.seen \cup {f},
        got |-> MergePackages(w.got, d[f]), ok |-> TRUE]

Reading(d) ==
  LET read[n \in 0..Cardinality(File)] ==
        IF n = 0 THEN [todo |-> <<Root>>, seen |-> {}, got |-> Nothing, ok |-> TRUE]
        ELSE LoadNext(d, read[n - 1])
  IN read

(* The packages and the files, if it does not fail.                        *)
Load(d) ==
  LET w == Reading(d)[Cardinality(File)] IN [w EXCEPT !.ok = w.ok /\ w.todo = <<>>]
-----------------------------------------------------------------------------
(* The host and the watcher.                                               *)

(* The host replaces a file; the watcher reports it if it watches it.      *)
Write(f) ==
  /\ edits < MaxEdits
  /\ \E c \in Contents[f] :
       c # disk[f] /\ disk' = [disk EXCEPT ![f] = c]
  /\ edits' = edits + 1
  /\ changed' = IF f \in watched /\ timer # "stopped" THEN changed \cup {f} ELSE changed
  /\ UNCHANGED <<watched, timer, policy, registry, queue, task, terminal>>

(* Mutation: a change during a reload is dropped.                          *)
ScheduleUnlessReloading(f) ==
  /\ f \in changed /\ timer # "stopped"
  /\ changed' = changed \ {f}
  /\ timer' = IF \A t \in Debounced : At(t, "idle") THEN "armed" ELSE timer
  /\ UNCHANGED <<host, policy, registry, queue, task, terminal>>

(* scheduleReload: the quiet period begins again.                          *)
ScheduleReload(f) ==
  /\ f \in changed /\ timer # "stopped"
  /\ changed' = changed \ {f}
  /\ timer' = "armed"
  /\ UNCHANGED <<host, policy, registry, queue, task, terminal>>

(* The callback of the timer begins with the policy.  The files are read   *)
(* faster than the quiet period lasts: no reading of the policy that began *)
(* before the change is still under way.                                   *)
ReadsAreFast == \A t \in Loading : ~At(t, "policy") \/ task[t].asOf = edits

TimerFires(t) ==
  /\ timer = "armed" /\ ReadsAreFast
  /\ t \in Debounced /\ At(t, "idle")
  /\ timer' = "off"
  /\ Become(t, Walk([IdleTask EXCEPT !.asOf = edits], "policy", {}))
  /\ UNCHANGED <<host, changed, policy, registry, queue, terminal>>

(* stop.  A reload under way goes on.                                      *)
StopWatcher ==
  /\ timer # "stopped"
  /\ timer' = "stopped"
  /\ changed' = {}
  /\ UNCHANGED <<host, policy, registry, queue, task, terminal>>

(* closeAll of the registry, which the shutdown calls after the watcher's  *)
(* stop.                                                                   *)
CloseRegistry ==
  /\ timer = "stopped" /\ ~terminal
  /\ terminal' = TRUE
  /\ UNCHANGED <<host, changed, timer, policy, registry, queue, task>>

-----------------------------------------------------------------------------
(* Tasks that read the files.                                              *)

(* The next file of a walk has been read, and merged with Merged.          *)
Advance(r, merged) ==
  LET f == Head(r.todo) IN
  [r EXCEPT !.todo = disk[f].configPaths \o Tail(@), !.seen = @ \cup {f}, !.got = merged]

Skip(r) == [r EXCEPT !.todo = Tail(@), !.seen = @ \cup {Head(r.todo)}]

(* The task asks for a reconciliation and waits for those before it.       *)
Enqueue(t, r) ==
  /\ Become(t, [IdleTask EXCEPT !.pc = "queued", !.spawn = r.spawn,
                                 !.asOf = IF t \in Spawning THEN r.asOf ELSE 0])
  /\ queue' = Append(queue, t)

(* POST /api/config/apply: the policy first.                               *)
Apply(t) ==
  /\ t \in Applying /\ At(t, "idle")
  /\ Become(t, Walk([IdleTask EXCEPT !.asOf = edits], "policy", {}))
  /\ UNCHANGED <<host, watcher, policy, registry, queue, terminal>>

(* loadMergedSecurityConfig: a file that is missing, or was read already,  *)
(* is passed over.                                                         *)
ReadPolicy(t) ==
  LET r == task[t]  f == Head(r.todo) IN
  /\ At(t, "policy") /\ r.todo # <<>>
  /\ f \in r.seen \/ disk[f] # Broken
  /\ Become(t, IF f \in r.seen \/ disk[f] = Absent
                 THEN Skip(r) ELSE Advance(r, MergePolicy(r.got, disk[f])))
  /\ UNCHANGED <<host, watcher, policy, registry, queue, terminal>>

(* A file that does not parse: the policy in force stays.  An apply fails; *)
(* a reload of the watcher goes on to the packages.                        *)
PolicyFails(t) ==
  LET r == task[t]  f == Head(r.todo) IN
  /\ At(t, "policy") /\ r.todo # <<>>
  /\ f \notin r.seen /\ disk[f] = Broken
  /\ IF t \in Applying
       THEN Become(t, IdleTask) /\ queue' = queue
       ELSE Enqueue(t, r)
  /\ UNCHANGED <<host, watcher, policy, registry, terminal>>

(* setSecurityPolicy, and on to the packages.                              *)
SetPolicy(t) ==
  /\ At(t, "policy") /\ task[t].todo = <<>>
  /\ policy' = task[t].got
  /\ Enqueue(t, task[t])
  /\ UNCHANGED <<host, watcher, registry, terminal>>

(* configForNextSpawn: each spawn of a stdio package asks for a refresh of *)
(* its own.                                                                *)
Spawn(t) ==
  /\ t \in Spawning /\ At(t, "idle") /\ ~terminal
  /\ \E i \in DOMAIN packages :
       /\ packages[i].entry.transport = "stdio"
       /\ Enqueue(t, [IdleTask EXCEPT !.asOf = edits, !.spawn = packages[i].id])
  /\ UNCHANGED <<host, watcher, policy, registry, terminal>>

(* envRefreshQueue: one reconciliation at a time.                          *)
Turn(t) == At(t, "queued") /\ Head(queue) = t
-----------------------------------------------------------------------------
(* reconcileFromConfigFilesNow.                                            *)

(* The reconciliation ends.  The watcher and an apply tell the catalog,    *)
(* whatever came of it (CatalogRefresher); a spawn reads its package again.*)
Leave(t) ==
  /\ queue' = Tail(queue)
  /\ Become(t, IF t \in Spawning
                 THEN [IdleTask EXCEPT !.pc = "spawning", !.spawn = task[t].spawn,
                                       !.asOf = task[t].asOf]
                 ELSE IdleTask)

Reconcile(t) ==
  /\ Turn(t)
  /\ IF terminal
       THEN Leave(t)
       ELSE /\ Become(t, Walk(task[t], "packages", Nothing))
            /\ queue' = queue
  /\ UNCHANGED <<host, watcher, policy, registry, terminal>>

(* loadMergedConfigFiles: a file that is missing, does not parse or was    *)
(* read already ends it, and the cached packages stay.                     *)
Unloadable(r) == Head(r.todo) \in r.seen \/ ~Readable(Head(r.todo))

ReadPackages(t) ==
  LET r == task[t] IN
  /\ At(t, "packages") /\ r.todo # <<>>
  /\ IF Unloadable(r)
       THEN Leave(t)
       ELSE /\ Become(t, Advance(r, MergePackages(r.got, disk[Head(r.todo)])))
            /\ queue' = queue
  /\ UNCHANGED <<host, watcher, policy, registry, terminal>>

Home(homes, id) == IF id \in DOMAIN homes THEN homes[id] ELSE Nobody

(* The files are read: what to admit is captured, the homes change.        *)
Compare(t) ==
  LET r == task[t] IN
  /\ At(t, "packages") /\ r.todo = <<>>
  /\ IF terminal
       THEN Leave(t) /\ UNCHANGED config
       ELSE /\ config' = [config EXCEPT !.homes = r.got.homes]
            /\ Become(t, [r EXCEPT !.pc = "rehoming", !.seen = {},
                 !.added = IF t \in Applying THEN Usable(r.got) \ Ids(packages) ELSE {},
                 !.rehome = {id \in Ids(packages) :
                               Home(config.homes, id) # Home(r.got.homes, id)}])
            /\ queue' = queue
  /\ UNCHANGED <<host, watcher, policy, packages, terminal>>

(* A package whose home has changed is restarted if it has a client.       *)
Rehome(t) ==
  /\ At(t, "rehoming")
  /\ \E id \in task[t].rehome :
       \/ Become(t, [task[t] EXCEPT !.rehome = @ \ {id}])
       \/ /\ id \in Ids(packages) /\ ~terminal
          /\ Become(t, [task[t] EXCEPT !.rehome = @ \ {id}, !.pc = "restarting",
                                       !.of = id, !.at = Index(id)])
  /\ UNCHANGED <<host, watcher, policy, registry, queue, terminal>>

(* Mutation: the raw entry is replaced whatever has changed.               *)
SameTransport(e, n) == e.transport = n.transport

(* A stdio package with the same identity takes its new env.               *)
SameButEnv(e, n) ==
  /\ e.transport = "stdio" /\ n.transport = "stdio"
  /\ e.identity = n.identity

Refreshed(got) ==
  {i \in DOMAIN packages :
     /\ packages[i].id \in Usable(got)
     /\ SameButEnv(packages[i].entry, got.servers[packages[i].id])
     /\ packages[i].entry.env # got.servers[packages[i].id].env}

(* Mutation: the raw entries are left as they were.                        *)
RawOfAdditions(got, updated, admitted) ==
  Override(config.servers, [s \in admitted |-> got.servers[s]])

(* The raw entries are kept in step, so that a later restart does not bring*)
(* an old env back.                                                        *)
RawAfter(got, updated, admitted) ==
  Override(config.servers, [s \in updated \cup admitted |-> got.servers[s]])

(* The env refresh and, for an apply, the admission of what was added.     *)
Reconciled(t) ==
  LET r == task[t]
      fresh(s) == [id |-> s, entry |-> r.got.servers[s]]
      admitted == IF terminal THEN {} ELSE r.added
  IN
  /\ At(t, "rehoming") /\ r.rehome = {}
  /\ packages' =
       [i \in DOMAIN packages |->
          IF i \in Refreshed(r.got) THEN fresh(packages[i].id) ELSE packages[i]]
       \o AsPackages(r.got, admitted)
  /\ config' = [config EXCEPT !.servers =
                  RawAfter(r.got, {packages[i].id : i \in Refreshed(r.got)}, admitted)]
  /\ Leave(t)
  /\ UNCHANGED <<host, watcher, policy, terminal>>

(* The spawn goes on with the package as it is now.                        *)
SpawnGoesOn(t) ==
  /\ At(t, "spawning")
  /\ Become(t, IdleTask)
  /\ UNCHANGED <<host, watcher, policy, registry, queue, terminal>>
-----------------------------------------------------------------------------
(* restartPackage: the index is found, clients are closed, and the raw     *)
(* entry is normalised and written at the index.                           *)
Restart(t) ==
  /\ t \in Restarting /\ At(t, "idle") /\ ~terminal
  /\ \E id \in Ids(packages) :
       Become(t, [IdleTask EXCEPT !.pc = "restarting", !.of = id, !.at = Index(id)])
  /\ UNCHANGED <<host, watcher, policy, registry, queue, terminal>>

(* An entry that has become invalid is taken out.                          *)
Normalised(r) ==
  IF r.of \notin DOMAIN config.servers
    THEN packages
  ELSE IF Valid(config.servers[r.of])
    THEN [packages EXCEPT ![r.at] = [id |-> r.of, entry |-> config.servers[r.of]]]
  ELSE RemoveAt(packages, r.at)

Restarted(t) ==
  /\ At(t, "restarting")
  /\ packages' = IF terminal THEN packages ELSE Normalised(task[t])
  /\ Become(t, IF t \notin Range(queue) THEN IdleTask
               ELSE [task[t] EXCEPT !.pc = "rehoming", !.of = Nobody, !.at = 0])
  /\ UNCHANGED <<host, watcher, policy, config, queue, terminal>>
-----------------------------------------------------------------------------
(* discoverAllConfigPaths; the registry has loaded these files before.     *)
Discovered(d) == Load(d).seen

(* start and fromConfigFiles: the files load, all of them are watched.     *)
Init ==
  /\ disk \in StartDisk /\ Load(disk).ok
  /\ edits = 0 /\ changed = {} /\ timer = "off"
  /\ watched = Discovered(disk)
  /\ policy = UNION {disk[f].security : f \in watched}
  /\ LET got == Load(disk).got IN
       /\ packages = AsPackages(got, Usable(got))
       /\ config = [servers |-> got.servers, homes |-> got.homes]
  /\ queue = <<>> /\ task = [t \in Task |-> IdleTask]
  /\ terminal = FALSE

Host    == \E f \in File : Write(f)
Watcher == \E f \in File : ScheduleReload(f)

Step(t) ==
  \/ TimerFires(t) \/ ReadPolicy(t) \/ PolicyFails(t) \/ SetPolicy(t)
  \/ Reconcile(t) \/ ReadPackages(t) \/ Compare(t) \/ Rehome(t) \/ Reconciled(t)
  \/ SpawnGoesOn(t) \/ Restarted(t)

Request(t) == Apply(t) \/ Spawn(t) \/ Restart(t)

Next == Host \/ Watcher \/ StopWatcher \/ CloseRegistry \/ (\E t \in Task : Step(t) \/ Request(t))

Spec == Init /\ [][Next]_vars

(* Events are delivered, timers fire, files can be read and clients close. *)
FairSpec == Spec /\ WF_vars(Watcher) /\ \A t \in Task : WF_vars(Step(t))

TypeOK ==
  /\ \A f \in File : disk[f] \in Contents[f] \cup {Absent}
  /\ edits \in 0..MaxEdits /\ watched \subseteq File /\ changed \subseteq watched
  /\ timer \in {"off", "armed", "stopped"} /\ terminal \in BOOLEAN
  /\ timer = "stopped" => changed = {}
  /\ policy \subseteq Server
  /\ Ids(packages) \subseteq Server
  /\ DOMAIN config.servers \subseteq Server /\ DOMAIN config.homes \subseteq Server
  /\ Range(queue) \subseteq Loading
  /\ \A t \in Task :
       /\ At(t, "queued") \/ At(t, "packages") \/ At(t, "rehoming") => t \in Loading
       /\ Range(task[t].todo) \cup task[t].seen \subseteq File
       /\ task[t].added \cup task[t].rehome \subseteq Server
       /\ task[t].asOf \in 0..MaxEdits

(* The queue holds each reader that waits for or runs a reconciliation, and*)
(* only its head is past waiting: two reconciliations never interleave,    *)
(* though each awaits file reads and restarts.                             *)
OneAtATime ==
  /\ IsInjective(queue)
  /\ \A t \in Task :
       (\E pc \in {"packages", "rehoming"} : At(t, pc)) => queue # <<>> /\ Head(queue) = t

(* "Keep the raw entry in step, so a later restartPackage (which           *)
(* re-normalises from it) does not bring the old env back": a restart that *)
(* found its index before any number of reconciliations writes the entry   *)
(* its package has, at the place its package has, and nothing else.        *)
RawInStep ==
  /\ \A i, j \in DOMAIN packages : packages[i].id = packages[j].id => i = j
  /\ \A i \in DOMAIN packages :
       /\ packages[i].id \in DOMAIN config.servers
       /\ packages[i].entry = config.servers[packages[i].id]
  /\ \A t \in Task : At(t, "restarting") =>
       task[t].at \in DOMAIN packages /\ packages[task[t].at].id = task[t].of

(* Until the router is reloaded no package is removed or becomes another:  *)
(* of one that is configured only the env of a stdio package changes,      *)
(* whatever the host writes and in whatever order reloads, applies, spawns *)
(* and restarts run.                                                       *)
IdentityIsKept ==
  [][\A i \in DOMAIN packages :
       LET e == packages[i].entry  n == packages'[i].entry IN
       /\ i \in DOMAIN packages' /\ packages'[i].id = packages[i].id
       /\ n # e => e.transport = "stdio" /\ n = [e EXCEPT !.env = n.env]]_vars

(* A stdio package is not spawned with an env older than its spawn: when   *)
(* the files have not changed since the spawn began, load, and still       *)
(* describe the same package, the env it starts with is theirs, also when  *)
(* the refresh had to queue behind older ones or a restart came in between.*)
FreshSpawn ==
  [][\A t \in Spawning : At(t, "spawning") /\ ~terminal /\ task[t].asOf = edits =>
       LET now == Load(disk)  id == task[t].spawn  e == packages[Index(id)].entry IN
       now.ok /\ id \in Usable(now.got) /\ SameButEnv(e, now.got.servers[id])
         => e.env = now.got.servers[id].env]_vars

(* Once the host stops editing, the policy in force is that of the files as*)
(* they are, if they load and each was there to be watched at the start,   *)
(* in spite of reloads and applies that read them half way.                *)
PolicySettles ==
  <>[](LET now == Load(disk) IN
       timer # "stopped" /\ now.ok /\ now.seen \subseteq watched
         => policy = UNION {disk[f].security : f \in now.seen})
=============================================================================
