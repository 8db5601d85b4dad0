------------------------------- MODULE Router -------------------------------
(***************************************************************************)
(* The process around the registry: the HTTP sessions of src/server.ts and *)
(* their idle collection, the shutdown and what triggers it, and the       *)
(* owner watchdog of src/ownerWatchdog.ts.  Over stdio there are neither   *)
(* sessions nor a listener; the shutdown is otherwise the same.            *)
(*                                                                         *)
(* What a request does with the registry, and what the steps of the        *)
(* teardown do inside, is the matter of the other modules.  Time passes in *)
(* ticks; only the two idle limits are compared with it.                   *)
(***************************************************************************)
EXTENDS Naturals, FiniteSets

CONSTANTS
  Session,    \* sessions that may be opened: a bound
  Post,       \* POST requests that may be open at once
  IdleLimit,  \* SESSION_IDLE_TIMEOUT_MS, below BusyLimit
  BusyLimit,  \* BUSY_SESSION_IDLE_TIMEOUT_MS
  MaxTime     \* a bound

VARIABLES
  transport,   \* "http" or "stdio"
  listener,    \* "starting", "listening" or "closed"
  now,
  session,     \* [pc, lastActive]
  post,        \* [on, since]: the session of an open POST
  owner,       \* "alive" or "dead"; its pid may be taken by another process
  watchdog,    \* "none", "running", "stopped", "fired"
  deadReads,   \* consecutiveDeadReads
  late,        \* the watchdog was started after the shutdown had begun
  teardown,    \* how far the shutdown is
  process

vars == <<transport, listener, now, session, post, owner, watchdog, deadReads, late,
          teardown, process>>

http == <<listener, session, post>>
dog  == <<watchdog, deadReads, late>>

NoPost == [on |-> "none", since |-> 0]

Idle(p) == post[p] = NoPost

Running == process = "running"

OpenPosts(s) == {p \in Post : post[p].on = s}

Open == {s \in Session : session[s].pc = "open"}
-----------------------------------------------------------------------------
(* Sessions.                                                               *)

(* An initialize request makes a server and a transport of its own.        *)
Initialize(s) ==
  /\ Running /\ listener = "listening" /\ session[s].pc = "none"
  /\ session' = [session EXCEPT ![s].pc = "initializing"]
  /\ UNCHANGED <<transport, listener, now, post, owner, dog, teardown, process>>

(* onsessioninitialized.                                                   *)
SessionInitialized(s) ==
  /\ Running /\ session[s].pc = "initializing"
  /\ session' = [session EXCEPT ![s] = [pc |-> "open", lastActive |-> now]]
  /\ UNCHANGED <<transport, listener, now, post, owner, dog, teardown, process>>

(* A request on a session; a POST is counted until its response is closed. *)
OpenPost(p, s) ==
  /\ Running /\ listener = "listening" /\ s \in Open /\ Idle(p)
  /\ session' = [session EXCEPT ![s].lastActive = now]
  /\ post' = [post EXCEPT ![p] = [on |-> s, since |-> now]]
  /\ UNCHANGED <<transport, listener, now, owner, dog, teardown, process>>

Get(s) ==
  /\ Running /\ listener = "listening" /\ s \in Open
  /\ session' = [session EXCEPT ![s].lastActive = now]
  /\ UNCHANGED <<transport, listener, now, post, owner, dog, teardown, process>>

ClosePost(p) ==
  /\ Running /\ ~Idle(p)
  /\ session' = [session EXCEPT ![post[p].on].lastActive = now]
  /\ post' = [post EXCEPT ![p] = NoPost]
  /\ UNCHANGED <<transport, listener, now, owner, dog, teardown, process>>

(* DELETE: onsessionclosed.                                                *)
Delete(s) ==
  /\ Running /\ listener = "listening" /\ s \in Open
  /\ session' = [session EXCEPT ![s].pc = "deleted"]
  /\ UNCHANGED <<transport, listener, now, post, owner, dog, teardown, process>>

(* Mutation: an open request counts for nothing.                           *)
IdleLimitOnly(s) == IdleLimit

IdleLimitOf(s) == IF OpenPosts(s) # {} THEN BusyLimit ELSE IdleLimit

Expired == {s \in Open : now - session[s].lastActive > IdleLimitOf(s)}

(* The interval that collects idle sessions; the teardown clears it.       *)
Collect ==
  /\ Running /\ teardown \in {"none", "draining"} /\ Expired # {}
  /\ session' = [s \in DOMAIN session |->
       IF s \in Expired THEN [session[s] EXCEPT !.pc = "collected"] ELSE session[s]]
  /\ UNCHANGED <<transport, listener, now, post, owner, dog, teardown, process>>

Tick ==
  /\ Running /\ now < MaxTime
  /\ now' = now + 1
  /\ UNCHANGED <<transport, http, owner, dog, teardown, process>>
-----------------------------------------------------------------------------
(* Shutdown: a teardown is begun once and ends the process whatever fails. *)

(* SIGINT and SIGTERM, POST /api/shutdown, and the watchdog's onOwnerDead. *)
Begin == IF teardown = "none" THEN "draining" ELSE teardown

(* The watchdog is stopped first, if it has been started.                  *)
StopWatchdog == IF watchdog = "running" THEN "stopped" ELSE watchdog

(* Mutation: the watchdog goes on during the teardown.                     *)
KeepWatchdog == watchdog

WatchdogAfterBegin == StopWatchdog

Shutdown ==
  /\ Running /\ teardown = "none"
  /\ teardown' = Begin
  /\ watchdog' = WatchdogAfterBegin
  /\ UNCHANGED <<transport, http, now, owner, deadReads, late, process>>

(* drainRefreshesForShutdown: bounded, and its errors are swallowed.       *)
Drained ==
  /\ Running /\ teardown = "draining"
  /\ teardown' = "watcher"
  /\ UNCHANGED <<transport, http, now, owner, dog, process>>

(* configWatcher.stop.                                                     *)
WatcherStopped ==
  /\ Running /\ teardown = "watcher"
  /\ teardown' = "refresher"
  /\ UNCHANGED <<transport, http, now, owner, dog, process>>

(* catalogRefresher.dispose; then the listener stops accepting.            *)
RefresherDisposed ==
  /\ Running /\ teardown = "refresher"
  /\ teardown' = IF transport = "http" THEN "sessions" ELSE "registry"
  /\ listener' = "closed"
  /\ UNCHANGED <<transport, now, session, post, owner, dog, process>>

(* Sessions are closed one after the other, also those added meanwhile.    *)
CloseSession(s) ==
  /\ Running /\ teardown = "sessions" /\ s \in Open
  /\ session' = [session EXCEPT ![s].pc = "closed"]
  /\ UNCHANGED <<transport, listener, now, post, owner, dog, teardown, process>>

SessionsClosed ==
  /\ Running /\ teardown = "sessions" /\ Open = {}
  /\ teardown' = "registry"
  /\ UNCHANGED <<transport, http, now, owner, dog, process>>

(* registry.closeAll.                                                      *)
RegistryClosed ==
  /\ Running /\ teardown = "registry"
  /\ teardown' = "done"
  /\ UNCHANGED <<transport, http, now, owner, dog, process>>

Awaiting == teardown \in {"watcher", "refresher", "registry"}

(* Mutation: a step that fails has the teardown begin again.               *)
TeardownRetries ==
  /\ Running /\ Awaiting
  /\ teardown' = "draining"
  /\ UNCHANGED <<transport, http, now, owner, dog, process>>

(* A step that rejects: the rest is skipped.                               *)
TeardownFails ==
  /\ Running /\ Awaiting
  /\ teardown' = "failed"
  /\ UNCHANGED <<transport, http, now, owner, dog, process>>

(* finally: process.exit.                                                  *)
Exit ==
  /\ Running /\ teardown \in {"done", "failed"}
  /\ process' = "exited"
  /\ UNCHANGED <<transport, http, now, owner, dog, teardown>>
-----------------------------------------------------------------------------
(* The owner watchdog.                                                     *)

(* The listener is up: the watchdog is started, whatever has happened by   *)
(* then.  Over stdio it is started as the router is.                       *)
Listening ==
  /\ Running /\ listener = "starting"
  /\ listener' = IF transport = "http" THEN "listening" ELSE "closed"
  /\ watchdog' = "running"
  /\ late' = (teardown # "none")
  /\ UNCHANGED <<transport, now, session, post, owner, deadReads, teardown, process>>

(* A router that was started for no owner has none.                        *)
ListeningOwnerless ==
  /\ Running /\ listener = "starting"
  /\ listener' = IF transport = "http" THEN "listening" ELSE "closed"
  /\ UNCHANGED <<transport, now, session, post, owner, dog, teardown, process>>

OwnerDies ==
  /\ Running /\ owner = "alive"
  /\ owner' = "dead"
  /\ UNCHANGED <<transport, http, now, dog, teardown, process>>

(* The pid is reused, or cannot be signalled: it reads as alive.           *)
PidReused ==
  /\ Running /\ owner = "dead"
  /\ owner' = "reused"
  /\ UNCHANGED <<transport, http, now, dog, teardown, process>>

ReadAlive ==
  /\ Running /\ watchdog = "running" /\ owner # "dead"
  /\ deadReads' = 0
  /\ UNCHANGED <<transport, http, now, owner, watchdog, late, teardown, process>>

(* Mutation: the first dead read is not counted.                           *)
ReadDeadForgotten ==
  /\ Running /\ watchdog = "running" /\ owner = "dead" /\ deadReads = 0
  /\ deadReads' = 0
  /\ UNCHANGED <<transport, http, now, owner, watchdog, late, teardown, process>>

(* One read proves nothing.                                                *)
ReadDead ==
  /\ Running /\ watchdog = "running" /\ owner = "dead" /\ deadReads = 0
  /\ deadReads' = 1
  /\ UNCHANGED <<transport, http, now, owner, watchdog, late, teardown, process>>

(* Two in a row: onOwnerDead is awaited, then the process exits.  The      *)
(* teardown it begins exits itself; one that is under way already makes    *)
(* onOwnerDead return at once.                                             *)
OwnerConfirmedDead ==
  /\ Running /\ watchdog = "running" /\ owner = "dead" /\ deadReads = 1
  /\ deadReads' = 2
  /\ watchdog' = "fired"
  /\ teardown' = Begin
  /\ process' = IF teardown = "none" THEN process ELSE "exited"
  /\ UNCHANGED <<transport, http, now, owner, late>>
-----------------------------------------------------------------------------
Init ==
  /\ transport \in {"http", "stdio"}
  /\ listener = "starting" /\ now = 0
  /\ session = [s \in Session |-> [pc |-> "none", lastActive |-> 0]]
  /\ post = [p \in Post |-> NoPost]
  /\ owner = "alive" /\ watchdog = "none" /\ deadReads = 0 /\ late = FALSE
  /\ teardown = "none" /\ process = "running"

Requests ==
  \E s \in Session :
    \/ Initialize(s) \/ SessionInitialized(s) \/ Get(s) \/ Delete(s)
    \/ \E p \in Post : OpenPost(p, s)

Teardown ==
  \/ Drained \/ WatcherStopped \/ RefresherDisposed \/ SessionsClosed
  \/ RegistryClosed \/ TeardownFails \/ Exit
  \/ \E s \in Session : CloseSession(s)

Watchdog == ReadAlive \/ ReadDead \/ OwnerConfirmedDead

Next ==
  \/ Requests \/ (\E p \in Post : ClosePost(p)) \/ Collect \/ Tick
  \/ Shutdown \/ Teardown \/ Listening \/ ListeningOwnerless
  \/ OwnerDies \/ PidReused \/ Watchdog

Spec == Init /\ [][Next]_vars

(* The awaits of the teardown settle and timers fire.                      *)
FairSpec == Spec /\ WF_vars(Teardown) /\ WF_vars(Watchdog)
-----------------------------------------------------------------------------
SessionState ==
  {"none", "initializing", "open", "deleted", "collected", "closed"}

TypeOK ==
  /\ transport \in {"http", "stdio"} /\ listener \in {"starting", "listening", "closed"}
  /\ now \in 0..MaxTime
  /\ session \in [Session -> [pc : SessionState, lastActive : 0..MaxTime]]
  /\ post \in [Post -> [on : Session \cup {"none"}, since : 0..MaxTime]]
  /\ owner \in {"alive", "dead", "reused"}
  /\ watchdog \in {"none", "running", "stopped", "fired"}
  /\ deadReads \in 0..2 /\ late \in BOOLEAN
  /\ teardown \in {"none", "draining", "watcher", "refresher", "sessions", "registry",
                   "done", "failed"}
  /\ process \in {"running", "exited"}

(* "A session with an open tool call is kept until no client can still be  *)
(* waiting on it": it is not collected while a POST opened within the busy *)
(* limit is open, whatever other requests on the session come and end.     *)
BusySessionsStay ==
  [][\A s \in Session : \A p \in OpenPosts(s) :
       session[s].pc = "open" /\ session'[s].pc = "collected"
         => now - post[p].since > BusyLimit]_vars

(* The process does not exit before its one teardown has come to its end:  *)
(* neither a second trigger nor the watchdog cuts it short.  A watchdog    *)
(* started after the shutdown had begun is the exception, see the README.  *)
TeardownIsNotCutShort ==
  process = "exited" => teardown \in {"done", "failed"} \/ late

(* A shutdown ends the process, also when a step of it rejects and with    *)
(* sessions opened while it runs; and a router whose owner has died for    *)
(* good does not stay behind.                                              *)
RouterExits ==
  /\ []<>(teardown = "none" \/ process = "exited")
  /\ []<>(watchdog = "none" \/ owner # "dead" \/ process = "exited")
=============================================================================
