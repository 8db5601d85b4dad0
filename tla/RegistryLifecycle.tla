-------------------------- MODULE RegistryLifecycle --------------------------
(***************************************************************************)
(* The life of one package's clients in src/registry.ts: who connects them,*)
(* publishes them, lends them to calls, closes them, and how shutdown takes*)
(* them all.  The maps of the class are keyed by package and packages share*)
(* only the terminal flag, so one package is the whole protocol.           *)
(*                                                                         *)
(* Users are requests: a call (callTool) holds a lease while it uses the   *)
(* client, a getter (catalog, health checks, resources) calls getClient    *)
(* without one.  Evictors run evictClient, restarters restartPackage; the  *)
(* idle reaper and closeAll are actions.  Every await separates two        *)
(* actions.                                                                *)
(***************************************************************************)
EXTENDS Naturals, Sequences

CONSTANTS
  Client,     \* clients the registry may construct: a bound
  NoClient,
  Call,       \* tool calls that may be under way at once
  Getter,     \* requests without a lease that may be under way at once
  Evictor,    \* evictions that may be under way at once
  Restarter,  \* restarts that may be under way at once
  Nobody,
  Drain,      \* closeAll, among those that wait for leases
  Events      \* what clients may do, see the assumption

(* "unhealthy": the health check of a connected client fails; "exit": its  *)
(* process ends by itself; "drop": its close at shutdown discards a request*)
(* and never settles it.                                                   *)
ASSUME RegistryAssumption ==
  /\ NoClient \notin Client
  /\ Call \cap Getter = {}
  /\ Nobody \notin Call \cup Getter
  /\ Drain \notin Evictor
  /\ Events \subseteq {"unhealthy", "exit", "drop"}

User == Call \cup Getter

VARIABLES
  clients,             \* the client published for the package
  clientPromises,      \* the user whose attempt to connect is in the map
  constructedClients,  \* constructed, neither published nor closed
  state,               \* the clients
  user,                \* the requests, with the client each has in hand
  activeLeases,        \* the calls that hold a lease
  evictionPromises,    \* the evictors, each awaiting the one before
  evictor,
  restarter,
  leaseDrainWaiters,   \* those awaiting a change of activeLeases
  terminal,            \* "open" or "shutdown"
  drain                \* drainTerminalOwnership

vars == <<clients, clientPromises, constructedClients, state, user, activeLeases,
          evictionPromises, evictor, restarter, leaseDrainWaiters, terminal, drain>>

others == <<evictionPromises, evictor, restarter, terminal, drain>>

Live       == {"connecting", "connected"}
Gone       == {"closing", "closed"}
Connecting == {"spawning", "connecting", "retrying", "publishing"}
Leased     == {"getting", "probing", "discarding", "waiting", "handed", "preflight",
               "dispatched", "dropped", "leaving"} \cup Connecting

SomeClient == Client \cup {NoClient}

(* client: probed, connecting or dispatched to; bound: the client of the   *)
(* lease; awaits: whose attempt; again: the second getClient of a call.    *)
UserRecord ==
  [pc : {"idle", "asking"} \cup Leased, client : SomeClient, bound : SomeClient,
   awaits : User \cup {Nobody}, tries : {1, 2}, again : {"no", "yes"}]

IdleUser == [pc |-> "idle", client |-> NoClient, bound |-> NoClient,
             awaits |-> Nobody, tries |-> 1, again |-> "no"]

Open == terminal = "open"

At(u, pc) == user[u].pc = pc

Move(u, pc) == [user EXCEPT ![u].pc = pc]

(* Requests a client has not answered.                                     *)
Pending(c) ==
  {u \in User : user[u].pc \in {"probing", "dispatched"} /\ user[u].client = c}

(* closeClientExactlyOnce: a client that is closing or closed stays so.  A *)
(* client whose process has ended leaves nothing to wait for.              *)
Closing(C) ==
  [c \in Client |->
     IF c \notin C \/ state[c] \in Gone THEN state[c]
     ELSE IF state[c] = "exited" THEN "closed" ELSE "closing"]

Close(C) == state' = Closing(C)
-----------------------------------------------------------------------------
(* getClient.                                                              *)

(* The call finds the transport closed before anything was sent.           *)
Reestablishes(u, c) == u \in Call /\ state[c] = "exited" /\ user[u].again = "no"

(* What a user does with the client getClient returns.  A call moves its   *)
(* lease to it and, when the transport has closed, drops it from the map   *)
(* and gets another, once; then it goes on to dispatch.                    *)
Receive(u, c) ==
  IF u \in Getter
    THEN IdleUser
  ELSE IF Reestablishes(u, c)
    THEN [user[u] EXCEPT !.pc = "getting", !.bound = c, !.again = "yes"]
  ELSE [user[u] EXCEPT !.pc = "preflight", !.client = c, !.bound = c]

(* A request arrives.                                                      *)
Ask(u) ==
  /\ At(u, "idle")
  /\ user' = [user EXCEPT ![u] =
       [IdleUser EXCEPT !.pc = IF u \in Call THEN "asking" ELSE "getting"]]
  /\ UNCHANGED <<clients, clientPromises, constructedClients, state, activeLeases,
                 leaseDrainWaiters, others>>

(* Mutation: a lease is taken whether or not an eviction is pending.       *)
AdmitAtOnce(u) == TRUE

(* Pending evictions go first.                                             *)
MayLease(u) == evictionPromises = <<>>

(* acquireLease, bound to the client published at the moment.              *)
AcquireLease(u) ==
  /\ u \in Call /\ At(u, "asking")
  /\ \/ /\ ~Open
        /\ user' = [user EXCEPT ![u] = IdleUser]
        /\ activeLeases' = activeLeases
     \/ /\ Open /\ MayLease(u)
        /\ user' = [user EXCEPT ![u] = [@ EXCEPT !.pc = "getting", !.bound = clients]]
        /\ activeLeases' = activeLeases \cup {u}
  /\ UNCHANGED <<clients, clientPromises, constructedClients, state,
                 leaseDrainWaiters, others>>

(* With no client published: join the attempt in the map, or begin one.    *)
Join(u) ==
  IF clientPromises # Nobody
    THEN /\ user' = [user EXCEPT ![u] =
              [@ EXCEPT !.pc = "waiting", !.awaits = clientPromises]]
         /\ clientPromises' = clientPromises
    ELSE /\ user' = [user EXCEPT ![u] = [@ EXCEPT !.pc = "spawning", !.tries = 1]]
         /\ clientPromises' = u

(* getClient up to its first await.                                        *)
GetClient(u) ==
  /\ At(u, "getting")
  /\ \/ /\ ~Open
        /\ user' = Move(u, "leaving")
        /\ clientPromises' = clientPromises
     \/ /\ Open /\ clients # NoClient
        /\ user' = [user EXCEPT ![u] = [@ EXCEPT !.pc = "probing", !.client = clients]]
        /\ clientPromises' = clientPromises
     \/ /\ Open /\ clients = NoClient
        /\ Join(u)
  /\ UNCHANGED <<clients, constructedClients, state, activeLeases,
                 leaseDrainWaiters, others>>

(* The health check is answered.  The answer may overtake the exit of the  *)
(* process.                                                                *)
HealthOk(u) ==
  LET c == user[u].client
  IN  /\ At(u, "probing") /\ state[c] \in {"connected", "exited"}
      /\ user' = IF Open THEN [user EXCEPT ![u] = Receive(u, c)] ELSE Move(u, "leaving")
      /\ clients' = IF Open /\ Reestablishes(u, c) THEN NoClient ELSE clients
      /\ UNCHANGED <<clientPromises, constructedClients, state, activeLeases,
                     leaseDrainWaiters, others>>

(* Mutation: the unhealthy client stays published while it is closed.      *)
KeepUnhealthy == clients

(* The map once an unhealthy client is removed.                            *)
WithoutUnhealthy == NoClient

(* The health check fails: the published client, whichever it is by now, is*)
(* removed, and the client that was probed is closed.                      *)
HealthBad(u) ==
  LET c == user[u].client
  IN  /\ At(u, "probing")
      /\ state[c] = "connected" => "unhealthy" \in Events
      /\ \/ /\ ~Open
            /\ user' = Move(u, "leaving")
            /\ UNCHANGED <<clients, clientPromises, state>>
         \/ /\ Open /\ clients # NoClient
            /\ clients' = WithoutUnhealthy
            /\ Close({c})
            /\ user' = Move(u, "discarding")
            /\ clientPromises' = clientPromises
         \/ /\ Open /\ clients = NoClient
            /\ Join(u)
            /\ UNCHANGED <<clients, state>>
      /\ UNCHANGED <<constructedClients, activeLeases, leaseDrainWaiters, others>>

(* The close of the unhealthy client is over.                              *)
Discarded(u) ==
  /\ At(u, "discarding") /\ state[user[u].client] = "closed"
  /\ \/ /\ ~Open
        /\ user' = Move(u, "leaving")
        /\ clientPromises' = clientPromises
     \/ Open /\ Join(u)
  /\ UNCHANGED <<clients, constructedClients, state, activeLeases,
                 leaseDrainWaiters, others>>

(* A user that joined an attempt comes back from its await.                *)
Handed(u) ==
  LET c == user[u].client
  IN  /\ At(u, "handed")
      /\ user' = IF Open THEN [user EXCEPT ![u] = Receive(u, c)] ELSE Move(u, "leaving")
      /\ clients' = IF Open /\ Reestablishes(u, c) THEN NoClient ELSE clients
      /\ UNCHANGED <<clientPromises, constructedClients, state, activeLeases,
                     leaseDrainWaiters, others>>
-----------------------------------------------------------------------------
(* An attempt to connect: createAndConnectClientWithOneRetry.              *)

(* Mutation: a client is held only once it has connected.                  *)
HeldLater(c) == constructedClients

(* ownConstructedClient.                                                   *)
Own(c) ==
  IF state[c] \notin Gone /\ clients = NoClient
    THEN constructedClients \cup {c} ELSE constructedClients

(* The attempt of u settles: its entry is removed, whoever it is, and those*)
(* that joined it come back with the client, or without.                   *)
Settle(u, c, mine) ==
  /\ clientPromises' = Nobody
  /\ user' = [v \in User |->
       IF v = u THEN mine
       ELSE IF At(v, "waiting") /\ user[v].awaits = u
         THEN [user[v] EXCEPT !.pc = IF c = NoClient THEN "leaving" ELSE "handed",
                              !.client = c, !.awaits = Nobody]
       ELSE user[v]]
  /\ restarter' = [r \in Restarter |->
       IF restarter[r].pc = "awaiting" /\ restarter[r].awaits = u
         THEN [restarter[r] EXCEPT !.pc = "pending", !.client = c, !.awaits = Nobody]
       ELSE restarter[r]]

(* The settings are fresh: construct a client and start it.                *)
Spawn(u) ==
  /\ At(u, "spawning") /\ Open
  /\ \E c \in Client :
       /\ state[c] = "unused"
       /\ state' = [state EXCEPT ![c] = "connecting"]
       /\ constructedClients' = Own(c)
       /\ user' = [user EXCEPT ![u] = [@ EXCEPT !.pc = "connecting", !.client = c]]
  /\ UNCHANGED <<clients, clientPromises, activeLeases, leaseDrainWaiters, others>>

(* What a request, or a restart, awaits has settled: it goes on before any *)
(* client that is being started can answer.                                *)
Due(u) ==
  \/ At(u, "handed")
  \/ At(u, "probing") /\ state[user[u].client] \in {"exited", "closed"}
  \/ At(u, "discarding") /\ state[user[u].client] = "closed"

RestartDue(r) ==
  restarter[r].client # NoClient /\ state[restarter[r].client] = "closed"

(* The connection completes.                                               *)
Connected(u) ==
  LET c == user[u].client
  IN  /\ At(u, "connecting") /\ state[c] = "connecting"
      /\ \A v \in User : ~Due(v)
      /\ \A r \in Restarter : ~RestartDue(r)
      /\ IF Open
           THEN /\ state' = [state EXCEPT ![c] = "connected"]
                /\ user' = Move(u, "publishing")
           ELSE /\ Close({c})
                /\ user' = Move(u, "retrying")
      /\ UNCHANGED <<clients, clientPromises, constructedClients, activeLeases,
                     leaseDrainWaiters, others>>

(* It fails or takes too long: closeAfterFailure.                          *)
ConnectFails(u) ==
  /\ At(u, "connecting")
  /\ Close({user[u].client})
  /\ user' = Move(u, "retrying")
  /\ UNCHANGED <<clients, clientPromises, constructedClients, activeLeases,
                 leaseDrainWaiters, others>>

LastTryLeft(u) == user[u].tries = 1

(* After the close, a second and last try.                                 *)
Retry(u) ==
  /\ At(u, "retrying") /\ state[user[u].client] = "closed"
  /\ Open /\ LastTryLeft(u)
  /\ user' = [user EXCEPT ![u] =
       [@ EXCEPT !.pc = "spawning", !.tries = user[u].tries + 1]]
  /\ UNCHANGED <<clients, clientPromises, constructedClients, state, activeLeases,
                 leaseDrainWaiters, others>>

(* The attempt fails: refused settings, a permanent failure, the second    *)
(* failure, or shutdown.                                                   *)
AttemptFails(u) ==
  /\ \/ At(u, "spawning")
     \/ At(u, "retrying") /\ state[user[u].client] = "closed"
  /\ Settle(u, NoClient, [user[u] EXCEPT !.pc = "leaving"])
  /\ UNCHANGED <<clients, constructedClients, state, activeLeases,
                 evictionPromises, evictor, leaseDrainWaiters, terminal, drain>>

(* The attempt is over and its client is published.                        *)
Publish(u) ==
  LET c == user[u].client
  IN  /\ At(u, "publishing")
      /\ IF Open
           THEN /\ clients' = IF Reestablishes(u, c) THEN NoClient ELSE c
                /\ constructedClients' = constructedClients \ {c}
                /\ Settle(u, c, Receive(u, c))
           ELSE /\ constructedClients' = Own(c)
                /\ Settle(u, NoClient, [user[u] EXCEPT !.pc = "leaving"])
                /\ clients' = clients
      /\ UNCHANGED <<state, activeLeases, evictionPromises, evictor,
                     leaseDrainWaiters, terminal, drain>>
-----------------------------------------------------------------------------
(* The end of a request.                                                   *)

(* The reads of the call are authorized, and it is sent; or it is refused. *)
Dispatch(u) ==
  /\ At(u, "preflight")
  /\ \/ state[user[u].client] = "connected" /\ user' = Move(u, "dispatched")
     \/ user' = Move(u, "leaving")
  /\ UNCHANGED <<clients, clientPromises, constructedClients, state, activeLeases,
                 leaseDrainWaiters, others>>

(* The dispatched call is answered, or fails with its transport.           *)
Answer(u) ==
  /\ At(u, "dispatched")
  /\ user' = Move(u, "leaving")
  /\ UNCHANGED <<clients, clientPromises, constructedClients, state, activeLeases,
                 leaseDrainWaiters, others>>

(* Mutation: releasing a lease wakes nobody.                               *)
WakeNobody(u) == leaseDrainWaiters

(* releaseLease resolves every waiter.                                     *)
StillWaiting(u) == {}

(* The finally of callTool: unbind and release the lease.                  *)
ReleaseLease(u) ==
  /\ At(u, "leaving")
  /\ user' = [user EXCEPT ![u] = IdleUser]
  /\ activeLeases' = activeLeases \ {u}
  /\ leaseDrainWaiters' = IF u \in Call THEN StillWaiting(u) ELSE leaseDrainWaiters
  /\ UNCHANGED <<clients, clientPromises, constructedClients, state, others>>
-----------------------------------------------------------------------------
(* Clients.                                                                *)

(* The process of a connected client ends by itself.                       *)
ClientExits(c) ==
  /\ "exit" \in Events
  /\ state[c] = "connected"
  /\ state' = [state EXCEPT ![c] = "exited"]
  /\ UNCHANGED <<clients, clientPromises, constructedClients, user, activeLeases,
                 leaseDrainWaiters, others>>

(* A close at shutdown may discard what is queued: of a call, when its     *)
(* lease is bound to the client.                                           *)
Droppable(c) ==
  IF "drop" \in Events /\ ~Open
    THEN {u \in Pending(c) : u \in Call => user[u].bound = c} ELSE {}

(* A close is over.  It settled the requests of the client, or dropped     *)
(* them.                                                                   *)
Closed(c) ==
  /\ state[c] = "closing"
  /\ state' = [state EXCEPT ![c] = "closed"]
  /\ constructedClients' = constructedClients \ {c}
  /\ Pending(c) \subseteq Droppable(c)
  /\ user' = [u \in User |->
       IF u \in Pending(c) THEN [user[u] EXCEPT !.pc = "dropped"] ELSE user[u]]
  /\ UNCHANGED <<clients, clientPromises, activeLeases, leaseDrainWaiters, others>>
-----------------------------------------------------------------------------
(* evictClient.                                                            *)

Evict(e) ==
  /\ evictor[e].pc = "idle" /\ Open
  /\ evictionPromises' = Append(evictionPromises, e)
  /\ evictor' = [evictor EXCEPT ![e].pc = "queued"]
  /\ UNCHANGED <<clients, clientPromises, constructedClients, state, user,
                 activeLeases, restarter, leaseDrainWaiters, terminal, drain>>

IdleEvictor == [pc |-> "idle", client |-> NoClient]

EvictionEnds(e) ==
  /\ evictor' = [evictor EXCEPT ![e] = IdleEvictor]
  /\ evictionPromises' = Tail(evictionPromises)

First(e) == evictionPromises # <<>> /\ Head(evictionPromises) = e

(* The eviction before is over.                                            *)
EvictionTurn(e) ==
  /\ evictor[e].pc = "queued" /\ First(e)
  /\ \/ ~Open /\ EvictionEnds(e)
     \/ /\ Open
        /\ evictor' = [evictor EXCEPT ![e].pc = "draining"]
        /\ evictionPromises' = evictionPromises
  /\ UNCHANGED <<clients, clientPromises, constructedClients, state, user,
                 activeLeases, restarter, leaseDrainWaiters, terminal, drain>>

(* waitForActiveLeases: look, and wait for a change or go on.              *)
WaitForActiveLeases(e) ==
  /\ evictor[e].pc = "draining" /\ e \notin leaseDrainWaiters
  /\ IF activeLeases # {}
       THEN /\ leaseDrainWaiters' = leaseDrainWaiters \cup {e}
            /\ evictor' = evictor
       ELSE /\ leaseDrainWaiters' = leaseDrainWaiters
            /\ evictor' = [evictor EXCEPT ![e].pc = "taking"]
  /\ UNCHANGED <<clients, clientPromises, constructedClients, state, user,
                 activeLeases, evictionPromises, restarter, terminal, drain>>

(* Unpublish and close.                                                    *)
EvictionTakes(e) ==
  /\ evictor[e].pc = "taking"
  /\ \/ /\ ~Open \/ clients = NoClient
        /\ EvictionEnds(e)
        /\ UNCHANGED <<clients, state>>
     \/ /\ Open /\ clients # NoClient
        /\ clients' = NoClient
        /\ Close({clients})
        /\ evictor' = [evictor EXCEPT ![e] = [pc |-> "closing", client |-> clients]]
        /\ evictionPromises' = evictionPromises
  /\ UNCHANGED <<clientPromises, constructedClients, user, activeLeases, restarter,
                 leaseDrainWaiters, terminal, drain>>

Evicted(e) ==
  /\ evictor[e].pc = "closing" /\ state[evictor[e].client] = "closed"
  /\ EvictionEnds(e)
  /\ UNCHANGED <<clients, clientPromises, constructedClients, state, user,
                 activeLeases, restarter, leaseDrainWaiters, terminal, drain>>

(* Mutation: the reaper does not look at leases.                           *)
IdleByRequests(c) == Pending(c) = {} /\ clientPromises = Nobody

(* What sweepIdleClients asks of a client past its idle time.              *)
Reapable(c) == clientPromises = Nobody /\ Pending(c) = {} /\ activeLeases = {}

(* sweepIdleClients.                                                       *)
Sweep ==
  /\ Open /\ clients # NoClient /\ Reapable(clients)
  /\ clients' = NoClient
  /\ Close({clients})
  /\ UNCHANGED <<clientPromises, constructedClients, user, activeLeases,
                 leaseDrainWaiters, others>>
-----------------------------------------------------------------------------
(* restartPackage.                                                         *)

IdleRestarter == [pc |-> "idle", client |-> NoClient, awaits |-> Nobody]

(* Close the client published by now, if any.                              *)
RestartTakes(r) ==
  IF clients = NoClient
    THEN restarter' = [restarter EXCEPT ![r] = IdleRestarter] /\ state' = state
    ELSE /\ Close({clients})
         /\ restarter' = [restarter EXCEPT ![r] =
              [IdleRestarter EXCEPT !.pc = "closing", !.client = clients]]

Restart(r) ==
  /\ restarter[r].pc = "idle" /\ Open
  /\ IF clientPromises # Nobody
       THEN /\ restarter' = [restarter EXCEPT ![r] =
                 [IdleRestarter EXCEPT !.pc = "awaiting", !.awaits = clientPromises]]
            /\ state' = state
       ELSE RestartTakes(r)
  /\ UNCHANGED <<clients, clientPromises, constructedClients, user, activeLeases,
                 evictionPromises, evictor, leaseDrainWaiters, terminal, drain>>

(* The attempt it awaited has settled: close its client.                   *)
RestartPending(r) ==
  /\ restarter[r].pc = "pending" /\ restarter[r].client # NoClient
  /\ state[restarter[r].client] # "closed"
  /\ Close({restarter[r].client})
  /\ restarter' = restarter
  /\ state' # state
  /\ UNCHANGED <<clients, clientPromises, constructedClients, user, activeLeases,
                 evictionPromises, evictor, leaseDrainWaiters, terminal, drain>>

(* That is over, or there was none: drop the attempt in the map.           *)
RestartGoesOn(r) ==
  /\ restarter[r].pc = "pending"
  /\ restarter[r].client # NoClient => state[restarter[r].client] = "closed"
  /\ \/ /\ ~Open
        /\ restarter' = [restarter EXCEPT ![r] = IdleRestarter]
        /\ UNCHANGED <<clientPromises, state>>
     \/ /\ Open
        /\ clientPromises' = Nobody
        /\ RestartTakes(r)
  /\ UNCHANGED <<clients, constructedClients, user, activeLeases,
                 evictionPromises, evictor, leaseDrainWaiters, terminal, drain>>

(* The close is over: whichever client is published by now is unpublished. *)
Restarted(r) ==
  /\ restarter[r].pc = "closing" /\ state[restarter[r].client] = "closed"
  /\ restarter' = [restarter EXCEPT ![r] = IdleRestarter]
  /\ clients' = IF Open THEN NoClient ELSE clients
  /\ UNCHANGED <<clientPromises, constructedClients, state, user, activeLeases,
                 evictionPromises, evictor, leaseDrainWaiters, terminal, drain>>
-----------------------------------------------------------------------------
(* closeAll and drainTerminalOwnership.                                    *)

CloseAll ==
  /\ Open
  /\ terminal' = "shutdown"
  /\ drain' = [drain EXCEPT !.pc = "looping"]
  /\ UNCHANGED <<clients, clientPromises, constructedClients, state, user,
                 activeLeases, evictionPromises, evictor, restarter, leaseDrainWaiters>>

(* Mutation: leases whose calls were dropped are waited for.               *)
NeverUndrainable == FALSE

(* reconcileNonDrainableTerminalLeases: every lease is bound to a client   *)
(* that is closed and has nothing pending, and nothing else is under way.  *)
Undrainable ==
  /\ activeLeases # {} /\ clientPromises = Nobody /\ constructedClients = {}
  /\ \A u \in activeLeases :
       /\ user[u].bound # NoClient
       /\ state[user[u].bound] = "closed" /\ Pending(user[u].bound) = {}

Reconciled == IF Undrainable THEN {} ELSE activeLeases

Published == IF clients = NoClient THEN {} ELSE {clients}

(* Mutation: what is constructed and not published is left alone.          *)
OwnedIfPublished == Published

(* beginTerminalCloses: what the registry closes at shutdown.              *)
Owned == Published \cup constructedClients

(* The attempt the drain awaits.                                           *)
AwaitedAttempts == {clientPromises} \ {Nobody}

(* Closes under way once the round has begun its own.                      *)
ActiveCloses ==
  {c \in Client : state[c] = "closing" \/ (c \in Owned /\ state[c] # "closed")}

ClosedAtOnce == {c \in Owned : Closing(Owned)[c] = "closed"}

(* beginTerminalCloses, then await every attempt and every close.          *)
DrainSettles ==
  /\ AwaitedAttempts # {} \/ ActiveCloses # {}
  /\ drain' = [pc |-> "settling", attempts |-> AwaitedAttempts, closes |-> ActiveCloses]
  /\ constructedClients' = constructedClients \ ClosedAtOnce
  /\ UNCHANGED <<activeLeases, leaseDrainWaiters>>

(* With none of those, reconcile the leases and await a change of the rest,*)
(* then the evictions.                                                     *)
DrainReconciles ==
  /\ AwaitedAttempts = {} /\ ActiveCloses = {}
  /\ activeLeases' = Reconciled
  /\ \/ /\ Reconciled # {}
        /\ leaseDrainWaiters' = leaseDrainWaiters \cup {Drain}
        /\ drain' = [drain EXCEPT !.pc = "leases"]
        /\ constructedClients' = constructedClients
     \/ /\ Reconciled = {}
        /\ leaseDrainWaiters' = IF activeLeases = {} THEN leaseDrainWaiters ELSE {}
        /\ constructedClients' =
             IF evictionPromises = <<>> THEN {} ELSE constructedClients
        /\ drain' = [drain EXCEPT !.pc =
             IF evictionPromises # <<>> THEN "evictions"
             ELSE IF constructedClients # {} THEN "looping" ELSE "done"]

DrainLoop ==
  /\ drain.pc = "looping"
  /\ Close(Owned)
  /\ clients' = NoClient
  /\ DrainSettles \/ DrainReconciles
  /\ UNCHANGED <<clientPromises, user, evictionPromises, evictor, restarter, terminal>>

(* What the round awaited has settled.                                     *)
DrainGoesOn ==
  /\ \/ /\ drain.pc = "settling"
        /\ \A u \in drain.attempts : user[u].pc \notin Connecting
        /\ \A c \in drain.closes : state[c] = "closed"
     \/ drain.pc = "leases" /\ Drain \notin leaseDrainWaiters
     \/ drain.pc = "evictions" /\ evictionPromises = <<>>
  /\ drain' = [pc |-> "looping", attempts |-> {}, closes |-> {}]
  /\ UNCHANGED <<clients, clientPromises, constructedClients, state, user, activeLeases,
                 evictionPromises, evictor, restarter, leaseDrainWaiters, terminal>>
-----------------------------------------------------------------------------
Init ==
  /\ clients = NoClient /\ clientPromises = Nobody /\ constructedClients = {}
  /\ state = [c \in Client |-> "unused"]
  /\ user = [u \in User |-> IdleUser]
  /\ activeLeases = {}
  /\ evictionPromises = <<>>
  /\ evictor = [e \in Evictor |-> IdleEvictor]
  /\ restarter = [r \in Restarter |-> IdleRestarter]
  /\ leaseDrainWaiters = {}
  /\ terminal = "open"
  /\ drain = [pc |-> "off", attempts |-> {}, closes |-> {}]

Getting(u) ==
  \/ AcquireLease(u) \/ GetClient(u) \/ HealthOk(u) \/ HealthBad(u)
  \/ Discarded(u) \/ Handed(u)

Attempt(u) ==
  \/ Spawn(u) \/ Connected(u) \/ ConnectFails(u) \/ Retry(u)
  \/ AttemptFails(u) \/ Publish(u)

Ending(u) == Dispatch(u) \/ Answer(u) \/ ReleaseLease(u)

Evicting(e) ==
  EvictionTurn(e) \/ WaitForActiveLeases(e) \/ EvictionTakes(e) \/ Evicted(e)

Restarting(r) == RestartPending(r) \/ RestartGoesOn(r) \/ Restarted(r)

Draining == DrainLoop \/ DrainGoesOn

Next ==
  \/ \E u \in User : Ask(u) \/ Getting(u) \/ Attempt(u) \/ Ending(u)
  \/ \E c \in Client : ClientExits(c) \/ Closed(c)
  \/ \E e \in Evictor : Evict(e) \/ Evicting(e)
  \/ \E r \in Restarter : Restart(r) \/ Restarting(r)
  \/ Sweep
  \/ CloseAll
  \/ Draining

Spec == Init /\ [][Next]_vars

(* Requests have timeouts, closes a grace and a kill; the rest is the      *)
(* runtime coming back from awaits.                                        *)
Fairness ==
  /\ \A u \in User : WF_vars(Getting(u)) /\ WF_vars(Attempt(u)) /\ WF_vars(Ending(u))
  /\ \A c \in Client : WF_vars(Closed(c))
  /\ \A e \in Evictor : WF_vars(Evicting(e))
  /\ \A r \in Restarter : WF_vars(Restarting(r))
  /\ WF_vars(Draining)

FairSpec == Spec /\ Fairness
-----------------------------------------------------------------------------
(* The type invariant.                                                     *)
TypeOK ==
  /\ clients \in SomeClient
  /\ clientPromises \in User \cup {Nobody}
  /\ constructedClients \subseteq Client
  /\ state \in [Client -> {"unused", "exited"} \cup Live \cup Gone]
  /\ user \in [User -> UserRecord]
  /\ activeLeases \subseteq Call
  /\ evictionPromises \in Seq(Evictor)
  /\ evictor \in [Evictor -> [pc : {"idle", "queued", "draining", "taking", "closing"},
                              client : SomeClient]]
  /\ restarter \in [Restarter -> [pc : {"idle", "awaiting", "pending", "closing"},
                                  client : SomeClient, awaits : User \cup {Nobody}]]
  /\ leaseDrainWaiters \subseteq Evictor \cup {Drain}
  /\ terminal \in {"open", "shutdown"}
  /\ drain \in [pc : {"off", "looping", "settling", "leases", "evictions", "done"},
                attempts : SUBSET User, closes : SUBSET Client]

(* No live client is ever out of the registry's sight: it is published, or *)
(* held as constructed until it is published or closed.                    *)
NoOrphan ==
  \A c \in Client : state[c] \in Live => c = clients \/ c \in constructedClients

(* A call is not interrupted: while the registry is open, neither the      *)
(* reaper nor an eviction closes the client a call was given, from the     *)
(* moment it has it, before anything is sent, until it is answered.        *)
CallsAreNotInterrupted ==
  [][\A u \in Call, c \in Client :
       /\ user[u].pc \in {"preflight", "dispatched"} /\ user[u].client = c
       /\ state[c] = "connected" /\ Open
       => state'[c] # "closing"]_vars

(* When closeAll has resolved, no client is alive and none comes to life.  *)
NothingSurvivesShutdown ==
  drain.pc = "done" => \A c \in Client : state[c] \notin Live \cup {"closing"}

(* A request never begins to connect while a client is published: requests *)
(* share one spawn and a live client is left alone.                        *)
SpawnIsShared ==
  [][\A u \in User : user[u].pc \notin Connecting /\ user'[u].pc = "spawning"
       => clients' = NoClient]_vars

(* closeAll resolves, whatever is under way, hung or dropped.              *)
ShutdownCompletes == []<>(terminal = "open" \/ drain.pc = "done")

(* Every eviction ends: calls in flight delay it, new ones do not.         *)
EveryEvictionEnds ==
  \A e \in Evictor : []<>(evictor[e].pc = "idle")
=============================================================================
