------------------------------- MODULE MCWaits ------------------------------
(***************************************************************************)
(* Whatever waits for a connection comes to the end of its wait.  The      *)
(* refresher and the registry side by side, each on a small instance: a    *)
(* behaviour exercises one part,                                           *)
(*   "catalog"   two packages that share one place and are requested over  *)
(*               and over, and a watcher of the snapshot; or               *)
(*   "registry"  a call, evictions, restarts and shutdown, with clients    *)
(*               that hang, end by themselves and discard requests,        *)
(* while the other has nothing to do.                                      *)
(***************************************************************************)
EXTENDS CatalogRefresher

CONSTANTS p1, p2, i1, w1, s1,
          c1, c2, c3, k1, e1, r1, nobody, drainer, noclient

VARIABLES clients, clientPromises, constructedClients, state, user, activeLeases,
          evictionPromises, evictor, restarter, leaseDrainWaiters, terminal, drain

VARIABLE part

registryVars ==
  <<clients, clientPromises, constructedClients, state, user, activeLeases,
    evictionPromises, evictor, restarter, leaseDrainWaiters, terminal, drain>>

Registry == INSTANCE RegistryLifecycle WITH
  Client <- {c1, c2, c3}, NoClient <- noclient, Call <- {k1}, Getter <- {},
  Evictor <- {e1}, Restarter <- {r1}, Nobody <- nobody, Drain <- drainer,
  Events <- {"unhealthy", "exit", "drop"}

(* Clients are interchangeable: they are constructed in their order.       *)
InOrder ==
  /\ state'[c2] # "unused" => state[c1] # "unused"
  /\ state'[c3] # "unused" => state[c2] # "unused"

MCInit ==
  /\ Init /\ Registry!Init
  /\ part \in {"catalog", "registry"}
  /\ part = "registry" => Configured(config) = {}

MCNext ==
  /\ UNCHANGED part
  /\ \/ part = "catalog" /\ Next /\ UNCHANGED registryVars
     \/ part = "registry" /\ Start /\ UNCHANGED registryVars
     \/ part = "registry" /\ phase = "started" /\ Registry!Next /\ InOrder /\ UNCHANGED vars

MCSpec ==
  /\ MCInit /\ [][MCNext]_<<vars, registryVars, part>>
  /\ Fairness /\ Registry!Fairness
-----------------------------------------------------------------------------
(* Neither a request in the queue of the refresher nor one that waits for  *)
(* a snapshot is left behind for ever.                                     *)
NothingWaitsForEver == EveryQueuedRefreshRuns /\ EveryWatcherReturns

(* closeAll resolves, whatever is under way, hung or dropped.              *)
ShutdownCompletes == Registry!ShutdownCompletes

(* Every eviction ends: calls in flight delay it, new ones do not.         *)
EveryEvictionEnds == Registry!EveryEvictionEnds
=============================================================================
