------------------------------ MODULE Catalog ------------------------------
(***************************************************************************)
(* The per-package tool snapshot of src/catalog.ts, as operators on the    *)
(* map "cache" (the private field of the same name).  Every operator takes *)
(* the state it reads and returns the new map, the way the class's methods *)
(* run: synchronously, between two awaits of their callers.                *)
(*                                                                         *)
(* A tool list is abstracted to the identity of the package configuration  *)
(* (command, args, cwd, base_url, ...: packageIdentity) of the server that *)
(* answered the listing, which is what staleness is about.  The retry      *)
(* times become "none" (null), "pending" (in the future) and "due".        *)
(***************************************************************************)
EXTENDS Naturals, FiniteSets

CONSTANTS
  Pkg,           \* package ids
  Ident,         \* configuration identities a package can have
  NoPackage,     \* "identity" of a package that is not configured
  NoTools,       \* the empty tool list
  SetupBlocked   \* packages whose setupStatus is "blocked" and have no home

ASSUME CatalogAssumption ==
  /\ IsFiniteSet(Pkg)
  /\ NoPackage \notin Ident
  /\ NoTools \notin Ident
  /\ SetupBlocked \subseteq Pkg

Status == {"unknown", "connecting", "ready", "auth_required",
           "setup_incomplete", "error"}

Retry == {"none", "pending", "due"}

Config == [Pkg -> Ident \cup {NoPackage}]

Entry == [status   : Status,
          tools    : Ident \cup {NoTools},
          inFlight : BOOLEAN,
          gen      : Nat,
          retry    : Retry,
          ident    : Ident \cup {NoPackage}]

(* "unknown" is the status of a package with no entry.                     *)
NoEntry == [status |-> "unknown", tools |-> NoTools, inFlight |-> FALSE,
            gen |-> 0, retry |-> "none", ident |-> NoPackage]

Cached(entry) == entry.status # "unknown"

Connecting(ident, gen) ==
  [status |-> "connecting", tools |-> NoTools, inFlight |-> FALSE,
   gen |-> gen, retry |-> "none", ident |-> ident]

Configured(config) == {p \in Pkg : config[p] # NoPackage}
-----------------------------------------------------------------------------
(* The writes of one refresh attempt, which began in generation g.         *)

BeginRefresh(cache, gen, config, p) ==
  [cache EXCEPT ![p] =
     IF Cached(cache[p])
       THEN [cache[p] EXCEPT !.inFlight = TRUE, !.gen = gen]
       ELSE [Connecting(config[p], gen) EXCEPT !.inFlight = TRUE]]

FinishRefreshWithoutChange(cache, p, g) ==
  IF Cached(cache[p]) /\ cache[p].gen = g
    THEN [cache EXCEPT ![p].inFlight = FALSE]
    ELSE cache

(* The entry takes the identity of the configuration of now, not of the    *)
(* moment the attempt began.                                               *)
CommitReady(cache, gen, config, p, g, tools) ==
  IF g # gen
    THEN cache
    ELSE [cache EXCEPT ![p] =
            [status |-> "ready", tools |-> tools, inFlight |-> FALSE,
             gen |-> g, retry |-> "none", ident |-> config[p]]]

(* A failure retains the last known good tools.                            *)
CommitFailure(cache, gen, config, p, g, failure) ==
  IF g # gen
    THEN cache
    ELSE [cache EXCEPT ![p] =
            [status |-> failure.status, tools |-> cache[p].tools,
             inFlight |-> FALSE, gen |-> g, retry |-> failure.retry,
             ident |-> config[p]]]
-----------------------------------------------------------------------------
(* Invalidation by a handler, and by a new configuration.                  *)

ClearPackage(cache, gen, config, p) ==
  LET retain == Cached(cache[p]) /\ cache[p].ident = config[p]
      fresh  == Connecting(config[p], gen)
  IN  [cache EXCEPT ![p] =
         IF config[p] = NoPackage THEN NoEntry
         ELSE IF retain THEN [fresh EXCEPT !.tools = cache[p].tools]
         ELSE fresh]

(* Mutation: a package that came back under another identity is not changed.*)
ChangedPackagesById(cache, config) ==
  {p \in Pkg : (config[p] = NoPackage) <=> Cached(cache[p])}

ChangedPackages(cache, config) ==
  {p \in Pkg : IF config[p] = NoPackage
                 THEN Cached(cache[p])
                 ELSE ~Cached(cache[p]) \/ cache[p].ident # config[p]}

SetConfigurationGeneration(cache, config, gen) ==
  [p \in Pkg |->
     IF ~Cached(cache[p]) \/ config[p] = NoPackage THEN NoEntry
     ELSE IF p \in ChangedPackages(cache, config) THEN Connecting(config[p], gen)
     ELSE [cache[p] EXCEPT !.gen = gen]]
-----------------------------------------------------------------------------
(* Reads.                                                                  *)

PackageStatus(cache, config, p) ==
  IF ~Cached(cache[p]) /\ config[p] # NoPackage /\ p \in SetupBlocked
    THEN "setup_incomplete"
    ELSE cache[p].status

RetryHint(cache, config, p) ==
  CASE cache[p].status \in {"auth_required", "error"} -> cache[p].retry
    [] cache[p].status = "connecting"                 -> "due"
    [] PackageStatus(cache, config, p) = "unknown"    -> "due"
    [] OTHER                                          -> "none"

IsSnapshotComplete(cache, gen, config) ==
  \A p \in Configured(config) :
     /\ Cached(cache[p])
     /\ cache[p].gen = gen
     /\ cache[p].status # "connecting"
=============================================================================
