----------------------------- MODULE TokenRefresh -----------------------------
(***************************************************************************)
(* The rotating OAuth refresh token of one package, shared through one     *)
(* token file by several router processes: src/auth/refreshTransaction.ts, *)
(* src/auth/tokenRefreshLock.ts, src/auth/providers/simple.ts and          *)
(* refreshOnly.ts, with the shutdown of src/server.ts.                     *)
(*                                                                         *)
(* A flow is one request of a client of the package: it reads the tokens,  *)
(* is refused, and is taken by the SDK through a refresh.  The refresh is a*)
(* transaction under an in-process mutex (chain) and a lock directory      *)
(* (lock); the SDK's saveTokens that follows is under neither.  Every      *)
(* await of the code separates two actions here.                           *)
(*                                                                         *)
(* Tokens are numbered in the order in which the server issues them; 0 is  *)
(* no token.                                                               *)
(***************************************************************************)
EXTENDS Naturals, Sequences

CONSTANTS
  Proc,         \* router processes that share the token file
  Flow,         \* requests under way at once, over all processes
  Owner,        \* the process of each flow
  Nobody,       \* the holder of a free lock
  Events,       \* what the environment may do, see the assumption
  QuietExpiry,  \* whether access tokens end only while no flow is under way
  MaxIssued     \* bound on the tokens the server issues

(* "keep": the server may answer without a new refresh token; "signin": the *)
(* user completes a browser sign-in; "revoke": the server withdraws a grant;*)
(* "crash": a process is killed; "suspend": one sleeps longer than the stale*)
(* window of the lock; "lost": an answer is lost after the server acted;    *)
(* "persist": a token write fails; "body": a 200 answer cannot be used;     *)
(* "slow": the drain times out.                                             *)
ASSUME TokenAssumption ==
  /\ Owner \in [Flow -> Proc]
  /\ Nobody \notin Flow
  /\ Events \subseteq {"keep", "signin", "revoke", "crash", "suspend", "lost",
                       "persist", "body", "slow"}
  /\ QuietExpiry \in BOOLEAN
  /\ MaxIssued \in Nat

VARIABLES
  issued,    \* server: number of the last token set issued
  grants,    \* server: refresh tokens it honours
  alive,     \* server: access tokens it accepts
  disk,      \* the tokens in the token file
  kind,      \* what the token file is: absent, the lock's placeholder, or
             \* tokens whose access token is in date or not
  marker,    \* whether the needsReconnect file exists: "set" or "clear"
  lock,      \* the flow that made the lock directory
  flow,      \* the requests
  chain,     \* inProcessChains, per process
  mem,       \* savedTokens, per process
  echoes,    \* authoritativeTokenEchoes, per process
  rejected,  \* rejectedAccessToken, per process
  proc,      \* whether the process is up, draining or down
  awaited    \* the flows its drain awaits

server   == <<issued, grants, alive>>
files    == <<disk, kind, marker>>
provider == <<mem, echoes, rejected>>
process  == <<chain, proc, awaited>>
vars     == <<server, files, lock, flow, provider, process>>

Tokens == [access : Nat, refresh : Nat]
None   == [access |-> 0, refresh |-> 0]

(* Where a flow stands inside the lock, and in all.                        *)
Critical == {"locked", "sent", "granted", "writing", "denied", "dead",
             "marking", "unmarking", "releasing"}
Queued   == {"queued", "locking"}
Stages   == Critical \cup Queued \cup
            {"idle", "requested", "unauthorized", "saving", "overwriting",
             "invalidating", "checking", "discarding", "signed", "welcome"}

(* token: the refresh token supplied, then the one presented; result: the   *)
(* server's answer, then the set to write, then the answer to the SDK.      *)
FlowRecord ==
  [pc : Stages, bearer : Nat, rejected : Nat, token : Nat, result : Tokens,
   tries : {0, 1, 2}, round : {1, 2}, outcome : {"ok", "invalid", "error"}]

Idle == [pc |-> "idle", bearer |-> 0, rejected |-> 0, token |-> 0,
         result |-> None, tries |-> 0, round |-> 1, outcome |-> "error"]

At(f, stage) == flow[f].pc = stage

(* readDiskTokens as its callers see it, the tokens kept in memory standing*)
(* in for a placeholder that cannot be parsed.                             *)
OnDisk(p) == IF kind = "empty" THEN mem[p] ELSE disk

(* Mutation: a token a peer stored is never good enough.                   *)
NeverUsable(f) == FALSE

(* hasUsableAccessToken for the tokens on disk.                            *)
Usable(f) == kind = "fresh" /\ disk.access \notin {0, flow[f].rejected}

(* Mutation: a holder that lost the lock waits for it instead of failing.  *)
NeverFails(f) == FALSE

(* assertLockHealthy: the holder goes on unless a peer took the lock over  *)
(* and the heartbeat noticed, or the directory is gone.                    *)
MayGoOn(f) == lock # Nobody
MayFail(f) == lock # f

(* mergeAndPersistTokens: a refresh token the answer omits is kept.        *)
Merge(p, in) ==
  LET base == IF OnDisk(p) = None THEN mem[p] ELSE OnDisk(p)
  IN  [access  |-> in.access,
       refresh |-> IF in.refresh = 0 THEN base.refresh ELSE in.refresh]

(* What the SDK saves: refreshAuthorization puts its own refresh token back*)
(* when the answer has none.                                               *)
Incoming(f) ==
  [flow[f].result EXCEPT !.refresh = IF @ = 0 THEN flow[f].token ELSE @]

(* Mutation: the queue of echoes is not consulted.                         *)
NoEcho(p, in) == FALSE

(* shouldSkipNonAuthoritativeWrite, second case: the tokens are the echo of*)
(* a set this process wrote under the lock and that disk has moved off.    *)
StaleEcho(p, in) == in \in echoes[p] /\ OnDisk(p) # in
-----------------------------------------------------------------------------
(* A request and its refusal.                                              *)

(* The client sends a request with the access token of tokens().           *)
Request(f) ==
  LET p == Owner[f]
  IN  /\ At(f, "idle") /\ proc[p] # "down"
      /\ OnDisk(p).access # 0
      /\ mem' = [mem EXCEPT ![p] = OnDisk(p)]
      /\ flow' = [flow EXCEPT ![f] =
                    [Idle EXCEPT !.pc = "requested", !.bearer = OnDisk(p).access]]
      /\ UNCHANGED <<server, files, lock, echoes, rejected, process>>

(* The server accepts the access token.                                    *)
Served(f) ==
  /\ At(f, "requested") /\ flow[f].bearer \in alive
  /\ flow' = [flow EXCEPT ![f] = Idle]
  /\ UNCHANGED <<server, files, lock, provider, process>>

(* The server answers 401: the fetch wrapper notes the token it refused.   *)
Refused(f) ==
  /\ At(f, "requested") /\ flow[f].bearer \notin alive
  /\ rejected' = [rejected EXCEPT ![Owner[f]] = flow[f].bearer]
  /\ flow' = [flow EXCEPT ![f].pc = "unauthorized"]
  /\ UNCHANGED <<server, files, lock, mem, echoes, process>>

(* withTokenRefreshLock refuses to start once shutdown has begun.          *)
AcceptsRefreshes(p) == proc[p] = "up"

(* The SDK asks for a refresh with the token of tokens(), or gives up.     *)
Enqueue(f) ==
  LET p == Owner[f]
      t == OnDisk(p)
  IN  /\ At(f, "unauthorized")
      /\ mem' = [mem EXCEPT ![p] = t]
      /\ IF t.refresh # 0 /\ AcceptsRefreshes(p)
           THEN /\ flow' = [flow EXCEPT ![f] =
                     [@ EXCEPT !.pc = "queued", !.token = t.refresh,
                               !.rejected = rejected[p], !.tries = 0]]
                /\ chain' = [chain EXCEPT ![p] = Append(@, f)]
           ELSE /\ flow' = [flow EXCEPT ![f] = Idle]
                /\ chain' = chain
      /\ UNCHANGED <<server, files, lock, echoes, rejected, proc, awaited>>
-----------------------------------------------------------------------------
(* The lock.                                                               *)

First(f) == chain[Owner[f]] # <<>> /\ Head(chain[Owner[f]]) = f

(* The mutex is f's: make sure there is a file to lock.                    *)
EnsureLockTarget(f) ==
  /\ At(f, "queued") /\ First(f)
  /\ kind' = IF kind = "missing" THEN "empty" ELSE kind
  /\ flow' = [flow EXCEPT ![f].pc = "locking"]
  /\ UNCHANGED <<server, disk, marker, lock, provider, process>>

(* Mutation: the lock directory of another process does not count.         *)
FreeInProcess(f) == IF lock = Nobody THEN TRUE ELSE Owner[lock] # Owner[f]

(* The directory is absent, or stale: its maker is gone, or has slept.     *)
Free(f) ==
  \/ lock = Nobody
  \/ lock # Nobody /\ flow[lock].pc \notin Critical
  \/ "suspend" \in Events

Acquire(f) ==
  /\ At(f, "locking") /\ Free(f)
  /\ lock' = f
  /\ flow' = [flow EXCEPT ![f].pc = "locked"]
  /\ UNCHANGED <<server, files, provider, process>>

(* f leaves the mutex, and the drain that awaits it.                       *)
Leave(f) ==
  LET p == Owner[f]
  IN  /\ chain' = [chain EXCEPT ![p] = Tail(@)]
      /\ awaited' = [awaited EXCEPT ![p] = @ \ {f}]
      /\ proc' = proc

(* The retries are used up: TokenRefreshLockBusyError.                     *)
LockBusy(f) ==
  /\ At(f, "locking") /\ lock # Nobody
  /\ flow' = [flow EXCEPT ![f] = Idle]
  /\ Leave(f)
  /\ UNCHANGED <<server, files, lock, provider>>

Fail(f) == flow' = [flow EXCEPT ![f] = [@ EXCEPT !.pc = "releasing", !.outcome = "error"]]

(* A check of the lock on the way finds it lost.                           *)
LockLost(f) ==
  /\ \E stage \in {"locked", "granted", "denied"} : At(f, stage)
  /\ MayFail(f)
  /\ Fail(f)
  /\ UNCHANGED <<server, files, lock, provider, process>>

(* The last check and the release.  A holder that did not notice a takeover*)
(* removes the directory of the peer; one that did reports an error.       *)
Release(f) ==
  /\ At(f, "releasing")
  /\ \E seen \in {"healthy", "compromised"} :
       /\ seen = "healthy" => lock # Nobody
       /\ seen = "compromised" => MayFail(f)
       /\ lock' = IF seen = "healthy" THEN Nobody ELSE lock
       /\ LET outcome == IF seen = "healthy" THEN flow[f].outcome ELSE "error"
          IN  flow' = [flow EXCEPT ![f] =
                IF outcome = "ok" THEN [@ EXCEPT !.pc = "saving"]
                ELSE IF outcome = "invalid" /\ flow[f].round = 1
                       THEN [@ EXCEPT !.pc = "invalidating"]
                ELSE Idle]
  /\ Leave(f)
  /\ UNCHANGED <<server, files, provider>>
-----------------------------------------------------------------------------
(* The transaction, under the lock.                                        *)

(* The freshest refresh token there is.                                    *)
TokenToSend(f) == IF disk.refresh # 0 THEN disk.refresh ELSE flow[f].token

(* (1)-(3): read the disk; answer from it when its access token is usable, *)
(* else present a refresh token.                                           *)
ReadUnderLock(f) ==
  /\ At(f, "locked")
  /\ IF Usable(f)
       THEN flow' = [flow EXCEPT ![f] =
              [@ EXCEPT !.pc = "unmarking", !.result = disk, !.outcome = "ok"]]
       ELSE /\ MayGoOn(f)
            /\ flow' = [flow EXCEPT ![f] =
                 [@ EXCEPT !.pc = "sent", !.token = TokenToSend(f)]]
  /\ UNCHANGED <<server, files, lock, provider, process>>

(* The server honours the token presented: a new pair, the old refresh      *)
(* token used up, or a new access token only.                               *)
ServerGrants(f) ==
  /\ At(f, "sent") /\ flow[f].token \in grants /\ issued < MaxIssued
  /\ issued' = issued + 1
  /\ alive' = alive \cup {issued + 1}
  /\ \E refresh \in {0, issued + 1} :
       /\ refresh = 0 => "keep" \in Events
       /\ grants' = IF refresh = 0 THEN grants
                    ELSE (grants \ {flow[f].token}) \cup {refresh}
       /\ \/ flow' = [flow EXCEPT ![f] =
               [@ EXCEPT !.pc = "granted",
                         !.result = [access |-> issued + 1, refresh |-> refresh]]]
          \/ "lost" \in Events /\ Fail(f)
  /\ UNCHANGED <<files, lock, provider, process>>

(* It does not: invalid_grant.                                             *)
ServerDenies(f) ==
  /\ At(f, "sent") /\ flow[f].token \notin grants
  /\ flow' = [flow EXCEPT ![f].pc = "denied"]
  /\ UNCHANGED <<server, files, lock, provider, process>>

(* Any other answer, or none: nothing was used up.                         *)
ServerErrs(f) ==
  /\ At(f, "sent")
  /\ Fail(f)
  /\ UNCHANGED <<server, files, lock, provider, process>>

(* A 200 with a body that can be used: read the disk to merge.             *)
MergeRotated(f) ==
  /\ At(f, "granted") /\ MayGoOn(f)
  /\ flow' = [flow EXCEPT ![f] =
       [@ EXCEPT !.pc = "writing", !.result = Merge(Owner[f], flow[f].result)]]
  /\ UNCHANGED <<server, files, lock, provider, process>>

(* A 200 with one that cannot: fail closed.                                *)
UnusableBody(f) ==
  /\ "body" \in Events
  /\ At(f, "granted") /\ MayGoOn(f)
  /\ flow' = [flow EXCEPT ![f] = [@ EXCEPT !.pc = "dead", !.outcome = "error"]]
  /\ UNCHANGED <<server, files, lock, provider, process>>

WriteTokens(p, t) ==
  /\ disk' = t
  /\ kind' = "fresh"
  /\ mem' = [mem EXCEPT ![p] = t]

(* persistRotatedTokensOrThrow: the rename.                                *)
PersistRotated(f) ==
  LET p == Owner[f]
  IN  /\ At(f, "writing")
      /\ WriteTokens(p, flow[f].result)
      /\ echoes' = [echoes EXCEPT ![p] = @ \cup {flow[f].result}]
      /\ flow' = [flow EXCEPT ![f] = [@ EXCEPT !.pc = "unmarking", !.outcome = "ok"]]
      /\ UNCHANGED <<server, marker, lock, rejected, process>>

(* Mutation: a failed write is logged and the answer returned.             *)
PersistFailsOpen(f) ==
  /\ "persist" \in Events
  /\ At(f, "writing")
  /\ flow' = [flow EXCEPT ![f] = [@ EXCEPT !.pc = "releasing", !.outcome = "ok"]]
  /\ UNCHANGED <<server, files, lock, provider, process>>

PersistFails(f) ==
  /\ "persist" \in Events
  /\ At(f, "writing")
  /\ flow' = [flow EXCEPT ![f] = [@ EXCEPT !.pc = "dead", !.outcome = "error"]]
  /\ UNCHANGED <<server, files, lock, provider, process>>

ClearMarker(f) ==
  /\ At(f, "unmarking")
  /\ marker' = "clear"
  /\ flow' = [flow EXCEPT ![f].pc = "releasing"]
  /\ UNCHANGED <<server, disk, kind, lock, provider, process>>

PeerRotated(f) ==
  /\ disk.access # 0
  /\ disk.refresh \notin {0, flow[f].token} \/ Usable(f)

(* (4): look three times whether a peer rotated the token meanwhile.       *)
Recheck(f) ==
  /\ At(f, "denied") /\ MayGoOn(f)
  /\ flow' = [flow EXCEPT ![f] =
       IF PeerRotated(f)
         THEN [@ EXCEPT !.pc = "unmarking", !.result = disk, !.outcome = "ok"]
       ELSE IF flow[f].tries < 2 THEN [@ EXCEPT !.tries = flow[f].tries + 1]
       ELSE [@ EXCEPT !.pc = "dead", !.outcome = "invalid"]]
  /\ UNCHANGED <<server, files, lock, provider, process>>

Forget(p) ==
  /\ disk' = None
  /\ kind' = "missing"
  /\ mem' = [mem EXCEPT ![p] = None]
  /\ echoes' = [echoes EXCEPT ![p] = {}]

(* Mutation: a dead grant is flagged but its tokens are kept.              *)
KeepTokens(f) ==
  /\ At(f, "dead")
  /\ flow' = [flow EXCEPT ![f].pc = "marking"]
  /\ UNCHANGED <<server, files, lock, provider, process>>

(* (5) clearTokensAndMarkNeedsReconnect: delete the file, ...              *)
ClearTokens(f) ==
  /\ At(f, "dead")
  /\ Forget(Owner[f])
  /\ flow' = [flow EXCEPT ![f].pc = "marking"]
  /\ UNCHANGED <<server, marker, lock, rejected, process>>

(* ... write the marker.                                                   *)
MarkNeedsReconnect(f) ==
  /\ At(f, "marking")
  /\ marker' = "set"
  /\ flow' = [flow EXCEPT ![f].pc = "releasing"]
  /\ UNCHANGED <<server, disk, kind, lock, provider, process>>
-----------------------------------------------------------------------------
(* What the SDK does with the answer, outside the lock.                    *)

(* saveTokens: read the disk, and skip what it already captures.  An answer*)
(* built from the disk states the lifetime that remains, so it may differ  *)
(* from what it was built from.                                            *)
SaveTokens(f) ==
  LET p      == Owner[f]
      in     == Incoming(f)
      merged == Merge(p, in)
      stored == OnDisk(p) # None
  IN  /\ At(f, "saving")
      /\ \/ /\ stored
            /\ merged = OnDisk(p) \/ StaleEcho(p, in)
            /\ mem' = [mem EXCEPT ![p] = OnDisk(p)]
            /\ echoes' = [echoes EXCEPT ![p] =
                 IF merged # OnDisk(p) THEN @ \ {in} ELSE @]
            /\ flow' = [flow EXCEPT ![f] = Idle]
         \/ /\ stored => merged # OnDisk(p) \/ in \notin echoes[p]
            /\ stored => ~StaleEcho(p, in)
            /\ flow' = [flow EXCEPT ![f] =
                 [@ EXCEPT !.pc = "overwriting", !.result = merged]]
            /\ UNCHANGED <<mem, echoes>>
      /\ UNCHANGED <<server, files, lock, rejected, process>>

(* The write of saveTokens; a failure is only logged.                      *)
Overwrite(f) ==
  /\ At(f, "overwriting")
  /\ \/ WriteTokens(Owner[f], flow[f].result)
     \/ "persist" \in Events /\ UNCHANGED <<disk, kind, mem>>
  /\ flow' = [flow EXCEPT ![f] = Idle]
  /\ UNCHANGED <<server, marker, lock, echoes, rejected, process>>

(* After invalidating, the SDK tries once more.                            *)
Again(f) == [flow EXCEPT ![f] = [@ EXCEPT !.pc = "unauthorized", !.round = 2]]

(* invalidateTokensRefreshOnly: read the disk, ...                         *)
Invalidate(f) ==
  /\ At(f, "invalidating")
  /\ IF disk = None
       THEN /\ mem' = [mem EXCEPT ![Owner[f]] = None]
            /\ flow' = Again(f)
       ELSE /\ mem' = mem
            /\ flow' = [flow EXCEPT ![f].pc = "checking"]
  /\ UNCHANGED <<server, files, lock, echoes, rejected, process>>

(* ... look for the marker, keep the tokens without it, ...                *)
CheckMarker(f) ==
  /\ At(f, "checking")
  /\ flow' = IF marker = "set" THEN [flow EXCEPT ![f].pc = "discarding"] ELSE Again(f)
  /\ UNCHANGED <<server, files, lock, provider, process>>

(* ... invalidateCredentials("tokens") with it.                            *)
Discard(f) ==
  /\ At(f, "discarding")
  /\ Forget(Owner[f])
  /\ flow' = Again(f)
  /\ UNCHANGED <<server, marker, lock, rejected, process>>
-----------------------------------------------------------------------------
(* A browser sign-in: finishOAuth, with a provider of its own.             *)

(* The code is exchanged for a new grant.                                  *)
SignIn(f) ==
  /\ "signin" \in Events /\ issued < MaxIssued
  /\ At(f, "idle") /\ proc[Owner[f]] # "down"
  /\ issued' = issued + 1
  /\ grants' = grants \cup {issued + 1}
  /\ alive' = alive \cup {issued + 1}
  /\ flow' = [flow EXCEPT ![f] =
       [Idle EXCEPT !.pc = "signed",
                    !.result = [access |-> issued + 1, refresh |-> issued + 1]]]
  /\ UNCHANGED <<files, lock, provider, process>>

(* saveTokens: the set is new, so nothing is skipped or merged; a failure is*)
(* only logged.                                                            *)
StoreSignIn(f) ==
  /\ At(f, "signed")
  /\ \/ disk' = flow[f].result /\ kind' = "fresh"
     \/ "persist" \in Events /\ UNCHANGED <<disk, kind>>
  /\ flow' = [flow EXCEPT ![f].pc = "welcome"]
  /\ UNCHANGED <<server, marker, lock, provider, process>>

(* clearNeedsReconnectMarker.                                              *)
FinishSignIn(f) ==
  /\ At(f, "welcome")
  /\ marker' = "clear"
  /\ flow' = [flow EXCEPT ![f] = Idle]
  /\ UNCHANGED <<server, disk, kind, lock, provider, process>>
-----------------------------------------------------------------------------
(* The server's tokens end.                                                *)

(* The stored access token ends, in date or not.                           *)
AccessEnds ==
  /\ QuietExpiry => \A f \in Flow : At(f, "idle")
  /\ disk.access \in alive
  /\ alive' = alive \ {disk.access}
  /\ kind' \in {kind, "stale"}
  /\ UNCHANGED <<issued, grants, disk, marker, lock, flow, provider, process>>

(* The user or the server withdraws a grant.                               *)
Revoke ==
  /\ "revoke" \in Events
  /\ \E t \in grants : grants' = grants \ {t} /\ alive' = alive \ {t}
  /\ UNCHANGED <<issued, files, lock, flow, provider, process>>
-----------------------------------------------------------------------------
(* Processes come and go.                                                  *)

(* drainRefreshesForShutdown: refuse new refreshes, await those under way. *)
BeginShutdown(p) ==
  /\ proc[p] = "up"
  /\ proc' = [proc EXCEPT ![p] = "draining"]
  /\ awaited' = [awaited EXCEPT ![p] = {chain[p][i] : i \in 1..Len(chain[p])}]
  /\ UNCHANGED <<server, files, lock, flow, provider, chain>>

Die(p) ==
  /\ proc' = [proc EXCEPT ![p] = "down"]
  /\ flow' = [f \in Flow |-> IF Owner[f] = p THEN Idle ELSE flow[f]]
  /\ chain' = [chain EXCEPT ![p] = <<>>]
  /\ awaited' = [awaited EXCEPT ![p] = {}]
  /\ echoes' = [echoes EXCEPT ![p] = {}]
  /\ mem' = [mem EXCEPT ![p] = None]
  /\ rejected' = [rejected EXCEPT ![p] = 0]
  /\ UNCHANGED <<server, files>>

(* Mutation: the drain is not awaited.                                     *)
NotAwaited(p) == TRUE

(* The drain is over: settled, or out of time.                             *)
Drained(p) == awaited[p] = {} \/ "slow" \in Events

(* process.exit: the lock library removes the directories it made.         *)
Exit(p) ==
  /\ proc[p] = "draining" /\ Drained(p)
  /\ lock' = IF lock # Nobody /\ Owner[lock] = p THEN Nobody ELSE lock
  /\ Die(p)

(* Killed: the directory stays.                                            *)
Crash(p) ==
  /\ "crash" \in Events /\ proc[p] # "down"
  /\ lock' = lock
  /\ Die(p)

(* Started again: the provider loads the tokens.                           *)
Restart(p) ==
  /\ proc[p] = "down"
  /\ proc' = [proc EXCEPT ![p] = "up"]
  /\ mem' = [mem EXCEPT ![p] = disk]
  /\ UNCHANGED <<server, files, lock, flow, echoes, rejected, chain, awaited>>
-----------------------------------------------------------------------------
(* The user has signed in once.                                            *)
Init ==
  /\ issued = 1 /\ grants = {1} /\ alive = {1}
  /\ disk = [access |-> 1, refresh |-> 1] /\ kind = "fresh" /\ marker = "clear"
  /\ lock = Nobody
  /\ flow = [f \in Flow |-> Idle]
  /\ chain = [p \in Proc |-> <<>>]
  /\ mem = [p \in Proc |-> disk]
  /\ echoes = [p \in Proc |-> {}]
  /\ rejected = [p \in Proc |-> 0]
  /\ proc = [p \in Proc |-> "up"]
  /\ awaited = [p \in Proc |-> {}]

Client(f) == Request(f) \/ Served(f) \/ Refused(f) \/ Enqueue(f)

Locking(f) ==
  EnsureLockTarget(f) \/ Acquire(f) \/ LockBusy(f) \/ LockLost(f) \/ Release(f)

Transaction(f) ==
  \/ ReadUnderLock(f) \/ MergeRotated(f) \/ UnusableBody(f)
  \/ PersistRotated(f) \/ PersistFails(f) \/ ClearMarker(f)
  \/ Recheck(f) \/ ClearTokens(f) \/ MarkNeedsReconnect(f)

Answer(f) == ServerGrants(f) \/ ServerDenies(f) \/ ServerErrs(f)

Afterwards(f) ==
  \/ SaveTokens(f) \/ Overwrite(f)
  \/ Invalidate(f) \/ CheckMarker(f) \/ Discard(f)

Sign(f) == SignIn(f) \/ StoreSignIn(f) \/ FinishSignIn(f)

Life(p) == BeginShutdown(p) \/ Exit(p) \/ Crash(p) \/ Restart(p)

Next ==
  \/ \E f \in Flow : Client(f) \/ Locking(f) \/ Transaction(f) \/ Answer(f)
                       \/ Afterwards(f) \/ Sign(f)
  \/ \E p \in Proc : Life(p)
  \/ AccessEnds
  \/ Revoke

Spec == Init /\ [][Next]_vars

(* What a flow does of itself, once a request has begun it.                *)
Proceed(f) ==
  \/ Served(f) \/ Refused(f) \/ Enqueue(f)
  \/ Locking(f) \/ Transaction(f) \/ Answer(f) \/ Afterwards(f)

(* Every step of a flow is an await the runtime comes back from; the lock  *)
(* library gives up after its retries, requests have timeouts.             *)
Fairness == \A f \in Flow : WF_vars(Proceed(f))

FairSpec == Spec /\ Fairness
-----------------------------------------------------------------------------
(* The type invariant.                                                     *)
TypeOK ==
  /\ issued \in Nat
  /\ grants \subseteq Nat
  /\ alive \subseteq Nat
  /\ disk \in Tokens
  /\ kind \in {"missing", "empty", "fresh", "stale"}
  /\ marker \in {"set", "clear"}
  /\ lock \in Flow \cup {Nobody}
  /\ flow \in [Flow -> FlowRecord]
  /\ chain \in [Proc -> Seq(Flow)]
  /\ mem \in [Proc -> Tokens]
  /\ echoes \in [Proc -> SUBSET Tokens]
  /\ rejected \in [Proc -> Nat]
  /\ proc \in [Proc -> {"up", "draining", "down"}]
  /\ awaited \in [Proc -> SUBSET Flow]

(* One transaction at a time: no two flows, of one process or of two, are  *)
(* between reading the disk and releasing the lock.                        *)
OneTransactionAtATime ==
  \A f, g \in Flow :
    flow[f].pc \in Critical /\ flow[g].pc \in Critical => f = g

(* A refresh token is single-use: none is presented that was presented with*)
(* success before, whoever else refreshes, saves or signs in meanwhile,    *)
(* unless what it was exchanged for was lost and the user is told.         *)
SingleUse ==
  \A f \in Flow :
    flow[f].pc = "sent" => flow[f].token \in grants \/ marker = "set"

(* No refresh token is used up while the access token on disk, perhaps a   *)
(* peer's, is one the server accepts.                                      *)
NoNeedlessRotation ==
  [][\A f \in Flow :
       flow[f].pc # "sent" /\ flow'[f].pc = "sent" => disk.access \notin alive]_vars

(* A token write of the program never puts a refresh token the server no   *)
(* longer honours in the place of one it does: late echoes of the SDK do   *)
(* not undo a rotation.                                                    *)
NoDowngrade ==
  [][disk.refresh \in grants /\ disk' # disk /\ disk' # None
       => disk'.refresh \in grants']_vars

(* No silent wedge: when the server does not honour the refresh token on   *)
(* disk, the reconnect marker says so, or a flow under way carries one it  *)
(* honours and will store it, or is about to write the marker.             *)
NoSilentWedge ==
  \/ disk.refresh \in grants \/ marker = "set"
  \/ \E f \in Flow : flow[f].pc \in {"denied", "dead", "marking"}
  \/ \E f \in Flow :
       /\ flow[f].pc \in {"granted", "writing", "overwriting", "signed"}
       /\ Incoming(f).refresh \in grants

(* Every refresh comes to an end, with a peer holding the lock, killed or  *)
(* asleep with it.                                                         *)
RefreshEnds(f) == flow[f].pc \in Queued ~> flow[f].pc \notin Queued \cup Critical

(* A refused refresh token does not stay on disk.                          *)
DeadTokenIsDropped(f, t) ==
  flow[f].pc = "denied" /\ flow[f].token = t ~> disk.refresh # t
=============================================================================
