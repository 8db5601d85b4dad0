-------------------------- MODULE TokenRotationProofs -------------------------
(***************************************************************************)
(* What becomes of the rotating tokens themselves: theorems about          *)
(* TokenRefresh for any processes and requests, in the scope in which its  *)
(* runs check the same properties.  TokenRefreshProofs has the types and   *)
(* the mutual exclusion these proofs rest on.                              *)
(***************************************************************************)
EXTENDS TokenRefreshProofs

(* The request f is replaced by one with these fields, no other changes.   *)
Becomes(f, pc, bearer, refused, token, result, outcome) ==
  /\ flow'[f].pc = pc
  /\ flow'[f].bearer = bearer
  /\ flow'[f].rejected = refused
  /\ flow'[f].token = token
  /\ flow'[f].result = result
  /\ flow'[f].outcome = outcome
  /\ \A g \in Flow \ {f} : flow'[g] = flow[g]

(* It goes on to another stage, ends, or fails.                            *)
Moves(f, pc) ==
  Becomes(f, pc, flow[f].bearer, flow[f].rejected, flow[f].token, flow[f].result,
          flow[f].outcome)

Ends(f) == Becomes(f, "idle", 0, 0, 0, None, "error")

Turns(f, pc, outcome) ==
  Becomes(f, pc, flow[f].bearer, flow[f].rejected, flow[f].token, flow[f].result, outcome)

(* It is answered with a set of tokens.                                    *)
Gets(f, pc, result, outcome) ==
  Becomes(f, pc, flow[f].bearer, flow[f].rejected, flow[f].token, result, outcome)

-----------------------------------------------------------------------------
(* What each action does to the request it is about.                       *)

LEMMA EndsIdle ==
  ASSUME TypeOK, NEW f \in Flow, flow' = [flow EXCEPT ![f] = Idle]
  PROVE  Ends(f)
BY DEF Ends, Becomes, Idle, TypeOK

LEMMA Retold ==
  ASSUME TypeOK, NEW f \in Flow, NEW r, flow' = [flow EXCEPT ![f] = r]
  PROVE  flow'[f] = r /\ \A g \in Flow \ {f} : flow'[g] = flow[g]
BY DEF TypeOK

LEMMA JustMoves ==
  ASSUME TypeOK, NEW f \in Flow, NEW pc, flow' = [flow EXCEPT ![f].pc = pc]
  PROVE  Moves(f, pc)
<1>1. flow[f] \in FlowRecord
  BY DEF TypeOK
<1> QED
  BY <1>1 DEF Moves, Becomes, TypeOK, FlowRecord

LEMMA JustTurns ==
  ASSUME TypeOK, NEW f \in Flow, NEW pc, NEW outcome,
         flow' = [flow EXCEPT ![f] = [@ EXCEPT !.pc = pc, !.outcome = outcome]]
  PROVE  Turns(f, pc, outcome)
<1> DEFINE r == [flow[f] EXCEPT !.pc = pc, !.outcome = outcome]
<1>1. flow[f] \in FlowRecord
  BY DEF TypeOK
<1>2. /\ r.pc = pc /\ r.bearer = flow[f].bearer /\ r.rejected = flow[f].rejected
      /\ r.token = flow[f].token /\ r.result = flow[f].result /\ r.outcome = outcome
  BY <1>1 DEF FlowRecord
<1>3. flow' = [flow EXCEPT ![f] = r]
  OBVIOUS
<1> HIDE DEF r
<1> QED
  BY <1>2, <1>3, Retold DEF Turns, Becomes

LEMMA ClientMoves ==
  ASSUME TypeOK, NEW f \in Flow
  PROVE  /\ Request(f) =>
              Becomes(f, "requested", OnDisk(Owner[f]).access, 0, 0, None, "error")
         /\ Served(f) => Ends(f)
         /\ Refused(f) => Moves(f, "unauthorized")
         /\ Enqueue(f) =>
              \/ Ends(f)
              \/ Becomes(f, "queued", flow[f].bearer, rejected[Owner[f]],
                         OnDisk(Owner[f]).refresh, flow[f].result, flow[f].outcome)
<1> DEFINE p == Owner[f]
<1>0. flow[f] \in FlowRecord
  BY DEF TypeOK
<1>1. ASSUME Request(f)
      PROVE  Becomes(f, "requested", OnDisk(p).access, 0, 0, None, "error")
  <2> DEFINE r == [Idle EXCEPT !.pc = "requested", !.bearer = OnDisk(p).access]
  <2>1. flow' = [flow EXCEPT ![f] = r]
    BY <1>1 DEF Request
  <2>2. /\ r.pc = "requested" /\ r.bearer = OnDisk(p).access /\ r.rejected = 0
        /\ r.token = 0 /\ r.result = None /\ r.outcome = "error"
    BY DEF Idle
  <2> HIDE DEF r
  <2> QED
    BY <2>1, <2>2, Retold DEF Becomes
<1>2. Served(f) => Ends(f)
  BY EndsIdle DEF Served
<1>3. Refused(f) => Moves(f, "unauthorized")
  BY JustMoves DEF Refused
<1>4. ASSUME Enqueue(f)
      PROVE  \/ Ends(f)
             \/ Becomes(f, "queued", flow[f].bearer, rejected[p],
                        OnDisk(p).refresh, flow[f].result, flow[f].outcome)
  <2> DEFINE r == [flow[f] EXCEPT !.pc = "queued", !.token = OnDisk(p).refresh,
                                  !.rejected = rejected[p], !.tries = 0]
  <2>1. flow' = [flow EXCEPT ![f] = r] \/ flow' = [flow EXCEPT ![f] = Idle]
    BY <1>4 DEF Enqueue
  <2>2. /\ r.pc = "queued" /\ r.bearer = flow[f].bearer /\ r.rejected = rejected[p]
        /\ r.token = OnDisk(p).refresh /\ r.result = flow[f].result
        /\ r.outcome = flow[f].outcome
    BY <1>0 DEF FlowRecord
  <2> HIDE DEF r
  <2> QED
    BY <2>1, <2>2, Retold, EndsIdle DEF Becomes
<1> QED
  BY <1>1, <1>2, <1>3, <1>4

LEMMA LockingMoves ==
  ASSUME TypeOK, NEW f \in Flow
  PROVE  /\ EnsureLockTarget(f) => Moves(f, "locking")
         /\ Acquire(f) => Moves(f, "locked")
         /\ LockBusy(f) => Ends(f)
         /\ LockLost(f) => Turns(f, "releasing", "error")
         /\ Release(f) =>
              \/ flow[f].outcome = "ok" /\ Moves(f, "saving")
              \/ Moves(f, "invalidating")
              \/ Ends(f)
<1>0. flow[f] \in FlowRecord
  BY DEF TypeOK
<1>1. /\ EnsureLockTarget(f) => Moves(f, "locking")
      /\ Acquire(f) => Moves(f, "locked")
  BY JustMoves DEF EnsureLockTarget, Acquire
<1>4. LockLost(f) => Turns(f, "releasing", "error")
  BY JustTurns DEF LockLost, Fail
<1>2. LockBusy(f) => Ends(f)
  BY EndsIdle DEF LockBusy
<1>3. ASSUME Release(f)
      PROVE  \/ flow[f].outcome = "ok" /\ Moves(f, "saving")
             \/ Moves(f, "invalidating")
             \/ Ends(f)
  <2> DEFINE saving == [flow[f] EXCEPT !.pc = "saving"]
             invalidating == [flow[f] EXCEPT !.pc = "invalidating"]
  <2>1. \/ flow[f].outcome = "ok" /\ flow' = [flow EXCEPT ![f] = saving]
        \/ flow' = [flow EXCEPT ![f] = invalidating]
        \/ flow' = [flow EXCEPT ![f] = Idle]
    BY <1>3 DEF Release
  <2>2. ASSUME NEW pc, flow' = [flow EXCEPT ![f] = [flow[f] EXCEPT !.pc = pc]]
        PROVE  Moves(f, pc)
    BY <2>2, JustMoves
  <2> QED
    BY <2>1, <2>2, EndsIdle
<1> QED
  BY <1>1, <1>2, <1>3, <1>4

LEMMA TransactionMoves ==
  ASSUME TypeOK, NEW f \in Flow
  PROVE  /\ ReadUnderLock(f) =>
              \/ Usable(f) /\ Gets(f, "unmarking", disk, "ok")
              \/ ~Usable(f) /\ Becomes(f, "sent", flow[f].bearer, flow[f].rejected,
                                       TokenToSend(f), flow[f].result, flow[f].outcome)
         /\ MergeRotated(f) =>
              Gets(f, "writing", Merge(Owner[f], flow[f].result), flow[f].outcome)
         /\ UnusableBody(f) => Turns(f, "dead", "error")
         /\ PersistRotated(f) => Turns(f, "unmarking", "ok")
         /\ PersistFails(f) => Turns(f, "dead", "error")
         /\ ClearMarker(f) => Moves(f, "releasing")
         /\ Recheck(f) =>
              \/ PeerRotated(f) /\ Gets(f, "unmarking", disk, "ok")
              \/ Moves(f, "denied")
              \/ Turns(f, "dead", "invalid")
         /\ ClearTokens(f) => Moves(f, "marking")
         /\ MarkNeedsReconnect(f) => Moves(f, "releasing")
<1>0. flow[f] \in FlowRecord
  BY DEF TypeOK
<1>1. ASSUME ReadUnderLock(f)
      PROVE  \/ Usable(f) /\ Gets(f, "unmarking", disk, "ok")
             \/ ~Usable(f) /\ Becomes(f, "sent", flow[f].bearer, flow[f].rejected,
                                      TokenToSend(f), flow[f].result, flow[f].outcome)
  <2> DEFINE r1 == [flow[f] EXCEPT !.pc = "unmarking", !.result = disk, !.outcome = "ok"]
             r2 == [flow[f] EXCEPT !.pc = "sent", !.token = TokenToSend(f)]
  <2>1. \/ Usable(f) /\ flow' = [flow EXCEPT ![f] = r1]
        \/ ~Usable(f) /\ flow' = [flow EXCEPT ![f] = r2]
    BY <1>1 DEF ReadUnderLock
  <2>2. /\ r1.pc = "unmarking" /\ r1.bearer = flow[f].bearer
        /\ r1.rejected = flow[f].rejected /\ r1.token = flow[f].token
        /\ r1.result = disk /\ r1.outcome = "ok"
    BY <1>0 DEF FlowRecord
  <2>3. /\ r2.pc = "sent" /\ r2.bearer = flow[f].bearer
        /\ r2.rejected = flow[f].rejected /\ r2.token = TokenToSend(f)
        /\ r2.result = flow[f].result /\ r2.outcome = flow[f].outcome
    BY <1>0 DEF FlowRecord
  <2> HIDE DEF r1, r2
  <2> QED
    BY <2>1, <2>2, <2>3, Retold DEF Gets, Becomes
<1>2. ASSUME MergeRotated(f)
      PROVE  Gets(f, "writing", Merge(Owner[f], flow[f].result), flow[f].outcome)
  <2> DEFINE m == Merge(Owner[f], flow[f].result)
             r == [flow[f] EXCEPT !.pc = "writing", !.result = m]
  <2>1. flow' = [flow EXCEPT ![f] = r]
    BY <1>2 DEF MergeRotated
  <2> HIDE DEF m
  <2>2. /\ r.pc = "writing" /\ r.bearer = flow[f].bearer /\ r.rejected = flow[f].rejected
        /\ r.token = flow[f].token /\ r.result = m /\ r.outcome = flow[f].outcome
    BY <1>0 DEF FlowRecord
  <2> HIDE DEF r
  <2>3. Gets(f, "writing", m, flow[f].outcome)
    BY <2>1, <2>2, Retold DEF Gets, Becomes
  <2> QED
    BY <2>3 DEF m
<1>3. /\ UnusableBody(f) => Turns(f, "dead", "error")
      /\ PersistRotated(f) => Turns(f, "unmarking", "ok")
      /\ PersistFails(f) => Turns(f, "dead", "error")
  BY JustTurns DEF UnusableBody, PersistRotated, PersistFails
<1>4. /\ ClearMarker(f) => Moves(f, "releasing")
      /\ ClearTokens(f) => Moves(f, "marking")
      /\ MarkNeedsReconnect(f) => Moves(f, "releasing")
  BY JustMoves DEF ClearMarker, ClearTokens, MarkNeedsReconnect
<1>5. ASSUME Recheck(f)
      PROVE  \/ PeerRotated(f) /\ Gets(f, "unmarking", disk, "ok")
             \/ Moves(f, "denied")
             \/ Turns(f, "dead", "invalid")
  <2> DEFINE r1 == [flow[f] EXCEPT !.pc = "unmarking", !.result = disk, !.outcome = "ok"]
             r2 == [flow[f] EXCEPT !.tries = flow[f].tries + 1]
             r3 == [flow[f] EXCEPT !.pc = "dead", !.outcome = "invalid"]
  <2>1. \/ PeerRotated(f) /\ flow' = [flow EXCEPT ![f] = r1]
        \/ flow' = [flow EXCEPT ![f] = r2]
        \/ flow' = [flow EXCEPT ![f] = r3]
    BY <1>5 DEF Recheck
  <2>2. /\ r1.pc = "unmarking" /\ r1.bearer = flow[f].bearer
        /\ r1.rejected = flow[f].rejected /\ r1.token = flow[f].token
        /\ r1.result = disk /\ r1.outcome = "ok"
    BY <1>0 DEF FlowRecord
  <2>3. flow[f].pc = "denied"
    BY <1>5 DEF Recheck, At
  <2>4. /\ r2.pc = "denied" /\ r2.bearer = flow[f].bearer
        /\ r2.rejected = flow[f].rejected /\ r2.token = flow[f].token
        /\ r2.result = flow[f].result /\ r2.outcome = flow[f].outcome
    BY <1>0, <2>3 DEF FlowRecord
  <2>5. /\ r3.pc = "dead" /\ r3.bearer = flow[f].bearer
        /\ r3.rejected = flow[f].rejected /\ r3.token = flow[f].token
        /\ r3.result = flow[f].result /\ r3.outcome = "invalid"
    BY <1>0 DEF FlowRecord
  <2> HIDE DEF r1, r2, r3
  <2> QED
    BY <2>1, <2>2, <2>4, <2>5, Retold DEF Gets, Moves, Turns, Becomes
<1> QED
  BY <1>1, <1>2, <1>3, <1>4, <1>5

LEMMA AnswerMoves ==
  ASSUME TypeOK, NEW f \in Flow
  PROVE  /\ ServerGrants(f) =>
              \E refresh \in {0, issued + 1} :
                /\ refresh = 0 => "keep" \in Events
                /\ grants' = IF refresh = 0 THEN grants
                             ELSE (grants \ {flow[f].token}) \cup {refresh}
                /\ \/ Gets(f, "granted", [access |-> issued + 1, refresh |-> refresh],
                           flow[f].outcome)
                   \/ "lost" \in Events /\ Turns(f, "releasing", "error")
         /\ ServerDenies(f) => Moves(f, "denied")
         /\ ServerErrs(f) => Turns(f, "releasing", "error")
<1>0. flow[f] \in FlowRecord
  BY DEF TypeOK
<1>1. ASSUME Fail(f) PROVE Turns(f, "releasing", "error")
  BY <1>1, JustTurns DEF Fail
<1>2. ASSUME NEW t,
             flow' = [flow EXCEPT ![f] = [flow[f] EXCEPT !.pc = "granted", !.result = t]]
      PROVE  Gets(f, "granted", t, flow[f].outcome)
  BY <1>0, <1>2 DEF Gets, Becomes, TypeOK, FlowRecord
<1>3. ASSUME ServerGrants(f)
      PROVE  \E refresh \in {0, issued + 1} :
               /\ refresh = 0 => "keep" \in Events
               /\ grants' = IF refresh = 0 THEN grants
                            ELSE (grants \ {flow[f].token}) \cup {refresh}
               /\ \/ Gets(f, "granted", [access |-> issued + 1, refresh |-> refresh],
                          flow[f].outcome)
                  \/ "lost" \in Events /\ Turns(f, "releasing", "error")
  <2>1. PICK refresh \in {0, issued + 1} :
          /\ refresh = 0 => "keep" \in Events
          /\ grants' = IF refresh = 0 THEN grants
                       ELSE (grants \ {flow[f].token}) \cup {refresh}
          /\ \/ flow' = [flow EXCEPT ![f] =
                  [flow[f] EXCEPT !.pc = "granted",
                       !.result = [access |-> issued + 1, refresh |-> refresh]]]
             \/ "lost" \in Events /\ Fail(f)
    BY <1>3 DEF ServerGrants
  <2> QED
    BY <2>1, <1>1, <1>2
<1>4. ServerDenies(f) => Moves(f, "denied")
  BY JustMoves DEF ServerDenies
<1>5. ServerErrs(f) => Turns(f, "releasing", "error")
  BY <1>1 DEF ServerErrs
<1> QED
  BY <1>3, <1>4, <1>5

LEMMA AfterwardsMoves ==
  ASSUME TypeOK, NEW f \in Flow
  PROVE  /\ SaveTokens(f) =>
              \/ Ends(f)
              \/ Gets(f, "overwriting", Merge(Owner[f], Incoming(f)), flow[f].outcome)
         /\ Overwrite(f) => Ends(f)
         /\ Invalidate(f) => Moves(f, "unauthorized") \/ Moves(f, "checking")
         /\ CheckMarker(f) =>
              \/ Moves(f, "unauthorized")
              \/ marker = "set" /\ Moves(f, "discarding")
         /\ Discard(f) => Moves(f, "unauthorized")
<1>0. flow[f] \in FlowRecord
  BY DEF TypeOK
<1>1. ASSUME Again(f) = flow' PROVE Moves(f, "unauthorized")
  <2> DEFINE r == [flow[f] EXCEPT !.pc = "unauthorized", !.round = 2]
  <2>1. flow' = [flow EXCEPT ![f] = r]
    BY <1>1 DEF Again
  <2>2. /\ r.pc = "unauthorized" /\ r.bearer = flow[f].bearer
        /\ r.rejected = flow[f].rejected /\ r.token = flow[f].token
        /\ r.result = flow[f].result /\ r.outcome = flow[f].outcome
    BY <1>0 DEF FlowRecord
  <2> HIDE DEF r
  <2> QED
    BY <2>1, <2>2, Retold DEF Moves, Becomes
<1>2. ASSUME NEW pc, flow' = [flow EXCEPT ![f].pc = pc] PROVE Moves(f, pc)
  BY <1>2, JustMoves
<1>3. ASSUME SaveTokens(f)
      PROVE  \/ Ends(f)
             \/ Gets(f, "overwriting", Merge(Owner[f], Incoming(f)), flow[f].outcome)
  <2> DEFINE m == Merge(Owner[f], Incoming(f))
             r == [flow[f] EXCEPT !.pc = "overwriting", !.result = m]
  <2>1. flow' = [flow EXCEPT ![f] = r] \/ flow' = [flow EXCEPT ![f] = Idle]
    BY <1>3 DEF SaveTokens
  <2> HIDE DEF m
  <2>2. /\ r.pc = "overwriting" /\ r.bearer = flow[f].bearer
        /\ r.rejected = flow[f].rejected /\ r.token = flow[f].token
        /\ r.result = m /\ r.outcome = flow[f].outcome
    BY <1>0 DEF FlowRecord
  <2> HIDE DEF r
  <2>3. Ends(f) \/ Gets(f, "overwriting", m, flow[f].outcome)
    BY <2>1, <2>2, Retold, EndsIdle DEF Gets, Becomes
  <2> QED
    BY <2>3 DEF m
<1>4. Overwrite(f) => Ends(f)
  BY EndsIdle DEF Overwrite
<1>5. Invalidate(f) => Moves(f, "unauthorized") \/ Moves(f, "checking")
  BY <1>1, <1>2 DEF Invalidate
<1>6. CheckMarker(f) =>
        Moves(f, "unauthorized") \/ (marker = "set" /\ Moves(f, "discarding"))
  BY <1>1, <1>2 DEF CheckMarker
<1>7. Discard(f) => Moves(f, "unauthorized")
  BY <1>1 DEF Discard
<1> QED
  BY <1>3, <1>4, <1>5, <1>6, <1>7

LEMMA SignMoves ==
  ASSUME TypeOK, NEW f \in Flow
  PROVE  /\ SignIn(f) =>
              Becomes(f, "signed", 0, 0, 0,
                      [access |-> issued + 1, refresh |-> issued + 1], "error")
         /\ StoreSignIn(f) => Moves(f, "welcome")
         /\ FinishSignIn(f) => Ends(f)
<1>0. flow[f] \in FlowRecord
  BY DEF TypeOK
<1>1. ASSUME SignIn(f)
      PROVE  Becomes(f, "signed", 0, 0, 0,
                     [access |-> issued + 1, refresh |-> issued + 1], "error")
  <2> DEFINE t == [access |-> issued + 1, refresh |-> issued + 1]
             r == [Idle EXCEPT !.pc = "signed", !.result = t]
  <2>1. flow' = [flow EXCEPT ![f] = r]
    BY <1>1 DEF SignIn
  <2> HIDE DEF t
  <2>2. /\ r.pc = "signed" /\ r.bearer = 0 /\ r.rejected = 0 /\ r.token = 0
        /\ r.result = t /\ r.outcome = "error"
    BY DEF Idle
  <2> HIDE DEF r
  <2>3. Becomes(f, "signed", 0, 0, 0, t, "error")
    BY <2>1, <2>2, Retold DEF Becomes
  <2> QED
    BY <2>3 DEF t
<1>2. StoreSignIn(f) => Moves(f, "welcome")
  BY JustMoves DEF StoreSignIn
<1>3. FinishSignIn(f) => Ends(f)
  BY EndsIdle DEF FinishSignIn
<1> QED
  BY <1>1, <1>2, <1>3
-----------------------------------------------------------------------------
(* No needless rotation.                                                   *)

(* What the token file is goes with what it holds.                         *)
FileInStep ==
  /\ kind \in {"missing", "empty"} => disk = None
  /\ disk.access \in alive => kind = "fresh"

(* The tokens are numbered as far as the server has issued them.           *)
Known == [access : 0..issued, refresh : 0..issued]

Numbered ==
  /\ grants \subseteq 1..issued
  /\ alive \subseteq 1..issued
  /\ disk \in Known
  /\ \A p \in Proc : mem[p] \in Known /\ rejected[p] \in 0..issued

(* An access token a request noted as refused does not come back, and the  *)
(* one on disk is that one, or none, or one the server accepts.            *)
Refusal(t) == t \notin alive /\ disk.access \in alive \cup {0, t}

(* The requests that have been refused, and those with an answer to store. *)
Asked == Stages \ {"idle", "requested", "signed", "welcome"}

Done(r) ==
  \/ r.pc \in {"unmarking", "saving", "overwriting"}
  \/ r.pc = "releasing" /\ r.outcome = "ok"

Carries(r) == Done(r) \/ r.pc \in {"granted", "writing", "signed"}

(* One request, whose process has noted the token refused.                 *)
InOrder(r, refused) ==
  /\ r.bearer \in 0..issued /\ r.rejected \in 0..issued /\ r.token \in 0..issued
  /\ r.result \in Known
  /\ r.pc = "requested" => r.bearer \in alive \/ Refusal(r.bearer)
  /\ r.pc \in Asked => Refusal(refused)
  /\ r.pc \in Queued \cup Critical => Refusal(r.rejected)
  /\ Carries(r) => r.result.access \in alive
  /\ r.pc \in {"sent", "denied"} =>
       disk.access \in alive \cup {0} \/ disk.refresh \in {0, r.token}
  /\ r.pc \in {"dead", "marking"} => r.outcome # "ok"

FreshInv ==
  /\ FileInStep
  /\ Numbered
  /\ \A f \in Flow : InOrder(flow[f], rejected[Owner[f]])

(* What a step may do to the server's tokens and to the disk while requests *)
(* are under way.                                                          *)
Grows ==
  /\ \/ issued' = issued /\ alive' = alive
     \/ issued' = issued + 1 /\ alive' = alive \cup {issued + 1}
  /\ disk' = disk \/ disk'.access \in alive' \cup {0}

LEMMA RefusalStays ==
  ASSUME TypeOK, Numbered, Grows, NEW t \in 0..issued, Refusal(t)
  PROVE  Refusal(t)'
BY DEF TypeOK, Numbered, Grows, Refusal

LEMMA KnownGrows ==
  ASSUME TypeOK, Grows
  PROVE  /\ \A n \in 0..issued : n \in 0..issued'
         /\ \A t \in Known : t \in Known'
<1>1. \A n \in 0..issued : n \in 0..issued'
  BY DEF TypeOK, Grows
<1> QED
  BY <1>1 DEF Known

(* A request the step does not change stays in order.                      *)
LEMMA OrderStays ==
  ASSUME TypeOK, Numbered, Grows, NEW r, NEW p \in Proc,
         InOrder(r, rejected[p]), rejected'[p] = rejected[p] \/ Refusal(rejected[p])'
  PROVE  InOrder(r, rejected[p])'
<1>1. r.bearer \in 0..issued /\ r.rejected \in 0..issued
  BY DEF InOrder
<1>2. ASSUME NEW t \in alive PROVE t \in alive'
  BY DEF Grows
<1>3. /\ r.bearer \in 0..issued' /\ r.rejected \in 0..issued' /\ r.token \in 0..issued'
      /\ r.result \in Known'
  BY KnownGrows DEF InOrder
<1>4. r.pc = "requested" => r.bearer \in alive' \/ Refusal(r.bearer)'
  BY <1>1, <1>2, RefusalStays DEF InOrder
<1>5. r.pc \in Asked => Refusal(rejected[p])'
  <2>1. rejected[p] \in 0..issued /\ (r.pc \in Asked => Refusal(rejected[p]))
    BY DEF Numbered, InOrder
  <2>2. ASSUME NEW t, t = rejected[p], t = rejected'[p], r.pc \in Asked
        PROVE  Refusal(rejected[p])'
    <3>1. Refusal(t)'
      BY <2>1, <2>2, RefusalStays
    <3> QED
      BY <2>2, <3>1 DEF Refusal
  <2> QED
    BY <2>2
<1>6. r.pc \in Queued \cup Critical => Refusal(r.rejected)'
  BY <1>1, RefusalStays DEF InOrder
<1>7. Carries(r) => r.result.access \in alive'
  BY <1>2 DEF InOrder
<1>8. r.pc \in {"sent", "denied"} =>
        disk'.access \in alive' \cup {0} \/ disk'.refresh \in {0, r.token}
  BY <1>2 DEF InOrder, Grows
<1> QED
  BY <1>3, <1>4, <1>5, <1>6, <1>7, <1>8 DEF InOrder, Carries, Done

(* A step of one request, told as what it does to that request, to the     *)
(* server and to the disk.                                                 *)
LEMMA FreshStep ==
  ASSUME TypeOK, FreshInv, Grows, FileInStep', Numbered',
         NEW f \in Flow, \A g \in Flow \ {f} : flow'[g] = flow[g],
         \A p \in Proc : rejected'[p] = rejected[p] \/ Refusal(rejected[p])',
         InOrder(flow[f], rejected[Owner[f]])' 
  PROVE  FreshInv'
<1> SUFFICES ASSUME NEW g \in Flow, g # f
             PROVE  InOrder(flow[g], rejected[Owner[g]])'
  BY DEF FreshInv
<1>1. flow'[g] = flow[g] /\ Owner[g] \in Proc
  BY TokenAssumption
<1>2. InOrder(flow[g], rejected[Owner[g]]) /\ Numbered
  BY DEF FreshInv
<1>3. ASSUME NEW t, t = flow[g] PROVE InOrder(t, rejected[Owner[g]])'
  BY <1>1, <1>2, <1>3, OrderStays
<1> QED
  BY <1>1, <1>3

(* What the tokens read, merged and saved are.                             *)
LEMMA ReadsKnown ==
  ASSUME TypeOK, FreshInv, NEW f \in Flow
  PROVE  /\ Owner[f] \in Proc
         /\ OnDisk(Owner[f]) \in Known
         /\ disk.access \in {0, OnDisk(Owner[f]).access}
         /\ disk.refresh # 0 => OnDisk(Owner[f]) = disk
         /\ TokenToSend(f) \in 0..issued
         /\ Incoming(f) \in Known /\ Incoming(f).access = flow[f].result.access
         /\ flow[f].result.refresh # 0 => Incoming(f).refresh = flow[f].result.refresh
         /\ \A in \in Known : Merge(Owner[f], in) \in Known
         /\ \A in \in Known : Merge(Owner[f], in).access = in.access
         /\ \A in \in Known : in.refresh # 0 => Merge(Owner[f], in).refresh = in.refresh
<1> DEFINE p == Owner[f]
<1>1. p \in Proc
  BY TokenAssumption
<1>2. InOrder(flow[f], rejected[p]) /\ Numbered /\ FileInStep
  BY DEF FreshInv
<1>3. disk \in Known /\ mem[p] \in Known
  BY <1>1, <1>2 DEF Numbered
<1>4. OnDisk(p) \in Known
  BY <1>3 DEF OnDisk
<1>5. kind = "empty" => disk = None
  BY <1>2 DEF FileInStep
<1>6. disk.access \in {0, OnDisk(p).access} /\ (disk.refresh # 0 => OnDisk(p) = disk)
  BY <1>5 DEF OnDisk, None
<1>7. flow[f].token \in 0..issued /\ flow[f].result \in Known
  BY <1>2 DEF InOrder
<1>8. TokenToSend(f) \in 0..issued
  BY <1>3, <1>7 DEF TokenToSend, Known
<1>9. /\ Incoming(f) \in Known /\ Incoming(f).access = flow[f].result.access
      /\ flow[f].result.refresh # 0 => Incoming(f).refresh = flow[f].result.refresh
  BY <1>7 DEF Incoming, Known
<1>10. \A in \in Known : Merge(p, in) \in Known
  BY <1>3, <1>4 DEF Merge, Known
<1>11. /\ \A in \in Known : Merge(p, in).access = in.access
       /\ \A in \in Known : in.refresh # 0 => Merge(p, in).refresh = in.refresh
  BY DEF Merge
<1> QED
  BY <1>1, <1>4, <1>6, <1>8, <1>9, <1>10, <1>11

(* A step that leaves the server and the tokens on disk as they are.       *)
LEMMA QuietStep ==
  ASSUME TypeOK, FreshInv,
         NEW f \in Flow, \A g \in Flow \ {f} : flow'[g] = flow[g],
         UNCHANGED <<issued, grants, alive, disk>>,
         kind' = kind \/ (kind = "missing" /\ kind' = "empty"),
         \A p \in Proc : mem'[p] \in Known,
         \A p \in Proc : rejected'[p] \in 0..issued,
         \A p \in Proc : rejected'[p] = rejected[p] \/ Refusal(rejected[p])',
         InOrder(flow[f], rejected[Owner[f]])'
  PROVE  FreshInv'
<1>1. Grows
  BY DEF Grows
<1>2. FileInStep'
  <2>1. FileInStep
    BY DEF FreshInv
  <2>2. disk.access \in alive => kind # "missing"
    BY <2>1 DEF FileInStep
  <2> QED
    BY <2>1, <2>2 DEF FileInStep
<1>3. Numbered'
  BY DEF FreshInv, Numbered, Known
<1> QED
  BY <1>1, <1>2, <1>3, FreshStep

(* A request that goes on with what it has.                                *)
LEMMA GoesOn ==
  ASSUME TypeOK, FreshInv, NEW f \in Flow, Grows, UNCHANGED rejected,
         NEW pc, NEW outcome, Turns(f, pc, outcome),
         pc # "requested",
         pc \in Asked => flow[f].pc \in Asked,
         pc \in Queued \cup Critical => flow[f].pc \in Queued \cup Critical,
         Carries([pc |-> pc, outcome |-> outcome]) => Carries(flow[f]),
         pc \in {"sent", "denied"} => flow[f].pc \in {"sent", "denied"},
         pc \in {"dead", "marking"} => outcome # "ok"
  PROVE  InOrder(flow[f], rejected[Owner[f]])'
<1>1. InOrder(flow[f], rejected[Owner[f]]) /\ Numbered /\ Owner[f] \in Proc
  BY TokenAssumption DEF FreshInv
<1>2. /\ flow'[f].pc = pc /\ flow'[f].outcome = outcome
      /\ flow'[f].bearer = flow[f].bearer /\ flow'[f].rejected = flow[f].rejected
      /\ flow'[f].token = flow[f].token /\ flow'[f].result = flow[f].result
  BY DEF Turns, Becomes
<1>3. Carries(flow[f])' => Carries(flow[f])
  BY <1>2 DEF Carries, Done
<1>4. ASSUME NEW r, r = flow[f] PROVE InOrder(flow[f], rejected[Owner[f]])'
  <2>1. InOrder(r, rejected[Owner[f]])'
    BY <1>1, <1>4, OrderStays
  <2>2. Carries(flow[f])' => Carries(r)
    BY <1>3, <1>4
  <2> QED
    BY <1>2, <1>4, <2>1, <2>2 DEF InOrder
<1> QED
  BY <1>4

(* A step that writes the token file, or removes it.                       *)
LEMMA FileStep ==
  ASSUME TypeOK, FreshInv,
         NEW f \in Flow, \A g \in Flow \ {f} : flow'[g] = flow[g],
         UNCHANGED <<issued, grants, alive, rejected>>,
         \/ disk' \in Known /\ disk'.access \in alive /\ kind' = "fresh"
         \/ disk' = None /\ kind' = "missing",
         \A p \in Proc : mem'[p] \in Known,
         InOrder(flow[f], rejected[Owner[f]])'
  PROVE  FreshInv' /\ Grows
<1>1. None \in Known /\ 0 \notin alive /\ disk'.access \in alive' \cup {0}
  BY DEF FreshInv, Numbered, Known, None, TypeOK
<1>2. Grows
  BY <1>1 DEF Grows
<1>3. FileInStep'
  BY <1>1 DEF FileInStep, None
<1>4. Numbered'
  BY <1>1 DEF FreshInv, Numbered, Known
<1> QED
  BY <1>2, <1>3, <1>4, FreshStep

LEMMA IdleInOrder ==
  ASSUME TypeOK, FreshInv, NEW f \in Flow, Ends(f), issued' \in Nat
  PROVE  InOrder(flow[f], rejected[Owner[f]])'
BY DEF Ends, Becomes, InOrder, Known, None, Asked, Carries, Done, Queued, Critical

-----------------------------------------------------------------------------
(* Each operation keeps FreshInv.                                          *)
LEMMA ClientFresh ==
  ASSUME TypeOK, FreshInv, NEW f \in Flow, Client(f)
  PROVE  FreshInv'
<1> DEFINE p == Owner[f]
<1> USE DEF server, files, provider, process, At
<1>0. /\ p \in Proc /\ OnDisk(p) \in Known
      /\ disk.access \in {0, OnDisk(p).access}
  BY ReadsKnown
<1>1. /\ InOrder(flow[f], rejected[p]) /\ issued \in Nat
      /\ \A q \in Proc : mem[q] \in Known /\ rejected[q] \in 0..issued
  BY DEF FreshInv, Numbered, TypeOK
<1>2. CASE Request(f)
  <2>1. Becomes(f, "requested", OnDisk(p).access, 0, 0, None, "error")
    BY <1>2, ClientMoves
  <2>2. \A q \in Proc : mem'[q] \in Known
    BY <1>0, <1>1, <1>2 DEF Request, TypeOK
  <2>3. InOrder(flow[f], rejected[p])'
    BY <1>0, <1>1, <1>2, <2>1 DEF Request, Becomes, InOrder, Known, None, Asked, Carries,
       Done, Queued, Critical, Refusal
  <2> QED
    BY <1>1, <1>2, <2>1, <2>2, <2>3, QuietStep DEF Request, Becomes
<1>3. CASE Served(f)
  <2>1. Ends(f)
    BY <1>3, ClientMoves
  <2>2. InOrder(flow[f], rejected[p])'
    BY <1>1, <1>3, <2>1, IdleInOrder DEF Served
  <2> QED
    BY <1>1, <1>3, <2>1, <2>2, QuietStep DEF Served, Ends, Becomes
<1>4. CASE Refused(f)
  <2>1. Moves(f, "unauthorized")
    BY <1>4, ClientMoves
  <2>2. flow[f].bearer \in 0..issued /\ Refusal(flow[f].bearer)
    BY <1>1, <1>4 DEF Refused, InOrder
  <2>3. rejected' = [rejected EXCEPT ![p] = flow[f].bearer]
    BY <1>4 DEF Refused
  <2>4. /\ rejected'[p] = flow[f].bearer
        /\ \A q \in Proc : rejected'[q] \in 0..issued
        /\ \A q \in Proc : rejected'[q] \in {rejected[q], flow[f].bearer}
    BY <1>0, <1>1, <2>2, <2>3 DEF TypeOK
  <2>5. \A q \in Proc : rejected'[q] = rejected[q] \/ Refusal(rejected[q])'
    BY <1>4, <2>2, <2>4 DEF Refused, Refusal
  <2>6. InOrder(flow[f], rejected[p])'
    BY <1>1, <1>4, <2>1, <2>2, <2>4 DEF Refused, Moves, Becomes, InOrder, Known, Carries,
       Done, Queued, Critical, Refusal
  <2> QED
    BY <1>1, <1>4, <2>1, <2>4, <2>5, <2>6, QuietStep DEF Refused, Moves, Becomes
<1>5. CASE Enqueue(f)
  <2>1. \A q \in Proc : mem'[q] \in Known
    BY <1>0, <1>1, <1>5 DEF Enqueue, TypeOK
  <2>2. CASE Ends(f)
    <3>1. InOrder(flow[f], rejected[p])'
      BY <1>1, <1>5, <2>2, IdleInOrder DEF Enqueue
    <3> QED
      BY <1>1, <1>5, <2>1, <2>2, <3>1, QuietStep DEF Enqueue, Ends, Becomes
  <2>3. CASE Becomes(f, "queued", flow[f].bearer, rejected[p], OnDisk(p).refresh,
                     flow[f].result, flow[f].outcome)
    <3>1. OnDisk(p).refresh \in 0..issued /\ rejected[p] \in 0..issued
      BY <1>0, <1>1 DEF Known
    <3>2. Refusal(rejected[p])
      BY <1>1, <1>5 DEF Enqueue, InOrder, Asked, Stages
    <3>3. InOrder(flow[f], rejected[p])'
      BY <1>1, <1>5, <2>3, <3>1, <3>2 DEF Enqueue, Becomes, InOrder, Known, Carries,
         Done, Critical, Refusal
    <3> QED
      BY <1>1, <1>5, <2>1, <2>3, <3>3, QuietStep DEF Enqueue, Becomes
  <2> QED
    BY <1>5, <2>2, <2>3, ClientMoves
<1> QED
  BY <1>2, <1>3, <1>4, <1>5 DEF Client

LEMMA LockingFresh ==
  ASSUME TypeOK, FreshInv, NEW f \in Flow, Locking(f)
  PROVE  FreshInv'
<1> USE DEF server, files, provider, process, At
<1>1. /\ issued \in Nat
      /\ \A q \in Proc : mem[q] \in Known /\ rejected[q] \in 0..issued
  BY DEF FreshInv, Numbered, TypeOK
<1>2. CASE EnsureLockTarget(f)
  <2>1. Moves(f, "locking")
    BY <1>2, LockingMoves
  <2>2. InOrder(flow[f], rejected[Owner[f]])'
    BY <1>2, <2>1, GoesOn DEF Grows, EnsureLockTarget, Moves, Turns, Asked, Stages, Queued,
       Critical, Carries, Done
  <2> QED
    BY <1>1, <1>2, <2>1, <2>2, QuietStep DEF EnsureLockTarget, Moves, Becomes
<1>3. CASE Acquire(f)
  <2>1. Moves(f, "locked")
    BY <1>3, LockingMoves
  <2>2. InOrder(flow[f], rejected[Owner[f]])'
    BY <1>3, <2>1, GoesOn DEF Grows, Acquire, Moves, Turns, Asked, Stages, Queued, Critical,
       Carries, Done
  <2> QED
    BY <1>1, <1>3, <2>1, <2>2, QuietStep DEF Acquire, Moves, Becomes
<1>4. CASE LockBusy(f)
  <2>1. Ends(f)
    BY <1>4, LockingMoves
  <2>2. InOrder(flow[f], rejected[Owner[f]])'
    BY <1>1, <1>4, <2>1, IdleInOrder DEF LockBusy
  <2> QED
    BY <1>1, <1>4, <2>1, <2>2, QuietStep DEF LockBusy, Ends, Becomes
<1>5. CASE LockLost(f)
  <2>1. Turns(f, "releasing", "error")
    BY <1>5, LockingMoves
  <2>2. InOrder(flow[f], rejected[Owner[f]])'
    BY <1>5, <2>1, GoesOn DEF Grows, LockLost, Asked, Stages, Queued, Critical, Carries, Done
  <2> QED
    BY <1>1, <1>5, <2>1, <2>2, QuietStep DEF LockLost, Turns, Becomes
<1>6. CASE Release(f)
  <2>1. \/ flow[f].outcome = "ok" /\ Moves(f, "saving")
        \/ Moves(f, "invalidating")
        \/ Ends(f)
    BY <1>6, LockingMoves
  <2>2. flow[f].pc = "releasing"
    BY <1>6 DEF Release
  <2>3. UNCHANGED <<issued, grants, alive, disk, kind, mem, rejected>>
    BY <1>6 DEF Release
  <2>4. InOrder(flow[f], rejected[Owner[f]])'
    <3>1. CASE flow[f].outcome = "ok" /\ Moves(f, "saving")
      BY <2>2, <2>3, <3>1, GoesOn DEF Grows, Moves, Turns, Asked, Stages, Queued, Critical,
         Carries, Done
    <3>2. CASE Moves(f, "invalidating")
      BY <2>2, <2>3, <3>2, GoesOn DEF Grows, Moves, Turns, Asked, Stages, Queued, Critical,
         Carries, Done
    <3>3. CASE Ends(f)
      BY <1>1, <2>3, <3>3, IdleInOrder
    <3> QED
      BY <2>1, <3>1, <3>2, <3>3
  <2>5. \A g \in Flow \ {f} : flow'[g] = flow[g]
    BY <2>1 DEF Moves, Ends, Becomes
  <2> QED
    BY <1>1, <2>3, <2>4, <2>5, QuietStep
<1> QED
  BY <1>2, <1>3, <1>4, <1>5, <1>6 DEF Locking

LEMMA TransactionFresh ==
  ASSUME TypeOK, FreshInv, NEW f \in Flow, Transaction(f)
  PROVE  FreshInv'
<1> DEFINE p == Owner[f]
<1> USE DEF server, files, provider, process, At
<1>1. /\ issued \in Nat /\ p \in Proc /\ InOrder(flow[f], rejected[p])
      /\ \A q \in Proc : mem[q] \in Known /\ rejected[q] \in 0..issued
      /\ disk \in Known /\ flow[f].result \in Known /\ alive \subseteq 1..issued
  BY TokenAssumption DEF FreshInv, Numbered, TypeOK, InOrder
<1>2. CASE ReadUnderLock(f)
  <2>1. Refusal(flow[f].rejected) /\ Refusal(rejected[p])
    BY <1>1, <1>2 DEF ReadUnderLock, InOrder, Queued, Critical, Asked, Stages
  <2>2. UNCHANGED <<issued, grants, alive, disk, kind, mem, rejected>>
    BY <1>2 DEF ReadUnderLock
  <2>3. CASE Usable(f) /\ Gets(f, "unmarking", disk, "ok")
    <3>1. disk.access \in alive
      BY <1>1, <2>1, <2>3 DEF Usable, Refusal, InOrder
    <3>2. InOrder(flow[f], rejected[p])'
      BY <1>1, <2>1, <2>2, <2>3, <3>1 DEF Gets, Becomes, InOrder, Known, Refusal, Queued, Critical
    <3> QED
      BY <1>1, <2>2, <2>3, <3>2, QuietStep DEF Gets, Becomes
  <2>4. CASE Becomes(f, "sent", flow[f].bearer, flow[f].rejected, TokenToSend(f),
                     flow[f].result, flow[f].outcome)
    <3>1. TokenToSend(f) \in 0..issued /\ disk.refresh \in {0, TokenToSend(f)}
      BY ReadsKnown DEF TokenToSend
    <3>2. InOrder(flow[f], rejected[p])'
      BY <1>1, <2>1, <2>2, <2>4, <3>1 DEF Becomes, InOrder, Known, Refusal, Queued, Critical,
         Carries, Done
    <3> QED
      BY <1>1, <2>2, <2>4, <3>2, QuietStep DEF Becomes
  <2> QED
    BY <1>2, <2>3, <2>4, TransactionMoves
<1>3. CASE MergeRotated(f)
  <2> DEFINE m == Merge(p, flow[f].result)
  <2>1. Gets(f, "writing", m, flow[f].outcome)
    BY <1>3, TransactionMoves
  <2>2. m \in Known /\ m.access \in alive
    <3>1. m \in Known /\ m.access = flow[f].result.access
      BY <1>1, ReadsKnown
    <3> QED
      BY <1>1, <1>3, <3>1 DEF MergeRotated, InOrder, Carries
  <2> HIDE DEF m
  <2>3. Refusal(flow[f].rejected) /\ Refusal(rejected[p])
    BY <1>1, <1>3 DEF MergeRotated, InOrder, Queued, Critical, Asked, Stages
  <2>4. InOrder(flow[f], rejected[p])'
    BY <1>1, <1>3, <2>1, <2>2, <2>3 DEF MergeRotated, Gets, Becomes, InOrder, Known, Refusal,
       Queued, Critical
  <2> QED
    BY <1>1, <1>3, <2>1, <2>4, QuietStep DEF MergeRotated, Gets, Becomes
<1>4. CASE UnusableBody(f)
  <2>1. Turns(f, "dead", "error")
    BY <1>4, TransactionMoves
  <2>2. InOrder(flow[f], rejected[p])'
    BY <1>4, <2>1, GoesOn DEF Grows, UnusableBody, Asked, Stages, Queued, Critical, Carries, Done
  <2> QED
    BY <1>1, <1>4, <2>1, <2>2, QuietStep DEF UnusableBody, Turns, Becomes
<1>5. CASE PersistRotated(f)
  <2>1. Turns(f, "unmarking", "ok")
    BY <1>5, TransactionMoves
  <2>2. disk' = flow[f].result /\ kind' = "fresh" /\ flow[f].result.access \in alive
    BY <1>1, <1>5 DEF PersistRotated, WriteTokens, InOrder, Carries
  <2>3. \A q \in Proc : mem'[q] \in Known
    BY <1>1, <1>5 DEF PersistRotated, WriteTokens, TypeOK
  <2>4. InOrder(flow[f], rejected[p])'
    BY <1>5, <2>1, <2>2, GoesOn DEF Grows, PersistRotated, Asked, Stages, Queued, Critical,
       Carries, Done
  <2> QED
    BY <1>1, <1>5, <2>1, <2>2, <2>3, <2>4, FileStep DEF PersistRotated, Turns, Becomes
<1>6. CASE PersistFails(f)
  <2>1. Turns(f, "dead", "error")
    BY <1>6, TransactionMoves
  <2>2. InOrder(flow[f], rejected[p])'
    BY <1>6, <2>1, GoesOn DEF Grows, PersistFails, Asked, Stages, Queued, Critical, Carries, Done
  <2> QED
    BY <1>1, <1>6, <2>1, <2>2, QuietStep DEF PersistFails, Turns, Becomes
<1>7. CASE ClearMarker(f)
  <2>1. Moves(f, "releasing")
    BY <1>7, TransactionMoves
  <2>2. Carries(flow[f]) /\ Grows /\ UNCHANGED rejected
    BY <1>7 DEF ClearMarker, Grows, Carries, Done
  <2>3. flow[f].pc \in Asked /\ flow[f].pc \in Critical
    BY <1>7 DEF ClearMarker, Asked, Stages, Critical
  <2>5. Turns(f, "releasing", flow[f].outcome)
    BY <2>1 DEF Moves, Turns
  <2>6. flow[f].pc \in Queued \cup Critical
    BY <2>3
  <2>4. InOrder(flow[f], rejected[p])'
    BY <2>2, <2>3, <2>5, <2>6, GoesOn
  <2> QED
    BY <1>1, <1>7, <2>1, <2>4, QuietStep DEF ClearMarker, Moves, Becomes
<1>8. CASE Recheck(f)
  <2>1. UNCHANGED <<issued, grants, alive, disk, kind, mem, rejected>>
        /\ flow[f].pc = "denied"
    BY <1>8 DEF Recheck
  <2>2. CASE PeerRotated(f) /\ Gets(f, "unmarking", disk, "ok")
    <3>1. Refusal(flow[f].rejected) /\ Refusal(rejected[p])
      BY <1>1, <2>1 DEF InOrder, Queued, Critical, Asked, Stages
    <3>2. disk.access \in alive
      BY <1>1, <2>1, <2>2, <3>1 DEF PeerRotated, Usable, Refusal, InOrder
    <3>3. InOrder(flow[f], rejected[p])'
      BY <1>1, <2>1, <2>2, <3>1, <3>2 DEF Gets, Becomes, InOrder, Known, Refusal, Queued, Critical
    <3> QED
      BY <1>1, <2>1, <2>2, <3>3, QuietStep DEF Gets, Becomes
  <2>3. CASE Moves(f, "denied")
    <3>1. InOrder(flow[f], rejected[p])'
      BY <2>1, <2>3, GoesOn DEF Grows, Moves, Turns, Asked, Stages, Queued, Critical, Carries, Done
    <3> QED
      BY <1>1, <2>1, <2>3, <3>1, QuietStep DEF Moves, Becomes
  <2>4. CASE Turns(f, "dead", "invalid")
    <3>1. InOrder(flow[f], rejected[p])'
      BY <2>1, <2>4, GoesOn DEF Grows, Asked, Stages, Queued, Critical, Carries, Done
    <3> QED
      BY <1>1, <2>1, <2>4, <3>1, QuietStep DEF Turns, Becomes
  <2> QED
    BY <1>8, <2>2, <2>3, <2>4, TransactionMoves
<1>9. CASE ClearTokens(f)
  <2>1. Moves(f, "marking")
    BY <1>9, TransactionMoves
  <2>2. disk' = None /\ kind' = "missing" /\ None \in Known /\ None.access = 0
    BY <1>1, <1>9 DEF ClearTokens, Forget, None, Known
  <2>3. \A q \in Proc : mem'[q] \in Known
    BY <1>1, <1>9, <2>2 DEF ClearTokens, Forget, TypeOK
  <2>5. flow[f].outcome # "ok"
    BY <1>1, <1>9 DEF ClearTokens, InOrder
  <2>4. InOrder(flow[f], rejected[p])'
    BY <1>9, <2>1, <2>2, <2>5, GoesOn DEF Grows, ClearTokens, Moves, Turns, Asked, Stages, Queued,
       Critical, Carries, Done
  <2> QED
    BY <1>1, <1>9, <2>1, <2>2, <2>3, <2>4, FileStep DEF ClearTokens, Moves, Becomes
<1>10. CASE MarkNeedsReconnect(f)
  <2>1. Moves(f, "releasing")
    BY <1>10, TransactionMoves
  <2>2. flow[f].outcome # "ok"
    BY <1>1, <1>10 DEF MarkNeedsReconnect, InOrder
  <2>3. InOrder(flow[f], rejected[p])'
    BY <1>10, <2>1, <2>2, GoesOn DEF Grows, MarkNeedsReconnect, Moves, Turns, Asked, Stages, Queued,
       Critical, Carries, Done
  <2> QED
    BY <1>1, <1>10, <2>1, <2>3, QuietStep DEF MarkNeedsReconnect, Moves, Becomes
<1> QED
  BY <1>2, <1>3, <1>4, <1>5, <1>6, <1>7, <1>8, <1>9, <1>10 DEF Transaction

LEMMA AnswerFresh ==
  ASSUME TypeOK, FreshInv, NEW f \in Flow, Answer(f)
  PROVE  FreshInv'
<1> DEFINE p == Owner[f]
<1> USE DEF server, files, provider, process, At
<1>1. /\ issued \in Nat /\ p \in Proc /\ InOrder(flow[f], rejected[p])
      /\ \A q \in Proc : mem[q] \in Known /\ rejected[q] \in 0..issued
      /\ disk \in Known /\ flow[f].result \in Known
      /\ alive \subseteq 1..issued /\ grants \subseteq 1..issued /\ FileInStep
  BY TokenAssumption DEF FreshInv, Numbered, TypeOK, InOrder
<1>2. CASE ServerGrants(f)
  <2>1. PICK refresh \in {0, issued + 1} :
          /\ refresh = 0 => "keep" \in Events
          /\ grants' = IF refresh = 0 THEN grants
                       ELSE (grants \ {flow[f].token}) \cup {refresh}
          /\ \/ Gets(f, "granted", [access |-> issued + 1, refresh |-> refresh],
                     flow[f].outcome)
             \/ "lost" \in Events /\ Turns(f, "releasing", "error")
    BY <1>2, AnswerMoves
  <2>2. /\ issued' = issued + 1 /\ alive' = alive \cup {issued + 1}
        /\ UNCHANGED <<disk, kind, mem, rejected>> /\ flow[f].pc = "sent"
    BY <1>2 DEF ServerGrants
  <2>3. Grows
    BY <2>2 DEF Grows
  <2>4. FileInStep'
    <3>1. disk.access # issued + 1
      BY <1>1 DEF Known
    <3> QED
      BY <1>1, <2>2, <3>1 DEF FileInStep
  <2>5. Numbered'
    <3>1. \A n \in 0..issued : n \in 0..issued'
      BY <1>1, <2>2
    <3>2. \A t \in Known : t \in Known'
      BY <2>3, KnownGrows
    <3>3. issued + 1 \in 1..issued' /\ \A n \in 1..issued : n \in 1..issued'
      BY <1>1, <2>2
    <3>4. refresh \in 1..issued' \/ refresh = 0
      BY <2>1, <3>3
    <3>5. grants' \subseteq 1..issued'
      BY <1>1, <2>1, <3>3, <3>4
    <3>6. alive' \subseteq 1..issued'
      BY <1>1, <2>2, <3>3
    <3> QED
      BY <1>1, <2>2, <3>1, <3>2, <3>5, <3>6 DEF Numbered
  <2>6. InOrder(flow[f], rejected[p])'
    <3>1. CASE Turns(f, "releasing", "error")
      BY <2>2, <2>3, <3>1, GoesOn DEF Asked, Stages, Queued, Critical, Carries, Done
    <3>2. CASE Gets(f, "granted", [access |-> issued + 1, refresh |-> refresh],
                    flow[f].outcome)
      <4> DEFINE t == [access |-> issued + 1, refresh |-> refresh]
      <4>1. t \in Known' /\ t.access \in alive'
        BY <1>1, <2>2 DEF Known
      <4>2. Gets(f, "granted", t, flow[f].outcome)
        BY <3>2
      <4> HIDE DEF t
      <4>3. /\ flow[f].bearer \in 0..issued' /\ flow[f].rejected \in 0..issued'
            /\ flow[f].token \in 0..issued'
        BY <1>1, <2>2 DEF InOrder
      <4>4. /\ Refusal(flow[f].rejected) /\ Refusal(rejected[p])
            /\ flow[f].rejected # issued + 1 /\ rejected[p] # issued + 1
        BY <1>1, <2>2 DEF InOrder, Queued, Critical, Asked, Stages
      <4> QED
        BY <2>2, <4>1, <4>2, <4>3, <4>4 DEF Gets, Becomes, InOrder, Refusal
    <3> QED
      BY <2>1, <3>1, <3>2
  <2>7. \A g \in Flow \ {f} : flow'[g] = flow[g]
    BY <2>1 DEF Gets, Turns, Becomes
  <2> QED
    BY <2>2, <2>3, <2>4, <2>5, <2>6, <2>7, FreshStep
<1>3. CASE ServerDenies(f)
  <2>1. Moves(f, "denied")
    BY <1>3, AnswerMoves
  <2>2. InOrder(flow[f], rejected[p])'
    BY <1>3, <2>1, GoesOn DEF Grows, ServerDenies, Moves, Turns, Asked, Stages, Queued, Critical,
       Carries, Done
  <2> QED
    BY <1>1, <1>3, <2>1, <2>2, QuietStep DEF ServerDenies, Moves, Becomes
<1>4. CASE ServerErrs(f)
  <2>1. Turns(f, "releasing", "error")
    BY <1>4, AnswerMoves
  <2>2. InOrder(flow[f], rejected[p])'
    BY <1>4, <2>1, GoesOn DEF Grows, ServerErrs, Asked, Stages, Queued, Critical, Carries, Done
  <2> QED
    BY <1>1, <1>4, <2>1, <2>2, QuietStep DEF ServerErrs, Turns, Becomes
<1> QED
  BY <1>2, <1>3, <1>4 DEF Answer

LEMMA AfterwardsFresh ==
  ASSUME TypeOK, FreshInv, NEW f \in Flow, Afterwards(f)
  PROVE  FreshInv'
<1> DEFINE p == Owner[f]
<1> USE DEF server, files, provider, process, At
<1>1. /\ issued \in Nat /\ p \in Proc /\ InOrder(flow[f], rejected[p])
      /\ \A q \in Proc : mem[q] \in Known /\ rejected[q] \in 0..issued
      /\ disk \in Known /\ flow[f].result \in Known
      /\ None \in Known /\ None.access = 0 /\ OnDisk(p) \in Known
  <2>1. issued \in Nat /\ p \in Proc /\ OnDisk(p) \in Known
    BY ReadsKnown DEF TypeOK
  <2>2. None \in Known /\ None.access = 0
    BY <2>1 DEF None, Known
  <2> QED
    BY <2>1, <2>2 DEF FreshInv, Numbered, InOrder
<1>2. CASE SaveTokens(f)
  <2> DEFINE m == Merge(p, Incoming(f))
  <2>1. UNCHANGED <<issued, grants, alive, disk, kind, rejected>> /\ flow[f].pc = "saving"
    BY <1>2 DEF SaveTokens
  <2>2. \A q \in Proc : mem'[q] \in Known
    BY <1>1, <1>2 DEF SaveTokens, TypeOK
  <2>3. CASE Ends(f)
    <3>1. InOrder(flow[f], rejected[p])'
      BY <1>1, <2>1, <2>3, IdleInOrder
    <3> QED
      BY <1>1, <2>1, <2>2, <2>3, <3>1, QuietStep DEF Ends, Becomes
  <2>4. CASE Gets(f, "overwriting", m, flow[f].outcome)
    <3>1. m \in Known /\ m.access \in alive
      <4>1. m \in Known /\ m.access = flow[f].result.access
        BY ReadsKnown
      <4> QED
        BY <1>1, <2>1, <4>1 DEF InOrder, Carries, Done
    <3> HIDE DEF m
    <3>2. Refusal(rejected[p])
      BY <1>1, <2>1 DEF InOrder, Asked, Stages
    <3>3. InOrder(flow[f], rejected[p])'
      BY <1>1, <2>1, <2>4, <3>1, <3>2 DEF Gets, Becomes, InOrder, Known, Refusal, Queued, Critical
    <3> QED
      BY <1>1, <2>1, <2>2, <2>4, <3>3, QuietStep DEF Gets, Becomes
  <2> QED
    BY <1>2, <2>3, <2>4, AfterwardsMoves
<1>3. CASE Overwrite(f)
  <2>1. Ends(f)
    BY <1>3, AfterwardsMoves
  <2>2. InOrder(flow[f], rejected[p])'
    BY <1>1, <1>3, <2>1, IdleInOrder DEF Overwrite
  <2>3. CASE WriteTokens(p, flow[f].result)
    <3>1. disk' = flow[f].result /\ kind' = "fresh" /\ flow[f].result.access \in alive
      BY <1>1, <1>3, <2>3 DEF Overwrite, WriteTokens, InOrder, Carries, Done
    <3>2. \A q \in Proc : mem'[q] \in Known
      BY <1>1, <2>3 DEF WriteTokens, TypeOK
    <3> QED
      BY <1>1, <1>3, <2>1, <2>2, <3>1, <3>2, FileStep DEF Overwrite, Ends, Becomes
  <2>4. CASE UNCHANGED <<disk, kind, mem>>
    BY <1>1, <1>3, <2>1, <2>2, <2>4, QuietStep DEF Overwrite, Ends, Becomes
  <2> QED
    BY <1>3, <2>3, <2>4 DEF Overwrite
<1>4. CASE Invalidate(f)
  <2>1. Moves(f, "unauthorized") \/ Moves(f, "checking")
    BY <1>4, AfterwardsMoves
  <2>2. \A q \in Proc : mem'[q] \in Known
    BY <1>1, <1>4 DEF Invalidate, TypeOK
  <2>3. InOrder(flow[f], rejected[p])'
    BY <1>4, <2>1, GoesOn DEF Grows, Invalidate, Moves, Turns, Asked, Stages, Queued, Critical,
       Carries, Done
  <2>4. \A g \in Flow \ {f} : flow'[g] = flow[g]
    BY <2>1 DEF Moves, Becomes
  <2> QED
    BY <1>1, <1>4, <2>2, <2>3, <2>4, QuietStep DEF Invalidate
<1>5. CASE CheckMarker(f)
  <2>1. Moves(f, "unauthorized") \/ Moves(f, "discarding")
    BY <1>5, AfterwardsMoves
  <2>2. InOrder(flow[f], rejected[p])'
    BY <1>5, <2>1, GoesOn DEF Grows, CheckMarker, Moves, Turns, Asked, Stages, Queued, Critical,
       Carries, Done
  <2>3. \A g \in Flow \ {f} : flow'[g] = flow[g]
    BY <2>1 DEF Moves, Becomes
  <2> QED
    BY <1>1, <1>5, <2>2, <2>3, QuietStep DEF CheckMarker
<1>6. CASE Discard(f)
  <2>1. Moves(f, "unauthorized")
    BY <1>6, AfterwardsMoves
  <2>2. disk' = None /\ kind' = "missing"
    BY <1>6 DEF Discard, Forget
  <2>3. \A q \in Proc : mem'[q] \in Known
    BY <1>1, <1>6 DEF Discard, Forget, TypeOK
  <2>4. Grows /\ UNCHANGED rejected /\ flow[f].pc = "discarding"
    BY <1>1, <1>6, <2>2 DEF Discard, Grows
  <2>5. InOrder(flow[f], rejected[p])'
    BY <2>1, <2>4, GoesOn DEF Moves, Turns, Asked, Stages, Queued, Critical, Carries, Done
  <2> QED
    BY <1>1, <1>6, <2>1, <2>2, <2>3, <2>5, FileStep DEF Discard, Moves, Becomes
<1> QED
  BY <1>2, <1>3, <1>4, <1>5, <1>6 DEF Afterwards

LEMMA SignFresh ==
  ASSUME TypeOK, FreshInv, NEW f \in Flow, Sign(f)
  PROVE  FreshInv'
<1> DEFINE p == Owner[f]
<1> USE DEF server, files, provider, process, At
<1>1. /\ issued \in Nat /\ p \in Proc /\ InOrder(flow[f], rejected[p])
      /\ \A q \in Proc : mem[q] \in Known /\ rejected[q] \in 0..issued
      /\ disk \in Known /\ flow[f].result \in Known
      /\ alive \subseteq 1..issued /\ grants \subseteq 1..issued /\ FileInStep
  BY TokenAssumption DEF FreshInv, Numbered, TypeOK, InOrder
<1>2. CASE SignIn(f)
  <2> DEFINE t == [access |-> issued + 1, refresh |-> issued + 1]
  <2>1. Becomes(f, "signed", 0, 0, 0, t, "error")
    BY <1>2, SignMoves
  <2>2. /\ issued' = issued + 1 /\ alive' = alive \cup {issued + 1}
        /\ grants' = grants \cup {issued + 1}
        /\ UNCHANGED <<disk, kind, mem, rejected>>
    BY <1>2 DEF SignIn
  <2>3. Grows
    BY <2>2 DEF Grows
  <2>4. FileInStep'
    <3>1. disk.access # issued + 1
      BY <1>1 DEF Known
    <3> QED
      BY <1>1, <2>2, <3>1 DEF FileInStep
  <2>5. Numbered'
    <3>1. \A n \in 0..issued : n \in 0..issued'
      BY <1>1, <2>2
    <3>2. \A u \in Known : u \in Known'
      BY <2>3, KnownGrows
    <3>3. grants' \subseteq 1..issued' /\ alive' \subseteq 1..issued'
      BY <1>1, <2>2
    <3> QED
      BY <1>1, <2>2, <3>1, <3>2, <3>3 DEF Numbered
  <2>6. InOrder(flow[f], rejected[p])'
    <3>1. t \in Known' /\ t.access \in alive' /\ 0 \in 0..issued'
      BY <1>1, <2>2 DEF Known
    <3> HIDE DEF t
    <3> QED
      BY <2>1, <3>1 DEF Becomes, InOrder, Asked, Queued, Critical
  <2> QED
    BY <2>1, <2>2, <2>3, <2>4, <2>5, <2>6, FreshStep DEF Becomes
<1>3. CASE StoreSignIn(f)
  <2>1. Moves(f, "welcome")
    BY <1>3, SignMoves
  <2>2. \/ disk' = flow[f].result /\ kind' = "fresh" /\ flow[f].result.access \in alive
        \/ UNCHANGED <<disk, kind>>
    BY <1>1, <1>3 DEF StoreSignIn, InOrder, Carries
  <2>3. InOrder(flow[f], rejected[p])'
    BY <1>3, <2>1, <2>2, GoesOn DEF Grows, StoreSignIn, Moves, Turns, Asked, Stages, Queued,
       Critical, Carries, Done
  <2>4. CASE UNCHANGED <<disk, kind>>
    BY <1>1, <1>3, <2>1, <2>3, <2>4, QuietStep DEF StoreSignIn, Moves, Becomes
  <2> QED
    BY <1>1, <1>3, <2>1, <2>2, <2>3, <2>4, FileStep DEF StoreSignIn, Moves, Becomes
<1>4. CASE FinishSignIn(f)
  <2>1. Ends(f)
    BY <1>4, SignMoves
  <2>2. InOrder(flow[f], rejected[p])'
    BY <1>1, <1>4, <2>1, IdleInOrder DEF FinishSignIn
  <2> QED
    BY <1>1, <1>4, <2>1, <2>2, QuietStep DEF FinishSignIn, Ends, Becomes
<1> QED
  BY <1>2, <1>3, <1>4 DEF Sign

(* A process that goes takes its requests with it.                         *)
LEMMA LifeFresh ==
  ASSUME TypeOK, FreshInv, NEW p \in Proc, Life(p)
  PROVE  FreshInv'
<1> USE DEF server, files, provider, process
<1>1. /\ issued \in Nat /\ disk \in Known /\ None \in Known
      /\ \A q \in Proc : mem[q] \in Known /\ rejected[q] \in 0..issued
  BY DEF FreshInv, Numbered, TypeOK, None, Known
<1>2. CASE BeginShutdown(p)
  BY <1>2 DEF BeginShutdown, FreshInv, FileInStep, Numbered, Known, InOrder, Refusal
<1>3. ASSUME Die(p) PROVE FreshInv'
  <2>1. UNCHANGED <<issued, grants, alive, disk, kind>>
    BY <1>3 DEF Die
  <2>2. /\ \A q \in Proc : mem'[q] \in Known /\ rejected'[q] \in 0..issued
        /\ \A q \in Proc \ {p} : rejected'[q] = rejected[q]
    BY <1>1, <1>3 DEF Die, TypeOK
  <2>3. FileInStep' /\ Numbered'
    BY <2>1, <2>2 DEF FreshInv, FileInStep, Numbered, Known
  <2>4. ASSUME NEW g \in Flow PROVE InOrder(flow[g], rejected[Owner[g]])'
    <3>1. CASE Owner[g] = p
      <4>1. flow'[g] = Idle
        BY <1>3, <3>1 DEF Die
      <4> QED
        BY <1>1, <2>1, <4>1 DEF InOrder, Idle, Known, None, Asked, Carries, Done, Queued,
           Critical
    <3>2. CASE Owner[g] # p
      <4>1. flow'[g] = flow[g] /\ rejected'[Owner[g]] = rejected[Owner[g]]
        BY <1>3, <2>2, <3>2, TokenAssumption DEF Die
      <4> QED
        BY <2>1, <4>1 DEF FreshInv, InOrder, Known, Refusal
    <3> QED
      BY <3>1, <3>2
  <2> QED
    BY <2>3, <2>4 DEF FreshInv
<1>4. CASE Restart(p)
  <2>1. \A q \in Proc : mem'[q] \in Known
    BY <1>1, <1>4 DEF Restart, TypeOK
  <2> QED
    BY <1>1, <1>4, <2>1 DEF Restart, FreshInv, FileInStep, Numbered, Known, InOrder, Refusal
<1> QED
  BY <1>2, <1>3, <1>4 DEF Life, Exit, Crash

(* Access tokens end between requests.                                     *)
LEMMA AccessFresh ==
  ASSUME QuietExpiry, TypeOK, FreshInv, AccessEnds
  PROVE  FreshInv'
<1> USE DEF server, files, provider, process, At
<1>1. /\ \A f \in Flow : flow[f].pc = "idle"
      /\ alive' = alive \ {disk.access} /\ kind' \in {kind, "stale"}
      /\ UNCHANGED <<issued, grants, disk, flow, mem, rejected>>
  BY DEF AccessEnds
<1>2. FileInStep'
  BY <1>1 DEF FreshInv, FileInStep
<1>3. Numbered'
  BY <1>1 DEF FreshInv, Numbered, Known
<1>4. ASSUME NEW f \in Flow PROVE InOrder(flow[f], rejected[Owner[f]])'
  <2>1. InOrder(flow[f], rejected[Owner[f]])
    BY DEF FreshInv
  <2> QED
    BY <1>1, <2>1 DEF InOrder, Known, Asked, Carries, Done, Queued, Critical
<1> QED
  BY <1>2, <1>3, <1>4 DEF FreshInv

LEMMA FreshNext ==
  ASSUME QuietExpiry, "revoke" \notin Events, TypeInv, FreshInv, [Next]_vars
  PROVE  FreshInv'
<1>0. TypeOK
  BY DEF TypeInv
<1>1. CASE UNCHANGED vars
  BY <1>1 DEF vars, server, files, provider, process, FreshInv, FileInStep, Numbered, Known,
     InOrder, Refusal
<1>2. ASSUME NEW f \in Flow,
             Client(f) \/ Locking(f) \/ Transaction(f) \/ Answer(f)
               \/ Afterwards(f) \/ Sign(f)
      PROVE  FreshInv'
  BY <1>0, <1>2, ClientFresh, LockingFresh, TransactionFresh, AnswerFresh, AfterwardsFresh,
     SignFresh
<1>3. ASSUME NEW p \in Proc, Life(p) PROVE FreshInv'
  BY <1>0, <1>3, LifeFresh
<1>4. CASE AccessEnds
  BY <1>0, <1>4, AccessFresh
<1>5. CASE Revoke
  BY <1>5 DEF Revoke
<1> QED
  BY <1>1, <1>2, <1>3, <1>4, <1>5 DEF Next

LEMMA FreshInit == Init => FreshInv
<1> SUFFICES ASSUME Init PROVE FreshInv
  OBVIOUS
<1>1. FileInStep
  BY DEF Init, FileInStep
<1>2. Numbered
  BY DEF Init, Numbered, Known
<1>3. ASSUME NEW f \in Flow PROVE InOrder(flow[f], rejected[Owner[f]])
  BY TokenAssumption DEF Init, InOrder, Idle, Known, None, Asked, Carries, Done, Queued, Critical
<1> QED
  BY <1>1, <1>2, <1>3 DEF FreshInv

(* A refresh token is presented from under the lock only.                  *)
LEMMA OnlyReadersSend ==
  ASSUME TypeOK, Next, NEW f \in Flow, flow[f].pc # "sent", flow'[f].pc = "sent"
  PROVE  ReadUnderLock(f)
<1>1. ASSUME NEW g \in Flow, Client(g) PROVE FALSE
  BY <1>1, ClientMoves DEF Client, Moves, Ends, Becomes
<1>2. ASSUME NEW g \in Flow, Locking(g) PROVE FALSE
  BY <1>2, LockingMoves DEF Locking, Moves, Turns, Ends, Becomes
<1>3. ASSUME NEW g \in Flow, Transaction(g) PROVE ReadUnderLock(f)
  BY <1>3, TransactionMoves DEF Transaction, Moves, Turns, Gets, Becomes
<1>4. ASSUME NEW g \in Flow, Answer(g) PROVE FALSE
  BY <1>4, AnswerMoves DEF Answer, Moves, Turns, Gets, Becomes
<1>5. ASSUME NEW g \in Flow, Afterwards(g) PROVE FALSE
  BY <1>5, AfterwardsMoves DEF Afterwards, Moves, Gets, Ends, Becomes
<1>6. ASSUME NEW g \in Flow, Sign(g) PROVE FALSE
  BY <1>6, SignMoves DEF Sign, Moves, Ends, Becomes
<1>7. ASSUME NEW p \in Proc, Life(p) PROVE FALSE
  BY <1>7 DEF Life, BeginShutdown, Exit, Crash, Restart, Die, Idle
<1>8. ~AccessEnds /\ ~Revoke
  BY DEF AccessEnds, Revoke
<1> QED
  BY <1>1, <1>2, <1>3, <1>4, <1>5, <1>6, <1>7, <1>8 DEF Next

LEMMA SendersFoundNothing ==
  ASSUME TypeOK, FreshInv, Next, NEW f \in Flow, flow[f].pc # "sent", flow'[f].pc = "sent"
  PROVE  disk.access \notin alive
<1>1. ReadUnderLock(f)
  BY OnlyReadersSend
<1>2. ~Usable(f)
  BY <1>1, TransactionMoves DEF Gets, Becomes
<1>3. InOrder(flow[f], rejected[Owner[f]]) /\ FileInStep /\ alive \subseteq 1..issued
  BY DEF FreshInv, Numbered
<1>4. Refusal(flow[f].rejected)
  BY <1>1, <1>3 DEF ReadUnderLock, At, InOrder, Critical
<1> QED
  BY <1>2, <1>3, <1>4 DEF Usable, FileInStep, Refusal, TypeOK

(* A request that goes to the server under the lock has seen, there, that  *)
(* nothing on disk can be used: runRefreshTransaction never rotates a       *)
(* refresh token while a peer's access token would do.  With any number of *)
(* processes, kills, sleeping holders, lost answers, failed writes and     *)
(* sign-ins; access tokens end between requests and no grant is withdrawn. *)
THEOREM NoRotationIsNeedless ==
  ASSUME QuietExpiry, "revoke" \notin Events
  PROVE  Spec => NoNeedlessRotation
<1> DEFINE Step == \A f \in Flow :
                     flow[f].pc # "sent" /\ flow'[f].pc = "sent" => disk.access \notin alive
<1>1. TypeInv /\ FreshInv /\ [Next]_vars => FreshInv'
  BY FreshNext
<1>2. TypeInv /\ FreshInv /\ [Next]_vars => [Step]_vars
  BY SendersFoundNothing DEF TypeInv
<1> HIDE DEF Step
<1>3. Spec => [][Step]_vars
  BY TypeInit, TypeNext, FreshInit, <1>1, <1>2, PTL DEF Spec
<1> QED
  BY <1>3 DEF NoNeedlessRotation, Step

-----------------------------------------------------------------------------
(* What a drain awaits.                                                    *)

(* A queued request is in the chain, and a drain awaits every request that *)
(* is queued or past the mutex.                                            *)
QueuedInChain ==
  \A f \in Flow :
    flow[f].pc = "queued" => \E i \in 1..Len(chain[Owner[f]]) : chain[Owner[f]][i] = f

DrainAwaits ==
  \A f \in Flow :
    proc[Owner[f]] = "draining" /\ flow[f].pc \in Queued \cup Critical
      => f \in awaited[Owner[f]]

DrainInv == QueuedInChain /\ DrainAwaits

(* A step of one request that neither joins nor leaves a chain.            *)
LEMMA ChainStep ==
  ASSUME TypeInv, DrainInv, NEW f \in Flow, \A g \in Flow \ {f} : flow'[g] = flow[g],
         UNCHANGED process,
         flow'[f].pc = "queued" => flow[f].pc = "queued",
         flow'[f].pc \in Queued \cup Critical => flow[f].pc \in Queued \cup Critical
  PROVE  DrainInv'
<1>1. QueuedInChain'
  BY DEF DrainInv, QueuedInChain, process
<1>2. DrainAwaits'
  BY DEF DrainInv, DrainAwaits, process
<1> QED
  BY <1>1, <1>2 DEF DrainInv

LEMMA LeaveStep ==
  ASSUME TypeInv, DrainInv, NEW f \in Flow, \A g \in Flow \ {f} : flow'[g] = flow[g],
         flow[f].pc \in Inside, Leave(f),
         flow'[f].pc \notin Queued \cup Critical
  PROVE  DrainInv'
<1> DEFINE p == Owner[f]
<1>1. p \in Proc /\ chain[p] \in Seq(Flow) /\ chain[p] # <<>> /\ Head(chain[p]) = f
  BY TokenAssumption DEF TypeInv, TypeOK, MutexHeld, First
<1>2. /\ chain'[p] = Tail(chain[p])
      /\ \A q \in Proc \ {p} : chain'[q] = chain[q] /\ awaited'[q] = awaited[q]
      /\ awaited'[p] = awaited[p] \ {f}
      /\ proc' = proc
  BY <1>1 DEF Leave, TypeInv, TypeOK
<1>3. ASSUME NEW g \in Flow, flow'[g].pc = "queued"
      PROVE  \E i \in 1..Len(chain'[Owner[g]]) : chain'[Owner[g]][i] = g
  <2>1. g # f /\ flow[g].pc = "queued" /\ Owner[g] \in Proc
    BY <1>3, TokenAssumption DEF Queued
  <2>2. PICK i \in 1..Len(chain[Owner[g]]) : chain[Owner[g]][i] = g
    BY <2>1 DEF DrainInv, QueuedInChain
  <2>3. CASE Owner[g] = p
    <3>1. i # 1
      BY <1>1, <2>1, <2>2, <2>3
    <3>2. /\ i - 1 \in 1..Len(Tail(chain[p]))
          /\ Tail(chain[p])[i - 1] = chain[p][i]
      BY <1>1, <2>2, <2>3, <3>1
    <3> QED
      BY <1>2, <2>2, <2>3, <3>2
  <2>4. CASE Owner[g] # p
    BY <1>2, <2>1, <2>2, <2>4
  <2> QED
    BY <2>3, <2>4
<1>4. DrainAwaits'
  <2> SUFFICES ASSUME NEW g \in Flow, proc'[Owner[g]] = "draining",
                      flow'[g].pc \in Queued \cup Critical
               PROVE  g \in awaited'[Owner[g]]
    BY DEF DrainAwaits
  <2>1. g # f /\ flow'[g] = flow[g] /\ Owner[g] \in Proc
    BY TokenAssumption
  <2>2. g \in awaited[Owner[g]]
    BY <1>2, <2>1 DEF DrainInv, DrainAwaits
  <2> QED
    BY <1>2, <2>1, <2>2
<1> QED
  BY <1>3, <1>4 DEF DrainInv, QueuedInChain

LEMMA DrainFlow ==
  ASSUME TypeInv, DrainInv, NEW f \in Flow,
         Client(f) \/ Locking(f) \/ Transaction(f) \/ Answer(f) \/ Afterwards(f) \/ Sign(f)
  PROVE  DrainInv'
<1> USE DEF At
<1>0. TypeOK /\ Owner[f] \in Proc
  BY TokenAssumption DEF TypeInv
<1>1. CASE Request(f) \/ Served(f) \/ Refused(f)
  BY <1>0, <1>1, ClientMoves, ChainStep DEF Request, Served, Refused, Moves, Ends, Becomes,
     Queued, Critical
<1>2. CASE Enqueue(f)
  <2> DEFINE p == Owner[f]
  <2>1. CASE Ends(f) /\ chain' = chain
    BY <1>2, <2>1, ChainStep DEF Enqueue, Ends, Becomes, Queued, Critical, process
  <2>2. CASE flow'[f].pc = "queued" /\ chain' = [chain EXCEPT ![p] = Append(@, f)]
             /\ proc[p] = "up" /\ \A g \in Flow \ {f} : flow'[g] = flow[g]
    <3>1. chain[p] \in Seq(Flow)
      BY <1>0 DEF TypeOK
    <3>2. /\ chain'[p] = Append(chain[p], f)
          /\ \A q \in Proc \ {p} : chain'[q] = chain[q]
          /\ UNCHANGED <<proc, awaited>>
      BY <1>0, <1>2, <2>2 DEF TypeOK, Enqueue
    <3>3. ASSUME NEW g \in Flow, flow'[g].pc = "queued"
          PROVE  \E i \in 1..Len(chain'[Owner[g]]) : chain'[Owner[g]][i] = g
      <4>1. CASE g = f
        <5>1. /\ Len(chain[p]) + 1 \in 1..Len(Append(chain[p], f))
              /\ Append(chain[p], f)[Len(chain[p]) + 1] = f
          BY <3>1
        <5> QED
          BY <3>2, <4>1, <5>1
      <4>2. CASE g # f
        <5>1. PICK i \in 1..Len(chain[Owner[g]]) : chain[Owner[g]][i] = g
          BY <2>2, <3>3, <4>2 DEF DrainInv, QueuedInChain
        <5>2. CASE Owner[g] = p
          <6>1. i \in 1..Len(Append(chain[p], f)) /\ Append(chain[p], f)[i] = chain[p][i]
            BY <3>1, <5>1, <5>2
          <6> QED
            BY <3>2, <5>1, <5>2, <6>1
        <5>3. CASE Owner[g] # p
          BY <3>2, <5>1, <5>3, TokenAssumption
        <5> QED
          BY <5>2, <5>3
      <4> QED
        BY <4>1, <4>2
    <3>4. DrainAwaits'
      BY <2>2, <3>2 DEF DrainInv, DrainAwaits
    <3> QED
      BY <3>3, <3>4 DEF DrainInv, QueuedInChain
  <2>3. \/ Ends(f) /\ chain' = chain
        \/ flow'[f].pc = "queued" /\ chain' = [chain EXCEPT ![p] = Append(@, f)]
             /\ proc[p] = "up" /\ \A g \in Flow \ {f} : flow'[g] = flow[g]
    <3>1. CASE flow' = [flow EXCEPT ![f] = Idle] /\ chain' = chain
      BY <1>0, <3>1, EndsIdle
    <3>2. CASE ~(flow' = [flow EXCEPT ![f] = Idle] /\ chain' = chain)
      <4> DEFINE r == [flow[f] EXCEPT !.pc = "queued", !.token = OnDisk(p).refresh,
                                      !.rejected = rejected[p], !.tries = 0]
      <4>1. /\ flow' = [flow EXCEPT ![f] = r]
            /\ chain' = [chain EXCEPT ![p] = Append(@, f)] /\ proc[p] = "up"
        BY <1>2, <3>2 DEF Enqueue, AcceptsRefreshes
      <4>2. r.pc = "queued"
        BY <1>0 DEF TypeOK, FlowRecord
      <4> HIDE DEF r
      <4> QED
        BY <1>0, <4>1, <4>2, Retold
    <3> QED
      BY <3>1, <3>2
  <2> QED
    BY <2>1, <2>2, <2>3
<1>3. CASE EnsureLockTarget(f) \/ Acquire(f) \/ LockLost(f)
  <2>1. Moves(f, "locking") \/ Moves(f, "locked") \/ Turns(f, "releasing", "error")
    BY <1>0, <1>3, LockingMoves
  <2>2. UNCHANGED process /\ flow[f].pc \in Queued \cup Critical
    BY <1>3 DEF EnsureLockTarget, Acquire, LockLost, Queued, Critical
  <2> QED
    BY <2>1, <2>2, ChainStep DEF Moves, Turns, Becomes
<1>4. CASE LockBusy(f) \/ Release(f)
  <2>1. Leave(f) /\ flow[f].pc \in Inside
    BY <1>4 DEF LockBusy, Release, Inside, Critical
  <2>2. Moves(f, "saving") \/ Moves(f, "invalidating") \/ Ends(f)
    BY <1>0, <1>4, LockingMoves
  <2> QED
    BY <2>1, <2>2, LeaveStep DEF Moves, Ends, Becomes, Queued, Critical
<1>5. CASE Transaction(f) \/ Answer(f)
  <2>1. flow[f].pc \in Critical /\ UNCHANGED process
    BY <1>5 DEF Transaction, ReadUnderLock, MergeRotated, UnusableBody, PersistRotated,
       PersistFails, ClearMarker, Recheck, ClearTokens, MarkNeedsReconnect, Critical,
       Answer, ServerGrants, ServerDenies, ServerErrs
  <2>2. flow'[f].pc # "queued" /\ \A g \in Flow \ {f} : flow'[g] = flow[g]
    BY <1>0, <1>5, TransactionMoves, AnswerMoves DEF Transaction, Answer, Moves, Turns, Gets,
       Becomes
  <2> QED
    BY <2>1, <2>2, ChainStep
<1>6. CASE Afterwards(f) \/ Sign(f)
  <2>1. UNCHANGED process
    BY <1>6 DEF Afterwards, SaveTokens, Overwrite, Invalidate, CheckMarker, Discard, Sign,
       SignIn, StoreSignIn, FinishSignIn
  <2>2. flow'[f].pc \notin Queued \cup Critical /\ \A g \in Flow \ {f} : flow'[g] = flow[g]
    BY <1>0, <1>6, AfterwardsMoves, SignMoves DEF Afterwards, Sign, Moves, Gets, Ends, Becomes,
       Queued, Critical
  <2> QED
    BY <2>1, <2>2, ChainStep DEF Queued
<1> QED
  BY <1>1, <1>2, <1>3, <1>4, <1>5, <1>6 DEF Client, Locking

LEMMA DrainLife ==
  ASSUME TypeInv, DrainInv, NEW p \in Proc, Life(p)
  PROVE  DrainInv'
<1>1. CASE BeginShutdown(p)
  <2>1. /\ UNCHANGED <<flow, chain>>
        /\ awaited'[p] = {chain[p][i] : i \in 1..Len(chain[p])}
        /\ \A q \in Proc \ {p} : awaited'[q] = awaited[q] /\ proc'[q] = proc[q]
    BY <1>1 DEF BeginShutdown, TypeInv, TypeOK
  <2>2. ASSUME NEW f \in Flow, flow[f].pc \in Queued \cup Critical, Owner[f] = p
        PROVE  \E i \in 1..Len(chain[p]) : chain[p][i] = f
    <3>1. CASE flow[f].pc = "queued"
      BY <2>2, <3>1 DEF DrainInv, QueuedInChain
    <3>2. CASE flow[f].pc # "queued"
      <4>1. First(f)
        BY <2>2, <3>2 DEF TypeInv, MutexHeld, Inside, Queued
      <4>2. chain[p] \in Seq(Flow)
        BY DEF TypeInv, TypeOK
      <4>3. 1 \in 1..Len(chain[p]) /\ chain[p][1] = f
        BY <2>2, <4>1, <4>2 DEF First
      <4> QED
        BY <4>3
    <3> QED
      BY <3>1, <3>2
  <2>3. DrainAwaits'
    BY <2>1, <2>2, TokenAssumption DEF DrainInv, DrainAwaits
  <2> QED
    BY <2>1, <2>3 DEF DrainInv, QueuedInChain
<1>2. ASSUME Die(p) PROVE DrainInv'
  <2>1. /\ \A f \in Flow : Owner[f] = p => flow'[f] = Idle
        /\ \A f \in Flow : Owner[f] # p => flow'[f] = flow[f]
        /\ \A q \in Proc \ {p} : /\ awaited'[q] = awaited[q] /\ proc'[q] = proc[q]
                                 /\ chain'[q] = chain[q]
    BY <1>2 DEF Die, TypeInv, TypeOK
  <2>2. Idle.pc = "idle"
    BY DEF Idle
  <2> QED
    BY <2>1, <2>2, TokenAssumption DEF DrainInv, QueuedInChain, DrainAwaits, Queued, Critical
<1>3. CASE Restart(p)
  <2>1. /\ UNCHANGED <<flow, chain, awaited>>
        /\ proc'[p] = "up"
        /\ \A q \in Proc \ {p} : proc'[q] = proc[q]
    BY <1>3 DEF Restart, TypeInv, TypeOK
  <2> QED
    BY <2>1, TokenAssumption DEF DrainInv, QueuedInChain, DrainAwaits
<1> QED
  BY <1>1, <1>2, <1>3 DEF Life, Exit, Crash

LEMMA DrainNext ==
  ASSUME TypeInv, DrainInv, [Next]_vars
  PROVE  DrainInv'
<1>1. CASE UNCHANGED vars
  BY <1>1 DEF vars, process, DrainInv, QueuedInChain, DrainAwaits
<1>2. CASE AccessEnds \/ Revoke
  BY <1>2 DEF AccessEnds, Revoke, process, DrainInv, QueuedInChain, DrainAwaits
<1> QED
  BY <1>1, <1>2, DrainFlow, DrainLife DEF Next

(* A process that has awaited its drain leaves no transaction behind.      *)
LEMMA DrainedIsQuiet ==
  ASSUME TypeOK, DrainInv, "slow" \notin Events, NEW p \in Proc, Exit(p)
  PROVE  \A f \in Flow : Owner[f] = p => flow[f].pc \notin Critical
BY DEF Exit, Drained, DrainInv, DrainAwaits

-----------------------------------------------------------------------------
(* Single use.                                                             *)

(* The scope of run token_rotation: access tokens end between requests, no *)
(* process dies in a transaction, and either the user signs in beside the  *)
(* refreshes or answers and writes are lost, not both.                     *)
Scope ==
  /\ QuietExpiry
  /\ Events \subseteq {"keep", "signin"} \/ Events \subseteq {"body", "persist"}

Rotating == {"sent", "granted", "writing", "denied", "dead", "marking"}
Saving   == {"saving", "overwriting"}

(* A rotation has come to nothing.                                         *)
Lost == marker = "set" \/ \E f \in Flow : flow[f].pc \in {"dead", "marking"}

(* The refresh tokens that anybody but their bearer could present.         *)
Heard ==
  {0, disk.refresh} \cup {mem[p].refresh : p \in Proc} \cup {flow[f].token : f \in Flow}

(* What a request holds, or is about to store, is worth storing.           *)
Honoured(r) ==
  /\ Done(r) => disk.access \in alive
  /\ Done(r) \/ r.pc \in {"writing", "signed"} => r.result.refresh \in grants
  /\ r.pc = "granted" =>
       \/ r.result.refresh \in grants
       \/ r.result.refresh = 0 /\ "keep" \in Events /\ disk.refresh \in grants
  /\ r.pc = "sent" => r.token \in grants \/ marker = "set"
  /\ r.pc \in {"denied", "discarding"} => marker = "set"
  /\ r.pc \in {"signed", "welcome"} => "signin" \in Events

(* Nobody still saves an earlier answer while a request rotates.           *)
Alone ==
  \A f, g \in Flow : flow[f].pc \in Rotating => flow[g].pc \notin Saving

(* The grant is on disk, or on its way there, or given up.                 *)
Backed ==
  \/ disk.refresh \in grants
  \/ Lost
  \/ \E f \in Flow : flow[f].pc \in {"granted", "writing"} /\ flow[f].result.refresh # 0

(* A grant that is lost stays lost: whatever is presented, it is refused.  *)
LostForGood ==
  Lost =>
    /\ "keep" \notin Events /\ "signin" \notin Events
    /\ \A f \in Flow : ~Carries(flow[f]) /\ flow[f].pc # "welcome"
    /\ grants \cap Heard = {}
    /\ disk = None \/ \E f \in Flow : flow[f].pc = "dead"

(* A refresh token not yet stored is known to the request that got it only. *)
Secret(r) ==
  \/ r.pc = "signed"
  \/ r.pc = "granted" /\ r.result.refresh # 0
  \/ r.pc = "writing" /\ "keep" \notin Events

Secrets ==
  \A f \in Flow :
    Secret(flow[f]) =>
      /\ flow[f].result.refresh \notin Heard
      /\ \A g \in Flow \ {f} : flow[g].result.refresh # flow[f].result.refresh

(* Without sign-ins there is a single grant.                               *)
OneGrant == "signin" \notin Events => \A t, u \in grants : t = u

RotationInv ==
  /\ \A f \in Flow : Honoured(flow[f])
  /\ Alone
  /\ Backed
  /\ LostForGood
  /\ Secrets
  /\ OneGrant

(* What the proofs below rest on, with it.                                 *)
Base == TypeInv /\ Holds /\ FreshInv /\ DrainInv

-----------------------------------------------------------------------------
(* One request in its critical section, and what it finds there.           *)

LEMMA OnlyOne ==
  ASSUME Base, NEW f \in Flow, flow[f].pc \in Critical
  PROVE  \A g \in Flow \ {f} : flow[g].pc \notin Critical
BY DEF Base, Holds

LEMMA RotatingIsCritical ==
  Rotating \subseteq Critical /\ Saving \cap Critical = {} /\ Rotating \cap Saving = {}
BY DEF Rotating, Saving, Critical

LEMMA ZeroIsNone ==
  ASSUME Base
  PROVE  0 \notin grants /\ 0 \notin alive /\ None.access = 0 /\ None.refresh = 0
BY DEF Base, TypeInv, TypeOK, FreshInv, Numbered, None

(* A usable access token is one the server accepts.                        *)
LEMMA UsableIsAlive ==
  ASSUME Base, NEW f \in Flow, flow[f].pc \in {"locked", "denied"}
  PROVE  Usable(f) <=> disk.access \in alive
<1>1. InOrder(flow[f], rejected[Owner[f]]) /\ FileInStep
  BY DEF Base, FreshInv
<1>2. Refusal(flow[f].rejected)
  BY <1>1 DEF InOrder, Critical
<1> QED
  BY <1>1, <1>2, ZeroIsNone DEF Usable, FileInStep, Refusal

(* Under the lock, before it presents anything, a request finds the grant  *)
(* on disk, or the marker and nothing on disk.                             *)
LEMMA UnderLock ==
  ASSUME Base, RotationInv, NEW f \in Flow, flow[f].pc \in {"locked", "denied", "sent"}
  PROVE  \/ ~Lost /\ disk.refresh \in grants
         \/ Lost /\ marker = "set" /\ disk = None
<1>1. \A g \in Flow : flow[g].pc \notin {"granted", "writing", "dead", "marking"}
  BY OnlyOne DEF Critical
<1>2. Backed /\ LostForGood
  BY DEF RotationInv
<1>3. CASE Lost
  BY <1>1, <1>2, <1>3 DEF Lost, LostForGood
<1>4. CASE ~Lost
  BY <1>1, <1>2, <1>4 DEF Backed
<1> QED
  BY <1>3, <1>4

(* A step that leaves the server, the tokens on disk and the marker, in    *)
(* which nothing is lost that was not, and no token gets about.            *)
LEMMA CalmStep ==
  ASSUME Base, RotationInv,
         NEW f \in Flow, \A g \in Flow \ {f} : flow'[g] = flow[g],
         UNCHANGED <<grants, alive, disk, marker>>,
         \A p \in Proc : mem'[p].refresh \in Heard,
         flow'[f].token \in Heard,
         flow'[f].result.refresh \in Heard \cup {flow[f].result.refresh},
         Honoured(flow[f])',
         flow'[f].pc \in Rotating =>
           \/ flow[f].pc \in Rotating
           \/ \A g \in Flow \ {f} : flow[g].pc \notin Saving,
         flow'[f].pc \in Saving =>
           \/ flow[f].pc \in Saving
           \/ \A g \in Flow \ {f} : flow[g].pc \notin Rotating,
         flow[f].pc \notin {"dead", "marking"},
         flow'[f].pc \in {"dead", "marking"} => Lost,
         Lost => ~Carries(flow[f])' /\ flow'[f].pc # "welcome",
         flow[f].pc \in {"granted", "writing"} =>
           /\ flow'[f].pc \in {"granted", "writing"}
           /\ flow[f].result.refresh # 0 => flow'[f].result.refresh # 0,
         Secret(flow[f])' =>
           Secret(flow[f]) /\ flow'[f].result.refresh = flow[f].result.refresh
  PROVE  RotationInv'
<1>1. /\ Alone /\ Backed /\ LostForGood /\ Secrets /\ OneGrant
      /\ \A g \in Flow : Honoured(flow[g])
  BY DEF RotationInv
<1>2. Lost' <=> Lost
  BY DEF Lost
<1>3. Heard' \subseteq Heard
  BY DEF Heard
<1>4. \A g \in Flow : Honoured(flow[g])'
  BY <1>1 DEF Honoured
<1>5. Alone'
  BY <1>1, RotatingIsCritical DEF Alone
<1>6. Backed'
  <2>1. CASE disk.refresh \in grants \/ Lost
    BY <1>2, <2>1 DEF Backed
  <2>2. ASSUME NEW g \in Flow, flow[g].pc \in {"granted", "writing"},
               flow[g].result.refresh # 0
        PROVE  Backed'
    BY <2>2 DEF Backed
  <2> QED
    BY <1>1, <2>1, <2>2 DEF Backed
<1>7. LostForGood'
  <2> SUFFICES ASSUME Lost PROVE LostForGood'
    BY <1>2 DEF LostForGood
  <2>1. \A g \in Flow : ~Carries(flow[g])' /\ flow'[g].pc # "welcome"
    BY <1>1 DEF LostForGood, Carries, Done
  <2>2. disk = None \/ \E g \in Flow : flow'[g].pc = "dead"
    BY <1>1 DEF LostForGood
  <2> QED
    BY <1>1, <1>3, <2>1, <2>2 DEF LostForGood
<1>8. Secrets'
  <2> SUFFICES ASSUME NEW g \in Flow, Secret(flow[g])'
               PROVE  /\ flow'[g].result.refresh \notin Heard'
                      /\ \A h \in Flow \ {g} : flow'[h].result.refresh # flow'[g].result.refresh
    BY DEF Secrets
  <2>1. Secret(flow[g]) /\ flow'[g].result.refresh = flow[g].result.refresh
    BY DEF Secret
  <2>2. /\ flow[g].result.refresh \notin Heard
        /\ \A h \in Flow \ {g} : flow[h].result.refresh # flow[g].result.refresh
    BY <1>1, <2>1 DEF Secrets
  <2> QED
    BY <1>3, <2>1, <2>2
<1>9. OneGrant'
  BY <1>1 DEF OneGrant
<1> QED
  BY <1>4, <1>5, <1>6, <1>7, <1>8, <1>9 DEF RotationInv

LEMMA HeardHas ==
  ASSUME Base, NEW f \in Flow
  PROVE  /\ \A p \in Proc : mem[p].refresh \in Heard /\ OnDisk(p).refresh \in Heard
         /\ 0 \in Heard /\ None.refresh \in Heard /\ disk.refresh \in Heard
         /\ flow[f].token \in Heard /\ TokenToSend(f) \in Heard
BY DEF Heard, OnDisk, TokenToSend, None

LEMMA MemHeard ==
  ASSUME Base, NEW p \in Proc, NEW t, t.refresh \in Heard,
         mem' = mem \/ mem' = [mem EXCEPT ![p] = t]
  PROVE  \A q \in Proc : mem'[q].refresh \in Heard
BY DEF Heard, Base, TypeInv, TypeOK

(* A request that ends keeps RotationInv, if it was not rotating.          *)
LEMMA EndsCalmly ==
  ASSUME Base, RotationInv, NEW f \in Flow, Ends(f),
         UNCHANGED <<grants, alive, disk, marker>>,
         \A p \in Proc : mem'[p].refresh \in Heard,
         flow[f].pc \notin {"dead", "marking", "granted", "writing"}
  PROVE  RotationInv'
<1>1. /\ flow'[f].pc = "idle" /\ flow'[f].token = 0 /\ flow'[f].result.refresh = 0
      /\ \A g \in Flow \ {f} : flow'[g] = flow[g]
  BY DEF Ends, Becomes, None
<1>2. 0 \in Heard
  BY DEF Heard
<1>3. Honoured(flow[f])' /\ ~Carries(flow[f])' /\ ~Secret(flow[f])'
  BY <1>1 DEF Honoured, Carries, Done, Secret
<1> QED
  BY <1>1, <1>2, <1>3, CalmStep DEF Rotating, Saving

(* A request that goes on with what it has does too.                       *)
LEMMA TurnsCalmly ==
  ASSUME Base, RotationInv, NEW f \in Flow, NEW pc, NEW outcome, Turns(f, pc, outcome),
         UNCHANGED <<grants, alive, disk, marker, mem>>,
         flow[f].pc \notin {"dead", "marking", "granted", "writing"},
         pc \notin {"granted", "writing", "marking", "signed"},
         pc = "dead" => Lost,
         Honoured(flow[f])',
         Carries([pc |-> pc, outcome |-> outcome]) => Carries(flow[f]),
         pc = "welcome" => flow[f].pc = "signed",
         pc \in Rotating => flow[f].pc \in Rotating,
         pc \in Saving => flow[f].pc \in Critical
  PROVE  RotationInv'
<1>1. /\ flow'[f].pc = pc /\ flow'[f].outcome = outcome
      /\ flow'[f].token = flow[f].token /\ flow'[f].result = flow[f].result
      /\ \A g \in Flow \ {f} : flow'[g] = flow[g]
  BY DEF Turns, Becomes
<1>2. \A p \in Proc : mem'[p].refresh \in Heard
  BY HeardHas
<1>3. flow'[f].token \in Heard
  BY <1>1, HeardHas
<1>4. Carries(flow[f])' => Carries(flow[f])
  BY <1>1 DEF Carries, Done
<1>5. ~Secret(flow[f])'
  BY <1>1 DEF Secret
<1>6. Lost => ~Carries(flow[f])' /\ pc # "welcome"
  BY <1>4 DEF RotationInv, LostForGood, Carries
<1>7. pc \in Saving => \A g \in Flow \ {f} : flow[g].pc \notin Rotating
  BY OnlyOne, RotatingIsCritical
<1> QED
  BY <1>1, <1>2, <1>3, <1>5, <1>6, <1>7, CalmStep

-----------------------------------------------------------------------------
(* Each operation keeps RotationInv.                                       *)
LEMMA ClientRotation ==
  ASSUME Scope, Base, RotationInv, NEW f \in Flow, Client(f)
  PROVE  RotationInv'
<1> DEFINE p == Owner[f]
<1> USE DEF server, files, provider, process, At
<1>0. TypeOK /\ p \in Proc /\ Honoured(flow[f])
  BY TokenAssumption DEF Base, TypeInv, RotationInv
<1>1. CASE Request(f)
  <2>1. Becomes(f, "requested", OnDisk(p).access, 0, 0, None, "error")
    BY <1>0, <1>1, ClientMoves
  <2>2. \A q \in Proc : mem'[q].refresh \in Heard
    BY <1>0, <1>1, HeardHas, MemHeard DEF Request
  <2>3. Honoured(flow[f])' /\ ~Carries(flow[f])' /\ ~Secret(flow[f])'
    BY <2>1 DEF Becomes, Honoured, Carries, Done, Secret
  <2> QED
    BY <1>1, <2>1, <2>2, <2>3, HeardHas, CalmStep DEF Request, Becomes, Rotating, Saving, None
<1>2. CASE Served(f)
  <2>1. Ends(f)
    BY <1>0, <1>2, ClientMoves
  <2> QED
    BY <1>2, <2>1, HeardHas, EndsCalmly DEF Served
<1>3. CASE Refused(f)
  <2>1. Turns(f, "unauthorized", flow[f].outcome)
    BY <1>0, <1>3, ClientMoves DEF Moves, Turns
  <2>2. Honoured(flow[f])'
    BY <2>1 DEF Turns, Becomes, Honoured, Done
  <2> QED
    BY <1>3, <2>1, <2>2, TurnsCalmly DEF Refused, Carries, Done, Rotating, Saving
<1>4. CASE Enqueue(f)
  <2>1. \A q \in Proc : mem'[q].refresh \in Heard
    BY <1>0, <1>4, HeardHas, MemHeard DEF Enqueue
  <2>2. CASE Ends(f)
    BY <1>4, <2>1, <2>2, EndsCalmly DEF Enqueue
  <2>3. CASE Becomes(f, "queued", flow[f].bearer, rejected[p], OnDisk(p).refresh,
                     flow[f].result, flow[f].outcome)
    <3>1. Honoured(flow[f])' /\ ~Carries(flow[f])' /\ ~Secret(flow[f])'
      BY <2>3 DEF Becomes, Honoured, Carries, Done, Secret
    <3> QED
      BY <1>0, <1>4, <2>1, <2>3, <3>1, HeardHas, CalmStep DEF Enqueue, Becomes, Rotating, Saving
  <2> QED
    BY <1>0, <1>4, <2>2, <2>3, ClientMoves
<1> QED
  BY <1>1, <1>2, <1>3, <1>4 DEF Client

LEMMA LockingRotation ==
  ASSUME Scope, Base, RotationInv, NEW f \in Flow, Locking(f)
  PROVE  RotationInv'
<1> USE DEF server, files, provider, process, At
<1>0. TypeOK /\ Honoured(flow[f])
  BY DEF Base, TypeInv, RotationInv
<1>1. CASE EnsureLockTarget(f)
  <2>1. Turns(f, "locking", flow[f].outcome)
    BY <1>0, <1>1, LockingMoves DEF Moves, Turns
  <2>2. Honoured(flow[f])'
    BY <2>1 DEF Turns, Becomes, Honoured, Done
  <2> QED
    BY <1>1, <2>1, <2>2, TurnsCalmly DEF EnsureLockTarget, Carries, Done, Rotating, Saving
<1>2. CASE Acquire(f)
  <2>1. Turns(f, "locked", flow[f].outcome)
    BY <1>0, <1>2, LockingMoves DEF Moves, Turns
  <2>2. Honoured(flow[f])'
    BY <2>1 DEF Turns, Becomes, Honoured, Done
  <2> QED
    BY <1>2, <2>1, <2>2, TurnsCalmly DEF Acquire, Carries, Done, Rotating, Saving
<1>3. CASE LockBusy(f)
  <2>1. Ends(f)
    BY <1>0, <1>3, LockingMoves
  <2> QED
    BY <1>3, <2>1, HeardHas, EndsCalmly DEF LockBusy
<1>4. ~LockLost(f)
  BY DEF LockLost, MayFail, Base, Holds, Critical
<1>5. CASE Release(f)
  <2>1. UNCHANGED <<grants, alive, disk, marker, mem>> /\ flow[f].pc = "releasing"
    BY <1>5 DEF Release
  <2>2. CASE flow[f].outcome = "ok" /\ Moves(f, "saving")
    <3>1. Turns(f, "saving", flow[f].outcome)
      BY <2>2 DEF Moves, Turns
    <3>2. Done(flow[f])
      BY <2>1, <2>2 DEF Done
    <3>3. Honoured(flow[f])'
      BY <1>0, <2>1, <3>1, <3>2 DEF Turns, Becomes, Honoured
    <3>4. Carries(flow[f]) /\ flow[f].pc \in Critical /\ "saving" \notin Rotating
      BY <2>1, <3>2 DEF Carries, Critical, Rotating
    <3>5. flow[f].pc \notin {"dead", "marking", "granted", "writing"}
      BY <2>1
    <3>6. /\ "saving" \notin {"granted", "writing", "marking", "signed"}
          /\ "saving" # "dead" /\ "saving" # "welcome"
      OBVIOUS
    <3> QED
      BY <2>1, <3>1, <3>3, <3>4, <3>5, <3>6, TurnsCalmly
  <2>3. CASE Moves(f, "invalidating")
    <3>1. Turns(f, "invalidating", flow[f].outcome)
      BY <2>3 DEF Moves, Turns
    <3>2. Honoured(flow[f])'
      BY <3>1 DEF Turns, Becomes, Honoured, Done
    <3> QED
      BY <2>1, <3>1, <3>2, TurnsCalmly DEF Carries, Done, Rotating, Saving
  <2>4. CASE Ends(f)
    BY <2>1, <2>4, HeardHas, EndsCalmly
  <2> QED
    BY <1>0, <1>5, <2>2, <2>3, <2>4, LockingMoves
<1> QED
  BY <1>1, <1>2, <1>3, <1>4, <1>5 DEF Locking

(* The answer read from disk, and the token presented.                     *)
LEMMA ReadRotation ==
  ASSUME Scope, Base, RotationInv, NEW f \in Flow, ReadUnderLock(f)
  PROVE  RotationInv'
<1> USE DEF server, files, provider, process, At
<1>0. TypeOK /\ flow[f].pc = "locked" /\ flow[f].pc \in Critical
      /\ UNCHANGED <<grants, alive, disk, marker, mem>>
  BY DEF Base, TypeInv, ReadUnderLock, Critical
<1>1. \/ ~Lost /\ disk.refresh \in grants
      \/ Lost /\ marker = "set" /\ disk = None
  BY <1>0, UnderLock
<1>2. Usable(f) <=> disk.access \in alive
  BY <1>0, UsableIsAlive
<1>3. \A q \in Proc : mem'[q].refresh \in Heard
  BY <1>0, HeardHas
<1>4. CASE Usable(f) /\ Gets(f, "unmarking", disk, "ok")
  <2>1. ~Lost /\ disk.refresh \in grants /\ disk.access \in alive
    BY <1>1, <1>2, <1>4, ZeroIsNone
  <2>2. Honoured(flow[f])' /\ ~Secret(flow[f])'
    BY <1>0, <1>4, <2>1 DEF Gets, Becomes, Honoured, Secret
  <2> QED
    BY <1>0, <1>3, <1>4, <2>1, <2>2, HeardHas, CalmStep DEF Gets, Becomes, Rotating, Saving
<1>5. CASE ~Usable(f) /\ Becomes(f, "sent", flow[f].bearer, flow[f].rejected, TokenToSend(f),
                                 flow[f].result, flow[f].outcome)
  <2>1. \A g \in Flow : flow[g].pc \notin Saving
    BY <1>2, <1>5 DEF RotationInv, Honoured, Done, Saving
  <2>2. TokenToSend(f) \in grants \/ marker = "set"
    BY <1>1, ZeroIsNone DEF TokenToSend
  <2>3. Honoured(flow[f])' /\ ~Secret(flow[f])' /\ ~Carries(flow[f])'
    BY <1>0, <1>5, <2>2 DEF Becomes, Honoured, Secret, Carries, Done
  <2> QED
    BY <1>0, <1>3, <1>5, <2>1, <2>3, HeardHas, CalmStep DEF Becomes, Saving
<1> QED
  BY <1>0, <1>4, <1>5, TransactionMoves

(* The answers of the server that use nothing up.                          *)
LEMMA RefusalRotation ==
  ASSUME Scope, Base, RotationInv, NEW f \in Flow, ServerDenies(f) \/ ServerErrs(f)
  PROVE  RotationInv'
<1> USE DEF server, files, provider, process, At
<1>0. /\ TypeOK /\ Honoured(flow[f]) /\ flow[f].pc = "sent"
      /\ UNCHANGED <<grants, alive, disk, marker, mem>>
  BY DEF Base, TypeInv, RotationInv, ServerDenies, ServerErrs
<1>1. CASE ServerDenies(f)
  <2>1. Turns(f, "denied", flow[f].outcome)
    BY <1>0, <1>1, AnswerMoves DEF Moves, Turns
  <2>2. marker = "set"
    BY <1>0, <1>1 DEF ServerDenies, Honoured
  <2>3. Honoured(flow[f])'
    BY <1>0, <2>1, <2>2 DEF Turns, Becomes, Honoured, Done
  <2> QED
    BY <1>0, <2>1, <2>3, TurnsCalmly DEF Carries, Done, Rotating, Saving
<1>2. CASE ServerErrs(f)
  <2>1. Turns(f, "releasing", "error")
    BY <1>0, <1>2, AnswerMoves
  <2>2. Honoured(flow[f])'
    BY <2>1 DEF Turns, Becomes, Honoured, Done
  <2> QED
    BY <1>0, <2>1, <2>2, TurnsCalmly DEF Carries, Done, Rotating, Saving
<1> QED
  BY <1>1, <1>2

(* An answer that holds is merged with what is on disk: with the refresh   *)
(* token there when the answer has none.                                   *)
LEMMA MergeRotation ==
  ASSUME Scope, Base, RotationInv, NEW f \in Flow, MergeRotated(f)
  PROVE  RotationInv'
<1> DEFINE p == Owner[f]
           m == Merge(p, flow[f].result)
<1> USE DEF server, files, provider, process, At
<1>0. /\ TypeOK /\ Honoured(flow[f]) /\ flow[f].pc = "granted"
      /\ UNCHANGED <<grants, alive, disk, marker, mem>>
  BY DEF Base, TypeInv, RotationInv, MergeRotated
<1>1. Gets(f, "writing", m, flow[f].outcome)
  BY <1>0, TransactionMoves
<1>2. flow[f].result \in Known /\ FreshInv
  BY DEF Base, FreshInv, InOrder
<1>3. flow[f].result.refresh # 0 => m.refresh = flow[f].result.refresh
  BY <1>0, <1>2, ReadsKnown
<1>4. flow[f].result.refresh = 0 =>
        m.refresh = disk.refresh /\ disk.refresh \in grants /\ "keep" \in Events
  <2> SUFFICES ASSUME flow[f].result.refresh = 0
               PROVE  m.refresh = disk.refresh /\ disk.refresh \in grants /\ "keep" \in Events
    OBVIOUS
  <2>1. disk.refresh \in grants /\ disk.refresh # 0 /\ "keep" \in Events
    BY <1>0, ZeroIsNone DEF Honoured
  <2>2. OnDisk(p) = disk /\ disk # None
    BY <1>0, <1>2, <2>1, ReadsKnown, ZeroIsNone
  <2> QED
    BY <2>1, <2>2 DEF Merge
<1> HIDE DEF m
<1>5. m.refresh \in grants /\ m.refresh # 0
  BY <1>0, <1>3, <1>4, ZeroIsNone DEF Honoured
<1>6. m.refresh \in Heard \cup {flow[f].result.refresh} /\ flow[f].token \in Heard
      /\ \A q \in Proc : mem'[q].refresh \in Heard
  BY <1>0, <1>3, <1>4, HeardHas
<1>7. ~Lost
  BY <1>0 DEF RotationInv, LostForGood, Carries
<1>8. Honoured(flow[f])'
  BY <1>0, <1>1, <1>5 DEF Gets, Becomes, Honoured, Done
<1>9. Secret(flow[f])' => Secret(flow[f]) /\ flow'[f].result.refresh = flow[f].result.refresh
  BY <1>0, <1>1, <1>3, <1>4 DEF Gets, Becomes, Secret
<1>10. /\ flow'[f].pc = "writing" /\ flow'[f].token = flow[f].token /\ flow'[f].result = m
       /\ \A g \in Flow \ {f} : flow'[g] = flow[g]
  BY <1>1 DEF Gets, Becomes
<1> QED
  BY <1>0, <1>5, <1>6, <1>7, <1>8, <1>9, <1>10, CalmStep DEF Rotating, Saving

(* Clearing the marker after a rotation clears nothing that was set since. *)
LEMMA ClearRotation ==
  ASSUME Scope, Base, RotationInv, NEW f \in Flow, ClearMarker(f)
  PROVE  RotationInv'
<1> USE DEF server, files, provider, process, At
<1>0. /\ TypeOK /\ Honoured(flow[f]) /\ flow[f].pc = "unmarking"
      /\ UNCHANGED <<grants, alive, disk, mem>> /\ marker' = "clear"
  BY DEF Base, TypeInv, RotationInv, ClearMarker
<1>1. Turns(f, "releasing", flow[f].outcome)
  BY <1>0, TransactionMoves DEF Moves, Turns
<1>2. ~Lost /\ Carries(flow[f])
  BY <1>0 DEF RotationInv, LostForGood, Carries, Done
<1>3. marker' = marker
  BY <1>0, <1>2 DEF Lost, TypeOK
<1>4. Honoured(flow[f])'
  BY <1>0, <1>1, <1>3 DEF Turns, Becomes, Honoured, Done
<1>5. /\ "releasing" \notin Rotating \cup Saving
      /\ "releasing" \notin {"granted", "writing", "marking", "signed", "dead", "welcome"}
  BY DEF Rotating, Saving
<1> QED
  BY <1>0, <1>1, <1>2, <1>3, <1>4, <1>5, TurnsCalmly

(* A token refused though it was the one on disk: nobody has rotated it.   *)
LEMMA RecheckRotation ==
  ASSUME Scope, Base, RotationInv, NEW f \in Flow, Recheck(f)
  PROVE  RotationInv'
<1> USE DEF server, files, provider, process, At
<1>0. /\ TypeOK /\ Honoured(flow[f]) /\ flow[f].pc = "denied"
      /\ UNCHANGED <<grants, alive, disk, marker, mem>>
  BY DEF Base, TypeInv, RotationInv, Recheck
<1>1. marker = "set" /\ Lost
  BY <1>0 DEF Honoured, Lost
<1>2. ~PeerRotated(f)
  BY <1>0, <1>1, UnderLock, ZeroIsNone DEF PeerRotated
<1>3. CASE Moves(f, "denied")
  <2>1. Turns(f, "denied", flow[f].outcome)
    BY <1>3 DEF Moves, Turns
  <2>2. Honoured(flow[f])'
    BY <1>0, <1>1, <2>1 DEF Turns, Becomes, Honoured, Done
  <2> QED
    BY <1>0, <2>1, <2>2, TurnsCalmly DEF Carries, Done, Rotating, Saving
<1>4. CASE Turns(f, "dead", "invalid")
  <2>1. Honoured(flow[f])'
    BY <1>4 DEF Turns, Becomes, Honoured, Done
  <2> QED
    BY <1>0, <1>1, <1>4, <2>1, TurnsCalmly DEF Carries, Done, Rotating, Saving
<1> QED
  BY <1>0, <1>2, <1>3, <1>4, TransactionMoves

(* What the SDK does with the answer, but for the writes.                  *)
LEMMA SaveRotation ==
  ASSUME Scope, Base, RotationInv, NEW f \in Flow, SaveTokens(f)
  PROVE  RotationInv'
<1> DEFINE p == Owner[f]
           m == Merge(p, Incoming(f))
<1> USE DEF server, files, provider, process, At
<1>0. /\ TypeOK /\ p \in Proc /\ Honoured(flow[f]) /\ flow[f].pc = "saving"
      /\ UNCHANGED <<grants, alive, disk, marker>>
  BY TokenAssumption DEF Base, TypeInv, RotationInv, SaveTokens
<1>1. \A q \in Proc : mem'[q].refresh \in Heard
  BY <1>0, HeardHas, MemHeard DEF SaveTokens
<1>2. CASE Ends(f)
  BY <1>0, <1>1, <1>2, EndsCalmly
<1>3. CASE Gets(f, "overwriting", m, flow[f].outcome)
  <2>1. disk.access \in alive /\ flow[f].result.refresh \in grants /\ flow[f].result.refresh # 0
    BY <1>0, ZeroIsNone DEF Honoured, Done
  <2>2. m.refresh = flow[f].result.refresh
    BY <1>0, <2>1, ReadsKnown DEF Base
  <2> HIDE DEF m
  <2>3. ~Lost
    BY <1>0 DEF RotationInv, LostForGood, Carries, Done
  <2>4. /\ flow'[f].pc = "overwriting" /\ flow'[f].token = flow[f].token /\ flow'[f].result = m
        /\ \A g \in Flow \ {f} : flow'[g] = flow[g]
    BY <1>3 DEF Gets, Becomes
  <2>5. Honoured(flow[f])' /\ ~Secret(flow[f])'
    BY <1>0, <2>1, <2>2, <2>4 DEF Honoured, Done, Secret
  <2> QED
    BY <1>0, <1>1, <2>2, <2>3, <2>4, <2>5, HeardHas, CalmStep DEF Rotating, Saving
<1> QED
  BY <1>0, <1>2, <1>3, AfterwardsMoves

LEMMA InvalidateRotation ==
  ASSUME Scope, Base, RotationInv, NEW f \in Flow, Invalidate(f) \/ CheckMarker(f)
  PROVE  RotationInv'
<1> USE DEF server, files, provider, process, At
<1>0. /\ TypeOK /\ Owner[f] \in Proc /\ flow[f].pc \in {"invalidating", "checking"}
      /\ UNCHANGED <<grants, alive, disk, marker>>
  BY TokenAssumption DEF Base, TypeInv, Invalidate, CheckMarker
<1>1. \A q \in Proc : mem'[q].refresh \in Heard
  BY <1>0, HeardHas, MemHeard DEF Invalidate, CheckMarker
<1>2. \/ Moves(f, "unauthorized") \/ Moves(f, "checking")
      \/ marker = "set" /\ Moves(f, "discarding")
  BY <1>0, AfterwardsMoves
<1>3. /\ flow'[f].pc \in {"unauthorized", "checking", "discarding"}
      /\ flow'[f].token = flow[f].token /\ flow'[f].result = flow[f].result
      /\ flow'[f].pc = "discarding" => marker = "set"
      /\ \A g \in Flow \ {f} : flow'[g] = flow[g]
  BY <1>2 DEF Moves, Becomes
<1>4. Honoured(flow[f])' /\ ~Secret(flow[f])' /\ ~Carries(flow[f])'
  BY <1>0, <1>3 DEF Honoured, Done, Secret, Carries
<1> QED
  BY <1>0, <1>1, <1>3, <1>4, HeardHas, CalmStep DEF Rotating, Saving

(* A sign-in that ends finds the marker clear.                             *)
LEMMA WelcomeRotation ==
  ASSUME Scope, Base, RotationInv, NEW f \in Flow, FinishSignIn(f)
  PROVE  RotationInv'
<1> USE DEF server, files, provider, process, At
<1>0. /\ TypeOK /\ flow[f].pc = "welcome" /\ marker' = "clear"
      /\ UNCHANGED <<grants, alive, disk, mem>>
  BY DEF Base, TypeInv, FinishSignIn
<1>1. marker' = marker
  BY <1>0 DEF RotationInv, LostForGood, Lost, TypeOK
<1>2. Ends(f)
  BY <1>0, SignMoves
<1> QED
  BY <1>0, <1>1, <1>2, HeardHas, EndsCalmly

(* An answer is lost: nobody else has the refresh token that came with it. *)
LEMMA LossRotation ==
  ASSUME Scope, Base, RotationInv, NEW f \in Flow, UnusableBody(f) \/ PersistFails(f)
  PROVE  RotationInv'
<1> USE DEF server, files, provider, process, At
<1>0. /\ TypeOK /\ Honoured(flow[f]) /\ flow[f].pc \in {"granted", "writing"}
      /\ UNCHANGED <<grants, alive, disk, marker, mem>>
      /\ "keep" \notin Events /\ "signin" \notin Events
  BY DEF Scope, Base, TypeInv, RotationInv, UnusableBody, PersistFails
<1>1. /\ flow'[f].pc = "dead" /\ flow'[f].outcome = "error"
      /\ flow'[f].token = flow[f].token /\ flow'[f].result = flow[f].result
      /\ \A g \in Flow \ {f} : flow'[g] = flow[g]
  BY <1>0, TransactionMoves DEF Turns, Becomes
<1>2. /\ \A g \in Flow : Honoured(flow[g])
      /\ Alone /\ Secrets /\ OneGrant
  BY DEF RotationInv
<1>3. flow[f].result.refresh \in grants /\ Secret(flow[f])
  BY <1>0, ZeroIsNone DEF Honoured, Secret
<1>4. Heard' = Heard
  <2>1. \A g \in Flow : flow'[g].token = flow[g].token
    BY <1>1
  <2> QED
    BY <1>0, <2>1 DEF Heard
<1>5. grants \cap Heard = {}
  BY <1>0, <1>2, <1>3 DEF Secrets, OneGrant
<1>6. ASSUME NEW g \in Flow \ {f} PROVE ~Carries(flow[g]) /\ flow[g].pc # "welcome"
  <2>1. flow[g].pc \notin Critical /\ flow[g].pc \notin Saving
    BY <1>0, <1>2, OnlyOne DEF Alone, Critical, Rotating
  <2>2. flow[g].pc \notin {"signed", "welcome"}
    BY <1>0, <1>2 DEF Honoured
  <2> QED
    BY <2>1, <2>2 DEF Carries, Done, Critical, Saving
<1>7. ASSUME NEW g \in Flow PROVE Honoured(flow[g])' /\ ~Secret(flow[g])' /\ ~Carries(flow[g])'
                                  /\ flow'[g].pc # "welcome"
  <2>1. CASE g = f
    BY <1>1, <2>1 DEF Honoured, Secret, Carries, Done
  <2>2. CASE g # f
    <3>1. flow'[g] = flow[g] /\ ~Carries(flow[g]) /\ flow[g].pc # "welcome"
      BY <1>1, <1>6, <2>2
    <3> QED
      BY <1>0, <1>2, <3>1 DEF Honoured, Secret, Carries, Done
  <2> QED
    BY <2>1, <2>2
<1>8. Lost'
  BY <1>1 DEF Lost
<1>9. Alone'
  BY <1>0, <1>1, <1>2 DEF Alone, Rotating, Saving
<1>10. LostForGood'
  BY <1>0, <1>1, <1>4, <1>5, <1>7 DEF LostForGood
<1>11. Backed' /\ Secrets' /\ OneGrant'
  BY <1>0, <1>2, <1>7, <1>8 DEF Backed, Secrets, OneGrant
<1> QED
  BY <1>7, <1>9, <1>10, <1>11 DEF RotationInv

(* The tokens go once they are lost, and the user is told.                 *)
LEMMA ForgetRotation ==
  ASSUME Scope, Base, RotationInv, NEW f \in Flow,
         ClearTokens(f) \/ Discard(f) \/ MarkNeedsReconnect(f)
  PROVE  RotationInv'
<1> USE DEF server, files, provider, process, At
<1>0. /\ TypeOK /\ Owner[f] \in Proc /\ Honoured(flow[f])
      /\ UNCHANGED <<grants, alive>>
      /\ flow[f].pc \in {"dead", "marking", "discarding"}
  BY TokenAssumption DEF Base, TypeInv, RotationInv, ClearTokens, Discard, MarkNeedsReconnect
<1>1. Lost
  BY <1>0 DEF Honoured, Lost
<1>2. /\ "keep" \notin Events /\ "signin" \notin Events
      /\ \A g \in Flow : ~Carries(flow[g]) /\ flow[g].pc # "welcome"
      /\ grants \cap Heard = {}
      /\ disk = None \/ \E g \in Flow : flow[g].pc = "dead"
  BY <1>1 DEF RotationInv, LostForGood
<1>3. /\ \A g \in Flow : Honoured(flow[g])
      /\ Alone /\ Secrets /\ OneGrant
  BY DEF RotationInv
<1>4. /\ flow'[f].outcome = flow[f].outcome
      /\ flow'[f].token = flow[f].token /\ flow'[f].result = flow[f].result
      /\ \A g \in Flow \ {f} : flow'[g] = flow[g]
      /\ \/ flow[f].pc = "dead" /\ flow'[f].pc = "marking"
         \/ flow[f].pc = "discarding" /\ flow'[f].pc = "unauthorized"
         \/ flow[f].pc = "marking" /\ flow'[f].pc = "releasing"
  BY <1>0, TransactionMoves, AfterwardsMoves
     DEF ClearTokens, Discard, MarkNeedsReconnect, Moves, Becomes
<1>5. flow[f].pc \in {"dead", "marking"} => flow[f].outcome # "ok"
  BY DEF Base, FreshInv, InOrder
<1>6. marker' = "set" \/ (marker' = marker /\ flow[f].pc # "marking")
  BY <1>0 DEF ClearTokens, Discard, MarkNeedsReconnect
<1>7. Lost'
  BY <1>0, <1>1, <1>4, <1>6 DEF Lost, Honoured
<1>8. disk' = None
  <2>1. CASE ClearTokens(f) \/ Discard(f)
    BY <2>1 DEF ClearTokens, Discard, Forget
  <2>2. CASE MarkNeedsReconnect(f)
    <3>1. flow[f].pc = "marking" /\ disk' = disk
      BY <2>2 DEF MarkNeedsReconnect
    <3>2. \A g \in Flow : flow[g].pc # "dead"
      BY <3>1, OnlyOne DEF Critical
    <3> QED
      BY <1>2, <3>1, <3>2
  <2> QED
    BY <2>1, <2>2
<1>9. Heard' \subseteq Heard
  <2>1. \A q \in Proc : mem'[q].refresh \in Heard
    <3>1. mem' = mem \/ mem' = [mem EXCEPT ![Owner[f]] = None]
      BY DEF ClearTokens, Discard, MarkNeedsReconnect, Forget
    <3> QED
      BY <1>0, <3>1, HeardHas, MemHeard
  <2>2. \A g \in Flow : flow'[g].token \in Heard
    BY <1>4, HeardHas
  <2> QED
    BY <1>8, <2>1, <2>2, HeardHas DEF Heard
<1>10. ASSUME NEW g \in Flow PROVE Honoured(flow[g])' /\ ~Secret(flow[g])' /\ ~Carries(flow[g])'
                                   /\ flow'[g].pc # "welcome"
  <2>1. CASE g = f
    BY <1>0, <1>4, <1>5, <2>1 DEF Honoured, Secret, Carries, Done
  <2>2. CASE g # f
    <3>1. flow'[g] = flow[g] /\ ~Carries(flow[g]) /\ flow[g].pc # "welcome"
      BY <1>2, <1>4, <2>2
    <3> QED
      BY <1>0, <1>3, <1>6, <3>1 DEF Honoured, Secret, Carries, Done
  <2> QED
    BY <2>1, <2>2
<1>11. Alone'
  BY <1>0, <1>3, <1>4 DEF Alone, Rotating, Saving
<1>12. LostForGood'
  BY <1>0, <1>2, <1>8, <1>9, <1>10 DEF LostForGood
<1>13. Backed' /\ Secrets' /\ OneGrant'
  BY <1>0, <1>3, <1>7, <1>10 DEF Backed, Secrets, OneGrant
<1> QED
  BY <1>10, <1>11, <1>12, <1>13 DEF RotationInv

(* A write puts a refresh token the server honours on disk.                *)
LEMMA WriteStep ==
  ASSUME Base, RotationInv, NEW f \in Flow, \A g \in Flow \ {f} : flow'[g] = flow[g],
         flow[f].pc \in {"writing", "overwriting", "signed"},
         UNCHANGED <<grants, alive, marker>>,
         disk' = flow[f].result,
         mem' = mem \/ mem' = [mem EXCEPT ![Owner[f]] = flow[f].result],
         flow'[f].pc \in {"unmarking", "idle", "welcome"},
         flow'[f].token \in {0, flow[f].token},
         flow'[f].result = flow[f].result \/ (flow'[f].pc = "idle" /\ flow'[f].result = None),
         flow'[f].pc = "welcome" => "signin" \in Events
  PROVE  RotationInv' /\ flow[f].result.refresh \in grants
<1> DEFINE t == flow[f].result
<1>1. /\ \A g \in Flow : Honoured(flow[g])
      /\ Alone /\ Secrets /\ OneGrant /\ LostForGood
  BY DEF RotationInv
<1>2. Carries(flow[f]) /\ t.refresh \in grants /\ t.access \in alive /\ Owner[f] \in Proc
  <2>1. InOrder(flow[f], rejected[Owner[f]])
    BY DEF Base, FreshInv
  <2>2. Carries(flow[f])
    BY DEF Carries, Done
  <2> QED
    BY <1>1, <2>1, <2>2, TokenAssumption DEF InOrder, Honoured, Done
<1>3. ~Lost /\ ~Lost'
  BY <1>1, <1>2 DEF LostForGood, Lost
<1>4. Heard' \subseteq Heard \cup {t.refresh}
  <2>1. \A q \in Proc : mem'[q].refresh \in Heard \cup {t.refresh}
    BY <1>2 DEF Heard, Base, TypeInv, TypeOK
  <2>2. \A g \in Flow : flow'[g].token \in Heard
    BY HeardHas
  <2> QED
    BY <2>1, <2>2, HeardHas DEF Heard
<1>5. ASSUME NEW g \in Flow PROVE Honoured(flow[g])'
  <2>1. CASE g = f
    BY <1>2, <2>1 DEF Honoured, Done
  <2>2. CASE g # f
    <3>1. flow'[g] = flow[g] /\ Honoured(flow[g])
      BY <1>1, <2>2
    <3> QED
      BY <1>2, <3>1 DEF Honoured, Done
  <2> QED
    BY <2>1, <2>2
<1>6. Alone'
  BY <1>1 DEF Alone, Rotating, Saving
<1>7. ASSUME NEW g \in Flow, Secret(flow[g])'
      PROVE  /\ flow'[g].result.refresh \notin Heard'
             /\ \A h \in Flow \ {g} : flow'[h].result.refresh # flow'[g].result.refresh
  <2>1. g # f
    BY <1>7 DEF Secret
  <2>2. flow'[g] = flow[g] /\ Secret(flow[g])
    BY <1>7, <2>1 DEF Secret
  <2>3. /\ flow[g].result.refresh \notin Heard
        /\ \A h \in Flow \ {g} : flow[h].result.refresh # flow[g].result.refresh
    BY <1>1, <2>2 DEF Secrets
  <2>4. flow[g].result.refresh # 0 /\ flow[g].result.refresh # t.refresh
    BY <2>1, <2>3, HeardHas
  <2>5. flow'[f].result.refresh \in {0, t.refresh}
    BY ZeroIsNone
  <2> QED
    BY <1>4, <2>1, <2>2, <2>3, <2>4, <2>5
<1>8. Backed' /\ LostForGood' /\ Secrets' /\ OneGrant'
  BY <1>1, <1>2, <1>3, <1>7 DEF Backed, LostForGood, Secrets, OneGrant
<1> QED
  BY <1>2, <1>5, <1>6, <1>8 DEF RotationInv

(* The three writes: of the transaction, of the SDK and of a sign-in.      *)
LEMMA WritesRotation ==
  ASSUME Scope, Base, RotationInv, NEW f \in Flow,
         PersistRotated(f) \/ Overwrite(f) \/ StoreSignIn(f)
  PROVE  RotationInv' /\ (disk' = disk \/ disk'.refresh \in grants')
<1> USE DEF server, files, provider, process, At
<1>0. TypeOK /\ Honoured(flow[f]) /\ UNCHANGED <<grants, alive, marker>>
  BY DEF Base, TypeInv, RotationInv, PersistRotated, Overwrite, StoreSignIn
<1>1. CASE PersistRotated(f)
  <2>1. Turns(f, "unmarking", "ok")
    BY <1>0, <1>1, TransactionMoves
  <2>2. /\ flow[f].pc = "writing" /\ disk' = flow[f].result
        /\ mem' = [mem EXCEPT ![Owner[f]] = flow[f].result]
    BY <1>1 DEF PersistRotated, WriteTokens
  <2> QED
    BY <1>0, <2>1, <2>2, WriteStep DEF Turns, Becomes
<1>2. CASE Overwrite(f)
  <2>1. Ends(f) /\ flow[f].pc = "overwriting"
    BY <1>0, <1>2, AfterwardsMoves DEF Overwrite
  <2>2. CASE UNCHANGED <<disk, mem>>
    BY <1>0, <2>1, <2>2, HeardHas, EndsCalmly
  <2>3. CASE WriteTokens(Owner[f], flow[f].result)
    <3>1. /\ disk' = flow[f].result
          /\ mem' = [mem EXCEPT ![Owner[f]] = flow[f].result]
      BY <2>3 DEF WriteTokens
    <3> QED
      BY <1>0, <2>1, <3>1, WriteStep DEF Ends, Becomes
  <2> QED
    BY <1>2, <2>2, <2>3 DEF Overwrite
<1>3. CASE StoreSignIn(f)
  <2>1. Moves(f, "welcome") /\ flow[f].pc = "signed" /\ mem' = mem
    BY <1>0, <1>3, SignMoves DEF StoreSignIn
  <2>2. "signin" \in Events /\ "persist" \notin Events
    BY <1>0, <2>1 DEF Honoured, Scope
  <2>3. disk' = flow[f].result
    BY <1>3, <2>2 DEF StoreSignIn
  <2> QED
    BY <1>0, <2>1, <2>2, <2>3, WriteStep DEF Moves, Becomes
<1> QED
  BY <1>1, <1>2, <1>3

(* The tokens the server has not issued are known to nobody.               *)
LEMMA NextIsUnheard ==
  ASSUME Base
  PROVE  /\ issued + 1 \notin Heard /\ issued + 1 # 0 /\ issued + 1 \notin grants
         /\ \A g \in Flow : flow[g].result.refresh # issued + 1
<1>1. issued \in Nat /\ Numbered /\ \A g \in Flow : InOrder(flow[g], rejected[Owner[g]])
  BY DEF Base, TypeInv, TypeOK, FreshInv
<1>2. \A n \in 0..issued : n # issued + 1
  BY <1>1
<1>3. \A g \in Flow : flow[g].result.refresh \in 0..issued /\ flow[g].token \in 0..issued
  BY <1>1 DEF InOrder, Known
<1>4. disk.refresh \in 0..issued /\ \A q \in Proc : mem[q].refresh \in 0..issued
  BY <1>1 DEF Numbered, Known
<1>5. 0 \in 0..issued /\ grants \subseteq 0..issued
  BY <1>1 DEF Numbered
<1> QED
  BY <1>2, <1>3, <1>4, <1>5 DEF Heard

(* A token is used up: nobody else saves, or holds, what it was part of.   *)
LEMMA GrantRotation ==
  ASSUME Scope, Base, RotationInv, NEW f \in Flow, ServerGrants(f)
  PROVE  RotationInv'
<1> USE DEF server, files, provider, process, At
<1>0. /\ TypeOK /\ flow[f].pc = "sent" /\ flow[f].token \in grants
      /\ alive \subseteq alive' /\ UNCHANGED <<disk, marker, mem>>
  BY DEF Base, TypeInv, ServerGrants
<1>1. PICK refresh \in {0, issued + 1} :
        /\ refresh = 0 => "keep" \in Events
        /\ grants' = IF refresh = 0 THEN grants
                     ELSE (grants \ {flow[f].token}) \cup {refresh}
        /\ \/ Gets(f, "granted", [access |-> issued + 1, refresh |-> refresh],
                   flow[f].outcome)
           \/ "lost" \in Events /\ Turns(f, "releasing", "error")
  BY <1>0, AnswerMoves
<1>2. /\ flow'[f].pc = "granted" /\ flow'[f].result.refresh = refresh
      /\ flow'[f].token = flow[f].token
      /\ \A g \in Flow \ {f} : flow'[g] = flow[g]
  BY <1>1 DEF Scope, Gets, Becomes
<1>3. /\ \A g \in Flow : Honoured(flow[g])
      /\ Alone /\ Secrets /\ OneGrant /\ LostForGood
  BY DEF RotationInv
<1>4. ~Lost
  BY <1>0, <1>3, HeardHas DEF LostForGood
<1>5. ~Lost' /\ disk.refresh \in grants
  <2>1. disk.refresh \in grants
    BY <1>0, <1>4, UnderLock
  <2> QED
    BY <1>0, <1>2, <1>4, <2>1 DEF Lost
<1>6. Heard' = Heard
  <2>1. \A g \in Flow : flow'[g].token = flow[g].token
    BY <1>2
  <2> QED
    BY <1>0, <2>1 DEF Heard
<1>7. ASSUME NEW g \in Flow PROVE Honoured(flow[g])'
  <2>1. CASE g = f
    BY <1>0, <1>1, <1>2, <1>5, <2>1 DEF Honoured, Done
  <2>2. CASE g # f
    <3>1. flow'[g] = flow[g] /\ Honoured(flow[g])
      BY <1>2, <1>3, <2>2
    <3>2. flow[g].pc \notin Critical /\ flow[g].pc \notin Saving
      BY <1>0, <1>3, <2>2, OnlyOne DEF Alone, Critical, Rotating
    <3>3. ~Done(flow[g]) /\ flow[g].pc \notin {"writing", "granted", "sent", "denied"}
      BY <3>2 DEF Done, Critical, Saving
    <3>4. flow[g].pc = "signed" => flow[g].result.refresh # flow[f].token
      BY <1>3, HeardHas DEF Secrets, Secret
    <3>5. flow[g].pc = "signed" => flow[g].result.refresh \in grants'
      BY <1>1, <3>1, <3>4 DEF Honoured
    <3> QED
      BY <1>0, <3>1, <3>3, <3>5 DEF Honoured, Done
  <2> QED
    BY <2>1, <2>2
<1>8. Alone'
  BY <1>0, <1>2, <1>3 DEF Alone, Rotating, Saving
<1>9. ASSUME NEW g \in Flow, Secret(flow[g])'
      PROVE  /\ flow'[g].result.refresh \notin Heard'
             /\ \A h \in Flow \ {g} : flow'[h].result.refresh # flow'[g].result.refresh
  <2>1. CASE g = f
    <3>1. refresh = issued + 1
      BY <1>2, <1>9, <2>1 DEF Secret
    <3> QED
      BY <1>2, <1>6, <2>1, <3>1, NextIsUnheard
  <2>2. CASE g # f
    <3>1. flow'[g] = flow[g] /\ Secret(flow[g])
      BY <1>2, <1>9, <2>2 DEF Secret
    <3>2. /\ flow[g].result.refresh \notin Heard
          /\ \A h \in Flow \ {g} : flow[h].result.refresh # flow[g].result.refresh
      BY <1>3, <3>1 DEF Secrets
    <3>3. flow[g].result.refresh # 0 /\ flow[g].result.refresh # issued + 1
      BY <3>2, HeardHas, NextIsUnheard
    <3> QED
      BY <1>1, <1>2, <1>6, <2>2, <3>1, <3>2, <3>3
  <2> QED
    BY <2>1, <2>2
<1>10. OneGrant'
  BY <1>0, <1>1, <1>3 DEF OneGrant
<1>11. Backed' /\ LostForGood' /\ Secrets'
  <2>1. Backed'
    BY <1>0, <1>1, <1>2, <1>5 DEF Backed
  <2> QED
    BY <1>5, <1>9, <2>1 DEF LostForGood, Secrets
<1> QED
  BY <1>7, <1>8, <1>10, <1>11 DEF RotationInv

(* A new grant, which only the sign-in knows.                              *)
LEMMA SignInRotation ==
  ASSUME Scope, Base, RotationInv, NEW f \in Flow, SignIn(f)
  PROVE  RotationInv'
<1> USE DEF server, files, provider, process, At
<1>0. /\ TypeOK /\ flow[f].pc = "idle" /\ "signin" \in Events
      /\ alive \subseteq alive' /\ grants' = grants \cup {issued + 1}
      /\ UNCHANGED <<disk, marker, mem>>
  BY DEF Base, TypeInv, SignIn
<1>1. /\ flow'[f].pc = "signed" /\ flow'[f].result.refresh = issued + 1
      /\ flow'[f].token = 0
      /\ \A g \in Flow \ {f} : flow'[g] = flow[g]
  BY <1>0, SignMoves DEF Becomes
<1>2. /\ \A g \in Flow : Honoured(flow[g])
      /\ Alone /\ Secrets /\ Backed /\ LostForGood
  BY DEF RotationInv
<1>3. ~Lost /\ ~Lost'
  BY <1>0, <1>1, <1>2 DEF LostForGood, Lost
<1>4. Heard' \subseteq Heard
  <2>1. \A g \in Flow : flow'[g].token \in Heard
    BY <1>1, HeardHas
  <2> QED
    BY <1>0, <2>1 DEF Heard
<1>5. ASSUME NEW g \in Flow PROVE Honoured(flow[g])'
  <2>1. CASE g = f
    BY <1>0, <1>1, <2>1 DEF Honoured, Done
  <2>2. CASE g # f
    <3>1. flow'[g] = flow[g] /\ Honoured(flow[g])
      BY <1>1, <1>2, <2>2
    <3> QED
      BY <1>0, <3>1 DEF Honoured, Done
  <2> QED
    BY <2>1, <2>2
<1>6. Alone'
  BY <1>1, <1>2 DEF Alone, Rotating, Saving
<1>7. Backed'
  <2>1. CASE disk.refresh \in grants
    BY <1>0, <2>1 DEF Backed
  <2>2. ASSUME NEW g \in Flow, flow[g].pc \in {"granted", "writing"},
               flow[g].result.refresh # 0
        PROVE  Backed'
    BY <1>0, <1>1, <2>2 DEF Backed
  <2> QED
    BY <1>2, <1>3, <2>1, <2>2 DEF Backed
<1>8. ASSUME NEW g \in Flow, Secret(flow[g])'
      PROVE  /\ flow'[g].result.refresh \notin Heard'
             /\ \A h \in Flow \ {g} : flow'[h].result.refresh # flow'[g].result.refresh
  <2>1. CASE g = f
    BY <1>1, <1>4, <2>1, NextIsUnheard
  <2>2. CASE g # f
    <3>1. flow'[g] = flow[g] /\ Secret(flow[g])
      BY <1>1, <1>8, <2>2 DEF Secret
    <3>2. /\ flow[g].result.refresh \notin Heard
          /\ \A h \in Flow \ {g} : flow[h].result.refresh # flow[g].result.refresh
      BY <1>2, <3>1 DEF Secrets
    <3> QED
      BY <1>1, <1>4, <2>2, <3>1, <3>2, NextIsUnheard
  <2> QED
    BY <2>1, <2>2
<1> QED
  BY <1>0, <1>3, <1>5, <1>6, <1>7, <1>8 DEF RotationInv, LostForGood, Secrets, OneGrant

(* A step that leaves the requests, the disk, the marker and the grants.   *)
LEMMA SameStep ==
  ASSUME Base, RotationInv, UNCHANGED <<grants, disk, marker, flow>>,
         \A p \in Proc : mem'[p].refresh \in Heard,
         alive' = alive \/ \A f \in Flow : flow[f].pc = "idle"
  PROVE  RotationInv'
<1>1. /\ \A g \in Flow : Honoured(flow[g])
      /\ Alone /\ Backed /\ LostForGood /\ Secrets /\ OneGrant
  BY DEF RotationInv
<1>2. \A g \in Flow : Honoured(flow[g])'
  BY <1>1 DEF Honoured, Done
<1>3. Heard' \subseteq Heard
  BY DEF Heard
<1>4. Lost' <=> Lost
  BY DEF Lost
<1>5. Alone' /\ Backed' /\ OneGrant'
  BY <1>1, <1>4 DEF Alone, Backed, OneGrant
<1>6. LostForGood'
  BY <1>1, <1>3, <1>4 DEF LostForGood, Carries, Done
<1>7. Secrets'
  BY <1>1, <1>3 DEF Secrets, Secret
<1> QED
  BY <1>2, <1>5, <1>6, <1>7 DEF RotationInv

(* A process that exits has no transaction under way.                      *)
LEMMA DieRotation ==
  ASSUME Base, RotationInv, NEW p \in Proc, Die(p),
         \A f \in Flow : Owner[f] = p => flow[f].pc \notin Critical
  PROVE  RotationInv'
<1> USE DEF server, files
<1>0. /\ UNCHANGED <<grants, alive, disk, marker>>
      /\ \A g \in Flow : Owner[g] = p => flow'[g] = Idle
      /\ \A g \in Flow : Owner[g] # p => flow'[g] = flow[g]
  BY DEF Die
<1>1. /\ \A g \in Flow : Honoured(flow[g])
      /\ Alone /\ Backed /\ LostForGood /\ Secrets /\ OneGrant
  BY DEF RotationInv
<1>2. /\ Idle.pc = "idle" /\ Idle.token = 0 /\ Idle.result.refresh = 0
      /\ Honoured(Idle)' /\ ~Carries(Idle) /\ ~Secret(Idle)
  BY DEF Idle, None, Honoured, Carries, Done, Secret
<1>3. ASSUME NEW g \in Flow, flow[g].pc \in Critical PROVE flow'[g] = flow[g]
  BY <1>0, <1>3
<1>4. Lost' <=> Lost
  BY <1>0, <1>2, <1>3 DEF Lost, Critical
<1>5. \A g \in Flow : Honoured(flow[g])'
  <2> SUFFICES ASSUME NEW g \in Flow PROVE Honoured(flow[g])'
    OBVIOUS
  <2>1. CASE flow'[g] = Idle
    BY <1>2, <2>1 DEF Honoured, Done
  <2>2. CASE flow'[g] = flow[g]
    BY <1>0, <1>1, <2>2 DEF Honoured, Done
  <2> QED
    BY <1>0, <2>1, <2>2
<1>6. Heard' \subseteq Heard
  <2>1. \A q \in Proc : mem'[q].refresh \in Heard
    <3>1. mem' = [mem EXCEPT ![p] = None]
      BY DEF Die
    <3> QED
      BY <3>1, ZeroIsNone DEF Heard, Base, TypeInv, TypeOK
  <2>2. \A g \in Flow : flow'[g].token \in Heard
    BY <1>0, <1>2 DEF Heard
  <2> QED
    BY <1>0, <2>1, <2>2 DEF Heard
<1>7. Alone'
  <2>1. \A g \in Flow : flow'[g].pc \in Rotating \cup Saving => flow'[g] = flow[g]
    BY <1>0, <1>2 DEF Rotating, Saving
  <2> QED
    BY <1>1, <2>1 DEF Alone
<1>8. Backed'
  <2>1. CASE disk.refresh \in grants \/ Lost
    BY <1>0, <1>4, <2>1 DEF Backed
  <2>2. ASSUME NEW g \in Flow, flow[g].pc \in {"granted", "writing"},
               flow[g].result.refresh # 0
        PROVE  Backed'
    BY <1>3, <2>2 DEF Backed, Critical
  <2> QED
    BY <1>1, <2>1, <2>2 DEF Backed
<1>9. LostForGood'
  <2> SUFFICES ASSUME Lost PROVE LostForGood'
    BY <1>4 DEF LostForGood
  <2>1. \A g \in Flow : ~Carries(flow[g])' /\ flow'[g].pc # "welcome"
    <3> SUFFICES ASSUME NEW g \in Flow PROVE ~Carries(flow[g])' /\ flow'[g].pc # "welcome"
      OBVIOUS
    <3>1. CASE flow'[g] = Idle
      BY <1>2, <3>1 DEF Carries, Done
    <3>2. CASE flow'[g] = flow[g]
      BY <1>1, <3>2 DEF LostForGood, Carries, Done
    <3> QED
      BY <1>0, <3>1, <3>2
  <2>2. disk = None \/ \E g \in Flow : flow'[g].pc = "dead"
    BY <1>1, <1>3 DEF LostForGood, Critical
  <2> QED
    BY <1>0, <1>1, <1>6, <2>1, <2>2 DEF LostForGood
<1>10. Secrets'
  <2> SUFFICES ASSUME NEW g \in Flow, Secret(flow[g])'
               PROVE  /\ flow'[g].result.refresh \notin Heard'
                      /\ \A h \in Flow \ {g} : flow'[h].result.refresh # flow'[g].result.refresh
    BY DEF Secrets
  <2>1. flow'[g] = flow[g] /\ Secret(flow[g])
    <3>1. flow'[g] # Idle
      BY <1>2 DEF Secret
    <3> QED
      BY <1>0, <3>1 DEF Secret
  <2>2. /\ flow[g].result.refresh \notin Heard
        /\ \A h \in Flow \ {g} : flow[h].result.refresh # flow[g].result.refresh
    BY <1>1, <2>1 DEF Secrets
  <2>3. flow[g].result.refresh # 0
    BY <2>2 DEF Heard
  <2> QED
    BY <1>0, <1>2, <1>6, <2>1, <2>2, <2>3
<1> QED
  BY <1>0, <1>1, <1>5, <1>7, <1>8, <1>9, <1>10 DEF RotationInv, OneGrant

LEMMA LifeRotation ==
  ASSUME Scope, Base, RotationInv, NEW p \in Proc, Life(p)
  PROVE  RotationInv'
<1> USE DEF server, files, provider, process
<1>0. \A q \in Proc : mem[q].refresh \in Heard
  BY DEF Heard
<1>1. CASE BeginShutdown(p)
  BY <1>0, <1>1, SameStep DEF BeginShutdown
<1>2. CASE Exit(p)
  <2>1. \A f \in Flow : Owner[f] = p => flow[f].pc \notin Critical
    BY <1>2, DrainedIsQuiet DEF Scope, Base, TypeInv
  <2> QED
    BY <1>2, <2>1, DieRotation DEF Exit
<1>3. ~Crash(p)
  BY DEF Crash, Scope
<1>4. CASE Restart(p)
  <2>1. \A q \in Proc : mem'[q].refresh \in Heard
    <3>1. mem' = [mem EXCEPT ![p] = disk]
      BY <1>4 DEF Restart
    <3> QED
      BY <3>1 DEF Heard, Base, TypeInv, TypeOK
  <2> QED
    BY <1>4, <2>1, SameStep DEF Restart
<1> QED
  BY <1>1, <1>2, <1>3, <1>4 DEF Life

LEMMA RotationNext ==
  ASSUME Scope, Base, RotationInv, [Next]_vars
  PROVE  RotationInv'
<1>0. \A q \in Proc : mem[q].refresh \in Heard
  BY DEF Heard
<1>1. CASE UNCHANGED vars
  BY <1>0, <1>1, SameStep DEF vars, server, files, provider
<1>2. CASE AccessEnds
  <2>1. QuietExpiry
    BY DEF Scope
  <2>2. \A f \in Flow : flow[f].pc = "idle"
    BY <1>2, <2>1, Zenon DEF AccessEnds, At
  <2>3. UNCHANGED <<grants, disk, marker, flow, mem>>
    BY <1>2 DEF AccessEnds, provider
  <2> QED
    BY <1>0, <2>2, <2>3, SameStep
<1>3. ~Revoke
  BY DEF Revoke, Scope
<1>4. ASSUME NEW f \in Flow, Client(f) \/ Locking(f) PROVE RotationInv'
  BY <1>4, ClientRotation, LockingRotation
<1>5. ASSUME NEW f \in Flow, Transaction(f) \/ Answer(f) PROVE RotationInv'
  BY <1>5, ReadRotation, MergeRotation, LossRotation, WritesRotation, ClearRotation,
     RecheckRotation, ForgetRotation, GrantRotation, RefusalRotation
     DEF Transaction, Answer
<1>6. ASSUME NEW f \in Flow, Afterwards(f) \/ Sign(f) PROVE RotationInv'
  BY <1>6, SaveRotation, WritesRotation, InvalidateRotation, ForgetRotation, SignInRotation,
     WelcomeRotation
     DEF Afterwards, Sign
<1>7. ASSUME NEW p \in Proc, Life(p) PROVE RotationInv'
  BY <1>7, LifeRotation
<1> QED
  BY <1>1, <1>2, <1>3, <1>4, <1>5, <1>6, <1>7 DEF Next

LEMMA BaseNext ==
  ASSUME Scope, Base, [Next]_vars
  PROVE  Base'
BY TypeNext, HoldsNext, FreshNext, DrainNext DEF Base, Scope

LEMMA BaseInit == Init => Base
<1> SUFFICES ASSUME Init PROVE Base
  OBVIOUS
<1>1. Holds /\ DrainInv
  BY DEF Init, Holds, DrainInv, QueuedInChain, DrainAwaits, Idle, Critical, Queued
<1> QED
  BY <1>1, TypeInit, FreshInit DEF Base

LEMMA RotationInit == Init => RotationInv
<1> SUFFICES ASSUME Init PROVE RotationInv
  OBVIOUS
<1>1. /\ \A f \in Flow : flow[f] = Idle
      /\ grants = {1} /\ disk.refresh = 1 /\ marker = "clear"
  BY DEF Init
<1>2. /\ Idle.pc = "idle" /\ Honoured(Idle) /\ ~Secret(Idle)
  BY DEF Idle, Honoured, Done, Secret
<1>3. ~Lost
  BY <1>1, <1>2 DEF Lost
<1>4. Alone
  BY <1>1, <1>2 DEF Alone, Rotating
<1> QED
  BY <1>1, <1>2, <1>3, <1>4 DEF RotationInv, Backed, LostForGood, Secrets, OneGrant

(* No step but a write puts other tokens on disk, and a write puts there   *)
(* what the server honours.                                                *)
LEMMA WritersKeep ==
  ASSUME Scope, Base, RotationInv, Next, disk' # disk, disk' # None
  PROVE  disk'.refresh \in grants'
<1> USE DEF server, files
<1>1. ASSUME NEW f \in Flow, Client(f) \/ Locking(f) \/ Answer(f) PROVE FALSE
  BY <1>1 DEF Client, Request, Served, Refused, Enqueue, Locking, EnsureLockTarget, Acquire,
     LockBusy, LockLost, Release, Answer, ServerGrants, ServerDenies, ServerErrs
<1>2. ASSUME NEW f \in Flow, Transaction(f) PROVE disk'.refresh \in grants'
  <2>1. PersistRotated(f)
    BY <1>2 DEF Transaction, ReadUnderLock, MergeRotated, UnusableBody, PersistFails,
       ClearMarker, Recheck, ClearTokens, Forget, MarkNeedsReconnect
  <2> QED
    BY <2>1, WritesRotation
<1>3. ASSUME NEW f \in Flow, Afterwards(f) \/ Sign(f) PROVE disk'.refresh \in grants'
  <2>1. Overwrite(f) \/ StoreSignIn(f)
    BY <1>3 DEF Afterwards, SaveTokens, Invalidate, CheckMarker, Discard, Forget, Sign,
       SignIn, FinishSignIn
  <2> QED
    BY <2>1, WritesRotation
<1>4. ASSUME NEW p \in Proc, Life(p) PROVE FALSE
  BY <1>4 DEF Life, BeginShutdown, Exit, Crash, Die, Restart
<1>5. ~AccessEnds /\ ~Revoke
  BY DEF AccessEnds, Revoke
<1> QED
  BY <1>1, <1>2, <1>3, <1>4, <1>5 DEF Next

-----------------------------------------------------------------------------
(* In the scope: a refresh token is presented once with success.  A request *)
(* under the lock presents what is on disk, and while it does nobody still *)
(* saves an older answer; what a rotation brought is known to its request  *)
(* only until it is written, by runRefreshTransaction or a sign-in.        *)
THEOREM TokensAreSingleUse ==
  ASSUME Scope
  PROVE  Spec => []SingleUse
<1>1. Init => Base /\ RotationInv
  BY BaseInit, RotationInit
<1>2. Base /\ RotationInv /\ [Next]_vars => Base' /\ RotationInv'
  BY BaseNext, RotationNext
<1>3. RotationInv => SingleUse
  BY DEF RotationInv, Honoured, SingleUse
<1> QED
  BY <1>1, <1>2, <1>3, PTL DEF Spec

(* In the scope: when the server does not honour the tokens on disk, the   *)
(* new ones are on their way there or the user is, or will be, told: the   *)
(* error paths of runRefreshTransaction that end a grant set the marker.   *)
THEOREM WedgesAreFlagged ==
  ASSUME Scope
  PROVE  Spec => []NoSilentWedge
<1>1. Init => Base /\ RotationInv
  BY BaseInit, RotationInit
<1>2. Base /\ RotationInv /\ [Next]_vars => Base' /\ RotationInv'
  BY BaseNext, RotationNext
<1>3. ASSUME Base, RotationInv PROVE NoSilentWedge
  <2>1. ASSUME NEW f \in Flow, flow[f].pc \in {"granted", "writing"},
               flow[f].result.refresh # 0
        PROVE  Incoming(f).refresh \in grants
    <3>1. flow[f].result.refresh \in grants
      BY <1>3, <2>1 DEF RotationInv, Honoured
    <3>2. Incoming(f).refresh = flow[f].result.refresh
      BY <1>3, <2>1, ReadsKnown DEF Base, TypeInv
    <3> QED
      BY <3>1, <3>2
  <2> QED
    BY <1>3, <2>1 DEF RotationInv, Backed, Lost, NoSilentWedge
<1> QED
  BY <1>1, <1>2, <1>3, PTL DEF Spec

(* In the scope: no write of the program, of a transaction, of the SDK's   *)
(* saveTokens or of a sign-in, stores a refresh token that is used up.     *)
THEOREM RotationsAreKept ==
  ASSUME Scope
  PROVE  Spec => NoDowngrade
<1> DEFINE Step == disk.refresh \in grants /\ disk' # disk /\ disk' # None
                     => disk'.refresh \in grants'
<1>1. Init => Base /\ RotationInv
  BY BaseInit, RotationInit
<1>2. Base /\ RotationInv /\ [Next]_vars => Base' /\ RotationInv'
  BY BaseNext, RotationNext
<1>3. Base /\ RotationInv /\ [Next]_vars => [Step]_vars
  BY WritersKeep
<1> HIDE DEF Step
<1>4. Spec => [][Step]_vars
  BY <1>1, <1>2, <1>3, PTL DEF Spec
<1> QED
  BY <1>4 DEF NoDowngrade, Step

=============================================================================
