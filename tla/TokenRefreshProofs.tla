-------------------------- MODULE TokenRefreshProofs --------------------------
(***************************************************************************)
(* Theorems about TokenRefresh, for any processes and requests, any events *)
(* except where one is excluded, and any number of tokens.                 *)
(***************************************************************************)
EXTENDS TokenRefresh, TLAPS

Inside == Critical \cup {"locking"}

(* A flow past the in-process mutex is the first of its process's chain.   *)
MutexHeld == \A f \in Flow : flow[f].pc \in Inside => First(f)

TypeInv == TypeOK /\ MutexHeld

-----------------------------------------------------------------------------
(* What the helpers return.                                                *)

(* Tokens read, merged and saved are token sets.                           *)
LEMMA TokenTypes ==
  ASSUME TypeOK, NEW f \in Flow
  PROVE  /\ Owner[f] \in Proc
         /\ flow[f] \in FlowRecord
         /\ OnDisk(Owner[f]) \in Tokens
         /\ Incoming(f) \in Tokens
         /\ \A in \in Tokens : Merge(Owner[f], in) \in Tokens
         /\ TokenToSend(f) \in Nat
<1>1. Owner[f] \in Proc
  BY TokenAssumption
<1>2. flow[f] \in FlowRecord
  BY DEF TypeOK
<1>3. OnDisk(Owner[f]) \in Tokens /\ mem[Owner[f]] \in Tokens
  BY <1>1 DEF TypeOK, OnDisk
<1>4. flow[f].result \in Tokens /\ flow[f].token \in Nat
  BY <1>2 DEF FlowRecord
<1>5. Incoming(f) \in Tokens
  BY <1>4 DEF Incoming, Tokens
<1>6. \A in \in Tokens : Merge(Owner[f], in) \in Tokens
  BY <1>3 DEF Merge, Tokens
<1>7. TokenToSend(f) \in Nat
  BY <1>4 DEF TokenToSend, TypeOK, Tokens
<1> QED
  BY <1>1, <1>2, <1>3, <1>5, <1>6, <1>7

LEMMA IdleType ==
  /\ None \in Tokens
  /\ Idle \in FlowRecord
BY DEF None, Tokens, Idle, FlowRecord, Stages

(* Replacing one request by another keeps the requests well typed, and the *)
(* heads of the chains where they were when the new stage is outside.      *)
LEMMA FlowUpdate ==
  ASSUME flow \in [Flow -> FlowRecord], NEW f \in Flow, NEW r \in FlowRecord,
         flow' = [flow EXCEPT ![f] = r]
  PROVE  /\ flow' \in [Flow -> FlowRecord]
         /\ flow'[f] = r
         /\ \A g \in Flow \ {f} : flow'[g] = flow[g]
OBVIOUS

(* Steps that leave the chains alone keep MutexHeld if they let no flow in. *)
LEMMA ChainsUntouched ==
  ASSUME MutexHeld, NEW f \in Flow, chain' = chain,
         \A g \in Flow \ {f} : flow'[g] = flow[g],
         flow'[f].pc \in Inside => First(f)
  PROVE  MutexHeld'
BY DEF MutexHeld, First

(* Leaving the mutex, and being last in the queue for it.                  *)
LEMMA LeaveMutex ==
  ASSUME TypeInv, NEW f \in Flow, flow[f].pc \in Inside, Leave(f),
         \A g \in Flow \ {f} : flow'[g] = flow[g],
         flow'[f].pc \notin Inside
  PROVE  /\ chain' \in [Proc -> Seq(Flow)]
         /\ awaited' \in [Proc -> SUBSET Flow]
         /\ proc' = proc
         /\ MutexHeld'
<1> DEFINE p == Owner[f]
<1>1. p \in Proc /\ chain[p] \in Seq(Flow) /\ chain[p] # <<>> /\ Head(chain[p]) = f
  BY TokenAssumption DEF TypeInv, TypeOK, MutexHeld, First
<1>2. chain' = [chain EXCEPT ![p] = Tail(@)]
      /\ awaited' = [awaited EXCEPT ![p] = @ \ {f}] /\ proc' = proc
  BY DEF Leave
<1>3. Tail(chain[p]) \in Seq(Flow)
  BY <1>1
<1>4. chain' \in [Proc -> Seq(Flow)]
  BY <1>2, <1>3 DEF TypeInv, TypeOK
<1>5. awaited' \in [Proc -> SUBSET Flow]
  BY <1>2 DEF TypeInv, TypeOK
<1>6. MutexHeld'
  <2> SUFFICES ASSUME NEW g \in Flow, flow'[g].pc \in Inside
               PROVE  First(g)'
    BY DEF MutexHeld
  <2>1. g # f /\ flow[g].pc \in Inside
    OBVIOUS
  <2>2. Owner[g] \in Proc /\ First(g)
    BY <2>1, TokenAssumption DEF TypeInv, MutexHeld
  <2>3. Owner[g] # p
    BY <2>1, <2>2, <1>1 DEF First
  <2> QED
    BY <2>2, <2>3, <1>2 DEF First, TypeInv, TypeOK
<1> QED
  BY <1>2, <1>4, <1>5, <1>6

-----------------------------------------------------------------------------
(* Each operation keeps TypeInv.                                           *)

(* The variables of a step that replaces one request, moves no chain and   *)
(* keeps the rest well typed.                                              *)
LEMMA RequestStep ==
  ASSUME TypeInv, NEW f \in Flow, NEW r \in FlowRecord,
         flow' = [flow EXCEPT ![f] = r],
         r.pc \in Inside => First(f),
         UNCHANGED process,
         issued' \in Nat, grants' \subseteq Nat, alive' \subseteq Nat,
         disk' \in Tokens, kind' \in {"missing", "empty", "fresh", "stale"},
         marker' \in {"set", "clear"}, lock' \in Flow \cup {Nobody},
         mem' \in [Proc -> Tokens], echoes' \in [Proc -> SUBSET Tokens],
         rejected' \in [Proc -> Nat]
  PROVE  TypeInv'
<1>1. flow' \in [Flow -> FlowRecord] /\ flow'[f] = r
      /\ \A g \in Flow \ {f} : flow'[g] = flow[g]
  BY FlowUpdate DEF TypeInv, TypeOK
<1>2. MutexHeld'
  BY <1>1, ChainsUntouched DEF TypeInv, process
<1>3. TypeOK'
  BY <1>1 DEF TypeInv, TypeOK, process
<1> QED
  BY <1>2, <1>3 DEF TypeInv

(* A request and its refusal.                                              *)
LEMMA ClientType ==
  ASSUME TypeInv, NEW f \in Flow, Client(f)
  PROVE  TypeInv'
<1> DEFINE p == Owner[f]
<1> USE DEF server, files, provider, process
<1>0. p \in Proc /\ flow[f] \in FlowRecord /\ OnDisk(p) \in Tokens
  BY TokenTypes DEF TypeInv
<1>1. CASE Request(f)
  <2>1. [Idle EXCEPT !.pc = "requested", !.bearer = OnDisk(p).access] \in FlowRecord
    BY <1>0, IdleType DEF FlowRecord, Stages, Tokens
  <2> QED
    BY <1>0, <1>1, <2>1, RequestStep DEF Request, TypeInv, TypeOK, Inside, Critical, Idle
<1>2. CASE Served(f)
  BY <1>2, IdleType, RequestStep DEF Served, TypeInv, TypeOK, Idle, Inside, Critical
<1>3. CASE Refused(f)
  <2> DEFINE r == [flow[f] EXCEPT !.pc = "unauthorized"]
  <2>1. r \in FlowRecord /\ r.pc \notin Inside
    BY <1>0 DEF FlowRecord, Stages, Inside, Critical
  <2>2. flow' = [flow EXCEPT ![f] = r]
    BY <1>3 DEF Refused
  <2>3. rejected' \in [Proc -> Nat]
    BY <1>0, <1>3 DEF Refused, TypeInv, TypeOK, FlowRecord
  <2> HIDE DEF r
  <2> QED
    BY <1>3, <2>1, <2>2, <2>3, RequestStep DEF Refused, TypeInv, TypeOK
<1>4. CASE Enqueue(f)
  <2> DEFINE t == OnDisk(p)
             r == [flow[f] EXCEPT !.pc = "queued", !.token = t.refresh,
                                  !.rejected = rejected[p], !.tries = 0]
  <2>0. rejected[p] \in Nat /\ t.refresh \in Nat
    BY <1>0 DEF TypeInv, TypeOK, Tokens
  <2>1. r \in FlowRecord /\ r.pc \notin Inside /\ Idle.pc \notin Inside
    <3> HIDE DEF t
    <3> QED
      BY <1>0, <2>0 DEF FlowRecord, Stages, Queued, Inside, Critical, Idle
  <2>2. mem' \in [Proc -> Tokens]
    BY <1>0, <1>4 DEF Enqueue, TypeInv, TypeOK
  <2>3. CASE chain' = chain /\ flow' = [flow EXCEPT ![f] = Idle]
    BY <1>4, <2>1, <2>2, <2>3, IdleType, RequestStep DEF Enqueue, TypeInv, TypeOK
  <2>4. CASE chain' = [chain EXCEPT ![p] = Append(@, f)] /\ flow' = [flow EXCEPT ![f] = r]
    <3>1. chain' \in [Proc -> Seq(Flow)]
      BY <1>0, <2>4 DEF TypeInv, TypeOK
    <3> HIDE DEF r
    <3>2. flow' \in [Flow -> FlowRecord] /\ flow'[f] = r
          /\ \A g \in Flow \ {f} : flow'[g] = flow[g]
      BY <2>1, <2>4, FlowUpdate DEF TypeInv, TypeOK
    <3>3. MutexHeld'
      <4> SUFFICES ASSUME NEW g \in Flow, flow'[g].pc \in Inside
                   PROVE  First(g)'
        BY DEF MutexHeld
      <4>1. First(g) /\ Owner[g] \in Proc
        BY <2>1, <3>2, TokenAssumption DEF TypeInv, MutexHeld
      <4>2. chain[Owner[g]] \in Seq(Flow)
        BY <4>1 DEF TypeInv, TypeOK
      <4>3. \/ chain'[Owner[g]] = chain[Owner[g]]
            \/ chain'[Owner[g]] = Append(chain[Owner[g]], f)
        BY <2>4, <4>1 DEF TypeInv, TypeOK
      <4> QED
        BY <4>1, <4>2, <4>3 DEF First
    <3>4. TypeOK'
      BY <1>4, <2>2, <3>1, <3>2 DEF Enqueue, TypeInv, TypeOK
    <3> QED
      BY <3>3, <3>4 DEF TypeInv
  <2> QED
    BY <1>4, <2>3, <2>4 DEF Enqueue
<1> QED
  BY <1>1, <1>2, <1>3, <1>4 DEF Client

(* The lock.                                                               *)
LEMMA LockingType ==
  ASSUME TypeInv, NEW f \in Flow, Locking(f)
  PROVE  TypeInv'
<1> DEFINE p == Owner[f]
<1> USE DEF server, files, provider, process, At
<1>0. p \in Proc /\ flow[f] \in FlowRecord /\ OnDisk(p) \in Tokens
      /\ flow[f].result \in Tokens /\ flow[f].token \in Nat
  BY TokenTypes DEF TypeInv, FlowRecord
<1>00. flow[f].pc \in Inside => First(f)
  BY DEF TypeInv, MutexHeld
<1>1. CASE EnsureLockTarget(f)
  <2> DEFINE r == [flow[f] EXCEPT !.pc = "locking"]
  <2>1. r \in FlowRecord /\ (r.pc \in Inside => First(f))
    BY <1>0, <1>00, <1>1 DEF EnsureLockTarget, FlowRecord, Stages, Queued, Inside, Critical
  <2>2. flow' = [flow EXCEPT ![f] = r]
    BY <1>1 DEF EnsureLockTarget
  <2> HIDE DEF r
  <2> QED
    BY <1>1, <2>1, <2>2, RequestStep DEF EnsureLockTarget, TypeInv, TypeOK
<1>2. CASE Acquire(f)
  <2> DEFINE r == [flow[f] EXCEPT !.pc = "locked"]
  <2>1. r \in FlowRecord /\ (r.pc \in Inside => First(f))
    BY <1>0, <1>00, <1>2 DEF Acquire, FlowRecord, Stages, Queued, Inside, Critical
  <2>2. flow' = [flow EXCEPT ![f] = r]
    BY <1>2 DEF Acquire
  <2> HIDE DEF r
  <2> QED
    BY <1>2, <2>1, <2>2, RequestStep DEF Acquire, TypeInv, TypeOK
<1>3. CASE LockBusy(f)
  <2>1. flow[f].pc \in Inside
    BY <1>3 DEF LockBusy, Inside, Critical
  <2>2. \E r \in FlowRecord : r.pc \notin Inside /\ flow' = [flow EXCEPT ![f] = r]
    BY <1>3, IdleType DEF LockBusy, Idle, Inside, Critical
  <2>3. flow' \in [Flow -> FlowRecord] /\ flow'[f].pc \notin Inside
        /\ \A g \in Flow \ {f} : flow'[g] = flow[g]
    BY <2>2, FlowUpdate DEF TypeInv, TypeOK
  <2>4. chain' \in [Proc -> Seq(Flow)] /\ awaited' \in [Proc -> SUBSET Flow]
        /\ proc' = proc /\ MutexHeld'
    BY <1>3, <2>1, <2>3, LeaveMutex DEF LockBusy
  <2>5. TypeOK'
    BY <1>3, <2>3, <2>4 DEF LockBusy, TypeInv, TypeOK
  <2> QED
    BY <2>4, <2>5 DEF TypeInv
<1>4. CASE LockLost(f)
  <2> DEFINE r == [flow[f] EXCEPT !.pc = "releasing", !.outcome = "error"]
  <2>1. r \in FlowRecord /\ (r.pc \in Inside => First(f))
    BY <1>0, <1>00, <1>4 DEF LockLost, FlowRecord, Stages, Queued, Inside, Critical
  <2>2. flow' = [flow EXCEPT ![f] = r]
    BY <1>4 DEF LockLost, Fail
  <2> HIDE DEF r
  <2> QED
    BY <1>4, <2>1, <2>2, RequestStep DEF LockLost, TypeInv, TypeOK
<1>5. CASE Release(f)
  <2>1. flow[f].pc \in Inside
    BY <1>5 DEF Release, Inside, Critical
  <2>2. \E r \in FlowRecord : r.pc \notin Inside /\ flow' = [flow EXCEPT ![f] = r]
    <3> DEFINE saving == [flow[f] EXCEPT !.pc = "saving"]
               invalidating == [flow[f] EXCEPT !.pc = "invalidating"]
    <3>1. /\ saving \in FlowRecord /\ saving.pc \notin Inside
          /\ invalidating \in FlowRecord /\ invalidating.pc \notin Inside
          /\ Idle \in FlowRecord /\ Idle.pc \notin Inside
      BY <1>0, IdleType DEF FlowRecord, Stages, Inside, Critical, Idle
    <3>2. \/ flow' = [flow EXCEPT ![f] = saving]
          \/ flow' = [flow EXCEPT ![f] = invalidating]
          \/ flow' = [flow EXCEPT ![f] = Idle]
      BY <1>5 DEF Release
    <3> QED
      BY <3>1, <3>2
  <2>3. flow' \in [Flow -> FlowRecord] /\ flow'[f].pc \notin Inside
        /\ \A g \in Flow \ {f} : flow'[g] = flow[g]
    BY <2>2, FlowUpdate DEF TypeInv, TypeOK
  <2>4. chain' \in [Proc -> Seq(Flow)] /\ awaited' \in [Proc -> SUBSET Flow]
        /\ proc' = proc /\ MutexHeld'
    BY <1>5, <2>1, <2>3, LeaveMutex DEF Release
  <2>5. TypeOK'
    BY <1>5, <2>3, <2>4 DEF Release, TypeInv, TypeOK
  <2> QED
    BY <2>4, <2>5 DEF TypeInv
<1> QED
  BY <1>1, <1>2, <1>3, <1>4, <1>5 DEF Locking

(* The transaction, under the lock.                                        *)
LEMMA TransactionType ==
  ASSUME TypeInv, NEW f \in Flow, Transaction(f)
  PROVE  TypeInv'
<1> DEFINE p == Owner[f]
<1> USE DEF server, files, provider, process, At
<1>0. p \in Proc /\ flow[f] \in FlowRecord /\ OnDisk(p) \in Tokens
      /\ flow[f].result \in Tokens /\ flow[f].token \in Nat
  BY TokenTypes DEF TypeInv, FlowRecord
<1>00. flow[f].pc \in Inside => First(f)
  BY DEF TypeInv, MutexHeld
<1>1. CASE ReadUnderLock(f)
  <2> DEFINE r1 == [flow[f] EXCEPT !.pc = "unmarking", !.result = disk, !.outcome = "ok"]
             r2 == [flow[f] EXCEPT !.pc = "sent", !.token = TokenToSend(f)]
  <2>1. disk \in Tokens /\ TokenToSend(f) \in Nat
    BY TokenTypes DEF TypeInv, TypeOK
  <2>2. r1 \in FlowRecord /\ r2 \in FlowRecord
    BY <1>0, <2>1 DEF FlowRecord, Stages, Queued, Inside, Critical
  <2>3. (r1.pc \in Inside => First(f)) /\ (r2.pc \in Inside => First(f))
    BY <1>0, <1>00, <1>1 DEF ReadUnderLock, FlowRecord, Stages, Queued, Inside, Critical
  <2>4. flow' = [flow EXCEPT ![f] = r1] \/ flow' = [flow EXCEPT ![f] = r2]
    BY <1>1 DEF ReadUnderLock
  <2> HIDE DEF r1, r2
  <2> QED
    BY <1>1, <2>2, <2>3, <2>4, RequestStep DEF ReadUnderLock, TypeInv, TypeOK
<1>2. CASE MergeRotated(f)
  <2> DEFINE r == [flow[f] EXCEPT !.pc = "writing", !.result = Merge(Owner[f], flow[f].result)]
  <2>0. Merge(Owner[f], flow[f].result) \in Tokens
    BY <1>0, TokenTypes DEF TypeInv
  <2>1. r \in FlowRecord /\ (r.pc \in Inside => First(f))
    BY <1>0, <1>00, <1>2, <2>0 DEF MergeRotated, FlowRecord, Stages, Queued, Inside, Critical
  <2>2. flow' = [flow EXCEPT ![f] = r]
    BY <1>2 DEF MergeRotated
  <2> HIDE DEF r
  <2> QED
    BY <1>2, <2>1, <2>2, RequestStep DEF MergeRotated, TypeInv, TypeOK
<1>3. CASE UnusableBody(f)
  <2> DEFINE r == [flow[f] EXCEPT !.pc = "dead", !.outcome = "error"]
  <2>1. r \in FlowRecord /\ (r.pc \in Inside => First(f))
    BY <1>0, <1>00, <1>3 DEF UnusableBody, FlowRecord, Stages, Queued, Inside, Critical
  <2>2. flow' = [flow EXCEPT ![f] = r]
    BY <1>3 DEF UnusableBody
  <2> HIDE DEF r
  <2> QED
    BY <1>3, <2>1, <2>2, RequestStep DEF UnusableBody, TypeInv, TypeOK
<1>4. CASE PersistRotated(f)
  <2> DEFINE r == [flow[f] EXCEPT !.pc = "unmarking", !.outcome = "ok"]
  <2>1. r \in FlowRecord /\ (r.pc \in Inside => First(f))
    BY <1>0, <1>00, <1>4 DEF PersistRotated, FlowRecord, Stages, Queued, Inside, Critical
  <2>2. flow' = [flow EXCEPT ![f] = r]
    BY <1>4 DEF PersistRotated
  <2>3. mem' \in [Proc -> Tokens] /\ disk' \in Tokens /\ kind' = "fresh"
    BY <1>0, <1>4 DEF PersistRotated, WriteTokens, TypeInv, TypeOK
  <2>4. echoes' \in [Proc -> SUBSET Tokens]
    BY <1>0, <1>4 DEF PersistRotated, TypeInv, TypeOK
  <2> HIDE DEF r
  <2> QED
    BY <1>4, <2>1, <2>2, <2>3, <2>4, RequestStep DEF PersistRotated, TypeInv, TypeOK
<1>5. CASE PersistFails(f)
  <2> DEFINE r == [flow[f] EXCEPT !.pc = "dead", !.outcome = "error"]
  <2>1. r \in FlowRecord /\ (r.pc \in Inside => First(f))
    BY <1>0, <1>00, <1>5 DEF PersistFails, FlowRecord, Stages, Queued, Inside, Critical
  <2>2. flow' = [flow EXCEPT ![f] = r]
    BY <1>5 DEF PersistFails
  <2> HIDE DEF r
  <2> QED
    BY <1>5, <2>1, <2>2, RequestStep DEF PersistFails, TypeInv, TypeOK
<1>6. CASE ClearMarker(f)
  <2> DEFINE r == [flow[f] EXCEPT !.pc = "releasing"]
  <2>1. r \in FlowRecord /\ (r.pc \in Inside => First(f))
    BY <1>0, <1>00, <1>6 DEF ClearMarker, FlowRecord, Stages, Queued, Inside, Critical
  <2>2. flow' = [flow EXCEPT ![f] = r]
    BY <1>6 DEF ClearMarker
  <2> HIDE DEF r
  <2> QED
    BY <1>6, <2>1, <2>2, RequestStep DEF ClearMarker, TypeInv, TypeOK
<1>7. CASE Recheck(f)
  <2> DEFINE r1 == [flow[f] EXCEPT !.pc = "unmarking", !.result = disk, !.outcome = "ok"]
             r2 == [flow[f] EXCEPT !.tries = flow[f].tries + 1]
             r3 == [flow[f] EXCEPT !.pc = "dead", !.outcome = "invalid"]
  <2>1. disk \in Tokens /\ flow[f].tries \in {0, 1, 2} /\ flow[f].pc = "denied"
    BY <1>0, <1>7 DEF Recheck, TypeInv, TypeOK, FlowRecord
  <2>2. r1 \in FlowRecord /\ r3 \in FlowRecord /\ (flow[f].tries < 2 => r2 \in FlowRecord)
    <3>1. flow[f].tries < 2 => flow[f].tries + 1 \in {0, 1, 2}
      BY <2>1
    <3>2. r1 \in FlowRecord /\ r3 \in FlowRecord
      BY <1>0, <2>1 DEF FlowRecord, Stages, Queued, Inside, Critical
    <3>3. \A n \in {0, 1, 2} : [flow[f] EXCEPT !.tries = n] \in FlowRecord
      BY <1>0 DEF FlowRecord
    <3> QED
      BY <3>1, <3>2, <3>3
  <2>3. First(f)
    BY <1>00, <2>1 DEF Inside, Critical
  <2>4. \/ flow' = [flow EXCEPT ![f] = r1]
        \/ flow[f].tries < 2 /\ flow' = [flow EXCEPT ![f] = r2]
        \/ flow' = [flow EXCEPT ![f] = r3]
    BY <1>7 DEF Recheck
  <2> HIDE DEF r1, r2, r3
  <2> QED
    BY <1>7, <2>2, <2>3, <2>4, RequestStep DEF Recheck, TypeInv, TypeOK
<1>8. CASE ClearTokens(f)
  <2> DEFINE r == [flow[f] EXCEPT !.pc = "marking"]
  <2>1. r \in FlowRecord /\ (r.pc \in Inside => First(f))
    BY <1>0, <1>00, <1>8 DEF ClearTokens, FlowRecord, Stages, Queued, Inside, Critical
  <2>2. flow' = [flow EXCEPT ![f] = r]
    BY <1>8 DEF ClearTokens
  <2>3. /\ mem' \in [Proc -> Tokens] /\ disk' \in Tokens /\ kind' = "missing"
        /\ echoes' \in [Proc -> SUBSET Tokens]
    BY <1>0, <1>8, IdleType DEF ClearTokens, Forget, TypeInv, TypeOK
  <2> HIDE DEF r
  <2> QED
    BY <1>8, <2>1, <2>2, <2>3, RequestStep DEF ClearTokens, TypeInv, TypeOK
<1>9. CASE MarkNeedsReconnect(f)
  <2> DEFINE r == [flow[f] EXCEPT !.pc = "releasing"]
  <2>1. r \in FlowRecord /\ (r.pc \in Inside => First(f))
    BY <1>0, <1>00, <1>9 DEF MarkNeedsReconnect, FlowRecord, Stages, Queued, Inside, Critical
  <2>2. flow' = [flow EXCEPT ![f] = r]
    BY <1>9 DEF MarkNeedsReconnect
  <2> HIDE DEF r
  <2> QED
    BY <1>9, <2>1, <2>2, RequestStep DEF MarkNeedsReconnect, TypeInv, TypeOK
<1> QED
  BY <1>1, <1>2, <1>3, <1>4, <1>5, <1>6, <1>7, <1>8, <1>9 DEF Transaction

(* The answers of the server.                                              *)
LEMMA AnswerType ==
  ASSUME TypeInv, NEW f \in Flow, Answer(f)
  PROVE  TypeInv'
<1> DEFINE p == Owner[f]
<1> USE DEF server, files, provider, process, At
<1>0. p \in Proc /\ flow[f] \in FlowRecord /\ OnDisk(p) \in Tokens
      /\ flow[f].result \in Tokens /\ flow[f].token \in Nat
  BY TokenTypes DEF TypeInv, FlowRecord
<1>00. flow[f].pc \in Inside => First(f)
  BY DEF TypeInv, MutexHeld
<1>1. CASE ServerGrants(f)
  <2> DEFINE r1(n) == [flow[f] EXCEPT !.pc = "granted",
                          !.result = [access |-> issued + 1, refresh |-> n]]
             r2 == [flow[f] EXCEPT !.pc = "releasing", !.outcome = "error"]
  <2>1. issued + 1 \in Nat /\ 0 \in Nat
    BY DEF TypeInv, TypeOK
  <2>2. PICK n \in {0, issued + 1} :
          /\ grants' = IF n = 0 THEN grants
                       ELSE (grants \ {flow[f].token}) \cup {n}
          /\ \/ flow' = [flow EXCEPT ![f] = r1(n)]
             \/ flow' = [flow EXCEPT ![f] = r2]
    BY <1>1 DEF ServerGrants, Fail
  <2>3. n \in Nat /\ grants' \subseteq Nat /\ alive' \subseteq Nat /\ issued' \in Nat
    BY <1>1, <2>1, <2>2 DEF ServerGrants, TypeInv, TypeOK
  <2>4. r1(n) \in FlowRecord /\ r2 \in FlowRecord
    BY <1>0, <2>1, <2>3 DEF FlowRecord, Stages, Queued, Inside, Critical, Tokens
  <2>5. First(f)
    BY <1>00, <1>1 DEF ServerGrants, Inside, Critical
  <2> HIDE DEF r1, r2
  <2> QED
    BY <1>1, <2>2, <2>3, <2>4, <2>5, RequestStep DEF ServerGrants, TypeInv, TypeOK
<1>2. CASE ServerDenies(f)
  <2> DEFINE r == [flow[f] EXCEPT !.pc = "denied"]
  <2>1. r \in FlowRecord /\ (r.pc \in Inside => First(f))
    BY <1>0, <1>00, <1>2 DEF ServerDenies, FlowRecord, Stages, Queued, Inside, Critical
  <2>2. flow' = [flow EXCEPT ![f] = r]
    BY <1>2 DEF ServerDenies
  <2> HIDE DEF r
  <2> QED
    BY <1>2, <2>1, <2>2, RequestStep DEF ServerDenies, TypeInv, TypeOK
<1>3. CASE ServerErrs(f)
  <2> DEFINE r == [flow[f] EXCEPT !.pc = "releasing", !.outcome = "error"]
  <2>1. r \in FlowRecord /\ (r.pc \in Inside => First(f))
    BY <1>0, <1>00, <1>3 DEF ServerErrs, FlowRecord, Stages, Queued, Inside, Critical
  <2>2. flow' = [flow EXCEPT ![f] = r]
    BY <1>3 DEF ServerErrs, Fail
  <2> HIDE DEF r
  <2> QED
    BY <1>3, <2>1, <2>2, RequestStep DEF ServerErrs, TypeInv, TypeOK
<1> QED
  BY <1>1, <1>2, <1>3 DEF Answer

(* What the SDK does with the answer.                                      *)
LEMMA AfterwardsType ==
  ASSUME TypeInv, NEW f \in Flow, Afterwards(f)
  PROVE  TypeInv'
<1> DEFINE p == Owner[f]
<1> USE DEF server, files, provider, process, At
<1>0. p \in Proc /\ flow[f] \in FlowRecord /\ OnDisk(p) \in Tokens
      /\ flow[f].result \in Tokens /\ flow[f].token \in Nat
  BY TokenTypes DEF TypeInv, FlowRecord
<1>00. flow[f].pc \in Inside => First(f)
  BY DEF TypeInv, MutexHeld
<1>1. CASE SaveTokens(f)
  <2> DEFINE r == [flow[f] EXCEPT !.pc = "overwriting",
                                  !.result = Merge(p, Incoming(f))]
  <2>1. Merge(p, Incoming(f)) \in Tokens
    BY TokenTypes DEF TypeInv
  <2>2. /\ r \in FlowRecord /\ r.pc \notin Inside
        /\ Idle \in FlowRecord /\ Idle.pc \notin Inside
    BY <1>0, <2>1, IdleType DEF FlowRecord, Stages, Queued, Inside, Critical, Idle
  <2>3. flow' = [flow EXCEPT ![f] = r] \/ flow' = [flow EXCEPT ![f] = Idle]
    BY <1>1 DEF SaveTokens
  <2>4. mem' \in [Proc -> Tokens]
    BY <1>0, <1>1 DEF SaveTokens, TypeInv, TypeOK
  <2>5. echoes' \in [Proc -> SUBSET Tokens]
    <3>1. \/ echoes' = echoes
          \/ echoes' = [echoes EXCEPT ![p] = @ \ {Incoming(f)}]
          \/ echoes' = [echoes EXCEPT ![p] = @]
      BY <1>1 DEF SaveTokens
    <3> QED
      BY <1>0, <3>1 DEF TypeInv, TypeOK
  <2> HIDE DEF r
  <2> QED
    BY <1>1, <2>2, <2>3, <2>4, <2>5, RequestStep DEF SaveTokens, TypeInv, TypeOK
<1>2. CASE Overwrite(f)
  <2>1. Idle \in FlowRecord /\ Idle.pc \notin Inside
    BY IdleType DEF Idle, Inside, Critical
  <2>2. /\ mem' \in [Proc -> Tokens] /\ disk' \in Tokens
        /\ kind' \in {"missing", "empty", "fresh", "stale"}
    BY <1>0, <1>2 DEF Overwrite, WriteTokens, TypeInv, TypeOK
  <2> QED
    BY <1>2, <2>1, <2>2, RequestStep DEF Overwrite, TypeInv, TypeOK
<1>3. CASE Invalidate(f)
  <2> DEFINE r1 == [flow[f] EXCEPT !.pc = "unauthorized", !.round = 2]
             r2 == [flow[f] EXCEPT !.pc = "checking"]
  <2>1. /\ r1 \in FlowRecord /\ r1.pc \notin Inside
        /\ r2 \in FlowRecord /\ r2.pc \notin Inside
    BY <1>0 DEF FlowRecord, Stages, Queued, Inside, Critical
  <2>2. flow' = [flow EXCEPT ![f] = r1] \/ flow' = [flow EXCEPT ![f] = r2]
    BY <1>3 DEF Invalidate, Again
  <2>3. mem' \in [Proc -> Tokens]
    BY <1>0, <1>3, IdleType DEF Invalidate, TypeInv, TypeOK
  <2> HIDE DEF r1, r2
  <2> QED
    BY <1>3, <2>1, <2>2, <2>3, RequestStep DEF Invalidate, TypeInv, TypeOK
<1>4. CASE CheckMarker(f)
  <2> DEFINE r1 == [flow[f] EXCEPT !.pc = "unauthorized", !.round = 2]
             r2 == [flow[f] EXCEPT !.pc = "discarding"]
  <2>1. /\ r1 \in FlowRecord /\ r1.pc \notin Inside
        /\ r2 \in FlowRecord /\ r2.pc \notin Inside
    BY <1>0 DEF FlowRecord, Stages, Queued, Inside, Critical
  <2>2. flow' = [flow EXCEPT ![f] = r1] \/ flow' = [flow EXCEPT ![f] = r2]
    BY <1>4 DEF CheckMarker, Again
  <2> HIDE DEF r1, r2
  <2> QED
    BY <1>4, <2>1, <2>2, RequestStep DEF CheckMarker, TypeInv, TypeOK
<1>5. CASE Discard(f)
  <2> DEFINE r == [flow[f] EXCEPT !.pc = "unauthorized", !.round = 2]
  <2>1. r \in FlowRecord /\ r.pc \notin Inside
    BY <1>0, <1>00, <1>5 DEF Discard, FlowRecord, Stages, Queued, Inside, Critical
  <2>2. flow' = [flow EXCEPT ![f] = r]
    BY <1>5 DEF Discard, Again
  <2>3. /\ mem' \in [Proc -> Tokens] /\ disk' \in Tokens /\ kind' = "missing"
        /\ echoes' \in [Proc -> SUBSET Tokens]
    BY <1>0, <1>5, IdleType DEF Discard, Forget, TypeInv, TypeOK
  <2> HIDE DEF r
  <2> QED
    BY <1>5, <2>1, <2>2, <2>3, RequestStep DEF Discard, TypeInv, TypeOK
<1> QED
  BY <1>1, <1>2, <1>3, <1>4, <1>5 DEF Afterwards

(* A browser sign-in.                                                      *)
LEMMA SignType ==
  ASSUME TypeInv, NEW f \in Flow, Sign(f)
  PROVE  TypeInv'
<1> DEFINE p == Owner[f]
<1> USE DEF server, files, provider, process, At
<1>0. p \in Proc /\ flow[f] \in FlowRecord /\ OnDisk(p) \in Tokens
      /\ flow[f].result \in Tokens /\ flow[f].token \in Nat
  BY TokenTypes DEF TypeInv, FlowRecord
<1>00. flow[f].pc \in Inside => First(f)
  BY DEF TypeInv, MutexHeld
<1>1. CASE SignIn(f)
  <2> DEFINE r == [Idle EXCEPT !.pc = "signed",
                     !.result = [access |-> issued + 1, refresh |-> issued + 1]]
  <2>1. issued + 1 \in Nat
    BY DEF TypeInv, TypeOK
  <2>2. r \in FlowRecord /\ r.pc \notin Inside
    BY <2>1, IdleType DEF FlowRecord, Stages, Queued, Inside, Critical, Tokens, Idle
  <2>3. grants' \subseteq Nat /\ alive' \subseteq Nat /\ issued' \in Nat
    BY <1>1, <2>1 DEF SignIn, TypeInv, TypeOK
  <2>4. flow' = [flow EXCEPT ![f] = r]
    BY <1>1 DEF SignIn
  <2> HIDE DEF r
  <2> QED
    BY <1>1, <2>2, <2>3, <2>4, RequestStep DEF SignIn, TypeInv, TypeOK
<1>2. CASE StoreSignIn(f)
  <2> DEFINE r == [flow[f] EXCEPT !.pc = "welcome"]
  <2>1. r \in FlowRecord /\ r.pc \notin Inside
    BY <1>0, <1>00, <1>2 DEF StoreSignIn, FlowRecord, Stages, Queued, Inside, Critical
  <2>2. flow' = [flow EXCEPT ![f] = r]
    BY <1>2 DEF StoreSignIn
  <2>3. disk' \in Tokens
    BY <1>0, <1>2 DEF StoreSignIn, TypeInv, TypeOK
  <2> HIDE DEF r
  <2> QED
    BY <1>2, <2>1, <2>2, <2>3, RequestStep DEF StoreSignIn, TypeInv, TypeOK
<1>3. CASE FinishSignIn(f)
  BY <1>3, IdleType, RequestStep DEF FinishSignIn, TypeInv, TypeOK, Idle, Inside, Critical
<1> QED
  BY <1>1, <1>2, <1>3 DEF Sign

(* A process begins to drain, ends, or starts again.                       *)
LEMMA LifeType ==
  ASSUME TypeInv, NEW p \in Proc, Life(p)
  PROVE  TypeInv'
<1> USE DEF server, files, provider, process
<1>1. CASE BeginShutdown(p)
  <2>1. {chain[p][i] : i \in 1..Len(chain[p])} \subseteq Flow
    BY DEF TypeInv, TypeOK
  <2>2. awaited' \in [Proc -> SUBSET Flow]
    BY <1>1, <2>1 DEF BeginShutdown, TypeInv, TypeOK
  <2>3. proc' \in [Proc -> {"up", "draining", "down"}]
    BY <1>1 DEF BeginShutdown, TypeInv, TypeOK
  <2> QED
    BY <1>1, <2>2, <2>3 DEF BeginShutdown, TypeInv, TypeOK, MutexHeld, First
<1>2. CASE Die(p) /\ lock' \in Flow \cup {Nobody}
  <2>1. flow' = [f \in Flow |-> IF Owner[f] = p THEN Idle ELSE flow[f]]
    BY <1>2 DEF Die
  <2>2. flow' \in [Flow -> FlowRecord]
    BY <2>1, IdleType DEF TypeInv, TypeOK
  <2>3. chain' = [chain EXCEPT ![p] = <<>>] /\ <<>> \in Seq(Flow)
    BY <1>2 DEF Die
  <2>4. chain' \in [Proc -> Seq(Flow)]
    BY <2>3 DEF TypeInv, TypeOK
  <2>5. MutexHeld'
    <3> SUFFICES ASSUME NEW g \in Flow, flow'[g].pc \in Inside
                 PROVE  First(g)'
      BY DEF MutexHeld
    <3>1. Owner[g] # p
      BY <2>1 DEF Idle, Inside, Critical
    <3>2. First(g)
      BY <2>1, <3>1 DEF TypeInv, MutexHeld
    <3> QED
      BY <2>3, <3>1, <3>2, TokenAssumption DEF First, TypeInv, TypeOK
  <2>6. /\ proc' \in [Proc -> {"up", "draining", "down"}]
        /\ awaited' \in [Proc -> SUBSET Flow]
        /\ echoes' \in [Proc -> SUBSET Tokens]
        /\ mem' \in [Proc -> Tokens]
        /\ rejected' \in [Proc -> Nat]
    BY <1>2, IdleType DEF Die, TypeInv, TypeOK
  <2>7. TypeOK'
    BY <1>2, <2>2, <2>4, <2>6 DEF Die, TypeInv, TypeOK
  <2> QED
    BY <2>5, <2>7 DEF TypeInv
<1>3. CASE Exit(p)
  BY <1>2, <1>3 DEF Exit, TypeInv, TypeOK
<1>4. CASE Crash(p)
  BY <1>2, <1>4 DEF Crash, TypeInv, TypeOK
<1>5. CASE Restart(p)
  <2>1. /\ proc' \in [Proc -> {"up", "draining", "down"}]
        /\ mem' \in [Proc -> Tokens]
    BY <1>5 DEF Restart, TypeInv, TypeOK
  <2> QED
    BY <1>5, <2>1 DEF Restart, TypeInv, TypeOK, MutexHeld, First
<1> QED
  BY <1>1, <1>3, <1>4, <1>5 DEF Life

-----------------------------------------------------------------------------
(* TypeInv is inductive.                                                   *)
LEMMA TypeInit == Init => TypeInv
<1> SUFFICES ASSUME Init PROVE TypeInv
  OBVIOUS
<1>1. TypeOK
  BY TokenAssumption, IdleType DEF Init, TypeOK, Tokens
<1>2. MutexHeld
  BY DEF Init, MutexHeld, Idle, Inside, Critical
<1> QED
  BY <1>1, <1>2 DEF TypeInv

LEMMA TypeNext == TypeInv /\ [Next]_vars => TypeInv'
<1> SUFFICES ASSUME TypeInv, [Next]_vars PROVE TypeInv'
  OBVIOUS
<1>1. CASE UNCHANGED vars
  BY <1>1 DEF vars, server, files, provider, process, TypeInv, TypeOK, MutexHeld, First
<1>2. ASSUME NEW f \in Flow,
             Client(f) \/ Locking(f) \/ Transaction(f) \/ Answer(f)
               \/ Afterwards(f) \/ Sign(f)
      PROVE  TypeInv'
  BY <1>2, ClientType, LockingType, TransactionType, AnswerType, AfterwardsType, SignType
<1>3. ASSUME NEW p \in Proc, Life(p) PROVE TypeInv'
  BY <1>3, LifeType
<1>4. CASE AccessEnds
  BY <1>4 DEF AccessEnds, provider, process, TypeInv, TypeOK, MutexHeld, First
<1>5. CASE Revoke
  <2>1. grants' \subseteq Nat /\ alive' \subseteq Nat
    BY <1>5 DEF Revoke, TypeInv, TypeOK
  <2> QED
    BY <1>5, <2>1 DEF Revoke, files, provider, process, TypeInv, TypeOK, MutexHeld, First
<1> QED
  BY <1>1, <1>2, <1>3, <1>4, <1>5 DEF Next

(* Every reachable state is well typed, whatever the environment does, and *)
(* a flow inside the in-process mutex of tokenRefreshLock.ts is the first  *)
(* of its chain.                                                           *)
THEOREM TypeCorrect == Spec => []TypeOK
<1>1. TypeInv => TypeOK
  BY DEF TypeInv
<1> QED
  BY TypeInit, TypeNext, <1>1, PTL DEF Spec

-----------------------------------------------------------------------------
(* Mutual exclusion.                                                       *)

(* Whoever is inside the critical section made the lock directory.         *)
Holds == \A f \in Flow : flow[f].pc \in Critical => lock = f

(* A step that leaves the lock to its holder keeps Holds when the flow it  *)
(* moves was inside before.                                                *)
LEMMA HolderMoves ==
  ASSUME TypeInv, Holds, NEW f \in Flow, NEW r,
         flow' = [flow EXCEPT ![f] = r], lock' = lock,
         r.pc \in Critical => flow[f].pc \in Critical
  PROVE  Holds'
BY DEF Holds, TypeInv, TypeOK

LEMMA HoldsNext ==
  ASSUME "suspend" \notin Events, TypeInv, Holds, [Next]_vars
  PROVE  Holds'
<1> USE DEF At
<1>1. CASE UNCHANGED vars
  BY <1>1 DEF vars, Holds
<1>2. ASSUME NEW f \in Flow, Client(f) PROVE Holds'
  <2>1. lock' = lock
    BY <1>2 DEF Client, Request, Served, Refused, Enqueue
  <2>2. \E r : flow' = [flow EXCEPT ![f] = r] /\ r.pc \notin Critical
    <3>1. CASE Request(f)
      <4> DEFINE r == [Idle EXCEPT !.pc = "requested", !.bearer = OnDisk(Owner[f]).access]
      <4>1. flow' = [flow EXCEPT ![f] = r]
        BY <3>1 DEF Request
      <4>2. r.pc \notin Critical
        BY DEF Critical, Idle
      <4> HIDE DEF r
      <4> QED
        BY <4>1, <4>2
    <3>2. CASE Served(f)
      <4>1. flow' = [flow EXCEPT ![f] = Idle]
        BY <3>2 DEF Served
      <4>2. Idle.pc \notin Critical
        BY DEF Critical, Idle
      <4> QED
        BY <4>1, <4>2
    <3>3. CASE Refused(f)
      <4> DEFINE r == [flow[f] EXCEPT !.pc = "unauthorized"]
      <4>1. flow' = [flow EXCEPT ![f] = r]
        BY <3>3 DEF Refused, TypeInv, TypeOK
      <4>2. r.pc \notin Critical
        BY DEF Critical, TypeInv, TypeOK, FlowRecord
      <4> QED
        BY <4>1, <4>2
    <3>4. CASE Enqueue(f)
      <4> DEFINE r == [flow[f] EXCEPT !.pc = "queued", !.token = OnDisk(Owner[f]).refresh,
                                      !.rejected = rejected[Owner[f]], !.tries = 0]
      <4>1. flow' = [flow EXCEPT ![f] = r] \/ flow' = [flow EXCEPT ![f] = Idle]
        BY <3>4 DEF Enqueue
      <4>2. r.pc \notin Critical /\ Idle.pc \notin Critical
        BY DEF Critical, TypeInv, TypeOK, FlowRecord, Idle
      <4> HIDE DEF r
      <4> QED
        BY <4>1, <4>2
    <3> QED
      BY <1>2, <3>1, <3>2, <3>3, <3>4 DEF Client
  <2> QED
    BY <2>1, <2>2, HolderMoves
<1>3. ASSUME NEW f \in Flow, Locking(f) PROVE Holds'
  <2>1. CASE EnsureLockTarget(f)
    BY <2>1 DEF EnsureLockTarget, Holds, Critical, TypeInv, TypeOK, FlowRecord
  <2>2. CASE Acquire(f)
    <3>1. \A g \in Flow : flow[g].pc \notin Critical
      BY <2>2, TokenAssumption DEF Acquire, Free, Holds
    <3> QED
      BY <2>2, <3>1 DEF Acquire, Holds, TypeInv, TypeOK
  <2>3. CASE LockBusy(f)
    BY <2>3 DEF LockBusy, Holds, Idle, Critical, TypeInv, TypeOK
  <2>4. CASE LockLost(f)
    BY <2>4 DEF LockLost, MayFail, Holds, Critical
  <2>5. CASE Release(f)
    <3>1. lock = f /\ \A g \in Flow \ {f} : flow[g].pc \notin Critical
      BY <2>5 DEF Release, Holds, Critical
    <3>2. flow'[f].pc \notin Critical /\ \A g \in Flow \ {f} : flow'[g] = flow[g]
      BY <2>5 DEF Release, Critical, Idle, TypeInv, TypeOK, FlowRecord
    <3> QED
      BY <3>1, <3>2 DEF Holds
  <2> QED
    BY <1>3, <2>1, <2>2, <2>3, <2>4, <2>5 DEF Locking
<1>4. ASSUME NEW f \in Flow, Transaction(f) PROVE Holds'
  <2>1. flow[f].pc \in Critical /\ lock' = lock
    BY <1>4 DEF Transaction, ReadUnderLock, MergeRotated, UnusableBody, PersistRotated,
       PersistFails, ClearMarker, Recheck, ClearTokens, MarkNeedsReconnect, Critical
  <2>2. \E r : flow' = [flow EXCEPT ![f] = r]
    BY <1>4 DEF Transaction, ReadUnderLock, MergeRotated, UnusableBody, PersistRotated,
       PersistFails, ClearMarker, Recheck, ClearTokens, MarkNeedsReconnect
  <2> QED
    BY <2>1, <2>2, HolderMoves
<1>5. ASSUME NEW f \in Flow, Answer(f) PROVE Holds'
  <2>1. flow[f].pc \in Critical /\ lock' = lock
    BY <1>5 DEF Answer, ServerGrants, ServerDenies, ServerErrs, Critical
  <2>2. \E r : flow' = [flow EXCEPT ![f] = r]
    BY <1>5 DEF Answer, ServerGrants, ServerDenies, ServerErrs, Fail
  <2> QED
    BY <2>1, <2>2, HolderMoves
<1>6. ASSUME NEW f \in Flow, Afterwards(f) PROVE Holds'
  <2>1. CASE SaveTokens(f)
    <3> DEFINE r == [flow[f] EXCEPT !.pc = "overwriting",
                                    !.result = Merge(Owner[f], Incoming(f))]
    <3>1. (flow' = [flow EXCEPT ![f] = r] \/ flow' = [flow EXCEPT ![f] = Idle]) /\ lock' = lock
      BY <2>1 DEF SaveTokens
    <3>2. r.pc \notin Critical /\ Idle.pc \notin Critical
      BY DEF Critical, TypeInv, TypeOK, FlowRecord, Idle
    <3> HIDE DEF r
    <3> QED
      BY <3>1, <3>2, HolderMoves
  <2>2. CASE Overwrite(f)
    BY <2>2 DEF Overwrite, Holds, Critical, Idle, TypeInv, TypeOK, FlowRecord
  <2>3. CASE Invalidate(f)
    <3> DEFINE again    == [flow[f] EXCEPT !.pc = "unauthorized", !.round = 2]
               checking == [flow[f] EXCEPT !.pc = "checking"]
    <3>1. /\ lock' = lock
          /\ \/ flow' = [flow EXCEPT ![f] = again]
             \/ flow' = [flow EXCEPT ![f] = checking]
      BY <2>3 DEF Invalidate, Again, TypeInv, TypeOK
    <3>2. again.pc \notin Critical /\ checking.pc \notin Critical
      BY DEF Critical, TypeInv, TypeOK, FlowRecord
    <3> HIDE DEF again, checking
    <3> QED
      BY <3>1, <3>2, HolderMoves
  <2>4. CASE CheckMarker(f)
    BY <2>4 DEF CheckMarker, Again, Holds, Critical, TypeInv, TypeOK, FlowRecord
  <2>5. CASE Discard(f)
    BY <2>5 DEF Discard, Again, Holds, Critical, TypeInv, TypeOK, FlowRecord
  <2> QED
    BY <1>6, <2>1, <2>2, <2>3, <2>4, <2>5 DEF Afterwards
<1>7. ASSUME NEW f \in Flow, Sign(f) PROVE Holds'
  <2>1. CASE SignIn(f)
    BY <2>1 DEF SignIn, Holds, Critical, Idle, TypeInv, TypeOK, FlowRecord
  <2>2. CASE StoreSignIn(f)
    BY <2>2 DEF StoreSignIn, Holds, Critical, TypeInv, TypeOK, FlowRecord
  <2>3. CASE FinishSignIn(f)
    BY <2>3 DEF FinishSignIn, Holds, Critical, Idle, TypeInv, TypeOK, FlowRecord
  <2> QED
    BY <1>7, <2>1, <2>2, <2>3 DEF Sign
<1>8. ASSUME NEW p \in Proc, Life(p) PROVE Holds'
  <2>1. CASE BeginShutdown(p) \/ Restart(p)
    BY <2>1 DEF BeginShutdown, Restart, Holds
  <2>2. ASSUME Die(p), lock' = lock \/ (Owner[lock] = p /\ lock \in Flow)
        PROVE  Holds'
    BY <2>2 DEF Die, Holds, Idle, Critical
  <2>3. CASE Exit(p)
    BY <2>2, <2>3 DEF Exit, TypeInv, TypeOK
  <2>4. CASE Crash(p)
    BY <2>2, <2>4 DEF Crash
  <2> QED
    BY <1>8, <2>1, <2>3, <2>4 DEF Life
<1>9. CASE AccessEnds \/ Revoke
  BY <1>9 DEF AccessEnds, Revoke, Holds
<1> QED
  BY <1>1, <1>2, <1>3, <1>4, <1>5, <1>6, <1>7, <1>8, <1>9 DEF Next

(* The file lock of tokenRefreshLock.ts keeps the transactions of all      *)
(* processes apart, through crashes, restarts, shutdowns and failed writes,*)
(* as long as no process sleeps longer than the stale window.              *)
THEOREM MutualExclusion ==
  ASSUME "suspend" \notin Events
  PROVE  Spec => []OneTransactionAtATime
<1>1. Init => Holds
  BY DEF Init, Holds, Idle, Critical
<1>2. TypeInv /\ Holds /\ [Next]_vars => Holds'
  BY HoldsNext
<1>3. TypeInv /\ Holds => OneTransactionAtATime
  BY DEF Holds, OneTransactionAtATime
<1> QED
  BY TypeInit, TypeNext, <1>1, <1>2, <1>3, PTL DEF Spec
=============================================================================
