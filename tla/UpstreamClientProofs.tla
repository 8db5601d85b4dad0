----------------------- MODULE UpstreamClientProofs -----------------------
(***************************************************************************)
(* Theorems about UpstreamClient, for any calls, any number of slots,      *)
(* helper processes and connections.                                       *)
(***************************************************************************)
EXTENDS UpstreamClient, TLAPS

(* A call waits in one place of the queue.                                 *)
Distinct == \A i, j \in 1..Len(queue) : queue[i] = queue[j] => i = j

TypeInv == TypeOK /\ Distinct /\ signal <= connects

-----------------------------------------------------------------------------
(* The request queue.                                                      *)

(* Every call in the queue is one that waits.                              *)
LEMMA QueueIsQueued ==
  ASSUME TypeOK
  PROVE  /\ queue \in Seq(Call)
         /\ \A i \in 1..Len(queue) : queue[i] \in Call /\ call[queue[i]].st = "queued"
<1>1. queue \in Seq(InState("queued"))
  BY DEF TypeOK
<1>2. \A i \in 1..Len(queue) : queue[i] \in InState("queued")
  BY <1>1
<1> QED
  BY <1>1, <1>2 DEF InState

(* A step that leaves the queue alone, and every call that waits waiting,  *)
(* keeps the queue well typed.                                             *)
LEMMA QueueKept ==
  ASSUME TypeOK, Distinct, queue' = queue,
         \A c \in Call : call[c].st = "queued" => call'[c].st = "queued"
  PROVE  queue' \in Seq(InState("queued")') /\ Distinct'
<1>1. \A i \in 1..Len(queue) : queue[i] \in InState("queued")'
  BY QueueIsQueued DEF InState
<1>2. queue' \in Seq(InState("queued")')
  BY <1>1, QueueIsQueued
<1> QED
  BY <1>2 DEF Distinct

(* The fields of a call.                                                   *)
LEMMA CallFields ==
  ASSUME TypeOK, NEW c \in Call
  PROVE  /\ call[c] \in CallRecord
         /\ call[c].st \in CallState /\ call[c].epoch \in 0..MaxConnects
         /\ call[c].signal \in 0..MaxConnects /\ call[c].cancelled \in BOOLEAN
BY DEF TypeOK, CallRecord

(* A call that moves on keeps what it was made with.                       *)
LEMMA CallMoves ==
  ASSUME TypeOK, NEW c \in Call, NEW st \in CallState, call' = SetState(c, st)
  PROVE  /\ call' \in [Call -> CallRecord]
         /\ call'[c].st = st /\ call'[c].epoch = call[c].epoch
         /\ call'[c].signal = call[c].signal
         /\ \A d \in Call \ {c} : call'[d] = call[d]
BY CallFields DEF TypeOK, SetState, CallRecord

LEMMA LinkLostTypes ==
  ASSUME TypeOK, LinkLost
  PROVE  /\ call' \in [Call -> CallRecord]
         /\ stream' \in [Call -> {"none", "open", "primed", "resumed", "answered", "ended"}]
         /\ queue' = queue /\ answers' = answers
         /\ \A c \in Call : /\ call[c].st = "sent" => call'[c].st = "failed"
                            /\ call[c].st # "sent" => call'[c] = call[c]
                            /\ call'[c].epoch = call[c].epoch
                            /\ call'[c].signal = call[c].signal
                            /\ stream'[c] = IF stream[c] = "none" THEN "none" ELSE "ended"
BY CallFields DEF TypeOK, LinkLost, CallRecord, CallState

-----------------------------------------------------------------------------
LEMMA TypeInit == Init => TypeInv
<1> SUFFICES ASSUME Init PROVE TypeInv
  OBVIOUS
<1>1. call \in [Call -> CallRecord]
  BY UpstreamAssumption DEF Init, CallRecord, CallState
<1>2. queue \in Seq(InState("queued")) /\ Distinct
  BY DEF Init, Distinct
<1>3. connects \in 0..MaxConnects /\ signal \in 0..MaxConnects /\ signal <= connects
  BY UpstreamAssumption DEF Init
<1>4. fellBack \in BOOLEAN /\ connected \in BOOLEAN /\ aborted \in BOOLEAN /\ pid \in BOOLEAN
  BY Zenon DEF Init
<1> QED
  BY <1>1, <1>2, <1>3, <1>4 DEF Init, TypeInv, TypeOK

(* The steps of a connection change no call.                               *)
LEMMA TypeOpening == ASSUME TypeInv, Opening PROVE TypeInv'
<1> USE UpstreamAssumption DEF TypeInv
<1>1. calls' = calls
  BY DEF Opening, ConnectStart, CreateTransport, Connected, FallBack, ConnectFails,
         LateHandshake, calls
<1>2. queue' \in Seq(InState("queued")') /\ Distinct'
  BY <1>1, QueueKept DEF calls
<1>3. CASE ConnectStart
  <2>1. /\ connects' \in 0..MaxConnects /\ signal' \in 0..MaxConnects
        /\ signal' <= connects'
    BY <1>3 DEF ConnectStart, TypeOK
  <2>2. /\ fellBack' \in BOOLEAN /\ connected' \in BOOLEAN
        /\ aborted' \in BOOLEAN /\ pid' \in BOOLEAN
    BY <1>3, Zenon DEF ConnectStart, TypeOK
  <2> QED
    BY <1>1, <1>2, <1>3, <2>1, <2>2 DEF ConnectStart, TypeOK, calls
<1>4. CASE CreateTransport
  BY <1>1, <1>2, <1>4 DEF CreateTransport, TypeOK, calls, procs, shut
<1>5. CASE Connected
  BY <1>1, <1>2, <1>5 DEF Connected, TypeOK, calls, procs, shut
<1>6. CASE FallBack
  BY <1>1, <1>2, <1>6 DEF FallBack, TypeOK, calls, procs, shut
<1>7. CASE ConnectFails
  BY <1>1, <1>2, <1>7 DEF ConnectFails, TypeOK, calls, procs, shut
<1>8. CASE LateHandshake
  BY <1>1, <1>2, <1>8 DEF LateHandshake, TypeOK, calls, procs, shut
<1> QED
  BY <1>3, <1>4, <1>5, <1>6, <1>7, <1>8 DEF Opening

(* A call that is made goes to the end of the queue, if it waits.          *)
LEMMA TypeMakeCall == ASSUME TypeInv, NEW c \in Call, MakeCall(c) PROVE TypeInv'
<1> USE UpstreamAssumption DEF TypeInv
<1> DEFINE st == CASE kind = "http" /\ ~connected -> "failed"
                   [] kind = "home" -> "collecting"
                   [] OTHER -> "queued"
           r  == [call[c] EXCEPT !.st = st, !.epoch = connects, !.signal = signal]
<1>1. /\ call[c].st = "new" /\ call' = [call EXCEPT ![c] = r]
      /\ queue' = IF st = "queued" THEN Append(queue, c) ELSE queue
  BY DEF MakeCall
<1>2. st \in CallState /\ st # "new"
  BY DEF CallState
<1>3. r \in CallRecord /\ r.st = st
  BY <1>2, CallFields DEF TypeOK, CallRecord
<1> HIDE DEF st, r
<1>4. call' \in [Call -> CallRecord] /\ call'[c] = r /\ \A d \in Call \ {c} : call'[d] = call[d]
  BY <1>1, <1>3 DEF TypeOK
<1>5. queue' \in Seq(InState("queued")') /\ Distinct'
  <2>1. CASE st # "queued"
    BY <2>1, <1>1, <1>4, QueueKept
  <2>2. CASE st = "queued"
    <3>1. queue' = Append(queue, c) /\ queue \in Seq(Call)
      BY <2>2, <1>1, QueueIsQueued
    <3>2. Len(queue') = Len(queue) + 1 /\ queue'[Len(queue) + 1] = c
          /\ \A i \in 1..Len(queue) : queue'[i] = queue[i]
      BY <3>1
    <3>3. \A i \in 1..Len(queue) : queue[i] # c
      BY <1>1, QueueIsQueued
    <3>4. Distinct'
      BY <3>1, <3>2, <3>3 DEF Distinct
    <3>5. \A i \in 1..Len(queue') : queue'[i] \in InState("queued")'
      BY <3>2, <3>3, <2>2, <1>3, <1>4, QueueIsQueued DEF InState
    <3>6. queue' \in Seq(Call)
      BY <3>1
    <3> QED
      BY <3>4, <3>5, <3>6
  <2> QED
    BY <2>1, <2>2
<1> QED
  BY <1>4, <1>5 DEF MakeCall, TypeOK, conn, procs, shut

(* A call outside the queue that moves on leaves the queue as it was.      *)
LEMMA TypeMoves ==
  ASSUME TypeInv, NEW c \in Call, NEW st \in CallState, call[c].st # "queued",
         call' = SetState(c, st), queue' = queue
  PROVE  call' \in [Call -> CallRecord] /\ queue' \in Seq(InState("queued")') /\ Distinct'
BY CallMoves, QueueKept DEF TypeInv

LEMMA TypeStartJob == ASSUME TypeInv, StartJob PROVE TypeInv'
<1> USE UpstreamAssumption DEF TypeInv
<1> DEFINE c  == Head(queue)
           st == IF ~SignalAborted(c) /\ MayBeSent(c) THEN "sent" ELSE "failed"
<1>1. queue # <<>> /\ call' = SetState(c, st) /\ queue' = Tail(queue)
  BY DEF StartJob
<1>2. /\ queue \in Seq(Call) /\ c \in Call
      /\ Len(queue) > 0 /\ c = queue[1]
      /\ Len(queue') = Len(queue) - 1 /\ queue' \in Seq(Call)
      /\ \A i \in 1..Len(queue') : queue'[i] = queue[i + 1]
  BY <1>1, QueueIsQueued
<1>3. st \in CallState
  BY DEF CallState
<1> HIDE DEF c, st
<1>4. /\ call' \in [Call -> CallRecord]
      /\ \A d \in Call \ {c} : call'[d] = call[d]
  BY <1>1, <1>2, <1>3, CallMoves
<1>5. \A i \in 1..Len(queue') : queue'[i] # c
  BY <1>2 DEF Distinct
<1>6. \A i \in 1..Len(queue') : queue'[i] \in InState("queued")'
  BY <1>2, <1>4, <1>5, QueueIsQueued DEF InState
<1>7. queue' \in Seq(InState("queued")')
  BY <1>2, <1>6
<1>8. Distinct'
  BY <1>2 DEF Distinct
<1> QED
  BY <1>4, <1>7, <1>8 DEF StartJob, TypeOK, conn, procs, shut

LEMMA TypeServing == ASSUME TypeInv, Serving PROVE TypeInv'
<1> USE UpstreamAssumption DEF TypeInv
<1>1. ASSUME NEW c \in Call, Cancel(c) PROVE TypeInv'
  <2>1. /\ call' = [call EXCEPT ![c].cancelled = TRUE] /\ queue' = queue
    BY <1>1 DEF Cancel
  <2>2. [call[c] EXCEPT !.cancelled = TRUE] \in CallRecord
    BY CallFields DEF CallRecord
  <2>3. /\ call' \in [Call -> CallRecord]
        /\ \A d \in Call : call'[d].st = call[d].st
    BY <2>1, <2>2, CallFields DEF TypeOK, CallRecord
  <2>4. queue' \in Seq(InState("queued")') /\ Distinct'
    BY <2>1, <2>3, QueueKept
  <2> QED
    BY <1>1, <2>3, <2>4 DEF Cancel, TypeOK, conn, procs, shut
<1>2. ASSUME NEW c \in Call, Dispatch(c) PROVE TypeInv'
  <2>1. PICK st \in {"sent", "failed"} : call' = SetState(c, st)
    BY <1>2 DEF Dispatch
  <2>2. call' \in [Call -> CallRecord] /\ queue' \in Seq(InState("queued")') /\ Distinct'
    BY <1>2, <2>1, TypeMoves DEF Dispatch, CallState
  <2> QED
    BY <1>2, <2>2 DEF Dispatch, TypeOK, conn, procs, shut
<1>3. ASSUME NEW c \in Call, Answer(c) PROVE TypeInv'
  <2>1. call' \in [Call -> CallRecord] /\ queue' \in Seq(InState("queued")') /\ Distinct'
    BY <1>3, TypeMoves DEF Answer, CallState
  <2>2. answers' \in [Call -> Nat]
    BY <1>3 DEF Answer, TypeOK
  <2> QED
    BY <1>3, <2>1, <2>2 DEF Answer, TypeOK, conn, procs, shut
<1>4. ASSUME NEW c \in Call, Refused(c) PROVE TypeInv'
  <2>1. call' \in [Call -> CallRecord] /\ queue' \in Seq(InState("queued")') /\ Distinct'
    BY <1>4, TypeMoves DEF Refused, CallState
  <2>2. connected' \in BOOLEAN
    BY <1>4, Zenon DEF Refused, TypeOK
  <2> QED
    BY <1>4, <2>1, <2>2 DEF Refused, TypeOK, procs, shut
<1> QED
  BY <1>1, <1>2, <1>3, <1>4, TypeMakeCall, TypeStartJob DEF Serving

LEMMA TypeStreaming == ASSUME TypeInv, Streaming PROVE TypeInv'
<1> USE UpstreamAssumption DEF TypeInv
<1>1. ASSUME NEW c \in Call, NEW st \in {"answered", "failed"}, GiveAnswer(c, st),
             queue' = queue
      PROVE  /\ call' \in [Call -> CallRecord] /\ answers' \in [Call -> Nat]
             /\ queue' \in Seq(InState("queued")') /\ Distinct'
  <2>1. answers' \in [Call -> Nat]
    BY <1>1 DEF GiveAnswer, TypeOK
  <2>2. CASE call[c].st = "sent"
    BY <1>1, <2>1, <2>2, TypeMoves DEF GiveAnswer, CallState
  <2>3. CASE call[c].st # "sent"
    BY <1>1, <2>1, <2>3, QueueKept DEF GiveAnswer, TypeOK
  <2> QED
    BY <2>2, <2>3
<1>2. ASSUME NEW c \in Call, OpenStream(c) \/ Prime(c) PROVE TypeInv'
  <2>1. queue' \in Seq(InState("queued")') /\ Distinct'
    BY <1>2, QueueKept DEF OpenStream, Prime
  <2> QED
    BY <1>2, <2>1 DEF OpenStream, Prime, TypeOK, conn, procs, shut
<1>3. ASSUME NEW c \in Call, StreamAnswers(c) PROVE TypeInv'
  <2>1. /\ call' \in [Call -> CallRecord] /\ answers' \in [Call -> Nat]
        /\ queue' \in Seq(InState("queued")') /\ Distinct'
    BY <1>1, <1>3 DEF StreamAnswers
  <2>2. stream' \in [Call -> {"none", "open", "primed", "resumed", "answered", "ended"}]
    BY <1>3 DEF StreamAnswers, TypeOK
  <2> QED
    BY <1>3, <2>1, <2>2 DEF StreamAnswers, TypeOK, conn, procs, shut
<1>4. ASSUME NEW c \in Call, StreamEnds(c) PROVE TypeInv'
  <2>1. /\ call' \in [Call -> CallRecord] /\ answers' \in [Call -> Nat]
        /\ queue' \in Seq(InState("queued")') /\ Distinct'
    <3>1. CASE Dropped(c)
      BY <1>1, <1>4, <3>1 DEF StreamEnds
    <3>2. CASE ~Dropped(c)
      BY <1>4, <3>2, QueueKept DEF StreamEnds, TypeOK
    <3> QED
      BY <3>1, <3>2
  <2>2. stream' \in [Call -> {"none", "open", "primed", "resumed", "answered", "ended"}]
    BY <1>4 DEF StreamEnds, TypeOK
  <2> QED
    BY <1>4, <2>1, <2>2 DEF StreamEnds, TypeOK, conn, procs, shut
<1> QED
  BY <1>2, <1>3, <1>4 DEF Streaming

LEMMA TypeLiving == ASSUME TypeInv, Living PROVE TypeInv'
<1> USE UpstreamAssumption DEF TypeInv
<1>1. ASSUME NEW h \in Helper, StartHelper(h) \/ HelperExits(h) PROVE TypeInv'
  <2>1. queue' \in Seq(InState("queued")') /\ Distinct'
    BY <1>1, QueueKept DEF StartHelper, HelperExits, calls
  <2>2. helper' \in [Helper -> {"unborn", "child", "orphan", "dead"}] /\ late' \subseteq Helper
    BY <1>1 DEF StartHelper, HelperExits, TypeOK
  <2>3. CASE StartHelper(h)
    BY <2>1, <2>2, <2>3 DEF StartHelper, TypeOK, conn, calls, shut
  <2>4. CASE HelperExits(h)
    BY <2>1, <2>2, <2>4 DEF HelperExits, TypeOK, conn, calls, shut
  <2> QED
    BY <1>1, <2>3, <2>4
<1>2. CASE RootExits
  <2>1. queue' \in Seq(InState("queued")') /\ Distinct'
    BY <1>2, LinkLostTypes, QueueKept DEF RootExits
  <2>2. helper' \in [Helper -> {"unborn", "child", "orphan", "dead"}] /\ stray' \subseteq Helper
    BY <1>2 DEF RootExits, TypeOK, Children
  <2> QED
    BY <1>2, <2>1, <2>2, LinkLostTypes DEF RootExits, TypeOK, shut
<1> QED
  BY <1>1, <1>2 DEF Living

LEMMA TypeClosing == ASSUME TypeInv, Closing PROVE TypeInv'
<1> USE UpstreamAssumption DEF TypeInv
<1>1. CASE CloseStart
  <2>1. /\ call' \in [Call -> CallRecord] /\ answers' = answers
        /\ stream' \in [Call -> {"none", "open", "primed", "resumed", "answered", "ended"}]
        /\ queue' \in Seq(InState("queued")') /\ Distinct'
    <3>1. CASE kind = "stdio"
      BY <1>1, <3>1, QueueKept DEF CloseStart, TypeOK, calls
    <3>2. CASE kind # "stdio"
      BY <1>1, <3>2, QueueKept, LinkLostTypes DEF CloseStart
    <3> QED
      BY <3>1, <3>2
  <2>2. aborted' \in BOOLEAN
    <3>1. aborted' = (kind \in {"stdio", "http"})
      BY <1>1 DEF CloseStart, Queued
    <3> QED
      BY <3>1
  <2>3. pid' \in BOOLEAN
    <3>1. pid' = (root = "live")
      BY <1>1 DEF CloseStart
    <3> QED
      BY <3>1
  <2> QED
    BY <1>1, <2>1, <2>2, <2>3 DEF CloseStart, TypeOK, procs
<1>2. CASE KillTree
  <2>1. queue' \in Seq(InState("queued")') /\ Distinct'
    BY <1>2, LinkLostTypes, QueueKept DEF KillTree
  <2> QED
    BY <1>2, <2>1, LinkLostTypes DEF KillTree, TypeOK
<1>3. CASE ListTree \/ StopChild \/ ExitedInGrace \/ GraceOver \/ CloseEnds
  <2>1. queue' \in Seq(InState("queued")') /\ Distinct'
    BY <1>3, QueueKept DEF ListTree, StopChild, ExitedInGrace, GraceOver, CloseEnds, calls
  <2>2. CASE CloseEnds
    <3>1. connected' \in BOOLEAN
      BY <2>2, Zenon DEF CloseEnds, TypeOK
    <3> QED
      BY <2>1, <2>2, <3>1 DEF CloseEnds, TypeOK, calls, procs
  <2> QED
    BY <1>3, <2>1, <2>2
       DEF ListTree, StopChild, ExitedInGrace, GraceOver, TypeOK, Children, conn, calls, procs
<1> QED
  BY <1>1, <1>2, <1>3 DEF Closing

LEMMA TypeStep == TypeInv /\ [Next]_vars => TypeInv'
<1> SUFFICES ASSUME TypeInv, [Next]_vars PROVE TypeInv'
  OBVIOUS
<1>1. CASE UNCHANGED vars
  BY <1>1, QueueKept DEF TypeInv, TypeOK, vars, conn, calls, procs, shut
<1> QED
  BY <1>1, TypeOpening, TypeServing, TypeStreaming, TypeLiving, TypeClosing DEF Next

(* In every reachable state each variable has its type; it takes that no   *)
(* call waits in two places of the queue and that no signal is ahead of    *)
(* its connection.                                                         *)
THEOREM TypeCorrect == Spec => []TypeOK
BY TypeInit, TypeStep, PTL DEF Spec, TypeInv

-----------------------------------------------------------------------------
(* Answer streams.                                                         *)

(* Where a call and its stream are says whether the SDK has been given an  *)
(* answer.                                                                 *)
StreamInv ==
  \A c \in Call :
    /\ answers[c] \in {0, 1}
    /\ stream[c] \in {"open", "primed", "resumed"} => answers[c] = 0
    /\ stream[c] = "none" /\ call[c].st # "answered" => answers[c] = 0
    /\ stream[c] \in {"answered", "ended"} => call[c].st # "sent"
    /\ call[c].st \in {"new", "queued", "collecting"} => stream[c] = "none"

LEMMA StreamStep == TypeInv /\ StreamInv /\ [Next]_vars => StreamInv'
<1> SUFFICES ASSUME TypeInv, StreamInv, [Next]_vars PROVE StreamInv'
  OBVIOUS
<1> USE DEF TypeInv
<1>1. CASE UNCHANGED calls
  BY <1>1 DEF StreamInv, calls
<1>2. ASSUME NEW c \in Call, MakeCall(c) PROVE StreamInv'
  <2>1. \A d \in Call : call'[d] # call[d] =>
          call[d].st = "new" /\ call'[d].st \in {"failed", "collecting", "queued"}
    BY <1>2, TypeMakeCall, CallFields DEF MakeCall, TypeOK, CallRecord
  <2> QED
    BY <1>2, <2>1 DEF MakeCall, StreamInv
<1>3. ASSUME NEW c \in Call, Cancel(c) PROVE StreamInv'
  <2>1. \A d \in Call : call'[d].st = call[d].st
    BY <1>3, CallFields DEF Cancel, TypeOK, CallRecord
  <2> QED
    BY <1>3, <2>1 DEF Cancel, StreamInv
<1>4. ASSUME NEW c \in Call, NEW st \in {"sent", "failed"}, call[c].st \in {"queued", "collecting"},
             call' = SetState(c, st), stream' = stream, answers' = answers
      PROVE  StreamInv'
  BY <1>4, CallMoves DEF StreamInv, CallState
<1>5. ASSUME StartJob PROVE StreamInv'
  <2>1. Head(queue) \in Call /\ call[Head(queue)].st = "queued"
    BY <1>5, QueueIsQueued DEF StartJob
  <2>2. PICK st \in {"sent", "failed"} : call' = SetState(Head(queue), st)
    BY <1>5 DEF StartJob
  <2> QED
    BY <1>4, <1>5, <2>1, <2>2 DEF StartJob
<1>6. ASSUME NEW c \in Call, Dispatch(c) PROVE StreamInv'
  <2>1. PICK st \in {"sent", "failed"} : call' = SetState(c, st)
    BY <1>6 DEF Dispatch
  <2> QED
    BY <1>4, <1>6, <2>1 DEF Dispatch
<1>7. ASSUME NEW c \in Call, Answer(c) PROVE StreamInv'
  <2>1. /\ call'[c].st = "answered" /\ \A d \in Call \ {c} : call'[d] = call[d]
        /\ answers'[c] = answers[c] + 1 /\ \A d \in Call \ {c} : answers'[d] = answers[d]
    BY <1>7, CallMoves DEF Answer, CallState, TypeOK
  <2> QED
    BY <1>7, <2>1 DEF Answer, StreamInv
<1>8. ASSUME NEW c \in Call, Refused(c) PROVE StreamInv'
  <2>1. call'[c].st = "failed" /\ \A d \in Call \ {c} : call'[d] = call[d]
    BY <1>8, CallMoves DEF Refused, CallState
  <2> QED
    BY <1>8, <2>1 DEF Refused, StreamInv
<1>9. ASSUME NEW c \in Call, OpenStream(c) \/ Prime(c) PROVE StreamInv'
  <2>1. /\ stream[c] \in {"none", "open"} /\ stream'[c] \in {"open", "primed"}
        /\ stream[c] = "none" => call[c].st = "sent"
        /\ \A d \in Call \ {c} : stream'[d] = stream[d]
    BY <1>9 DEF OpenStream, Prime, TypeOK
  <2> QED
    BY <1>9, <2>1 DEF OpenStream, Prime, StreamInv
<1>10. ASSUME NEW c \in Call, NEW st \in {"answered", "failed"}, GiveAnswer(c, st),
              stream[c] \in {"open", "primed", "resumed"},
              stream' = [stream EXCEPT ![c] = "answered"] \/ stream' = [stream EXCEPT ![c] = "ended"]
       PROVE  StreamInv'
  <2>1. /\ call[c].st # "sent" => call'[c] = call[c]
        /\ call[c].st = "sent" => call'[c].st = st
        /\ \A d \in Call \ {c} : call'[d] = call[d]
    BY <1>10, CallMoves DEF GiveAnswer, CallState
  <2>2. answers'[c] = answers[c] + 1 /\ \A d \in Call \ {c} : answers'[d] = answers[d]
    BY <1>10 DEF GiveAnswer, TypeOK
  <2>3. stream'[c] \in {"answered", "ended"} /\ \A d \in Call \ {c} : stream'[d] = stream[d]
    BY <1>10 DEF TypeOK
  <2>4. answers[c] = 0 /\ call[c].st \notin {"new", "queued", "collecting"}
    BY <1>10 DEF StreamInv
  <2> SUFFICES ASSUME NEW d \in Call
               PROVE  /\ answers'[d] \in {0, 1}
                      /\ stream'[d] \in {"open", "primed", "resumed"} => answers'[d] = 0
                      /\ stream'[d] = "none" /\ call'[d].st # "answered" => answers'[d] = 0
                      /\ stream'[d] \in {"answered", "ended"} => call'[d].st # "sent"
                      /\ call'[d].st \in {"new", "queued", "collecting"} => stream'[d] = "none"
    BY DEF StreamInv
  <2>5. CASE d = c
    <3>1. answers'[c] = 1 /\ call'[c].st \notin {"sent", "new", "queued", "collecting"}
      BY <1>10, <2>1, <2>2, <2>4
    <3> QED
      BY <2>3, <2>5, <3>1
  <2>6. CASE d # c
    BY <2>1, <2>2, <2>3, <2>6 DEF StreamInv
  <2> QED
    BY <2>5, <2>6
<1>11. ASSUME NEW c \in Call, StreamAnswers(c) PROVE StreamInv'
  BY <1>10, <1>11 DEF StreamAnswers
<1>12. ASSUME NEW c \in Call, StreamEnds(c) PROVE StreamInv'
  <2>1. CASE Dropped(c)
    <3>1. stream' = [stream EXCEPT ![c] = "ended"]
      BY <1>12, <2>1 DEF StreamEnds, Dropped, TypeOK
    <3> QED
      BY <1>10, <1>12, <2>1, <3>1 DEF StreamEnds, Dropped
  <2>2. CASE ~Dropped(c)
    <3>1. /\ stream[c] \in {"primed", "answered"}
          /\ stream'[c] = IF stream[c] = "primed" THEN "resumed" ELSE "ended"
          /\ \A d \in Call \ {c} : stream'[d] = stream[d]
      BY <1>12, <2>2 DEF StreamEnds, Dropped, TypeOK
    <3> QED
      BY <1>12, <2>2, <3>1 DEF StreamEnds, StreamInv
  <2> QED
    BY <2>1, <2>2
<1>13. ASSUME LinkLost PROVE StreamInv'
  BY <1>13, LinkLostTypes DEF StreamInv, TypeOK
<1>14. CASE Opening
  BY <1>1, <1>14 DEF Opening, ConnectStart, CreateTransport, Connected, FallBack, ConnectFails,
                     LateHandshake
<1>15. CASE Living
  BY <1>1, <1>13, <1>15 DEF Living, RootExits, StartHelper, HelperExits
<1>16. CASE Closing
  BY <1>1, <1>13, <1>16
     DEF Closing, CloseStart, ListTree, StopChild, ExitedInGrace, GraceOver, KillTree, CloseEnds
<1>17. CASE UNCHANGED vars
  BY <1>1, <1>17 DEF vars
<1> QED
  BY <1>2, <1>3, <1>5, <1>6, <1>7, <1>8, <1>9, <1>11, <1>12, <1>14, <1>15, <1>16, <1>17
     DEF Next, Serving, Streaming

(* Every request made through failDroppedAnswers gets one answer at most,  *)
(* the server's or the client's own, and one whose stream is gone is not   *)
(* left waiting.                                                           *)
THEOREM AnsweredOnce == Spec => []StreamsAnswerOnce
<1>1. Init => StreamInv
  BY DEF Init, StreamInv
<1>2. StreamInv => StreamsAnswerOnce
  BY DEF StreamInv, StreamsAnswerOnce
<1> QED
  BY <1>1, <1>2, StreamStep, TypeInit, TypeStep, PTL DEF Spec
-----------------------------------------------------------------------------
(* The process tree of a stdio server.                                     *)

(* Whoever is alive is a child of a live child, was found by a listing of  *)
(* this close, or came too late or too early for one; while the child      *)
(* lives and no close has listed, only the orphans need an excuse.         *)
TreeInv ==
  /\ kind # "stdio" => root # "live"
  /\ root # "live" => Children = {}
  /\ closing \in {"idle", "list"} => Alive \ Children \subseteq late \cup stray
  /\ closing = "list" => pid
  /\ closing \in {"stop", "grace", "kill"} => Alive \subseteq listed \cup late \cup stray
  /\ closing \in {"stop", "grace"} /\ ~pid =>
       root # "live" /\ Alive \subseteq late \cup stray
  /\ closing \in {"await", "done"} => root # "live" /\ Alive \subseteq late \cup stray

LEMMA TreeStep == TypeInv /\ TreeInv /\ [Next]_vars => TreeInv'
<1> SUFFICES ASSUME TypeInv, TreeInv, [Next]_vars PROVE TreeInv'
  OBVIOUS
<1> USE DEF TypeInv
<1>1. CASE UNCHANGED <<kind, procs, shut>>
  BY <1>1 DEF TreeInv, Children, Alive, procs, shut
<1>2. CASE ConnectStart
  BY <1>2 DEF ConnectStart, TreeInv, TypeOK, Children, Alive
<1>3. CASE CreateTransport \/ Connected \/ FallBack \/ ConnectFails \/ LateHandshake
  BY <1>1, <1>3 DEF CreateTransport, Connected, FallBack, ConnectFails, LateHandshake
<1>4. CASE Serving \/ Streaming
  BY <1>1, <1>4 DEF Serving, Streaming, MakeCall, Cancel, StartJob, Dispatch, Answer, Refused,
                    OpenStream, Prime, StreamAnswers, StreamEnds
<1>5. CASE RootExits
  <2>1. /\ root' = "dead" /\ Children' = {} /\ Alive' = Alive
        /\ kind' = kind /\ shut' = shut /\ late' = late
        /\ stray \subseteq stray'
        /\ closing \in {"idle", "list"} => Children \subseteq stray'
    BY <1>5 DEF RootExits, TypeOK, Children, Alive
  <2> QED
    BY <1>5, <2>1 DEF RootExits, TreeInv, shut
<1>6. ASSUME NEW h \in Helper, StartHelper(h) PROVE TreeInv'
  <2>1. /\ root = "live" /\ root' = root
        /\ Alive' = Alive \cup {h} /\ Children' = Children \cup {h}
        /\ kind' = kind /\ shut' = shut /\ stray' = stray
        /\ late \subseteq late'
        /\ closing \notin {"idle", "list"} => h \in late'
    BY <1>6 DEF StartHelper, TypeOK, Children, Alive
  <2> QED
    BY <2>1 DEF TreeInv, shut
<1>7. ASSUME NEW h \in Helper, HelperExits(h) PROVE TreeInv'
  <2>1. /\ Alive' = Alive \ {h} /\ Children' = Children \ {h}
    BY <1>7 DEF HelperExits, TypeOK, Children, Alive
  <2> QED
    BY <1>7, <2>1 DEF HelperExits, TreeInv, shut
<1>8. CASE CloseStart
  <2>1. /\ procs' = procs /\ kind' = kind /\ closing = "idle"
        /\ root = "live" => closing' = "list"
        /\ root # "live" => closing' \in {"stop", "await"}
    BY <1>8 DEF CloseStart, TreeInv
  <2>2. root = "live" => pid'
    BY <1>8, Zenon DEF CloseStart
  <2>3. Children' = Children /\ Alive' = Alive
    BY <2>1 DEF Children, Alive, procs
  <2> QED
    BY <2>1, <2>2, <2>3 DEF TreeInv, procs
<1>9. CASE ListTree
  <2>1. Children' = Children /\ Alive' = Alive
    BY <1>9 DEF ListTree, Children, Alive, procs
  <2> QED
    BY <1>9, <2>1 DEF ListTree, TreeInv, procs
<1>10. CASE StopChild \/ ExitedInGrace \/ CloseEnds
  <2>1. Children' = Children /\ Alive' = Alive
    BY <1>10 DEF StopChild, ExitedInGrace, CloseEnds, Children, Alive, procs
  <2> QED
    BY <1>10, <2>1 DEF StopChild, ExitedInGrace, CloseEnds, TreeInv, procs
<1>11. CASE GraceOver
  <2>1. Children' = Children /\ Alive' = Alive
    BY <1>11 DEF GraceOver, Children, Alive
  <2> QED
    BY <1>11, <2>1 DEF GraceOver, TreeInv
<1>12. CASE KillTree
  <2>1. Children' = {} /\ Alive' \subseteq Alive \ listed
    BY <1>12 DEF KillTree, TypeOK, Children, Alive
  <2> QED
    BY <1>12, <2>1 DEF KillTree, TreeInv
<1>13. CASE UNCHANGED vars
  BY <1>1, <1>13 DEF vars
<1> QED
  BY <1>2, <1>3, <1>4, <1>5, <1>6, <1>7, <1>8, <1>9, <1>10, <1>11, <1>12, <1>13
     DEF Next, Opening, Living, Closing

(* Once close() has settled, whatever still runs of the child's tree was   *)
(* started after the last listing or orphaned before the first one.        *)
THEOREM TreeStopped == Spec => []TreeIsStopped
<1>1. Init => TreeInv
  BY DEF Init, TreeInv, Children, Alive
<1>2. TreeInv => TreeIsStopped
  BY DEF TreeInv, TreeIsStopped
<1> QED
  BY <1>1, <1>2, TreeStep, TypeInit, TypeStep, PTL DEF Spec
-----------------------------------------------------------------------------
(* The ledger of the calls.                                                *)

(* The signal a call was made with tells on which connection it was made:  *)
(* signals are one behind the connections, since every close aborts one    *)
(* and every connection but the first replaces an aborted one.  A home     *)
(* connects once, and its link is gone when its close begins.              *)
LedgerInv ==
  /\ connects = 0 => connecting = "none" /\ closing = "idle" /\ signal = 0
  /\ Queued => /\ aborted <=> closing # "idle"
               /\ connects > 0 => signal = connects - 1
  /\ \A c \in Call : call[c].st # "new" =>
       /\ call[c].epoch \in 1..connects
       /\ Queued => call[c].signal = call[c].epoch - 1
  /\ \A c \in Call : /\ call[c].st = "queued" => Queued
                     /\ call[c].st = "collecting" => kind = "home"
  /\ kind = "home" => /\ connects <= 1 /\ connecting \notin {"setup", "swap"}
                      /\ link \in {"opening", "up"} => closing = "idle" /\ connects > 0

(* Steps that make no call and neither open nor begin to close.            *)
LEMMA LedgerKept ==
  ASSUME TypeInv, LedgerInv,
         UNCHANGED <<kind, connects, signal, aborted>>,
         \/ connecting' = connecting
         \/ connects > 0 /\ (kind = "home" => connecting' \notin {"setup", "swap"}),
         \/ closing' = closing
         \/ closing # "idle" /\ closing' # "idle" /\ connects > 0,
         link' = link \/ link' = "down" \/ link = "opening" \/ kind # "home",
         \A c \in Call : /\ call'[c].epoch = call[c].epoch /\ call'[c].signal = call[c].signal
                         /\ \/ call'[c].st = call[c].st
                            \/ call[c].st # "new" /\ call'[c].st \notin {"queued", "collecting"}
  PROVE  LedgerInv'
<1> USE DEF LedgerInv
<1>1. Queued' = Queued
  BY DEF Queued
<1>2. connects = 0 => connecting' = "none" /\ closing' = "idle" /\ signal = 0
  OBVIOUS
<1>3. Queued => (aborted <=> closing' # "idle")
  BY Zenon
<1>4. \A c \in Call : call'[c].st # "new" => call[c].st # "new"
  OBVIOUS
<1>5. kind = "home" => /\ connects <= 1 /\ connecting' \notin {"setup", "swap"}
                       /\ link' \in {"opening", "up"} => closing' = "idle" /\ connects > 0
  OBVIOUS
<1> QED
  BY <1>1, <1>2, <1>3, <1>4, <1>5


LEMMA LedgerConnects ==
  ASSUME TypeInv, LedgerInv, ConnectStart
  PROVE  LedgerInv'
<1> USE DEF LedgerInv
<1>1. /\ connects' = connects + 1 /\ closing' = "idle" /\ kind' = kind /\ call' = call
      /\ connects \in Nat /\ Queued' = Queued
  BY DEF ConnectStart, Queued, calls, TypeInv, TypeOK
<1>2. ~aborted'
  BY Zenon DEF ConnectStart
<1>3. Queued => (aborted' <=> closing' # "idle")
  BY <1>1, <1>2, Zenon
<1>4. Queued => signal' = connects' - 1
  <2>1. CASE connects = 0
    <3>1. Queued => ~aborted
      BY <2>1, Zenon
    <3> QED
      BY <1>1, <2>1, <3>1 DEF ConnectStart
  <2>2. CASE connects # 0
    <3>1. closing = "done"
      BY <2>2 DEF ConnectStart
    <3>2. Queued => aborted
      BY <3>1, Zenon
    <3> QED
      BY <1>1, <2>2, <3>2 DEF ConnectStart, TypeInv, TypeOK
  <2> QED
    BY <2>1, <2>2
<1>5. kind = "home" => connects' <= 1 /\ connecting' \notin {"setup", "swap"}
  BY <1>1 DEF ConnectStart
<1>6. \A c \in Call : call[c].epoch \in 1..connects => call[c].epoch \in 1..connects'
  BY <1>1
<1>7. connects' > 0
  BY <1>1
<1> QED
  BY <1>1, <1>3, <1>4, <1>5, <1>6, <1>7

LEMMA LedgerCloses ==
  ASSUME TypeInv, LedgerInv, CloseStart
  PROVE  LedgerInv'
<1> USE DEF LedgerInv
<1>1. /\ UNCHANGED <<kind, connects, signal, connecting>> /\ connects > 0 /\ closing' # "idle"
      /\ Queued' = Queued
  BY DEF CloseStart, Queued
<1>2. Queued => (aborted' <=> closing' # "idle")
  <2>1. Queued => aborted'
    BY Zenon DEF CloseStart
  <2> QED
    BY <1>1, <2>1, Zenon
<1>3. \A c \in Call : /\ call'[c].epoch = call[c].epoch /\ call'[c].signal = call[c].signal
                      /\ \/ call'[c].st = call[c].st
                         \/ call[c].st # "new" /\ call'[c].st \notin {"queued", "collecting"}
  <2>1. CASE kind = "stdio"
    BY <2>1 DEF CloseStart, calls
  <2>2. CASE kind # "stdio"
    BY <2>2, LinkLostTypes DEF CloseStart, TypeInv
  <2> QED
    BY <2>1, <2>2
<1>4. kind = "home" => link' \in {"none", "down"}
  BY DEF CloseStart
<1>5. \A c \in Call : call'[c].st # "new" => call[c].st # "new"
  BY <1>3
<1> QED
  BY <1>1, <1>2, <1>3, <1>4, <1>5

LEMMA LedgerMakes ==
  ASSUME TypeInv, LedgerInv, NEW c \in Call, MakeCall(c)
  PROVE  LedgerInv'
<1> USE DEF LedgerInv
<1>1. /\ UNCHANGED <<kind, connects, signal, connecting, closing, link>> /\ Queued' = Queued
      /\ connects \in Nat /\ connects > 0
  BY DEF MakeCall, conn, shut, Queued, TypeInv, TypeOK
<1>2. aborted' = aborted
  BY DEF MakeCall, conn
<1>3. Queued => (aborted' <=> closing # "idle")
  BY <1>2, Zenon
<1>4. \A d \in Call \ {c} : call'[d] = call[d]
  BY DEF MakeCall, TypeInv, TypeOK
<1>5. /\ call'[c].epoch = connects /\ call'[c].signal = signal
      /\ call'[c].st = "queued" => Queued
      /\ call'[c].st = "collecting" => kind = "home"
  <2> DEFINE st == CASE kind = "http" /\ ~connected -> "failed"
                     [] kind = "home" -> "collecting"
                     [] OTHER -> "queued"
  <2>1. kind \in {"stdio", "http", "home"}
    BY UpstreamAssumption DEF TypeInv, TypeOK
  <2>2. /\ st = "queued" => Queued
        /\ st = "collecting" => kind = "home"
    BY <2>1 DEF Queued
  <2>3. call' = [call EXCEPT ![c] = [@ EXCEPT !.st = st, !.epoch = connects, !.signal = signal]]
    BY DEF MakeCall
  <2> HIDE DEF st
  <2>4. /\ call'[c].st = st /\ call'[c].epoch = connects /\ call'[c].signal = signal
    BY <2>3, CallFields DEF TypeInv, TypeOK, CallRecord
  <2> QED
    BY <2>2, <2>4
<1> QED
  BY <1>1, <1>3, <1>4, <1>5

LEMMA LedgerStep == TypeInv /\ LedgerInv /\ [Next]_vars => LedgerInv'
<1> SUFFICES ASSUME TypeInv, LedgerInv, [Next]_vars PROVE LedgerInv'
  OBVIOUS
<1> USE DEF TypeInv
<1> DEFINE Kept ==
      \A c \in Call : /\ call'[c].epoch = call[c].epoch /\ call'[c].signal = call[c].signal
                      /\ \/ call'[c].st = call[c].st
                         \/ call[c].st # "new" /\ call'[c].st \notin {"queued", "collecting"}
<1>1. CASE UNCHANGED <<kind, conn, call, closing>>
  BY <1>1, LedgerKept DEF conn
<1>2. CASE CreateTransport \/ Connected \/ FallBack \/ ConnectFails \/ LateHandshake
  <2>1. UNCHANGED <<kind, connects, signal, aborted, closing, call>>
    BY <1>2 DEF CreateTransport, Connected, FallBack, ConnectFails, LateHandshake, calls, shut
  <2>2. connects > 0
    BY <1>2 DEF CreateTransport, Connected, FallBack, ConnectFails, LateHandshake, LedgerInv,
                TypeOK
  <2>3. kind = "home" => connecting' \notin {"setup", "swap"}
    BY <1>2 DEF CreateTransport, Connected, FallBack, ConnectFails, LateHandshake, LedgerInv
  <2>4. link' = link \/ link' = "down" \/ link = "opening" \/ kind # "home"
    BY <1>2 DEF CreateTransport, Connected, FallBack, ConnectFails, LateHandshake, LedgerInv
  <2> QED
    BY <2>1, <2>2, <2>3, <2>4, LedgerKept
<1>3. ASSUME NEW c \in Call, Cancel(c) PROVE LedgerInv'
  <2>1. Kept
    BY <1>3, CallFields DEF Cancel, TypeOK, CallRecord
  <2> QED
    BY <1>3, <2>1, LedgerKept DEF Cancel, conn, shut
<1>4. ASSUME NEW c \in Call, NEW st \in {"sent", "answered", "failed"}, call[c].st # "new",
             call' = SetState(c, st),
             UNCHANGED <<kind, connecting, connects, link, signal, aborted, closing>>
      PROVE  LedgerInv'
  <2>1. Kept
    BY <1>4, CallMoves DEF CallState
  <2> QED
    BY <1>4, <2>1, LedgerKept
<1>5. CASE StartJob
  <2>1. Head(queue) \in Call /\ call[Head(queue)].st = "queued"
    BY <1>5, QueueIsQueued DEF StartJob
  <2>2. PICK st \in {"sent", "failed"} : call' = SetState(Head(queue), st)
    BY <1>5 DEF StartJob
  <2> QED
    BY <1>4, <1>5, <2>1, <2>2 DEF StartJob, conn, shut
<1>6. ASSUME NEW c \in Call, Dispatch(c) \/ Answer(c) \/ Refused(c) PROVE LedgerInv'
  <2>1. \E st \in {"sent", "answered", "failed"} : call' = SetState(c, st)
    BY <1>6 DEF Dispatch, Answer, Refused
  <2>2. UNCHANGED <<kind, connecting, connects, link, signal, aborted, closing>>
    BY <1>6 DEF Dispatch, Answer, Refused, conn, shut
  <2> QED
    BY <1>4, <1>6, <2>1, <2>2 DEF Dispatch, Answer, Refused
<1>7. ASSUME NEW c \in Call, StreamAnswers(c) \/ StreamEnds(c) PROVE LedgerInv'
  <2>1. UNCHANGED <<kind, conn, closing>>
    BY <1>7 DEF StreamAnswers, StreamEnds, shut
  <2>2. CASE call' = call
    BY <1>1, <2>1, <2>2
  <2>3. CASE call' # call
    <3>1. call[c].st = "sent" /\ \E st \in {"answered", "failed"} : call' = SetState(c, st)
      BY <1>7, <2>3 DEF StreamAnswers, StreamEnds, GiveAnswer
    <3> QED
      BY <1>4, <2>1, <3>1 DEF conn
  <2> QED
    BY <2>2, <2>3
<1>8. CASE RootExits \/ KillTree
  <2>1. Kept
    BY <1>8, LinkLostTypes DEF RootExits, KillTree
  <2>2. /\ UNCHANGED <<kind, connecting, connects, signal, aborted>> /\ link' = "down"
        /\ \/ closing' = closing
           \/ closing = "kill" /\ closing' = "await"
    BY <1>8 DEF RootExits, KillTree, shut
  <2>3. closing = "kill" => connects > 0
    BY DEF LedgerInv, TypeOK
  <2> QED
    BY <2>1, <2>2, <2>3, LedgerKept
<1>9. CASE ListTree \/ StopChild \/ ExitedInGrace \/ GraceOver \/ CloseEnds
  <2>1. /\ UNCHANGED <<kind, connecting, connects, signal, aborted, call>>
        /\ link' \in {link, "down"}
    BY <1>9 DEF ListTree, StopChild, ExitedInGrace, GraceOver, CloseEnds, conn, calls
  <2>2. closing # "idle" => connects > 0
    BY DEF LedgerInv, TypeOK
  <2>3. closing # "idle" /\ closing' # "idle"
    BY <1>9 DEF ListTree, StopChild, ExitedInGrace, GraceOver, CloseEnds
  <2> QED
    BY <2>1, <2>2, <2>3, LedgerKept
<1>10. ASSUME NEW c \in Call, OpenStream(c) \/ Prime(c) PROVE LedgerInv'
  BY <1>1, <1>10 DEF OpenStream, Prime, shut
<1>11. ASSUME NEW h \in Helper, StartHelper(h) \/ HelperExits(h) PROVE LedgerInv'
  BY <1>1, <1>11 DEF StartHelper, HelperExits, shut, calls
<1>12. CASE UNCHANGED vars
  BY <1>1, <1>12 DEF vars, calls, shut
<1> QED
  BY LedgerConnects, LedgerCloses, LedgerMakes, <1>2, <1>3, <1>5, <1>6, <1>7, <1>8, <1>9,
     <1>10, <1>11, <1>12
     DEF Next, Opening, Serving, Streaming, Living, Closing

(* The ledger's entries.                                                   *)
Entry == [c \in Call |-> LedgerEntry(c)]

(* What settles some calls that were made, and changes no other, is a      *)
(* Settle of the ledger, or a stutter.                                     *)
LEMMA StepSettles ==
  ASSUME TypeInv, connects' = connects, closing' = "idle" <=> closing = "idle",
         NEW some \in SUBSET {c \in Call : call[c].st \in {"queued", "collecting", "sent"}},
         \A c \in Call : /\ call'[c].epoch = call[c].epoch
                         /\ c \in some => call'[c].st \in {"answered", "failed"}
                         /\ c \notin some => call'[c].st = call[c].st
  PROVE  [Ledger!LedgerNext]_(Ledger!ledger)
<1>1. /\ \A c \in Call : /\ Entry[c].st \in {"new", "made", "sent", "settled"}
                         /\ call[c].st \in {"queued", "collecting"} => Entry[c].st = "made"
                         /\ call[c].st = "sent" => Entry[c].st = "sent"
  BY DEF Entry, LedgerEntry
<1>2. \A c \in Call : c \in some => Entry[c].st \in {"made", "sent"}
  BY <1>1
<1>3. Entry' = [c \in Call |-> IF c \in some THEN [Entry[c] EXCEPT !.st = "settled"] ELSE Entry[c]]
  <2> SUFFICES ASSUME NEW c \in Call
               PROVE  LedgerEntry(c)' = IF c \in some THEN [Entry[c] EXCEPT !.st = "settled"]
                                        ELSE Entry[c]
    BY DEF Entry
  <2>1. CASE c \in some
    BY <2>1 DEF LedgerEntry, Entry
  <2>2. CASE c \notin some
    BY <2>2 DEF LedgerEntry, Entry
  <2> QED
    BY <2>1, <2>2
<1>4. CASE some = {}
  <2>1. Entry' = Entry
    BY <1>3, <1>4 DEF Entry
  <2> QED
    BY <2>1 DEF Ledger!ledger, Entry
<1>5. CASE some # {}
  <2>1. some \in SUBSET {c \in Call : Entry[c].st \in {"made", "sent"}}
    BY <1>2
  <2>2. Ledger!Settle
    BY <1>3, <1>5, <2>1 DEF Ledger!Settle, Entry
  <2> QED
    BY <2>2 DEF Ledger!LedgerNext
<1> QED
  BY <1>4, <1>5

(* One call that moves on is sent, settled, or leaves the ledger alone.    *)
LEMMA StepMoves ==
  ASSUME TypeInv, LedgerInv, UNCHANGED <<connects, closing>>,
         NEW c \in Call, call[c].st \in {"queued", "collecting", "sent"},
         NEW st \in {"sent", "answered", "failed"}, call' = SetState(c, st),
         st = "sent" => /\ call[c].st # "sent" /\ closing = "idle"
                        /\ connects > 0 /\ call[c].epoch = connects
  PROVE  [Ledger!LedgerNext]_(Ledger!ledger)
<1>1. /\ call'[c].st = st /\ call'[c].epoch = call[c].epoch
      /\ \A d \in Call \ {c} : call'[d] = call[d]
  BY CallMoves DEF CallState, TypeInv
<1>2. CASE st = "sent"
  <2>1. Entry[c].st = "made" /\ Entry[c].epoch = connects
    BY <1>2 DEF Entry, LedgerEntry
  <2>2. Entry' = [Entry EXCEPT ![c].st = "sent"]
    <3> SUFFICES ASSUME NEW d \in Call
                 PROVE  LedgerEntry(d)' = [Entry EXCEPT ![c].st = "sent"][d]
      BY DEF Entry
    <3>1. CASE d = c
      BY <1>1, <1>2, <3>1 DEF LedgerEntry, Entry
    <3>2. CASE d # c
      BY <1>1, <3>2 DEF LedgerEntry, Entry
    <3> QED
      BY <3>1, <3>2
  <2>3. Ledger!Send(c)
    BY <1>2, <2>1, <2>2 DEF Ledger!Send, Entry
  <2> QED
    BY <2>3 DEF Ledger!LedgerNext
<1>3. CASE st # "sent"
  BY <1>1, <1>3, StepSettles
<1> QED
  BY <1>2, <1>3

LEMMA StepConnects ==
  ASSUME TypeInv, LedgerInv, ConnectStart
  PROVE  Ledger!Connect
<1>1. /\ connects' = connects + 1 /\ connects \in Nat /\ call' = call /\ closing' = "idle"
      /\ connects = 0 \/ closing = "done"
  BY DEF ConnectStart, calls, TypeInv, TypeOK
<1>2. Entry' = Entry
  BY <1>1 DEF Entry, LedgerEntry
<1>3. ~(connects > 0 /\ closing = "idle") /\ connects' > 0 /\ closing' = "idle"
  BY <1>1
<1> QED
  BY <1>1, <1>2, <1>3 DEF Ledger!Connect, Entry

LEMMA StepDisconnects ==
  ASSUME TypeInv, LedgerInv, CloseStart
  PROVE  Ledger!Disconnect
<1>1. connects > 0 /\ closing = "idle" /\ closing' # "idle" /\ connects' = connects
  BY DEF CloseStart
<1>2. ASSUME NEW lost \in SUBSET {c \in Call : call[c].st = "sent"},
             \A c \in Call : /\ call'[c].epoch = call[c].epoch
                             /\ c \in lost => call'[c].st = "failed"
                             /\ c \notin lost => call'[c].st = call[c].st
      PROVE  Ledger!Disconnect
  <2>1. lost \in SUBSET {c \in Call : Entry[c].st = "sent"}
    BY <1>2 DEF Entry, LedgerEntry
  <2>2. Entry' = [c \in Call |-> IF c \in lost THEN [Entry[c] EXCEPT !.st = "settled"]
                                 ELSE Entry[c]]
    BY <1>2 DEF Entry, LedgerEntry
  <2> QED
    BY <1>1, <2>1, <2>2 DEF Ledger!Disconnect, Entry
<1>3. CASE kind = "stdio"
  <2> DEFINE lost == {}
  <2>1. call' = call
    BY <1>3 DEF CloseStart, calls
  <2>2. lost \in SUBSET {c \in Call : call[c].st = "sent"}
    OBVIOUS
  <2> QED
    BY <1>2, <2>1, <2>2
<1>4. CASE kind # "stdio"
  <2> DEFINE lost == {c \in Call : call[c].st = "sent"}
  <2>1. \A c \in Call : /\ call'[c].epoch = call[c].epoch
                        /\ c \in lost => call'[c].st = "failed"
                        /\ c \notin lost => call'[c].st = call[c].st
    BY <1>4, LinkLostTypes DEF CloseStart, TypeInv
  <2> QED
    BY <1>2, <2>1
<1> QED
  BY <1>3, <1>4

LEMMA StepMakes ==
  ASSUME TypeInv, LedgerInv, NEW c \in Call, MakeCall(c)
  PROVE  Ledger!Make(c)
<1> DEFINE st == CASE kind = "http" /\ ~connected -> "failed"
                   [] kind = "home" -> "collecting"
                   [] OTHER -> "queued"
           to == IF st = "failed" THEN "settled" ELSE "made"
<1>1. /\ call[c].st = "new" /\ UNCHANGED <<connects, closing>>
      /\ call' = [call EXCEPT ![c] = [@ EXCEPT !.st = st, !.epoch = connects, !.signal = signal]]
  BY DEF MakeCall, conn, shut
<1>2. st \in {"failed", "collecting", "queued"}
  OBVIOUS
<1> HIDE DEF st
<1>3. /\ call'[c].st = st /\ call'[c].epoch = connects
      /\ \A d \in Call \ {c} : call'[d] = call[d]
  BY <1>1, CallFields DEF TypeInv, TypeOK, CallRecord
<1>4. Entry[c].st = "new"
  BY <1>1 DEF Entry, LedgerEntry
<1>5. Entry' = [Entry EXCEPT ![c] = [st |-> to, epoch |-> connects]]
  <2> SUFFICES ASSUME NEW d \in Call
               PROVE  LedgerEntry(d)' = [Entry EXCEPT ![c] = [st |-> to, epoch |-> connects]][d]
    BY DEF Entry
  <2>1. CASE d = c
    BY <1>2, <1>3, <2>1 DEF LedgerEntry, Entry
  <2>2. CASE d # c
    BY <1>3, <2>2 DEF LedgerEntry, Entry
  <2> QED
    BY <2>1, <2>2
<1>6. to \in {"made", "settled"}
  OBVIOUS
<1> HIDE DEF to
<1> QED
  BY <1>1, <1>4, <1>5, <1>6 DEF Ledger!Make, Entry

LEMMA LedgerSteps ==
  TypeInv /\ LedgerInv /\ [Next]_vars => [Ledger!LedgerNext]_(Ledger!ledger)
<1> SUFFICES ASSUME TypeInv, LedgerInv, [Next]_vars
             PROVE  [Ledger!LedgerNext]_(Ledger!ledger)
  OBVIOUS
<1> USE DEF TypeInv
<1>1. ASSUME UNCHANGED <<connects, closing>>,
             \A c \in Call : call'[c].st = call[c].st /\ call'[c].epoch = call[c].epoch
      PROVE  [Ledger!LedgerNext]_(Ledger!ledger)
  <2> DEFINE some == {}
  <2>1. some \in SUBSET {c \in Call : call[c].st \in {"queued", "collecting", "sent"}}
    OBVIOUS
  <2> QED
    BY <1>1, <2>1, StepSettles
<1>2. CASE CreateTransport \/ Connected \/ FallBack \/ ConnectFails \/ LateHandshake
  BY <1>1, <1>2 DEF CreateTransport, Connected, FallBack, ConnectFails, LateHandshake, calls, shut
<1>3. ASSUME NEW c \in Call, Cancel(c) PROVE [Ledger!LedgerNext]_(Ledger!ledger)
  <2>1. \A d \in Call : call'[d].st = call[d].st /\ call'[d].epoch = call[d].epoch
    BY <1>3, CallFields DEF Cancel, TypeOK, CallRecord
  <2> QED
    BY <1>1, <1>3, <2>1 DEF Cancel, conn, shut
<1>4. CASE StartJob
  <2> DEFINE c == Head(queue)
             st == IF ~SignalAborted(c) /\ MayBeSent(c) THEN "sent" ELSE "failed"
  <2>1. c \in Call /\ call[c].st = "queued"
    BY <1>4, QueueIsQueued DEF StartJob
  <2>2. call' = SetState(c, st) /\ UNCHANGED <<connects, closing>>
    BY <1>4 DEF StartJob, conn, shut
  <2>3. Queued /\ call[c].epoch \in 1..connects /\ call[c].signal = call[c].epoch - 1
    BY <2>1 DEF LedgerInv
  <2>4. ASSUME ~SignalAborted(c)
        PROVE  closing = "idle" /\ connects > 0 /\ call[c].epoch = connects
    <3>1. ~aborted
      BY <2>4, Zenon DEF SignalAborted
    <3>2. closing = "idle"
      BY <2>3, <3>1, Zenon DEF LedgerInv
    <3>3. ~(call[c].signal < signal) /\ connects > 0 /\ signal = connects - 1
      BY <2>3, <2>4 DEF SignalAborted, LedgerInv, TypeOK
    <3> QED
      BY <2>3, <3>2, <3>3 DEF TypeOK
  <2>5. st \in {"sent", "answered", "failed"} /\ (st = "sent" => ~SignalAborted(c))
    OBVIOUS
  <2> HIDE DEF c, st
  <2> QED
    BY <2>1, <2>2, <2>4, <2>5, StepMoves
<1>5. ASSUME NEW c \in Call, Dispatch(c) PROVE [Ledger!LedgerNext]_(Ledger!ledger)
  <2> DEFINE st == IF MayBeSent(c) THEN "sent" ELSE "failed"
  <2>1. call[c].st = "collecting" /\ call' = SetState(c, st) /\ UNCHANGED <<connects, closing>>
    BY <1>5 DEF Dispatch, conn, shut
  <2>2. kind = "home" /\ connects <= 1 /\ call[c].epoch \in 1..connects /\ connects \in Nat
    BY <2>1 DEF LedgerInv, TypeOK
  <2>3. MayBeSent(c) => closing = "idle" /\ connects > 0 /\ call[c].epoch = connects
    BY <2>2 DEF MayBeSent, LedgerInv
  <2>4. st \in {"sent", "answered", "failed"} /\ (st = "sent" => MayBeSent(c))
    OBVIOUS
  <2> HIDE DEF st
  <2> QED
    BY <2>1, <2>3, <2>4, StepMoves
<1>6. ASSUME NEW c \in Call, Answer(c) \/ Refused(c) PROVE [Ledger!LedgerNext]_(Ledger!ledger)
  <2>1. call[c].st = "sent" /\ \E st \in {"answered", "failed"} : call' = SetState(c, st)
    BY <1>6 DEF Answer, Refused
  <2>2. UNCHANGED <<connects, closing>>
    BY <1>6 DEF Answer, Refused, conn, shut
  <2> QED
    BY <2>1, <2>2, StepMoves
<1>7. ASSUME NEW c \in Call, StreamAnswers(c) \/ StreamEnds(c)
      PROVE  [Ledger!LedgerNext]_(Ledger!ledger)
  <2>1. UNCHANGED <<connects, closing>>
    BY <1>7 DEF StreamAnswers, StreamEnds, conn, shut
  <2>2. CASE call' = call
    BY <1>1, <2>1, <2>2
  <2>3. CASE call' # call
    <3>1. call[c].st = "sent" /\ \E st \in {"answered", "failed"} : call' = SetState(c, st)
      BY <1>7, <2>3 DEF StreamAnswers, StreamEnds, GiveAnswer
    <3> QED
      BY <2>1, <3>1, StepMoves
  <2> QED
    BY <2>2, <2>3
<1>8. CASE RootExits \/ KillTree
  <2> DEFINE lost == {c \in Call : call[c].st = "sent"}
  <2>1. \A c \in Call : /\ call'[c].epoch = call[c].epoch
                        /\ c \in lost => call'[c].st = "failed"
                        /\ c \notin lost => call'[c].st = call[c].st
    BY <1>8, LinkLostTypes DEF RootExits, KillTree
  <2>2. connects' = connects
    BY <1>8 DEF RootExits, KillTree
  <2>3. CASE closing' = closing
    BY <2>1, <2>2, <2>3, StepSettles
  <2>4. CASE closing' # closing
    <3>1. closing = "kill" /\ closing' = "await"
      BY <1>8, <2>4 DEF RootExits, KillTree, shut
    <3> QED
      BY <2>1, <2>2, <3>1, StepSettles
  <2> QED
    BY <2>3, <2>4
<1>9. CASE ListTree \/ StopChild \/ ExitedInGrace \/ GraceOver \/ CloseEnds
  <2>1. connects' = connects /\ call' = call
    BY <1>9 DEF ListTree, StopChild, ExitedInGrace, GraceOver, CloseEnds, conn, calls
  <2>2. closing # "idle" /\ closing' # "idle"
    BY <1>9 DEF ListTree, StopChild, ExitedInGrace, GraceOver, CloseEnds
  <2>3. Entry' = Entry
    BY <2>1 DEF Entry, LedgerEntry
  <2> QED
    BY <2>1, <2>2, <2>3 DEF Ledger!ledger, Entry
<1>10. ASSUME NEW c \in Call, OpenStream(c) \/ Prime(c) PROVE [Ledger!LedgerNext]_(Ledger!ledger)
  BY <1>1, <1>10 DEF OpenStream, Prime, shut, conn
<1>11. ASSUME NEW h \in Helper, StartHelper(h) \/ HelperExits(h)
       PROVE  [Ledger!LedgerNext]_(Ledger!ledger)
  BY <1>1, <1>11 DEF StartHelper, HelperExits, shut, calls, conn
<1>12. CASE UNCHANGED vars
  BY <1>1, <1>12 DEF vars, calls, shut, conn
<1> QED
  BY StepConnects, StepDisconnects, StepMakes, <1>2, <1>3, <1>4, <1>5, <1>6, <1>7, <1>8, <1>9,
     <1>10, <1>11, <1>12
     DEF Next, Opening, Serving, Streaming, Living, Closing, Ledger!LedgerNext

(* Every client keeps the ledger: a call is sent at most once, on the      *)
(* connection it was made on and not once its close has begun, and is      *)
(* settled at most once.                                                   *)
THEOREM LedgerIsKept == Spec => KeepsLedger
<1>1. Init => LedgerInv
  <2> SUFFICES ASSUME Init PROVE LedgerInv
    OBVIOUS
  <2>1. Queued => (aborted <=> closing # "idle")
    BY Zenon DEF Init
  <2> QED
    BY <2>1 DEF Init, LedgerInv
<1>2. Init => Ledger!LedgerInit
  <2> SUFFICES ASSUME Init PROVE Ledger!LedgerInit
    OBVIOUS
  <2>1. Entry = [c \in Call |-> [st |-> "new", epoch |-> 0]]
    BY DEF Init, Entry, LedgerEntry
  <2>2. connects = 0 /\ ~(connects > 0 /\ closing = "idle")
    BY DEF Init
  <2> QED
    BY <2>1, <2>2 DEF Ledger!LedgerInit, Entry
<1> QED
  BY <1>1, <1>2, LedgerStep, LedgerSteps, TypeInit, TypeStep, PTL
     DEF Spec, KeepsLedger, Ledger!LedgerSpec
=============================================================================
