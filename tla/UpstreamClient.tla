--------------------------- MODULE UpstreamClient ---------------------------
(***************************************************************************)
(* The client of one upstream server: the stdio client with the process    *)
(* tree it owns, the HTTP client with its transport fallback and its       *)
(* answer streams, and the package home client (src/clients/).             *)
(*                                                                         *)
(* A request of any method is a call.  The two queued clients capture the  *)
(* queue's abort signal when a call is made and look at it when its job    *)
(* starts.  Outside src: the SDK's client (link), the child's processes    *)
(* and the server.  Process trees are those of Unix.                       *)
(***************************************************************************)
EXTENDS Naturals, Sequences, FiniteSets

CONSTANTS
  Call,
  Kind,         \* the clients of this instance, among "stdio", "http", "home"
  Concurrency,  \* [Kind -> Nat]: STDIO_CONCURRENCY, HTTP_CONCURRENCY
  Helper,       \* processes the stdio child may start: a bound
  MaxConnects   \* a bound

ASSUME UpstreamAssumption ==
  /\ Kind \subseteq {"stdio", "http", "home"}
  /\ Concurrency \in [Kind -> Nat \ {0}]
  /\ MaxConnects \in Nat

VARIABLES
  kind,
  connecting,  \* how far connect() is
  connects,    \* connections begun
  fellBack,    \* usedSseFallback or usedStreamableHttpFallback
  link,        \* the SDK's client: "none", "opening", "up" or "down"
  connected,   \* isConnected; the stdio client has none
  signal,      \* the current AbortController
  aborted,     \* it has been aborted
  call,        \* [st, epoch, signal, cancelled]
  queue,       \* the calls waiting in requestQueue
  stream,      \* the event stream that answers a POST
  answers,     \* answers the SDK was given for a call
  closing,     \* how far close() is
  root, helper,   \* the child and what it started
  pid,         \* close() found a live child
  listed,      \* the descendants close() has found
  late, stray  \* started since the last listing; orphaned before it

conn  == <<connecting, connects, fellBack, link, connected, signal, aborted>>
calls == <<call, queue, stream, answers>>
procs == <<root, helper, late, stray>>
shut  == <<closing, pid, listed>>
vars  == <<kind, conn, calls, procs, shut>>

Queued == kind \in {"stdio", "http"}
Remote == kind \in {"http", "home"}

InState(st) == {c \in Call : call[c].st = st}
Settled(c)  == call[c].st \in {"answered", "failed"}
Children    == {h \in Helper : helper[h] = "child"}
Alive       == {h \in Helper : helper[h] \in {"child", "orphan"}}

SetState(c, st) == [call EXCEPT ![c].st = st]

(* The SDK rejects what is pending when its transport closes, and the      *)
(* transport aborts its streams.                                           *)
LinkLost ==
  /\ call' = [c \in Call |-> IF call[c].st = "sent" THEN [call[c] EXCEPT !.st = "failed"]
                             ELSE call[c]]
  /\ stream' = [c \in Call |-> IF stream[c] = "none" THEN "none" ELSE "ended"]
  /\ UNCHANGED <<queue, answers>>
-----------------------------------------------------------------------------
(* Connecting.                                                             *)

(* A signal that was aborted is replaced.  connect() of a connected HTTP   *)
(* client returns at once; a home's transport can be started only once.    *)
ConnectStart ==
  /\ connecting \in {"none", "open", "failed"}
  /\ IF connects = 0 THEN closing = "idle" ELSE closing = "done"
  /\ connects < MaxConnects /\ ~connected /\ (kind = "home" => connects = 0)
  /\ connects' = connects + 1
  /\ signal' = IF Queued /\ aborted THEN signal + 1 ELSE signal
  /\ aborted' = FALSE /\ closing' = "idle"
  /\ IF kind = "http" THEN /\ connecting' = "setup" /\ UNCHANGED <<link, root>>
     ELSE /\ connecting' = "handshake" /\ link' = "opening"
          /\ root' = IF kind = "stdio" THEN "live" ELSE root
  /\ UNCHANGED <<kind, fellBack, connected, calls, helper, late, stray, pid, listed>>

(* The OAuth provider is ready, or the old client of a fallback is closed; *)
(* a fresh transport is made, which nothing tells of a close meanwhile.    *)
CreateTransport ==
  /\ connecting \in {"setup", "swap"}
  /\ connecting' = "handshake" /\ link' = "opening"
  /\ UNCHANGED <<kind, connects, fellBack, connected, signal, aborted, calls, procs, shut>>

Connected ==
  /\ connecting = "handshake" /\ link = "opening"
  /\ connecting' = "open" /\ link' = "up"
  /\ connected' = (kind # "stdio")
  /\ UNCHANGED <<kind, connects, fellBack, signal, aborted, calls, procs, shut>>

(* The server does not speak this transport: the other one is tried, once. *)
FallBack ==
  /\ kind = "http" /\ connecting = "handshake" /\ link = "opening" /\ ~fellBack
  /\ connecting' = "swap" /\ fellBack' = TRUE /\ link' = "down"
  /\ UNCHANGED <<kind, connects, connected, signal, aborted, calls, procs, shut>>

(* The handshake fails or times out.  After connectWithTimeout's timeout   *)
(* the SDK's client may still come up.                                     *)
ConnectFails ==
  /\ connecting = "handshake" /\ link # "up"
  /\ connecting' = "failed"
  /\ link' \in (IF kind = "http" THEN {link, "down"} ELSE {"down"})
  /\ UNCHANGED <<kind, connects, fellBack, connected, signal, aborted, calls, procs, shut>>

LateHandshake ==
  /\ connecting = "failed" /\ link = "opening"
  /\ link' = "up"
  /\ UNCHANGED <<kind, connecting, connects, fellBack, connected, signal, aborted, calls,
                 procs, shut>>
-----------------------------------------------------------------------------
(* Calls.                                                                  *)

(* Made of a client that was handed out.  An HTTP client that is not       *)
(* connected rejects it; a home collects the files to forward first.       *)
MakeCall(c) ==
  /\ call[c].st = "new" /\ connecting = "open"
  /\ LET st == CASE kind = "http" /\ ~connected -> "failed"
                 [] kind = "home" -> "collecting"
                 [] OTHER -> "queued"
     IN /\ call' = [call EXCEPT ![c] = [@ EXCEPT !.st = st, !.epoch = connects,
                                                 !.signal = signal]]
        /\ queue' = IF st = "queued" THEN Append(queue, c) ELSE queue
  /\ UNCHANGED <<kind, conn, stream, answers, procs, shut>>

(* The caller gives up; only a call that is not yet sent will notice.      *)
Cancel(c) ==
  /\ call[c].st \in {"queued", "collecting"} /\ ~call[c].cancelled
  /\ call' = [call EXCEPT ![c].cancelled = TRUE]
  /\ UNCHANGED <<kind, conn, queue, stream, answers, procs, shut>>

(* Mutant of SignalAborted: the job looks at the client's current signal.  *)
CurrentAborted(c) == aborted

(* signal.throwIfAborted(), on the signal captured with the call.          *)
SignalAborted(c) == call[c].signal < signal \/ aborted

MayBeSent(c) == ~call[c].cancelled /\ link = "up"

(* Mutants of StartJob: the job keeps its place; a job whose signal was    *)
(* aborted is dropped without a word.                                      *)
StartJobInPlace ==
  /\ queue # <<>> /\ Cardinality(InState("sent")) < Concurrency[kind]
  /\ LET c == Head(queue)
     IN call' = SetState(c, IF ~SignalAborted(c) /\ MayBeSent(c) THEN "sent" ELSE "failed")
  /\ UNCHANGED <<kind, conn, queue, stream, answers, procs, shut>>

StartJobOrDrop ==
  /\ queue # <<>> /\ Cardinality(InState("sent")) < Concurrency[kind]
  /\ LET c == Head(queue)
     IN call' = IF SignalAborted(c) THEN call
                ELSE SetState(c, IF MayBeSent(c) THEN "sent" ELSE "failed")
  /\ queue' = Tail(queue)
  /\ UNCHANGED <<kind, conn, stream, answers, procs, shut>>

(* A slot is free: the job at the head of the queue starts.                *)
StartJob ==
  /\ queue # <<>> /\ Cardinality(InState("sent")) < Concurrency[kind]
  /\ LET c == Head(queue)
     IN call' = SetState(c, IF ~SignalAborted(c) /\ MayBeSent(c) THEN "sent" ELSE "failed")
  /\ queue' = Tail(queue)
  /\ UNCHANGED <<kind, conn, stream, answers, procs, shut>>

(* A home's call, once its files are collected.                            *)
Dispatch(c) ==
  /\ call[c].st = "collecting"
  /\ call' = SetState(c, IF MayBeSent(c) THEN "sent" ELSE "failed")
  /\ UNCHANGED <<kind, conn, queue, stream, answers, procs, shut>>

(* The server answers, with one message.                                   *)
Answer(c) ==
  /\ call[c].st = "sent" /\ stream[c] = "none"
  /\ kind = "stdio" => root = "live"
  /\ call' = SetState(c, "answered")
  /\ answers' = [answers EXCEPT ![c] = @ + 1]
  /\ UNCHANGED <<kind, conn, queue, stream, procs, shut>>

(* The server refuses, the network fails or the request times out.  A home *)
(* that cannot be reached is not connected any more.                       *)
Refused(c) ==
  /\ call[c].st = "sent"
  /\ call' = SetState(c, "failed")
  /\ connected' \in (IF kind = "home" THEN {connected, FALSE} ELSE {connected})
  /\ UNCHANGED <<kind, connecting, connects, fellBack, link, signal, aborted, queue, stream,
                 answers, procs, shut>>
-----------------------------------------------------------------------------
(* The event stream that answers a POST.                                   *)

OpenStream(c) ==
  /\ Remote /\ call[c].st = "sent" /\ stream[c] = "none"
  /\ stream' = [stream EXCEPT ![c] = "open"]
  /\ UNCHANGED <<kind, conn, call, queue, answers, procs, shut>>

(* An event with an id makes the stream resumable.                         *)
Prime(c) ==
  /\ stream[c] = "open"
  /\ stream' = [stream EXCEPT ![c] = "primed"]
  /\ UNCHANGED <<kind, conn, call, queue, answers, procs, shut>>

(* An answer reaches the SDK; it settles the call unless that timed out.   *)
GiveAnswer(c, st) ==
  /\ call' = IF call[c].st = "sent" THEN SetState(c, st) ELSE call
  /\ answers' = [answers EXCEPT ![c] = @ + 1]

StreamAnswers(c) ==
  /\ stream[c] \in {"open", "primed", "resumed"}
  /\ stream' = [stream EXCEPT ![c] = "answered"]
  /\ GiveAnswer(c, "answered")
  /\ UNCHANGED <<kind, conn, queue, procs, shut>>

(* Mutant of Dropped: an answer that was delivered is forgotten.           *)
DroppedUnlessPrimed(c) == stream[c] \in {"open", "answered"}

(* !answered && !resumable: the client answers in the server's place.      *)
Dropped(c) == stream[c] = "open"

(* The stream ends or breaks.  The SDK resumes one that can be.            *)
StreamEnds(c) ==
  /\ stream[c] \in {"open", "primed", "answered"}
  /\ stream' = [stream EXCEPT ![c] = IF @ = "primed" THEN "resumed" ELSE "ended"]
  /\ IF Dropped(c) THEN GiveAnswer(c, "failed") ELSE UNCHANGED <<call, answers>>
  /\ UNCHANGED <<kind, conn, queue, procs, shut>>
-----------------------------------------------------------------------------
(* The processes of a stdio server.                                        *)

StartHelper(h) ==
  /\ root = "live" /\ helper[h] = "unborn"
  /\ helper' = [helper EXCEPT ![h] = "child"]
  /\ late' = IF closing \in {"idle", "list"} THEN late ELSE late \cup {h}
  /\ UNCHANGED <<kind, conn, calls, root, stray, shut>>

HelperExits(h) ==
  /\ h \in Alive
  /\ helper' = [helper EXCEPT ![h] = "dead"]
  /\ UNCHANGED <<kind, conn, calls, root, late, stray, shut>>

(* The child crashes, or exits because its stdin has ended.  What it       *)
(* started is re-parented; nobody can find it from the child any more.     *)
RootExits ==
  /\ root = "live"
  /\ root' = "dead" /\ link' = "down"
  /\ helper' = [h \in Helper |-> IF helper[h] = "child" THEN "orphan" ELSE helper[h]]
  /\ stray' = IF closing \in {"idle", "list"} THEN stray \cup Children ELSE stray
  /\ LinkLost
  /\ UNCHANGED <<kind, connecting, connects, fellBack, connected, signal, aborted, late, shut>>
-----------------------------------------------------------------------------
(* Closing.                                                                *)

CloseStart ==
  /\ connects > 0 /\ closing = "idle"
  /\ aborted' = Queued
  /\ pid' = (root = "live")
  /\ IF kind = "stdio"
     THEN /\ closing' = IF root = "live" THEN "list" ELSE "stop"
          /\ UNCHANGED <<link, calls>>
     ELSE /\ closing' = "await"
          /\ link' = IF link = "none" THEN "none" ELSE "down"
          /\ LinkLost
  /\ UNCHANGED <<kind, connecting, connects, fellBack, connected, signal, procs, listed>>

(* listDescendants, before the child is told to stop.                      *)
ListTree ==
  /\ closing = "list"
  /\ listed' = Children
  /\ closing' = "stop"
  /\ UNCHANGED <<kind, conn, calls, procs, pid>>

(* The SDK's close ends the child's stdin and waits for it to exit.        *)
StopChild ==
  /\ closing = "stop"
  /\ closing' = "grace"
  /\ link' = IF root = "live" \/ link = "none" THEN link ELSE "down"
  /\ UNCHANGED <<kind, connecting, connects, fellBack, connected, signal, aborted, calls,
                 procs, pid, listed>>

(* Mutant of ExitedInGrace: an orderly exit is taken to leave nothing.     *)
ExitedAlone ==
  /\ closing = "grace" /\ root # "live"
  /\ closing' = "await"
  /\ UNCHANGED <<kind, conn, calls, procs, pid, listed>>

(* The child has exited within the grace.                                  *)
ExitedInGrace ==
  /\ closing = "grace" /\ root # "live"
  /\ closing' = IF pid THEN "kill" ELSE "await"
  /\ UNCHANGED <<kind, conn, calls, procs, pid, listed>>

(* The grace is over, or the SDK's close has failed: killProcessTree lists *)
(* again.                                                                  *)
GraceOver ==
  /\ closing = "grace" /\ pid
  /\ closing' = "kill"
  /\ listed' = listed \cup Children /\ late' = late \ Children
  /\ UNCHANGED <<kind, conn, calls, root, helper, stray, pid>>

(* The descendants that were found, and the child if it is still there.    *)
KillTree ==
  /\ closing = "kill"
  /\ root' = "dead" /\ link' = "down"
  /\ helper' = [h \in Helper |-> IF h \in listed THEN "dead"
                                 ELSE IF helper[h] = "child" THEN "orphan" ELSE helper[h]]
  /\ LinkLost
  /\ closing' = "await"
  /\ UNCHANGED <<kind, connecting, connects, fellBack, connected, signal, aborted, late,
                 stray, pid, listed>>

(* The SDK's close has settled.  One that fails leaves an HTTP client      *)
(* connected.                                                              *)
CloseEnds ==
  /\ closing = "await" /\ root # "live"
  /\ closing' = "done"
  /\ connected' \in (IF kind = "http" THEN {connected, FALSE} ELSE {FALSE})
  /\ UNCHANGED <<kind, connecting, connects, fellBack, link, signal, aborted, calls, procs,
                 pid, listed>>
-----------------------------------------------------------------------------
Init ==
  /\ kind \in Kind
  /\ connecting = "none" /\ connects = 0 /\ fellBack = FALSE /\ link = "none"
  /\ connected = FALSE /\ signal = 0 /\ aborted = FALSE
  /\ call = [c \in Call |-> [st |-> "new", epoch |-> 0, signal |-> 0, cancelled |-> FALSE]]
  /\ queue = <<>>
  /\ stream = [c \in Call |-> "none"] /\ answers = [c \in Call |-> 0]
  /\ closing = "idle" /\ pid = FALSE /\ listed = {}
  /\ root = "none" /\ helper = [h \in Helper |-> "unborn"] /\ late = {} /\ stray = {}

Opening == ConnectStart \/ CreateTransport \/ Connected \/ FallBack \/ ConnectFails \/ LateHandshake

Serving == StartJob \/ \E c \in Call : MakeCall(c) \/ Cancel(c) \/ Dispatch(c) \/ Answer(c) \/ Refused(c)

Streaming == \E c \in Call : OpenStream(c) \/ Prime(c) \/ StreamAnswers(c) \/ StreamEnds(c)

Living == RootExits \/ \E h \in Helper : StartHelper(h) \/ HelperExits(h)

Closing ==
  CloseStart \/ ListTree \/ StopChild \/ ExitedInGrace \/ GraceOver \/ KillTree \/ CloseEnds

Next == Opening \/ Serving \/ Streaming \/ Living \/ Closing

Spec == Init /\ [][Next]_vars

(* The event loop starts the jobs and runs close() on; every request has a *)
(* timer, which only a server that reports progress for ever keeps from    *)
(* firing; the grace timer fires.                                          *)
Fairness ==
  /\ WF_vars(StartJob)
  /\ \A c \in Call : WF_vars(Dispatch(c)) /\ WF_vars(Refused(c))
  /\ WF_vars(ListTree) /\ WF_vars(StopChild)
  /\ WF_vars(ExitedInGrace \/ GraceOver) /\ WF_vars(KillTree) /\ WF_vars(CloseEnds)

FairSpec == Spec /\ Fairness
-----------------------------------------------------------------------------
CallState == {"new", "queued", "collecting", "sent", "answered", "failed"}

CallRecord == [st : CallState, epoch : 0..MaxConnects, signal : 0..MaxConnects,
               cancelled : BOOLEAN]

(* Every variable has its type; what waits in the request queue of         *)
(* src/clients/httpClient.ts and stdioClient.ts has not been sent.         *)
TypeOK ==
  /\ kind \in Kind
  /\ connecting \in {"none", "setup", "handshake", "swap", "open", "failed"}
  /\ connects \in 0..MaxConnects /\ signal \in 0..MaxConnects
  /\ fellBack \in BOOLEAN /\ connected \in BOOLEAN /\ aborted \in BOOLEAN /\ pid \in BOOLEAN
  /\ link \in {"none", "opening", "up", "down"}
  /\ call \in [Call -> CallRecord]
  /\ queue \in Seq(InState("queued"))
  /\ stream \in [Call -> {"none", "open", "primed", "resumed", "answered", "ended"}]
  /\ answers \in [Call -> Nat]
  /\ closing \in {"idle", "list", "stop", "grace", "kill", "await", "done"}
  /\ root \in {"none", "live", "dead"}
  /\ helper \in [Helper -> {"unborn", "child", "orphan", "dead"}]
  /\ listed \subseteq Helper /\ late \subseteq Helper /\ stray \subseteq Helper

(* The calls of every client follow CallLedger: one that was queued when   *)
(* close() began is never sent, not even on a connection opened later.     *)
LedgerEntry(c) ==
  [st |-> CASE call[c].st = "new" -> "new"
            [] call[c].st \in {"queued", "collecting"} -> "made"
            [] call[c].st = "sent" -> "sent"
            [] OTHER -> "settled",
   epoch |-> call[c].epoch]

Ledger == INSTANCE CallLedger WITH
  epoch <- connects,
  open  <- connects > 0 /\ closing = "idle",
  entry <- [c \in Call |-> LedgerEntry(c)]

KeepsLedger == Ledger!LedgerSpec

(* A request is answered at most once, by the server or, when its stream   *)
(* broke off, by failDroppedAnswers; and one whose stream is gone does not *)
(* wait for the 90 minutes of its timer unless the stream can be resumed.  *)
StreamsAnswerOnce ==
  \A c \in Call : answers[c] <= 1 /\ (stream[c] = "ended" => call[c].st # "sent")

(* When close() of src/clients/stdioClient.ts has settled, nothing of the  *)
(* child's tree is left but helpers started after the last listing, or     *)
(* orphaned by a crash before close() could look.                          *)
TreeIsStopped == closing = "done" => root # "live" /\ Alive \subseteq late \cup stray

(* Every call is settled in the end, also those waiting when close() runs. *)
CallsSettle == \A c \in Call : []<>(call[c].st = "new" \/ Settled(c))
=============================================================================
