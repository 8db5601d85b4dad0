----------------------------- MODULE ServerProofs -----------------------------
(***************************************************************************)
(* Proofs about Server: the router, the counters and results of use_tool,  *)
(* exports and the store of tool notes, beside each other, for any number  *)
(* of sessions, callers, exports and workers and any limits.               *)
(***************************************************************************)
EXTENDS Server, UpstreamClientProofs, FiniteSetTheorems, SequenceTheorems, TLAPS

-----------------------------------------------------------------------------
(* Induction on a set of numbers, from the well-foundedness of <.          *)

LEMMA SetInduction ==
  ASSUME NEW T, 0 \in T, \A n \in Nat : n \in T => n + 1 \in T
  PROVE  Nat \subseteq T
<1> DEFINE R == {ss \in Nat \X Nat : ss[1] < ss[2]}
           U == Nat \ T
<1>1. IsWellFoundedOn(R, Nat)
  BY NatLessThanWellFounded DEF OpToRel
<1>2. \A x, y \in Nat : x < y => <<x, y>> \in R
  OBVIOUS
<1> SUFFICES ASSUME U # {} PROVE FALSE
  OBVIOUS
<1> HIDE DEF R
<1>3. PICK x \in U : \A y \in U : <<y, x>> \notin R
  BY <1>1, WFMin
<1>4. x \in Nat /\ x # 0 /\ x - 1 \in Nat /\ x - 1 < x /\ (x - 1) + 1 = x
  OBVIOUS
<1>5. x - 1 \notin T
  BY <1>4
<1> QED
  BY <1>2, <1>3, <1>4, <1>5

(* A function that is given by its first value and by a step from one      *)
(* value to the next.                                                      *)
Steps(step, N, V) == \A n \in 1..N : \A x \in V : step[n][x] \in V

Unfolds(g, b, step, N, V) ==
  g \in [0..N -> V] /\ g[0] = b /\ \A n \in 1..N : g[n] = step[n][g[n - 1]]

LEMMA RecursionExists ==
  ASSUME NEW N \in Nat, NEW V, NEW b \in V, NEW step, Steps(step, N, V)
  PROVE  \E g : Unfolds(g, b, step, N, V)
<1> DEFINE
      Upto(k) == \E g \in [0..k -> V] : g[0] = b /\ \A n \in 1..k : g[n] = step[n][g[n - 1]]
      T == {k \in Nat : k <= N => Upto(k)}
<1>1. 0 \in T
  <2> DEFINE g == [n \in 0..0 |-> b]
  <2>1. g \in [0..0 -> V] /\ g[0] = b /\ \A n \in 1..0 : g[n] = step[n][g[n - 1]]
    OBVIOUS
  <2> QED
    BY <2>1
<1>2. \A k \in Nat : k \in T => k + 1 \in T
  <2> SUFFICES ASSUME NEW k \in Nat, Upto(k), k + 1 <= N PROVE Upto(k + 1)
    <3> HIDE DEF Upto
    <3> QED
      OBVIOUS
  <2>1. PICK g \in [0..k -> V] : g[0] = b /\ \A n \in 1..k : g[n] = step[n][g[n - 1]]
    OBVIOUS
  <2>2. k + 1 \in 1..N /\ k \in 0..k
    OBVIOUS
  <2>3. step[k + 1][g[k]] \in V
    BY <2>2 DEF Steps
  <2> DEFINE h == [n \in 0..k+1 |-> IF n = k + 1 THEN step[k + 1][g[k]] ELSE g[n]]
  <2>4. h \in [0..k+1 -> V] /\ h[0] = b
    BY <2>1, <2>3
  <2>5. \A n \in 1..k+1 : h[n] = step[n][h[n - 1]]
    <3> TAKE n \in 1..k+1
    <3>1. CASE n = k + 1
      BY <3>1
    <3>2. CASE n # k + 1
      <4>1. n \in 1..k /\ n - 1 \in 0..k /\ n - 1 # k + 1
        BY <3>2
      <4>2. h[n] = g[n] /\ h[n - 1] = g[n - 1]
        BY <4>1
      <4> QED
        BY <2>1, <4>1, <4>2
    <3> QED
      BY <3>1, <3>2
  <2> QED
    BY <2>4, <2>5
<1> HIDE DEF T
<1>3. Nat \subseteq T
  BY <1>1, <1>2, SetInduction
<1> QED
  BY <1>3 DEF T, Unfolds

-----------------------------------------------------------------------------
(* What a step of the server is to each of its parts: a step of the part,  *)
(* or no more than time that passes.                                       *)

Time == clock' = clock \/ (clock < MaxTime /\ clock' = clock + 1)

RouterMove  == Router!Next \/ (UNCHANGED router /\ Time)
UseToolMove == UseTool!Next \/ UNCHANGED useTool
ResultMove  == ResultCache!Next \/ (UNCHANGED results /\ Time)
ExportMove  == BulkExport!Next \/ UNCHANGED exports
NotesMove   == ToolNotes!Next \/ (UNCHANGED notes /\ Time)

LEMMA RouterKeepsTime == Router!Next => Time
BY DEF Time, Router!Next, Router!Requests, Router!Initialize, Router!SessionInitialized,
       Router!Get, Router!Delete, Router!OpenPost, Router!ClosePost, Router!Collect,
       Router!Tick, Router!Shutdown, Router!Teardown, Router!Drained, Router!WatcherStopped,
       Router!RefresherDisposed, Router!SessionsClosed, Router!RegistryClosed,
       Router!TeardownFails, Router!Exit, Router!CloseSession, Router!Listening,
       Router!ListeningOwnerless, Router!OwnerDies, Router!PidReused, Router!Watchdog,
       Router!ReadAlive, Router!ReadDead, Router!OwnerConfirmedDead

LEMMA ResultsKeepTime == ResultCache!Next => Time
BY DEF Time, ResultCache!Next, ResultCache!Tick, ResultCache!Truncated, ResultCache!Continue

LEMMA NotesKeepTime == ToolNotes!Next => Time
BY DEF Time, ToolNotes!Next, ToolNotes!Tick, ToolNotes!Record, ToolNotes!Observe,
       ToolNotes!FindStale, ToolNotes!Lock, ToolNotes!Contended, ToolNotes!Write,
       ToolNotes!WriteFails, ToolNotes!Crash

LEMMA Moves ==
  ASSUME [ServerNext]_parts
  PROVE  /\ [Next]_vars
         /\ RouterMove /\ UseToolMove /\ ResultMove /\ ExportMove /\ NotesMove
<1>1. CASE UpstreamStep
  BY <1>1 DEF UpstreamStep, Time, RouterMove, UseToolMove, ResultMove, ExportMove, NotesMove
<1>2. CASE RouterStep
  BY <1>2, RouterKeepsTime
     DEF RouterStep, RouterMove, UseToolMove, ResultMove, ExportMove, NotesMove
<1>3. CASE UseToolStep
  BY <1>3 DEF UseToolStep, Time, RouterMove, UseToolMove, ResultMove, ExportMove, NotesMove
<1>4. CASE ResultStep
  BY <1>4, ResultsKeepTime
     DEF ResultStep, RouterMove, UseToolMove, ResultMove, ExportMove, NotesMove
<1>5. CASE ExportStep
  BY <1>5 DEF ExportStep, Time, RouterMove, UseToolMove, ResultMove, ExportMove, NotesMove
<1>6. CASE NotesStep
  BY <1>6, NotesKeepTime
     DEF NotesStep, RouterMove, UseToolMove, ResultMove, ExportMove, NotesMove
<1>7. CASE UNCHANGED parts
  BY <1>7 DEF parts, Time, RouterMove, UseToolMove, ResultMove, ExportMove, NotesMove
<1> QED
  BY <1>1, <1>2, <1>3, <1>4, <1>5, <1>6, <1>7 DEF ServerNext

-----------------------------------------------------------------------------
(* The router.                                                             *)

(* A request counts on a session until the session has been used at least  *)
(* as late as the request came.                                            *)
PostsCount ==
  \A p \in Post : post[p].on \in Session => post[p].since <= session[post[p].on].lastActive

UsedBefore == \A s \in Session : session[s].lastActive <= clock

(* A watchdog that still runs has seen no shutdown, unless it came late.   *)
WatchdogIsFirst == watchdog = "running" => dogLate \/ teardown = "none"

RouterInv ==
  /\ Router!TypeOK /\ PostsCount /\ UsedBefore /\ WatchdogIsFirst
  /\ Router!TeardownIsNotCutShort

SessionRecord == [pc : Router!SessionState, lastActive : 0..MaxTime]

PostRecord == [on : Session \cup {"none"}, since : 0..MaxTime]

LEMMA SessionFields ==
  ASSUME Router!TypeOK, NEW s \in Session
  PROVE  /\ session[s] \in SessionRecord
         /\ session[s].pc \in Router!SessionState /\ session[s].lastActive \in 0..MaxTime
BY DEF Router!TypeOK, SessionRecord

(* A session that is used, or ends, or neither.                            *)
LEMMA SessionUsed ==
  ASSUME Router!TypeOK, NEW s \in Session, session' = [session EXCEPT ![s].lastActive = clock]
  PROVE  /\ session' \in [Session -> SessionRecord]
         /\ session'[s].lastActive = clock /\ session'[s].pc = session[s].pc
         /\ \A x \in Session \ {s} : session'[x] = session[x]
BY SessionFields DEF Router!TypeOK, SessionRecord

LEMMA SessionMoves ==
  ASSUME Router!TypeOK, NEW s \in Session, NEW pc \in Router!SessionState,
         session' = [session EXCEPT ![s].pc = pc]
  PROVE  /\ session' \in [Session -> SessionRecord]
         /\ session'[s].lastActive = session[s].lastActive /\ session'[s].pc = pc
         /\ \A x \in Session \ {s} : session'[x] = session[x]
BY SessionFields DEF Router!TypeOK, SessionRecord

LEMMA SessionsCollected ==
  ASSUME Router!TypeOK, Router!Collect
  PROVE  /\ session' \in [Session -> SessionRecord]
         /\ \A s \in Session : /\ session'[s].lastActive = session[s].lastActive
                               /\ s \notin Router!Expired => session'[s] = session[s]
<1>1. DOMAIN session = Session
  BY DEF Router!TypeOK
<1>2. ASSUME NEW s \in Session
      PROVE  /\ [session[s] EXCEPT !.pc = "collected"] \in SessionRecord
             /\ [session[s] EXCEPT !.pc = "collected"].lastActive = session[s].lastActive
  BY SessionFields DEF SessionRecord, Router!SessionState
<1>3. \A s \in Session :
        session'[s] = IF s \in Router!Expired THEN [session[s] EXCEPT !.pc = "collected"]
                      ELSE session[s]
  BY <1>1 DEF Router!Collect
<1>4. session' = [s \in Session |-> session'[s]]
  BY <1>1 DEF Router!Collect
<1> QED
  BY <1>2, <1>3, <1>4, SessionFields

LEMMA RouterStarts == Router!Init => RouterInv
<1> SUFFICES ASSUME Router!Init PROVE RouterInv
  OBVIOUS
<1>1. \A s \in Session : session[s] = [pc |-> "none", lastActive |-> 0]
  BY DEF Router!Init
<1>2. \A p \in Post : post[p] = [on |-> "none", since |-> 0]
  BY DEF Router!Init, Router!NoPost
<1>3. session \in [Session -> SessionRecord] /\ post \in [Post -> PostRecord]
  BY <1>1, <1>2, ServerAssumption
     DEF Router!Init, SessionRecord, PostRecord, Router!SessionState
<1>4. Router!TypeOK
  <2>1. dogLate \in BOOLEAN
    BY DEF Router!Init
  <2>2. clock \in 0..MaxTime /\ deadReads \in 0..2
    BY ServerAssumption DEF Router!Init
  <2> QED
    BY <1>3, <2>1, <2>2 DEF Router!Init, Router!TypeOK, SessionRecord, PostRecord
<1>5. PostsCount /\ UsedBefore
  BY <1>1, <1>2, ServerAssumption DEF Router!Init, PostsCount, UsedBefore
<1> QED
  BY <1>4, <1>5 DEF Router!Init, RouterInv, WatchdogIsFirst, Router!TeardownIsNotCutShort

(* What a step does to the sessions and the open POSTs: a session is used  *)
(* now or not, and a POST that opens does so on a session that is used.    *)
UsedLater ==
  /\ session' \in [Session -> SessionRecord] /\ post' \in [Post -> PostRecord]
  /\ \A s \in Session : \/ session'[s].lastActive = session[s].lastActive
                        \/ session'[s].lastActive = clock
  /\ \A p \in Post : \/ post'[p] = post[p]
                     \/ post'[p].on = "none"
                     \/ /\ post'[p].since = clock
                        /\ session'[post'[p].on].lastActive = clock

LEMMA SessionsUsedLater ==
  ASSUME Router!TypeOK,
         \/ Router!Requests \/ (\E p \in Post : Router!ClosePost(p)) \/ Router!Collect
         \/ \E s \in Session : Router!CloseSession(s)
  PROVE  UsedLater
<1>0. /\ session \in [Session -> SessionRecord] /\ post \in [Post -> PostRecord]
      /\ clock \in 0..MaxTime
      /\ {"initializing", "open", "deleted", "closed"} \subseteq Router!SessionState
  BY DEF Router!TypeOK, SessionRecord, PostRecord, Router!SessionState
<1>1. ASSUME NEW s \in Session, NEW pc \in Router!SessionState,
             session' = [session EXCEPT ![s].pc = pc], post' = post
      PROVE  UsedLater
  BY <1>0, <1>1, SessionMoves DEF UsedLater
<1>2. ASSUME NEW s \in Session, Router!SessionInitialized(s) PROVE UsedLater
  <2>1. [pc |-> "open", lastActive |-> clock] \in SessionRecord
    BY <1>0 DEF SessionRecord
  <2> QED
    BY <1>0, <1>2, <2>1 DEF Router!SessionInitialized, UsedLater
<1>3. ASSUME NEW s \in Session, NEW p \in Post, Router!OpenPost(p, s) PROVE UsedLater
  <2>1. [on |-> s, since |-> clock] \in PostRecord
    BY <1>0 DEF PostRecord
  <2> QED
    BY <1>0, <1>3, <2>1, SessionUsed DEF Router!OpenPost, UsedLater
<1>4. ASSUME NEW s \in Session, Router!Get(s) PROVE UsedLater
  BY <1>0, <1>4, SessionUsed DEF Router!Get, UsedLater
<1>5. ASSUME NEW p \in Post, Router!ClosePost(p) PROVE UsedLater
  <2>1. Router!NoPost \in PostRecord /\ Router!NoPost.on = "none"
    BY ServerAssumption DEF PostRecord, Router!NoPost
  <2>2. CASE post[p].on \in Session
    BY <1>0, <1>5, <2>1, <2>2, SessionUsed DEF Router!ClosePost, UsedLater
  <2>3. CASE post[p].on \notin Session
    <3>1. session' = session
      BY <1>0, <1>5, <2>3 DEF Router!ClosePost
    <3> QED
      BY <1>0, <1>5, <2>1, <3>1 DEF Router!ClosePost, UsedLater
  <2> QED
    BY <2>2, <2>3
<1>6. CASE Router!Collect
  BY <1>0, <1>6, SessionsCollected DEF Router!Collect, UsedLater
<1>7. ASSUME NEW s \in Session,
             Router!Initialize(s) \/ Router!Delete(s) \/ Router!CloseSession(s)
      PROVE  UsedLater
  BY <1>0, <1>1, <1>7 DEF Router!Initialize, Router!Delete, Router!CloseSession
<1> QED
  BY <1>2, <1>3, <1>4, <1>5, <1>6, <1>7 DEF Router!Requests

(* The steps that use or end sessions leave the shutdown alone.            *)
LEMMA RequestsChange ==
  ASSUME RouterInv,
         \/ Router!Requests \/ (\E p \in Post : Router!ClosePost(p)) \/ Router!Collect
         \/ \E s \in Session : Router!CloseSession(s)
  PROVE  RouterInv'
<1>1. UsedLater
  BY SessionsUsedLater DEF RouterInv
<1>2. UNCHANGED <<transport, listener, clock, owner, watchdog, deadReads, dogLate, teardown,
                  process>>
  BY DEF Router!Requests, Router!Initialize, Router!SessionInitialized, Router!Get,
         Router!Delete, Router!OpenPost, Router!ClosePost, Router!Collect,
         Router!CloseSession, Router!dog
<1>3. Router!TypeOK'
  BY <1>1, <1>2 DEF RouterInv, Router!TypeOK, UsedLater, SessionRecord, PostRecord
<1>4. PostsCount' /\ UsedBefore'
  <2>0. /\ session \in [Session -> SessionRecord] /\ post \in [Post -> PostRecord]
        /\ clock \in Nat
    BY ServerAssumption DEF RouterInv, Router!TypeOK, SessionRecord, PostRecord
  <2>1. \A s \in Session : session[s].lastActive \in Nat /\ session[s].lastActive <= clock
    BY <2>0, ServerAssumption DEF RouterInv, UsedBefore, SessionRecord
  <2>2. UsedBefore'
    BY <1>1, <1>2, <2>0, <2>1 DEF UsedBefore, UsedLater
  <2>3. ASSUME NEW p \in Post, post'[p].on \in Session
        PROVE  post'[p].since <= session'[post'[p].on].lastActive
    <3>1. CASE post'[p] = post[p]
      <4>1. /\ post[p].since \in Nat
            /\ post[p].since <= session[post[p].on].lastActive
        BY <2>0, <2>3, <3>1, ServerAssumption DEF RouterInv, PostsCount, PostRecord
      <4> QED
        BY <1>1, <2>0, <2>1, <2>3, <3>1, <4>1 DEF UsedLater
    <3>2. CASE post'[p] # post[p]
      BY <1>1, <2>0, <2>3, <3>2, ServerAssumption DEF UsedLater
    <3> QED
      BY <3>1, <3>2
  <2> QED
    BY <2>2, <2>3 DEF PostsCount
<1> QED
  BY <1>2, <1>3, <1>4 DEF RouterInv, WatchdogIsFirst, Router!TeardownIsNotCutShort

(* The other steps leave the sessions alone.                               *)
Shutting ==
  \/ Router!Shutdown \/ Router!Drained \/ Router!WatcherStopped \/ Router!RefresherDisposed
  \/ Router!SessionsClosed \/ Router!RegistryClosed \/ Router!TeardownFails \/ Router!Exit

Watching ==
  \/ Router!Listening \/ Router!ListeningOwnerless \/ Router!OwnerDies \/ Router!PidReused
  \/ Router!Watchdog

Waiting == Router!Tick \/ (UNCHANGED router /\ Time)

LEMMA SessionsLeftAlone ==
  ASSUME Shutting \/ Watching \/ Waiting
  PROVE  /\ UNCHANGED <<session, post, transport>> /\ Time
         /\ Shutting \/ Watching => clock' = clock
BY DEF Shutting, Watching, Waiting, Router!Shutdown, Router!Drained, Router!WatcherStopped,
       Router!RefresherDisposed, Router!SessionsClosed, Router!RegistryClosed,
       Router!TeardownFails, Router!Exit, Router!Listening, Router!ListeningOwnerless,
       Router!OwnerDies, Router!PidReused, Router!Watchdog, Router!ReadAlive,
       Router!ReadDead, Router!OwnerConfirmedDead, Router!Tick, router, Time, Router!http

LEMMA ShutdownChanges ==
  ASSUME RouterInv, Shutting \/ Watching \/ Waiting
  PROVE  RouterInv'
<1>0. Router!TypeOK /\ MaxTime \in Nat /\ clock \in 0..MaxTime /\ clock' \in 0..MaxTime
  BY ServerAssumption, SessionsLeftAlone DEF RouterInv, Router!TypeOK, Time
<1>1. PostsCount'
  BY SessionsLeftAlone DEF RouterInv, PostsCount
<1>2. UsedBefore'
  BY <1>0, SessionFields, SessionsLeftAlone DEF RouterInv, UsedBefore, Time
<1>3. /\ session' \in [Session -> SessionRecord] /\ post' \in [Post -> PostRecord]
      /\ transport' \in {"http", "stdio"}
  BY SessionsLeftAlone DEF RouterInv, Router!TypeOK, SessionRecord, PostRecord
<1>4. CASE Shutting
  <2>1. /\ UNCHANGED <<owner, deadReads, dogLate>>
        /\ listener' \in {listener, "closed"}
        /\ watchdog' = watchdog \/ (watchdog' = "stopped" /\ Router!Shutdown)
        /\ process = "running"
        /\ process' = process \/ (process' = "exited" /\ teardown \in {"done", "failed"}
                                  /\ teardown' = teardown)
        /\ teardown' \in {"none", "draining", "watcher", "refresher", "sessions", "registry",
                           "done", "failed"}
        /\ teardown = "none" => Router!Shutdown
    BY <1>0, <1>4 DEF Router!TypeOK, Shutting, Router!Shutdown, Router!Drained,
       Router!WatcherStopped, Router!RefresherDisposed, Router!SessionsClosed,
       Router!RegistryClosed, Router!TeardownFails, Router!Exit, Router!http, Router!dog,
       Router!WatchdogAfterBegin, Router!StopWatchdog, Router!Begin, Router!Running,
       Router!Awaiting
  <2>2. Router!Shutdown => watchdog' # "running"
    BY DEF Router!Shutdown, Router!WatchdogAfterBegin, Router!StopWatchdog
  <2>3. Router!TypeOK'
    BY <1>0, <1>3, <2>1 DEF Router!TypeOK, SessionRecord, PostRecord
  <2> QED
    BY <1>1, <1>2, <2>1, <2>2, <2>3
       DEF RouterInv, WatchdogIsFirst, Router!TeardownIsNotCutShort
<1>5. CASE Watching
  <2>1. /\ listener' \in {listener, "listening", "closed"}
        /\ owner' \in {"alive", "dead", "reused"} /\ deadReads' \in 0..2
        /\ watchdog' \in {watchdog, "running", "fired"}
        /\ teardown' \in {teardown, "draining"} /\ process' \in {process, "exited"}
    BY <1>0, <1>5 DEF Router!TypeOK, Watching, Router!Listening, Router!ListeningOwnerless,
       Router!OwnerDies, Router!PidReused, Router!Watchdog, Router!ReadAlive,
       Router!ReadDead, Router!OwnerConfirmedDead, Router!http, Router!dog, Router!Begin
  <2>0. dogLate' \in BOOLEAN
    BY <1>0, <1>5, Zenon DEF Router!TypeOK, Watching, Router!Listening,
       Router!ListeningOwnerless, Router!OwnerDies, Router!PidReused, Router!Watchdog,
       Router!ReadAlive, Router!ReadDead, Router!OwnerConfirmedDead, Router!dog
  <2>2. Router!TypeOK'
    BY <1>0, <1>3, <2>0, <2>1 DEF Router!TypeOK, SessionRecord, PostRecord
  <2>3. WatchdogIsFirst'
    BY <1>5 DEF RouterInv, WatchdogIsFirst, Watching, Router!Listening,
       Router!ListeningOwnerless, Router!OwnerDies, Router!PidReused, Router!Watchdog,
       Router!ReadAlive, Router!ReadDead, Router!OwnerConfirmedDead, Router!http, Router!dog
  <2>4. Router!TeardownIsNotCutShort'
    BY <1>5 DEF RouterInv, WatchdogIsFirst, Router!TeardownIsNotCutShort, Router!Running,
       Watching, Router!Listening, Router!ListeningOwnerless, Router!OwnerDies,
       Router!PidReused, Router!Watchdog, Router!ReadAlive, Router!ReadDead,
       Router!OwnerConfirmedDead, Router!http, Router!dog
  <2> QED
    BY <1>1, <1>2, <2>2, <2>3, <2>4 DEF RouterInv
<1>6. CASE Waiting
  <2>1. UNCHANGED <<listener, owner, watchdog, deadReads, dogLate, teardown, process>>
    BY <1>6 DEF Waiting, Router!Tick, router, Router!http, Router!dog
  <2>2. Router!TypeOK'
    BY <1>0, <1>3, <2>1 DEF Router!TypeOK, SessionRecord, PostRecord
  <2> QED
    BY <1>1, <1>2, <2>1, <2>2 DEF RouterInv, WatchdogIsFirst, Router!TeardownIsNotCutShort
<1> QED
  BY <1>4, <1>5, <1>6

LEMMA RouterStays == ASSUME RouterInv, RouterMove PROVE RouterInv'
BY RequestsChange, ShutdownChanges
   DEF RouterMove, Router!Next, Router!Teardown, Shutting, Watching, Waiting

(* A session is collected only by the interval, and only if it has not     *)
(* been used for as long as an open POST demands.                          *)
LEMMA BusyStay ==
  ASSUME RouterInv, RouterMove, NEW s \in Session, NEW p \in Router!OpenPosts(s),
         session[s].pc = "open", session'[s].pc = "collected"
  PROVE  clock - post[p].since > BusyLimit
<1>0. /\ Router!TypeOK /\ p \in Post /\ post[p].on = s
      /\ {"initializing", "open", "deleted", "closed"} \subseteq Router!SessionState
      /\ session \in [Session -> SessionRecord]
  BY DEF RouterInv, Router!OpenPosts, Router!TypeOK, SessionRecord, Router!SessionState
<1>1. Router!Collect
  <2>1. ASSUME NEW x \in Session, session' = [session EXCEPT ![x].lastActive = clock]
        PROVE  FALSE
    BY <1>0, <2>1, SessionUsed
  <2>2. ASSUME NEW x \in Session, NEW pc \in {"initializing", "open", "deleted", "closed"},
               session' = [session EXCEPT ![x].pc = pc]
        PROVE  FALSE
    BY <1>0, <2>2, SessionMoves
  <2>3. ASSUME NEW x \in Session, Router!SessionInitialized(x)
        PROVE  FALSE
    BY <1>0, <2>3 DEF Router!SessionInitialized
  <2>4. ASSUME NEW q \in Post, Router!ClosePost(q) PROVE FALSE
    <3>1. CASE post[q].on \in Session
      BY <2>1, <2>4, <3>1 DEF Router!ClosePost
    <3>2. CASE post[q].on \notin Session
      BY <1>0, <2>4, <3>2 DEF Router!ClosePost
    <3> QED
      BY <3>1, <3>2
  <2>5. ~(Shutting \/ Watching \/ Waiting)
    BY SessionsLeftAlone
  <2>6. ASSUME NEW x \in Session,
               \/ Router!Initialize(x) \/ Router!Get(x) \/ Router!Delete(x)
               \/ Router!CloseSession(x) \/ (\E q \in Post : Router!OpenPost(q, x))
        PROVE  FALSE
    BY <2>1, <2>2, <2>6 DEF Router!Initialize, Router!Get, Router!Delete,
       Router!CloseSession, Router!OpenPost
  <2> QED
    BY <2>3, <2>4, <2>5, <2>6 DEF RouterMove, Router!Next, Router!Requests, Router!Teardown,
       Shutting, Watching, Waiting
<1>2. s \in Router!Expired
  BY <1>1, SessionsCollected, <1>0
<1>3. Router!OpenPosts(s) # {}
  OBVIOUS
<1>4. clock - session[s].lastActive > BusyLimit
  BY <1>2, <1>3 DEF Router!Expired, Router!IdleLimitOf
<1>5. post[p].since <= session[s].lastActive
  BY <1>0 DEF RouterInv, PostsCount
<1>6. /\ post[p].since \in Int /\ session[s].lastActive \in Int /\ clock \in Int
      /\ BusyLimit \in Int
  BY <1>0, ServerAssumption, SessionFields DEF Router!TypeOK
<1> QED
  BY <1>4, <1>5, <1>6

-----------------------------------------------------------------------------
(* use_tool: the entries that a reset leaves.                              *)

LEMMA OthersStep ==
  ASSUME NEW S, NEW held \in Seq(S), NEW keys
  PROVE  LET g == UseTool!Others(held, keys) IN
         /\ g[0] = << >>
         /\ \A n \in 1..Len(held) :
              g[n] = IF held[n].key \in keys THEN g[n - 1] ELSE Append(g[n - 1], held[n])
<1> DEFINE N == Len(held)
           Is(g) == g = [n \in 0..N |->
             IF n = 0 THEN << >>
             ELSE IF held[n].key \in keys THEN g[n - 1] ELSE Append(g[n - 1], held[n])]
           V == Seq(S)
           move(n) == [x \in V |-> IF held[n].key \in keys THEN x ELSE Append(x, held[n])]
           step == [n \in 1..N |-> move(n)]
<1>0. N \in Nat /\ << >> \in Seq(S) /\ \A n \in 1..N : held[n] \in S
  OBVIOUS
<1>1. Steps(step, N, V)
  <2>1. \A n \in 1..N : \A x \in V : Append(x, held[n]) \in V
    BY <1>0
  <2>2. \A n \in 1..N : \A x \in V : move(n)[x] \in V
    BY <2>1
  <2> HIDE DEF move
  <2> QED
    BY <2>2 DEF Steps
<1>2. PICK g \in [0..N -> V] : g[0] = << >> /\ \A n \in 1..N : g[n] = step[n][g[n - 1]]
  <2> DEFINE b == << >>
  <2>1. b \in V /\ N \in Nat
    BY <1>0
  <2> HIDE DEF N, step, V, b
  <2>2. \E g : Unfolds(g, b, step, N, V)
    BY <1>1, <2>1, RecursionExists
  <2> QED
    BY <2>2 DEF b, Unfolds
<1>3. \A n \in 1..N :
         g[n] = IF held[n].key \in keys THEN g[n - 1] ELSE Append(g[n - 1], held[n])
  <2> TAKE n \in 1..N
  <2>1. g[n - 1] \in Seq(S)
    BY <1>0
  <2> QED
    BY <1>2, <2>1
<1>4. Is(g)
  <2> HIDE DEF step
  <2>1. g = [n \in 0..N |-> g[n]]
    OBVIOUS
  <2>2. \A n \in 0..N : g[n] = IF n = 0 THEN << >>
             ELSE IF held[n].key \in keys THEN g[n - 1] ELSE Append(g[n - 1], held[n])
    <3> TAKE n \in 0..N
    <3>1. n = 0 \/ n \in 1..N
      BY <1>0
    <3>2. n \in 1..N => n # 0
      OBVIOUS
    <3> QED
      BY <1>2, <1>3, <3>1, <3>2
  <2> QED
    BY <2>1, <2>2, Zenon
<1>5. UseTool!Others(held, keys) = CHOOSE f : Is(f)
  BY Zenon DEF UseTool!Others
<1>6. Is(CHOOSE f : Is(f))
  <2> HIDE DEF Is
  <2> QED
    BY <1>4, Zenon
<1> DEFINE f == UseTool!Others(held, keys)
<1>7. Is(f)
  BY <1>5, <1>6
<1> HIDE DEF f
<1>8. f[0] = << >>
  BY <1>0, <1>7
<1>9. ASSUME NEW n \in 1..N
      PROVE  f[n] = IF held[n].key \in keys THEN f[n - 1] ELSE Append(f[n - 1], held[n])
  <2>1. n \in 0..N /\ n # 0
    BY <1>0
  <2> QED
    BY <1>7, <2>1
<1> QED
  BY <1>8, <1>9 DEF f

(* The first m entries with other keys, in their order: `at` tells where   *)
(* each was.                                                               *)
Embeds(at, g, held, m, keys) ==
  /\ at \in [1..Len(g) -> 1..m]
  /\ \A i \in 1..Len(g) : g[i] = held[at[i]] /\ held[at[i]].key \notin keys
  /\ \A i, j \in 1..Len(g) : i < j => at[i] < at[j]
  /\ \A n \in 1..m : held[n].key \notin keys => \E i \in 1..Len(g) : at[i] = n

LEMMA ResetEmbeds ==
  ASSUME NEW S, NEW held \in Seq(S), NEW keys
  PROVE  LET g == UseTool!Reset(held, keys) IN
         /\ g \in Seq(S) /\ Len(g) <= Len(held)
         /\ \E at : Embeds(at, g, held, Len(held), keys)
<1> DEFINE
      N == Len(held)
      f == UseTool!Others(held, keys)
      Is(m) == /\ f[m] \in Seq(S) /\ Len(f[m]) <= m
               /\ \E at : Embeds(at, f[m], held, m, keys)
      T == {m \in Nat : m <= N => Is(m)}
<1>0. N \in Nat /\ \A n \in 1..N : held[n] \in S
  OBVIOUS
<1>1. /\ f[0] = << >>
      /\ \A n \in 1..N : f[n] = IF held[n].key \in keys THEN f[n - 1]
                                ELSE Append(f[n - 1], held[n])
  BY OthersStep
<1> HIDE DEF N, f
<1>2. 0 \in T
  <2> DEFINE at == [i \in 1..0 |-> 1]
  <2>1. f[0] \in Seq(S) /\ Len(f[0]) = 0
    BY <1>1
  <2>2. Embeds(at, f[0], held, 0, keys)
    BY <2>1 DEF Embeds
  <2> QED
    BY <2>1, <2>2
<1>3. \A m \in Nat : m \in T => m + 1 \in T
  <2> SUFFICES ASSUME NEW m \in Nat, Is(m), m + 1 <= N PROVE Is(m + 1)
    <3> HIDE DEF Is
    <3> QED
      BY <1>0
  <2>1. PICK at : Embeds(at, f[m], held, m, keys)
    OBVIOUS
  <2>2. m + 1 \in 1..N /\ (m + 1) - 1 = m
    BY <1>0
  <2> DEFINE g == f[m]
  <2>3. g \in Seq(S) /\ Len(g) \in Nat /\ Len(g) <= m
    OBVIOUS
  <2>4. CASE held[m + 1].key \in keys
    <3>1. f[m + 1] = g
      BY <1>1, <2>2, <2>4
    <3> HIDE DEF g
    <3>2. Embeds(at, g, held, m + 1, keys)
      <4>1. at \in [1..Len(g) -> 1..m + 1]
        BY <2>1, <2>3 DEF Embeds, g
      <4>2. ASSUME NEW n \in 1..m + 1, held[n].key \notin keys
            PROVE  \E i \in 1..Len(g) : at[i] = n
        <5>1. n \in 1..m
          BY <2>4, <4>2
        <5> QED
          BY <2>1, <4>2, <5>1 DEF Embeds, g
      <4> QED
        BY <2>1, <4>1, <4>2 DEF Embeds, g
    <3> QED
      BY <2>3, <3>1, <3>2
  <2>5. CASE held[m + 1].key \notin keys
    <3> DEFINE L == Len(g)
               up == [i \in 1..L + 1 |-> IF i = L + 1 THEN m + 1 ELSE at[i]]
    <3>1. f[m + 1] = Append(g, held[m + 1])
      BY <1>1, <2>2, <2>5
    <3> HIDE DEF g
    <3>2. /\ f[m + 1] \in Seq(S) /\ Len(f[m + 1]) = L + 1 /\ L + 1 <= m + 1 /\ L \in Nat
          /\ f[m + 1][L + 1] = held[m + 1]
          /\ \A i \in 1..L : f[m + 1][i] = g[i]
      BY <1>0, <2>2, <2>3, <3>1
    <3>3. /\ \A i \in 1..L : /\ at[i] \in 1..m /\ g[i] = held[at[i]]
                             /\ held[at[i]].key \notin keys
          /\ \A i, j \in 1..L : i < j => at[i] < at[j]
          /\ \A n \in 1..m : held[n].key \notin keys => \E i \in 1..L : at[i] = n
      BY <2>1 DEF Embeds, g
    <3> HIDE DEF L
    <3>4. /\ up[L + 1] = m + 1 /\ L + 1 \in 1..L + 1
          /\ \A i \in 1..L : up[i] = at[i] /\ i \in 1..L + 1
          /\ \A i \in 1..L + 1 : i = L + 1 \/ i \in 1..L
      BY <3>2
    <3>5. up \in [1..L + 1 -> 1..m + 1]
      BY <3>2, <3>3
    <3> HIDE DEF up
    <3>6. ASSUME NEW i \in 1..L + 1
          PROVE  f[m + 1][i] = held[up[i]] /\ held[up[i]].key \notin keys
      BY <2>5, <3>2, <3>3, <3>4
    <3>7. ASSUME NEW i \in 1..L + 1, NEW j \in 1..L + 1, i < j PROVE up[i] < up[j]
      <4>1. i \in 1..L
        BY <3>2, <3>7
      <4>2. CASE j = L + 1
        BY <3>3, <3>4, <4>1, <4>2
      <4>3. CASE j \in 1..L
        BY <3>3, <3>4, <3>7, <4>1, <4>3
      <4> QED
        BY <3>4, <4>2, <4>3
    <3>8. ASSUME NEW n \in 1..m + 1, held[n].key \notin keys
          PROVE  \E i \in 1..L + 1 : up[i] = n
      <4>1. CASE n = m + 1
        BY <3>4, <4>1
      <4>2. CASE n # m + 1
        <5>1. PICK i \in 1..L : at[i] = n
          BY <3>3, <3>8, <4>2
        <5> QED
          BY <3>4, <5>1
      <4> QED
        BY <4>1, <4>2
    <3>9. Embeds(up, f[m + 1], held, m + 1, keys)
      BY <3>2, <3>5, <3>6, <3>7, <3>8 DEF Embeds
    <3> QED
      BY <3>2, <3>9
  <2> QED
    BY <2>4, <2>5
<1> HIDE DEF T
<1>4. Nat \subseteq T
  BY <1>2, <1>3, SetInduction
<1>5. Is(N)
  BY <1>0, <1>4 DEF T
<1> QED
  BY <1>5 DEF N, f, UseTool!Reset

-----------------------------------------------------------------------------
(* use_tool: the map of attempts.                                          *)

Attempt == [key : UseTool!Key, n : Nat \ {0}]

Keys(held) == {held[i].key : i \in 1..Len(held)}

(* A key has one entry.                                                    *)
IsMap(held) ==
  /\ held \in Seq(Attempt)
  /\ \A i, j \in 1..Len(held) : held[i].key = held[j].key => i = j

Within(g, held) == \A i \in 1..Len(g) : \E j \in 1..Len(held) : g[i] = held[j]

(* The keys of later entries have failed since the earlier ones did.       *)
InTurn(held, after) ==
  \A i, j \in 1..Len(held) : i < j => held[j].key \in after[held[i].key]

LEMMA UpTo == ASSUME NEW n \in Nat PROVE IsFiniteSet(1..n) /\ Cardinality(1..n) = n
BY FS_Interval

LEMMA AttemptFields ==
  ASSUME NEW held, IsMap(held), NEW i \in 1..Len(held)
  PROVE  /\ held[i] \in Attempt /\ held[i].key \in UseTool!Key
         /\ held[i].n \in Nat /\ held[i].n > 0 /\ Len(held) \in Nat
<1>1. held[i] \in Attempt /\ Len(held) \in Nat
  BY DEF IsMap
<1>2. \A a \in Attempt : a.key \in UseTool!Key /\ a.n \in Nat \ {0}
  BY DEF Attempt
<1> QED
  BY <1>1, <1>2

LEMMA CountIs ==
  ASSUME NEW held, IsMap(held), NEW k
  PROVE  /\ k \notin Keys(held) => UseTool!CountOf(held, k) = 0
         /\ k \in Keys(held) =>
              \E i \in 1..Len(held) : held[i].key = k /\ UseTool!CountOf(held, k) = held[i].n
<1> DEFINE at == {i \in DOMAIN held : held[i].key = k}
<1>1. DOMAIN held = 1..Len(held)
  BY DEF IsMap
<1>2. CASE k \notin Keys(held)
  <2>1. at = {}
    BY <1>1, <1>2 DEF Keys
  <2> QED
    BY <1>2, <2>1 DEF UseTool!CountOf
<1>3. CASE k \in Keys(held)
  <2>1. PICK i \in at : TRUE
    BY <1>1, <1>3 DEF Keys
  <2>2. at # {} /\ (CHOOSE j \in at : TRUE) \in at
    BY <2>1
  <2>3. UseTool!CountOf(held, k) = held[CHOOSE j \in at : TRUE].n
    BY <2>2 DEF UseTool!CountOf
  <2> QED
    BY <1>1, <1>3, <2>2, <2>3
<1> QED
  BY <1>2, <1>3

LEMMA CountPositive ==
  ASSUME NEW held, IsMap(held), NEW k
  PROVE  /\ UseTool!CountOf(held, k) \in Nat
         /\ UseTool!CountOf(held, k) > 0 <=> k \in Keys(held)
<1>1. CASE k \notin Keys(held)
  BY <1>1, CountIs
<1>2. CASE k \in Keys(held)
  <2>1. PICK i \in 1..Len(held) : UseTool!CountOf(held, k) = held[i].n
    BY <1>2, CountIs
  <2> QED
    BY <1>2, <2>1, AttemptFields
<1> QED
  BY <1>1, <1>2

(* A reset takes the entries of its keys and leaves the others in turn.    *)
LEMMA ResetKeeps ==
  ASSUME NEW held, IsMap(held), NEW keys
  PROVE  LET g == UseTool!Reset(held, keys) IN
         /\ IsMap(g) /\ Len(g) <= Len(held) /\ Keys(g) = Keys(held) \ keys
         /\ Within(g, held)
         /\ \A after : InTurn(held, after) => InTurn(g, after)
         /\ \A k \in Keys(held) \cap keys : Len(g) < Len(held)
<1> DEFINE g == UseTool!Reset(held, keys)
           N == Len(held)
<1>0. held \in Seq(Attempt)
  BY DEF IsMap
<1>1. g \in Seq(Attempt) /\ Len(g) <= N /\ \E at : Embeds(at, g, held, N, keys)
  BY <1>0, ResetEmbeds
<1>2. PICK at : Embeds(at, g, held, N, keys)
  BY <1>1
<1>3. N \in Nat /\ Len(g) \in Nat
  BY <1>0, <1>1
<1> HIDE DEF g
<1>4. /\ at \in [1..Len(g) -> 1..N]
      /\ \A i \in 1..Len(g) : at[i] \in 1..N /\ g[i] = held[at[i]] /\ held[at[i]].key \notin keys
      /\ \A i, j \in 1..Len(g) : i < j => at[i] < at[j]
      /\ \A n \in 1..N : held[n].key \notin keys => \E i \in 1..Len(g) : at[i] = n
  BY <1>2 DEF Embeds
<1>5. \A i, j \in 1..Len(g) : at[i] = at[j] => i = j
  <2> SUFFICES ASSUME NEW i \in 1..Len(g), NEW j \in 1..Len(g), at[i] = at[j], i # j
               PROVE  FALSE
    OBVIOUS
  <2>1. (i < j \/ j < i) /\ at[i] \in Int /\ at[j] \in Int
    BY <1>3, <1>4
  <2> QED
    BY <1>4, <2>1
<1>6. IsMap(g)
  BY <1>1, <1>4, <1>5 DEF IsMap
<1>7. Keys(g) = Keys(held) \ keys
  <2>1. ASSUME NEW k \in Keys(g) PROVE k \in Keys(held) \ keys
    <3>1. PICK i \in 1..Len(g) : k = g[i].key
      BY DEF Keys
    <3> QED
      BY <1>4, <3>1 DEF Keys
  <2>2. ASSUME NEW k \in Keys(held) \ keys PROVE k \in Keys(g)
    <3>1. PICK n \in 1..N : k = held[n].key
      BY DEF Keys
    <3>2. PICK i \in 1..Len(g) : at[i] = n
      BY <1>4, <3>1
    <3> QED
      BY <1>4, <3>1, <3>2 DEF Keys
  <2> QED
    BY <2>1, <2>2
<1>8. ASSUME NEW after, InTurn(held, after) PROVE InTurn(g, after)
  <2> SUFFICES ASSUME NEW i \in 1..Len(g), NEW j \in 1..Len(g), i < j
               PROVE  g[j].key \in after[g[i].key]
    BY DEF InTurn
  <2>1. at[i] \in 1..N /\ at[j] \in 1..N /\ at[i] < at[j]
    BY <1>4
  <2>2. held[at[j]].key \in after[held[at[i]].key]
    BY <1>8, <2>1 DEF InTurn
  <2> QED
    BY <1>4, <2>2
<1>9. ASSUME NEW k \in Keys(held) \cap keys PROVE Len(g) < N
  <2>1. PICK n \in 1..N : k = held[n].key
    BY DEF Keys
  <2>2. at \in Injection(1..Len(g), (1..N) \ {n})
    BY <1>4, <1>5, <2>1 DEF Injection, IsInjective
  <2>3. /\ IsFiniteSet(1..N) /\ Cardinality(1..N) = N /\ Cardinality(1..Len(g)) = Len(g)
    BY <1>3, UpTo
  <2>4. IsFiniteSet((1..N) \ {n}) /\ Cardinality((1..N) \ {n}) = N - 1
    BY <2>3, FS_RemoveElement
  <2>5. Cardinality(1..Len(g)) <= Cardinality((1..N) \ {n})
    <3> DEFINE S == 1..Len(g)
               T == (1..N) \ {n}
    <3>1. at \in Injection(S, T) /\ IsFiniteSet(T)
      BY <2>2, <2>4
    <3> HIDE DEF S, T
    <3>2. Cardinality(S) <= Cardinality(T)
      BY <3>1, FS_Injection
    <3> QED
      BY <3>2 DEF S, T
  <2> QED
    BY <1>3, <2>3, <2>4, <2>5
<1>10. Within(g, held)
  BY <1>4 DEF Within
<1> QED
  BY <1>1, <1>6, <1>7, <1>8, <1>9, <1>10 DEF g

(* What room is made for one more key: its old entry goes, or the oldest   *)
(* entry of a full map, after which all the others have failed.            *)
Room(held, k) ==
  IF UseTool!CountOf(held, k) = 0 /\ Len(held) >= MaxAttemptMapSize THEN Tail(held)
  ELSE UseTool!Reset(held, {k})

LEMMA RoomIsMade ==
  ASSUME NEW held, IsMap(held), Len(held) <= MaxAttemptMapSize, NEW k
  PROVE  LET g == Room(held, k) IN
         /\ IsMap(g) /\ Len(g) < MaxAttemptMapSize
         /\ k \notin Keys(g) /\ Keys(g) \subseteq Keys(held)
         /\ Within(g, held)
         /\ \A after : InTurn(held, after) => InTurn(g, after)
         /\ \/ Keys(held) \ {k} = Keys(g)
            \/ /\ Len(held) = MaxAttemptMapSize /\ k \notin Keys(held)
               /\ Keys(held) \ {held[1].key} = Keys(g)
<1> DEFINE g == Room(held, k)
           N == Len(held)
<1>0. /\ held \in Seq(Attempt) /\ N \in Nat /\ MaxAttemptMapSize \in Nat
      /\ MaxAttemptMapSize > 0
  BY ServerAssumption DEF IsMap
<1>1. CASE UseTool!CountOf(held, k) = 0 /\ N >= MaxAttemptMapSize
  <2>1. g = Tail(held) /\ held # << >> /\ N = MaxAttemptMapSize
    BY <1>0, <1>1 DEF Room
  <2>2. k \notin Keys(held)
    BY <1>1, CountPositive
  <2>3. /\ g \in Seq(Attempt) /\ Len(g) = N - 1
        /\ \A i \in 1..Len(g) : g[i] = held[i + 1] /\ i + 1 \in 1..N
    BY <1>0, <2>1, HeadTailProperties
  <2> HIDE DEF g
  <2>4. \A i, j \in 1..N : held[i].key = held[j].key => i = j
    BY DEF IsMap
  <2>5. IsMap(g)
    <3> SUFFICES ASSUME NEW i \in 1..Len(g), NEW j \in 1..Len(g), g[i].key = g[j].key
                 PROVE  i = j
      BY <2>3 DEF IsMap
    <3>1. i + 1 = j + 1
      BY <2>3, <2>4
    <3> QED
      BY <3>1
  <2>6. Keys(g) = Keys(held) \ {held[1].key}
    <3>1. ASSUME NEW x \in Keys(g) PROVE x \in Keys(held) \ {held[1].key}
      <4>1. PICK i \in 1..Len(g) : x = g[i].key
        BY DEF Keys
      <4>2. i + 1 \in 1..N /\ x = held[i + 1].key /\ i + 1 # 1 /\ 1 \in 1..N
        BY <2>3, <4>1, <1>0
      <4> QED
        BY <2>4, <4>2 DEF Keys
    <3>2. ASSUME NEW x \in Keys(held) \ {held[1].key} PROVE x \in Keys(g)
      <4>1. PICK i \in 1..N : x = held[i].key
        BY DEF Keys
      <4>2. i # 1
        BY <3>2, <4>1
      <4>3. i - 1 \in 1..Len(g) /\ (i - 1) + 1 = i
        BY <1>0, <2>3, <4>2
      <4> QED
        BY <2>3, <4>1, <4>3 DEF Keys
    <3> QED
      BY <3>1, <3>2
  <2>7. ASSUME NEW after, InTurn(held, after) PROVE InTurn(g, after)
    <3> SUFFICES ASSUME NEW i \in 1..Len(g), NEW j \in 1..Len(g), i < j
                 PROVE  g[j].key \in after[g[i].key]
      BY DEF InTurn
    <3>1. i + 1 \in 1..N /\ j + 1 \in 1..N /\ i + 1 < j + 1
      BY <2>3
    <3> QED
      BY <2>3, <2>7, <3>1 DEF InTurn
  <2>8. Within(g, held)
    BY <2>3 DEF Within
  <2> QED
    BY <1>0, <2>1, <2>2, <2>3, <2>5, <2>6, <2>7, <2>8 DEF g
<1>2. CASE ~(UseTool!CountOf(held, k) = 0 /\ N >= MaxAttemptMapSize)
  <2>1. g = UseTool!Reset(held, {k})
    BY <1>2 DEF Room
  <2> HIDE DEF g
  <2>2. /\ IsMap(g) /\ Len(g) <= N /\ Keys(g) = Keys(held) \ {k}
        /\ Within(g, held)
        /\ \A after : InTurn(held, after) => InTurn(g, after)
        /\ k \in Keys(held) => Len(g) < N
    <3> DEFINE K == {k}
    <3> HIDE DEF K, N
    <3>1. /\ IsMap(g) /\ Len(g) <= N /\ Keys(g) = Keys(held) \ K
      BY <2>1, ResetKeeps DEF K, N
    <3>4. Within(g, held)
      BY <2>1, ResetKeeps DEF K, N
    <3>2. \A after : InTurn(held, after) => InTurn(g, after)
      BY <2>1, ResetKeeps DEF K, N
    <3>3. \A x \in Keys(held) \cap K : Len(g) < N
      BY <2>1, ResetKeeps DEF K, N
    <3> QED
      BY <3>1, <3>2, <3>3, <3>4 DEF K
  <2>3. Len(g) \in Nat
    BY <2>2 DEF IsMap
  <2>4. Len(g) < MaxAttemptMapSize
    <3>1. k \in Keys(held) \/ N < MaxAttemptMapSize
      BY <1>0, <1>2, CountPositive
    <3> QED
      BY <1>0, <2>2, <2>3, <3>1
  <2> QED
    BY <2>2, <2>4 DEF g
<1> QED
  BY <1>1, <1>2

(* The failures a key has had since the entries of a map last had one.     *)
Fails(after, k) == [x \in UseTool!Key |-> IF x = k THEN {} ELSE after[x] \union {k}]

LEMMA IncrementKeeps ==
  ASSUME NEW held, IsMap(held), Len(held) <= MaxAttemptMapSize, NEW k \in UseTool!Key,
         NEW after \in [UseTool!Key -> SUBSET UseTool!Key], InTurn(held, after)
  PROVE  LET h == UseTool!Increment(held, k) IN
         /\ IsMap(h) /\ Len(h) <= MaxAttemptMapSize
         /\ k \in Keys(h)
         /\ InTurn(h, Fails(after, k))
         /\ \/ Keys(held) \subseteq Keys(h)
            \/ /\ Len(held) = MaxAttemptMapSize /\ k \notin Keys(held)
               /\ Keys(held) \ {held[1].key} \subseteq Keys(h)
<1> DEFINE g == Room(held, k)
           entry == [key |-> k, n |-> UseTool!CountOf(held, k) + 1]
           h == UseTool!Increment(held, k)
           L == Len(g)
<1>0. MaxAttemptMapSize \in Nat
  BY ServerAssumption
<1>1. h = Append(g, entry)
  <2>1. UseTool!CountOf(held, k) \in Nat
    BY CountPositive
  <2>2. ~(UseTool!CountOf(held, k) > 0) <=> UseTool!CountOf(held, k) = 0
    BY <2>1
  <2> QED
    BY <2>2 DEF UseTool!Increment, Room
<1>2. entry \in Attempt /\ entry.key = k /\ entry.n = UseTool!CountOf(held, k) + 1
  BY CountPositive DEF Attempt
<1>3. /\ IsMap(g) /\ L < MaxAttemptMapSize
      /\ k \notin Keys(g) /\ Keys(g) \subseteq Keys(held)
      /\ Within(g, held)
      /\ InTurn(g, after)
      /\ \/ Keys(held) \ {k} = Keys(g)
         \/ /\ Len(held) = MaxAttemptMapSize /\ k \notin Keys(held)
            /\ Keys(held) \ {held[1].key} = Keys(g)
  BY RoomIsMade
<1> HIDE DEF g, entry
<1>4. g \in Seq(Attempt) /\ L \in Nat
  BY <1>3 DEF IsMap
<1>5. /\ h \in Seq(Attempt) /\ Len(h) = L + 1 /\ h[L + 1] = entry
      /\ \A i \in 1..L : h[i] = g[i]
      /\ \A i \in 1..L + 1 : i = L + 1 \/ i \in 1..L
      /\ \A i \in 1..L : i \in 1..L + 1
      /\ L + 1 \in 1..L + 1
  BY <1>1, <1>2, <1>4
<1> HIDE DEF h, L
<1>6. Keys(h) = Keys(g) \union {k}
  <2>1. Keys(h) = {h[i].key : i \in 1..L + 1}
    BY <1>5 DEF Keys
  <2>2. Keys(g) = {g[i].key : i \in 1..L}
    BY DEF Keys, L
  <2>3. ASSUME NEW x \in Keys(h) PROVE x \in Keys(g) \union {k}
    BY <1>2, <1>5, <2>1, <2>2
  <2>4. ASSUME NEW x \in Keys(g) \union {k} PROVE x \in Keys(h)
    BY <1>2, <1>5, <2>1, <2>2
  <2> QED
    BY <2>3, <2>4
<1>7. \A i \in 1..L : g[i].key \in Keys(g) /\ g[i].key # k /\ g[i].key \in UseTool!Key
  BY <1>3, AttemptFields DEF Keys, L
<1>8. IsMap(h)
  <2> SUFFICES ASSUME NEW i \in 1..Len(h), NEW j \in 1..Len(h), h[i].key = h[j].key
               PROVE  i = j
    BY <1>5 DEF IsMap
  <2>1. i \in 1..L /\ j \in 1..L => i = j
    BY <1>3, <1>5 DEF IsMap, L
  <2> QED
    BY <1>2, <1>5, <1>7, <2>1
<1>9. InTurn(h, Fails(after, k))
  <2> SUFFICES ASSUME NEW i \in 1..Len(h), NEW j \in 1..Len(h), i < j
               PROVE  h[j].key \in Fails(after, k)[h[i].key]
    BY DEF InTurn
  <2>1. i \in 1..L
    BY <1>4, <1>5 DEF L
  <2>2. Fails(after, k)[h[i].key] = after[h[i].key] \union {k}
    BY <1>5, <1>7, <2>1 DEF Fails
  <2>3. CASE j = L + 1
    BY <1>2, <1>5, <2>2, <2>3
  <2>4. CASE j \in 1..L
    BY <1>3, <1>5, <2>1, <2>2, <2>4 DEF InTurn, L
  <2> QED
    BY <1>5, <2>3, <2>4
<1> QED
  BY <1>0, <1>3, <1>4, <1>5, <1>6, <1>8, <1>9 DEF h, L

-----------------------------------------------------------------------------
(* use_tool: the counters.                                                 *)

(* The keys after another in the map have all failed since it did.         *)
UseToolInv ==
  /\ UseTool!TypeOK /\ IsMap(attempts)
  /\ since \in [UseTool!Key -> SUBSET UseTool!Key]
  /\ \A k \in UseTool!Key : IsFiniteSet(since[k])
  /\ InTurn(attempts, since)
  /\ UseTool!RecentCountsSurvive

UseRecord == [st : {"idle", "loading", "calling"}, scope : Scope \union {NoScope}, tool : Tool]

LEMMA UseToolCounts == \A S : UseTool!Cardinality(S) = Cardinality(S)
BY Zenon DEF UseTool!Cardinality, Cardinality

LEMMA KeysCount ==
  ASSUME NEW held, IsMap(held)
  PROVE  IsFiniteSet(Keys(held)) /\ Cardinality(Keys(held)) = Len(held)
<1> DEFINE N == Len(held)
           S == 1..N
           T == Keys(held)
           f == [i \in S |-> held[i].key]
<1>1. N \in Nat
  BY DEF IsMap
<1>2. IsFiniteSet(S) /\ Cardinality(S) = N
  BY <1>1, UpTo
<1>3. f \in Surjection(S, T)
  BY DEF Surjection, Keys
<1>4. f \in Injection(S, T)
  <2>1. f \in [S -> T]
    BY DEF Keys
  <2>2. \A a, b \in S : f[a] = f[b] => a = b
    BY DEF IsMap
  <2> HIDE DEF f, S, T
  <2> QED
    BY <2>1, <2>2 DEF Injection, IsInjective
<1> HIDE DEF f, S, T
<1>5. /\ IsFiniteSet(T)
      /\ Cardinality(T) = Cardinality(S) <=> f \in Injection(S, T)
  BY <1>2, <1>3, FS_Surjection
<1> QED
  BY <1>2, <1>4, <1>5 DEF T

LEMMA UseToolStarts == UseTool!Init => UseToolInv
<1> SUFFICES ASSUME UseTool!Init PROVE UseToolInv
  OBVIOUS
<1>1. /\ attempts = << >> /\ use = [c \in Caller |-> UseTool!Idle]
      /\ failures = [k \in UseTool!Key |-> 0]
      /\ since = [k \in UseTool!Key |-> {}]
  BY DEF UseTool!Init
<1>2. attempts \in Seq(Attempt) /\ Len(attempts) = 0
  BY <1>1
<1>3. IsMap(attempts) /\ InTurn(attempts, since)
  BY <1>2 DEF IsMap, InTurn
<1>4. UseTool!Idle \in UseRecord
  BY ServerAssumption DEF UseTool!Idle, UseRecord
<1>5. UseTool!TypeOK
  <2>1. use \in [Caller -> UseRecord]
    BY <1>1, <1>4
  <2>2. failures \in [UseTool!Key -> 0..MaxFailures]
    BY <1>1, ServerAssumption
  <2> QED
    BY <1>2, <2>1, <2>2, ServerAssumption DEF UseTool!TypeOK, Attempt, UseRecord
<1>6. \A k \in UseTool!Key : IsFiniteSet(since[k])
  BY <1>1, FS_EmptySet
<1>7. since \in [UseTool!Key -> SUBSET UseTool!Key]
  BY <1>1
<1>8. UseTool!RecentCountsSurvive
  BY <1>1 DEF UseTool!RecentCountsSurvive
<1> QED
  BY <1>3, <1>5, <1>6, <1>7, <1>8 DEF UseToolInv

(* The keys of a call, and whose failures they are.                        *)
LEMMA OwnKeys ==
  ASSUME UseTool!TypeOK, NEW c \in Caller
  PROVE  /\ \A ph \in UseTool!Phase : UseTool!AttemptKey(c, ph) \in UseTool!Key
         /\ \A phases \in SUBSET UseTool!Phase :
              UseTool!Own(c, phases) = {UseTool!AttemptKey(c, p) : p \in phases}
<1>1. use[c].scope \in Scope \union {NoScope} /\ use[c].tool \in Tool
  BY DEF UseTool!TypeOK
<1> QED
  BY <1>1 DEF UseTool!AttemptKey, UseTool!Own, UseTool!Key

LEMMA OneOwnKey ==
  ASSUME UseTool!TypeOK, NEW c \in Caller, NEW ph \in UseTool!Phase
  PROVE  (CHOOSE x \in UseTool!Own(c, {ph}) : TRUE) = UseTool!AttemptKey(c, ph)
<1>1. {ph} \in SUBSET UseTool!Phase
  OBVIOUS
<1>2. UseTool!Own(c, {ph}) = {UseTool!AttemptKey(c, p) : p \in {ph}}
  BY <1>1, OwnKeys
<1>3. UseTool!Own(c, {ph}) = {UseTool!AttemptKey(c, ph)}
  BY <1>2
<1>4. \A k : (CHOOSE x \in {k} : TRUE) = k
  OBVIOUS
<1> QED
  BY <1>3, <1>4, Zenon

LEMMA CallEnds ==
  ASSUME UseTool!TypeOK, NEW c \in Caller, NEW st \in {"idle", "loading", "calling"}
  PROVE  /\ [use EXCEPT ![c] = UseTool!Idle] \in [Caller -> UseRecord]
         /\ [use EXCEPT ![c].st = st] \in [Caller -> UseRecord]
         /\ \A s \in Scope \union {NoScope}, t \in Tool :
              [use EXCEPT ![c] = [st |-> st, scope |-> s, tool |-> t]] \in [Caller -> UseRecord]
<1>1. use \in [Caller -> UseRecord]
  BY DEF UseTool!TypeOK, UseRecord
<1>2. UseTool!Idle \in UseRecord
  BY ServerAssumption DEF UseTool!Idle, UseRecord
<1>3. use[c].scope \in Scope \union {NoScope} /\ use[c].tool \in Tool
  BY <1>1 DEF UseRecord
<1>4. [use EXCEPT ![c].st = st] \in [Caller -> UseRecord]
  <2>1. \A d \in Caller : [use EXCEPT ![c].st = st][d] \in UseRecord
    BY <1>1, <1>3 DEF UseRecord
  <2> QED
    BY <1>1, <2>1
<1>5. ASSUME NEW s \in Scope \union {NoScope}, NEW t \in Tool
      PROVE  [use EXCEPT ![c] = [st |-> st, scope |-> s, tool |-> t]] \in [Caller -> UseRecord]
  <2>1. [st |-> st, scope |-> s, tool |-> t] \in UseRecord
    BY DEF UseRecord
  <2> QED
    BY <1>1, <2>1
<1> QED
  BY <1>1, <1>2, <1>4, <1>5

(* A full map forgets the key that failed longest ago, after as many other *)
(* keys as it holds.                                                       *)
LEMMA OldestIsForgotten ==
  ASSUME NEW held, IsMap(held), Len(held) = MaxAttemptMapSize, NEW k, k \notin Keys(held),
         NEW after, InTurn(held, after), IsFiniteSet(after[held[1].key])
  PROVE  Cardinality(after[held[1].key] \union {k}) >= MaxAttemptMapSize
<1> DEFINE x == held[1].key
           A == Keys(held) \ {x}
           B == after[x] \union {k}
<1>1. Len(held) \in Nat /\ Len(held) > 0 /\ 1 \in 1..Len(held) /\ x \in Keys(held)
  BY ServerAssumption DEF Keys
<1>2. \A y \in A : y \in after[x]
  <2> SUFFICES ASSUME NEW y \in A PROVE y \in after[x]
    OBVIOUS
  <2>1. PICK j \in 1..Len(held) : y = held[j].key
    BY DEF Keys
  <2>2. 1 < j
    BY <2>1
  <2> QED
    BY <1>1, <2>1, <2>2 DEF InTurn
<1>3. /\ IsFiniteSet(A) /\ Cardinality(A) = Len(held) - 1
  BY <1>1, KeysCount, FS_RemoveElement
<1>4. IsFiniteSet(A \union {k}) /\ Cardinality(A \union {k}) = (Len(held) - 1) + 1
  BY <1>3, FS_AddElement
<1>5. IsFiniteSet(B)
  BY FS_AddElement
<1>6. A \union {k} \in SUBSET B
  BY <1>2
<1> HIDE DEF A, B
<1>7. Cardinality(A \union {k}) <= Cardinality(B) /\ Cardinality(B) \in Nat
  BY <1>5, <1>6, FS_Subset, FS_CardinalityType
<1> QED
  BY <1>1, <1>4, <1>7 DEF B

LEMMA FailuresCounted ==
  ASSUME UseToolInv, NEW c \in Caller, NEW phase \in UseTool!Phase,
         NEW cleared \in SUBSET UseTool!Phase, phase \notin cleared,
         UseTool!CountFailure(c, phase, cleared)
  PROVE  UseToolInv'
<1> DEFINE k == UseTool!AttemptKey(c, phase)
           K == {UseTool!AttemptKey(c, p) : p \in cleared}
           held == UseTool!Reset(attempts, K)
           h == UseTool!Increment(held, k)
<1>0. /\ UseTool!TypeOK /\ IsMap(attempts) /\ Len(attempts) <= MaxAttemptMapSize
      /\ since \in [UseTool!Key -> SUBSET UseTool!Key]
      /\ \A x \in UseTool!Key : IsFiniteSet(since[x])
      /\ InTurn(attempts, since)
      /\ failures \in [UseTool!Key -> 0..MaxFailures]
      /\ MaxFailures \in Nat /\ MaxAttemptMapSize \in Nat
  BY ServerAssumption DEF UseToolInv, UseTool!TypeOK
<1>1. k \in UseTool!Key /\ K \subseteq UseTool!Key
  BY <1>0, OwnKeys
<1>2. UseTool!Own(c, cleared) = K /\ (CHOOSE x \in UseTool!Own(c, {phase}) : TRUE) = k
  BY <1>0, OwnKeys, OneOwnKey
<1>3. k \notin K
  BY DEF UseTool!AttemptKey
<1>4. /\ failures[k] < MaxFailures
      /\ attempts' = h
      /\ failures' = [x \in UseTool!Key |-> IF x = k THEN failures[k] + 1
                                            ELSE IF x \in K THEN 0 ELSE failures[x]]
      /\ since' = Fails(since, k)
      /\ use' = [use EXCEPT ![c] = UseTool!Idle]
  BY <1>2, Zenon DEF UseTool!CountFailure, UseTool!EndCall, Fails
<1>5. /\ IsMap(held) /\ Len(held) <= Len(attempts) /\ Keys(held) = Keys(attempts) \ K
      /\ Within(held, attempts) /\ InTurn(held, since)
  BY <1>0, ResetKeeps
<1> HIDE DEF k, K, held
<1>6. Len(held) \in Nat /\ Len(attempts) \in Nat /\ Len(held) <= MaxAttemptMapSize
  BY <1>0, <1>5 DEF IsMap
<1>8. failures' \in [UseTool!Key -> 0..MaxFailures]
  BY <1>0, <1>1, <1>4
<1> HIDE DEF h
<1>12. /\ IsMap(h) /\ Len(h) <= MaxAttemptMapSize
       /\ k \in Keys(h) /\ InTurn(h, Fails(since, k))
       /\ \/ Keys(held) \subseteq Keys(h)
          \/ /\ Len(held) = MaxAttemptMapSize /\ k \notin Keys(held)
             /\ Keys(held) \ {held[1].key} \subseteq Keys(h)
  BY <1>0, <1>1, <1>5, <1>6, IncrementKeeps DEF h
<1>13. /\ since' \in [UseTool!Key -> SUBSET UseTool!Key]
       /\ \A x \in UseTool!Key : IsFiniteSet(since'[x])
  <2>1. \A x \in UseTool!Key : since'[x] = IF x = k THEN {} ELSE since[x] \union {k}
    BY <1>4 DEF Fails
  <2>2. since' = [x \in UseTool!Key |-> since'[x]]
    BY <1>4 DEF Fails
  <2>3. \A x \in UseTool!Key : since'[x] \in SUBSET UseTool!Key
    <3> TAKE x \in UseTool!Key
    <3>1. since[x] \in SUBSET UseTool!Key
      BY <1>0
    <3>2. since'[x] = {} \/ since'[x] = since[x] \union {k}
      BY <2>1
    <3> QED
      BY <1>1, <3>1, <3>2
  <2>4. \A x \in UseTool!Key : IsFiniteSet(since'[x])
    <3> TAKE x \in UseTool!Key
    <3>1. IsFiniteSet(since[x] \union {k})
      BY <1>0, FS_AddElement
    <3>2. since'[x] = {} \/ since'[x] = since[x] \union {k}
      BY <2>1
    <3> QED
      BY <3>1, <3>2, FS_EmptySet
  <2> QED
    BY <2>2, <2>3, <2>4
<1>14. UseTool!TypeOK'
  <2>1. use' \in [Caller -> UseRecord]
    BY <1>0, <1>4, CallEnds
  <2>2. attempts' \in Seq(Attempt) /\ Len(attempts') <= MaxAttemptMapSize
    BY <1>4, <1>12 DEF IsMap
  <2> QED
    BY <1>8, <2>1, <2>2 DEF UseTool!TypeOK, UseRecord, Attempt
<1>15. UseTool!RecentCountsSurvive'
  <2> SUFFICES ASSUME NEW x \in UseTool!Key, failures'[x] # 0, x \notin Keys(h)
               PROVE  Cardinality(since'[x]) >= MaxAttemptMapSize
    <3>1. \A x \in Keys(h) : UseTool!CountOf(attempts', x) > 0
      BY <1>4, <1>12, CountPositive
    <3>2. \A x \in UseTool!Key : failures'[x] = 0 \/ UseTool!CountOf(attempts', x) > 0
                                \/ Cardinality(since'[x]) >= MaxAttemptMapSize
      BY <3>1
    <3> QED
      BY <3>2, UseToolCounts DEF UseTool!RecentCountsSurvive
  <2>1. x # k /\ x \notin K /\ failures[x] # 0 /\ since'[x] = since[x] \union {k}
    BY <1>4, <1>12 DEF Fails
  <2>2. CASE x \in Keys(attempts)
    <3>1. x \in Keys(held) /\ Len(held) = MaxAttemptMapSize /\ k \notin Keys(held)
          /\ x = held[1].key
      BY <1>5, <1>12, <2>1, <2>2
    <3> QED
      BY <1>0, <1>5, <2>1, <3>1, OldestIsForgotten
  <2>3. CASE x \notin Keys(attempts)
    <3>1. Cardinality(since[x]) >= MaxAttemptMapSize
      <4>1. ~(UseTool!CountOf(attempts, x) > 0)
        BY <1>0, <2>3, CountPositive
      <4>2. failures[x] = 0 \/ UseTool!CountOf(attempts, x) > 0
              \/ Cardinality(since[x]) >= MaxAttemptMapSize
        BY UseToolCounts DEF UseToolInv, UseTool!RecentCountsSurvive
      <4> QED
        BY <2>1, <4>1, <4>2
    <3>2. IsFiniteSet(since[x])
      BY <1>0
    <3>3. /\ Cardinality(since[x]) \in Nat
          /\ Cardinality(since[x] \union {k}) \in {Cardinality(since[x]), Cardinality(since[x]) + 1}
      BY <3>2, FS_AddElement, FS_CardinalityType
    <3> QED
      BY <1>0, <2>1, <3>1, <3>3
  <2> QED
    BY <2>2, <2>3
<1> QED
  BY <1>4, <1>12, <1>13, <1>14, <1>15 DEF UseToolInv

LEMMA FailuresForgotten ==
  ASSUME UseToolInv, NEW c \in Caller, NEW phases \in SUBSET UseTool!Phase,
         UseTool!ForgetFailures(c, phases), use' \in [Caller -> UseRecord]
  PROVE  UseToolInv'
<1> DEFINE K == {UseTool!AttemptKey(c, p) : p \in phases}
           h == UseTool!Reset(attempts, K)
<1>0. /\ UseTool!TypeOK /\ IsMap(attempts) /\ Len(attempts) <= MaxAttemptMapSize
      /\ InTurn(attempts, since)
      /\ failures \in [UseTool!Key -> 0..MaxFailures]
      /\ MaxFailures \in Nat /\ MaxAttemptMapSize \in Nat
  BY ServerAssumption DEF UseToolInv, UseTool!TypeOK
<1>1. UseTool!Own(c, phases) = K
  BY <1>0, OwnKeys
<1>2. /\ attempts' = h /\ since' = since
      /\ failures' = [x \in UseTool!Key |-> IF x \in K THEN 0 ELSE failures[x]]
  BY <1>1, Zenon DEF UseTool!ForgetFailures
<1>3. /\ IsMap(h) /\ Len(h) <= Len(attempts) /\ Keys(h) = Keys(attempts) \ K
      /\ Within(h, attempts) /\ InTurn(h, since)
  BY <1>0, ResetKeeps
<1> HIDE DEF K, h
<1>4. Len(h) <= MaxAttemptMapSize
  BY <1>0, <1>3 DEF IsMap
<1>5. failures' \in [UseTool!Key -> 0..MaxFailures]
  BY <1>0, <1>2
<1>7. UseTool!TypeOK'
  <2>1. attempts' \in Seq(Attempt)
    BY <1>2, <1>3 DEF IsMap
  <2> QED
    BY <1>2, <1>4, <1>5, <2>1 DEF UseTool!TypeOK, UseRecord, Attempt
<1>8. UseTool!RecentCountsSurvive'
  <2>1. ASSUME NEW x \in UseTool!Key, failures'[x] # 0
        PROVE  UseTool!CountOf(attempts', x) > 0 \/ Cardinality(since'[x]) >= MaxAttemptMapSize
    <3>1. x \notin K /\ failures[x] # 0
      BY <1>2, <2>1
    <3>2. UseTool!CountOf(attempts, x) > 0 \/ Cardinality(since[x]) >= MaxAttemptMapSize
      BY <3>1, UseToolCounts DEF UseToolInv, UseTool!RecentCountsSurvive
    <3>3. CASE x \in Keys(attempts)
      BY <1>2, <1>3, <3>1, <3>3, CountPositive
    <3>4. CASE x \notin Keys(attempts)
      BY <1>0, <1>2, <3>2, <3>4, CountPositive
    <3> QED
      BY <3>3, <3>4
  <2> QED
    BY <2>1, UseToolCounts DEF UseTool!RecentCountsSurvive
<1> QED
  BY <1>2, <1>3, <1>7, <1>8 DEF UseToolInv

LEMMA UseToolStays == ASSUME UseToolInv, UseToolMove PROVE UseToolInv'
<1>0. UseTool!TypeOK /\ {"validation", "downstream"} \subseteq UseTool!Phase
  BY DEF UseToolInv, UseTool!Phase
<1>1. ASSUME UNCHANGED <<attempts, failures, since>>, use' \in [Caller -> UseRecord]
      PROVE  UseToolInv'
  <2>1. UseTool!TypeOK'
    BY <1>1 DEF UseToolInv, UseTool!TypeOK, UseRecord
  <2> QED
    BY <1>1, <2>1 DEF UseToolInv, UseTool!RecentCountsSurvive
<1>2. CASE UNCHANGED useTool
  <2>1. use' \in [Caller -> UseRecord]
    BY <1>0, <1>2 DEF useTool, UseTool!TypeOK, UseRecord
  <2> QED
    BY <1>1, <1>2, <2>1 DEF useTool
<1>3. ASSUME NEW c \in Caller, UseTool!Use(c) PROVE UseToolInv'
  <2>1. use' \in [Caller -> UseRecord]
    <3>1. PICK s \in Scope \union {NoScope}, t \in Tool :
            use' = [use EXCEPT ![c] = [st |-> "loading", scope |-> s, tool |-> t]]
      BY <1>3 DEF UseTool!Use
    <3>2. [use EXCEPT ![c] = [st |-> "loading", scope |-> s, tool |-> t]]
            \in [Caller -> UseRecord]
      BY <1>0, CallEnds
    <3> QED
      BY <3>1, <3>2
  <2> QED
    BY <1>1, <1>3, <2>1 DEF UseTool!Use, UseTool!ghost
<1>4. ASSUME NEW c \in Caller,
             UseTool!Unavailable(c) \/ UseTool!Refused(c)
      PROVE  UseToolInv'
  <2>1. UNCHANGED <<attempts, failures, since>> /\ use' = [use EXCEPT ![c] = UseTool!Idle]
    BY <1>4 DEF UseTool!Unavailable, UseTool!Refused, UseTool!EndCall, UseTool!ghost
  <2> QED
    BY <1>0, <1>1, <2>1, CallEnds
<1>5. ASSUME NEW c \in Caller, UseTool!Invalid(c) PROVE UseToolInv'
  <2>1. {"downstream"} \in SUBSET UseTool!Phase /\ "validation" \notin {"downstream"}
    BY <1>0
  <2> QED
    BY <1>0, <1>5, <2>1, FailuresCounted DEF UseTool!Invalid
<1>6. ASSUME NEW c \in Caller, UseTool!ParamsRejected(c) PROVE UseToolInv'
  <2>1. {} \in SUBSET UseTool!Phase /\ "downstream" \notin {}
    OBVIOUS
  <2> QED
    BY <1>0, <1>6, <2>1, FailuresCounted DEF UseTool!ParamsRejected
<1>7. ASSUME NEW c \in Caller,
             UseTool!DryRun(c) \/ UseTool!Answered(c) \/ UseTool!CallFails(c)
      PROVE  UseToolInv'
  <2>1. use' = [use EXCEPT ![c] = UseTool!Idle]
    BY <1>7 DEF UseTool!DryRun, UseTool!Answered, UseTool!CallFails, UseTool!EndCall
  <2>2. use' \in [Caller -> UseRecord]
    BY <1>0, <2>1, CallEnds
  <2>3. CASE UseTool!DryRun(c)
    <3>1. UseTool!ForgetFailures(c, UseTool!Phase) /\ UseTool!Phase \in SUBSET UseTool!Phase
      BY <2>3 DEF UseTool!DryRun
    <3> QED
      BY <2>1, <2>2, <3>1, FailuresForgotten
  <2>4. CASE UseTool!Answered(c) \/ UseTool!CallFails(c)
    <3>1. UseTool!ForgetFailures(c, {"downstream"})
      BY <2>4 DEF UseTool!Answered, UseTool!CallFails
    <3>2. {"downstream"} \in SUBSET UseTool!Phase
      BY <1>0
    <3> QED
      BY <2>1, <2>2, <3>1, <3>2, FailuresForgotten
  <2> QED
    BY <1>7, <2>3, <2>4
<1>8. ASSUME NEW c \in Caller, UseTool!Dispatch(c) PROVE UseToolInv'
  <2>1. {"validation"} \in SUBSET UseTool!Phase
    BY <1>0
  <2>2. use' \in [Caller -> UseRecord]
    BY <1>0, <1>8, CallEnds DEF UseTool!Dispatch
  <2> QED
    BY <1>8, <2>1, <2>2, FailuresForgotten DEF UseTool!Dispatch
<1>9. ASSUME NEW c \in Caller, UseTool!Materialized(c) PROVE UseToolInv'
  <2> DEFINE K == UseTool!Own(c, {"downstream"})
  <2>1. /\ UNCHANGED <<attempts, since>> /\ use' = [use EXCEPT ![c] = UseTool!Idle]
        /\ failures' = [x \in UseTool!Key |-> IF x \in K THEN 0 ELSE failures[x]]
    BY <1>9 DEF UseTool!Materialized, UseTool!EndCall
  <2> HIDE DEF K
  <2>2. failures \in [UseTool!Key -> 0..MaxFailures] /\ 0 \in 0..MaxFailures
    BY <1>0, ServerAssumption DEF UseTool!TypeOK
  <2>3. failures' \in [UseTool!Key -> 0..MaxFailures]
    BY <2>1, <2>2
  <2>4. use' \in [Caller -> UseRecord]
    BY <1>0, <2>1, CallEnds
  <2>5. UseTool!TypeOK'
    BY <1>0, <2>1, <2>3, <2>4 DEF UseTool!TypeOK, UseRecord
  <2>6. \A x \in UseTool!Key : failures'[x] = 0 \/ failures'[x] = failures[x]
    BY <2>1
  <2>7. UseTool!RecentCountsSurvive'
    BY <2>1, <2>6 DEF UseToolInv, UseTool!RecentCountsSurvive
  <2> QED
    BY <2>1, <2>5, <2>7 DEF UseToolInv
<1> QED
  BY <1>2, <1>3, <1>4, <1>5, <1>6, <1>7, <1>8, <1>9 DEF UseToolMove, UseTool!Next

-----------------------------------------------------------------------------
(* The result cache.                                                       *)

(* Ids are given in the order of time.                                     *)
InAge(held, n, t) ==
  /\ \A e \in held : e.id <= n /\ e.at <= t
  /\ \A e, f \in held : /\ e.id <= f.id => e.at <= f.at
                        /\ e.id = f.id => e = f

MoreHint == [kind : {"more"}, id : Nat, at : Nat, offset : Nat, read : Nat]

(* What a caller was told, with n results cached so far, the last of them  *)
(* held, at a time t: the entry it was told of is there, for as long as    *)
(* neither its age nor newer results put an end to it.                     *)
Hinted(h, held, n, t) ==
  /\ h.kind = "more" =>
       /\ h \in MoreHint /\ h.id <= n /\ h.at <= t /\ h.offset = h.read
       /\ t - h.at <= ResultCacheTtl /\ n - h.id < ResultCacheMaxSize
            => [id |-> h.id, at |-> h.at] \in held
  /\ h.kind = "whole" => h.read = TotalChars

ResultInv ==
  /\ ResultCache!TypeOK /\ IsFiniteSet(cache)
  /\ InAge(cache, made, clock)
  /\ DOMAIN hint = Caller
  /\ \A c \in Caller : Hinted(hint[c], cache, made, clock)

LEMMA ResultCounts ==
  \A S : ResultCache!Cardinality(S) = Cardinality(S)
BY Zenon DEF ResultCache!Cardinality, Cardinality

LEMMA LongResultsAreThere == ResultInv => ResultCache!LongResultsCanBeRead
<1> SUFFICES ASSUME ResultInv, NEW c \in Caller
             PROVE  /\ hint[c].kind = "more" /\ clock - hint[c].at <= ResultCacheTtl
                         /\ made - hint[c].id < ResultCacheMaxSize
                         => \E e \in cache : e.id = hint[c].id
                    /\ hint[c].kind = "whole" => hint[c].read = TotalChars
  BY DEF ResultCache!LongResultsCanBeRead
<1>1. Hinted(hint[c], cache, made, clock)
  BY DEF ResultInv
<1>2. [id |-> hint[c].id, at |-> hint[c].at].id = hint[c].id
  OBVIOUS
<1> QED
  BY <1>1, <1>2 DEF Hinted

LEMMA ResultsStart == ResultCache!Init => ResultInv
<1> SUFFICES ASSUME ResultCache!Init PROVE ResultInv
  OBVIOUS
<1>1. /\ cache = {} /\ IsFiniteSet(cache) /\ Cardinality(cache) = 0
  BY FS_EmptySet DEF ResultCache!Init
<1>2. ResultCache!TypeOK
  BY <1>1, ResultCounts, ServerAssumption DEF ResultCache!Init, ResultCache!TypeOK
<1>3. \A c \in Caller : hint[c].kind = "none"
  BY DEF ResultCache!Init, ResultCache!Nothing
<1> QED
  BY <1>1, <1>2, <1>3 DEF ResultCache!Init, ResultInv, InAge, Hinted

(* As time passes, entries stay and no more of them are due.               *)
LEMMA ResultsAge ==
  ASSUME ResultInv, UNCHANGED results, clock' \in 0..MaxTime, clock <= clock'
  PROVE  ResultInv'
<1>0. clock \in Nat /\ clock' \in Nat /\ \A e \in cache : e.at \in Nat
  BY ServerAssumption DEF ResultInv, ResultCache!TypeOK
<1>1. ResultCache!TypeOK'
  BY DEF ResultInv, ResultCache!TypeOK, results
<1>2. InAge(cache, made, clock')
  BY <1>0 DEF ResultInv, InAge
<1>3. ASSUME NEW c \in Caller PROVE Hinted(hint[c], cache, made, clock')
  <2>1. Hinted(hint[c], cache, made, clock)
    BY DEF ResultInv
  <2>2. CASE hint[c].kind = "more"
    <3>1. hint[c] \in MoreHint
      BY <2>1, <2>2 DEF Hinted
    <3>2. hint[c].at \in Nat
      BY <3>1 DEF MoreHint
    <3> QED
      BY <1>0, <2>1, <2>2, <3>1, <3>2, ServerAssumption DEF Hinted
  <2> QED
    BY <2>1, <2>2 DEF Hinted
<1> QED
  BY <1>1, <1>2, <1>3 DEF ResultInv, results

(* Of some results, the one with the lowest id is the oldest.              *)
LEMMA LowestId ==
  ASSUME NEW L, L # {}, \A e \in L : e.id \in Nat
  PROVE  \E e \in L : \A f \in L : e.id <= f.id
<1> DEFINE T == {n \in Nat : \A e \in L : e.id >= n}
<1> SUFFICES ASSUME \A e \in L : \E f \in L : ~(e.id <= f.id) PROVE FALSE
  OBVIOUS
<1>1. 0 \in T
  OBVIOUS
<1>2. \A n \in Nat : n \in T => n + 1 \in T
  <2> SUFFICES ASSUME NEW n \in T, NEW e \in L PROVE e.id >= n + 1
    OBVIOUS
  <2>1. PICK f \in L : ~(e.id <= f.id)
    OBVIOUS
  <2>2. f.id >= n /\ e.id \in Nat /\ f.id \in Nat
    OBVIOUS
  <2> QED
    BY <2>1, <2>2
<1> HIDE DEF T
<1>3. Nat \subseteq T
  BY <1>1, <1>2, SetInduction
<1>4. PICK e \in L : TRUE
  OBVIOUS
<1>5. e.id + 1 \in T
  BY <1>3
<1> QED
  BY <1>5 DEF T

(* When the cache is full, no entry within reach of its size has the       *)
(* lowest id.                                                              *)
LEMMA OldIsOutOfReach ==
  ASSUME NEW L, NEW n \in Nat, NEW o \in L, IsFiniteSet(L), InAge(L, n, clock),
         \A e \in L : e.id \in Nat, \A e \in L : o.id <= e.id,
         Cardinality(L) >= ResultCacheMaxSize
  PROVE  n + 1 - o.id >= ResultCacheMaxSize
<1> DEFINE f == [e \in L |-> e.id]
           I == o.id..n
<1>1. o.id \in Nat /\ o.id <= n
  BY DEF InAge
<1>2. f \in Injection(L, I)
  <2>1. f \in [L -> I]
    BY <1>1 DEF InAge
  <2>2. \A a, b \in L : f[a] = f[b] => a = b
    BY DEF InAge
  <2> HIDE DEF f, I
  <2> QED
    BY <2>1, <2>2 DEF Injection, IsInjective
<1>3. IsFiniteSet(I) /\ Cardinality(I) = n - o.id + 1
  BY <1>1, FS_Interval
<1> HIDE DEF f, I
<1>4. Cardinality(L) <= Cardinality(I)
  BY <1>2, <1>3, FS_Injection
<1>5. Cardinality(L) \in Nat
  BY FS_CardinalityType
<1> QED
  BY <1>1, <1>3, <1>4, <1>5, ServerAssumption

(* What room is made for a new result: what is given up has expired, or is *)
(* out of reach of the size.                                               *)
LEMMA ResultIsCached ==
  ASSUME ResultInv, made + 1 <= MaxResults
  PROVE  LET held == ResultCache!CacheResult(made + 1)
             entry == [id |-> made + 1, at |-> clock]
         IN /\ entry \in held /\ held \subseteq cache \union {entry}
            /\ IsFiniteSet(held) /\ Cardinality(held) <= ResultCacheMaxSize
            /\ \A e \in cache : \/ e \in held
                                \/ clock - e.at > ResultCacheTtl
                                \/ made + 1 - e.id >= ResultCacheMaxSize
<1> DEFINE L == {e \in cache : ~ResultCache!Expired(e)}
           Oldest(o) == \A f \in L : o.at < f.at \/ (o.at = f.at /\ o.id <= f.id)
           o == CHOOSE e \in L : Oldest(e)
           room == IF Cardinality(L) >= ResultCacheMaxSize THEN L \ {o} ELSE L
           entry == [id |-> made + 1, at |-> clock]
<1>0. /\ made \in Nat /\ clock \in Nat /\ ResultCacheMaxSize \in Nat \ {0}
      /\ \A e \in cache : e.id \in Nat /\ e.at \in Nat
      /\ IsFiniteSet(cache) /\ Cardinality(cache) <= ResultCacheMaxSize
      /\ InAge(cache, made, clock)
  BY ServerAssumption, ResultCounts DEF ResultInv, ResultCache!TypeOK
<1>1. L \subseteq cache /\ \A e \in cache : e \in L \/ clock - e.at > ResultCacheTtl
  BY DEF ResultCache!Expired
<1>2. ResultCache!CacheResult(made + 1) = room \union {entry}
  BY ResultCounts DEF ResultCache!CacheResult
<1> HIDE DEF L
<1>3. /\ IsFiniteSet(L) /\ Cardinality(L) <= ResultCacheMaxSize /\ Cardinality(L) \in Nat
  <2>1. IsFiniteSet(L) /\ Cardinality(L) <= Cardinality(cache)
    BY <1>0, <1>1, FS_Subset
  <2>2. Cardinality(L) \in Nat /\ Cardinality(cache) \in Nat
    BY <1>0, <2>1, FS_CardinalityType
  <2> QED
    BY <1>0, <2>1, <2>2
<1>4. InAge(L, made, clock) /\ \A e \in L : e.id \in Nat /\ e.at \in Nat
  BY <1>0, <1>1 DEF InAge
<1>5. ASSUME Cardinality(L) >= ResultCacheMaxSize
      PROVE  o \in L /\ made + 1 - o.id >= ResultCacheMaxSize
  <2>1. L # {}
    BY <1>0, <1>5, FS_EmptySet
  <2>2. PICK e \in L : \A f \in L : e.id <= f.id
    BY <1>4, <2>1, LowestId
  <2>3. Oldest(e)
    <3> SUFFICES ASSUME NEW f \in L PROVE e.at < f.at \/ (e.at = f.at /\ e.id <= f.id)
      OBVIOUS
    <3>1. e.id <= f.id /\ e.at \in Nat /\ f.at \in Nat
      BY <1>4, <2>2
    <3>2. e.at <= f.at
      BY <1>4, <3>1 DEF InAge
    <3> QED
      BY <3>1, <3>2
  <2>4. o \in L /\ Oldest(o)
    BY <2>3
  <2>5. \A f \in L : o.id <= f.id
    <3> TAKE f \in L
    <3>1. o.at < f.at \/ (o.at = f.at /\ o.id <= f.id)
      BY <2>4
    <3>2. o \in L /\ f \in L
      BY <2>4
    <3> HIDE DEF o
    <3>3. f.id <= o.id => f.at <= o.at
      BY <1>4, <3>2 DEF InAge
    <3> QED
      BY <1>4, <3>1, <3>2, <3>3
  <2> HIDE DEF o, Oldest
  <2> QED
    BY <1>0, <1>3, <1>4, <1>5, <2>4, <2>5, OldIsOutOfReach
<1> HIDE DEF o, Oldest
<1>6. /\ room \subseteq L /\ IsFiniteSet(room) /\ Cardinality(room) \in Nat
      /\ Cardinality(room) + 1 <= ResultCacheMaxSize
      /\ \A e \in L : e \in room \/ made + 1 - e.id >= ResultCacheMaxSize
  <2>1. CASE Cardinality(L) >= ResultCacheMaxSize
    <3>1. room = L \ {o} /\ o \in L
      BY <1>5, <2>1
    <3>2. IsFiniteSet(L \ {o}) /\ Cardinality(L \ {o}) = Cardinality(L) - 1
      BY <1>3, <3>1, FS_RemoveElement
    <3>3. Cardinality(L \ {o}) \in Nat
      BY <3>2, FS_CardinalityType
    <3> QED
      BY <1>0, <1>3, <1>5, <2>1, <3>1, <3>2, <3>3
  <2>2. CASE ~(Cardinality(L) >= ResultCacheMaxSize)
    BY <1>0, <1>3, <2>2
  <2> QED
    BY <2>1, <2>2
<1> HIDE DEF room, entry
<1>7. /\ IsFiniteSet(room \union {entry})
      /\ Cardinality(room \union {entry}) <= ResultCacheMaxSize
  <2>1. /\ IsFiniteSet(room \union {entry})
        /\ Cardinality(room \union {entry}) = IF entry \in room THEN Cardinality(room)
                                              ELSE Cardinality(room) + 1
    BY <1>6, FS_AddElement
  <2> QED
    BY <1>0, <1>6, <2>1
<1>8. \A e \in cache : \/ e \in room \union {entry}
                       \/ clock - e.at > ResultCacheTtl
                       \/ made + 1 - e.id >= ResultCacheMaxSize
  BY <1>1, <1>6
<1>9. entry \in room \union {entry} /\ room \union {entry} \subseteq cache \union {entry}
  BY <1>1, <1>6
<1> QED
  BY <1>2, <1>7, <1>8, <1>9 DEF entry

LEMMA HintFields ==
  ASSUME NEW h, h \in MoreHint
  PROVE  /\ h.id \in Nat /\ h.at \in Nat /\ h.offset \in Nat /\ h.read \in Nat
         /\ h.kind = "more"
BY DEF MoreHint

LEMMA HintReadOn ==
  ASSUME NEW h, h \in MoreHint, NEW n \in Nat
  PROVE  LET r == [h EXCEPT !.offset = n, !.read = n]
         IN r \in MoreHint /\ r.id = h.id /\ r.at = h.at /\ r.offset = r.read
<1> DEFINE r == [h EXCEPT !.offset = n, !.read = n]
<1>1. h.id \in Nat /\ h.at \in Nat /\ h.offset \in Nat /\ h.read \in Nat /\ h.kind = "more"
  BY HintFields
<1>2. r \in MoreHint
  BY <1>1 DEF MoreHint
<1>3. r.id = h.id /\ r.at = h.at /\ r.offset = r.read
  BY DEF MoreHint
<1> QED
  BY <1>2, <1>3

LEMMA ResultTruncated ==
  ASSUME ResultInv, NEW c \in Caller, ResultCache!Truncated(c)
  PROVE  ResultInv'
<1> DEFINE held == ResultCache!CacheResult(made + 1)
           entry == [id |-> made + 1, at |-> clock]
           n == made + 1
<1>0. /\ made \in Nat /\ clock \in Nat /\ clock \in 0..MaxTime /\ n \in 1..MaxResults
      /\ \A e \in cache : e \in [id : 1..MaxResults, at : 0..MaxTime]
      /\ \A e \in cache : e.id \in Nat /\ e.at \in Nat
      /\ InAge(cache, made, clock) /\ DOMAIN hint = Caller
      /\ ResultCacheMaxSize \in Nat /\ ResultCacheTtl \in Nat /\ MaxTime \in Nat
  BY ServerAssumption DEF ResultInv, ResultCache!TypeOK, ResultCache!Truncated
<1>1. /\ cache' = held /\ made' = n /\ clock' = clock
      /\ hint' = [hint EXCEPT ![c] = [kind |-> "more", id |-> n, at |-> clock,
                                      offset |-> 0, read |-> 0]]
  BY DEF ResultCache!Truncated
<1>2. /\ entry \in held /\ held \subseteq cache \union {entry}
      /\ IsFiniteSet(held) /\ Cardinality(held) <= ResultCacheMaxSize
      /\ \A e \in cache : \/ e \in held
                          \/ clock - e.at > ResultCacheTtl
                          \/ n - e.id >= ResultCacheMaxSize
  BY <1>0, ResultIsCached
<1> HIDE DEF held
<1>3. entry \in [id : 1..MaxResults, at : 0..MaxTime] /\ entry.id = n /\ entry.at = clock
  BY <1>0
<1>4. InAge(held, n, clock)
  <2>1. \A e \in held : e = entry \/ e \in cache
    BY <1>2
  <2>2. \A e \in cache : e.id <= made /\ e.at <= clock /\ e.id \in Nat /\ e.at \in Nat
    BY <1>0 DEF InAge
  <2>3. \A e, f \in cache : (e.id <= f.id => e.at <= f.at) /\ (e.id = f.id => e = f)
    BY <1>0 DEF InAge
  <2> HIDE DEF entry
  <2>4. \A e \in held : e.id <= n /\ e.at <= clock
    BY <1>0, <1>3, <2>1, <2>2
  <2>5. ASSUME NEW e \in held, NEW f \in held
        PROVE  (e.id <= f.id => e.at <= f.at) /\ (e.id = f.id => e = f)
    <3>1. CASE e = entry /\ f = entry
      BY <1>0, <1>3, <3>1
    <3>2. CASE e = entry /\ f \in cache
      BY <1>0, <1>3, <2>2, <3>2
    <3>3. CASE e \in cache /\ f = entry
      BY <1>0, <1>3, <2>2, <3>3
    <3>4. CASE e \in cache /\ f \in cache
      BY <2>3, <3>4
    <3> QED
      BY <2>1, <3>1, <3>2, <3>3, <3>4
  <2> QED
    BY <2>4, <2>5 DEF InAge
<1>5. ResultCache!TypeOK'
  <2>1. held \subseteq [id : 1..MaxResults, at : 0..MaxTime]
    BY <1>0, <1>2, <1>3
  <2> QED
    BY <1>0, <1>1, <1>2, <2>1, ResultCounts DEF ResultCache!TypeOK
<1>6. ASSUME NEW d \in Caller PROVE Hinted(hint'[d], held, n, clock)
  <2>1. CASE d = c
    <3> DEFINE h == [kind |-> "more", id |-> n, at |-> clock, offset |-> 0, read |-> 0]
    <3>1. hint'[d] = h
      BY <1>0, <1>1, <2>1
    <3>2. h \in MoreHint /\ h.kind = "more" /\ [id |-> h.id, at |-> h.at] = entry
      BY <1>0 DEF MoreHint
    <3> QED
      BY <1>0, <1>2, <3>1, <3>2 DEF Hinted
  <2>2. CASE d # c
    <3>1. hint'[d] = hint[d] /\ Hinted(hint[d], cache, made, clock)
      BY <1>0, <1>1, <2>2 DEF ResultInv
    <3>2. CASE hint[d].kind = "more"
      <4>1. hint[d] \in MoreHint /\ hint[d].id <= made /\ hint[d].at <= clock
            /\ hint[d].offset = hint[d].read
        BY <3>1, <3>2 DEF Hinted
      <4>2. hint[d].id \in Nat /\ hint[d].at \in Nat
        BY <4>1, HintFields
      <4>4. hint[d].id <= n
        BY <1>0, <4>1, <4>2
      <4> DEFINE e == [id |-> hint[d].id, at |-> hint[d].at]
      <4>3. ASSUME clock - hint[d].at <= ResultCacheTtl, n - hint[d].id < ResultCacheMaxSize
            PROVE  e \in held
        <5>1. made - hint[d].id < ResultCacheMaxSize
          BY <1>0, <4>2, <4>3
        <5>2. e \in cache /\ e.id = hint[d].id /\ e.at = hint[d].at
          BY <3>1, <3>2, <4>3, <5>1 DEF Hinted
        <5> HIDE DEF e
        <5> QED
          BY <1>0, <1>2, <4>2, <4>3, <5>2
      <4> QED
        BY <3>1, <3>2, <4>1, <4>2, <4>3, <4>4 DEF Hinted
    <3> QED
      BY <3>1, <3>2 DEF Hinted
  <2> QED
    BY <2>1, <2>2
<1>7. DOMAIN hint' = Caller
  BY <1>0, <1>1
<1> QED
  BY <1>1, <1>2, <1>4, <1>5, <1>6, <1>7 DEF ResultInv

LEMMA ResultContinued ==
  ASSUME ResultInv, NEW c \in Caller, ResultCache!Continue(c)
  PROVE  ResultInv'
<1> DEFINE told == hint[c]
           found == {e \in cache : e.id = told.id /\ ~ResultCache!Expired(e)}
<1>0. /\ made \in Nat /\ clock \in Nat /\ DOMAIN hint = Caller
      /\ \A e \in cache : e.id \in Nat /\ e.at \in Nat
      /\ ResultCacheMaxSize \in Nat /\ TotalChars \in Nat /\ Limit \subseteq Nat
  BY ServerAssumption DEF ResultInv, ResultCache!TypeOK
<1>1. /\ told.kind = "more" /\ told \in MoreHint /\ told.id \in Nat
      /\ Hinted(told, cache, made, clock) /\ UNCHANGED <<clock, made>>
  BY HintFields DEF ResultInv, ResultCache!Continue, Hinted
<1>2. CASE found = {}
  <2>1. /\ cache' = {e \in cache : e.id # told.id}
        /\ hint' = [hint EXCEPT ![c] = ResultCache!Nothing]
    BY <1>2 DEF ResultCache!Continue
  <2>2. cache' \subseteq cache /\ \A e \in cache : e \in cache' \/ clock - e.at > ResultCacheTtl
    BY <1>2, <2>1 DEF ResultCache!Expired
  <2>3. IsFiniteSet(cache') /\ Cardinality(cache') <= Cardinality(cache)
    BY <2>2, FS_Subset DEF ResultInv
  <2>4. ResultCache!TypeOK'
    <3>1. Cardinality(cache) <= ResultCacheMaxSize
      BY ResultCounts DEF ResultInv, ResultCache!TypeOK
    <3>2. Cardinality(cache) \in Nat /\ Cardinality(cache') \in Nat
      BY <2>3, FS_CardinalityType DEF ResultInv
    <3> HIDE DEF found
    <3>3. Cardinality(cache') <= ResultCacheMaxSize
      BY <1>0, <2>3, <3>1, <3>2
    <3> QED
      BY <1>1, <2>2, <3>3, ResultCounts DEF ResultInv, ResultCache!TypeOK
  <2>5. InAge(cache', made, clock)
    BY <2>2 DEF ResultInv, InAge
  <2>6. ASSUME NEW d \in Caller PROVE Hinted(hint'[d], cache', made, clock)
    <3>1. CASE d = c
      BY <1>0, <2>1, <3>1 DEF Hinted, ResultCache!Nothing
    <3>2. CASE d # c
      <4>1. hint'[d] = hint[d] /\ Hinted(hint[d], cache, made, clock)
        BY <1>0, <2>1, <3>2 DEF ResultInv
      <4> DEFINE e == [id |-> hint[d].id, at |-> hint[d].at]
      <4>2. ASSUME hint[d].kind = "more", clock - hint[d].at <= ResultCacheTtl,
                   made - hint[d].id < ResultCacheMaxSize
            PROVE  e \in cache'
        <5>1. e \in cache /\ e.at = hint[d].at
          BY <4>1, <4>2 DEF Hinted
        <5>2. hint[d].at \in Nat
          BY <4>1, <4>2, HintFields DEF Hinted
        <5> HIDE DEF e
        <5> QED
          BY <1>0, <2>2, <4>2, <5>1, <5>2, ServerAssumption
      <4> QED
        BY <4>1, <4>2 DEF Hinted
    <3> QED
      BY <3>1, <3>2
  <2>7. DOMAIN hint' = Caller
    BY <1>0, <2>1
  <2> QED
    BY <1>1, <2>3, <2>4, <2>5, <2>6, <2>7 DEF ResultInv
<1>3. CASE found # {}
  <2>1. cache' = cache
    BY <1>3 DEF ResultCache!Continue
  <2>2. PICK limit \in Limit :
          LET end  == ResultCache!ChunkEnd(told.offset, limit)
              read == IF told.offset = told.read THEN end ELSE told.read
          IN hint' = [hint EXCEPT ![c] =
                        IF ResultCache!HasMore(end)
                          THEN [told EXCEPT !.offset = end, !.read = read]
                          ELSE [kind |-> "whole", read |-> read]]
    BY <1>3, Zenon DEF ResultCache!Continue
  <2> DEFINE end == ResultCache!ChunkEnd(told.offset, limit)
  <2>3. told.offset = told.read /\ told.offset \in Nat
    BY <1>1, HintFields DEF Hinted
  <2>4. end \in Nat /\ (~ResultCache!HasMore(end) => end = TotalChars)
    BY <1>0, <2>3 DEF ResultCache!ChunkEnd, ResultCache!HasMore
  <2>5. hint' = [hint EXCEPT ![c] = IF ResultCache!HasMore(end)
                                      THEN [told EXCEPT !.offset = end, !.read = end]
                                      ELSE [kind |-> "whole", read |-> end]]
    BY <2>2, <2>3
  <2> HIDE DEF end
  <2>6. ASSUME NEW d \in Caller PROVE Hinted(hint'[d], cache, made, clock)
    <3>1. CASE d # c
      BY <1>0, <2>5, <3>1 DEF ResultInv
    <3>2. CASE d = c /\ ResultCache!HasMore(end)
      <4> DEFINE h == [told EXCEPT !.offset = end, !.read = end]
      <4>1. hint'[d] = h
        BY <1>0, <2>5, <3>2
      <4>2. h \in MoreHint /\ h.id = told.id /\ h.at = told.at /\ h.offset = h.read
        BY <1>1, <2>4, HintReadOn
      <4>3. h.kind = "more"
        BY <4>2, HintFields
      <4> HIDE DEF h
      <4> QED
        BY <1>1, <4>1, <4>2, <4>3 DEF Hinted
    <3>3. CASE d = c /\ ~ResultCache!HasMore(end)
      BY <1>0, <2>4, <2>5, <3>3 DEF Hinted
    <3> QED
      BY <3>1, <3>2, <3>3
  <2>7. DOMAIN hint' = Caller
    BY <1>0, <2>5
  <2> QED
    BY <1>1, <2>1, <2>6, <2>7 DEF ResultInv, ResultCache!TypeOK
<1> QED
  BY <1>2, <1>3

LEMMA ResultsStay == ASSUME ResultInv, ResultMove PROVE ResultInv'
<1>0. clock \in 0..MaxTime /\ MaxTime \in Nat
  BY ServerAssumption DEF ResultInv, ResultCache!TypeOK
<1>1. CASE UNCHANGED results /\ Time
  BY <1>0, <1>1, ResultsAge DEF Time
<1>2. CASE ResultCache!Tick
  BY <1>0, <1>2, ResultsAge DEF ResultCache!Tick, results
<1> QED
  BY <1>1, <1>2, ResultTruncated, ResultContinued DEF ResultMove, ResultCache!Next

-----------------------------------------------------------------------------
(* The exports.                                                            *)

LEMMA FilesAreNotReplaced ==
  ASSUME ExportMove, out # BulkExport!NoFile, out' # out
  PROVE  \E e \in Export : exp[e].ifExists = "overwrite" /\ out' = temp[e]
<1>1. PICK e \in Export : BulkExport!Publish(e)
  BY DEF ExportMove, exports, BulkExport!Next, BulkExport!Appear, BulkExport!Step,
         BulkExport!Begin, BulkExport!CheckFirst, BulkExport!Open, BulkExport!PageFails,
         BulkExport!Retry, BulkExport!PageArrives, BulkExport!WriteItems,
         BulkExport!Drained, BulkExport!DrainFails, BulkExport!StreamFails,
         BulkExport!Abort, BulkExport!Finish
<1> QED
  BY <1>1 DEF BulkExport!Publish, BulkExport!Link, BulkExport!Rename, BulkExport!TakesPlace

(* What a file holds: all the items of the pages g up to a place, in their *)
(* order.                                                                  *)
UpToPlace(x, page, item) == x[1] <= page \/ (x[1] = page + 1 /\ x[2] <= item)

AtMark(s, g, page, item) ==
  /\ s \in Seq(BulkExport!Item) /\ BulkExport!InOrder(s)
  /\ Len(s) <= page * ItemsPerPage + item
  /\ \A i \in 1..Len(s) : s[i][1] \in g /\ UpToPlace(s[i], page, item)
  /\ \A x \in BulkExport!Item :
       x[1] \in g /\ UpToPlace(x, page, item) => \E j \in 1..Len(s) : s[j] = x

LEMMA Products ==
  ASSUME NEW n \in Nat, NEW p \in Nat, NEW q \in Nat
  PROVE  /\ p * n \in Nat /\ 0 * n = 0 /\ (p + 1) * n = p * n + n
         /\ p <= q => p * n <= q * n
OBVIOUS

LEMMA ItemFields ==
  ASSUME NEW x \in BulkExport!Item
  PROVE  /\ x[1] \in Nat /\ x[2] \in Nat /\ x = <<x[1], x[2]>>
         /\ 0 < x[1] /\ x[1] <= Pages /\ 0 < x[2] /\ x[2] <= ItemsPerPage
<1>1. x[1] \in 1..Pages /\ x[2] \in 1..ItemsPerPage /\ x = <<x[1], x[2]>>
  BY DEF BulkExport!Item
<1>2. Pages \in Nat /\ ItemsPerPage \in Nat
  BY ServerAssumption
<1> QED
  BY <1>1, <1>2

LEMMA NothingIsAtTheStart == AtMark(<< >>, {}, 0, 0)
<1>1. Len(<< >>) <= 0 * ItemsPerPage + 0
  BY ServerAssumption, Products
<1> QED
  BY <1>1 DEF AtMark, BulkExport!InOrder

LEMMA WholePage ==
  ASSUME NEW s, NEW g, NEW page \in Nat, AtMark(s, g, page, ItemsPerPage)
  PROVE  AtMark(s, g, page + 1, 0)
<1>1. ASSUME NEW x \in BulkExport!Item
      PROVE  UpToPlace(x, page, ItemsPerPage) <=> UpToPlace(x, page + 1, 0)
  <2>1. x[1] \in Nat /\ x[2] \in Nat /\ x[2] > 0 /\ x[2] <= ItemsPerPage
    BY ItemFields, ServerAssumption
  <2> QED
    BY <2>1 DEF UpToPlace
<1>2. Len(s) <= (page + 1) * ItemsPerPage + 0
  BY ServerAssumption, Products DEF AtMark
<1>3. \A i \in 1..Len(s) : s[i] \in BulkExport!Item
  BY DEF AtMark
<1> QED
  BY <1>1, <1>2, <1>3 DEF AtMark

(* A page without items leaves the file as complete as it was.             *)
LEMMA BarePage ==
  ASSUME NEW s, NEW page \in Nat, NEW g \in SUBSET (1..page), AtMark(s, g, page, 0)
  PROVE  AtMark(s, g, page + 1, 0)
<1>1. ASSUME NEW x \in BulkExport!Item, x[1] \in g
      PROVE  UpToPlace(x, page, 0) /\ UpToPlace(x, page + 1, 0)
  <2>1. x[1] \in Nat /\ x[1] <= page /\ x[2] \in Nat
    BY <1>1, ItemFields
  <2> QED
    BY <2>1 DEF UpToPlace
<1>2. Len(s) <= (page + 1) * ItemsPerPage + 0
  <2> DEFINE before == page * ItemsPerPage
  <2>1. /\ before \in Nat /\ ItemsPerPage \in Nat
        /\ (page + 1) * ItemsPerPage = before + ItemsPerPage
    BY ServerAssumption, Products
  <2>2. Len(s) <= before + 0 /\ Len(s) \in Nat
    BY DEF AtMark
  <2> HIDE DEF before
  <2> QED
    BY <2>1, <2>2
<1>3. \A i \in 1..Len(s) : s[i] \in BulkExport!Item
  BY DEF AtMark
<1> QED
  BY <1>1, <1>2, <1>3 DEF AtMark

(* None of the items of a page that has just come is in the file.          *)
LEMMA PageBegins ==
  ASSUME NEW s, NEW page \in Nat, NEW g \in SUBSET (1..page), AtMark(s, g, page, 0)
  PROVE  AtMark(s, g \union {page + 1}, page, 0)
<1>1. ASSUME NEW x \in BulkExport!Item, x[1] \in g \union {page + 1}, UpToPlace(x, page, 0)
      PROVE  x[1] \in g
  <2>1. x[1] \in Nat /\ x[2] \in Nat /\ x[2] > 0
    BY ItemFields
  <2>2. x[1] # page + 1
    BY <1>1, <2>1 DEF UpToPlace
  <2> QED
    BY <1>1, <2>2
<1> QED
  BY <1>1 DEF AtMark

LEMMA ItemsWritten ==
  ASSUME NEW s, NEW page \in 0..(Pages - 1), NEW item \in 0..ItemsPerPage,
         NEW k \in (item + 1)..ItemsPerPage, NEW g, page + 1 \in g,
         AtMark(s, g, page, item)
  PROVE  LET t == s \o BulkExport!ItemsOf(page + 1, item + 1, k)
         IN AtMark(t, g, page, k) /\ Len(t) = Len(s) + k - item
<1> DEFINE w == BulkExport!ItemsOf(page + 1, item + 1, k)
           t == s \o w
<1>0. /\ page \in Nat /\ item \in Nat /\ k \in Nat /\ ItemsPerPage \in Nat /\ Pages \in Nat
      /\ s \in Seq(BulkExport!Item) /\ Len(s) \in Nat
  BY ServerAssumption DEF AtMark
<1>1. /\ w \in Seq(BulkExport!Item) /\ Len(w) = k - item
      /\ \A i \in 1..Len(w) : w[i] = <<page + 1, item + i>>
  <2>1. \A i \in 1..(k - item) : <<page + 1, item + i>> \in BulkExport!Item
    BY <1>0 DEF BulkExport!Item
  <2>2. k - (item + 1) + 1 = k - item /\ \A i \in Nat : item + 1 + i - 1 = item + i
    BY <1>0
  <2>3. w = [i \in 1..(k - item) |-> <<page + 1, item + i>>]
    BY <2>2 DEF BulkExport!ItemsOf
  <2>4. k - item \in Nat
    BY <1>0
  <2> HIDE DEF w
  <2>5. w \in [1..(k - item) -> BulkExport!Item]
    BY <2>1, <2>3
  <2>6. w \in Seq(BulkExport!Item)
    BY <2>4, <2>5, SeqDef
  <2>7. Len(w) = k - item
    BY <2>3, <2>4
  <2> QED
    BY <2>3, <2>6, <2>7
<1> HIDE DEF w
<1>2. /\ t \in Seq(BulkExport!Item) /\ Len(t) = Len(s) + Len(w)
      /\ \A i \in 1..Len(t) : t[i] = IF i <= Len(s) THEN s[i] ELSE w[i - Len(s)]
  <2>1. s \in Seq(BulkExport!Item) /\ w \in Seq(BulkExport!Item)
    BY <1>0, <1>1
  <2>2. /\ s \o w \in Seq(BulkExport!Item) /\ Len(s \o w) = Len(s) + Len(w)
        /\ \A i \in 1..(Len(s) + Len(w)) :
             (s \o w)[i] = IF i <= Len(s) THEN s[i] ELSE w[i - Len(s)]
    BY <2>1, ConcatProperties
  <2> QED
    BY <2>2
<1> HIDE DEF t
<1>3. \A i \in 1..Len(t) : \/ i \in 1..Len(s) /\ t[i] = s[i]
                           \/ /\ i > Len(s) /\ i - Len(s) \in 1..Len(w)
                              /\ t[i] = <<page + 1, item + (i - Len(s))>>
  <2> TAKE i \in 1..Len(t)
  <2>0. i \in Nat /\ i >= 1 /\ i <= Len(s) + Len(w) /\ Len(s) \in Nat /\ Len(w) \in Nat
    <3>1. Len(s) \in Nat /\ Len(w) \in Nat
      BY <1>0, <1>1
    <3> QED
      BY <1>2, <3>1
  <2>1. CASE i <= Len(s)
    BY <1>2, <2>0, <2>1
  <2>2. CASE ~(i <= Len(s))
    <3>1. i > Len(s) /\ i - Len(s) \in 1..Len(w)
      BY <2>0, <2>2
    <3>2. t[i] = w[i - Len(s)]
      BY <1>2, <2>2
    <3> QED
      BY <1>1, <3>1, <3>2
  <2> QED
    BY <2>1, <2>2
<1>4. Len(t) <= page * ItemsPerPage + k
  <2> DEFINE before == page * ItemsPerPage
  <2>1. before \in Nat
    BY <1>0, Products
  <2>2. Len(s) <= before + item
    BY DEF AtMark
  <2> HIDE DEF before
  <2>3. Len(t) = Len(s) + (k - item)
    BY <1>1, <1>2
  <2>4. Len(t) <= before + k
    BY <1>0, <2>1, <2>2, <2>3
  <2> QED
    BY <2>4 DEF before
<1>5. BulkExport!InOrder(t)
  <2>0. DOMAIN t = 1..Len(t) /\ DOMAIN s = 1..Len(s)
    BY <1>0, <1>2
  <2> SUFFICES ASSUME NEW i \in 1..Len(t), NEW j \in 1..Len(t), i < j
               PROVE  BulkExport!Precedes(t[i], t[j])
    BY <2>0 DEF BulkExport!InOrder
  <2>1. CASE i \in 1..Len(s) /\ t[i] = s[i] /\ j \in 1..Len(s) /\ t[j] = s[j]
    BY <2>0, <2>1 DEF AtMark, BulkExport!InOrder
  <2>2. CASE /\ i \in 1..Len(s) /\ t[i] = s[i]
             /\ j > Len(s) /\ t[j] = <<page + 1, item + (j - Len(s))>>
    <3>1. UpToPlace(s[i], page, item) /\ s[i] \in BulkExport!Item
      BY <1>0, <2>2 DEF AtMark
    <3>2. s[i][1] \in Nat /\ s[i][2] \in Nat
      BY <1>0, <3>1, ItemFields
    <3>3. t[j][1] = page + 1 /\ t[j][2] = item + (j - Len(s))
      BY <2>2
    <3>4. s[i][1] < page + 1 \/ (s[i][1] = page + 1 /\ s[i][2] < item + (j - Len(s)))
      <4>0. Len(s) \in Nat /\ item \in Nat /\ j \in Int /\ j > Len(s)
        <5>1. Len(s) \in Nat /\ item \in Nat /\ Len(t) \in Nat
          BY <1>0, <1>2
        <5>2. j \in Int
          BY <5>1
        <5>3. j > Len(s)
          BY <2>2
        <5> QED
          BY <5>1, <5>2, <5>3
      <4>1. j - Len(s) \in Int /\ j - Len(s) > 0 /\ item + (j - Len(s)) > item
        BY <4>0
      <4>2. CASE s[i][1] <= page
        BY <1>0, <3>2, <4>2
      <4>3. CASE s[i][1] = page + 1 /\ s[i][2] <= item
        BY <1>0, <3>2, <4>1, <4>3
      <4> QED
        BY <3>1, <4>2, <4>3 DEF UpToPlace
    <3> QED
      BY <2>2, <3>3, <3>4 DEF BulkExport!Precedes
  <2>3. CASE /\ t[i] = <<page + 1, item + (i - Len(s))>>
             /\ t[j] = <<page + 1, item + (j - Len(s))>>
    BY <1>0, <2>3 DEF BulkExport!Precedes
  <2>4. /\ \/ i \in 1..Len(s) /\ t[i] = s[i]
           \/ i > Len(s) /\ t[i] = <<page + 1, item + (i - Len(s))>>
        /\ \/ j \in 1..Len(s) /\ t[j] = s[j]
           \/ j > Len(s) /\ t[j] = <<page + 1, item + (j - Len(s))>>
    BY <1>3
  <2>5. ~(i > Len(s) /\ j \in 1..Len(s))
    BY <1>0
  <2> QED
    BY <2>1, <2>2, <2>3, <2>4, <2>5
<1>6. ASSUME NEW i \in 1..Len(t) PROVE t[i][1] \in g /\ UpToPlace(t[i], page, k)
  <2>1. CASE i \in 1..Len(s) /\ t[i] = s[i]
    <3>1. s[i][1] \in g /\ UpToPlace(s[i], page, item) /\ s[i] \in BulkExport!Item
      BY <1>0, <2>1 DEF AtMark
    <3>2. s[i][1] \in Nat /\ s[i][2] \in Nat
      BY <1>0, <3>1, ItemFields
    <3> QED
      BY <1>0, <2>1, <3>1, <3>2 DEF UpToPlace
  <2>2. CASE i - Len(s) \in 1..Len(w) /\ t[i] = <<page + 1, item + (i - Len(s))>>
    BY <1>0, <1>1, <2>2 DEF UpToPlace
  <2> QED
    BY <1>3, <2>1, <2>2
<1>7. ASSUME NEW x \in BulkExport!Item, x[1] \in g, UpToPlace(x, page, k)
      PROVE  \E j \in 1..Len(t) : t[j] = x
  <2>0. x[1] \in Nat /\ x[2] \in Nat /\ x = <<x[1], x[2]>>
    BY <1>0, ItemFields
  <2>1. CASE UpToPlace(x, page, item)
    <3>1. PICK j \in 1..Len(s) : s[j] = x
      BY <1>7, <2>1 DEF AtMark
    <3>2. j \in 1..Len(t) /\ t[j] = s[j]
      BY <1>0, <1>1, <1>2
    <3> QED
      BY <3>1, <3>2
  <2>2. CASE ~UpToPlace(x, page, item)
    <3>1. x[1] = page + 1 /\ x[2] > item /\ x[2] <= k
      BY <1>0, <1>7, <2>0, <2>2 DEF UpToPlace
    <3> DEFINE j == Len(s) + (x[2] - item)
    <3>0. \A n \in Nat : n > item /\ n <= k =>
            /\ n - item \in 1..(k - item) /\ item + (n - item) = n
            /\ Len(s) + (n - item) \in 1..(Len(s) + (k - item))
            /\ ~(Len(s) + (n - item) <= Len(s)) /\ (Len(s) + (n - item)) - Len(s) = n - item
      BY <1>0
    <3>2. /\ j \in 1..Len(t) /\ ~(j <= Len(s)) /\ j - Len(s) = x[2] - item
          /\ x[2] - item \in 1..Len(w) /\ item + (x[2] - item) = x[2]
      BY <1>1, <1>2, <2>0, <3>0, <3>1
    <3>3. t[j] = w[x[2] - item]
      BY <1>2, <3>2
    <3>4. w[x[2] - item] = <<page + 1, x[2]>>
      BY <1>1, <3>2
    <3> HIDE DEF j
    <3> QED
      BY <2>0, <3>1, <3>2, <3>3, <3>4
  <2> QED
    BY <2>1, <2>2
<1>8. AtMark(t, g, page, k)
  BY <1>2, <1>4, <1>5, <1>6, <1>7 DEF AtMark
<1>9. Len(t) = Len(s) + k - item
  BY <1>0, <1>1, <1>2
<1> QED
  BY <1>8, <1>9 DEF t, w

ExportRecord ==
  [st : {"idle", "checking", "rechecking", "calling", "waiting", "writing", "draining",
         "ending", "publishing", "done"},
   ifExists : {"error", "overwrite"}, maxPages : 1..MaxPages, page : 0..Pages,
   attempt : 0..MaxRetries, item : 0..ItemsPerPage, lines : 0..(Pages * ItemsPerPage),
   more : BOOLEAN, err : BOOLEAN, natural : BOOLEAN]

GivenRecord == [pages : SUBSET (1..Pages), more : BOOLEAN]

Unopened  == {"idle", "checking", "rechecking"}
Fetching  == {"calling", "waiting"}
Filling   == {"writing", "draining"}
Following == Fetching \union Filling

(* What an export that is done has answered and published.                 *)
Reported(t, p, said, g) ==
  /\ said.status = "complete" =>
       /\ p # BulkExport!NoFile /\ ~g.more
       /\ \A x \in BulkExport!Item : x[1] \in g.pages => \E j \in 1..Len(p) : p[j] = x
  /\ p # BulkExport!NoFile =>
       /\ said.status \in {"complete", "partial"} /\ said.lines = Len(p)
       /\ \E page \in Nat, item \in Nat : AtMark(p, g.pages, page, item)
  /\ t = BulkExport!NoFile

(* Which pages have held items, by what the record of an export says, and  *)
(* whether there are more.                                                 *)
Counts(r, g) ==
  /\ r.st \in Unopened => r.page = 0 /\ r.lines = 0 /\ ~r.natural /\ g.pages = {}
  /\ r.st \in Following => r.page < Pages /\ ~r.natural
  /\ r.st \in Filling => /\ r.page + 1 \in g.pages /\ g.pages \subseteq 1..(r.page + 1)
                         /\ g.more => r.more
                         /\ r.more => r.page + 1 < Pages
  /\ r.st \notin Filling \union {"done"} => g.pages \subseteq 1..r.page
  /\ r.natural => ~g.more
  /\ r.st = "waiting" => r.attempt < MaxRetries

(* What it says of its file, as long as the stream has not failed.         *)
Holds(r, t, g, isBroken) ==
  /\ t = BulkExport!NoFile \/ t \in Seq(BulkExport!Item)
  /\ Counts(r, g)
  /\ r.st \in Fetching \union {"ending", "publishing"} /\ ~isBroken =>
       AtMark(t, g.pages, r.page, 0) /\ r.lines = Len(t)
  /\ r.st \in Filling /\ ~isBroken =>
       AtMark(t, g.pages, r.page, r.item) /\ r.lines = Len(t)
  /\ r.st = "publishing" => ~isBroken /\ (r.lines > 0 \/ (~r.err /\ r.natural))

Accounted(r, t, p, said, g, isBroken) ==
  /\ Holds(r, t, g, isBroken)
  /\ r.st # "done" => p = BulkExport!NoFile
  /\ r.st = "done" => Reported(t, p, said, g)

ExportInv ==
  /\ exp \in [Export -> ExportRecord] /\ given \in [Export -> GivenRecord]
  /\ DOMAIN temp = Export /\ DOMAIN put = Export /\ DOMAIN answer = Export
  /\ expAborted \subseteq Export /\ broken \subseteq Export
  /\ \A e \in Export : Accounted(exp[e], temp[e], put[e], answer[e], given[e], e \in broken)

LEMMA ExportsTyped == ExportInv => BulkExport!TypeOK
<1> SUFFICES ASSUME ExportInv PROVE BulkExport!TypeOK
  OBVIOUS
<1>1. \A e \in Export : temp[e] = BulkExport!NoFile \/ temp[e] \in Seq(BulkExport!Item)
  BY DEF ExportInv, Accounted, Holds
<1> QED
  BY <1>1 DEF ExportInv, BulkExport!TypeOK, ExportRecord, GivenRecord

LEMMA ReportsAreTrue == ExportInv => BulkExport!ReportIsTrue
<1> SUFFICES ASSUME ExportInv, NEW e \in Export, exp[e].st = "done"
             PROVE  LET said == answer[e]
                        did  == put[e]
                        held == {x \in BulkExport!Item : x[1] \in given[e].pages}
                        InIt(x) == \E j \in DOMAIN did : did[j] = x
                    IN
                    /\ said.status = "complete" =>
                         /\ did # BulkExport!NoFile /\ ~given[e].more
                         /\ \A x \in held : InIt(x)
                    /\ did # BulkExport!NoFile =>
                         /\ said.status \in {"complete", "partial"}
                         /\ said.lines = Len(did)
                         /\ did \in Seq(held) /\ BulkExport!InOrder(did)
                         /\ \A i \in DOMAIN did : \A x \in held :
                              BulkExport!Precedes(x, did[i]) => InIt(x)
                    /\ temp[e] = BulkExport!NoFile
  BY DEF BulkExport!ReportIsTrue
<1> DEFINE g == given[e].pages
           held == {x \in BulkExport!Item : x[1] \in g}
<1>1. Reported(temp[e], put[e], answer[e], given[e])
  BY DEF ExportInv, Accounted
<1>2. ASSUME put[e] # BulkExport!NoFile
      PROVE  /\ put[e] \in Seq(held) /\ BulkExport!InOrder(put[e])
             /\ DOMAIN put[e] = 1..Len(put[e])
             /\ \A i \in DOMAIN put[e] : \A x \in held :
                  BulkExport!Precedes(x, put[e][i]) => \E j \in DOMAIN put[e] : put[e][j] = x
  <2>1. PICK page \in Nat, item \in Nat : AtMark(put[e], g, page, item)
    BY <1>1, <1>2 DEF Reported
  <2>2. DOMAIN put[e] = 1..Len(put[e]) /\ Len(put[e]) \in Nat
    BY <2>1 DEF AtMark
  <2>3. ASSUME NEW i \in 1..Len(put[e]), NEW x \in held,
               BulkExport!Precedes(x, put[e][i])
        PROVE  \E j \in 1..Len(put[e]) : put[e][j] = x
    <3>1. UpToPlace(put[e][i], page, item) /\ put[e][i] \in BulkExport!Item
      BY <2>1 DEF AtMark
    <3>2. UpToPlace(x, page, item)
      <4>1. /\ x[1] \in Nat /\ x[2] \in Nat
            /\ put[e][i][1] \in Nat /\ put[e][i][2] \in Nat
        BY <3>1, ItemFields
      <4> DEFINE y == put[e][i]
      <4>2. BulkExport!Precedes(x, y) /\ UpToPlace(y, page, item)
        BY <2>3, <3>1
      <4>3. y[1] \in Nat /\ y[2] \in Nat
        BY <4>1
      <4> HIDE DEF y
      <4> QED
        BY <4>1, <4>2, <4>3 DEF UpToPlace, BulkExport!Precedes
    <3> QED
      BY <2>1, <3>2 DEF AtMark
  <2>4. put[e] \in Seq(held)
    <3>1. \A i \in 1..Len(put[e]) : put[e][i] \in held
      BY <2>1 DEF AtMark
    <3>2. put[e] = [i \in 1..Len(put[e]) |-> put[e][i]]
      BY <2>1 DEF AtMark
    <3> HIDE DEF held
    <3>3. put[e] \in [1..Len(put[e]) -> held]
      BY <3>1, <3>2
    <3> QED
      BY <2>2, <3>3, SeqDef
  <2> QED
    BY <2>1, <2>2, <2>3, <2>4 DEF AtMark
<1> QED
  BY <1>1, <1>2 DEF Reported

LEMMA ExportFields ==
  ASSUME NEW r \in ExportRecord
  PROVE  /\ r.page \in 0..Pages /\ r.attempt \in 0..MaxRetries /\ r.item \in 0..ItemsPerPage
         /\ r.lines \in 0..(Pages * ItemsPerPage) /\ r.maxPages \in 1..MaxPages
         /\ r.ifExists \in {"error", "overwrite"}
         /\ r.more \in BOOLEAN /\ r.err \in BOOLEAN /\ r.natural \in BOOLEAN
BY DEF ExportRecord

ExportState == Unopened \union Following \union {"ending", "publishing", "done"}

LEMMA NewState ==
  ASSUME NEW r \in ExportRecord, NEW st \in ExportState
  PROVE  LET n == [r EXCEPT !.st = st]
         IN /\ n \in ExportRecord /\ n.st = st /\ n.page = r.page /\ n.lines = r.lines
            /\ n.item = r.item /\ n.err = r.err /\ n.natural = r.natural
            /\ n.attempt = r.attempt /\ n.more = r.more
<1> DEFINE n == [r EXCEPT !.st = st]
<1>1. n \in ExportRecord
  BY DEF ExportRecord, ExportState, Unopened, Following, Fetching, Filling
<1>2. /\ n.st = st /\ n.page = r.page /\ n.lines = r.lines
      /\ n.item = r.item /\ n.err = r.err /\ n.natural = r.natural
      /\ n.attempt = r.attempt /\ n.more = r.more
  BY DEF ExportRecord
<1> QED
  BY <1>1, <1>2

LEMMA EndingIs ==
  ASSUME NEW r \in ExportRecord, NEW err \in BOOLEAN
  PROVE  LET n == BulkExport!Ending(r, err)
         IN /\ n \in ExportRecord /\ n.st = "ending" /\ n.page = r.page
            /\ n.lines = r.lines /\ n.natural = r.natural
<1> DEFINE n == BulkExport!Ending(r, err)
<1>1. r.err \in BOOLEAN /\ (r.err \/ err) \in BOOLEAN
  BY ExportFields
<1>2. n \in ExportRecord
  BY <1>1 DEF BulkExport!Ending, ExportRecord
<1>3. n.st = "ending" /\ n.page = r.page /\ n.lines = r.lines /\ n.natural = r.natural
  BY DEF BulkExport!Ending, ExportRecord
<1> QED
  BY <1>2, <1>3

LEMMA NextPageIs ==
  ASSUME NEW e \in Export, NEW r \in ExportRecord
  PROVE  LET n == BulkExport!NextPage(e, r)
         IN /\ n \in ExportRecord /\ n.st \in {"ending", "calling"} /\ n.page = r.page
            /\ n.lines = r.lines /\ n.natural = r.natural
<1> DEFINE n == BulkExport!NextPage(e, r)
<1>1. CASE e \in expAborted \/ e \in broken
  <2>1. n = BulkExport!Ending(r, TRUE) \/ n = BulkExport!Ending(r, FALSE)
    BY <1>1 DEF BulkExport!NextPage
  <2> QED
    BY <2>1, EndingIs
<1>2. CASE ~(e \in expAborted \/ e \in broken)
  <2>0. 0 \in 0..MaxRetries
    BY ServerAssumption
  <2>1. n = [r EXCEPT !.st = "calling", !.attempt = 0]
    BY <1>2 DEF BulkExport!NextPage
  <2>2. n \in ExportRecord
    BY <2>0, <2>1 DEF ExportRecord
  <2>3. n.st = "calling" /\ n.page = r.page /\ n.lines = r.lines /\ n.natural = r.natural
    BY <2>1 DEF ExportRecord
  <2> QED
    BY <2>2, <2>3
<1> QED
  BY <1>1, <1>2

LEMMA PageOverIs ==
  ASSUME NEW e \in Export, NEW r \in ExportRecord, r.page < Pages, ~r.natural,
         r.more => r.page + 1 < Pages
  PROVE  LET n == BulkExport!PageOver(e, r)
         IN /\ n \in ExportRecord /\ n.st \in {"ending", "calling"} /\ n.page = r.page + 1
            /\ n.lines = r.lines /\ (n.natural => ~r.more)
            /\ n.st = "calling" => n.page < Pages /\ ~n.natural
<1> DEFINE n == BulkExport!PageOver(e, r)
           p == [r EXCEPT !.page = @ + 1]
<1>1. r.page \in 0..Pages /\ Pages \in Nat /\ r.page + 1 \in 0..Pages
  BY ExportFields, ServerAssumption
<1>2. p \in ExportRecord
  BY <1>1 DEF ExportRecord
<1>3. /\ p.page = r.page + 1 /\ p.lines = r.lines /\ p.natural = r.natural
      /\ p.more = r.more /\ p.maxPages = r.maxPages
  BY DEF ExportRecord
<1>4. n = IF ~p.more THEN [BulkExport!Ending(p, FALSE) EXCEPT !.natural = TRUE]
          ELSE IF p.page >= p.maxPages THEN BulkExport!Ending(p, TRUE)
          ELSE BulkExport!NextPage(e, p)
  BY DEF BulkExport!PageOver
<1> HIDE DEF p, n
<1>5. CASE ~p.more
  <2> DEFINE q == BulkExport!Ending(p, FALSE)
  <2>1. q \in ExportRecord /\ q.st = "ending" /\ q.page = p.page /\ q.lines = p.lines
    BY <1>2, EndingIs
  <2>2. n = [q EXCEPT !.natural = TRUE]
    BY <1>4, <1>5
  <2> HIDE DEF q
  <2>3. n \in ExportRecord
    BY <2>1, <2>2 DEF ExportRecord
  <2>4. n.st = q.st /\ n.page = q.page /\ n.lines = q.lines
    BY <2>1, <2>2 DEF ExportRecord
  <2> QED
    BY <1>3, <1>5, <2>1, <2>3, <2>4 DEF n
<1>6. CASE p.more /\ p.page >= p.maxPages
  <2>1. n = BulkExport!Ending(p, TRUE)
    BY <1>4, <1>6
  <2>2. n \in ExportRecord /\ n.st = "ending" /\ n.page = p.page /\ n.lines = p.lines
        /\ n.natural = p.natural
    BY <1>2, <2>1, EndingIs
  <2> QED
    BY <1>3, <2>2 DEF n
<1>7. CASE p.more /\ ~(p.page >= p.maxPages)
  <2>1. n = BulkExport!NextPage(e, p)
    BY <1>4, <1>7
  <2>2. n \in ExportRecord /\ n.st \in {"ending", "calling"} /\ n.page = p.page
        /\ n.lines = p.lines /\ n.natural = p.natural
    BY <1>2, <2>1, NextPageIs
  <2>3. n.page < Pages
    BY <1>1, <1>3, <1>7, <2>2
  <2> QED
    BY <1>3, <2>2, <2>3 DEF n
<1> QED
  BY <1>5, <1>6, <1>7

LEMMA BlankIs ==
  ASSUME NEW st \in ExportState
  PROVE  LET n == BulkExport!Blank(st)
         IN /\ n \in ExportRecord /\ n.st = st /\ n.page = 0 /\ n.lines = 0 /\ ~n.natural
<1>1. /\ 1 \in 1..MaxPages /\ 0 \in 0..Pages /\ 0 \in 0..MaxRetries /\ 0 \in 0..ItemsPerPage
      /\ 0 \in 0..(Pages * ItemsPerPage)
  BY ServerAssumption, Products
<1>2. BulkExport!Blank(st) \in ExportRecord
  BY <1>1 DEF BulkExport!Blank, ExportRecord, ExportState, Unopened, Following, Fetching,
     Filling
<1> QED
  BY <1>2 DEF BulkExport!Blank

LEMMA ExportsStart == BulkExport!Init => ExportInv
<1> SUFFICES ASSUME BulkExport!Init PROVE ExportInv
  OBVIOUS
<1> DEFINE r == BulkExport!Blank("idle")
           g == [pages |-> {}, more |-> FALSE]
<1>1. /\ r \in ExportRecord /\ r.st = "idle" /\ r.page = 0 /\ r.lines = 0 /\ ~r.natural
  BY BlankIs DEF ExportState, Unopened
<1>2. g \in GivenRecord /\ g.pages = {} /\ ~g.more
  BY DEF GivenRecord
<1>3. /\ exp = [e \in Export |-> r] /\ given = [e \in Export |-> g]
      /\ \A e \in Export : temp[e] = BulkExport!NoFile /\ put[e] = BulkExport!NoFile
      /\ DOMAIN temp = Export /\ DOMAIN put = Export /\ DOMAIN answer = Export
      /\ expAborted = {} /\ broken = {}
  BY DEF BulkExport!Init
<1> HIDE DEF r, g
<1>4. exp \in [Export -> ExportRecord] /\ given \in [Export -> GivenRecord]
  BY <1>1, <1>2, <1>3
<1>5. ASSUME NEW e \in Export
      PROVE  Accounted(exp[e], temp[e], put[e], answer[e], given[e], e \in broken)
  <2>1. exp[e] = r /\ given[e] = g
    BY <1>3
  <2>2. Counts(r, g)
    BY <1>1, <1>2 DEF Counts, Unopened, Following, Fetching, Filling
  <2> QED
    BY <1>1, <1>3, <2>1, <2>2 DEF Accounted, Holds, Fetching, Filling
<1> QED
  BY <1>3, <1>4, <1>5 DEF ExportInv

(* An export goes on to a record that its file bears out.                  *)
LEMMA ExportGoesOn ==
  ASSUME ExportInv, NEW e \in Export, NEW r \in ExportRecord, BulkExport!Goto(e, r),
         exp[e].st # "done", r.st # "done", UNCHANGED <<expAborted, broken, put, answer>>,
         DOMAIN temp' = Export, \A d \in Export \ {e} : temp'[d] = temp[d],
         given' \in [Export -> GivenRecord], \A d \in Export \ {e} : given'[d] = given[d],
         Holds(r, temp'[e], given'[e], e \in broken)
  PROVE  ExportInv'
<1>1. /\ exp' \in [Export -> ExportRecord] /\ exp'[e] = r
      /\ \A d \in Export \ {e} : exp'[d] = exp[d]
  BY DEF ExportInv, BulkExport!Goto
<1>2. ASSUME NEW d \in Export
      PROVE  Accounted(exp'[d], temp'[d], put[d], answer[d], given'[d], d \in broken)
  <2>1. CASE d = e
    BY <1>1, <2>1 DEF ExportInv, Accounted
  <2>2. CASE d # e
    BY <1>1, <2>2 DEF ExportInv
  <2> QED
    BY <2>1, <2>2
<1> QED
  BY <1>1, <1>2 DEF ExportInv

(* An export answers, having published a file or not.                      *)
LEMMA ExportEnds ==
  ASSUME ExportInv, NEW e \in Export, NEW status, NEW lines,
         BulkExport!Done(e, status, lines),
         DOMAIN put' = Export, \A d \in Export \ {e} : put'[d] = put[d], given' = given,
         Reported(BulkExport!NoFile, put'[e], [status |-> status, lines |-> lines], given[e])
  PROVE  ExportInv'
<1> DEFINE r == BulkExport!Blank("done")
           said == [status |-> status, lines |-> lines]
<1>1. /\ r \in ExportRecord /\ r.st = "done" /\ r.page = 0 /\ r.lines = 0 /\ ~r.natural
  BY BlankIs DEF ExportState
<1>2. /\ exp' = [exp EXCEPT ![e] = r] /\ temp' = [temp EXCEPT ![e] = BulkExport!NoFile]
      /\ answer' = [answer EXCEPT ![e] = said]
      /\ expAborted' = expAborted \ {e} /\ broken' = broken \ {e}
  BY DEF BulkExport!Done, BulkExport!Goto
<1> HIDE DEF r, said
<1>3. /\ exp' \in [Export -> ExportRecord] /\ exp'[e] = r /\ temp'[e] = BulkExport!NoFile
      /\ answer'[e] = said /\ DOMAIN temp' = Export /\ DOMAIN answer' = Export
      /\ expAborted' \subseteq Export /\ broken' \subseteq Export
      /\ \A d \in Export \ {e} : /\ exp'[d] = exp[d] /\ temp'[d] = temp[d]
                                 /\ answer'[d] = answer[d] /\ (d \in broken' <=> d \in broken)
  BY <1>1, <1>2 DEF ExportInv
<1>4. Accounted(exp'[e], temp'[e], put'[e], answer'[e], given[e], e \in broken')
  <2>1. Holds(r, BulkExport!NoFile, given[e], e \in broken')
    BY <1>1 DEF Holds, Counts, Unopened, Following, Fetching, Filling
  <2>2. Reported(BulkExport!NoFile, put'[e], said, given[e])
    BY DEF said
  <2> QED
    BY <1>1, <1>3, <2>1, <2>2 DEF Accounted
<1>5. ASSUME NEW d \in Export
      PROVE  Accounted(exp'[d], temp'[d], put'[d], answer'[d], given[d], d \in broken')
  <2>1. CASE d = e
    BY <1>4, <2>1
  <2>2. CASE d # e
    <3>1. Accounted(exp[d], temp[d], put[d], answer[d], given[d], d \in broken)
      BY DEF ExportInv
    <3>2. /\ exp'[d] = exp[d] /\ temp'[d] = temp[d] /\ put'[d] = put[d]
          /\ answer'[d] = answer[d] /\ (d \in broken' <=> d \in broken)
      BY <1>3, <2>2
    <3>3. CASE d \in broken
      BY <3>1, <3>2, <3>3 DEF Accounted, Holds
    <3>4. CASE d \notin broken
      BY <3>1, <3>2, <3>4 DEF Accounted, Holds
    <3> QED
      BY <3>3, <3>4
  <2> QED
    BY <2>1, <2>2
<1> QED
  BY <1>3, <1>5 DEF ExportInv

(* Nothing is published when an export ends without a file.                *)
LEMMA ExportEndsEmpty ==
  ASSUME ExportInv, NEW e \in Export, NEW status, NEW lines, exp[e].st # "done",
         BulkExport!Done(e, status, lines), put' = put, given' = given,
         status # "complete"
  PROVE  ExportInv'
<1>1. put[e] = BulkExport!NoFile /\ DOMAIN put = Export
  BY DEF ExportInv, Accounted
<1>2. Reported(BulkExport!NoFile, put'[e], [status |-> status, lines |-> lines],
               given[e])
  BY <1>1 DEF Reported
<1> QED
  BY <1>1, <1>2, ExportEnds

(* Steps after which a file that has stayed the same is at the end of a    *)
(* page, or not open yet.                                                  *)
LEMMA ExportMovesOn ==
  ASSUME ExportInv, NEW e \in Export,
         \/ BulkExport!Begin(e) \/ BulkExport!PageFails(e) \/ BulkExport!Retry(e)
         \/ BulkExport!Drained(e)
  PROVE  ExportInv'
<1> DEFINE q == exp[e]
<1>0. /\ q \in ExportRecord /\ Holds(q, temp[e], given[e], e \in broken)
      /\ DOMAIN temp = Export /\ q.err \in BOOLEAN
      /\ given' = given /\ given \in [Export -> GivenRecord]
  BY ExportFields DEF ExportInv, Accounted, BulkExport!Begin, BulkExport!PageFails,
     BulkExport!Retry, BulkExport!Drained
<1>1. ASSUME NEW r \in ExportRecord, q.st \in Fetching, r.st \in Fetching \union {"ending"},
             r.page = q.page, r.lines = q.lines, r.natural = q.natural,
             r.st = "waiting" => r.attempt < MaxRetries,
             BulkExport!Goto(e, r), UNCHANGED <<expAborted, broken, temp, put, answer>>
      PROVE  ExportInv'
  <2>1. Holds(r, temp[e], given[e], e \in broken)
    BY <1>0, <1>1 DEF Holds, Counts, Unopened, Following, Fetching, Filling
  <2> QED
    BY <1>0, <1>1, <2>1, ExportGoesOn DEF Fetching
<1>2. CASE BulkExport!Begin(e)
  <2>1. PICK mode \in {"error", "overwrite"}, n \in 1..MaxPages :
          BulkExport!Goto(e, [q EXCEPT !.st = "checking", !.ifExists = mode, !.maxPages = n])
    BY <1>2 DEF BulkExport!Begin
  <2> DEFINE r == [q EXCEPT !.st = "checking", !.ifExists = mode, !.maxPages = n]
  <2>2. r \in ExportRecord
    BY <1>0 DEF ExportRecord
  <2>3. r.st = "checking" /\ r.page = q.page /\ r.lines = q.lines /\ r.natural = q.natural
    BY <1>0 DEF ExportRecord
  <2>4. q.st = "idle" /\ UNCHANGED <<expAborted, broken, temp, put, answer>>
    BY <1>2 DEF BulkExport!Begin
  <2>5. BulkExport!Goto(e, r)
    BY <2>1
  <2> HIDE DEF r
  <2>6. Holds(r, temp[e], given[e], e \in broken)
    BY <1>0, <2>3, <2>4 DEF Holds, Counts, Unopened, Following, Fetching, Filling
  <2> QED
    BY <1>0, <2>2, <2>3, <2>4, <2>5, <2>6, ExportGoesOn
<1>3. CASE BulkExport!PageFails(e)
  <2>1. /\ q.st = "calling" /\ UNCHANGED <<expAborted, broken, temp, put, answer>>
        /\ \/ /\ BulkExport!Goto(e, [q EXCEPT !.st = "waiting"])
              /\ q.attempt < MaxRetries
           \/ BulkExport!Goto(e, BulkExport!Ending(q, TRUE))
    BY <1>3 DEF BulkExport!PageFails
  <2>2. CASE BulkExport!Goto(e, BulkExport!Ending(q, TRUE))
    BY <1>0, <1>1, <2>1, <2>2, EndingIs DEF Fetching
  <2>3. CASE BulkExport!Goto(e, [q EXCEPT !.st = "waiting"]) /\ q.attempt < MaxRetries
    BY <1>0, <1>1, <2>1, <2>3, NewState DEF Fetching, ExportState, Following
  <2> QED
    BY <2>1, <2>2, <2>3
<1>4. CASE BulkExport!Retry(e)
  <2>1. q.st = "waiting" /\ UNCHANGED <<expAborted, broken, temp, put, answer>>
    BY <1>4 DEF BulkExport!Retry
  <2>2. CASE e \in expAborted
    <3>1. BulkExport!Goto(e, BulkExport!Ending(q, TRUE))
      BY <1>4, <2>2 DEF BulkExport!Retry
    <3> QED
      BY <1>0, <1>1, <2>1, <3>1, EndingIs DEF Fetching
  <2>3. CASE e \notin expAborted
    <3> DEFINE r == [q EXCEPT !.st = "calling", !.attempt = @ + 1]
    <3>1. BulkExport!Goto(e, r)
      BY <1>4, <2>3 DEF BulkExport!Retry
    <3>2. r.st = "calling" /\ r.page = q.page /\ r.lines = q.lines /\ r.natural = q.natural
      BY <1>0 DEF ExportRecord
    <3>3. r \in ExportRecord
      <4>1. q.attempt \in 0..MaxRetries /\ q.attempt < MaxRetries /\ MaxRetries \in Nat
        BY <1>0, <2>1, ExportFields, ServerAssumption DEF Holds, Counts
      <4>2. q.attempt + 1 \in 0..MaxRetries
        BY <4>1
      <4> QED
        BY <1>0, <4>2 DEF ExportRecord
    <3> HIDE DEF r
    <3> QED
      BY <1>1, <2>1, <3>1, <3>2, <3>3 DEF Fetching
  <2> QED
    BY <2>2, <2>3
<1>5. CASE BulkExport!Drained(e)
  <2>1. /\ q.st = "draining" /\ UNCHANGED <<expAborted, broken, temp, put, answer>>
        /\ BulkExport!Goto(e, [q EXCEPT !.st = "writing"])
    BY <1>5 DEF BulkExport!Drained
  <2> DEFINE r == [q EXCEPT !.st = "writing"]
  <2>2. /\ r \in ExportRecord /\ r.st = "writing" /\ r.page = q.page /\ r.lines = q.lines
        /\ r.item = q.item /\ r.natural = q.natural /\ r.more = q.more
    BY <1>0, NewState DEF ExportState, Following, Filling
  <2>3. BulkExport!Goto(e, r)
    BY <2>1
  <2> HIDE DEF r
  <2>4. Holds(r, temp[e], given[e], e \in broken)
    BY <1>0, <2>1, <2>2 DEF Holds, Counts, Unopened, Following, Fetching, Filling
  <2> QED
    BY <1>0, <2>1, <2>2, <2>3, <2>4, ExportGoesOn
<1> QED
  BY <1>2, <1>3, <1>4, <1>5

(* A page comes, with items or without, or what comes ends the export.     *)
LEMMA ExportHearsOfPage ==
  ASSUME ExportInv, NEW e \in Export, BulkExport!PageArrives(e)
  PROVE  ExportInv'
<1> DEFINE q == exp[e]
           g == given[e]
           n == q.page + 1
<1>0. /\ q \in ExportRecord /\ Holds(q, temp[e], g, e \in broken) /\ DOMAIN temp = Export
      /\ given \in [Export -> GivenRecord] /\ q.st = "calling"
      /\ UNCHANGED <<expAborted, broken, temp, put, answer>>
  BY DEF ExportInv, Accounted, BulkExport!PageArrives
<1>1. /\ q.page \in Nat /\ q.page < Pages /\ Pages \in Nat /\ n \in 1..Pages
      /\ ~q.natural /\ g.pages \subseteq 1..q.page
  <2>1. q.page < Pages /\ ~q.natural /\ g.pages \subseteq 1..q.page
    BY <1>0 DEF Holds, Counts, Following, Fetching, Filling
  <2>2. Pages \in Nat /\ q.page \in 0..Pages
    BY <1>0, ExportFields, ServerAssumption
  <2> QED
    BY <2>1, <2>2
<1>2. e \notin broken => AtMark(temp[e], g.pages, q.page, 0) /\ q.lines = Len(temp[e])
  BY <1>0 DEF Holds, Fetching
<1>3. CASE BulkExport!Goto(e, BulkExport!Ending(q, TRUE)) /\ UNCHANGED given
  <2> DEFINE r == BulkExport!Ending(q, TRUE)
  <2>1. /\ r \in ExportRecord /\ r.st = "ending" /\ r.page = q.page
        /\ r.lines = q.lines /\ r.natural = q.natural
    BY <1>0, EndingIs
  <2>2. BulkExport!Goto(e, r)
    BY <1>3
  <2> HIDE DEF r
  <2>3. Holds(r, temp[e], g, e \in broken)
    BY <1>0, <2>1 DEF Holds, Counts, Unopened, Following, Fetching, Filling
  <2> QED
    BY <1>0, <1>3, <2>1, <2>2, <2>3, ExportGoesOn
<1>4. ASSUME NEW more \in BOOLEAN, more => n < Pages, NEW held \in SUBSET {n},
             given' = [given EXCEPT ![e] =
                         [pages |-> @.pages \union held, more |-> more]],
             \/ /\ BulkExport!Goto(e, [q EXCEPT !.item = 0, !.more = more, !.st = "writing"])
                /\ held = {n}
             \/ /\ BulkExport!Goto(e, BulkExport!PageOver(e, [q EXCEPT !.item = 0, !.more = more]))
                /\ held = {}
      PROVE  ExportInv'
  <2> DEFINE p == [q EXCEPT !.item = 0, !.more = more]
             h == [pages |-> g.pages \union held, more |-> more]
  <2>1. p \in ExportRecord
    <3>1. 0 \in 0..ItemsPerPage
      BY ServerAssumption
    <3> QED
      BY <1>0, <3>1 DEF ExportRecord
  <2>2. /\ p.page = q.page /\ p.lines = q.lines /\ p.natural = q.natural /\ p.item = 0
        /\ p.more = more
    BY <1>0 DEF ExportRecord
  <2>3. h \in GivenRecord /\ h.pages = g.pages \union held /\ h.more = more
    <3>1. g.pages \subseteq 1..Pages
      BY <1>1
    <3>2. g.pages \union held \in SUBSET (1..Pages)
      BY <1>1, <3>1
    <3> QED
      BY <3>2 DEF GivenRecord
  <2>4. /\ given' \in [Export -> GivenRecord] /\ given'[e] = h
        /\ \A d \in Export \ {e} : given'[d] = given[d]
    <3>1. given' = [given EXCEPT ![e] = h]
      BY <1>4
    <3> HIDE DEF h
    <3> QED
      BY <1>0, <2>3, <3>1
  <2> HIDE DEF h
  <2>5. CASE /\ BulkExport!Goto(e, [q EXCEPT !.item = 0, !.more = more, !.st = "writing"])
             /\ held = {n}
    <3> DEFINE r == [p EXCEPT !.st = "writing"]
    <3>1. /\ r \in ExportRecord /\ r.st = "writing" /\ r.page = p.page /\ r.item = p.item
          /\ r.lines = p.lines /\ r.natural = p.natural /\ r.more = p.more
      BY <2>1, NewState DEF ExportState, Following, Filling
    <3>2. BulkExport!Goto(e, r)
      BY <2>5
    <3> HIDE DEF r, p
    <3>3. h.pages = g.pages \union {q.page + 1} /\ h.pages \subseteq 1..(q.page + 1)
      BY <1>1, <2>3, <2>5
    <3>4. e \notin broken => AtMark(temp[e], h.pages, q.page, 0)
      BY <1>1, <1>2, <3>3, PageBegins
    <3>5. Counts(r, h)
      BY <1>1, <1>4, <2>2, <2>3, <3>1, <3>3
         DEF Counts, Unopened, Following, Fetching, Filling
    <3>6. Holds(r, temp[e], h, e \in broken)
      BY <1>0, <1>2, <2>2, <3>1, <3>4, <3>5 DEF Holds, Fetching, Filling
    <3> QED
      BY <1>0, <2>4, <3>1, <3>2, <3>6, ExportGoesOn
  <2>6. CASE BulkExport!Goto(e, BulkExport!PageOver(e, p)) /\ held = {}
    <3> DEFINE r == BulkExport!PageOver(e, p)
    <3> HIDE DEF p
    <3>1. /\ r \in ExportRecord /\ r.st \in {"ending", "calling"} /\ r.page = q.page + 1
          /\ r.lines = q.lines /\ (r.natural => ~more)
          /\ (r.st = "calling" => r.page < Pages /\ ~r.natural)
      BY <1>1, <1>4, <2>1, <2>2, PageOverIs
    <3>2. BulkExport!Goto(e, r)
      BY <2>6
    <3> HIDE DEF r
    <3>3. h.pages = g.pages /\ h.pages \subseteq 1..(q.page + 1)
      BY <1>1, <2>3, <2>6
    <3>4. e \notin broken => AtMark(temp[e], h.pages, q.page + 1, 0)
      BY <1>1, <1>2, <3>3, BarePage
    <3>5. Counts(r, h)
      BY <2>3, <3>1, <3>3 DEF Counts, Unopened, Following, Fetching, Filling
    <3>6. Holds(r, temp[e], h, e \in broken)
      BY <1>0, <1>2, <3>1, <3>4, <3>5 DEF Holds, Fetching, Filling
    <3> QED
      BY <1>0, <2>4, <3>1, <3>2, <3>6, ExportGoesOn
  <2> QED
    BY <1>4, <2>5, <2>6
<1>5. \/ \E more \in BOOLEAN :
            /\ more => n < Pages
            /\ \E held \in SUBSET {n} :
                 /\ given' = [given EXCEPT ![e] =
                                [pages |-> @.pages \union held, more |-> more]]
                 /\ \/ /\ BulkExport!Goto(e, [q EXCEPT !.item = 0, !.more = more,
                                                      !.st = "writing"])
                       /\ held = {n}
                    \/ /\ BulkExport!Goto(e, BulkExport!PageOver(e,
                                                [q EXCEPT !.item = 0, !.more = more]))
                       /\ held = {}
      \/ BulkExport!Goto(e, BulkExport!Ending(q, TRUE)) /\ UNCHANGED given
  BY DEF BulkExport!PageArrives
<1> QED
  BY <1>3, <1>4, <1>5

LEMMA ExportOpens ==
  ASSUME ExportInv, NEW e \in Export, BulkExport!CheckFirst(e) \/ BulkExport!Open(e)
  PROVE  ExportInv'
<1> DEFINE q == exp[e]
<1>0. /\ q \in ExportRecord /\ Holds(q, temp[e], given[e], e \in broken)
      /\ DOMAIN temp = Export /\ q.st \in {"checking", "rechecking"}
      /\ given' = given /\ given \in [Export -> GivenRecord]
  BY DEF ExportInv, Accounted, BulkExport!CheckFirst, BulkExport!Open
<1>1. CASE BulkExport!Done(e, "error", 0) \/ BulkExport!Done(e, "failed", 0)
  <2>1. put' = put /\ "error" # "complete" /\ "failed" # "complete"
    BY DEF BulkExport!CheckFirst, BulkExport!Open
  <2> QED
    BY <1>0, <1>1, <2>1, ExportEndsEmpty
<1>2. CASE /\ BulkExport!Goto(e, [q EXCEPT !.st = "rechecking"])
           /\ UNCHANGED <<expAborted, broken, temp, put, answer>>
  <2> DEFINE r == [q EXCEPT !.st = "rechecking"]
  <2>1. /\ r \in ExportRecord /\ r.st = "rechecking" /\ r.page = q.page
        /\ r.lines = q.lines /\ r.natural = q.natural
    BY <1>0, NewState DEF ExportState, Unopened
  <2>2. BulkExport!Goto(e, r)
    BY <1>2
  <2> HIDE DEF r
  <2>3. Holds(r, temp[e], given[e], e \in broken)
    BY <1>0, <2>1 DEF Holds, Counts, Unopened, Following, Fetching, Filling
  <2> QED
    BY <1>0, <1>2, <2>1, <2>2, <2>3, ExportGoesOn
<1>3. CASE /\ BulkExport!Goto(e, BulkExport!NextPage(e, q)) /\ q.st = "rechecking"
           /\ temp' = [temp EXCEPT ![e] = << >>]
           /\ UNCHANGED <<expAborted, broken, put, answer>>
  <2> DEFINE r == BulkExport!NextPage(e, q)
  <2>1. /\ r \in ExportRecord /\ r.st \in {"ending", "calling"} /\ r.page = q.page
        /\ r.lines = q.lines /\ r.natural = q.natural
    BY <1>0, NextPageIs
  <2>2. /\ temp'[e] = << >> /\ DOMAIN temp' = Export
        /\ \A d \in Export \ {e} : temp'[d] = temp[d]
    BY <1>0, <1>3
  <2>3. BulkExport!Goto(e, r)
    BY <1>3
  <2> HIDE DEF r
  <2>4. q.page = 0 /\ q.lines = 0 /\ ~q.natural /\ 0 < Pages /\ given[e].pages = {}
    BY <1>0, <1>3, ServerAssumption DEF Holds, Counts, Unopened
  <2>5. AtMark(<< >>, {}, 0, 0) /\ << >> \in Seq(BulkExport!Item) /\ Len(<< >>) = 0
    BY NothingIsAtTheStart
  <2>6. Holds(r, << >>, given[e], e \in broken)
    BY <2>1, <2>4, <2>5 DEF Holds, Counts, Unopened, Following, Fetching, Filling
  <2> QED
    BY <1>0, <1>3, <2>1, <2>2, <2>3, <2>6, ExportGoesOn
<1> QED
  BY <1>1, <1>2, <1>3 DEF BulkExport!CheckFirst, BulkExport!Open

(* What has been written so far fits into what there is to write.          *)
LEMMA LinesFit ==
  ASSUME NEW page \in 0..Pages, page < Pages, NEW k \in 0..ItemsPerPage
  PROVE  page * ItemsPerPage + k \in 0..(Pages * ItemsPerPage)
<1>1. page \in Nat /\ page + 1 \in Nat /\ page + 1 <= Pages /\ Pages \in Nat
      /\ ItemsPerPage \in Nat /\ k \in Nat /\ k <= ItemsPerPage
  BY ServerAssumption
<1>2. /\ (page + 1) * ItemsPerPage <= Pages * ItemsPerPage
      /\ (page + 1) * ItemsPerPage = page * ItemsPerPage + ItemsPerPage
      /\ page * ItemsPerPage \in Nat /\ Pages * ItemsPerPage \in Nat
  BY <1>1, Products
<1> QED
  BY <1>1, <1>2

LEMMA ItemsAreWritten ==
  ASSUME ExportInv, NEW e \in Export, BulkExport!WriteItems(e)
  PROVE  ExportInv'
<1> DEFINE q == exp[e]
           N == ItemsPerPage
           g == given[e]
<1>0. /\ q \in ExportRecord /\ Holds(q, temp[e], given[e], e \in broken)
      /\ DOMAIN temp = Export /\ given \in [Export -> GivenRecord]
      /\ q.st = "writing" /\ UNCHANGED <<expAborted, broken, put, answer, given>>
  BY DEF ExportInv, BulkExport!WriteItems, Accounted
<1>1. /\ q.page \in 0..Pages /\ q.page < Pages /\ ~q.natural /\ q.page \in 0..(Pages - 1)
      /\ (q.more => q.page + 1 < Pages) /\ (g.more => q.more)
      /\ q.page + 1 \in g.pages /\ g.pages \subseteq 1..(q.page + 1)
      /\ q.page \in Nat /\ q.item \in 0..N /\ N \in Nat /\ q.lines \in Nat
  <2>1. /\ q.page < Pages /\ ~q.natural
        /\ (q.more => q.page + 1 < Pages) /\ (g.more => q.more)
        /\ q.page + 1 \in g.pages /\ g.pages \subseteq 1..(q.page + 1)
    BY <1>0 DEF Holds, Counts, Following, Filling
  <2>2. Pages \in Nat /\ N \in Nat
    BY ServerAssumption
  <2>3. q.page \in 0..Pages /\ q.item \in 0..N
    BY <1>0, ExportFields
  <2>4. Pages * N \in Nat
    BY <2>2, Products
  <2>5. q.lines \in 0..(Pages * N)
    BY <1>0, ExportFields
  <2> QED
    BY <2>1, <2>2, <2>3, <2>4, <2>5
(* A page is over, in a record w that its file bears out.                  *)
<1>2. ASSUME NEW w \in ExportRecord, w.page = q.page, ~w.natural, w.more = q.more,
             BulkExport!Goto(e, BulkExport!PageOver(e, w)),
             DOMAIN temp' = Export, \A d \in Export \ {e} : temp'[d] = temp[d],
             temp'[e] = BulkExport!NoFile \/ temp'[e] \in Seq(BulkExport!Item),
             e \notin broken => AtMark(temp'[e], g.pages, q.page, N) /\ w.lines = Len(temp'[e])
      PROVE  ExportInv'
  <2> DEFINE r == BulkExport!PageOver(e, w)
  <2>1. /\ r \in ExportRecord /\ r.st \in {"ending", "calling"} /\ r.page = q.page + 1
        /\ r.lines = w.lines /\ (r.natural => ~w.more)
        /\ (r.st = "calling" => r.page < Pages /\ ~r.natural)
    BY <1>1, <1>2, PageOverIs
  <2>2. e \notin broken => AtMark(temp'[e], g.pages, q.page + 1, 0)
    BY <1>1, <1>2, WholePage
  <2>3. BulkExport!Goto(e, r)
    BY <1>2
  <2> HIDE DEF r
  <2>4. Counts(r, g)
    BY <1>1, <1>2, <2>1 DEF Counts, Unopened, Following, Fetching, Filling
  <2>5. Holds(r, temp'[e], g, e \in broken)
    BY <1>2, <2>1, <2>2, <2>4 DEF Holds, Fetching, Filling
  <2> QED
    BY <1>0, <1>2, <2>1, <2>3, <2>5, ExportGoesOn
<1>3. CASE /\ UNCHANGED temp
           /\ e \in broken \/ q.item = N
           /\ BulkExport!Goto(e, BulkExport!PageOver(e, q))
  <2>1. e \notin broken => AtMark(temp[e], g.pages, q.page, N) /\ q.lines = Len(temp[e])
    BY <1>0, <1>3 DEF Holds, Filling
  <2>2. temp[e] = BulkExport!NoFile \/ temp[e] \in Seq(BulkExport!Item)
    BY <1>0 DEF Holds
  <2>3. temp' = temp
    BY <1>3
  <2> QED
    BY <1>0, <1>1, <1>2, <1>3, <2>1, <2>2, <2>3
<1>4. ASSUME NEW k \in (q.item + 1)..N, NEW full \in BOOLEAN, e \notin broken,
             full \/ k = N,
             temp' = [temp EXCEPT ![e] =
                        @ \o BulkExport!ItemsOf(q.page + 1, q.item + 1, k)],
             BulkExport!Goto(e,
               IF full THEN [[q EXCEPT !.item = k, !.lines = @ + k - q.item]
                               EXCEPT !.st = "draining"]
               ELSE BulkExport!PageOver(e, [q EXCEPT !.item = k, !.lines = @ + k - q.item]))
      PROVE  ExportInv'
  <2> DEFINE t == temp[e] \o BulkExport!ItemsOf(q.page + 1, q.item + 1, k)
             w == [q EXCEPT !.item = k, !.lines = @ + k - q.item]
  <2>1. AtMark(temp[e], g.pages, q.page, q.item) /\ q.lines = Len(temp[e])
    BY <1>0, <1>4 DEF Holds, Filling
  <2>2. AtMark(t, g.pages, q.page, k) /\ Len(t) = Len(temp[e]) + k - q.item
    BY <1>1, <2>1, ItemsWritten
  <2>3. temp'[e] = t /\ DOMAIN temp' = Export /\ \A d \in Export \ {e} : temp'[d] = temp[d]
    BY <1>0, <1>4
  <2> HIDE DEF t
  <2>4. t \in Seq(BulkExport!Item) /\ Len(t) \in Nat /\ Len(t) <= q.page * N + k
    BY <2>2 DEF AtMark
  <2>5. k \in 0..N
    BY <1>1
  <2>6. Len(t) \in 0..(Pages * N)
    <3> DEFINE most == q.page * N + k
    <3>1. most \in 0..(Pages * N)
      BY <1>1, <2>5, LinesFit
    <3>2. Len(t) \in Nat /\ Len(t) <= most
      BY <2>4
    <3> DEFINE all == Pages * N
    <3>3. most \in 0..all /\ all \in Nat
      <4>1. all \in Nat
        BY ServerAssumption, Products
      <4> QED
        BY <3>1, <4>1
    <3> HIDE DEF most, all
    <3>4. Len(t) \in 0..all
      BY <3>2, <3>3
    <3> QED
      BY <3>4 DEF all
  <2>7. q.lines + k - q.item = Len(t)
    BY <2>1, <2>2
  <2>8. w = [q EXCEPT !.item = k, !.lines = Len(t)]
    BY <2>7
  <2>9. w \in ExportRecord
    BY <1>0, <2>5, <2>6, <2>8 DEF ExportRecord
  <2>10. /\ w.page = q.page /\ w.natural = q.natural /\ w.item = k /\ w.lines = Len(t)
         /\ w.more = q.more
    BY <1>0, <2>8 DEF ExportRecord
  <2>11. BulkExport!Goto(e, IF full THEN [w EXCEPT !.st = "draining"]
                            ELSE BulkExport!PageOver(e, w))
    BY <1>4
  <2> HIDE DEF w
  <2>12. CASE full
    <3> DEFINE r == [w EXCEPT !.st = "draining"]
    <3>1. /\ r \in ExportRecord /\ r.st = "draining" /\ r.page = w.page
          /\ r.lines = w.lines /\ r.item = w.item /\ r.natural = w.natural
          /\ r.more = w.more
      BY <2>9, NewState DEF ExportState, Following, Filling
    <3>2. BulkExport!Goto(e, r)
      BY <2>11, <2>12
    <3> HIDE DEF r
    <3>3. Counts(r, g)
      BY <1>1, <2>10, <3>1 DEF Counts, Unopened, Following, Fetching, Filling
    <3>4. Holds(r, t, g, e \in broken)
      BY <1>4, <2>2, <2>4, <2>10, <3>1, <3>3 DEF Holds, Fetching, Filling
    <3> QED
      BY <1>0, <2>3, <3>1, <3>2, <3>4, ExportGoesOn
  <2>13. CASE ~full
    <3>1. k = N /\ BulkExport!Goto(e, BulkExport!PageOver(e, w))
      BY <1>4, <2>11, <2>13
    <3>2. AtMark(t, g.pages, q.page, N)
      BY <2>2, <3>1
    <3> QED
      BY <1>1, <1>2, <2>3, <2>4, <2>9, <2>10, <3>1, <3>2
  <2> QED
    BY <2>12, <2>13
<1> QED
  BY <1>0, <1>3, <1>4 DEF BulkExport!WriteItems

(* The stream fails, or the signal is aborted: the file promises less.     *)
LEMMA ExportIsDisturbed ==
  ASSUME ExportInv, NEW e \in Export, BulkExport!StreamFails(e) \/ BulkExport!Abort(e)
  PROVE  ExportInv'
<1>1. UNCHANGED <<exp, temp, put, answer, given>>
  BY DEF BulkExport!StreamFails, BulkExport!Abort
<1>2. /\ expAborted' \subseteq Export /\ broken' \subseteq Export
      /\ \A d \in Export : d \in broken => d \in broken'
      /\ \A d \in Export : d \in broken' => d \in broken \/ exp[d].st # "publishing"
  BY DEF ExportInv, BulkExport!StreamFails, BulkExport!Abort, BulkExport!Running
<1>3. ASSUME NEW d \in Export
      PROVE  Accounted(exp[d], temp[d], put[d], answer[d], given[d], d \in broken')
  <2>1. Accounted(exp[d], temp[d], put[d], answer[d], given[d], d \in broken)
    BY DEF ExportInv
  <2>2. CASE d \in broken \/ d \notin broken'
    <3>1. CASE d \in broken
      <4>1. d \in broken'
        BY <1>2, <3>1
      <4> QED
        BY <2>1, <3>1, <4>1 DEF Accounted, Holds
    <3>2. CASE d \notin broken /\ d \notin broken'
      BY <2>1, <3>2 DEF Accounted, Holds
    <3> QED
      BY <2>2, <3>1, <3>2
  <2>3. CASE d \notin broken /\ d \in broken'
    <3>1. exp[d].st # "publishing"
      BY <1>2, <2>3
    <3> QED
      BY <2>1, <2>3, <3>1 DEF Accounted, Holds
  <2> QED
    BY <2>2, <2>3
<1> QED
  BY <1>1, <1>2, <1>3 DEF ExportInv

LEMMA ExportFinishes ==
  ASSUME ExportInv, NEW e \in Export, BulkExport!Finish(e) \/ BulkExport!DrainFails(e)
  PROVE  ExportInv'
<1> DEFINE q == exp[e]
<1>0. /\ q \in ExportRecord /\ Holds(q, temp[e], given[e], e \in broken)
      /\ DOMAIN temp = Export /\ given \in [Export -> GivenRecord]
      /\ q.st \in {"ending", "draining"} /\ put' = put /\ given' = given
  BY DEF ExportInv, BulkExport!Finish, BulkExport!DrainFails, Accounted
<1>1. CASE BulkExport!DrainFails(e)
  <2>1. BulkExport!Done(e, "error", 0) /\ "error" # "complete"
    BY <1>1 DEF BulkExport!DrainFails
  <2> QED
    BY <1>0, <2>1, ExportEndsEmpty
<1>2. CASE BulkExport!Finish(e) /\ (e \in broken \/ BulkExport!Status(e) = "failed")
  <2>1. BulkExport!Done(e, BulkExport!Status(e), q.lines)
    BY <1>2 DEF BulkExport!Finish
  <2>2. BulkExport!Status(e) # "complete"
    BY <1>2 DEF BulkExport!Status
  <2> QED
    BY <1>0, <2>1, <2>2, ExportEndsEmpty
<1>3. CASE BulkExport!Finish(e) /\ ~(e \in broken \/ BulkExport!Status(e) = "failed")
  <2> DEFINE r == [q EXCEPT !.st = "publishing"]
  <2>1. /\ r \in ExportRecord /\ r.st = "publishing" /\ r.page = q.page /\ r.lines = q.lines
        /\ r.err = q.err /\ r.natural = q.natural
    BY <1>0, NewState DEF ExportState
  <2>2. BulkExport!Goto(e, r) /\ UNCHANGED <<expAborted, broken, temp, put, answer>>
    BY <1>3 DEF BulkExport!Finish
  <2>3. q.lines > 0 \/ (~q.err /\ q.natural)
    BY <1>3 DEF BulkExport!Status
  <2>4. q.st = "ending"
    BY <1>3 DEF BulkExport!Finish
  <2> HIDE DEF r
  <2>5. Holds(r, temp[e], given[e], e \in broken)
    BY <1>0, <1>3, <2>1, <2>3, <2>4 DEF Holds, Counts, Unopened, Following, Fetching, Filling
  <2> QED
    BY <1>0, <2>1, <2>2, <2>5, ExportGoesOn
<1> QED
  BY <1>1, <1>2, <1>3

LEMMA ExportPublishes ==
  ASSUME ExportInv, NEW e \in Export, BulkExport!Publish(e)
  PROVE  ExportInv'
<1> DEFINE q == exp[e]
<1>0. /\ q \in ExportRecord /\ Holds(q, temp[e], given[e], e \in broken)
      /\ q.st = "publishing" /\ DOMAIN put = Export /\ given' = given
  BY DEF ExportInv, BulkExport!Publish, Accounted
<1>1. CASE \/ BulkExport!Done(e, "failed", 0) /\ put' = put
           \/ BulkExport!Done(e, "error", 0) /\ put' = put
  BY <1>0, <1>1, ExportEndsEmpty
<1>2. CASE BulkExport!TakesPlace(e) /\ BulkExport!Done(e, BulkExport!Status(e), q.lines)
  <2> DEFINE said == [status |-> BulkExport!Status(e), lines |-> q.lines]
  <2>1. /\ put'[e] = temp[e] /\ DOMAIN put' = Export
        /\ \A d \in Export \ {e} : put'[d] = put[d]
    BY <1>0, <1>2 DEF BulkExport!TakesPlace
  <2>2. /\ AtMark(temp[e], given[e].pages, q.page, 0) /\ q.lines = Len(temp[e])
        /\ e \notin broken /\ (q.lines > 0 \/ (~q.err /\ q.natural))
        /\ (q.natural => ~given[e].more) /\ given[e].pages \subseteq 1..q.page
    BY <1>0 DEF Holds, Counts, Filling
  <2>3. said.status \in {"complete", "partial"} /\ said.lines = q.lines
    BY <2>2 DEF BulkExport!Status
  <2>4. said.status = "complete" => q.natural
    BY DEF BulkExport!Status
  <2>5. q.page \in Nat /\ 0 \in Nat
    BY <1>0, ExportFields, ServerAssumption
  <2>6. temp[e] # BulkExport!NoFile
    <3> SUFFICES ASSUME temp[e] = BulkExport!NoFile PROVE FALSE
      OBVIOUS
    <3>1. Len(temp[e]) = 1 /\ temp[e][1] = <<0, 0>>
      BY DEF BulkExport!NoFile
    <3>2. temp[e][1] \in BulkExport!Item
      <4>1. temp[e] \in Seq(BulkExport!Item)
        BY <2>2 DEF AtMark
      <4>2. Len(temp[e]) = 1
        BY <3>1
      <4> QED
        BY <4>1, <4>2, ElementOfSeq
    <3>3. 0 < temp[e][1][1]
      BY <3>2, ItemFields
    <3> QED
      BY <3>1, <3>3
  <2>7. ASSUME NEW x \in BulkExport!Item, x[1] \in given[e].pages
        PROVE  \E j \in 1..Len(temp[e]) : temp[e][j] = x
    <3>1. x[1] <= q.page
      BY <2>2, <2>7
    <3> QED
      BY <2>2, <2>7, <3>1 DEF AtMark, UpToPlace
  <2> HIDE DEF said
  <2>8. Reported(BulkExport!NoFile, put'[e], said, given[e])
    BY <2>1, <2>2, <2>3, <2>4, <2>5, <2>6, <2>7 DEF Reported
  <2> QED
    BY <1>0, <1>2, <2>1, <2>8, ExportEnds DEF said
<1> QED
  BY <1>1, <1>2 DEF BulkExport!Publish, BulkExport!Link, BulkExport!Rename

LEMMA ExportsStay == ASSUME ExportInv, ExportMove PROVE ExportInv'
<1>1. CASE UNCHANGED exports
  BY <1>1 DEF exports, ExportInv
<1>2. CASE BulkExport!Appear
  BY <1>2 DEF BulkExport!Appear, ExportInv
<1>3. ASSUME NEW e \in Export, BulkExport!Step(e) PROVE ExportInv'
  BY <1>3, ExportOpens, ExportMovesOn, ItemsAreWritten, ExportFinishes, ExportPublishes
     DEF BulkExport!Step
<1> QED
  BY <1>1, <1>2, <1>3, ExportMovesOn, ExportHearsOfPage, ExportIsDisturbed
     DEF ExportMove, BulkExport!Next

-----------------------------------------------------------------------------
(* The store of tool notes: what is filled up keeps what was there.        *)

LEMMA FillKeeps ==
  ASSUME NEW keys \in SUBSET ToolNotes!Key, NEW more
  PROVE  LET all == ToolNotes!Fill(keys, more)
         IN keys \subseteq all /\ all \subseteq ToolNotes!Key
<1> DEFINE N == Len(KeyOrder)
           Adds(x, n) == IF KeyOrder[n] \in more /\ ToolNotes!HasRoom(x, KeyOrder[n])
                           THEN x \union {KeyOrder[n]} ELSE x
           Is(g) == g = [n \in 0..N |-> IF n = 0 THEN keys ELSE Adds(g[n - 1], n)]
           V == SUBSET ToolNotes!Key
           move(n) == [x \in V |-> Adds(x, n)]
           step == [n \in 1..N |-> move(n)]
<1>0. N \in Nat /\ DOMAIN KeyOrder = 1..N
  BY ServerAssumption
<1>1. Steps(step, N, V)
  <2>1. \A n \in 1..N : KeyOrder[n] \in ToolNotes!Key
    BY <1>0 DEF ToolNotes!Key
  <2>2. \A n \in 1..N : \A x \in V : Adds(x, n) \in V
    BY <2>1
  <2> HIDE DEF Adds, V
  <2>3. \A n \in 1..N : \A x \in V : move(n)[x] \in V
    BY <2>2
  <2> HIDE DEF move
  <2> QED
    BY <2>3 DEF Steps
<1>2. PICK g \in [0..N -> V] : g[0] = keys /\ \A n \in 1..N : g[n] = step[n][g[n - 1]]
  <2> DEFINE b == keys
  <2>1. b \in V
    OBVIOUS
  <2> HIDE DEF N, step, V, b
  <2>2. \E g : Unfolds(g, b, step, N, V)
    BY <1>0, <1>1, <2>1, RecursionExists
  <2> QED
    BY <2>2 DEF b, Unfolds
<1>3. \A n \in 1..N : g[n] = Adds(g[n - 1], n)
  <2> TAKE n \in 1..N
  <2>1. g[n - 1] \in V
    BY <1>0
  <2> HIDE DEF Adds, V
  <2> QED
    BY <1>2, <2>1
<1>4. Is(g)
  <2> HIDE DEF step, Adds
  <2>1. g = [n \in 0..N |-> g[n]]
    OBVIOUS
  <2>2. \A n \in 0..N : g[n] = IF n = 0 THEN keys ELSE Adds(g[n - 1], n)
    <3> TAKE n \in 0..N
    <3>1. n = 0 \/ n \in 1..N
      BY <1>0
    <3>2. n \in 1..N => n # 0
      OBVIOUS
    <3> QED
      BY <1>2, <1>3, <3>1, <3>2
  <2> QED
    BY <2>1, <2>2, Zenon
<1>5. ToolNotes!Fill(keys, more) = (CHOOSE f : Is(f))[N]
  BY Zenon DEF ToolNotes!Fill
<1> DEFINE f == CHOOSE h : Is(h)
<1>6. Is(f)
  <2> HIDE DEF Is
  <2> QED
    BY <1>4, Zenon
<1> HIDE DEF f
<1>7. f[0] = keys /\ \A n \in 1..N : f[n] = Adds(f[n - 1], n)
  <2> HIDE DEF Adds
  <2>1. f[0] = keys
    BY <1>0, <1>6
  <2>2. ASSUME NEW n \in 1..N PROVE f[n] = Adds(f[n - 1], n)
    <3>1. n \in 0..N /\ n # 0
      BY <1>0
    <3> QED
      BY <1>6, <3>1
  <2> QED
    BY <2>1, <2>2
<1> DEFINE T == {n \in Nat : n <= N => keys \subseteq f[n] /\ f[n] \subseteq ToolNotes!Key}
<1>8. 0 \in T
  BY <1>7
<1>9. ASSUME NEW n \in Nat, n \in T PROVE n + 1 \in T
  <2> SUFFICES ASSUME n + 1 <= N
               PROVE  keys \subseteq f[n + 1] /\ f[n + 1] \subseteq ToolNotes!Key
    OBVIOUS
  <2>1. n + 1 \in 1..N /\ (n + 1) - 1 = n /\ n <= N
    BY <1>0
  <2>3. KeyOrder[n + 1] \in ToolNotes!Key
    BY <1>0, <2>1 DEF ToolNotes!Key
  <2>2. f[n + 1] = Adds(f[n], n + 1)
    BY <1>7, <2>1
  <2> QED
    BY <1>9, <2>1, <2>2, <2>3
<1> HIDE DEF T
<1>10. N \in T
  BY <1>0, <1>8, <1>9, SetInduction
<1>11. keys \subseteq f[N] /\ f[N] \subseteq ToolNotes!Key
  BY <1>0, <1>10 DEF T
<1>12. ToolNotes!Fill(keys, more) = f[N]
  BY <1>5, Zenon DEF f
<1> QED
  BY <1>11, <1>12

NoteFile == UNION {[keys -> ToolNotes!Entry] : keys \in SUBSET ToolNotes!Key}

WorkRecord ==
  [st : {"idle", "locking", "writing", "dead"},
   kind : {"none", "record", "remove", "cleanup", "prune"}, key : ToolNotes!Key,
   seen : NoteFile, discard : SUBSET ToolNotes!Key, next : NoteFile]

(* No note is from later than now.                                         *)
Dated(f, t) == \A k \in DOMAIN f : f[k].at <= t

(* A note that is live and does not stay was asked for by its key, or was  *)
(* seen as it is.                                                          *)
Asked(w, f, k) ==
  \/ w.kind \in {"record", "remove"} /\ w.key = k
  \/ k \in DOMAIN w.seen /\ w.seen[k] = f[k]

Keeps(w, f, next) ==
  \A k \in ToolNotes!LiveIn(f) : k \notin DOMAIN next \/ next[k] # f[k] => Asked(w, f, k)

NotesInv ==
  /\ file \in NoteFile /\ Dated(file, clock)
  /\ readable \in {"ok", "malformed", "blocked"}
  /\ readable # "ok" => file = ToolNotes!NoNotes
  /\ lock \in Worker \union {ToolNotes!Nobody}
  /\ work \in [Worker -> WorkRecord]
  /\ clock \in 0..MaxTime
  /\ \A w \in Worker :
       /\ work[w].st = "locking" => work[w].kind # "none"
       /\ work[w].st = "writing" =>
            lock = w /\ Dated(work[w].next, clock) /\ Keeps(work[w], file, work[w].next)

LEMMA NoteFileIs ==
  ASSUME NEW f \in NoteFile
  PROVE  /\ DOMAIN f \subseteq ToolNotes!Key /\ \A k \in DOMAIN f : f[k] \in ToolNotes!Entry
         /\ \A k \in DOMAIN f : f[k].at \in Nat /\ f[k].valid \in BOOLEAN
<1>1. DOMAIN f \subseteq ToolNotes!Key /\ \A k \in DOMAIN f : f[k] \in ToolNotes!Entry
  BY DEF NoteFile
<1>2. \A k \in DOMAIN f : f[k].at \in Nat /\ f[k].valid \in BOOLEAN
  BY <1>1, ServerAssumption DEF ToolNotes!Entry
<1> QED
  BY <1>1, <1>2

LEMMA OnlyIs ==
  ASSUME NEW f \in NoteFile, NEW keys
  PROVE  LET g == ToolNotes!Only(f, keys)
         IN /\ g \in NoteFile /\ DOMAIN g = DOMAIN f \cap keys
            /\ \A k \in DOMAIN g : g[k] = f[k]
<1> DEFINE D == DOMAIN f \cap keys
           g == ToolNotes!Only(f, keys)
<1>1. g = [k \in D |-> f[k]]
  BY DEF ToolNotes!Only
<1>2. D \in SUBSET ToolNotes!Key /\ \A k \in D : f[k] \in ToolNotes!Entry
  BY NoteFileIs
<1> HIDE DEF D
<1>3. g \in [D -> ToolNotes!Entry]
  BY <1>1, <1>2
<1>4. g \in NoteFile
  BY <1>2, <1>3 DEF NoteFile
<1> QED
  BY <1>1, <1>4 DEF D

LEMMA NotesTyped == NotesInv => ToolNotes!TypeOK
<1> SUFFICES ASSUME NotesInv PROVE ToolNotes!TypeOK
  OBVIOUS
<1>1. DOMAIN file \subseteq ToolNotes!Key /\ \A k \in DOMAIN file : file[k] \in ToolNotes!Entry
  BY NoteFileIs DEF NotesInv
<1>2. \A w \in Worker : work[w].st \in {"idle", "locking", "writing", "dead"}
  BY DEF NotesInv, WorkRecord
<1> QED
  BY <1>1, <1>2 DEF NotesInv, ToolNotes!TypeOK

LEMMA IdleWorker ==
  /\ ToolNotes!Idle \in WorkRecord /\ ToolNotes!Idle.st = "idle"
  /\ ToolNotes!NoNotes \in NoteFile /\ DOMAIN ToolNotes!NoNotes = {}
<1>1. KeyOrder[1] \in ToolNotes!Key
  <2>1. Len(KeyOrder) \in Nat /\ Len(KeyOrder) # 0 /\ DOMAIN KeyOrder = 1..Len(KeyOrder)
    BY ServerAssumption
  <2> QED
    BY <2>1 DEF ToolNotes!Key
<1>2. ToolNotes!NoNotes \in [{} -> ToolNotes!Entry] /\ DOMAIN ToolNotes!NoNotes = {}
  BY DEF ToolNotes!NoNotes
<1>3. ToolNotes!NoNotes \in NoteFile
  BY <1>2 DEF NoteFile
<1>4. ToolNotes!Idle \in WorkRecord
  BY <1>1, <1>3 DEF ToolNotes!Idle, WorkRecord
<1> QED
  BY <1>2, <1>3, <1>4 DEF ToolNotes!Idle

LEMMA NotesStart == ToolNotes!Init => NotesInv
<1> SUFFICES ASSUME ToolNotes!Init PROVE NotesInv
  OBVIOUS
<1>1. PICK keys \in SUBSET ToolNotes!Key : file \in [keys -> [at : {0}, valid : BOOLEAN]]
  BY DEF ToolNotes!Init
<1>2. MaxTime \in Nat /\ clock = 0
  BY ServerAssumption DEF ToolNotes!Init
<1>3. \A k \in keys : file[k] \in ToolNotes!Entry /\ file[k].at = 0
  BY <1>1, <1>2 DEF ToolNotes!Entry
<1>4. file \in NoteFile /\ DOMAIN file = keys
  BY <1>1, <1>3 DEF NoteFile
<1>5. Dated(file, clock)
  BY <1>2, <1>3, <1>4 DEF Dated
<1>6. work \in [Worker -> WorkRecord] /\ \A w \in Worker : work[w].st = "idle"
  BY IdleWorker DEF ToolNotes!Init
<1> QED
  BY <1>2, <1>4, <1>5, <1>6 DEF NotesInv, ToolNotes!Init

LEMMA LiveNotes ==
  ASSUME NEW f \in NoteFile
  PROVE  ToolNotes!LiveIn(f) \subseteq DOMAIN f /\ ToolNotes!LiveIn(f) \in SUBSET ToolNotes!Key
BY NoteFileIs DEF ToolNotes!LiveIn

(* A selection of notes is as dated as the file.                           *)
LEMMA OnlyIsDated ==
  ASSUME NEW f \in NoteFile, NEW keys, Dated(f, clock)
  PROVE  Dated(ToolNotes!Only(f, keys), clock)
<1> DEFINE g == ToolNotes!Only(f, keys)
<1>1. DOMAIN g \subseteq DOMAIN f /\ \A k \in DOMAIN g : g[k] = f[k]
  BY OnlyIs
<1> HIDE DEF g
<1>2. Dated(g, clock)
  BY <1>1 DEF Dated
<1> QED
  BY <1>2 DEF g

(* Before a note is recorded or removed, the live ones are all there.      *)
LEMMA LiveAreBase ==
  ASSUME NotesInv
  PROVE  LET base == IF ToolNotes!OverQuota(file) THEN file
                     ELSE ToolNotes!Only(file, ToolNotes!Visible(file))
         IN /\ base \in NoteFile /\ Dated(base, clock)
            /\ \A k \in ToolNotes!LiveIn(file) : k \in DOMAIN base /\ base[k] = file[k]
<1> DEFINE g == ToolNotes!Only(file, ToolNotes!Visible(file))
<1>0. file \in NoteFile /\ Dated(file, clock)
  BY DEF NotesInv
<1>1. CASE ToolNotes!OverQuota(file)
  BY <1>0, <1>1, LiveNotes
<1>2. CASE ~ToolNotes!OverQuota(file)
  <2>1. g \in NoteFile /\ Dated(g, clock)
    BY <1>0, OnlyIs, OnlyIsDated
  <2>2. DOMAIN g = DOMAIN file \cap ToolNotes!Visible(file) /\ \A k \in DOMAIN g : g[k] = file[k]
    BY <1>0, OnlyIs
  <2>3. ToolNotes!LiveIn(file) = ToolNotes!Visible(file)
    BY <1>2 DEF ToolNotes!OverQuota
  <2> HIDE DEF g
  <2>4. \A k \in ToolNotes!LiveIn(file) : k \in DOMAIN g /\ g[k] = file[k]
    BY <1>0, <2>2, <2>3, LiveNotes
  <2> QED
    BY <1>2, <2>1, <2>4 DEF g
<1> QED
  BY <1>1, <1>2

LEMMA RecordKeeps ==
  ASSUME NotesInv, NEW k \in ToolNotes!Key, ToolNotes!Contents = file
  PROVE  LET n == ToolNotes!Recorded(k)
         IN /\ n \in NoteFile /\ Dated(n, clock)
            /\ \A x \in ToolNotes!LiveIn(file) : x # k => x \in DOMAIN n /\ n[x] = file[x]
<1> DEFINE base == IF ToolNotes!OverQuota(file) THEN file
                   ELSE ToolNotes!Only(file, ToolNotes!Visible(file))
           entry == [at |-> clock, valid |-> TRUE]
           new == [x \in DOMAIN base \union {k} |-> IF x = k THEN entry ELSE base[x]]
           n == ToolNotes!Recorded(k)
<1>0. /\ file \in NoteFile /\ Dated(file, clock) /\ entry \in ToolNotes!Entry
      /\ entry.at <= clock
  BY ServerAssumption DEF NotesInv, ToolNotes!Entry
<1>1. /\ base \in NoteFile /\ Dated(base, clock)
      /\ \A x \in ToolNotes!LiveIn(file) : x \in DOMAIN base /\ base[x] = file[x]
  BY LiveAreBase
<1>2. n = new \/ n = file
  BY Zenon DEF ToolNotes!Recorded
<1> HIDE DEF base, entry
<1>3. new \in NoteFile
  <2> DEFINE D == DOMAIN base \union {k}
  <2>1. D \in SUBSET ToolNotes!Key /\ \A x \in DOMAIN base : base[x] \in ToolNotes!Entry
    BY <1>1, NoteFileIs
  <2>2. new \in [D -> ToolNotes!Entry]
    BY <1>0, <2>1
  <2> QED
    BY <2>1, <2>2 DEF NoteFile
<1>4. Dated(new, clock)
  BY <1>0, <1>1 DEF Dated
<1>5. \A x \in ToolNotes!LiveIn(file) : x # k => x \in DOMAIN new /\ new[x] = file[x]
  BY <1>1
<1>6. ToolNotes!LiveIn(file) \subseteq DOMAIN file
  BY <1>0, LiveNotes
<1> HIDE DEF n, new
<1> QED
  BY <1>0, <1>2, <1>3, <1>4, <1>5, <1>6 DEF n

LEMMA RemoveKeeps ==
  ASSUME NotesInv, NEW k \in ToolNotes!Key, ToolNotes!Contents = file
  PROVE  LET n == ToolNotes!Removed(k)
         IN /\ n \in NoteFile /\ Dated(n, clock)
            /\ \A x \in ToolNotes!LiveIn(file) : x # k => x \in DOMAIN n /\ n[x] = file[x]
<1> DEFINE base == IF ToolNotes!OverQuota(file) THEN file
                   ELSE ToolNotes!Only(file, ToolNotes!Visible(file))
           n == ToolNotes!Only(base, DOMAIN base \ {k})
<1>1. /\ base \in NoteFile /\ Dated(base, clock)
      /\ \A x \in ToolNotes!LiveIn(file) : x \in DOMAIN base /\ base[x] = file[x]
  BY LiveAreBase
<1>2. ToolNotes!Removed(k) = n
  BY Zenon DEF ToolNotes!Removed
<1> HIDE DEF base
<1>3. /\ n \in NoteFile /\ Dated(n, clock) /\ DOMAIN n = DOMAIN base \cap (DOMAIN base \ {k})
      /\ \A x \in DOMAIN n : n[x] = base[x]
  BY <1>1, OnlyIs, OnlyIsDated
<1> HIDE DEF n
<1> QED
  BY <1>1, <1>2, <1>3

(* A cleanup: what has changed since it was seen has the first claim.      *)
LEMMA ReconciledKeeps ==
  ASSUME NotesInv, NEW w \in WorkRecord
  PROVE  LET n == ToolNotes!Reconciled(file, w)
         IN n \in NoteFile /\ Dated(n, clock) /\ Keeps(w, file, n)
<1> DEFINE L == ToolNotes!LiveIn(file)
           changed == ToolNotes!ChangedSince(w.seen, file)
           retained == DOMAIN file \ (w.discard \ changed)
           first == ToolNotes!Fill({}, changed \cap L)
           all == (retained \ L) \union ToolNotes!Fill(first, retained \cap L)
           n == ToolNotes!Reconciled(file, w)
<1>0. file \in NoteFile /\ Dated(file, clock) /\ L \subseteq DOMAIN file
  BY LiveNotes DEF NotesInv
<1>1. n = IF changed \cap L \subseteq first THEN ToolNotes!Only(file, all) ELSE file
  BY Zenon DEF ToolNotes!Reconciled
<1>2. \A k \in L : k \notin changed => k \in DOMAIN w.seen /\ w.seen[k] = file[k]
  BY <1>0 DEF ToolNotes!ChangedSince
<1> HIDE DEF changed, retained, L, n
<1>3. CASE ~(changed \cap L \subseteq first)
  <2>1. n = file
    BY <1>1, <1>3
  <2>2. Keeps(w, file, file)
    BY <1>0 DEF Keeps, L
  <2> QED
    BY <1>0, <2>1, <2>2 DEF n
<1>4. CASE changed \cap L \subseteq first
  <2>1. first \subseteq ToolNotes!Key
    <3>1. changed \cap L \subseteq ToolNotes!Key
      BY <1>0, NoteFileIs
    <3> QED
      BY <3>1, FillKeeps
  <2>2. first \subseteq all
    <3> HIDE DEF first
    <3>1. first \subseteq ToolNotes!Fill(first, retained \cap L)
      BY <2>1, FillKeeps
    <3> QED
      BY <3>1
  <2>3. n = ToolNotes!Only(file, all)
    BY <1>1, <1>4
  <2> HIDE DEF all
  <2>4. /\ n \in NoteFile /\ Dated(n, clock) /\ DOMAIN n = DOMAIN file \cap all
        /\ \A k \in DOMAIN n : n[k] = file[k]
    BY <1>0, <2>3, OnlyIs, OnlyIsDated
  <2>5. ASSUME NEW k \in L, k \notin DOMAIN n \/ n[k] # file[k] PROVE Asked(w, file, k)
    <3>1. k \notin changed
      BY <1>0, <1>4, <2>2, <2>4, <2>5
    <3> QED
      BY <1>2, <3>1 DEF Asked
  <2> QED
    BY <2>4, <2>5 DEF Keeps, n, L
<1> QED
  BY <1>3, <1>4

LEMMA PruneKeeps ==
  ASSUME NotesInv, NEW w \in WorkRecord, ToolNotes!Contents = file
  PROVE  LET n == ToolNotes!Pruned(w)
         IN n \in NoteFile /\ Dated(n, clock) /\ Keeps(w, file, n)
<1> DEFINE D == {k \in DOMAIN file : k \notin DOMAIN w.seen \/ w.seen[k] # file[k]}
           n == ToolNotes!Only(file, D)
<1>0. file \in NoteFile /\ Dated(file, clock)
  BY DEF NotesInv
<1>1. ToolNotes!Pruned(w) = n
  BY DEF ToolNotes!Pruned
<1>2. /\ n \in NoteFile /\ Dated(n, clock) /\ DOMAIN n = DOMAIN file \cap D
      /\ \A k \in DOMAIN n : n[k] = file[k]
  BY <1>0, OnlyIs, OnlyIsDated
<1>3. ToolNotes!LiveIn(file) \subseteq DOMAIN file
  BY <1>0, LiveNotes
<1> HIDE DEF n
<1>4. Keeps(w, file, n)
  BY <1>2, <1>3 DEF Keeps, Asked
<1> QED
  BY <1>1, <1>2, <1>4

LEMMA MutationKeeps ==
  ASSUME NotesInv, NEW w \in WorkRecord, w.kind # "none"
  PROVE  LET n == ToolNotes!Mutated(w)
         IN n \in NoteFile /\ Dated(n, clock) /\ Keeps(w, file, n)
<1>0. /\ ToolNotes!Contents = file /\ file \in NoteFile /\ Dated(file, clock)
      /\ ToolNotes!LiveIn(file) \subseteq DOMAIN file /\ w.key \in ToolNotes!Key
      /\ w.kind \in {"record", "remove", "cleanup", "prune"}
  BY LiveNotes DEF NotesInv, ToolNotes!Contents, WorkRecord
<1>1. CASE w.kind = "record"
  <2> DEFINE n == ToolNotes!Recorded(w.key)
  <2>1. ToolNotes!Mutated(w) = n
    BY <1>1 DEF ToolNotes!Mutated
  <2>2. /\ n \in NoteFile /\ Dated(n, clock)
        /\ \A x \in ToolNotes!LiveIn(file) : x # w.key => x \in DOMAIN n /\ n[x] = file[x]
    BY <1>0, RecordKeeps
  <2> HIDE DEF n
  <2> QED
    BY <1>1, <2>1, <2>2 DEF Keeps, Asked
<1>2. CASE w.kind = "remove"
  <2> DEFINE n == ToolNotes!Removed(w.key)
  <2>1. ToolNotes!Mutated(w) = n
    BY <1>2 DEF ToolNotes!Mutated
  <2>2. /\ n \in NoteFile /\ Dated(n, clock)
        /\ \A x \in ToolNotes!LiveIn(file) : x # w.key => x \in DOMAIN n /\ n[x] = file[x]
    BY <1>0, RemoveKeeps
  <2> HIDE DEF n
  <2> QED
    BY <1>2, <2>1, <2>2 DEF Keeps, Asked
<1>3. CASE w.kind = "cleanup"
  <2>1. \/ ToolNotes!Mutated(w) = file
        \/ ToolNotes!Mutated(w) = ToolNotes!Reconciled(file, w)
    BY <1>0, <1>3 DEF ToolNotes!Mutated, ToolNotes!Cleaned
  <2>2. Keeps(w, file, file)
    BY <1>0 DEF Keeps
  <2> QED
    BY <1>0, <2>1, <2>2, ReconciledKeeps
<1>4. CASE w.kind = "prune"
  <2>1. ToolNotes!Mutated(w) = ToolNotes!Pruned(w)
    BY <1>4 DEF ToolNotes!Mutated
  <2> QED
    BY <1>0, <2>1, PruneKeeps
<1> QED
  BY <1>0, <1>1, <1>2, <1>3, <1>4

(* As time passes, notes may only cease to be live.                        *)
LEMMA NotesAge ==
  ASSUME NotesInv, UNCHANGED notes, clock' \in 0..MaxTime, clock <= clock'
  PROVE  NotesInv'
<1>0. clock \in Nat /\ clock' \in Nat /\ file \in NoteFile
  BY ServerAssumption DEF NotesInv
<1>1. ASSUME NEW f \in NoteFile, Dated(f, clock) PROVE Dated(f, clock')
  BY <1>0, <1>1, NoteFileIs DEF Dated
<1>2. ToolNotes!LiveIn(file)' \subseteq ToolNotes!LiveIn(file)
  <2> SUFFICES ASSUME NEW k \in DOMAIN file, ToolNotes!IsLive(file[k])'
               PROVE  ToolNotes!IsLive(file[k])
    BY DEF ToolNotes!LiveIn, notes
  <2>1. file' = file /\ file[k].at \in Nat /\ file[k].at <= clock /\ Ttl \in Nat
    BY <1>0, NoteFileIs, ServerAssumption DEF notes, NotesInv, Dated
  <2> QED
    BY <1>0, <2>1 DEF ToolNotes!IsLive
<1>3. ASSUME NEW w \in Worker, work[w].st = "writing"
      PROVE  /\ lock = w /\ Dated(work[w].next, clock')
             /\ Keeps(work[w], file, work[w].next)'
  <2>1. work[w].next \in NoteFile
    BY DEF NotesInv, WorkRecord
  <2>2. Keeps(work[w], file, work[w].next)'
    BY <1>2, <1>3 DEF Keeps, Asked, NotesInv, notes
  <2> QED
    BY <1>1, <1>3, <2>1, <2>2 DEF NotesInv
<1>4. work' = work /\ file' = file /\ lock' = lock /\ readable' = readable
  BY DEF notes
<1>5. \A w \in Worker :
        /\ work[w].st = "locking" => work[w].kind # "none"
        /\ work'[w].st = "writing" =>
             lock' = w /\ Dated(work'[w].next, clock') /\ Keeps(work[w], file, work[w].next)'
  BY <1>3, <1>4 DEF NotesInv
<1>6. file' \in NoteFile /\ Dated(file', clock')
  BY <1>1, <1>4 DEF NotesInv
<1> QED
  BY <1>4, <1>5, <1>6 DEF NotesInv

(* A worker that does not hold the lock goes on, or one that holds it lets *)
(* it go; the file stays.                                                  *)
LEMMA WorkerGoesOn ==
  ASSUME NotesInv, NEW w \in Worker, NEW r \in WorkRecord, ToolNotes!Goto(w, r),
         UNCHANGED <<file, readable, clock>>, r.st # "writing",
         r.st = "locking" => r.kind # "none",
         \/ lock' = lock
         \/ /\ lock' = ToolNotes!Nobody
            /\ \A u \in Worker \ {w} : work[u].st # "writing"
  PROVE  NotesInv'
<1>1. /\ work' \in [Worker -> WorkRecord] /\ work'[w] = r
      /\ \A u \in Worker \ {w} : work'[u] = work[u]
  BY DEF NotesInv, ToolNotes!Goto
<1>2. lock' \in Worker \union {ToolNotes!Nobody}
  BY DEF NotesInv
<1>3. ASSUME NEW u \in Worker
      PROVE  /\ work'[u].st = "locking" => work'[u].kind # "none"
             /\ work'[u].st = "writing" =>
                  /\ lock' = u /\ Dated(work'[u].next, clock')
                  /\ Keeps(work[u], file, work[u].next)'
  <2>1. CASE u = w
    BY <1>1, <2>1
  <2>2. CASE u # w
    <3>1. work'[u] = work[u]
      BY <1>1, <2>2
    <3>2. ToolNotes!LiveIn(file)' = ToolNotes!LiveIn(file)
      BY DEF ToolNotes!LiveIn, ToolNotes!IsLive
    <3>3. ASSUME work[u].st = "writing" PROVE Keeps(work[u], file, work[u].next)'
      <4>1. Keeps(work[u], file, work[u].next)
        BY <3>3 DEF NotesInv
      <4> QED
        BY <3>1, <3>2, <4>1 DEF Keeps, Asked
    <3> QED
      BY <2>2, <3>1, <3>3 DEF NotesInv
  <2> QED
    BY <2>1, <2>2
<1> QED
  BY <1>1, <1>2, <1>3 DEF NotesInv

LEMMA RequestsOfNotes ==
  ASSUME NotesInv, NEW w \in Worker,
         ToolNotes!Record(w) \/ ToolNotes!Observe(w) \/ ToolNotes!FindStale(w)
  PROVE  NotesInv'
<1>0. UNCHANGED <<file, readable, lock, clock>>
  BY DEF ToolNotes!Record, ToolNotes!Observe, ToolNotes!FindStale
<1> SUFFICES \E r \in WorkRecord : /\ ToolNotes!Goto(w, r) /\ r.st # "writing"
                                   /\ r.kind # "none"
  BY <1>0, WorkerGoesOn
<1>1. file \in NoteFile /\ ToolNotes!Idle \in WorkRecord
  BY IdleWorker DEF NotesInv
<1>2. CASE ToolNotes!Record(w)
  <2>1. PICK k \in ToolNotes!Key, kd \in {"record", "remove"} :
          ToolNotes!Goto(w, [ToolNotes!Idle EXCEPT !.st = "locking", !.kind = kd, !.key = k])
    BY <1>2 DEF ToolNotes!Record
  <2> DEFINE r == [ToolNotes!Idle EXCEPT !.st = "locking", !.kind = kd, !.key = k]
  <2>2. r \in WorkRecord /\ r.st = "locking" /\ r.kind = kd
    BY <1>1 DEF WorkRecord
  <2> QED
    BY <2>1, <2>2
<1>3. CASE ToolNotes!Observe(w)
  <2> DEFINE r == [ToolNotes!Idle EXCEPT !.st = "locking", !.kind = "cleanup",
                     !.seen = file, !.discard = ToolNotes!Discard(file)]
  <2>1. ToolNotes!Goto(w, r)
    BY <1>3 DEF ToolNotes!Observe
  <2>2. ToolNotes!Discard(file) \in SUBSET ToolNotes!Key
    BY <1>1, NoteFileIs DEF ToolNotes!Discard
  <2>3. r \in WorkRecord /\ r.st = "locking" /\ r.kind = "cleanup"
    BY <1>1, <2>2 DEF WorkRecord
  <2> QED
    BY <2>1, <2>3
<1>4. CASE ToolNotes!FindStale(w)
  <2>1. PICK k \in ToolNotes!Visible(file) :
          ToolNotes!Goto(w, [ToolNotes!Idle EXCEPT !.st = "locking", !.kind = "prune",
                                                   !.seen = ToolNotes!Only(file, {k})])
    BY <1>4 DEF ToolNotes!FindStale
  <2> DEFINE f == ToolNotes!Only(file, {k})
             r == [ToolNotes!Idle EXCEPT !.st = "locking", !.kind = "prune", !.seen = f]
  <2>2. f \in NoteFile /\ ToolNotes!Goto(w, r)
    BY <1>1, <2>1, OnlyIs
  <2> HIDE DEF f
  <2>3. r \in WorkRecord /\ r.st = "locking" /\ r.kind = "prune"
    BY <1>1, <2>2 DEF WorkRecord
  <2> QED
    BY <2>2, <2>3
<1> QED
  BY <1>2, <1>3, <1>4

LEMMA NotesAreLocked ==
  ASSUME NotesInv, NEW w \in Worker, ToolNotes!Lock(w)
  PROVE  NotesInv'
<1> DEFINE q == work[w]
           n == ToolNotes!Mutated(q)
           r == [q EXCEPT !.st = "writing", !.next = n]
<1>0. /\ q \in WorkRecord /\ q.st = "locking" /\ q.kind # "none"
      /\ UNCHANGED <<file, readable, clock>>
  BY DEF NotesInv, ToolNotes!Lock
<1>1. \A u \in Worker : work[u].st # "writing"
  BY DEF NotesInv, ToolNotes!Lock, ToolNotes!LockIsFree
<1>2. CASE ToolNotes!Goto(w, ToolNotes!Idle) /\ lock' = ToolNotes!Nobody
  BY <1>0, <1>1, <1>2, IdleWorker, WorkerGoesOn
<1>3. CASE ToolNotes!Goto(w, r) /\ lock' = w
  <2>1. n \in NoteFile /\ Dated(n, clock) /\ Keeps(q, file, n)
    BY <1>0, MutationKeeps
  <2> HIDE DEF n
  <2>2. r \in WorkRecord
    BY <1>0, <2>1 DEF WorkRecord
  <2>3. /\ r.st = "writing" /\ r.next = n /\ r.kind = q.kind /\ r.key = q.key
        /\ r.seen = q.seen
    BY <1>0 DEF WorkRecord
  <2>4. ToolNotes!Goto(w, r)
    BY <1>3
  <2> HIDE DEF r, q
  <2>5. /\ work' \in [Worker -> WorkRecord] /\ work'[w] = r
        /\ \A u \in Worker \ {w} : work'[u] = work[u]
    BY <2>2, <2>4 DEF NotesInv, ToolNotes!Goto
  <2>6. ToolNotes!LiveIn(file)' = ToolNotes!LiveIn(file)
    BY <1>0 DEF ToolNotes!LiveIn, ToolNotes!IsLive
  <2>7. Keeps(work[w], file, work[w].next)'
    BY <1>0, <2>1, <2>3, <2>5, <2>6 DEF Keeps, Asked
  <2>8. \A u \in Worker :
          /\ work'[u].st = "locking" => work'[u].kind # "none"
          /\ work'[u].st = "writing" =>
               /\ lock' = u /\ Dated(work'[u].next, clock')
               /\ Keeps(work[u], file, work[u].next)'
    BY <1>0, <1>1, <1>3, <2>1, <2>3, <2>5, <2>7 DEF NotesInv
  <2> QED
    BY <1>0, <1>3, <2>5, <2>8 DEF NotesInv
<1> QED
  BY <1>2, <1>3 DEF ToolNotes!Lock

LEMMA NotesAreWritten ==
  ASSUME NotesInv, NEW w \in Worker, ToolNotes!Write(w)
  PROVE  NotesInv'
<1> DEFINE n == work[w].next
<1>0. /\ work[w].st = "writing" /\ lock = w /\ n \in NoteFile /\ Dated(n, clock)
      /\ file' = n /\ readable' = "ok" /\ lock' = ToolNotes!Nobody /\ clock' = clock
      /\ ToolNotes!Goto(w, ToolNotes!Idle)
  BY DEF NotesInv, WorkRecord, ToolNotes!Write
<1>1. /\ work' \in [Worker -> WorkRecord] /\ work'[w] = ToolNotes!Idle
      /\ \A u \in Worker \ {w} : work'[u] = work[u]
  BY <1>0, IdleWorker DEF NotesInv, ToolNotes!Goto
<1>2. \A u \in Worker : work'[u].st # "writing"
  BY <1>0, <1>1, IdleWorker DEF NotesInv
<1>3. \A u \in Worker : work'[u].st = "locking" => work'[u].kind # "none"
  BY <1>1, IdleWorker DEF NotesInv
<1> QED
  BY <1>0, <1>1, <1>2, <1>3 DEF NotesInv

LEMMA NotesAreLeft ==
  ASSUME NotesInv, NEW w \in Worker,
         ToolNotes!Contended(w) \/ ToolNotes!WriteFails(w) \/ ToolNotes!Crash(w)
  PROVE  NotesInv'
<1>1. CASE ToolNotes!Contended(w)
  BY <1>1, IdleWorker, WorkerGoesOn DEF ToolNotes!Contended
<1>2. CASE ToolNotes!WriteFails(w)
  <2>1. \A u \in Worker \ {w} : work[u].st # "writing"
    BY <1>2 DEF NotesInv, ToolNotes!WriteFails
  <2> QED
    BY <1>2, <2>1, IdleWorker, WorkerGoesOn DEF ToolNotes!WriteFails
<1>3. CASE ToolNotes!Crash(w)
  <2> DEFINE r == [ToolNotes!Idle EXCEPT !.st = "dead"]
  <2>1. r \in WorkRecord /\ r.st = "dead"
    BY IdleWorker DEF WorkRecord
  <2>2. ToolNotes!Goto(w, r) /\ UNCHANGED <<file, readable, lock, clock>>
    BY <1>3 DEF ToolNotes!Crash
  <2> HIDE DEF r
  <2> QED
    BY <2>1, <2>2, WorkerGoesOn
<1> QED
  BY <1>1, <1>2, <1>3

LEMMA NotesStay == ASSUME NotesInv, NotesMove PROVE NotesInv'
<1>0. clock \in 0..MaxTime /\ MaxTime \in Nat
  BY ServerAssumption DEF NotesInv
<1>1. CASE UNCHANGED notes /\ Time
  BY <1>0, <1>1, NotesAge DEF Time
<1>2. CASE ToolNotes!Tick
  BY <1>0, <1>2, NotesAge DEF ToolNotes!Tick, notes
<1> QED
  BY <1>1, <1>2, RequestsOfNotes, NotesAreLocked, NotesAreWritten, NotesAreLeft
     DEF NotesMove, ToolNotes!Next

LEMMA NoteIsAskedFor ==
  ASSUME NotesInv, NotesMove, NEW k \in ToolNotes!LiveIn(file),
         k \notin DOMAIN file' \/ file'[k] # file[k]
  PROVE  \E w \in Worker : ToolNotes!Addressed(w, k)
<1>1. k \in DOMAIN file
  BY LiveNotes DEF NotesInv
<1>2. file' # file
  BY <1>1
<1>3. PICK w \in Worker : ToolNotes!Write(w)
  BY <1>2 DEF NotesMove, notes, ToolNotes!Next, ToolNotes!Tick, ToolNotes!Record,
     ToolNotes!Observe, ToolNotes!FindStale, ToolNotes!Lock, ToolNotes!Contended,
     ToolNotes!WriteFails, ToolNotes!Crash
<1>4. /\ work[w].st = "writing" /\ file' = work[w].next /\ work'[w] = ToolNotes!Idle
  BY <1>3 DEF NotesInv, ToolNotes!Write, ToolNotes!Goto
<1>5. Asked(work[w], file, k)
  BY <1>4 DEF NotesInv, Keeps
<1> QED
  BY <1>4, <1>5, IdleWorker DEF ToolNotes!Addressed, Asked

-----------------------------------------------------------------------------
(* The parts together.                                                     *)

ServerInv ==
  TypeInv /\ RouterInv /\ UseToolInv /\ ResultInv /\ ExportInv /\ NotesInv

LEMMA ServerStarts == ServerInit => ServerInv
BY TypeInit, RouterStarts, UseToolStarts, ResultsStart, ExportsStart, NotesStart
   DEF ServerInit, ServerInv

LEMMA ServerStays == ServerInv /\ [ServerNext]_parts => ServerInv'
BY Moves, TypeStep, RouterStays, UseToolStays, ResultsStay, ExportsStay, NotesStay
   DEF ServerInv

LEMMA ServerInvariant == ServerSpec => []ServerInv
BY ServerStarts, ServerStays, PTL DEF ServerSpec

(* Every part keeps its types, however the steps of the parts fall         *)
(* between each other: the maps and caches keep to their sizes, and the    *)
(* worker that writes the notes holds their lock (src/clients,             *)
(* src/server.ts, src/ownerWatchdog.ts, src/handlers, src/toolNotes.ts).   *)
THEOREM PartsKeepTypes == ServerSpec => []PartsTypeOK
<1>1. ServerInv => PartsTypeOK
  BY ExportsTyped, NotesTyped
     DEF ServerInv, PartsTypeOK, TypeInv, RouterInv, UseToolInv, ResultInv
<1> QED
  BY <1>1, ServerInvariant, PTL

(* A session with an open tool call is collected only when the call is     *)
(* older than the busy limit: the sweep of src/server.ts takes activity    *)
(* for the age of the calls, and every call counts as activity.            *)
THEOREM BusySessionsAreKept == ServerSpec => BusySessionsStay
<1>1. ASSUME ServerInv, [ServerNext]_parts
      PROVE  [\A s \in Session : \A p \in Router!OpenPosts(s) :
                session[s].pc = "open" /\ session'[s].pc = "collected"
                  => clock - post[p].since > BusyLimit]_Router!vars
  <2>1. RouterInv /\ RouterMove
    BY <1>1, Moves DEF ServerInv
  <2> QED
    BY <2>1, BusyStay
<1> QED
  BY <1>1, ServerInvariant, PTL DEF ServerSpec, BusySessionsStay, Router!BusySessionsStay

(* The one teardown of src/server.ts is not cut short by a second trigger  *)
(* or by the watchdog of its owner, unless that was started too late.      *)
THEOREM TeardownIsWhole == ServerSpec => []TeardownIsNotCutShort
<1>1. ServerInv => TeardownIsNotCutShort
  BY DEF ServerInv, RouterInv, TeardownIsNotCutShort
<1> QED
  BY <1>1, ServerInvariant, PTL

(* The full map of attempts of use_tool forgets a count only once as many  *)
(* other keys as it holds have failed since.                               *)
THEOREM CountsSurvive == ServerSpec => []RecentCountsSurvive
<1>1. ServerInv => RecentCountsSurvive
  BY DEF ServerInv, UseToolInv, RecentCountsSurvive
<1> QED
  BY <1>1, ServerInvariant, PTL

(* A long result of use_tool can be read on, without a gap, for as long as *)
(* neither its age nor newer results end that.                             *)
THEOREM LongResultsAreKept == ServerSpec => []LongResultsCanBeRead
<1>1. ServerInv => LongResultsCanBeRead
  BY LongResultsAreThere DEF ServerInv, LongResultsCanBeRead
<1> QED
  BY <1>1, ServerInvariant, PTL

(* bulk_export (src/handlers/bulkExport.ts) replaces a file only for an    *)
(* export that was told to, however late the file came.                    *)
THEOREM FilesAreSafe == ServerSpec => NothingIsOverwritten
<1>1. ASSUME [ServerNext]_parts
      PROVE  [out # BulkExport!NoFile /\ out' # out =>
                \E e \in Export : exp[e].ifExists = "overwrite" /\ out' = temp[e]]_BulkExport!vars
  BY <1>1, Moves, FilesAreNotReplaced
<1> QED
  BY <1>1, PTL DEF ServerSpec, NothingIsOverwritten, BulkExport!NothingIsOverwritten

(* An export that answers "complete" has published all items of all pages  *)
(* that held any, in order, and the last page it was given named no other; *)
(* what is published is a beginning of that, and as long as the answer says *)
(* (src/handlers/bulkExport.ts).                                           *)
THEOREM ExportsReportTrue == ServerSpec => []ReportIsTrue
<1>1. ServerInv => ReportIsTrue
  BY ReportsAreTrue DEF ServerInv, ReportIsTrue
<1> QED
  BY <1>1, ServerInvariant, PTL

(* A live note leaves the file of src/toolNotes.ts, or changes, only at    *)
(* the request for it or by a cleanup that had seen it as it was.          *)
THEOREM NotesAreSafe == ServerSpec => NotesAreKept
<1>1. ASSUME ServerInv, [ServerNext]_parts
      PROVE  [\A k \in ToolNotes!LiveIn(file) :
                k \notin DOMAIN file' \/ file'[k] # file[k]
                  => \E w \in Worker : ToolNotes!Addressed(w, k)]_ToolNotes!vars
  <2>1. NotesInv /\ NotesMove
    BY <1>1, Moves DEF ServerInv
  <2> QED
    BY <2>1, NoteIsAskedFor
<1> QED
  BY <1>1, ServerInvariant, PTL DEF ServerSpec, NotesAreKept, ToolNotes!NotesAreKept
=============================================================================
