---------------------------- MODULE SignInProofs ----------------------------
(***************************************************************************)
(* Theorems about SignIn, for any calls, ports and number of attempts.     *)
(***************************************************************************)
EXTENDS SignIn, TLAPS

Before    == {"new", "evict", "evicting", "wipe", "check", "ports"}
Waits     == {"waiting", "health", "waitingUp"}
Coded     == Waits \cup {"exchange", "exchangeUp", "verify"}
Listening == Coded \cup {"listening", "stop"}
Chosen    == Listening \cup {"prepare", "listen"}
Pc        == Before \cup Chosen \cup {"choose", "pending", "done"}

Callbacks == {"none", "armed", "code", "error", "timeout", "noBrowser"}
Ends      == {"none", "running", "up", "redirected", "failed"}

FlowRecord ==
  [pc : Pc, attempt : 0..MaxAttempts + 1, port : Port \cup {0}, saved : Port \cup {0},
   failed : SUBSET Port, first : Port \cup {0}, skip : BOOLEAN, held : ClientId,
   redirected : BOOLEAN, verdict : BOOLEAN,
   after : {"none", "choose", "pending", "authenticated", "other"},
   bootstrap : Ends, wait : Callbacks, code : AttemptId \cup {None}]

(* A call has a port once it has chosen one, a first port to return to     *)
(* once one has failed, and nothing left of an attempt that is over.       *)
WellFormed(r) ==
  /\ r.pc \in Before => r.attempt = 0
  /\ r.pc \in Chosen => r.port \in Port
  /\ r.pc = "choose" /\ r.attempt > 0 => r.first \in Port
  /\ r.pc = "stop" => r.after # "none" /\ (r.after = "choose" => r.first \in Port)
  /\ r.wait # "none" \/ r.bootstrap # "none" => r.pc \in Waits
  /\ r.code # None \/ r.verdict => r.pc \in Coded

Record == {r \in FlowRecord : WellFormed(r)}

Listener == [by : AttemptId, armed : BOOLEAN]
Disk     == [tokens : ClientId, client : ClientId, port : Port \cup {0}]

Typed ==
  /\ static \in BOOLEAN /\ taken \subseteq Port /\ disturbed \in BOOLEAN
  /\ flow \in [Flow -> Record]
  /\ client \in [Flow -> {"none", "open", "up", "closed"}]
  /\ result \in [Flow -> {"none", "authenticated", "other"}]
  /\ server \in [Port -> Listener \cup {None}]
  /\ pages \subseteq [of : AttemptId, port : Port]
  /\ disk \in Disk
  /\ registered \in {None, "ambient"} \cup Flow /\ displaced \subseteq Flow
  /\ exchanging \subseteq ClientId
  /\ late \subseteq [of : AttemptId, port : Port, held : ClientId]

(* A port is listened on by the present attempt of a call that is at it,   *)
(* and such an attempt listens on its port.                                *)
Held(p) ==
  server[p] # None =>
    LET f == server[p].by[1] IN
    /\ server[p].by = Attempt(f)
    /\ flow[f].pc \in Listening /\ flow[f].port = p

Holds(f) ==
  flow[f].pc \in Listening =>
    LET s == server[flow[f].port] IN
    s # None /\ s.by = Attempt(f) /\ (flow[f].wait = "armed" => s.armed)

Serving == (\A p \in Port : Held(p)) /\ (\A f \in Flow : Holds(f))

TypeInv == Typed /\ Serving /\ CodeIsOwn
-----------------------------------------------------------------------------
LEMMA ListenerIsNotNone == \A s \in Listener : s # None
BY SignInAssumption DEF Listener, AttemptId

LEMMA AttemptTyped ==
  ASSUME Typed, NEW f \in Flow
  PROVE  /\ flow[f] \in Record /\ flow[f] \in FlowRecord /\ WellFormed(flow[f])
         /\ Attempt(f) \in AttemptId /\ Attempt(f) \in ClientId
         /\ Attempt(f)[1] = f /\ Attempt(f)[2] = flow[f].attempt
BY DEF Typed, Record, FlowRecord, Attempt, AttemptId, ClientId

(* The initial states.                                                     *)
LEMMA InitTyped == Init => TypeInv
<1> SUFFICES ASSUME Init PROVE TypeInv
  OBVIOUS
<1>1. Fresh \in Record
  BY SignInAssumption DEF Fresh, Record, FlowRecord, WellFormed, Pc, Before,
     Chosen, Listening, Coded, Waits,
     Ends, Callbacks, ClientId
<1>2. (CHOOSE p \in Port : TRUE) \in Port
  BY SignInAssumption
<1>3. Typed
  <2>1. disk \in Disk
    <3>1. PICK id \in {None, IF static THEN Static ELSE Old}, kept \in BOOLEAN :
            disk = [tokens |-> IF kept THEN id ELSE None,
                    client |-> IF static THEN None ELSE id,
                    port |-> IF static \/ id = None THEN 0 ELSE CHOOSE p \in Port : TRUE]
      BY DEF Init
    <3>2. id \in ClientId /\ None \in ClientId
      BY DEF ClientId
    <3> QED
      BY <1>2, <3>1, <3>2 DEF Disk
  <2> QED
    BY <1>1, <1>2, <2>1 DEF Init, Typed
<1>4. Serving
  <2>1. \A p \in Port : server[p] = None
    BY DEF Init
  <2>2. \A f \in Flow : flow[f].pc = "new"
    BY DEF Init, Fresh
  <2> QED
    BY <2>1, <2>2 DEF Serving, Held, Holds, Listening, Coded, Waits
<1>5. CodeIsOwn
  BY DEF Init, Fresh, CodeIsOwn
<1> QED
  BY <1>3, <1>4, <1>5 DEF TypeInv
-----------------------------------------------------------------------------
(* What a step of one call must do to keep the ports in order.             *)

(* A step that leaves the attempt at its port, or away from any.           *)
LEMMA StaysPut ==
  ASSUME TypeInv, NEW f \in Flow, NEW r \in Record, flow' = [flow EXCEPT ![f] = r],
         server' = server,
         r.pc \in Listening <=> flow[f].pc \in Listening,
         r.pc \in Listening => r.attempt = flow[f].attempt /\ r.port = flow[f].port,
         r.wait = "armed" => flow[f].wait = "armed",
         r.code \in {None, <<f, r.attempt>>}
  PROVE  flow' \in [Flow -> Record] /\ Serving' /\ CodeIsOwn'
<1> USE DEF TypeInv
<1>0. flow \in [Flow -> Record]
  BY DEF Typed
<1>1. flow' \in [Flow -> Record]
  BY <1>0
<1>2. flow'[f] = r /\ \A g \in Flow \ {f} : flow'[g] = flow[g]
  BY <1>0
<1>3. \A p \in Port : Held(p)'
  <2> SUFFICES ASSUME NEW p \in Port, server[p] # None
               PROVE  LET g == server[p].by[1] IN
                      /\ server[p].by = <<g, flow'[g].attempt>>
                      /\ flow'[g].pc \in Listening /\ flow'[g].port = p
    BY DEF Held, Attempt
  <2>1. PICK g \in Flow : g = server[p].by[1]
    BY DEF Typed, Listener, AttemptId
  <2>2. /\ server[p].by = <<g, flow[g].attempt>>
        /\ flow[g].pc \in Listening /\ flow[g].port = p
    BY <2>1 DEF Serving, Held, Attempt
  <2> QED
    BY <1>2, <2>1, <2>2
<1>4. \A g \in Flow : Holds(g)'
  <2> SUFFICES ASSUME NEW g \in Flow, flow'[g].pc \in Listening
               PROVE  LET s == server[flow'[g].port] IN
                      s # None /\ s.by = <<g, flow'[g].attempt>>
                      /\ (flow'[g].wait = "armed" => s.armed)
    BY DEF Holds, Attempt
  <2>1. flow[g].pc \in Listening
    BY <1>2
  <2>2. LET s == server[flow[g].port] IN
        s # None /\ s.by = <<g, flow[g].attempt>> /\ (flow[g].wait = "armed" => s.armed)
    BY <2>1 DEF Serving, Holds, Attempt
  <2>3. CASE g = f
    <3>1. flow'[g] = r
      BY <1>2, <2>3
    <3>2. r.attempt = flow[g].attempt /\ r.port = flow[g].port
      BY <2>3, <3>1
    <3> QED
      BY <2>2, <2>3, <3>1, <3>2
  <2>4. CASE g # f
    BY <1>2, <2>2, <2>4
  <2> QED
    BY <2>3, <2>4
<1>5. CodeIsOwn'
  BY <1>2 DEF CodeIsOwn, Attempt
<1> QED
  BY <1>1, <1>3, <1>4, <1>5 DEF Serving

(* A step that leaves calls and ports alone.                               *)
LEMMA NothingMoves ==
  ASSUME TypeInv, flow' = flow, server' = server
  PROVE  flow' \in [Flow -> Record] /\ Serving' /\ CodeIsOwn'
BY DEF TypeInv, Typed, Serving, Held, Holds, CodeIsOwn, Attempt

(* Every field of a call in WellFormed is one of these.                    *)
LEMMA Fields ==
  ASSUME TypeInv, NEW f \in Flow
  PROVE  /\ flow \in [Flow -> Record]
         /\ flow[f] \in FlowRecord /\ WellFormed(flow[f])
         /\ flow[f].code \in {None, <<f, flow[f].attempt>>}
BY DEF TypeInv, Typed, Record, CodeIsOwn, Attempt

LEMMA GotoTyped ==
  ASSUME TypeInv, NEW f \in Flow, NEW pc \in Pc, Goto(f, pc), server' = server,
         pc \in Listening <=> flow[f].pc \in Listening,
         WellFormed([flow[f] EXCEPT !.pc = pc])
  PROVE  flow' \in [Flow -> Record] /\ Serving' /\ CodeIsOwn'
<1> DEFINE r == [flow[f] EXCEPT !.pc = pc]
<1>1. r \in FlowRecord /\ r.pc = pc /\ r.attempt = flow[f].attempt /\ r.port = flow[f].port
      /\ r.wait = flow[f].wait /\ r.code = flow[f].code
  BY Fields DEF FlowRecord
<1>2. r \in Record
  BY <1>1 DEF Record
<1>3. flow' = [flow EXCEPT ![f] = r]
  BY Fields DEF Goto
<1> HIDE DEF r
<1> QED
  BY <1>1, <1>2, <1>3, Fields, StaysPut

(* Before the attempts.                                                    *)
LEMMA EarlyGoto ==
  ASSUME TypeInv, NEW f \in Flow, NEW pc \in Before, flow[f].pc \in Before, Goto(f, pc),
         server' = server
  PROVE  flow' \in [Flow -> Record] /\ Serving' /\ CodeIsOwn'
<1> DEFINE r == [flow[f] EXCEPT !.pc = pc]
<1>1. flow[f].attempt = 0 /\ flow[f].wait = "none" /\ flow[f].bootstrap = "none"
      /\ flow[f].code = None /\ ~flow[f].verdict
  BY Fields DEF WellFormed, Before, Coded, Waits
<1>2. r.pc = pc /\ r.attempt = 0 /\ r.wait = "none" /\ r.bootstrap = "none" /\ r.code = None
      /\ r.verdict = flow[f].verdict
  BY <1>1, Fields DEF FlowRecord
<1> HIDE DEF r
<1>3. WellFormed(r)
  BY <1>1, <1>2 DEF WellFormed, Before, Chosen, Listening, Coded, Waits
<1>4. WellFormed([flow[f] EXCEPT !.pc = pc])
  BY <1>3 DEF r
<1>5. pc \in Pc /\ pc \notin Listening /\ flow[f].pc \notin Listening
  BY DEF Pc, Before, Listening, Coded, Waits
<1> QED
  BY <1>4, <1>5, GotoTyped

LEMMA FreshDone ==
  LET r == [Fresh EXCEPT !.pc = "done"]
  IN r \in Record /\ r.pc = "done" /\ r.wait = "none" /\ r.bootstrap = "none" /\ r.code = None
     /\ r.pc \notin Listening
<1> DEFINE r == [Fresh EXCEPT !.pc = "done"]
<1>1. Fresh \in FlowRecord /\ Fresh.wait = "none" /\ Fresh.bootstrap = "none" /\ Fresh.code = None
      /\ Fresh.verdict = FALSE
  BY SignInAssumption DEF Fresh, FlowRecord, Pc, Before, Ends, Callbacks, ClientId
<1>2. r \in FlowRecord /\ r.pc = "done" /\ r.wait = "none" /\ r.bootstrap = "none" /\ r.code = None
      /\ r.verdict = FALSE
  BY <1>1 DEF FlowRecord, Pc
<1> HIDE DEF r
<1>3. r \in Record /\ r.pc \notin Listening
  BY <1>2 DEF Record, WellFormed, Before, Chosen, Listening, Coded, Waits
<1> QED
  BY <1>2, <1>3 DEF r

LEMMA ReturnTyped ==
  ASSUME TypeInv, NEW f \in Flow, NEW answer \in {"authenticated", "other"},
         Return(f, answer), server' = server, flow[f].pc \notin Listening
  PROVE  /\ flow' \in [Flow -> Record] /\ Serving' /\ CodeIsOwn'
         /\ result' \in [Flow -> {"none", "authenticated", "other"}]
<1> DEFINE r == [Fresh EXCEPT !.pc = "done"]
<1>1. /\ r \in Record /\ r.pc \notin Listening /\ r.wait = "none" /\ r.bootstrap = "none"
      /\ r.code = None
      /\ flow' = [flow EXCEPT ![f] = r]
  BY FreshDone DEF Return
<1> HIDE DEF r
<1>2. flow' \in [Flow -> Record] /\ Serving' /\ CodeIsOwn'
  BY <1>1, StaysPut
<1>3. result' \in [Flow -> {"none", "authenticated", "other"}]
  BY DEF TypeInv, Typed, Return
<1> QED
  BY <1>2, <1>3

LEMMA LeaveTyped ==
  ASSUME TypeInv, NEW f \in Flow, NEW after \in {"pending", "authenticated", "other"},
         Leave(f, after), server' = server, flow[f].pc \in Coded
  PROVE  flow' \in [Flow -> Record] /\ Serving' /\ CodeIsOwn'
<1> DEFINE r == After(f, after)
<1>0. None \in ClientId /\ "stop" \in Pc /\ "none" \in Ends /\ "none" \in Callbacks
  BY DEF ClientId, Pc, Chosen, Listening, Ends, Callbacks
<1>1. /\ r \in FlowRecord /\ r.pc = "stop" /\ r.after = after /\ r.wait = "none"
      /\ r.bootstrap = "none"
      /\ r.code = None /\ r.attempt = flow[f].attempt /\ r.port = flow[f].port
      /\ r.verdict = FALSE
  BY <1>0, Fields DEF After, FlowRecord
<1>2. r \in Record
  BY <1>1, Fields DEF Record, WellFormed, Before, Chosen, Listening
<1>3. flow' = [flow EXCEPT ![f] = r]
  BY DEF Leave
<1>4. r.pc \in Listening /\ flow[f].pc \in Listening
  BY <1>1 DEF Listening
<1> HIDE DEF r
<1> QED
  BY <1>1, <1>2, <1>3, <1>4, StaysPut

LEMMA DecideTyped ==
  ASSUME TypeInv, NEW f \in Flow, NEW pc \in {"exchange", "exchangeUp"},
         Decide(f, pc), server' = server, flow[f].pc \in Waits
  PROVE  flow' \in [Flow -> Record] /\ Serving' /\ CodeIsOwn'
<1> DEFINE r == [flow[f] EXCEPT !.pc = pc, !.bootstrap = "none", !.wait = "none"]
<1>0. pc \in Pc /\ "none" \in Ends /\ "none" \in Callbacks
  BY DEF Pc, Chosen, Listening, Coded, Ends, Callbacks
<1>1. /\ r \in FlowRecord /\ r.pc = pc /\ r.wait = "none" /\ r.bootstrap = "none"
      /\ r.code = flow[f].code
      /\ r.attempt = flow[f].attempt /\ r.port = flow[f].port
  BY <1>0, Fields DEF FlowRecord
<1>2. r \in Record
  BY <1>1, Fields DEF Record, WellFormed, Before, Chosen, Listening, Coded
<1>3. flow' = [flow EXCEPT ![f] = r]
  BY Fields DEF Decide
<1>4. r.pc \in Listening /\ flow[f].pc \in Listening
  BY <1>1 DEF Listening, Coded
<1> HIDE DEF r
<1> QED
  BY <1>1, <1>2, <1>3, <1>4, Fields, StaysPut

(* A step on the way of the bootstrap or the callback: the attempt waits   *)
(* before and after it.                                                    *)
LEMMA WaitsOn ==
  ASSUME TypeInv, NEW f \in Flow, NEW r \in FlowRecord, flow[f].pc \in Waits,
         flow' = [flow EXCEPT ![f] = r], server' = server,
         r.pc \in Waits, r.attempt = flow[f].attempt, r.port = flow[f].port,
         r.wait = "armed" => flow[f].wait = "armed",
         r.code \in {None, <<f, r.attempt>>}
  PROVE  flow' \in [Flow -> Record] /\ Serving' /\ CodeIsOwn'
<1>1. r.pc \in Listening /\ flow[f].pc \in Listening
  BY DEF Listening, Coded
<1>2. r \in Record
  BY Fields DEF Record, WellFormed, Before, Chosen, Listening, Coded, Waits
<1> QED
  BY <1>1, <1>2, StaysPut

LEMMA NextAttemptTyped ==
  ASSUME TypeInv, NEW f \in Flow, NEW p \in Port, NEW skip \in BOOLEAN,
         At(f, "choose"), flow[f].attempt <= MaxAttempts, NextAttempt(f, p, skip),
         server' = server
  PROVE  flow' \in [Flow -> Record] /\ Serving' /\ CodeIsOwn'
<1> DEFINE r == [flow[f] EXCEPT !.attempt = flow[f].attempt + 1, !.port = p, !.skip = skip,
                               !.saved = 0, !.redirected = FALSE, !.pc = "prepare"]
<1>1. flow[f].attempt + 1 \in 0..MaxAttempts + 1
  BY Fields, SignInAssumption DEF FlowRecord
<1>2. /\ r \in FlowRecord /\ r.pc = "prepare" /\ r.wait = flow[f].wait
      /\ r.bootstrap = flow[f].bootstrap
      /\ r.code = flow[f].code /\ r.port = p /\ r.verdict = flow[f].verdict
  <2>1. "prepare" \in Pc /\ 0 \in Port \cup {0} /\ p \in Port \cup {0}
    BY DEF Pc, Chosen
  <2> QED
    BY <1>1, <2>1, Fields DEF FlowRecord
<1>3. flow[f].wait = "none" /\ flow[f].bootstrap = "none" /\ flow[f].code = None
      /\ ~flow[f].verdict
  BY Fields DEF At, WellFormed, Coded, Waits
<1>5. flow' = [flow EXCEPT ![f] = r]
  BY Fields DEF NextAttempt
<1> HIDE DEF r
<1>4. r \in Record
  BY <1>2, <1>3 DEF Record, WellFormed, Before
<1>6. r.pc \notin Listening /\ flow[f].pc \notin Listening
  BY <1>2 DEF Listening, Coded, Waits, At
<1> QED
  BY <1>2, <1>3, <1>4, <1>5, <1>6, StaysPut

(* A step that puts, or keeps, the attempt of a call on a port that no     *)
(* other attempt is on.                                                    *)
LEMMA ServesAt ==
  ASSUME TypeInv, NEW f \in Flow, NEW q \in Port, NEW r \in Record, NEW s \in Listener,
         flow' = [flow EXCEPT ![f] = r], server' = [server EXCEPT ![q] = s],
         r.pc \in Listening, r.port = q, r.attempt = flow[f].attempt,
         s.by = <<f, flow[f].attempt>>, r.wait = "armed" => s.armed,
         r.code \in {None, <<f, r.attempt>>}, flow[f].pc \in Listening => flow[f].port = q,
         server[q] = None \/ server[q].by = <<f, flow[f].attempt>>
  PROVE  /\ flow' \in [Flow -> Record] /\ Serving' /\ CodeIsOwn'
         /\ server' \in [Port -> Listener \cup {None}]
<1>1. server \in [Port -> Listener \cup {None}] /\ flow \in [Flow -> Record]
  BY DEF TypeInv, Typed
<1>2. s # None /\ s.by[1] = f
  BY ListenerIsNotNone
<1>3. /\ server'[q] = s /\ \A p \in Port \ {q} : server'[p] = server[p]
      /\ flow'[f] = r /\ \A g \in Flow \ {f} : flow'[g] = flow[g]
  BY <1>1
<1>4. \A p \in Port : Held(p)'
  <2> SUFFICES ASSUME NEW p \in Port, server'[p] # None
               PROVE  LET g == server'[p].by[1] IN
                      /\ server'[p].by = <<g, flow'[g].attempt>>
                      /\ flow'[g].pc \in Listening /\ flow'[g].port = p
    BY DEF Held, Attempt
  <2>1. CASE p = q
    BY <1>2, <1>3, <2>1
  <2>2. CASE p # q
    <3>1. PICK g \in Flow : g = server[p].by[1]
      BY <1>1, <1>3, <2>2 DEF Listener, AttemptId
    <3>2. /\ server[p].by = <<g, flow[g].attempt>>
          /\ flow[g].pc \in Listening /\ flow[g].port = p
      BY <1>3, <2>2, <3>1 DEF TypeInv, Serving, Held, Attempt
    <3>3. g # f
      BY <2>2, <3>2
    <3>4. server'[p] = server[p] /\ flow'[g] = flow[g]
      BY <1>3, <2>2, <3>3
    <3> QED
      BY <3>1, <3>2, <3>4
  <2> QED
    BY <2>1, <2>2
<1>5. \A g \in Flow : Holds(g)'
  <2> SUFFICES ASSUME NEW g \in Flow, flow'[g].pc \in Listening
               PROVE  LET t == server'[flow'[g].port] IN
                      t # None /\ t.by = <<g, flow'[g].attempt>>
                      /\ (flow'[g].wait = "armed" => t.armed)
    BY DEF Holds, Attempt
  <2>1. CASE g = f
    BY <1>2, <1>3, <2>1
  <2>2. CASE g # f
    <3>1. flow'[g] = flow[g] /\ flow[g].pc \in Listening
      BY <1>3, <2>2
    <3>2. LET t == server[flow[g].port] IN
          t # None /\ t.by = <<g, flow[g].attempt>> /\ (flow[g].wait = "armed" => t.armed)
      BY <3>1 DEF TypeInv, Serving, Holds, Attempt
    <3>3. flow[g].port \in Port /\ flow[g].port # q
      BY <2>2, <3>1, <3>2, Fields DEF WellFormed, Chosen
    <3> QED
      BY <1>3, <3>1, <3>2, <3>3
  <2> QED
    BY <2>1, <2>2
<1>6. CodeIsOwn'
  BY <1>3, Fields DEF CodeIsOwn, Attempt
<1> QED
  BY <1>1, <1>4, <1>5, <1>6 DEF Serving

LEMMA ListenTyped ==
  ASSUME TypeInv, NEW f \in Flow, Listen(f)
  PROVE  /\ flow' \in [Flow -> Record] /\ Serving' /\ CodeIsOwn'
         /\ server' \in [Port -> Listener \cup {None}]
<1> DEFINE r == [flow[f] EXCEPT !.pc = "listening"]
           s == [by |-> Attempt(f), armed |-> FALSE]
           q == flow[f].port
<1>1. flow[f].pc = "listen" /\ server[q] = None
  BY DEF Listen, At, Free
<1>2. q \in Port /\ flow[f].wait = "none" /\ flow[f].bootstrap = "none" /\ flow[f].code = None
      /\ flow[f].pc \notin Listening /\ ~flow[f].verdict
  BY <1>1, Fields DEF WellFormed, Chosen, Listening, Coded, Waits
<1>3. s \in Listener /\ s.by = <<f, flow[f].attempt>>
  BY AttemptTyped DEF TypeInv, Listener, Attempt
<1>4. /\ r \in FlowRecord /\ r.pc = "listening" /\ r.attempt = flow[f].attempt /\ r.port = q
      /\ r.wait = "none" /\ r.bootstrap = "none" /\ r.code = None
      /\ r.verdict = flow[f].verdict
  <2>1. "listening" \in Pc
    BY DEF Pc, Chosen, Listening
  <2> QED
    BY <1>2, <2>1, Fields DEF FlowRecord
<1>5. flow' = [flow EXCEPT ![f] = r] /\ server' = [server EXCEPT ![q] = s]
  BY Fields DEF Listen, Goto
<1> HIDE DEF r, s
<1>6. r \in Record /\ r.pc \in Listening
  BY <1>2, <1>4 DEF Record, WellFormed, Before, Listening
<1> QED
  BY <1>1, <1>2, <1>3, <1>4, <1>5, <1>6, ServesAt

(* The wait is armed on the server of the attempt.                         *)
LEMMA StartTyped ==
  ASSUME TypeInv, NEW f \in Flow, Start(f)
  PROVE  /\ flow' \in [Flow -> Record] /\ Serving' /\ CodeIsOwn'
         /\ server' \in [Port -> Listener \cup {None}]
<1> DEFINE r == [flow[f] EXCEPT !.pc = "waiting", !.bootstrap = "running", !.wait = "armed"]
           q == flow[f].port
           s == [server[q] EXCEPT !.armed = TRUE]
<1>1. flow[f].pc = "listening" /\ flow[f].pc \in Listening
  BY DEF Start, At, Listening
<1>2. q \in Port /\ flow[f].code = None
  BY <1>1, Fields DEF WellFormed, Chosen, Coded, Waits
<1>3. server \in [Port -> Listener \cup {None}]
  BY DEF TypeInv, Typed
<1>4. server[q] \in Listener /\ server[q].by = <<f, flow[f].attempt>>
  BY <1>1, <1>2, <1>3 DEF TypeInv, Serving, Holds, Attempt
<1>5. s \in Listener /\ s.by = <<f, flow[f].attempt>> /\ s.armed
  BY <1>4 DEF Listener
<1>6. /\ r \in FlowRecord /\ r.pc = "waiting" /\ r.attempt = flow[f].attempt /\ r.port = q
      /\ r.wait = "armed" /\ r.code = None
  <2>1. "waiting" \in Pc /\ "running" \in Ends /\ "armed" \in Callbacks
    BY DEF Pc, Chosen, Listening, Coded, Waits, Ends, Callbacks
  <2> QED
    BY <1>2, <2>1, Fields DEF FlowRecord
<1>7. flow' = [flow EXCEPT ![f] = r] /\ server' = [server EXCEPT ![q] = s]
  BY <1>2, <1>3, Fields DEF Start
<1> HIDE DEF r, s
<1>8. r \in Record /\ r.pc \in Listening
  BY <1>2, <1>6 DEF Record, WellFormed, Before, Listening, Coded, Waits
<1> QED
  BY <1>2, <1>4, <1>5, <1>6, <1>7, <1>8, ServesAt

(* The server is stopped; the attempt was the only one on its port.        *)
LEMMA StopTyped ==
  ASSUME TypeInv, NEW f \in Flow, Stop(f)
  PROVE  /\ flow' \in [Flow -> Record] /\ Serving' /\ CodeIsOwn'
         /\ server' \in [Port -> Listener \cup {None}]
         /\ result' \in [Flow -> {"none", "authenticated", "other"}]
<1> DEFINE q == flow[f].port
<1>1. flow[f].pc = "stop" /\ flow[f].pc \in Listening
  BY DEF Stop, At, Listening
<1>2. /\ q \in Port /\ flow[f].code = None /\ flow[f].wait = "none" /\ flow[f].bootstrap = "none"
      /\ ~flow[f].verdict
      /\ flow[f].after \in {"choose", "pending", "authenticated", "other"}
  BY <1>1, Fields DEF WellFormed, Chosen, Coded, Waits, FlowRecord
<1>3. server \in [Port -> Listener \cup {None}] /\ server' = [server EXCEPT ![q] = None]
  BY DEF TypeInv, Typed, Stop
<1>4. PICK r \in Record : /\ flow' = [flow EXCEPT ![f] = r] /\ r.pc \notin Listening
                          /\ r.code = None
  <2>1. CASE flow[f].after \in {"choose", "pending"}
    <3> DEFINE r == [flow[f] EXCEPT !.pc = flow[f].after]
    <3>1. flow' = [flow EXCEPT ![f] = r]
      BY <2>1, Fields DEF Stop, Goto
    <3>2. flow[f].after \in Pc \ Listening
      BY <2>1 DEF Pc, Listening, Coded, Waits
    <3>3. /\ r \in FlowRecord /\ r.pc = flow[f].after /\ r.first = flow[f].first
          /\ r.code = None /\ r.wait = "none" /\ r.bootstrap = "none"
          /\ r.verdict = flow[f].verdict
      BY <1>2, <3>2, Fields DEF FlowRecord
    <3> HIDE DEF r
    <3>4. r \in Record
      BY <1>1, <1>2, <2>1, <3>3, Fields
         DEF Record, WellFormed, Before, Chosen, Listening, Coded, Waits
    <3> QED
      BY <3>1, <3>2, <3>3, <3>4
  <2>2. CASE flow[f].after \in {"authenticated", "other"}
    <3>1. Return(f, flow[f].after)
      BY <2>2 DEF Stop
    <3> QED
      BY <3>1, FreshDone DEF Return
  <2> QED
    BY <1>2, <2>1, <2>2
<1>5. result' \in [Flow -> {"none", "authenticated", "other"}]
  <2>1. CASE flow[f].after \in {"choose", "pending"}
    BY <2>1 DEF Stop, TypeInv, Typed
  <2>2. CASE flow[f].after \in {"authenticated", "other"}
    BY <2>2 DEF Stop, Return, TypeInv, Typed
  <2> QED
    BY <1>2, <2>1, <2>2
<1>6. /\ server'[q] = None /\ \A p \in Port \ {q} : server'[p] = server[p]
      /\ flow'[f] = r /\ \A g \in Flow \ {f} : flow'[g] = flow[g]
  BY <1>2, <1>3, <1>4, Fields
<1>7. \A p \in Port : Held(p)'
  <2> SUFFICES ASSUME NEW p \in Port, p # q, server[p] # None
               PROVE  LET g == server[p].by[1] IN
                      /\ server[p].by = <<g, flow'[g].attempt>>
                      /\ flow'[g].pc \in Listening /\ flow'[g].port = p
    BY <1>6 DEF Held, Attempt
  <2>1. PICK g \in Flow : g = server[p].by[1]
    BY <1>3 DEF Listener, AttemptId
  <2>2. /\ server[p].by = <<g, flow[g].attempt>>
        /\ flow[g].pc \in Listening /\ flow[g].port = p
    BY <2>1 DEF TypeInv, Serving, Held, Attempt
  <2> QED
    BY <1>6, <2>1, <2>2
<1>8. \A g \in Flow : Holds(g)'
  <2> SUFFICES ASSUME NEW g \in Flow, flow'[g].pc \in Listening
               PROVE  LET t == server'[flow'[g].port] IN
                      t # None /\ t.by = <<g, flow'[g].attempt>>
                      /\ (flow'[g].wait = "armed" => t.armed)
    BY DEF Holds, Attempt
  <2>1. g # f /\ flow'[g] = flow[g] /\ flow[g].pc \in Listening
    BY <1>4, <1>6
  <2>2. LET t == server[flow[g].port] IN
        t # None /\ t.by = <<g, flow[g].attempt>> /\ (flow[g].wait = "armed" => t.armed)
    BY <2>1 DEF TypeInv, Serving, Holds, Attempt
  <2>3. server[q].by = <<f, flow[f].attempt>>
    BY <1>1 DEF TypeInv, Serving, Holds, Attempt
  <2>4. flow[g].port \in Port /\ flow[g].port # q
    BY <2>1, <2>2, <2>3, Fields DEF WellFormed, Chosen
  <2> QED
    BY <1>6, <2>1, <2>2, <2>4
<1>9. CodeIsOwn'
  BY <1>4, <1>6, Fields DEF CodeIsOwn, Attempt
<1> QED
  BY <1>3, <1>4, <1>5, <1>7, <1>8, <1>9, Fields DEF Serving
-----------------------------------------------------------------------------
(* The other steps that write fields of a call.                            *)

LEMMA ReadSavedPortTyped ==
  ASSUME TypeInv, NEW f \in Flow, ReadSavedPort(f)
  PROVE  flow' \in [Flow -> Record] /\ Serving' /\ CodeIsOwn'
<1> DEFINE r == [flow[f] EXCEPT !.saved = SavedPort, !.pc = "choose"]
<1>1. SavedPort \in Port \cup {0} /\ "choose" \in Pc
  BY DEF TypeInv, Typed, Disk, SavedPort, Pc
<1>2. /\ flow[f].pc = "ports" /\ flow[f].attempt = 0 /\ flow[f].wait = "none"
      /\ flow[f].bootstrap = "none"
      /\ flow[f].code = None /\ ~flow[f].verdict
  BY Fields DEF ReadSavedPort, At, WellFormed, Before, Coded, Waits
<1>3. r \in FlowRecord /\ r.pc = "choose" /\ r.attempt = 0 /\ r.wait = "none"
      /\ r.bootstrap = "none" /\ r.code = None /\ ~r.verdict
  <2>1. PICK saved \in Port \cup {0} : saved = SavedPort
    BY <1>1
  <2>2. r = [flow[f] EXCEPT !.saved = saved, !.pc = "choose"]
    BY <2>1
  <2> HIDE DEF r
  <2>3. r \in FlowRecord
    BY <1>1, <2>2, Fields DEF FlowRecord
  <2>4. /\ r.pc = "choose" /\ r.attempt = flow[f].attempt /\ r.wait = flow[f].wait
        /\ r.bootstrap = flow[f].bootstrap
        /\ r.code = flow[f].code /\ r.verdict = flow[f].verdict
    BY <2>2, Fields DEF FlowRecord
  <2> QED
    BY <1>2, <2>3, <2>4
<1>4. flow' = [flow EXCEPT ![f] = r]
  BY Fields DEF ReadSavedPort
<1>5. server' = server
  BY DEF ReadSavedPort, browser
<1> HIDE DEF r
<1>6. r \in Record
  BY <1>3 DEF Record, WellFormed, Before, Chosen, Listening, Coded, Waits
<1>7. r.pc \notin Listening /\ flow[f].pc \notin Listening
  BY <1>2, <1>3 DEF Listening, Coded, Waits
<1> QED
  BY <1>3, <1>4, <1>5, <1>6, <1>7, StaysPut

(* A change of the files, which may fail, keeps them files.                *)
LEMMA FilesTyped ==
  ASSUME disk \in Disk, disturbed \in BOOLEAN, NEW d \in Disk, SetFiles(d)
  PROVE  disk' \in Disk /\ disturbed' \in BOOLEAN
<1>1. PICK t \in {d, disk}, c \in {d, disk} :
        disk' = [tokens |-> t.tokens, client |-> c.client, port |-> c.port]
  BY DEF SetFiles
<1>2. disk' \in Disk
  BY <1>1 DEF Disk
<1>3. disturbed' \in BOOLEAN
  BY DEF SetFiles
<1> QED
  BY <1>2, <1>3

LEMMA ProvidedTyped ==
  ASSUME TypeInv, NEW f \in Flow
  PROVE  Provided(f) \in ClientId
BY DEF Provided, TypeInv, Typed, Disk, ClientId

LEMMA PrepareTyped ==
  ASSUME TypeInv, NEW f \in Flow, Prepare(f)
  PROVE  flow' \in [Flow -> Record] /\ Serving' /\ CodeIsOwn'
<1> DEFINE h == Provided(f)
           r == [flow[f] EXCEPT !.held = h, !.pc = "listen"]
<1>2. h \in ClientId /\ "listen" \in Pc
  BY ProvidedTyped DEF Pc, Chosen
<1>3. flow[f].pc = "prepare" /\ flow[f].port \in Port /\ flow[f].wait = "none"
      /\ flow[f].bootstrap = "none" /\ flow[f].code = None /\ ~flow[f].verdict
  BY Fields DEF Prepare, At, WellFormed, Chosen, Coded, Waits
<1> HIDE DEF h
<1>4. /\ r \in FlowRecord /\ r.pc = "listen" /\ r.wait = "none" /\ r.bootstrap = "none"
      /\ r.code = None /\ r.verdict = flow[f].verdict
      /\ r.port = flow[f].port
  BY <1>2, <1>3, Fields DEF FlowRecord
<1>5. flow' = [flow EXCEPT ![f] = r] /\ server' = server
  BY Fields DEF Prepare, browser, h
<1> HIDE DEF r
<1>6. r \in Record
  BY <1>3, <1>4 DEF Record, WellFormed, Before
<1>7. r.pc \notin Listening /\ flow[f].pc \notin Listening
  BY <1>3, <1>4 DEF Listening, Coded, Waits
<1> QED
  BY <1>4, <1>5, <1>6, <1>7, StaysPut

(* A step of the bootstrap leaves the attempt where it is.                 *)
LEMMA BootstrapTyped ==
  ASSUME TypeInv, NEW f \in Flow, Bootstrap(f)
  PROVE  flow' \in [Flow -> Record] /\ Serving' /\ CodeIsOwn'
<1>1. flow[f].pc \in {"waiting", "health"} /\ flow[f].pc \in Waits /\ server' = server
  BY DEF Bootstrap, Register, ProbeRejects, Redirect, BootstrapEnds, Authorizing, At, browser,
         Waits
<1>2. Attempt(f) \in ClientId
  BY AttemptTyped DEF TypeInv
<1>3. CASE Register(f)
  <2> DEFINE r == [flow[f] EXCEPT !.held = Attempt(f)]
  <2>1. /\ r \in FlowRecord /\ r.pc = flow[f].pc /\ r.attempt = flow[f].attempt
        /\ r.port = flow[f].port /\ r.wait = flow[f].wait /\ r.code = flow[f].code
        /\ r.bootstrap = flow[f].bootstrap
    BY <1>2, Fields DEF FlowRecord
  <2>2. flow' = [flow EXCEPT ![f] = r]
    BY <1>3, Fields DEF Register
  <2> HIDE DEF r
  <2> QED
    BY <1>1, <2>1, <2>2, Fields, WaitsOn
<1>4. CASE ProbeRejects(f)
  <2> DEFINE r == [flow[f] EXCEPT !.verdict = TRUE, !.redirected = TRUE]
  <2>1. /\ r \in FlowRecord /\ r.pc = flow[f].pc /\ r.attempt = flow[f].attempt
        /\ r.port = flow[f].port /\ r.wait = flow[f].wait /\ r.code = flow[f].code
        /\ r.bootstrap = flow[f].bootstrap
    BY Fields DEF FlowRecord
  <2>2. flow' = [flow EXCEPT ![f] = r]
    BY <1>4, Fields DEF ProbeRejects
  <2> HIDE DEF r
  <2> QED
    BY <1>1, <2>1, <2>2, Fields, WaitsOn
<1>5. CASE Redirect(f)
  <2> DEFINE r == [flow[f] EXCEPT !.redirected = TRUE]
  <2>1. /\ r \in FlowRecord /\ r.pc = flow[f].pc /\ r.attempt = flow[f].attempt
        /\ r.port = flow[f].port /\ r.wait = flow[f].wait /\ r.code = flow[f].code
        /\ r.bootstrap = flow[f].bootstrap
    BY Fields DEF FlowRecord
  <2>2. flow' = [flow EXCEPT ![f] = r]
    BY <1>5, Fields DEF Redirect
  <2> HIDE DEF r
  <2> QED
    BY <1>1, <2>1, <2>2, Fields, WaitsOn
<1>6. CASE BootstrapEnds(f)
  <2>1. PICK end \in Ends : flow' = [flow EXCEPT ![f].bootstrap = end]
    BY <1>6 DEF BootstrapEnds, Ends
  <2> DEFINE r == [flow[f] EXCEPT !.bootstrap = end]
  <2>2. /\ r \in FlowRecord /\ r.pc = flow[f].pc /\ r.attempt = flow[f].attempt
        /\ r.port = flow[f].port /\ r.wait = flow[f].wait /\ r.code = flow[f].code
    BY Fields DEF FlowRecord
  <2>3. flow' = [flow EXCEPT ![f] = r]
    BY <2>1, Fields
  <2> HIDE DEF r
  <2> QED
    BY <1>1, <2>2, <2>3, Fields, WaitsOn
<1> QED
  BY <1>3, <1>4, <1>5, <1>6 DEF Bootstrap

(* A callback is heard by the attempt whose page it comes from.            *)
LEMMA CallbackTyped ==
  ASSUME TypeInv, NEW page \in pages, NEW how \in {"code", "error"}, Callback(page, how)
  PROVE  flow' \in [Flow -> Record] /\ Serving' /\ CodeIsOwn'
<1>1. page \in [of : AttemptId, port : Port] /\ server' = server
  BY DEF TypeInv, Typed, Callback
<1>2. server[page.port] \in Listener /\ Held(page.port)
  BY <1>1 DEF TypeInv, Typed, Serving, Callback
<1>3. PICK f \in Flow : f = server[page.port].by[1]
  BY <1>2 DEF Listener, AttemptId
<1>4. server[page.port].by = <<f, flow[f].attempt>>
  BY <1>2, <1>3 DEF Held, Attempt, Callback
<1>5. CASE flow' = flow
  BY <1>1, <1>5, NothingMoves
<1>6. CASE /\ StateIsValid(page) /\ flow[f].wait = "armed"
           /\ flow' = [flow EXCEPT ![f].wait = how,
                                  ![f].code = IF how = "code" THEN page.of ELSE @]
  <2> DEFINE code == IF how = "code" THEN page.of ELSE flow[f].code
             r == [flow[f] EXCEPT !.wait = how, !.code = code]
  <2>1. page.of = <<f, flow[f].attempt>> /\ page.of \in AttemptId
    BY <1>1, <1>4, <1>6 DEF StateIsValid
  <2>2. flow[f].pc \in Waits
    BY <1>6, Fields DEF WellFormed
  <2>3. code \in {None, <<f, flow[f].attempt>>} /\ code \in AttemptId \cup {None}
    BY <2>1, Fields DEF FlowRecord
  <2>4. flow' = [flow EXCEPT ![f] = r]
    BY <1>6, Fields
  <2> HIDE DEF code
  <2>5. /\ r \in FlowRecord /\ r.pc = flow[f].pc /\ r.attempt = flow[f].attempt
        /\ r.port = flow[f].port /\ r.wait = how /\ r.code = code
    <3>1. how \in Callbacks
      BY DEF Callbacks
    <3> QED
      BY <2>3, <3>1, Fields DEF FlowRecord
  <2> HIDE DEF r
  <2> QED
    BY <1>1, <2>2, <2>3, <2>4, <2>5, WaitsOn
<1> QED
  BY <1>3, <1>5, <1>6 DEF Callback

LEMMA WaitTyped ==
  ASSUME TypeInv, NEW f \in Flow, WaitRunsOut(f) \/ NoBrowser(f)
  PROVE  flow' \in [Flow -> Record] /\ Serving' /\ CodeIsOwn'
<1>1. PICK how \in {"timeout", "noBrowser"} : flow' = [flow EXCEPT ![f].wait = how]
  BY DEF WaitRunsOut, NoBrowser
<1>2. flow[f].pc \in Waits /\ server' = server
  <2>1. flow[f].wait = "armed" /\ server' = server
    BY DEF WaitRunsOut, NoBrowser, browser
  <2> QED
    BY <2>1, Fields DEF WellFormed
<1> DEFINE r == [flow[f] EXCEPT !.wait = how]
<1>3. /\ r \in FlowRecord /\ r.pc = flow[f].pc /\ r.attempt = flow[f].attempt
      /\ r.port = flow[f].port /\ r.wait = how /\ r.code = flow[f].code
  <2>1. how \in Callbacks
    BY DEF Callbacks
  <2> QED
    BY <2>1, Fields DEF FlowRecord
<1>4. flow' = [flow EXCEPT ![f] = r]
  BY <1>1, Fields
<1> HIDE DEF r
<1> QED
  BY <1>2, <1>3, <1>4, Fields, WaitsOn

LEMMA RejectedTyped ==
  ASSUME TypeInv, NEW f \in Flow, Rejected(f)
  PROVE  flow' \in [Flow -> Record] /\ Serving' /\ CodeIsOwn'
<1> DEFINE after  == IF static THEN "other" ELSE "choose"
           failed == flow[f].failed \cup {flow[f].port}
           first  == IF flow[f].first = 0 THEN flow[f].port ELSE flow[f].first
           r == [After(f, after) EXCEPT !.failed = failed, !.first = first]
<1>1. flow[f].pc \in {"waiting", "health"} /\ server' = server
  BY DEF Rejected, At, browser
<1>2. flow[f].port \in Port /\ failed \in SUBSET Port /\ first \in Port
  BY <1>1, Fields DEF WellFormed, Chosen, Listening, Coded, Waits, FlowRecord
<1>3. flow' = [flow EXCEPT ![f] = r]
  BY DEF Rejected
<1>4. after \in {"other", "choose"}
  OBVIOUS
<1> HIDE DEF after, failed, first
<1>5. /\ r \in FlowRecord /\ r.pc = "stop" /\ r.after = after /\ r.wait = "none"
      /\ r.bootstrap = "none"
      /\ r.code = None /\ r.attempt = flow[f].attempt /\ r.port = flow[f].port
      /\ r.first = first /\ r.verdict = FALSE
  <2>1. None \in ClientId /\ "stop" \in Pc /\ "none" \in Ends /\ "none" \in Callbacks
    BY DEF ClientId, Pc, Chosen, Listening, Ends, Callbacks
  <2>2. /\ After(f, after) \in FlowRecord /\ After(f, after).pc = "stop"
        /\ After(f, after).after = after /\ After(f, after).wait = "none"
        /\ After(f, after).bootstrap = "none"
        /\ After(f, after).code = None /\ After(f, after).attempt = flow[f].attempt
        /\ After(f, after).port = flow[f].port /\ After(f, after).verdict = FALSE
    BY <1>4, <2>1, Fields DEF After, FlowRecord
  <2> QED
    BY <1>2, <2>2 DEF FlowRecord
<1> HIDE DEF r
<1>6. r \in Record
  BY <1>2, <1>4, <1>5 DEF Record, WellFormed, Before, Waits
<1>7. r.pc \in Listening /\ flow[f].pc \in Listening
  BY <1>1, <1>5 DEF Listening, Coded, Waits
<1> QED
  BY <1>1, <1>3, <1>5, <1>6, <1>7, StaysPut
-----------------------------------------------------------------------------
(* Every step of a call, by what it does to the ports.                     *)

LEMMA PreparingTyped ==
  ASSUME TypeInv, NEW f \in Flow, Preparing(f) \/ Begin(f)
  PROVE  /\ flow' \in [Flow -> Record] /\ Serving' /\ CodeIsOwn'
         /\ server' \in [Port -> Listener \cup {None}]
         /\ result' \in [Flow -> {"none", "authenticated", "other"}]
<1>0. /\ server \in [Port -> Listener \cup {None}]
      /\ result \in [Flow -> {"none", "authenticated", "other"}]
  BY DEF TypeInv, Typed
<1>1. CASE Begin(f)
  <2>1. PICK pc \in {"evict", "check"} : Goto(f, pc)
    BY <1>1 DEF Begin
  <2>2. At(f, "new") /\ server' = server /\ result' = result
    BY <1>1 DEF Begin, browser
  <2> QED
    BY <1>0, <2>1, <2>2, EarlyGoto DEF At, Before
<1>2. CASE Evict(f) \/ Evicted(f) \/ Wipe(f) \/ NotSignedIn(f)
  <2>1. PICK pc \in {"evicting", "wipe", "ports"} : Goto(f, pc)
    BY <1>2 DEF Evict, Evicted, Wipe, NotSignedIn
  <2>2. flow[f].pc \in Before /\ server' = server /\ result' = result
    BY <1>2 DEF Evict, Evicted, Wipe, NotSignedIn, At, Before, browser
  <2> QED
    BY <1>0, <2>1, <2>2, EarlyGoto DEF Before
<1>3. CASE AlreadySignedIn(f) \/ NoPort(f) \/ CannotListen(f)
  <2>1. Return(f, "other") /\ server' = server
    BY <1>3 DEF AlreadySignedIn, NoPort, CannotListen, browser
  <2>2. flow[f].pc \notin Listening
    BY <1>3 DEF AlreadySignedIn, NoPort, CannotListen, At, Listening, Coded, Waits
  <2> QED
    BY <1>0, <2>1, <2>2, ReturnTyped
<1>4. CASE ReadSavedPort(f)
  BY <1>0, <1>4, ReadSavedPortTyped DEF ReadSavedPort, browser
<1>5. CASE ChoosePort(f)
  <2>1. PICK p \in Port, skip \in BOOLEAN : NextAttempt(f, p, skip)
    BY <1>5 DEF ChoosePort
  <2>2. /\ At(f, "choose") /\ flow[f].attempt <= MaxAttempts
        /\ server' = server /\ result' = result
    BY <1>5, Fields, SignInAssumption DEF ChoosePort, browser, FlowRecord
  <2> QED
    BY <1>0, <2>1, <2>2, NextAttemptTyped
<1>6. CASE Floor(f)
  <2>1. At(f, "choose") /\ flow[f].attempt = MaxAttempts /\ server' = server /\ result' = result
    BY <1>6 DEF Floor, browser
  <2>2. flow[f].first \in Port
    BY <2>1, Fields, SignInAssumption DEF At, WellFormed
  <2>3. PICK p \in Port, skip \in BOOLEAN : NextAttempt(f, p, skip)
    BY <1>6, <2>2 DEF Floor
  <2>4. flow[f].attempt <= MaxAttempts
    BY <2>1, SignInAssumption
  <2> QED
    BY <1>0, <2>1, <2>3, <2>4, NextAttemptTyped
<1>7. CASE Prepare(f)
  BY <1>0, <1>7, PrepareTyped DEF Prepare, browser
<1>8. CASE Listen(f)
  BY <1>0, <1>8, ListenTyped DEF Listen
<1>9. CASE Start(f)
  BY <1>0, <1>9, StartTyped DEF Start
<1> QED
  BY <1>1, <1>2, <1>3, <1>4, <1>5, <1>6, <1>7, <1>8, <1>9 DEF Preparing

LEMMA SettlingTyped ==
  ASSUME TypeInv, NEW f \in Flow, Settling(f)
  PROVE  /\ flow' \in [Flow -> Record] /\ Serving' /\ CodeIsOwn'
         /\ server' \in [Port -> Listener \cup {None}]
         /\ result' \in [Flow -> {"none", "authenticated", "other"}]
<1>0. /\ server \in [Port -> Listener \cup {None}]
      /\ result \in [Flow -> {"none", "authenticated", "other"}]
  BY DEF TypeInv, Typed
<1>1. CASE GotCode(f)
  <2>1. PICK pc \in {"exchange", "exchangeUp"} : Decide(f, pc)
    BY <1>1 DEF GotCode
  <2>2. flow[f].pc \in Waits /\ server' = server /\ result' = result
    BY <1>1 DEF GotCode, Waiting, Waits, browser
  <2> QED
    BY <1>0, <2>1, <2>2, DecideTyped
<1>2. CASE BootstrapConnected(f)
  <2> DEFINE r == [flow[f] EXCEPT !.pc = "health", !.bootstrap = "none"]
  <2>1. flow[f].pc \in Waits /\ server' = server /\ result' = result
    BY <1>2 DEF BootstrapConnected, At, Waits, browser
  <2>2. /\ r \in FlowRecord /\ r.pc = "health" /\ r.attempt = flow[f].attempt
        /\ r.port = flow[f].port /\ r.wait = flow[f].wait /\ r.code = flow[f].code
    <3>1. "health" \in Pc /\ "none" \in Ends
      BY DEF Pc, Chosen, Listening, Coded, Waits, Ends
    <3> QED
      BY <3>1, Fields DEF FlowRecord
  <2>3. flow' = [flow EXCEPT ![f] = r]
    BY <1>2, Fields DEF BootstrapConnected
  <2> HIDE DEF r
  <2>4. r.pc \in Waits
    BY <2>2 DEF Waits
  <2> QED
    BY <1>0, <2>1, <2>2, <2>3, <2>4, Fields, WaitsOn
<1>8. CASE SignInBegun(f)
  <2> DEFINE r == [flow[f] EXCEPT !.pc = "waitingUp"]
  <2>1. flow[f].pc \in Waits /\ server' = server /\ result' = result
    BY <1>8 DEF SignInBegun, At, Waits, browser
  <2>2. /\ r \in FlowRecord /\ r.pc = "waitingUp" /\ r.attempt = flow[f].attempt
        /\ r.port = flow[f].port /\ r.wait = flow[f].wait /\ r.code = flow[f].code
    <3>1. "waitingUp" \in Pc
      BY DEF Pc, Chosen, Listening, Coded, Waits
    <3> QED
      BY <3>1, Fields DEF FlowRecord
  <2>3. flow' = [flow EXCEPT ![f] = r]
    BY <1>8, Fields DEF SignInBegun, Goto
  <2> HIDE DEF r
  <2>4. r.pc \in Waits
    BY <2>2 DEF Waits
  <2> QED
    BY <1>0, <2>1, <2>2, <2>3, <2>4, Fields, WaitsOn
<1>3. CASE \/ SetupFailed(f) \/ ProviderError(f) \/ BrowserUnavailable(f) \/ WaitEnded(f)
           \/ ExchangeFails(f) \/ ExchangeTimesOut(f) \/ Verified(f) \/ NotVerified(f)
  <2>1. PICK after \in {"pending", "authenticated", "other"} : Leave(f, after)
    BY <1>3 DEF SetupFailed, ProviderError, BrowserUnavailable, WaitEnded, ExchangeFails,
                ExchangeTimesOut, Verified, NotVerified
  <2>2. server' = server /\ result' = result
    BY <1>3 DEF SetupFailed, ProviderError, BrowserUnavailable, WaitEnded, ExchangeFails,
                ExchangeTimesOut, Verified, NotVerified, browser
  <2>3. flow[f].pc \in Coded
    BY <1>3 DEF SetupFailed, ProviderError, BrowserUnavailable, WaitEnded, ExchangeFails,
                ExchangeTimesOut, Verified, NotVerified, Verifying, At, Waiting, Exchanging,
                Coded, Waits
  <2> QED
    BY <1>0, <2>1, <2>2, <2>3, LeaveTyped
<1>4. CASE Rejected(f)
  BY <1>0, <1>4, RejectedTyped DEF Rejected, browser
<1>5. CASE Exchange(f)
  <2>1. Goto(f, "verify") /\ server' = server /\ result' = result
    BY <1>5 DEF Exchange, browser
  <2>2. /\ flow[f].pc \in {"exchange", "exchangeUp"} /\ flow[f].pc \in Listening
        /\ "verify" \in Pc /\ "verify" \in Listening
    BY <1>5 DEF Exchange, Exchanging, Pc, Chosen, Listening, Coded
  <2>3. WellFormed([flow[f] EXCEPT !.pc = "verify"])
    <3> DEFINE r == [flow[f] EXCEPT !.pc = "verify"]
    <3>1. r.pc = "verify" /\ r.port = flow[f].port /\ r.wait = flow[f].wait
          /\ r.bootstrap = flow[f].bootstrap
      BY Fields DEF FlowRecord
    <3>2. flow[f].port \in Port /\ flow[f].wait = "none" /\ flow[f].bootstrap = "none"
      BY <2>2, Fields DEF WellFormed, Chosen, Waits
    <3> HIDE DEF r
    <3>3. WellFormed(r)
      BY <3>1, <3>2 DEF WellFormed, Before, Coded
    <3> QED
      BY <3>3 DEF r
  <2> QED
    BY <1>0, <2>1, <2>2, <2>3, GotoTyped
<1>6. CASE Stop(f)
  BY <1>6, StopTyped
<1>7. CASE Pending(f)
  <2>1. Return(f, "other") /\ server' = server /\ flow[f].pc \notin Listening
    BY <1>7 DEF Pending, At, Listening, Coded, Waits, browser
  <2> QED
    BY <1>0, <2>1, ReturnTyped
<1> QED
  BY <1>1, <1>2, <1>3, <1>4, <1>5, <1>6, <1>7, <1>8 DEF Settling

(* What is neither a call, nor a result, nor a port.                       *)
Rest ==
  /\ static \in BOOLEAN /\ taken \subseteq Port /\ disturbed \in BOOLEAN
  /\ client \in [Flow -> {"none", "open", "up", "closed"}]
  /\ pages \subseteq [of : AttemptId, port : Port]
  /\ disk \in Disk
  /\ registered \in {None, "ambient"} \cup Flow /\ displaced \subseteq Flow
  /\ exchanging \subseteq ClientId
  /\ late \subseteq [of : AttemptId, port : Port, held : ClientId]

LEMMA PutTyped ==
  ASSUME Rest, NEW f \in Flow, Put(f) \/ Take
  PROVE  registered' \in {None, "ambient"} \cup Flow /\ displaced' \subseteq Flow
BY DEF Rest, Put, Take, Losing

LEMMA PreparingRest ==
  ASSUME TypeInv, NEW f \in Flow, Preparing(f) \/ Begin(f)
  PROVE  Rest'
<1> USE DEF config, run, browser, map, beyond
<1>0. Rest
  BY DEF TypeInv, Typed, Rest
<1>1. CASE Begin(f)
  BY <1>0, <1>1 DEF Begin, Rest, files
<1>2. CASE Evict(f) \/ Evicted(f) \/ AlreadySignedIn(f) \/ NotSignedIn(f)
  <2>1. registered' \in {None, "ambient"} \cup Flow /\ displaced' \subseteq Flow
    BY <1>0, <1>2 DEF Evict, Evicted, AlreadySignedIn, NotSignedIn, Take, Losing, Rest
  <2>2. client' \in [Flow -> {"none", "open", "up", "closed"}]
    BY <1>0, <1>2 DEF Evict, Evicted, AlreadySignedIn, NotSignedIn, Rest
  <2> QED
    BY <1>0, <1>2, <2>1, <2>2 DEF Evict, Evicted, AlreadySignedIn, NotSignedIn, Rest, files
<1>6. CASE Wipe(f)
  <2>1. NoFiles \in Disk
    BY DEF NoFiles, Disk, ClientId
  <2>2. disk' \in Disk /\ disturbed' \in BOOLEAN
    BY <1>0, <1>6, <2>1, FilesTyped DEF Wipe, Rest
  <2> QED
    BY <1>0, <1>6, <2>2 DEF Wipe, Rest
<1>3. CASE ReadSavedPort(f) \/ ChoosePort(f) \/ NoPort(f) \/ Floor(f) \/ CannotListen(f)
  BY <1>0, <1>3 DEF ReadSavedPort, ChoosePort, NoPort, Floor, CannotListen, Rest, files
<1>4. CASE Prepare(f)
  <2>1. NoFiles \in Disk
    BY DEF NoFiles, Disk, ClientId
  <2>2. disk' \in Disk /\ disturbed' \in BOOLEAN
    BY <1>0, <1>4, <2>1, FilesTyped DEF Prepare, Rest, files
  <2>3. registered' \in {None, "ambient"} \cup Flow /\ displaced' \subseteq Flow
    BY <1>0, <1>4, PutTyped DEF Prepare
  <2> QED
    BY <1>0, <1>4, <2>2, <2>3 DEF Prepare, Rest
<1>5. CASE Listen(f) \/ Start(f)
  BY <1>0, <1>5 DEF Listen, Start, Rest, files
<1> QED
  BY <1>1, <1>2, <1>3, <1>4, <1>5, <1>6 DEF Preparing

LEMMA BootstrapRest ==
  ASSUME TypeInv, NEW f \in Flow, Bootstrap(f)
  PROVE  Rest'
<1> USE DEF config, run, browser, map, beyond
<1>0. Rest
  BY DEF TypeInv, Typed, Rest
<1>1. flow[f].port \in Port /\ Attempt(f) \in AttemptId /\ Attempt(f) \in ClientId
  <2>1. flow[f].pc \in {"waiting", "health"}
    BY DEF Bootstrap, Register, ProbeRejects, Redirect, BootstrapEnds, Authorizing, At
  <2> QED
    BY <2>1, Fields, AttemptTyped DEF TypeInv, WellFormed, Chosen, Listening, Coded, Waits
<1>2. CASE Register(f)
  <2>1. [disk EXCEPT !.client = Attempt(f), !.port = flow[f].port] \in Disk
    BY <1>0, <1>1 DEF Rest, Disk
  <2>2. disk' \in Disk /\ disturbed' \in BOOLEAN
    BY <1>0, <1>2, <2>1, FilesTyped DEF Register, Rest
  <2> QED
    BY <1>0, <1>2, <2>2 DEF Register, Rest
<1>3. CASE Redirect(f)
  BY <1>0, <1>1, <1>3 DEF Redirect, Rest, files
<1>4. CASE ProbeRejects(f)
  BY <1>0, <1>4 DEF ProbeRejects, Rest, files
<1>5. CASE BootstrapEnds(f)
  BY <1>0, <1>5 DEF BootstrapEnds, Rest, files
<1> QED
  BY <1>2, <1>3, <1>4, <1>5 DEF Bootstrap

LEMMA BehindTyped ==
  ASSUME TypeInv, NEW f \in Flow, flow[f].pc \in Coded, LeaveBehind(f)
  PROVE  late' \subseteq [of : AttemptId, port : Port, held : ClientId]
<1>1. flow[f].port \in Port /\ Attempt(f) \in AttemptId /\ flow[f].held \in ClientId
  BY Fields, AttemptTyped DEF TypeInv, WellFormed, Chosen, Listening, FlowRecord
<1> QED
  BY <1>1 DEF LeaveBehind, TypeInv, Typed

LEMMA SettlingRest ==
  ASSUME TypeInv, NEW f \in Flow, Settling(f)
  PROVE  Rest'
<1> USE DEF config, run, browser, map, beyond
<1>0. Rest /\ flow[f].held \in ClientId /\ None \in ClientId
  BY Fields DEF TypeInv, Typed, Rest, FlowRecord, ClientId
<1>t. [disk EXCEPT !.tokens = flow[f].held] \in Disk
  BY <1>0 DEF Rest, Disk
<1>1. CASE GotCode(f) \/ SignInBegun(f)
  BY <1>0, <1>1 DEF GotCode, SignInBegun, Rest, files
<1>2. CASE BootstrapConnected(f)
  BY <1>0, <1>2, PutTyped DEF BootstrapConnected, Rest, files
<1>3. CASE ProviderError(f) \/ BrowserUnavailable(f) \/ WaitEnded(f)
  BY <1>0, <1>3 DEF ProviderError, BrowserUnavailable, WaitEnded, Discard, Rest, files
<1>4. CASE SetupFailed(f) \/ Verified(f) \/ NotVerified(f)
  <2>1. flow[f].pc \in Coded /\ LeaveBehind(f)
    BY <1>4 DEF SetupFailed, Verified, NotVerified, Verifying, At, Coded, Waits
  <2>2. late' \subseteq [of : AttemptId, port : Port, held : ClientId]
    BY <2>1, BehindTyped
  <2> QED
    BY <1>0, <1>4, <2>2 DEF SetupFailed, Verified, NotVerified, Discard, Rest, files
<1>5. CASE Rejected(f)
  <2>1. [disk EXCEPT !.client = None, !.port = 0] \in Disk
    BY <1>0 DEF Rest, Disk
  <2>2. disk' \in Disk /\ disturbed' \in BOOLEAN
    BY <1>0, <1>5, <2>1, FilesTyped DEF Rejected, Rest, files
  <2> QED
    BY <1>0, <1>5, <2>2 DEF Rejected, Rest
<1>6. CASE Exchange(f)
  <2>1. disk' \in Disk /\ disturbed' \in BOOLEAN
    BY <1>0, <1>t, <1>6, FilesTyped DEF Exchange, Rest
  <2>2. registered' \in {None, "ambient"} \cup Flow /\ displaced' \subseteq Flow
    BY <1>0, <1>6, PutTyped DEF Exchange, Rest
  <2> QED
    BY <1>0, <1>6, <2>1, <2>2 DEF Exchange, Rest
<1>7. CASE ExchangeFails(f)
  <2>1. disk' \in Disk /\ disturbed' \in BOOLEAN
    BY <1>0, <1>t, <1>7, FilesTyped DEF ExchangeFails, Rest, files
  <2> QED
    BY <1>0, <1>7, <2>1 DEF ExchangeFails, Discard, Rest
<1>8. CASE ExchangeTimesOut(f)
  BY <1>0, <1>8 DEF ExchangeTimesOut, Discard, Rest, files
<1>9. CASE Stop(f)
  BY <1>0, <1>9 DEF Stop, Rest, files
<1>10. CASE Pending(f)
  BY <1>0, <1>10, PutTyped DEF Pending, Rest, files
<1> QED
  BY <1>1, <1>2, <1>3, <1>4, <1>5, <1>6, <1>7, <1>8, <1>9, <1>10 DEF Settling

(* What ended attempts have left behind.                                   *)
LEMMA LateRest ==
  ASSUME TypeInv, NEW l \in late, LateRegister(l) \/ LateRedirect(l) \/ LateEnds(l)
  PROVE  Rest'
<1>0. Rest /\ l \in [of : AttemptId, port : Port, held : ClientId]
  BY DEF TypeInv, Typed, Rest
<1>1. l.of \in AttemptId /\ l.of \in ClientId /\ l.port \in Port
  BY <1>0 DEF ClientId
<1>2. CASE LateRegister(l)
  <2>1. [disk EXCEPT !.client = l.of, !.port = l.port] \in Disk
    BY <1>0, <1>1 DEF Rest, Disk
  <2>2. disk' \in Disk /\ disturbed' \in BOOLEAN
    BY <1>0, <1>2, <2>1, FilesTyped DEF LateRegister, Rest
  <2>3. [l EXCEPT !.held = l.of] \in [of : AttemptId, port : Port, held : ClientId]
    BY <1>0, <1>1
  <2> QED
    BY <1>0, <1>2, <2>2, <2>3 DEF LateRegister, Rest, config, run, browser, map
<1>3. CASE LateRedirect(l)
  BY <1>0, <1>1, <1>3 DEF LateRedirect, Rest, config, run, files, map
<1>4. CASE LateEnds(l)
  BY <1>0, <1>4 DEF LateEnds, Rest, config, run, browser, files, map
<1> QED
  BY <1>2, <1>3, <1>4

LEMMA StepTyped == TypeInv /\ [Next]_vars => TypeInv'
<1> SUFFICES ASSUME TypeInv, [Next]_vars PROVE TypeInv'
  OBVIOUS
<1>0. Rest /\ Typed /\ Serving /\ CodeIsOwn
  BY DEF TypeInv, Typed, Rest
<1>1. ASSUME Rest', flow' \in [Flow -> Record], Serving', CodeIsOwn',
             server' \in [Port -> Listener \cup {None}],
             result' \in [Flow -> {"none", "authenticated", "other"}]
      PROVE  TypeInv'
  BY <1>1 DEF TypeInv, Typed, Rest
<1>2. ASSUME NEW f \in Flow, Begin(f) \/ Preparing(f) PROVE TypeInv'
  BY <1>1, <1>2, PreparingTyped, PreparingRest
<1>3. ASSUME NEW f \in Flow, Bootstrap(f) PROVE TypeInv'
  <2>1. server' = server /\ result' = result
    BY <1>3 DEF Bootstrap, Register, ProbeRejects, Redirect, BootstrapEnds, browser
  <2> QED
    BY <1>0, <1>1, <1>3, <2>1, BootstrapTyped, BootstrapRest DEF Typed
<1>4. ASSUME NEW f \in Flow, Settling(f) PROVE TypeInv'
  BY <1>1, <1>4, SettlingTyped, SettlingRest
<1>5. ASSUME NEW f \in Flow, WaitRunsOut(f) \/ NoBrowser(f) PROVE TypeInv'
  <2>1. server' = server /\ result' = result
    BY <1>5 DEF WaitRunsOut, NoBrowser, browser
  <2>2. Rest'
    BY <1>0, <1>5 DEF WaitRunsOut, NoBrowser, config, browser, files, map, beyond, Rest
  <2> QED
    BY <1>0, <1>1, <1>5, <2>1, <2>2, WaitTyped DEF Typed
<1>6. ASSUME NEW page \in pages, NEW how \in {"code", "error"}, Callback(page, how)
      PROVE  TypeInv'
  <2>1. server' = server /\ result' = result
    BY <1>6 DEF Callback
  <2>2. Rest'
    BY <1>0, <1>6 DEF Callback, Rest, config, files, map, beyond
  <2> QED
    BY <1>0, <1>1, <1>6, <2>1, <2>2, CallbackTyped DEF Typed
<1>7. ASSUME NEW id \in exchanging, LateExchange(id) PROVE TypeInv'
  <2>1. server' = server /\ result' = result /\ flow' = flow
    BY <1>7 DEF LateExchange, run, browser
  <2>2. [disk EXCEPT !.tokens = id] \in Disk
    BY <1>0 DEF Rest, Disk
  <2>3. disk' \in Disk /\ disturbed' \in BOOLEAN
    BY <1>0, <1>7, <2>2, FilesTyped DEF LateExchange, Rest, files
  <2>4. Rest'
    BY <1>0, <1>7, <2>3 DEF LateExchange, config, run, browser, map, Rest
  <2> QED
    BY <1>0, <1>1, <2>1, <2>4, NothingMoves DEF Typed
<1>9. ASSUME NEW l \in late, LateRegister(l) \/ LateRedirect(l) \/ LateEnds(l) PROVE TypeInv'
  <2>1. server' = server /\ result' = result /\ flow' = flow
    BY <1>9 DEF LateRegister, LateRedirect, LateEnds, run, browser
  <2> QED
    BY <1>0, <1>1, <1>9, <2>1, LateRest, NothingMoves DEF Typed
<1>8. CASE UNCHANGED vars
  <2>1. server' = server /\ result' = result /\ flow' = flow
    BY <1>8 DEF vars, config, run, browser, files, map, beyond
  <2>2. Rest'
    BY <1>0, <1>8 DEF vars, config, run, browser, files, map, beyond, Rest
  <2> QED
    BY <1>0, <1>1, <2>1, <2>2, NothingMoves DEF Typed
<1> QED
  BY <1>2, <1>3, <1>4, <1>5, <1>6, <1>7, <1>8, <1>9 DEF Next

LEMMA Invariance == Spec => []TypeInv
BY InitTyped, StepTyped, PTL DEF Spec

(* Every variable has its type in every reachable state.                   *)
THEOREM TypeCorrect == Spec => []TypeOK
<1>1. TypeInv => TypeOK
  <2> SUFFICES ASSUME TypeInv PROVE TypeOK
    OBVIOUS
  <2>1. ASSUME NEW f \in Flow
        PROVE  /\ flow[f].attempt \in 0..MaxAttempts + 1 /\ flow[f].port \in Port \cup {0}
               /\ flow[f].failed \subseteq Port /\ flow[f].held \in ClientId
               /\ flow[f].saved \in Port \cup {0} /\ flow[f].first \in Port \cup {0}
               /\ flow[f].bootstrap \in Ends /\ flow[f].wait \in Callbacks
    BY Fields DEF FlowRecord
  <2>2. ASSUME NEW f \in Flow, flow[f].wait = "armed"
        PROVE  server[flow[f].port] = [by |-> Attempt(f), armed |-> TRUE]
    <3>1. flow[f].pc \in Listening /\ flow[f].port \in Port
      BY <2>2, Fields DEF WellFormed, Chosen, Listening, Coded
    <3>2. server[flow[f].port] \in Listener
      BY <3>1 DEF TypeInv, Typed, Serving, Holds
    <3> QED
      BY <2>2, <3>1, <3>2 DEF TypeInv, Serving, Holds, Listener
  <2> QED
    BY <2>1, <2>2 DEF TypeInv, Typed, TypeOK, Ends, Callbacks, Listener, Disk
<1> QED
  BY <1>1, Invariance, PTL

(* The code a call of handlers/authenticate.ts exchanges came from the     *)
(* page of its own present attempt, whatever pages were left open and      *)
(* whichever attempts have listened on the port before.                    *)
THEOREM CodesAreOwn == Spec => []CodeIsOwn
<1>1. TypeInv => CodeIsOwn
  BY DEF TypeInv
<1> QED
  BY <1>1, Invariance, PTL

(* However an attempt ends, its port has been released when the call       *)
(* returns or goes on to another.                                          *)
THEOREM PortsReleased == Spec => []PortsAreReleased
<1>1. TypeInv => PortsAreReleased
  <2> SUFFICES ASSUME TypeInv, NEW p \in Port, server[p] # None
               PROVE  LET a == server[p].by IN
                      flow[a[1]].attempt = a[2] /\ Active(a[1])
                      /\ ~At(a[1], "choose") /\ ~At(a[1], "pending")
    BY DEF PortsAreReleased
  <2>1. Held(p)
    BY DEF TypeInv, Serving
  <2> QED
    BY <2>1 DEF Held, Attempt, Active, At, Listening, Coded, Waits
<1> QED
  BY <1>1, Invariance, PTL
-----------------------------------------------------------------------------
(* What a step of one call leaves of its record, field by field.           *)
Authorized == {"waiting", "health"}

Others(f) == \A g \in Flow \ {f} : flow'[g] = flow[g]

(* The part of an attempt that only its beginning sets.                    *)
Kept(f) ==
  /\ flow'[f].attempt = flow[f].attempt /\ flow'[f].port = flow[f].port
  /\ flow'[f].saved = flow[f].saved

LEMMA GotoFields ==
  ASSUME TypeInv, NEW f \in Flow, NEW pc, Goto(f, pc)
  PROVE  /\ Others(f) /\ Kept(f) /\ flow'[f].pc = pc /\ flow'[f].after = flow[f].after
         /\ flow'[f].held = flow[f].held /\ flow'[f].skip = flow[f].skip
         /\ flow'[f].bootstrap = flow[f].bootstrap /\ flow'[f].verdict = flow[f].verdict
BY Fields DEF Goto, Others, Kept, FlowRecord

LEMMA DecideFields ==
  ASSUME TypeInv, NEW f \in Flow, NEW pc, Decide(f, pc)
  PROVE  Others(f) /\ flow'[f].pc = pc /\ flow'[f].held = flow[f].held
BY Fields DEF Decide, Others, FlowRecord

LEMMA LeaveFields ==
  ASSUME TypeInv, NEW f \in Flow, NEW after, Leave(f, after)
  PROVE  Others(f) /\ flow'[f].pc = "stop" /\ flow'[f].after = after
BY Fields DEF Leave, After, Others, FlowRecord

LEMMA ReturnFields ==
  ASSUME TypeInv, NEW f \in Flow, NEW answer, Return(f, answer)
  PROVE  /\ Others(f) /\ flow'[f].pc = "done"
         /\ result'[f] = answer /\ \A g \in Flow \ {f} : result'[g] = result[g]
<1>1. flow' = [flow EXCEPT ![f] = [Fresh EXCEPT !.pc = "done"]]
  BY DEF Return
<1>2. result \in [Flow -> {"none", "authenticated", "other"}]
  BY DEF TypeInv, Typed
<1>3. Others(f) /\ flow'[f] = [Fresh EXCEPT !.pc = "done"]
  BY <1>1, Fields DEF Others
<1>4. flow'[f].pc = "done"
  BY <1>3, FreshDone
<1> QED
  BY <1>2, <1>3, <1>4 DEF Return

LEMMA NextAttemptFields ==
  ASSUME TypeInv, NEW f \in Flow, NEW p, NEW skip, NextAttempt(f, p, skip)
  PROVE  /\ Others(f) /\ flow'[f].pc = "prepare" /\ flow'[f].port = p
         /\ flow'[f].skip = skip
BY Fields DEF NextAttempt, Others, FlowRecord

LEMMA RejectedFields ==
  ASSUME TypeInv, NEW f \in Flow, Rejected(f)
  PROVE  /\ Others(f) /\ flow'[f].pc = "stop"
         /\ flow'[f].after = IF static THEN "other" ELSE "choose"
<1> DEFINE r == [After(f, IF static THEN "other" ELSE "choose") EXCEPT
                   !.failed = flow[f].failed \cup {flow[f].port},
                   !.first = IF flow[f].first = 0 THEN flow[f].port ELSE flow[f].first]
<1>1. /\ r.pc = "stop"
      /\ r.after = IF static THEN "other" ELSE "choose"
  BY Fields DEF After, FlowRecord
<1>2. flow' = [flow EXCEPT ![f] = r]
  BY DEF Rejected
<1> HIDE DEF r
<1> QED
  BY <1>1, <1>2, Fields DEF Others

(* The steps of a bootstrap, and of the SDK while the health is checked.   *)
LEMMA BootstrapFields ==
  ASSUME TypeInv, NEW f \in Flow, Bootstrap(f)
  PROVE  /\ Others(f) /\ flow[f].pc \in Authorized /\ flow'[f].pc = flow[f].pc
         /\ flow'[f].skip = flow[f].skip
         /\ ~Register(f) => flow'[f].held = flow[f].held
         /\ flow'[f].verdict => flow[f].verdict \/ ~flow[f].skip
         /\ flow'[f].bootstrap = flow[f].bootstrap \/ flow[f].pc = "waiting"
         /\ \A g \in Flow \ {f} : client'[g] = client[g]
         /\ flow[f].pc = "health" => client' = client
         /\ \/ flow'[f].bootstrap = flow[f].bootstrap /\ client' = client
            \/ flow'[f].bootstrap = "up" => client'[f] = "up"
<1>0. flow[f].pc \in Authorized
  BY DEF Bootstrap, Register, ProbeRejects, Redirect, BootstrapEnds, Authorizing, At, Authorized
<1>c. client \in [Flow -> {"none", "open", "up", "closed"}]
  BY DEF TypeInv, Typed
<1>1. CASE Register(f)
  BY <1>0, <1>1, Fields DEF Register, run, Others, FlowRecord
<1>2. CASE ProbeRejects(f)
  BY <1>0, <1>2, Fields DEF ProbeRejects, Register, Others, FlowRecord
<1>3. CASE Redirect(f)
  BY <1>0, <1>3, Fields DEF Redirect, Others, FlowRecord
<1>4. CASE BootstrapEnds(f)
  <2>1. PICK end \in {"up", "failed", "redirected"} :
          /\ flow' = [flow EXCEPT ![f].bootstrap = end]
          /\ client' = [client EXCEPT ![f] = IF end = "up" THEN "up" ELSE @]
    BY <1>4 DEF BootstrapEnds
  <2>2. /\ flow[f].pc = "waiting" /\ (end = "up" => client'[f] = "up")
        /\ \A g \in Flow \ {f} : client'[g] = client[g]
    BY <1>c, <1>4, <2>1 DEF BootstrapEnds, At
  <2>3. /\ Others(f) /\ flow'[f].pc = flow[f].pc /\ flow'[f].skip = flow[f].skip
        /\ flow'[f].held = flow[f].held /\ flow'[f].verdict = flow[f].verdict
        /\ flow'[f].bootstrap = end
    BY <2>1, Fields DEF Others, FlowRecord
  <2> QED
    BY <1>0, <2>2, <2>3
<1> QED
  BY <1>1, <1>2, <1>3, <1>4 DEF Bootstrap

(* The end of a wait, and a callback, change nothing but the wait.         *)
Same(f) ==
  /\ Kept(f) /\ flow'[f].pc = flow[f].pc /\ flow'[f].after = flow[f].after
  /\ flow'[f].held = flow[f].held /\ flow'[f].skip = flow[f].skip
  /\ flow'[f].bootstrap = flow[f].bootstrap /\ flow'[f].verdict = flow[f].verdict

LEMMA WaitFields ==
  ASSUME TypeInv, NEW f \in Flow, WaitRunsOut(f) \/ NoBrowser(f)
  PROVE  Others(f) /\ Same(f)
<1>1. PICK how \in Callbacks : flow' = [flow EXCEPT ![f].wait = how]
  BY DEF WaitRunsOut, NoBrowser, Callbacks
<1> QED
  BY <1>1, Fields DEF Others, Same, Kept, FlowRecord

LEMMA CallbackFields ==
  ASSUME TypeInv, NEW page \in pages, NEW how \in {"code", "error"}, Callback(page, how)
  PROVE  \A g \in Flow : Same(g)
<1>1. CASE UNCHANGED flow
  BY <1>1 DEF Same, Kept
<1>2. CASE flow' # flow
  <2> DEFINE f == server[page.port].by[1]
  <2>1. flow' = [flow EXCEPT ![f].wait = how,
                             ![f].code = IF how = "code" THEN page.of ELSE @]
    BY <1>2 DEF Callback
  <2> HIDE DEF f
  <2>2. flow \in [Flow -> Record] /\ \A g \in Flow : flow[g] \in FlowRecord
    BY DEF TypeInv, Typed, Record
  <2>3. ASSUME NEW g \in Flow PROVE Same(g)
    <3>1. CASE g = f
      <4> DEFINE c == IF how = "code" THEN page.of ELSE flow[f].code
      <4>1. flow' = [flow EXCEPT ![f] = [flow[f] EXCEPT !.wait = how, !.code = c]]
        BY <2>1, <2>2, <3>1
      <4> HIDE DEF c
      <4> QED
        BY <2>2, <3>1, <4>1 DEF Same, Kept, FlowRecord
    <3>2. CASE g # f
      BY <2>1, <2>2, <3>2 DEF Same, Kept
    <3> QED
      BY <3>1, <3>2
  <2> QED
    BY <2>3
<1> QED
  BY <1>1, <1>2
-----------------------------------------------------------------------------
(* What a call may count on: a bootstrap that came up has a connected      *)
(* client, and from the moment its client is in the map it stays there and *)
(* open, until another call takes it out; an attempt begins with a client  *)
(* that is not in the map, so that nobody closes it under it.              *)
Connecting == {"listen", "listening", "waiting"}
Placed     == {"health", "waitingUp", "exchangeUp", "verify"}

InMap(f) == f \in displaced \/ (registered = f /\ client[f] = "up")

Registered(f) ==
  \/ flow[f].pc \in Placed
  \/ flow[f].pc = "stop" /\ flow[f].after = "authenticated"
  \/ result[f] = "authenticated"

Connected(f) ==
  /\ flow[f].pc = "waiting" /\ flow[f].bootstrap = "up" => client[f] = "up"
  /\ flow[f].pc \in Connecting => registered # f
  /\ Registered(f) => InMap(f)

Answered(f) == result[f] # "none" => flow[f].pc = "done"

ConnInv == \A f \in Flow : Answered(f) /\ Connected(f)

(* What a step of f may do to the client of another call: to take it out   *)
(* of the map, or to close it there, and then it says so.                  *)
Spares(f) ==
  \A g \in Flow \ {f} :
    /\ result'[g] = result[g]
    /\ registered' = g => registered = g
    /\ g \in displaced => g \in displaced'
    /\ registered = g /\ result[g] # "other"
         => g \in displaced' \/ (registered' = g /\ client'[g] = client[g])
    /\ client'[g] # client[g] => registered = g

LEMMA MapSpares ==
  ASSUME TypeInv, NEW f \in Flow,
         \A g \in Flow \ {f} : result'[g] = result[g] /\ client'[g] = client[g],
         \/ registered' = registered /\ displaced' = displaced
         \/ registered' = registered /\ displaced' = displaced \ {f}
         \/ registered' = "ambient" /\ displaced' = displaced \cup Losing
         \/ registered = None /\ registered' = "ambient" /\ displaced' = displaced
         \/ Put(f) \/ Take
         \/ registered' = (IF registered = f THEN None ELSE registered) /\ displaced' = displaced
  PROVE  Spares(f)
BY SignInAssumption DEF Spares, Put, Take, Losing

LEMMA StepConnects ==
  ASSUME TypeInv, ConnInv, NEW f \in Flow, Others(f), Spares(f), Answered(f)', Connected(f)'
  PROVE  ConnInv'
<1>1. ASSUME NEW g \in Flow \ {f} PROVE Answered(g)' /\ Connected(g)'
  <2>1. /\ flow'[g] = flow[g] /\ result'[g] = result[g]
        /\ Answered(g) /\ Connected(g)
    BY DEF Others, Spares, ConnInv
  <2>2. Answered(g)'
    BY <2>1 DEF Answered
  <2>3. Registered(g)' => InMap(g)'
    <3>1. ASSUME Registered(g)' PROVE InMap(g) /\ result[g] # "other"
      BY <2>1, <3>1 DEF Registered, Connected, Answered, Placed
    <3> QED
      BY <3>1 DEF InMap, Spares
  <2>4. flow'[g].pc = "waiting" /\ flow'[g].bootstrap = "up" => client'[g] = "up"
    BY <2>1 DEF Connected, Connecting, Spares
  <2>5. flow'[g].pc \in Connecting => registered' # g
    BY <2>1 DEF Connected, Spares
  <2> QED
    BY <2>2, <2>3, <2>4, <2>5 DEF Connected
<1> QED
  BY <1>1 DEF ConnInv

(* A step to a place where nothing is promised.                            *)
LEMMA StepBefore ==
  ASSUME TypeInv, ConnInv, NEW f \in Flow, Others(f), Spares(f), result' = result,
         flow[f].pc # "done", flow'[f].pc \notin Placed,
         flow'[f].pc = "stop" => flow'[f].after # "authenticated",
         flow'[f].pc = "waiting" => flow'[f].bootstrap # "up",
         flow'[f].pc \in Connecting => registered' # f
  PROVE  ConnInv'
<1>1. result[f] = "none"
  BY DEF ConnInv, Answered
<1>2. Answered(f)' /\ Connected(f)'
  BY <1>1 DEF Answered, Connected, Registered
<1> QED
  BY <1>2, StepConnects

(* A step after which the client is still where it was.                    *)
LEMMA StepKeeps ==
  ASSUME TypeInv, ConnInv, NEW f \in Flow, Others(f), flow[f].pc \in Placed,
         \/ flow'[f].pc \in Placed
         \/ flow'[f].pc = "stop" /\ flow'[f].after = "authenticated",
         result' = result, registered' = registered, displaced' = displaced,
         client'[f] \in {client[f], "up"}, \A g \in Flow \ {f} : client'[g] = client[g]
  PROVE  ConnInv'
<1>1. result[f] = "none" /\ InMap(f)
  BY DEF ConnInv, Answered, Connected, Registered, Placed
<1>2. Spares(f)
  BY MapSpares
<1>3. Answered(f)' /\ Connected(f)'
  BY <1>1 DEF Answered, Connected, Registered, InMap, Placed, Connecting
<1> QED
  BY <1>2, <1>3, StepConnects

LEMMA StepReturns ==
  ASSUME TypeInv, ConnInv, NEW f \in Flow, NEW answer, Return(f, answer), Spares(f),
         answer = "authenticated" => InMap(f)'
  PROVE  ConnInv'
<1>1. Others(f) /\ flow'[f].pc = "done" /\ result'[f] = answer
  BY ReturnFields
<1>2. Answered(f)' /\ Connected(f)'
  BY <1>1 DEF Answered, Connected, Registered, Placed, Connecting
<1> QED
  BY <1>1, <1>2, StepConnects

LEMMA PreparingConnects ==
  ASSUME TypeInv, ConnInv, NEW f \in Flow, Begin(f) \/ Preparing(f)
  PROVE  ConnInv'
<1> USE DEF config, run, browser, files, map, beyond, At
<1>r. \A answer : Return(f, answer) => \A g \in Flow \ {f} : result'[g] = result[g]
  BY ReturnFields
<1>1. CASE Begin(f) \/ Evict(f) \/ Evicted(f) \/ Wipe(f) \/ NotSignedIn(f)
  <2>1. PICK pc \in {"evict", "check", "evicting", "wipe", "ports"} : Goto(f, pc)
    BY <1>1 DEF Begin, Evict, Evicted, Wipe, NotSignedIn
  <2>2. /\ flow[f].pc \in {"new", "evict", "evicting", "wipe", "check"} /\ result' = result
    BY <1>1 DEF Begin, Evict, Evicted, Wipe, NotSignedIn
  <2>3. Others(f) /\ flow'[f].pc = pc
    BY <2>1, GotoFields
  <2>4. Spares(f)
    <3>1. CASE Evict(f)
      BY <3>1 DEF Evict, Spares, Losing
    <3>2. CASE ~Evict(f)
      BY <1>1, <3>2, MapSpares DEF Begin, Evicted, Wipe, NotSignedIn
    <3> QED
      BY <3>1, <3>2
  <2> QED
    BY <2>2, <2>3, <2>4, StepBefore DEF Placed, Connecting
<1>2. CASE AlreadySignedIn(f) \/ NoPort(f) \/ CannotListen(f)
  <2>1. Return(f, "other")
    BY <1>2 DEF AlreadySignedIn, NoPort, CannotListen
  <2>2. /\ client' = client /\ displaced' = displaced
        /\ registered' = registered \/ (registered = None /\ registered' = "ambient")
    BY <1>2 DEF AlreadySignedIn, NoPort, CannotListen
  <2>3. Spares(f)
    BY <1>r, <2>1, <2>2, MapSpares
  <2> QED
    BY <2>1, <2>3, StepReturns
<1>3. CASE ReadSavedPort(f) \/ ChoosePort(f) \/ Floor(f) \/ Prepare(f)
  <2>1. /\ flow[f].pc \in {"ports", "choose", "prepare"} /\ result' = result
        /\ client' = client
    BY <1>3 DEF ReadSavedPort, ChoosePort, Floor, Prepare
  <2>2. Spares(f)
    BY <1>3, <2>1, MapSpares DEF ReadSavedPort, ChoosePort, Floor, Prepare
  <2>3. Others(f) /\ flow'[f].pc \in {"choose", "prepare", "listen"}
    <3>1. CASE ReadSavedPort(f) \/ Prepare(f)
      BY <3>1, Fields DEF ReadSavedPort, Prepare, Others, FlowRecord
    <3>2. CASE ChoosePort(f) \/ Floor(f)
      <4>1. \E p, skip : NextAttempt(f, p, skip)
        BY <3>2 DEF ChoosePort, Floor
      <4> QED
        BY <4>1, NextAttemptFields
    <3> QED
      BY <1>3, <3>1, <3>2
  <2>4. flow'[f].pc = "listen" => registered' # f
    <3>1. CASE Prepare(f)
      BY <3>1, SignInAssumption DEF Prepare, Take
    <3>2. CASE ReadSavedPort(f)
      BY <3>2, Fields DEF ReadSavedPort, FlowRecord
    <3>3. CASE ChoosePort(f) \/ Floor(f)
      <4>1. \E p, skip : NextAttempt(f, p, skip)
        BY <3>3 DEF ChoosePort, Floor
      <4> QED
        BY <4>1, NextAttemptFields
    <3> QED
      BY <1>3, <3>1, <3>2, <3>3
  <2> QED
    BY <2>1, <2>2, <2>3, <2>4, StepBefore DEF Placed, Connecting
<1>4. CASE Listen(f) \/ Start(f)
  <2>1. /\ flow[f].pc \in {"listen", "listening"} /\ result' = result
        /\ registered' = registered /\ displaced' = displaced
        /\ \A g \in Flow \ {f} : client'[g] = client[g]
    BY <1>4 DEF Listen, Start, TypeInv, Typed
  <2>2. Others(f) /\ flow'[f].pc \in {"listening", "waiting"} /\ flow'[f].bootstrap # "up"
    <3>1. CASE Listen(f)
      <4>1. flow[f].bootstrap = "none"
        BY <2>1, Fields DEF WellFormed, Waits
      <4> QED
        BY <3>1, <4>1, GotoFields DEF Listen
    <3>2. CASE Start(f)
      BY <3>2, Fields DEF Start, Others, FlowRecord
    <3> QED
      BY <1>4, <3>1, <3>2
  <2>3. registered # f
    BY <2>1 DEF ConnInv, Connected, Connecting
  <2>4. Spares(f)
    BY <2>1, MapSpares
  <2> QED
    BY <2>1, <2>2, <2>3, <2>4, StepBefore DEF Placed
<1> QED
  BY <1>1, <1>2, <1>3, <1>4 DEF Preparing

LEMMA BootstrapConnects ==
  ASSUME TypeInv, ConnInv, NEW f \in Flow, Bootstrap(f)
  PROVE  ConnInv'
<1>1. result' = result /\ registered' = registered /\ displaced' = displaced
  BY DEF Bootstrap, Register, ProbeRejects, Redirect, BootstrapEnds, config, run, browser, files,
         map, beyond
<1>2. /\ Others(f) /\ flow'[f].pc = flow[f].pc /\ flow[f].pc \in Authorized
      /\ \A g \in Flow \ {f} : client'[g] = client[g]
  BY BootstrapFields
<1>3. Answered(f) /\ Connected(f)
  BY DEF ConnInv
<1>4. CASE flow[f].pc = "waiting"
  <2>1. result[f] = "none" /\ registered # f
    BY <1>3, <1>4 DEF Answered, Connected, Connecting
  <2>2. flow'[f].bootstrap = "up" => client'[f] = "up"
    BY <1>3, <1>4, BootstrapFields DEF Connected
  <2>3. Answered(f)' /\ Connected(f)'
    BY <1>1, <1>2, <1>4, <2>1, <2>2 DEF Answered, Connected, Registered, Placed
  <2>4. Spares(f)
    BY <1>1, <1>2, MapSpares
  <2> QED
    BY <1>2, <2>3, <2>4, StepConnects
<1>5. CASE flow[f].pc = "health"
  <2>1. client' = client
    BY <1>5, BootstrapFields
  <2> QED
    BY <1>1, <1>2, <1>5, <2>1, StepKeeps DEF Placed
<1> QED
  BY <1>2, <1>4, <1>5 DEF Authorized

LEMMA SettlingConnects ==
  ASSUME TypeInv, ConnInv, NEW f \in Flow, Settling(f)
  PROVE  ConnInv'
<1> USE DEF config, run, browser, files, map, beyond, At
<1>c. client \in [Flow -> {"none", "open", "up", "closed"}]
  BY DEF TypeInv, Typed
<1>1. CASE GotCode(f)
  <2>1. /\ flow[f].pc \in {"waiting", "waitingUp"} /\ result' = result /\ client' = client
        /\ registered' = registered /\ displaced' = displaced
    BY <1>1 DEF GotCode, Waiting
  <2>2. CASE flow[f].pc = "waiting"
    <3>1. Others(f) /\ flow'[f].pc = "exchange"
      BY <1>1, <2>2, DecideFields DEF GotCode
    <3>2. Spares(f)
      BY <2>1, MapSpares
    <3> QED
      BY <2>1, <3>1, <3>2, StepBefore DEF Placed, Connecting
  <2>3. CASE flow[f].pc = "waitingUp"
    <3>1. Others(f) /\ flow'[f].pc = "exchangeUp"
      BY <1>1, <2>3, DecideFields DEF GotCode
    <3> QED
      BY <2>1, <2>3, <3>1, StepKeeps DEF Placed
  <2> QED
    BY <2>1, <2>2, <2>3
<1>2. CASE BootstrapConnected(f)
  <2>1. /\ flow[f].pc = "waiting" /\ flow[f].bootstrap = "up" /\ registered' = f
        /\ result' = result /\ client' = client
    BY <1>2 DEF BootstrapConnected, Put
  <2>2. Others(f) /\ flow'[f].pc = "health"
    BY <1>2, Fields DEF BootstrapConnected, Others, FlowRecord
  <2>3. Answered(f)' /\ Connected(f)'
    BY <2>1, <2>2 DEF ConnInv, Answered, Connected, InMap, Connecting
  <2>4. Spares(f)
    BY <1>2, <2>1, MapSpares DEF BootstrapConnected
  <2> QED
    BY <2>2, <2>3, <2>4, StepConnects
<1>3. CASE \/ SetupFailed(f) \/ ProviderError(f) \/ BrowserUnavailable(f) \/ WaitEnded(f)
           \/ ExchangeFails(f) \/ ExchangeTimesOut(f) \/ NotVerified(f)
  <2>1. PICK after \in {"other", "pending"} : Leave(f, after)
    BY <1>3 DEF SetupFailed, ProviderError, BrowserUnavailable, WaitEnded, ExchangeFails,
                ExchangeTimesOut, NotVerified
  <2>2. flow[f].pc # "done" /\ result' = result
    BY <1>3 DEF SetupFailed, ProviderError, BrowserUnavailable, WaitEnded, ExchangeFails,
                ExchangeTimesOut, NotVerified, Waiting, Exchanging, Verifying
  <2>3. Others(f) /\ flow'[f].pc = "stop" /\ flow'[f].after = after
    BY <2>1, LeaveFields
  <2>4. /\ \A g \in Flow \ {f} : client'[g] = client[g]
        /\ displaced' = displaced
        /\ registered' \in {registered, IF registered = f THEN None ELSE registered}
    BY <1>c, <1>3 DEF SetupFailed, ProviderError, BrowserUnavailable, WaitEnded, ExchangeFails,
                ExchangeTimesOut, NotVerified, Discard
  <2>5. Spares(f)
    BY <2>2, <2>4, MapSpares
  <2> QED
    BY <2>2, <2>3, <2>5, StepBefore DEF Placed, Connecting
<1>4. CASE Rejected(f)
  <2>1. flow[f].pc # "done" /\ result' = result /\ registered' = registered
        /\ displaced' = displaced /\ \A g \in Flow \ {f} : client'[g] = client[g]
    BY <1>c, <1>4 DEF Rejected
  <2>2. Spares(f)
    BY <2>1, MapSpares
  <2>3. Others(f) /\ flow'[f].pc = "stop" /\ flow'[f].after # "authenticated"
    BY <1>4, RejectedFields
  <2> QED
    BY <2>1, <2>2, <2>3, StepBefore DEF Placed, Connecting
<1>5. CASE Exchange(f)
  <2>1. /\ flow[f].pc \in {"exchange", "exchangeUp"} /\ result' = result /\ client'[f] = "up"
        /\ \A g \in Flow \ {f} : client'[g] = client[g]
    BY <1>c, <1>5 DEF Exchange, Exchanging
  <2>2. Others(f) /\ flow'[f].pc = "verify"
    BY <1>5, GotoFields DEF Exchange
  <2>3. CASE flow[f].pc = "exchange"
    <3>1. Put(f)
      BY <1>5, <2>3 DEF Exchange
    <3>2. Spares(f)
      BY <2>1, <3>1, MapSpares
    <3>3. Answered(f)' /\ Connected(f)'
      BY <2>1, <2>2, <3>1 DEF ConnInv, Answered, Connected, InMap, Put, Connecting
    <3> QED
      BY <2>2, <3>2, <3>3, StepConnects
  <2>4. CASE flow[f].pc = "exchangeUp"
    <3>1. registered' = registered /\ displaced' = displaced
      BY <1>5, <2>4 DEF Exchange
    <3> QED
      BY <2>1, <2>2, <2>4, <3>1, StepKeeps DEF Placed
  <2> QED
    BY <2>1, <2>3, <2>4
<1>6. CASE Verified(f) \/ SignInBegun(f)
  <2>1. /\ flow[f].pc \in Placed /\ result' = result /\ registered' = registered
        /\ displaced' = displaced /\ client' = client
    BY <1>6 DEF Verified, SignInBegun, Verifying, Placed
  <2>2. CASE Verified(f)
    <3>1. Others(f) /\ flow'[f].pc = "stop" /\ flow'[f].after = "authenticated"
      BY <2>2, LeaveFields DEF Verified
    <3> QED
      BY <2>1, <3>1, StepKeeps
  <2>3. CASE SignInBegun(f)
    <3>1. Others(f) /\ flow'[f].pc = "waitingUp"
      BY <2>3, GotoFields DEF SignInBegun
    <3> QED
      BY <2>1, <3>1, StepKeeps DEF Placed
  <2> QED
    BY <1>6, <2>2, <2>3
<1>7. CASE Stop(f)
  <2>1. /\ flow[f].pc = "stop" /\ registered' = registered /\ client' = client
        /\ displaced' \in {displaced, displaced \ {f}}
        /\ flow[f].after = "authenticated" => displaced' = displaced
    BY <1>7 DEF Stop
  <2>2. CASE flow[f].after \in {"choose", "pending"}
    <3>1. Goto(f, flow[f].after) /\ result' = result
      BY <1>7, <2>2 DEF Stop
    <3>2. Others(f) /\ flow'[f].pc \in {"choose", "pending"}
      BY <2>2, <3>1, GotoFields
    <3>3. Spares(f)
      BY <2>1, <3>1, MapSpares
    <3> QED
      BY <2>1, <3>1, <3>2, <3>3, StepBefore DEF Placed, Connecting
  <2>3. CASE flow[f].after \notin {"choose", "pending"}
    <3>1. Return(f, flow[f].after)
      BY <1>7, <2>3 DEF Stop
    <3>2. \A g \in Flow \ {f} : result'[g] = result[g]
      BY <3>1, ReturnFields
    <3>3. Spares(f)
      BY <2>1, <3>2, MapSpares
    <3>4. flow[f].after = "authenticated" => InMap(f)'
      BY <2>1 DEF ConnInv, Connected, Registered, InMap
    <3> QED
      BY <3>1, <3>3, <3>4, StepReturns
  <2> QED
    BY <2>2, <2>3
<1>8. CASE Pending(f)
  <2>1. Return(f, "other") /\ Put(f) /\ client' = client
    BY <1>8 DEF Pending
  <2>2. \A g \in Flow \ {f} : result'[g] = result[g]
    BY <2>1, ReturnFields
  <2>3. Spares(f)
    BY <2>1, <2>2, MapSpares
  <2> QED
    BY <2>1, <2>3, StepReturns
<1> QED
  BY <1>1, <1>2, <1>3, <1>4, <1>5, <1>6, <1>7, <1>8 DEF Settling

(* A step that leaves the progress of every call as it was.                *)
LEMMA SameConnects ==
  ASSUME ConnInv, \A g \in Flow : Same(g), result' = result, client' = client,
         registered' = registered, displaced' = displaced
  PROVE  ConnInv'
BY DEF ConnInv, Answered, Connected, Registered, InMap, Same

LEMMA Connects == TypeInv /\ ConnInv /\ [Next]_vars => ConnInv'
<1> SUFFICES ASSUME TypeInv, ConnInv, [Next]_vars PROVE ConnInv'
  OBVIOUS
<1> USE DEF config, run, browser, files, map, beyond
<1> DEFINE Map == result' = result /\ client' = client /\ registered' = registered
                  /\ displaced' = displaced
<1>1. ASSUME NEW f \in Flow, WaitRunsOut(f) \/ NoBrowser(f) PROVE ConnInv'
  <2>1. Others(f) /\ Same(f)
    BY <1>1, WaitFields
  <2>2. \A g \in Flow : Same(g)
    BY <2>1 DEF Others, Same, Kept
  <2>3. Map
    BY <1>1 DEF WaitRunsOut, NoBrowser
  <2> QED
    BY <2>2, <2>3, SameConnects
<1>2. ASSUME NEW page \in pages, NEW how \in {"code", "error"}, Callback(page, how)
      PROVE  ConnInv'
  <2>1. \A g \in Flow : Same(g)
    BY <1>2, CallbackFields
  <2>2. Map
    BY <1>2 DEF Callback
  <2> QED
    BY <2>1, <2>2, SameConnects
<1>3. CASE \/ \E id \in exchanging : LateExchange(id)
           \/ \E l \in late : LateRegister(l) \/ LateRedirect(l) \/ LateEnds(l)
           \/ UNCHANGED vars
  <2>1. flow' = flow /\ Map
    BY <1>3 DEF LateExchange, LateRegister, LateRedirect, LateEnds, vars
  <2>2. \A g \in Flow : Same(g)
    BY <2>1 DEF Same, Kept
  <2> QED
    BY <2>1, <2>2, SameConnects
<1> QED
  BY <1>1, <1>2, <1>3, PreparingConnects, BootstrapConnects, SettlingConnects DEF Next

(* A call of authenticate that answers "authenticated" keeps its own       *)
(* connected client in the registry's map, whatever other calls are under  *)
(* way, until one that is forced, starts an attempt, finds the client      *)
(* unusable or registers its own takes it out: no attempt that ends, and   *)
(* nothing that an ended one left behind, removes or closes it.            *)
THEOREM SignedIn == Spec => []SignedInIsConnected
<1>1. Init => ConnInv
  BY SignInAssumption DEF Init, Fresh, ConnInv, Answered, Connected, Registered, InMap,
     Placed, Connecting
<1>2. ConnInv => SignedInIsConnected
  BY DEF ConnInv, SignedInIsConnected, Connected, Registered, InMap
<1> QED
  BY <1>1, <1>2, Connects, Invariance, PTL DEF Spec
-----------------------------------------------------------------------------
(* A sign-in that nothing disturbs keeps tokens and registration together. *)
(* Wherever it is, what it goes on with is what the files say: the client  *)
(* it holds is the one on disk; a port for which it still has to register  *)
(* comes with an empty file; and the port of an existing registration is   *)
(* probed, and may be rejected, only without tokens, since a rejection     *)
(* takes the registration alone.  What outlives an attempt does so only    *)
(* when the call is about to answer, and is one thing at a time.           *)
HasClient == Connecting \cup Placed \cup {"exchange"}
Probing   == Connecting \cup Authorized

Outlived == exchanging # {} \/ late # {}

InHand(f) ==
  /\ Outlived => flow[f].pc = "stop" /\ flow[f].after \in {"other", "authenticated"}
  /\ flow[f].pc \in HasClient => flow[f].held = disk.client
  /\ flow[f].pc = "choose" =>
       disk.client = None \/ (flow[f].attempt = 0 /\ flow[f].saved = disk.port)
  /\ flow[f].pc = "stop" /\ flow[f].after = "choose" => disk.client = None
  /\ flow[f].pc = "prepare" =>
       disk.client = None \/ flow[f].port # disk.port \/ flow[f].skip \/ disk.tokens = None
  /\ flow[f].pc \in Probing /\ ~flow[f].skip => disk.tokens = None
  /\ flow[f].pc \in Authorized /\ flow[f].verdict => ~flow[f].skip

Files ==
  /\ disk.tokens \in {None, disk.client}
  /\ exchanging \subseteq {disk.client}
  /\ \A l \in late : late = {l} /\ l.held = disk.client
  /\ exchanging = {} \/ late = {}

Lone ==
  ~static /\ ~disturbed =>
    /\ Files
    /\ \A f, g \in Flow : Active(f) /\ Active(g) => f = g
    /\ \A f \in Flow : Active(f) => InHand(f)

(* A change of the files that does not count as a disturbance succeeds.    *)
LEMMA FilesSet ==
  ASSUME NEW d, SetFiles(d)
  PROVE  /\ disturbed => disturbed'
         /\ ~disturbed' => disk' = d
BY Zenon DEF SetFiles

(* A step of the one call that is under way.                               *)
LEMMA LoneStep ==
  ASSUME TypeInv, Lone, ~static, ~disturbed, NEW f \in Flow, Active(f), Others(f),
         Files', Active(f)' => InHand(f)'
  PROVE  Lone'
<1>1. \A g \in Flow : Active(g)' => g = f
  BY DEF Lone, Others, Active
<1> QED
  BY <1>1 DEF Lone

(* A step after which nothing has outlived an attempt.                     *)
LEMMA FilesKept ==
  ASSUME Files, disk' = disk, exchanging' = exchanging, late' = late
  PROVE  Files'
BY DEF Files

(* Once the call has answered there is nothing left to promise.            *)
LEMMA LoneReturn ==
  ASSUME TypeInv, Lone, ~static, ~disturbed, NEW f \in Flow, Active(f),
         NEW answer, Return(f, answer), disk' = disk, UNCHANGED beyond
  PROVE  Lone'
<1>1. Others(f) /\ flow'[f].pc = "done"
  BY ReturnFields
<1>2. Files' /\ ~Active(f)'
  BY <1>1, FilesKept DEF Lone, Active, beyond
<1> QED
  BY <1>1, <1>2, LoneStep

LEMMA PreparingLone ==
  ASSUME TypeInv, Lone, ~static, ~disturbed, ~disturbed', NEW f \in Flow, Preparing(f)
  PROVE  Lone'
<1> USE DEF config, run, browser, files, map, beyond, At
<1>0. /\ Active(f) /\ exchanging' = exchanging /\ late' = late
      /\ exchanging = {} /\ late = {} /\ Files /\ InHand(f)
  <2>1. /\ flow[f].pc \in {"evict", "evicting", "wipe", "check", "ports",
                           "choose", "prepare", "listen", "listening"}
        /\ exchanging' = exchanging /\ late' = late
    BY DEF Preparing, Evict, Evicted, Wipe, AlreadySignedIn, NotSignedIn, ReadSavedPort,
           ChoosePort, NoPort, Floor, Prepare, Listen, CannotListen, Start
  <2>2. Active(f)
    BY <2>1 DEF Active
  <2> QED
    BY <2>1, <2>2 DEF Lone, InHand, Outlived
<1>n. ~Outlived'
  BY <1>0 DEF Outlived
<1>1. CASE Evict(f) \/ Evicted(f) \/ NotSignedIn(f)
  <2>1. PICK pc \in {"wipe", "evicting", "ports"} : Goto(f, pc)
    BY <1>1 DEF Evict, Evicted, NotSignedIn
  <2>2. disk' = disk
    BY <1>1 DEF Evict, Evicted, NotSignedIn
  <2>3. Others(f) /\ flow'[f].pc = pc
    BY <2>1, GotoFields
  <2>4. Files' /\ InHand(f)'
    BY <1>0, <1>n, <2>2, <2>3, FilesKept
       DEF InHand, HasClient, Probing, Connecting, Placed, Authorized
  <2> QED
    BY <1>0, <2>3, <2>4, LoneStep
<1>9. CASE Listen(f)
  <2>1. disk' = disk /\ flow[f].pc = "listen"
    BY <1>9 DEF Listen
  <2>2. /\ Others(f) /\ flow'[f].pc = "listening"
        /\ flow'[f].held = flow[f].held /\ flow'[f].skip = flow[f].skip
    BY <1>9, GotoFields DEF Listen
  <2>3. Files' /\ InHand(f)'
    BY <1>0, <1>n, <2>1, <2>2, FilesKept
       DEF InHand, HasClient, Probing, Connecting, Placed, Authorized
  <2> QED
    BY <1>0, <2>2, <2>3, LoneStep
<1>2. CASE Wipe(f)
  <2>1. Others(f) /\ flow'[f].pc = "ports"
    BY <1>2, GotoFields DEF Wipe
  <2>2. disk' = NoFiles
    BY <1>2, FilesSet DEF Wipe
  <2>3. Files' /\ InHand(f)'
    BY <1>0, <1>n, <2>1, <2>2
       DEF Files, NoFiles, InHand, HasClient, Probing, Connecting, Placed, Authorized
  <2> QED
    BY <1>0, <2>1, <2>3, LoneStep
<1>3. CASE AlreadySignedIn(f) \/ NoPort(f) \/ CannotListen(f)
  <2>1. Return(f, "other") /\ disk' = disk
    BY <1>3 DEF AlreadySignedIn, NoPort, CannotListen
  <2> QED
    BY <1>0, <2>1, LoneReturn
<1>4. CASE ReadSavedPort(f)
  <2>1. flow[f].attempt = 0
    BY <1>4, Fields DEF ReadSavedPort, WellFormed, Before
  <2>2. /\ Others(f) /\ flow'[f].pc = "choose"
        /\ flow'[f].attempt = flow[f].attempt /\ flow'[f].saved = SavedPort
    BY <1>4, Fields DEF ReadSavedPort, Others, FlowRecord
  <2>3. disk' = disk /\ (disk.client # None => SavedPort = disk.port)
    BY <1>4 DEF ReadSavedPort, SavedPort
  <2>4. Files' /\ InHand(f)'
    BY <1>0, <1>n, <2>1, <2>2, <2>3, FilesKept
       DEF InHand, HasClient, Probing, Connecting, Placed, Authorized
  <2> QED
    BY <1>0, <2>2, <2>4, LoneStep
<1>5. CASE ChoosePort(f)
  <2> DEFINE reused(p) == flow[f].attempt = 0 /\ p = flow[f].saved
  <2>1. PICK p \in Port : NextAttempt(f, p, reused(p) /\ disk.tokens # None)
    BY <1>5 DEF ChoosePort
  <2>2. flow[f].pc = "choose" /\ disk' = disk
    BY <1>5 DEF ChoosePort
  <2>3. /\ Others(f) /\ flow'[f].pc = "prepare" /\ flow'[f].port = p
        /\ flow'[f].skip = (reused(p) /\ disk.tokens # None)
    BY <2>1, NextAttemptFields
  <2>4. disk.client = None \/ p # disk.port \/ flow'[f].skip \/ disk.tokens = None
    BY <1>0, <2>2, <2>3 DEF InHand
  <2>5. Files' /\ InHand(f)'
    BY <1>0, <1>n, <2>2, <2>3, <2>4, FilesKept
       DEF InHand, HasClient, Probing, Connecting, Placed, Authorized
  <2> QED
    BY <1>0, <2>3, <2>5, LoneStep
<1>6. CASE Floor(f)
  <2>1. /\ Others(f) /\ flow'[f].pc = "prepare" /\ flow'[f].skip = TRUE /\ disk' = disk
    BY <1>6, NextAttemptFields DEF Floor
  <2>2. Files' /\ InHand(f)'
    BY <1>0, <1>n, <2>1, FilesKept
       DEF InHand, HasClient, Probing, Connecting, Placed, Authorized
  <2> QED
    BY <1>0, <2>1, <2>2, LoneStep
<1>7. CASE Prepare(f)
  <2>1. /\ Others(f) /\ flow'[f].pc = "listen" /\ flow'[f].held = Provided(f)
        /\ flow'[f].skip = flow[f].skip
    BY <1>7, Fields DEF Prepare, Others, FlowRecord
  <2>2. flow[f].pc = "prepare"
    BY <1>7 DEF Prepare
  <2>3. CASE Stale(f)
    <3>1. disk' = NoFiles
      BY <1>7, <2>3, FilesSet DEF Prepare
    <3>2. flow'[f].held = None
      BY <2>1, <2>3 DEF Provided
    <3>3. Files' /\ InHand(f)'
      BY <1>0, <1>n, <2>1, <3>1, <3>2
         DEF Files, NoFiles, InHand, HasClient, Probing, Connecting, Placed, Authorized
    <3> QED
      BY <1>0, <2>1, <3>3, LoneStep
  <2>4. CASE ~Stale(f)
    <3>1. disk' = disk /\ (disk.client = None \/ disk.port = flow[f].port)
      BY <1>7, <2>4 DEF Prepare, Stale
    <3>2. flow'[f].held = disk.client
      BY <2>1, <2>4 DEF Provided
    <3>3. ~flow[f].skip => disk.tokens = None
      BY <1>0, <2>2, <3>1 DEF Files, InHand
    <3>4. Files' /\ InHand(f)'
      BY <1>0, <1>n, <2>1, <3>1, <3>2, <3>3, FilesKept
         DEF InHand, HasClient, Probing, Connecting, Placed, Authorized
    <3> QED
      BY <1>0, <2>1, <3>4, LoneStep
  <2> QED
    BY <2>3, <2>4
<1>8. CASE Start(f)
  <2>1. /\ Others(f) /\ flow'[f].pc = "waiting" /\ flow'[f].verdict = flow[f].verdict
        /\ flow'[f].held = flow[f].held /\ flow'[f].skip = flow[f].skip
    BY <1>8, Fields DEF Start, Others, FlowRecord
  <2>2. flow[f].pc = "listening" /\ disk' = disk
    BY <1>8 DEF Start
  <2>3. ~flow[f].verdict
    BY <2>2, Fields DEF WellFormed, Coded, Waits
  <2>4. Files' /\ InHand(f)'
    BY <1>0, <1>n, <2>1, <2>2, <2>3, FilesKept
       DEF InHand, HasClient, Probing, Connecting, Placed, Authorized
  <2> QED
    BY <1>0, <2>1, <2>4, LoneStep
<1> QED
  BY <1>1, <1>2, <1>3, <1>4, <1>5, <1>6, <1>7, <1>8, <1>9 DEF Preparing

LEMMA BootstrapLone ==
  ASSUME TypeInv, Lone, ~static, ~disturbed, ~disturbed', NEW f \in Flow, Bootstrap(f)
  PROVE  Lone'
<1> USE DEF config, run, browser, files, map, beyond, At
<1>1. /\ Others(f) /\ flow[f].pc \in Authorized /\ flow'[f].pc = flow[f].pc
      /\ flow'[f].skip = flow[f].skip
      /\ ~Register(f) => flow'[f].held = flow[f].held
      /\ flow'[f].verdict => flow[f].verdict \/ ~flow[f].skip
  BY BootstrapFields
<1>2. /\ Active(f) /\ exchanging' = exchanging /\ late' = late
      /\ exchanging = {} /\ late = {} /\ Files /\ InHand(f)
  <2>1. exchanging' = exchanging /\ late' = late
    BY DEF Bootstrap, Register, ProbeRejects, Redirect, BootstrapEnds
  <2>2. Active(f)
    BY <1>1 DEF Active, Authorized
  <2> QED
    BY <1>1, <2>1, <2>2 DEF Lone, InHand, Outlived, Authorized
<1>n. ~Outlived'
  BY <1>2 DEF Outlived
<1>v. flow'[f].verdict => ~flow'[f].skip
  BY <1>1, <1>2 DEF InHand
<1>3. CASE Register(f)
  <2>1. /\ flow[f].held = None /\ flow'[f].held = Attempt(f)
        /\ disk' = [disk EXCEPT !.client = Attempt(f), !.port = flow[f].port]
    BY <1>3, FilesSet, Fields DEF Register, FlowRecord
  <2>2. disk.client = None /\ disk.tokens = None
    BY <1>1, <1>2, <2>1 DEF InHand, Files, HasClient, Connecting, Placed, Authorized
  <2>3. disk'.client = Attempt(f) /\ disk'.tokens = None
    BY <2>1, <2>2 DEF TypeInv, Typed, Disk
  <2>4. Files' /\ InHand(f)'
    BY <1>1, <1>2, <1>n, <1>v, <2>1, <2>3
       DEF Files, InHand, HasClient, Probing, Connecting, Placed, Authorized
  <2> QED
    BY <1>1, <1>2, <2>4, LoneStep
<1>4. CASE ~Register(f)
  <2>1. disk' = disk
    BY <1>4 DEF Bootstrap, ProbeRejects, Redirect, BootstrapEnds
  <2>2. Files' /\ InHand(f)'
    BY <1>1, <1>2, <1>n, <1>v, <1>4, <2>1, FilesKept
       DEF InHand, HasClient, Probing, Connecting, Placed, Authorized
  <2> QED
    BY <1>1, <1>2, <2>2, LoneStep
<1> QED
  BY <1>3, <1>4

LEMMA SettlingLone ==
  ASSUME TypeInv, Lone, ~static, ~disturbed, ~disturbed', NEW f \in Flow, Settling(f)
  PROVE  Lone'
<1> USE DEF config, run, browser, files, map, beyond, At
<1>0. /\ Active(f) /\ Files /\ InHand(f)
      /\ flow[f].pc # "stop" => exchanging = {} /\ late = {}
  <2>1. Active(f)
    BY DEF Settling, GotCode, BootstrapConnected, SignInBegun, SetupFailed, ProviderError,
           BrowserUnavailable, WaitEnded, Rejected, Exchange, ExchangeFails,
           ExchangeTimesOut, Verified, NotVerified, Verifying, Stop, Pending, Waiting,
           Exchanging, Active
  <2> QED
    BY <2>1 DEF Lone, InHand, Outlived
<1>d. disk \in Disk
  BY DEF TypeInv, Typed
<1>1. CASE GotCode(f) \/ BootstrapConnected(f) \/ SignInBegun(f)
  <2>1. /\ flow[f].pc \in Waits /\ flow[f].pc \in HasClient
        /\ disk' = disk /\ exchanging' = exchanging /\ late' = late
    BY <1>1 DEF GotCode, BootstrapConnected, SignInBegun, Waiting, Waits, HasClient, Connecting,
                Placed
  <2>2. /\ Others(f) /\ flow'[f].pc \in {"exchange", "exchangeUp", "health", "waitingUp"}
        /\ flow'[f].held = flow[f].held
        /\ flow'[f].pc = "health" => /\ flow[f].pc = "waiting" /\ flow'[f].skip = flow[f].skip
                                     /\ flow'[f].verdict = flow[f].verdict
    <3>1. CASE GotCode(f)
      <4>1. PICK pc \in {"exchange", "exchangeUp"} : Decide(f, pc)
        BY <3>1 DEF GotCode
      <4> QED
        BY <4>1, DecideFields
    <3>2. CASE BootstrapConnected(f)
      BY <3>2, Fields DEF BootstrapConnected, Others, FlowRecord
    <3>3. CASE SignInBegun(f)
      BY <3>3, GotoFields DEF SignInBegun
    <3> QED
      BY <1>1, <3>1, <3>2, <3>3
  <2>3. exchanging = {} /\ late = {} /\ ~Outlived'
    BY <1>0, <2>1 DEF Waits, Outlived
  <2>4. Files'
    BY <1>0, <2>1, FilesKept
  <2>5. InHand(f)'
    BY <1>0, <2>1, <2>2, <2>3 DEF InHand, HasClient, Probing, Connecting, Placed, Authorized
  <2> QED
    BY <1>0, <2>2, <2>4, <2>5, LoneStep
<1>3. CASE \/ SetupFailed(f) \/ ProviderError(f) \/ BrowserUnavailable(f) \/ WaitEnded(f)
           \/ ExchangeFails(f) \/ ExchangeTimesOut(f) \/ Verified(f) \/ NotVerified(f)
  <2>1. PICK after \in {"other", "pending", "authenticated"} : Leave(f, after)
    BY <1>3 DEF SetupFailed, ProviderError, BrowserUnavailable, WaitEnded, ExchangeFails,
                ExchangeTimesOut, Verified, NotVerified
  <2>2. flow[f].pc \in HasClient /\ flow[f].pc # "stop"
    BY <1>3 DEF SetupFailed, ProviderError, BrowserUnavailable, WaitEnded, ExchangeFails,
                ExchangeTimesOut, Verified, NotVerified, Verifying, Waiting, Exchanging,
                HasClient, Connecting, Placed
  <2>3. exchanging = {} /\ late = {} /\ flow[f].held = disk.client
    BY <1>0, <2>2 DEF InHand
  <2>4. Others(f) /\ flow'[f].pc = "stop" /\ flow'[f].after = after
    BY <2>1, LeaveFields
  <2>5. CASE SetupFailed(f) \/ Verified(f) \/ NotVerified(f)
    <3>1. Leave(f, "authenticated") \/ Leave(f, "other")
      BY <2>5 DEF SetupFailed, Verified, NotVerified
    <3>2. flow'[f].after \in {"other", "authenticated"}
      BY <3>1, LeaveFields
    <3>3. disk' = disk /\ exchanging' = {} /\ LeaveBehind(f)
      BY <2>3, <2>5 DEF SetupFailed, Verified, NotVerified
    <3>4. late' = {} \/ \E l : late' = {l} /\ l.held = disk.client
      BY <2>3, <3>3 DEF LeaveBehind
    <3>5. Files'
      BY <1>0, <3>3, <3>4 DEF Files
    <3>6. InHand(f)'
      BY <2>4, <3>2 DEF InHand, HasClient, Probing, Connecting, Placed, Authorized
    <3> QED
      BY <1>0, <2>4, <3>5, <3>6, LoneStep
  <2>6. CASE ExchangeTimesOut(f)
    <3>1. Leave(f, "other") /\ disk' = disk /\ late' = {} /\ exchanging' = {disk.client}
      BY <2>3, <2>6 DEF ExchangeTimesOut
    <3>2. flow'[f].after = "other"
      BY <3>1, LeaveFields
    <3>3. Files'
      BY <1>0, <3>1 DEF Files
    <3>4. InHand(f)'
      BY <2>4, <3>2 DEF InHand, HasClient, Probing, Connecting, Placed, Authorized
    <3> QED
      BY <1>0, <2>4, <3>3, <3>4, LoneStep
  <2>7. CASE ProviderError(f) \/ BrowserUnavailable(f) \/ WaitEnded(f) \/ ExchangeFails(f)
    <3>1. Leave(f, "other") \/ Leave(f, "pending")
      BY <2>7 DEF ProviderError, BrowserUnavailable, WaitEnded, ExchangeFails
    <3>2. flow'[f].after # "choose"
      BY <3>1, LeaveFields
    <3>3. /\ exchanging' = {} /\ late' = {}
          /\ disk' = disk \/ disk' = [disk EXCEPT !.tokens = flow[f].held]
      BY <2>3, <2>7, FilesSet DEF ProviderError, BrowserUnavailable, WaitEnded, ExchangeFails
    <3>4. Files'
      BY <1>0, <1>d, <2>3, <3>3 DEF Files, Disk
    <3>5. InHand(f)'
      BY <2>4, <3>2, <3>3
         DEF InHand, Outlived, HasClient, Probing, Connecting, Placed, Authorized
    <3> QED
      BY <1>0, <2>4, <3>4, <3>5, LoneStep
  <2> QED
    BY <1>3, <2>5, <2>6, <2>7
<1>4. CASE Rejected(f)
  <2>1. Others(f) /\ flow'[f].pc = "stop" /\ flow'[f].after = "choose"
    BY <1>4, RejectedFields
  <2>2. /\ flow[f].pc \in Authorized /\ flow[f].verdict /\ exchanging' = exchanging
        /\ late' = late
        /\ disk' = [disk EXCEPT !.client = None, !.port = 0]
    BY <1>4, FilesSet DEF Rejected, Authorized
  <2>3. disk.tokens = None /\ exchanging = {} /\ late = {}
    BY <1>0, <2>2 DEF InHand, Probing, Authorized
  <2>4. disk'.tokens = None /\ disk'.client = None
    BY <1>d, <2>2, <2>3 DEF Disk
  <2>5. Files' /\ InHand(f)'
    BY <1>0, <2>1, <2>2, <2>3, <2>4
       DEF Files, InHand, Outlived, HasClient, Probing, Connecting, Placed, Authorized
  <2> QED
    BY <1>0, <2>1, <2>5, LoneStep
<1>5. CASE Exchange(f)
  <2>1. /\ flow[f].pc \in HasClient /\ flow[f].pc # "stop" /\ exchanging' = exchanging
        /\ late' = late /\ disk' = [disk EXCEPT !.tokens = flow[f].held]
    BY <1>5, FilesSet DEF Exchange, Exchanging, HasClient, Placed
  <2>2. Others(f) /\ flow'[f].pc = "verify" /\ flow'[f].held = flow[f].held
    BY <1>5, GotoFields DEF Exchange
  <2>3. flow[f].held = disk.client /\ exchanging = {} /\ late = {}
    BY <1>0, <2>1 DEF InHand
  <2>4. disk'.client = disk.client /\ disk'.tokens = disk.client
    BY <1>d, <2>1, <2>3 DEF Disk
  <2>5. Files' /\ InHand(f)'
    BY <1>0, <2>1, <2>2, <2>3, <2>4
       DEF Files, InHand, Outlived, HasClient, Probing, Connecting, Placed, Authorized
  <2> QED
    BY <1>0, <2>2, <2>5, LoneStep
<1>7. CASE Stop(f)
  <2>1. flow[f].pc = "stop" /\ disk' = disk /\ UNCHANGED beyond
    BY <1>7 DEF Stop
  <2>2. CASE flow[f].after \in {"choose", "pending"}
    <3>1. Goto(f, flow[f].after)
      BY <1>7, <2>2 DEF Stop
    <3>2. Others(f) /\ flow'[f].pc = flow[f].after
      BY <3>1, GotoFields
    <3>3. Files'
      BY <1>0, <2>1, FilesKept
    <3>4. InHand(f)'
      BY <1>0, <2>1, <2>2, <3>2
         DEF InHand, Outlived, HasClient, Probing, Connecting, Placed, Authorized
    <3> QED
      BY <1>0, <3>2, <3>3, <3>4, LoneStep
  <2>3. CASE flow[f].after \notin {"choose", "pending"}
    BY <1>0, <1>7, <2>1, <2>3, LoneReturn DEF Stop
  <2> QED
    BY <2>2, <2>3
<1>8. CASE Pending(f)
  BY <1>0, <1>8, LoneReturn DEF Pending
<1> QED
  BY <1>1, <1>3, <1>4, <1>5, <1>7, <1>8 DEF Settling

(* A step that leaves the progress of every call as it was.                *)
LEMMA SameLone ==
  ASSUME Lone, ~static, ~disturbed, \A g \in Flow : Same(g),
         disk' = disk \/ Outlived, Files', Outlived' => Outlived
  PROVE  Lone'
<1>1. \A g \in Flow : Active(g)' <=> Active(g)
  BY DEF Active, Same
<1>2. ASSUME NEW g \in Flow, Active(g) PROVE InHand(g)'
  <2>1. InHand(g)
    BY <1>2 DEF Lone
  <2> QED
    BY <2>1 DEF InHand, Same, Kept, Probing, HasClient, Connecting, Placed, Authorized
<1> QED
  BY <1>1, <1>2 DEF Lone

(* The credentials stay what they are, and a disturbance is not forgotten. *)
LEMMA Onward ==
  ASSUME [Next]_vars
  PROVE  static' = static /\ (disturbed => disturbed')
<1> USE DEF config, run, browser, files, map, beyond
<1> DEFINE Fixed == static' = static /\ (disturbed => disturbed')
<1>1. ASSUME NEW f \in Flow, Preparing(f) PROVE Fixed
  <2>1. CASE Evict(f) \/ Evicted(f) \/ AlreadySignedIn(f) \/ NotSignedIn(f) \/ ReadSavedPort(f)
    BY <2>1 DEF Evict, Evicted, AlreadySignedIn, NotSignedIn, ReadSavedPort
  <2>2. CASE ChoosePort(f) \/ NoPort(f) \/ Floor(f)
    <3>1. static' = static /\ disturbed' = disturbed
      BY <2>2 DEF ChoosePort, NoPort, Floor
    <3> QED
      BY <3>1
  <2>3. CASE Listen(f) \/ CannotListen(f) \/ Start(f)
    BY <2>3 DEF Listen, CannotListen, Start
  <2>4. CASE Wipe(f) \/ Prepare(f)
    BY <2>4, FilesSet DEF Wipe, Prepare
  <2> QED
    BY <1>1, <2>1, <2>2, <2>3, <2>4 DEF Preparing
<1>2. ASSUME NEW f \in Flow, Bootstrap(f) PROVE Fixed
  BY <1>2, FilesSet DEF Bootstrap, Register, ProbeRejects, Redirect, BootstrapEnds
<1>3. ASSUME NEW f \in Flow, Settling(f) PROVE Fixed
  <2>1. CASE GotCode(f) \/ BootstrapConnected(f) \/ SignInBegun(f) \/ SetupFailed(f)
    BY <2>1 DEF GotCode, BootstrapConnected, SignInBegun, SetupFailed
  <2>2. CASE ProviderError(f) \/ BrowserUnavailable(f) \/ WaitEnded(f) \/ ExchangeTimesOut(f)
    BY <2>2 DEF ProviderError, BrowserUnavailable, WaitEnded, ExchangeTimesOut
  <2>3. CASE Rejected(f) \/ Exchange(f) \/ ExchangeFails(f)
    BY <2>3, FilesSet DEF Rejected, Exchange, ExchangeFails
  <2>4. CASE Verified(f) \/ NotVerified(f) \/ Stop(f) \/ Pending(f)
    BY <2>4 DEF Verified, NotVerified, Stop, Pending
  <2> QED
    BY <1>3, <2>1, <2>2, <2>3, <2>4 DEF Settling
<1>4. ASSUME NEW f \in Flow, WaitRunsOut(f) \/ NoBrowser(f) PROVE Fixed
  BY <1>4 DEF WaitRunsOut, NoBrowser
<1>5. ASSUME NEW f \in Flow, Begin(f) PROVE Fixed
  <2>1. static' = static
    BY <1>5 DEF Begin
  <2>2. ASSUME disturbed PROVE disturbed'
    BY <1>5, <2>2, Zenon DEF Begin
  <2> QED
    BY <2>1, <2>2
<1>6. CASE \/ \E page \in pages, how \in {"code", "error"} : Callback(page, how)
           \/ UNCHANGED vars
  <2>1. static' = static /\ disturbed' = disturbed
    BY <1>6 DEF Callback, vars
  <2> QED
    BY <2>1
<1>8. ASSUME NEW id \in exchanging, LateExchange(id) PROVE Fixed
  <2>1. static' = static
    BY <1>8 DEF LateExchange
  <2>2. disturbed => disturbed'
    BY <1>8, FilesSet DEF LateExchange
  <2> QED
    BY <2>1, <2>2
<1>7. CASE \E l \in late : LateRegister(l) \/ LateRedirect(l) \/ LateEnds(l)
  BY <1>7, FilesSet DEF LateRegister, LateRedirect, LateEnds
<1> QED
  BY <1>1, <1>2, <1>3, <1>4, <1>5, <1>6, <1>7, <1>8 DEF Next

LEMMA StaysLone == TypeInv /\ Lone /\ [Next]_vars => Lone'
<1> SUFFICES ASSUME TypeInv, Lone, [Next]_vars, ~static, ~disturbed, ~disturbed' PROVE Lone'
  BY Onward DEF Lone
<1> USE DEF config, run, browser, files, map, beyond
<1>0. Files /\ disk \in Disk
  BY DEF Lone, TypeInv, Typed
<1>1. ASSUME NEW f \in Flow, Begin(f) PROVE Lone'
  <2>1. flow[f].pc = "new" /\ exchanging = {} /\ late = {} /\ \A g \in Flow : ~Active(g)
    BY <1>1, Zenon DEF Begin, At
  <2>2. PICK pc \in {"evict", "check"} : Goto(f, pc)
    BY <1>1 DEF Begin
  <2>3. Others(f) /\ flow'[f].pc = pc
    BY <2>2, GotoFields
  <2>4. disk' = disk /\ exchanging' = exchanging /\ late' = late
    BY <1>1 DEF Begin
  <2>5. Files'
    BY <1>0, <2>4, FilesKept
  <2>6. InHand(f)'
    BY <2>1, <2>3, <2>4
       DEF InHand, Outlived, HasClient, Probing, Connecting, Placed, Authorized
  <2>7. \A g \in Flow : Active(g)' => g = f
    BY <2>1, <2>3 DEF Others, Active
  <2> QED
    BY <2>5, <2>6, <2>7 DEF Lone
<1>2. ASSUME NEW f \in Flow, WaitRunsOut(f) \/ NoBrowser(f) PROVE Lone'
  <2>1. \A g \in Flow : Same(g)
    BY <1>2, WaitFields DEF Others, Same, Kept
  <2>2. disk' = disk /\ exchanging' = exchanging /\ late' = late
    BY <1>2 DEF WaitRunsOut, NoBrowser
  <2> QED
    BY <1>0, <2>1, <2>2, FilesKept, SameLone DEF Outlived
<1>3. ASSUME NEW page \in pages, NEW how \in {"code", "error"}, Callback(page, how)
      PROVE  Lone'
  <2>1. \A g \in Flow : Same(g)
    BY <1>3, CallbackFields
  <2>2. disk' = disk /\ exchanging' = exchanging /\ late' = late
    BY <1>3 DEF Callback
  <2> QED
    BY <1>0, <2>1, <2>2, FilesKept, SameLone DEF Outlived
<1>4. ASSUME NEW id \in exchanging, LateExchange(id) PROVE Lone'
  <2>1. /\ disk' = disk \/ disk' = [disk EXCEPT !.tokens = id]
        /\ exchanging' = exchanging \ {id} /\ late' = late
    BY <1>4, FilesSet DEF LateExchange
  <2>2. disk'.client = disk.client /\ disk'.tokens \in {disk.tokens, id}
    BY <1>0, <2>1 DEF Disk
  <2>3. \A g \in Flow : Same(g)
    BY <1>4 DEF LateExchange, Same, Kept
  <2>4. Files'
    BY <1>0, <2>1, <2>2 DEF Files
  <2> QED
    BY <2>1, <2>3, <2>4, SameLone DEF Outlived
<1>5. ASSUME NEW l \in late, LateRegister(l) \/ LateRedirect(l) \/ LateEnds(l) PROVE Lone'
  <2>1. \A g \in Flow : Same(g)
    BY <1>5 DEF LateRegister, LateRedirect, LateEnds, Same, Kept
  <2>2. Outlived /\ late = {l} /\ l.held = disk.client /\ exchanging = {} /\ exchanging' = {}
    BY <1>0, <1>5 DEF Outlived, Files, LateRegister, LateRedirect, LateEnds
  <2>3. CASE LateRegister(l)
    <3>1. /\ disk' = [disk EXCEPT !.client = l.of, !.port = l.port]
          /\ late' = {[l EXCEPT !.held = l.of]}
      BY <2>2, <2>3, FilesSet DEF LateRegister
    <3>2. disk.client = None /\ disk.tokens = None
      BY <1>0, <2>2, <2>3 DEF LateRegister, Files
    <3>3. disk'.client = l.of /\ disk'.tokens = None
      BY <1>0, <3>1, <3>2 DEF Disk
    <3>4. [l EXCEPT !.held = l.of].held = l.of
      BY DEF TypeInv, Typed
    <3>5. Files'
      BY <2>2, <3>1, <3>3, <3>4 DEF Files
    <3> QED
      BY <2>1, <2>2, <3>5, SameLone
  <2>4. CASE LateRedirect(l) \/ LateEnds(l)
    <3>1. disk' = disk /\ late' = {}
      BY <2>2, <2>4 DEF LateRedirect, LateEnds
    <3>2. Files'
      BY <1>0, <2>2, <3>1 DEF Files
    <3> QED
      BY <2>1, <2>2, <3>2, SameLone
  <2> QED
    BY <1>5, <2>3, <2>4
<1>6. CASE UNCHANGED vars
  <2>1. disk' = disk /\ exchanging' = exchanging /\ late' = late /\ \A g \in Flow : Same(g)
    BY <1>6 DEF vars, Same, Kept
  <2> QED
    BY <1>0, <2>1, FilesKept, SameLone DEF Outlived
<1> QED
  BY <1>1, <1>2, <1>3, <1>4, <1>5, <1>6, PreparingLone, BootstrapLone, SettlingLone DEF Next

(* As long as no two sign-ins of a package overlap, none begins beside     *)
(* what an ended one has left behind, and every change of the files        *)
(* succeeds, the tokens on disk belong to the client on disk, whatever is  *)
(* rejected, fails or comes late.                                          *)
THEOREM LoneSignInsKeepMatch == Spec => []LoneSignInsMatch
<1>1. Init => Lone
  <2> SUFFICES ASSUME Init, ~static PROVE Lone
    BY DEF Lone
  <2>1. \A f \in Flow : ~Active(f)
    BY DEF Init, Fresh, Active
  <2>2. Files
    BY DEF Init, Files
  <2> QED
    BY <2>1, <2>2 DEF Lone
<1>2. Lone => LoneSignInsMatch
  BY DEF Lone, Files, LoneSignInsMatch, TokensMatchClient
<1> QED
  BY <1>1, <1>2, StaysLone, Invariance, PTL DEF Spec
=============================================================================
