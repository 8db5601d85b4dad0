------------------------ MODULE RegistryLifecycleProofs ------------------------
(***************************************************************************)
(* Theorems about RegistryLifecycle, for any clients, requests, evictors   *)
(* and restarters, and any events except where one is excluded.            *)
(***************************************************************************)
EXTENDS RegistryLifecycle, TLAPS

(* The eviction past its turn is the first.                                *)
EvictionsInTurn ==
  \A e \in Evictor :
    evictor[e].pc \in {"draining", "taking", "closing"} => First(e)

(* A request that starts a client has one.                                 *)
Request ==
  {r \in UserRecord : r.pc \in {"connecting", "publishing"} => r.client \in Client}

TypeInv == TypeOK /\ user \in [User -> Request] /\ EvictionsInTurn

-----------------------------------------------------------------------------
(* What the helpers return.                                                *)

(* A request and its client.                                               *)
LEMMA RequestTypes ==
  ASSUME TypeInv, NEW u \in User
  PROVE  /\ user[u] \in Request
         /\ user[u].client \in SomeClient
         /\ IdleUser \in Request
         /\ \A pc \in ({"idle", "asking"} \cup Leased) \ {"connecting", "publishing"} :
              [user[u] EXCEPT !.pc = pc] \in Request
<1>1. user[u] \in Request
  BY DEF TypeInv, TypeOK
<1>2. IdleUser \in Request
  BY DEF IdleUser, Request, UserRecord, SomeClient
<1>3. ASSUME NEW pc \in ({"idle", "asking"} \cup Leased) \ {"connecting", "publishing"}
      PROVE  [user[u] EXCEPT !.pc = pc] \in Request
  BY <1>1 DEF Request, UserRecord
<1>4. user[u].client \in SomeClient
  BY <1>1 DEF Request, UserRecord
<1> QED
  BY <1>1, <1>2, <1>3, <1>4

(* Replacing one request leaves the requests well typed.                   *)
LEMMA UserUpdate ==
  ASSUME TypeInv, NEW u \in User, NEW r \in Request,
         user' = [user EXCEPT ![u] = r]
  PROVE  /\ user' \in [User -> Request]
         /\ user'[u] = r
         /\ \A v \in User \ {u} : user'[v] = user[v]
BY DEF TypeInv, TypeOK

(* Moving a request.                                                       *)
LEMMA MoveUpdate ==
  ASSUME TypeInv, NEW u \in User, NEW pc \in ({"idle", "asking"} \cup Leased) \ {"connecting", "publishing"}
  PROVE  /\ Move(u, pc) = [user EXCEPT ![u] = [user[u] EXCEPT !.pc = pc]]
         /\ Move(u, pc) \in [User -> Request]
<1>1. Move(u, pc) = [user EXCEPT ![u] = [user[u] EXCEPT !.pc = pc]]
  BY DEF Move
<1>2. [user[u] EXCEPT !.pc = pc] \in Request
  BY RequestTypes
<1> QED
  BY <1>1, <1>2 DEF TypeInv, TypeOK

(* Closing clients.                                                        *)
LEMMA ClosingType ==
  ASSUME TypeInv, NEW C, Close(C)
  PROVE  /\ state' \in [Client -> {"unused", "exited"} \cup Live \cup Gone]
         /\ \A c \in Client :
              IF c \notin C \/ state[c] \in Gone THEN state'[c] = state[c]
              ELSE state'[c] \in Gone
BY DEF Close, Closing, TypeInv, TypeOK, Gone, Live

(* What a request becomes when it has its client.                          *)
LEMMA ReceiveType ==
  ASSUME TypeInv, NEW u \in User, NEW c \in SomeClient
  PROVE  Receive(u, c) \in Request
<1>1. user[u] \in Request /\ IdleUser \in Request
  BY RequestTypes
<1>2. [user[u] EXCEPT !.pc = "getting", !.bound = c, !.again = "yes"] \in Request
  BY <1>1 DEF Request, UserRecord, Leased
<1>3. [user[u] EXCEPT !.pc = "preflight", !.client = c, !.bound = c] \in Request
  BY <1>1 DEF Request, UserRecord, Leased
<1> QED
  BY <1>1, <1>2, <1>3 DEF Receive

(* Joining an attempt or beginning one.                                    *)
LEMMA JoinType ==
  ASSUME TypeInv, NEW u \in User, Join(u)
  PROVE  /\ clientPromises' \in User \cup {Nobody}
         /\ \E r \in Request :
              user' = [user EXCEPT ![u] = r] /\ r.pc \in {"waiting", "spawning"}
<1>1. user[u] \in Request
  BY RequestTypes
<1>2. CASE clientPromises # Nobody
  <2> DEFINE r == [user[u] EXCEPT !.pc = "waiting", !.awaits = clientPromises]
  <2>1. r \in Request /\ r.pc = "waiting"
    BY <1>1 DEF Request, UserRecord, Leased, TypeInv, TypeOK
  <2>2. user' = [user EXCEPT ![u] = r] /\ clientPromises' = clientPromises
    BY <1>2 DEF Join
  <2> QED
    BY <2>1, <2>2 DEF TypeInv, TypeOK
<1>3. CASE clientPromises = Nobody
  <2> DEFINE r == [user[u] EXCEPT !.pc = "spawning", !.tries = 1]
  <2>1. r \in Request /\ r.pc = "spawning"
    BY <1>1 DEF Request, UserRecord, Leased, Connecting
  <2>2. user' = [user EXCEPT ![u] = r] /\ clientPromises' = u
    BY <1>3 DEF Join
  <2> QED
    BY <2>1, <2>2
<1> QED
  BY <1>2, <1>3

(* The end of an attempt: its requests come back, its restarters go on.    *)
LEMMA SettleType ==
  ASSUME TypeInv, NEW u \in User, NEW c \in SomeClient, NEW r \in Request,
         Settle(u, c, r)
  PROVE  /\ clientPromises' \in User \cup {Nobody}
         /\ user' \in [User -> Request]
         /\ user'[u] = r
         /\ \A v \in User \ {u} :
              \/ user'[v] = user[v]
              \/ user[v].pc = "waiting" /\ user'[v].pc \in {"leaving", "handed"}
         /\ restarter' \in [Restarter -> [pc : {"idle", "awaiting", "pending", "closing"},
                                          client : SomeClient,
                                          awaits : User \cup {Nobody}]]
<1> DEFINE back(v) ==
      [user[v] EXCEPT !.pc = IF c = NoClient THEN "leaving" ELSE "handed",
                      !.client = c, !.awaits = Nobody]
           on(v) == IF v = u THEN r
                    ELSE IF At(v, "waiting") /\ user[v].awaits = u THEN back(v)
                    ELSE user[v]
<1>1. \A v \in User : user[v] \in Request
  BY DEF TypeInv, TypeOK
<1>2. \A v \in User : back(v) \in Request /\ back(v).pc \in {"leaving", "handed"}
  BY <1>1 DEF Request, UserRecord, Leased
<1>3. user' = [v \in User |-> on(v)] /\ clientPromises' = Nobody
  BY DEF Settle
<1> HIDE DEF back
<1>4. user' \in [User -> Request] /\ user'[u] = r
      /\ \A v \in User \ {u} :
           \/ user'[v] = user[v]
           \/ user[v].pc = "waiting" /\ user'[v].pc \in {"leaving", "handed"}
  BY <1>1, <1>2, <1>3 DEF At
<1>5. restarter' \in [Restarter -> [pc : {"idle", "awaiting", "pending", "closing"},
                                    client : SomeClient,
                                    awaits : User \cup {Nobody}]]
  <2> DEFINE places == [pc : {"idle", "awaiting", "pending", "closing"},
                        client : SomeClient, awaits : User \cup {Nobody}]
             going(k) == [restarter[k] EXCEPT !.pc = "pending", !.client = c,
                                              !.awaits = Nobody]
  <2>1. \A k \in Restarter : restarter[k] \in places
    BY DEF TypeInv, TypeOK
  <2>2. \A k \in Restarter : going(k) \in places
    BY <2>1
  <2>3. restarter' = [k \in Restarter |->
           IF restarter[k].pc = "awaiting" /\ restarter[k].awaits = u
             THEN going(k) ELSE restarter[k]]
    BY DEF Settle
  <2> HIDE DEF going, places
  <2>4. restarter' \in [Restarter -> places]
    BY <2>1, <2>2, <2>3
  <2> QED
    BY <2>4 DEF places
<1> QED
  BY <1>3, <1>4, <1>5

-----------------------------------------------------------------------------
(* Each operation keeps TypeInv.                                           *)

(* A step that replaces requests and leaves evictions alone.               *)
LEMMA RequestStep ==
  ASSUME TypeInv, user' \in [User -> Request],
         clients' \in SomeClient,
         clientPromises' \in User \cup {Nobody},
         constructedClients' \subseteq Client,
         state' \in [Client -> {"unused", "exited"} \cup Live \cup Gone],
         activeLeases' \subseteq Call,
         leaseDrainWaiters' \subseteq Evictor \cup {Drain},
         UNCHANGED others
  PROVE  TypeInv'
<1>1. user' \in [User -> UserRecord]
  BY DEF Request
<1>2. TypeOK'
  BY <1>1 DEF TypeInv, TypeOK, others
<1>3. EvictionsInTurn'
  BY DEF TypeInv, EvictionsInTurn, First, others
<1> QED
  BY <1>2, <1>3 DEF TypeInv

LEMMA AskType ==
  ASSUME TypeInv, NEW u \in User, Ask(u)
  PROVE  TypeInv'
<1> DEFINE r == [IdleUser EXCEPT !.pc = IF u \in Call THEN "asking" ELSE "getting"]
<1>1. r \in Request
  BY RequestTypes DEF TypeInv, Request, UserRecord, Leased
<1>2. user' = [user EXCEPT ![u] = r]
  BY DEF Ask
<1> HIDE DEF r
<1>3. user' \in [User -> Request]
  BY <1>1, <1>2, UserUpdate DEF TypeInv
<1> QED
  BY <1>3, RequestStep DEF Ask, TypeInv, TypeOK

(* Getting a client.                                                       *)
LEMMA GettingType ==
  ASSUME TypeInv, NEW u \in User, Getting(u)
  PROVE  TypeInv'
<1> DEFINE c == user[u].client
<1>0. TypeOK /\ c \in SomeClient /\ user[u] \in Request
      /\ \A pc \in {"leaving", "discarding"} : Move(u, pc) \in [User -> Request]
  BY RequestTypes, MoveUpdate DEF TypeInv, Leased
<1>j. ASSUME Join(u)
      PROVE  user' \in [User -> Request] /\ clientPromises' \in User \cup {Nobody}
  BY <1>0, <1>j, JoinType, UserUpdate
<1>r. [user EXCEPT ![u] = Receive(u, c)] \in [User -> Request]
  BY <1>0, ReceiveType DEF TypeInv, TypeOK
<1>1. CASE AcquireLease(u)
  <2>1. IdleUser \in Request
        /\ [user[u] EXCEPT !.pc = "getting", !.bound = clients] \in Request
    BY <1>0, RequestTypes DEF Request, UserRecord, Leased, TypeInv, TypeOK
  <2>2. user' \in [User -> Request]
    BY <1>1, <2>1 DEF AcquireLease, TypeInv, TypeOK
  <2>3. u \in Call
    BY <1>1 DEF AcquireLease
  <2> QED
    BY <1>1, <2>2, <2>3, RequestStep DEF AcquireLease, TypeInv, TypeOK
<1>2. CASE GetClient(u)
  <2>1. [user[u] EXCEPT !.pc = "probing", !.client = clients] \in Request
    BY <1>0 DEF Request, UserRecord, Leased, TypeInv, TypeOK
  <2>2. user' \in [User -> Request] /\ clientPromises' \in User \cup {Nobody}
    BY <1>0, <1>j, <1>2, <2>1 DEF GetClient, TypeInv, TypeOK
  <2> QED
    BY <1>2, <2>2, RequestStep DEF GetClient, TypeInv, TypeOK
<1>3. CASE HealthOk(u)
  <2>1. user' \in [User -> Request] /\ clients' \in SomeClient
    BY <1>0, <1>r, <1>3 DEF HealthOk, TypeInv, TypeOK, SomeClient
  <2> QED
    BY <1>3, <2>1, RequestStep DEF HealthOk, TypeInv, TypeOK
<1>4. CASE HealthBad(u)
  <2>1. state' \in [Client -> {"unused", "exited"} \cup Live \cup Gone]
    BY <1>0, <1>4, ClosingType DEF HealthBad, TypeInv, TypeOK
  <2>2. user' \in [User -> Request] /\ clientPromises' \in User \cup {Nobody}
        /\ clients' \in SomeClient
    BY <1>0, <1>j, <1>4 DEF HealthBad, TypeInv, TypeOK, WithoutUnhealthy, SomeClient
  <2> QED
    BY <1>4, <2>1, <2>2, RequestStep DEF HealthBad, TypeInv, TypeOK
<1>5. CASE Discarded(u)
  <2>1. user' \in [User -> Request] /\ clientPromises' \in User \cup {Nobody}
    BY <1>0, <1>j, <1>5 DEF Discarded, TypeInv, TypeOK
  <2> QED
    BY <1>5, <2>1, RequestStep DEF Discarded, TypeInv, TypeOK
<1>6. CASE Handed(u)
  <2>1. user' \in [User -> Request] /\ clients' \in SomeClient
    BY <1>0, <1>r, <1>6 DEF Handed, TypeInv, TypeOK, SomeClient
  <2> QED
    BY <1>6, <2>1, RequestStep DEF Handed, TypeInv, TypeOK
<1> QED
  BY <1>1, <1>2, <1>3, <1>4, <1>5, <1>6 DEF Getting

(* Own holds clients.                                                      *)
LEMMA OwnType ==
  ASSUME TypeInv, NEW c \in Client
  PROVE  Own(c) \subseteq Client
BY DEF Own, TypeInv, TypeOK

(* A step that settles an attempt.                                         *)
LEMMA SettleStep ==
  ASSUME TypeInv, NEW u \in User, NEW c \in SomeClient, NEW r \in Request,
         Settle(u, c, r), clients' \in SomeClient,
         constructedClients' \subseteq Client,
         UNCHANGED <<state, activeLeases, evictionPromises, evictor,
                     leaseDrainWaiters, terminal, drain>>
  PROVE  TypeInv'
<1>0. /\ clientPromises' \in User \cup {Nobody}
      /\ user' \in [User -> Request]
      /\ restarter' \in [Restarter -> [pc : {"idle", "awaiting", "pending", "closing"},
                                       client : SomeClient,
                                       awaits : User \cup {Nobody}]]
  BY SettleType
<1>1. user' \in [User -> UserRecord]
  BY <1>0 DEF Request
<1>2. TypeOK'
  BY <1>0, <1>1 DEF TypeInv, TypeOK
<1>3. EvictionsInTurn'
  BY DEF TypeInv, EvictionsInTurn, First
<1> QED
  BY <1>0, <1>2, <1>3 DEF TypeInv

(* An attempt to connect.                                                  *)
LEMMA AttemptType ==
  ASSUME TypeInv, NEW u \in User, Attempt(u)
  PROVE  TypeInv'
<1> DEFINE c == user[u].client
           failed == [user[u] EXCEPT !.pc = "leaving"]
<1>0. TypeOK /\ c \in SomeClient /\ user[u] \in Request
      /\ failed \in Request
      /\ Move(u, "retrying") \in [User -> Request]
  BY RequestTypes, MoveUpdate DEF TypeInv, Leased, Connecting
<1>1. CASE Spawn(u)
  <2>1. PICK d \in Client :
          /\ state' = [state EXCEPT ![d] = "connecting"]
          /\ constructedClients' = Own(d)
          /\ user' = [user EXCEPT ![u] = [@ EXCEPT !.pc = "connecting", !.client = d]]
    BY <1>1 DEF Spawn
  <2>2. [user[u] EXCEPT !.pc = "connecting", !.client = d] \in Request
    BY <1>0 DEF Request, UserRecord, Leased, Connecting, SomeClient
  <2>3. user' \in [User -> Request]
    BY <2>1, <2>2, <1>0 DEF TypeInv, TypeOK
  <2>4. state' \in [Client -> {"unused", "exited"} \cup Live \cup Gone]
    BY <2>1, <1>0 DEF TypeInv, TypeOK, Live
  <2>5. constructedClients' \subseteq Client
    BY <2>1, <1>0, OwnType
  <2> QED
    BY <1>1, <2>3, <2>4, <2>5, RequestStep DEF Spawn, TypeInv, TypeOK
<1>2. CASE Connected(u)
  <2>1. state' \in [Client -> {"unused", "exited"} \cup Live \cup Gone]
    <3>1. CASE Open
      BY <1>0, <1>2, <3>1 DEF Connected, TypeInv, TypeOK, Live
    <3>2. CASE ~Open
      BY <1>0, <1>2, <3>2, ClosingType DEF Connected
    <3> QED
      BY <3>1, <3>2
  <2>2. user' \in [User -> Request]
    <3>1. [user[u] EXCEPT !.pc = "publishing"] \in Request
      BY <1>0, <1>2 DEF Connected, At, Request, UserRecord, Leased, Connecting
    <3>2. Move(u, "publishing") \in [User -> Request]
      BY <3>1 DEF Move, TypeInv
    <3> QED
      BY <1>0, <1>2, <3>2 DEF Connected
  <2> QED
    BY <1>2, <2>1, <2>2, RequestStep DEF Connected, TypeInv, TypeOK
<1>3. CASE ConnectFails(u)
  <2>1. state' \in [Client -> {"unused", "exited"} \cup Live \cup Gone]
    BY <1>0, <1>3, ClosingType DEF ConnectFails
  <2>2. user' \in [User -> Request]
    BY <1>0, <1>3 DEF ConnectFails
  <2> QED
    BY <1>3, <2>1, <2>2, RequestStep DEF ConnectFails, TypeInv, TypeOK
<1>4. CASE Retry(u)
  <2> DEFINE r == [user[u] EXCEPT !.pc = "spawning", !.tries = user[u].tries + 1]
  <2>1. user[u].tries + 1 = 2
    BY <1>4 DEF Retry, LastTryLeft
  <2>2. r \in Request
    BY <1>0, <2>1 DEF Request, UserRecord, Leased, Connecting
  <2>3. user' = [user EXCEPT ![u] = r]
    BY <1>4 DEF Retry
  <2> HIDE DEF r
  <2>4. user' \in [User -> Request]
    BY <2>2, <2>3, UserUpdate
  <2> QED
    BY <1>4, <2>4, RequestStep DEF Retry, TypeInv, TypeOK
<1>5. CASE AttemptFails(u)
  BY <1>0, <1>5, SettleStep DEF AttemptFails, TypeInv, TypeOK, SomeClient
<1>6. CASE Publish(u)
  <2>1. Receive(u, c) \in Request
    BY <1>0, ReceiveType
  <2>2. CASE Open
    <3>1. Settle(u, c, Receive(u, c)) /\ clients' \in SomeClient
          /\ constructedClients' \subseteq Client
      BY <1>0, <1>6, <2>2 DEF Publish, SomeClient, TypeInv, TypeOK
    <3> QED
      BY <1>0, <1>6, <2>1, <3>1, SettleStep DEF Publish
  <2>3. CASE ~Open
    <3>1. Settle(u, NoClient, failed) /\ clients' \in SomeClient
      BY <1>0, <1>6, <2>3 DEF Publish, TypeInv, TypeOK
    <3>2. constructedClients' \subseteq Client
      <4>1. c \in Client
        BY <1>0, <1>6 DEF Publish, At, Request
      <4> QED
        BY <1>6, <2>3, <4>1, OwnType DEF Publish
    <3> QED
      BY <1>0, <1>6, <3>1, <3>2, SettleStep DEF Publish, SomeClient
  <2> QED
    BY <2>2, <2>3
<1> QED
  BY <1>1, <1>2, <1>3, <1>4, <1>5, <1>6 DEF Attempt

(* The end of a request.                                                   *)
LEMMA EndingType ==
  ASSUME TypeInv, NEW u \in User, Ending(u)
  PROVE  TypeInv'
<1>0. TypeOK /\ IdleUser \in Request
      /\ \A pc \in {"dispatched", "leaving"} : Move(u, pc) \in [User -> Request]
  BY RequestTypes, MoveUpdate DEF TypeInv, Leased
<1>1. CASE Dispatch(u)
  <2>1. user' \in [User -> Request]
    BY <1>0, <1>1 DEF Dispatch
  <2> QED
    BY <1>1, <2>1, RequestStep DEF Dispatch, TypeInv, TypeOK
<1>2. CASE Answer(u)
  <2>1. user' \in [User -> Request]
    BY <1>0, <1>2 DEF Answer
  <2> QED
    BY <1>2, <2>1, RequestStep DEF Answer, TypeInv, TypeOK
<1>3. CASE ReleaseLease(u)
  <2>1. user' \in [User -> Request]
    BY <1>0, <1>3 DEF ReleaseLease, TypeInv, TypeOK
  <2>2. leaseDrainWaiters' \subseteq Evictor \cup {Drain} /\ activeLeases' \subseteq Call
    BY <1>0, <1>3 DEF ReleaseLease, StillWaiting, TypeInv, TypeOK
  <2> QED
    BY <1>3, <2>1, <2>2, RequestStep DEF ReleaseLease, TypeInv, TypeOK
<1> QED
  BY <1>1, <1>2, <1>3 DEF Ending

(* Clients exit, and closes end.                                           *)
LEMMA ClientType ==
  ASSUME TypeInv, NEW c \in Client, ClientExits(c) \/ Closed(c)
  PROVE  TypeInv'
<1>1. CASE ClientExits(c)
  <2>1. state' \in [Client -> {"unused", "exited"} \cup Live \cup Gone]
    BY <1>1 DEF ClientExits, TypeInv, TypeOK
  <2> QED
    BY <1>1, <2>1, RequestStep DEF ClientExits, TypeInv, TypeOK
<1>2. CASE Closed(c)
  <2>1. state' \in [Client -> {"unused", "exited"} \cup Live \cup Gone]
    BY <1>2 DEF Closed, TypeInv, TypeOK, Gone
  <2>2. \A u \in User : user[u] \in Request
                          /\ [user[u] EXCEPT !.pc = "dropped"] \in Request
    BY RequestTypes DEF TypeInv, Leased
  <2>3. user' \in [User -> Request]
    BY <1>2, <2>2 DEF Closed
  <2> QED
    BY <1>2, <2>1, <2>3, RequestStep DEF Closed, TypeInv, TypeOK
<1> QED
  BY <1>1, <1>2

(* A step of the evictions, whose records and queue stay well typed.       *)
LEMMA EvictionStep ==
  ASSUME TypeInv, EvictionsInTurn',
         evictionPromises' \in Seq(Evictor),
         evictor' \in [Evictor -> [pc : {"idle", "queued", "draining", "taking", "closing"},
                                   client : SomeClient]],
         clients' \in SomeClient,
         state' \in [Client -> {"unused", "exited"} \cup Live \cup Gone],
         leaseDrainWaiters' \subseteq Evictor \cup {Drain},
         UNCHANGED <<clientPromises, constructedClients, user, activeLeases,
                     restarter, terminal, drain>>
  PROVE  TypeInv'
BY DEF TypeInv, TypeOK

(* The first eviction ends.                                                *)
LEMMA EvictionEndsType ==
  ASSUME TypeInv, NEW e \in Evictor, First(e), EvictionEnds(e)
  PROVE  /\ evictionPromises' \in Seq(Evictor)
         /\ evictor' \in [Evictor -> [pc : {"idle", "queued", "draining", "taking",
                                            "closing"},
                                      client : SomeClient]]
         /\ EvictionsInTurn'
<1>1. IdleEvictor \in [pc : {"idle", "queued", "draining", "taking", "closing"},
                       client : SomeClient]
  BY DEF IdleEvictor, SomeClient
<1>2. evictor' \in [Evictor -> [pc : {"idle", "queued", "draining", "taking", "closing"},
                               client : SomeClient]]
  BY <1>1 DEF EvictionEnds, TypeInv, TypeOK
<1>3. evictionPromises' \in Seq(Evictor)
  BY DEF EvictionEnds, TypeInv, TypeOK, First
<1>4. EvictionsInTurn'
  <2> SUFFICES ASSUME NEW f \in Evictor,
                      evictor'[f].pc \in {"draining", "taking", "closing"}
               PROVE  FALSE
    BY DEF EvictionsInTurn
  <2>1. f # e
    BY DEF EvictionEnds, IdleEvictor, TypeInv, TypeOK
  <2>2. evictor[f].pc \in {"draining", "taking", "closing"}
    BY <2>1 DEF EvictionEnds
  <2>3. First(f)
    BY <2>2 DEF TypeInv, EvictionsInTurn
  <2> QED
    BY <2>1, <2>3 DEF First
<1> QED
  BY <1>2, <1>3, <1>4

(* An eviction arrives.                                                    *)
LEMMA EvictType ==
  ASSUME TypeInv, NEW e \in Evictor, Evict(e)
  PROVE  TypeInv'
<1>1. evictionPromises' = Append(evictionPromises, e)
      /\ evictor' = [evictor EXCEPT ![e] = [evictor[e] EXCEPT !.pc = "queued"]]
  BY DEF Evict
<1>2. evictionPromises' \in Seq(Evictor)
      /\ (evictionPromises # <<>> =>
            evictionPromises' # <<>> /\ Head(evictionPromises') = Head(evictionPromises))
  BY <1>1 DEF TypeInv, TypeOK
<1>3. evictor' \in [Evictor -> [pc : {"idle", "queued", "draining", "taking", "closing"},
                               client : SomeClient]]
  BY <1>1 DEF TypeInv, TypeOK
<1>4. EvictionsInTurn'
  <2> SUFFICES ASSUME NEW f \in Evictor,
                      evictor'[f].pc \in {"draining", "taking", "closing"}
               PROVE  First(f)'
    BY DEF EvictionsInTurn
  <2>1. evictor[f].pc \in {"draining", "taking", "closing"}
    BY <1>1 DEF TypeInv, TypeOK
  <2>2. First(f)
    BY <2>1 DEF TypeInv, EvictionsInTurn
  <2> QED
    BY <2>2, <1>2 DEF First
<1> QED
  BY <1>2, <1>3, <1>4, EvictionStep DEF Evict, TypeInv, TypeOK

(* An eviction goes on.                                                    *)
LEMMA EvictingType ==
  ASSUME TypeInv, NEW e \in Evictor, Evicting(e)
  PROVE  TypeInv'
<1> DEFINE R == [pc : {"idle", "queued", "draining", "taking", "closing"},
                 client : SomeClient]
<1>0. evictor \in [Evictor -> R] /\ evictionPromises \in Seq(Evictor)
  BY DEF TypeInv, TypeOK
<1>n. ASSUME NEW r \in R, First(e), evictor' = [evictor EXCEPT ![e] = r],
             evictionPromises' = evictionPromises
      PROVE  evictor' \in [Evictor -> R] /\ EvictionsInTurn'
  BY <1>0, <1>n DEF TypeInv, EvictionsInTurn, First
<1>1. CASE EvictionTurn(e)
  <2>1. First(e)
    BY <1>1 DEF EvictionTurn
  <2>2. CASE EvictionEnds(e)
    BY <1>1, <2>1, <2>2, EvictionEndsType, EvictionStep DEF EvictionTurn, TypeInv, TypeOK
  <2>3. CASE ~EvictionEnds(e)
    <3> DEFINE r == [evictor[e] EXCEPT !.pc = "draining"]
    <3>1. r \in R
      BY <1>0
    <3>2. evictor' = [evictor EXCEPT ![e] = r] /\ evictionPromises' = evictionPromises
      BY <1>1, <2>3 DEF EvictionTurn
    <3> HIDE DEF r
    <3>3. evictor' \in [Evictor -> R] /\ EvictionsInTurn'
      BY <1>n, <2>1, <3>1, <3>2
    <3> QED
      BY <1>0, <1>1, <3>2, <3>3, EvictionStep DEF EvictionTurn, TypeInv, TypeOK
  <2> QED
    BY <2>2, <2>3
<1>2. CASE WaitForActiveLeases(e)
  <2>1. First(e)
    BY <1>2 DEF WaitForActiveLeases, TypeInv, EvictionsInTurn
  <2>2. CASE activeLeases # {}
    <3>1. EvictionsInTurn'
      BY <1>2, <2>2 DEF WaitForActiveLeases, TypeInv, EvictionsInTurn, First
    <3> QED
      BY <1>0, <1>2, <2>2, <3>1, EvictionStep DEF WaitForActiveLeases, TypeInv, TypeOK
  <2>3. CASE activeLeases = {}
    <3> DEFINE r == [evictor[e] EXCEPT !.pc = "taking"]
    <3>1. r \in R
      BY <1>0
    <3>2. evictor' = [evictor EXCEPT ![e] = r] /\ evictionPromises' = evictionPromises
      BY <1>2, <2>3 DEF WaitForActiveLeases
    <3> HIDE DEF r
    <3>3. evictor' \in [Evictor -> R] /\ EvictionsInTurn'
      BY <1>n, <2>1, <3>1, <3>2
    <3> QED
      BY <1>0, <1>2, <2>3, <3>2, <3>3, EvictionStep
         DEF WaitForActiveLeases, TypeInv, TypeOK
  <2> QED
    BY <2>2, <2>3
<1>3. CASE EvictionTakes(e)
  <2>1. First(e)
    BY <1>3 DEF EvictionTakes, TypeInv, EvictionsInTurn
  <2>2. CASE EvictionEnds(e) /\ UNCHANGED <<clients, state>>
    BY <1>3, <2>1, <2>2, EvictionEndsType, EvictionStep DEF EvictionTakes, TypeInv, TypeOK
  <2>3. CASE /\ clients # NoClient
             /\ clients' = NoClient
             /\ Close({clients})
             /\ evictor' = [evictor EXCEPT ![e] = [pc |-> "closing", client |-> clients]]
             /\ evictionPromises' = evictionPromises
    <3>1. [pc |-> "closing", client |-> clients] \in R
      BY DEF TypeInv, TypeOK
    <3>2. evictor' \in [Evictor -> R] /\ EvictionsInTurn'
      BY <1>n, <2>1, <2>3, <3>1
    <3>3. state' \in [Client -> {"unused", "exited"} \cup Live \cup Gone]
      BY <2>3, ClosingType
    <3> QED
      BY <1>0, <1>3, <2>3, <3>2, <3>3, EvictionStep
         DEF EvictionTakes, TypeInv, TypeOK, SomeClient
  <2> QED
    BY <1>3, <2>2, <2>3 DEF EvictionTakes
<1>4. CASE Evicted(e)
  <2>1. First(e) /\ EvictionEnds(e)
    BY <1>4 DEF Evicted, TypeInv, EvictionsInTurn
  <2> QED
    BY <1>4, <2>1, EvictionEndsType, EvictionStep DEF Evicted, TypeInv, TypeOK
<1> QED
  BY <1>1, <1>2, <1>3, <1>4 DEF Evicting

(* The idle reaper.                                                        *)
LEMMA SweepType ==
  ASSUME TypeInv, Sweep
  PROVE  TypeInv'
<1>1. state' \in [Client -> {"unused", "exited"} \cup Live \cup Gone]
  BY ClosingType DEF Sweep
<1> QED
  BY <1>1, RequestStep DEF Sweep, TypeInv, TypeOK, SomeClient

(* A step of a restart.                                                    *)
LEMMA RestartStep ==
  ASSUME TypeInv, clients' \in SomeClient,
         clientPromises' \in User \cup {Nobody},
         state' \in [Client -> {"unused", "exited"} \cup Live \cup Gone],
         restarter' \in [Restarter -> [pc : {"idle", "awaiting", "pending", "closing"},
                                       client : SomeClient,
                                       awaits : User \cup {Nobody}]],
         UNCHANGED <<constructedClients, user, activeLeases, evictionPromises, evictor,
                     leaseDrainWaiters, terminal, drain>>
  PROVE  TypeInv'
<1>1. TypeOK'
  BY DEF TypeInv, TypeOK
<1>2. EvictionsInTurn'
  BY DEF TypeInv, EvictionsInTurn, First
<1> QED
  BY <1>1, <1>2 DEF TypeInv

(* A restart.                                                              *)
LEMMA RestartType ==
  ASSUME TypeInv, NEW r \in Restarter, Restart(r) \/ Restarting(r)
  PROVE  TypeInv'
<1> DEFINE R == [pc : {"idle", "awaiting", "pending", "closing"},
                 client : SomeClient, awaits : User \cup {Nobody}]
           S == [Client -> {"unused", "exited"} \cup Live \cup Gone]
<1>0. IdleRestarter \in R /\ restarter \in [Restarter -> R] /\ state \in S
      /\ clients \in SomeClient /\ clientPromises \in User \cup {Nobody}
  BY DEF IdleRestarter, SomeClient, TypeInv, TypeOK
<1>t. ASSUME RestartTakes(r)
      PROVE  restarter' \in [Restarter -> R] /\ state' \in S
  <2>1. CASE clients = NoClient
    BY <1>0, <1>t, <2>1 DEF RestartTakes
  <2>2. CASE clients # NoClient
    <3>1. [IdleRestarter EXCEPT !.pc = "closing", !.client = clients] \in R
      BY <1>0
    <3>2. Close({clients})
          /\ restarter' = [restarter EXCEPT ![r] =
               [IdleRestarter EXCEPT !.pc = "closing", !.client = clients]]
      BY <1>t, <2>2 DEF RestartTakes
    <3>3. state' \in S
      BY <3>2, ClosingType
    <3> QED
      BY <1>0, <3>1, <3>2, <3>3
  <2> QED
    BY <2>1, <2>2
<1>1. CASE Restart(r)
  <2>1. CASE clientPromises # Nobody
    <3>1. [IdleRestarter EXCEPT !.pc = "awaiting", !.awaits = clientPromises] \in R
      BY <1>0
    <3>2. restarter' = [restarter EXCEPT ![r] =
            [IdleRestarter EXCEPT !.pc = "awaiting", !.awaits = clientPromises]]
          /\ state' = state
      BY <1>1, <2>1 DEF Restart
    <3>3. restarter' \in [Restarter -> R]
      BY <1>0, <3>1, <3>2
    <3> QED
      BY <1>0, <1>1, <3>2, <3>3, RestartStep DEF Restart
  <2>2. CASE clientPromises = Nobody
    BY <1>0, <1>1, <1>t, <2>2, RestartStep DEF Restart
  <2> QED
    BY <2>1, <2>2
<1>2. CASE RestartPending(r)
  <2>1. state' \in S
    BY <1>2, ClosingType DEF RestartPending
  <2> QED
    BY <1>0, <1>2, <2>1, RestartStep DEF RestartPending
<1>3. CASE RestartGoesOn(r)
  <2>1. /\ restarter' \in [Restarter -> R] /\ state' \in S
        /\ clientPromises' \in User \cup {Nobody}
    BY <1>0, <1>3, <1>t DEF RestartGoesOn
  <2> QED
    BY <1>0, <1>3, <2>1, RestartStep DEF RestartGoesOn
<1>4. CASE Restarted(r)
  <2>1. restarter' \in [Restarter -> R] /\ clients' \in SomeClient
    BY <1>0, <1>4 DEF Restarted, SomeClient
  <2> QED
    BY <1>0, <1>4, <2>1, RestartStep DEF Restarted
<1> QED
  BY <1>1, <1>2, <1>3, <1>4 DEF Restarting

(* Shutdown.                                                               *)
LEMMA ShutdownType ==
  ASSUME TypeInv, CloseAll \/ Draining
  PROVE  TypeInv'
<1> DEFINE D == [pc : {"off", "looping", "settling", "leases", "evictions", "done"},
                 attempts : SUBSET User, closes : SUBSET Client]
           S == [Client -> {"unused", "exited"} \cup Live \cup Gone]
<1>0. drain \in D /\ state \in S
  BY DEF TypeInv, TypeOK
<1>s. ASSUME drain' \in D, state' \in S, clients' \in SomeClient,
             constructedClients' \subseteq Client, activeLeases' \subseteq Call,
             leaseDrainWaiters' \subseteq Evictor \cup {Drain},
             terminal' \in {"open", "shutdown"},
             UNCHANGED <<clientPromises, user, evictionPromises, evictor, restarter>>
      PROVE  TypeInv'
  <2>1. TypeOK'
    BY <1>s DEF TypeInv, TypeOK
  <2>2. EvictionsInTurn'
    BY <1>s DEF TypeInv, EvictionsInTurn, First
  <2> QED
    BY <1>s, <2>1, <2>2 DEF TypeInv
<1>1. CASE CloseAll
  BY <1>0, <1>1, <1>s DEF CloseAll, TypeInv, TypeOK
<1>2. CASE DrainLoop
  <2>1. state' \in S
    BY <1>2, ClosingType DEF DrainLoop
  <2>2. clients' \in SomeClient /\ terminal' \in {"open", "shutdown"}
    BY <1>2 DEF DrainLoop, SomeClient, TypeInv, TypeOK
  <2>3. CASE DrainSettles
    <3>1. AwaitedAttempts \subseteq User /\ ActiveCloses \subseteq Client
      BY DEF AwaitedAttempts, ActiveCloses, TypeInv, TypeOK
    <3>2. drain' \in D
      BY <2>3, <3>1 DEF DrainSettles
    <3> QED
      BY <1>2, <1>s, <2>1, <2>2, <2>3, <3>2 DEF DrainLoop, DrainSettles, TypeInv, TypeOK
  <2>4. CASE DrainReconciles
    <3>1. drain' \in D
      BY <1>0, <2>4 DEF DrainReconciles
    <3>2. activeLeases' \subseteq Call /\ constructedClients' \subseteq Client
          /\ leaseDrainWaiters' \subseteq Evictor \cup {Drain}
      BY <2>4 DEF DrainReconciles, Reconciled, TypeInv, TypeOK
    <3> QED
      BY <1>2, <1>s, <2>1, <2>2, <3>1, <3>2 DEF DrainLoop
  <2> QED
    BY <1>2, <2>3, <2>4 DEF DrainLoop
<1>3. CASE DrainGoesOn
  BY <1>3, <1>s DEF DrainGoesOn, TypeInv, TypeOK
<1> QED
  BY <1>1, <1>2, <1>3 DEF Draining

LEMMA TypeInit ==
  ASSUME Init
  PROVE  TypeInv
<1>1. IdleUser \in Request /\ Request \subseteq UserRecord
  BY DEF IdleUser, Request, UserRecord, SomeClient
<1>2. TypeOK
  BY <1>1 DEF Init, TypeOK, SomeClient, IdleEvictor, IdleRestarter
<1>3. EvictionsInTurn
  BY DEF Init, EvictionsInTurn, IdleEvictor
<1> QED
  BY <1>1, <1>2, <1>3 DEF TypeInv, Init

LEMMA TypeStep ==
  ASSUME TypeInv, [Next]_vars
  PROVE  TypeInv'
<1>1. CASE UNCHANGED vars
  BY <1>1 DEF vars, others, TypeInv, TypeOK, EvictionsInTurn, First
<1>2. CASE Next
  BY <1>2, AskType, GettingType, AttemptType, EndingType, ClientType, EvictType,
     EvictingType, SweepType, RestartType, ShutdownType DEF Next
<1> QED
  BY <1>1, <1>2

(* Every variable keeps its type, and only the first eviction in the queue *)
(* is ever past its turn.                                                  *)
THEOREM TypeCorrect == Spec => []TypeOK
<1>1. Spec => []TypeInv
  BY TypeInit, TypeStep, PTL DEF Spec
<1>2. TypeInv => TypeOK
  BY DEF TypeInv
<1> QED
  BY <1>1, <1>2, PTL

-----------------------------------------------------------------------------
(* Why a call is not interrupted: it holds a lease from before it gets its *)
(* client until it is done with it; an eviction that found no lease lets   *)
(* none be taken before it has taken the client; and a client is started   *)
(* by one attempt, which closes no other.                                  *)

LeasesHeld ==
  Open => \A u \in Call : user[u].pc \in Leased => u \in activeLeases

EvictionsWait ==
  Open => \A e \in Evictor : evictor[e].pc = "taking" => activeLeases = {}

StartsAlone ==
  \A u \in User, c \in Client :
    user[u].pc = "connecting" /\ user[u].client = c =>
      /\ state[c] \in {"connecting", "closing", "closed"}
      /\ \A v \in User \ {u} : user[v].pc = "connecting" => user[v].client # c

DrainOff == Open => drain.pc = "off"

IInv == TypeInv /\ LeasesHeld /\ EvictionsWait /\ StartsAlone /\ DrainOff

(* The stage of a request after it joined or received.                     *)
LEMMA Stages ==
  ASSUME TypeInv, NEW u \in User
  PROVE  /\ \A pc : /\ Move(u, pc)[u].pc = pc
                    /\ Move(u, pc)[u].client = user[u].client
                    /\ \A v \in User \ {u} : Move(u, pc)[v] = user[v]
         /\ \A c : /\ u \in Call => Receive(u, c).pc \in {"getting", "preflight"}
                   /\ Receive(u, c).pc \in {"idle", "getting", "preflight"}
         /\ Join(u) => /\ user'[u].pc \in {"waiting", "spawning"}
                       /\ \A v \in User \ {u} : user'[v] = user[v]
<1>1. user \in [User -> Request] /\ user[u] \in UserRecord
  BY DEF TypeInv, Request
<1>2. \A pc : /\ Move(u, pc)[u].pc = pc
              /\ Move(u, pc)[u].client = user[u].client
              /\ \A v \in User \ {u} : Move(u, pc)[v] = user[v]
  BY <1>1 DEF Move, UserRecord
<1>3. ASSUME NEW c
      PROVE  /\ u \in Call => Receive(u, c).pc \in {"getting", "preflight"}
             /\ Receive(u, c).pc \in {"idle", "getting", "preflight"}
  BY <1>1, RegistryAssumption DEF Receive, UserRecord, IdleUser
<1>4. Join(u) => /\ user'[u].pc \in {"waiting", "spawning"}
                 /\ \A v \in User \ {u} : user'[v] = user[v]
  BY JoinType, UserUpdate
<1> QED
  BY <1>2, <1>3, <1>4

(* A step after which no request starts a client that did not before, and  *)
(* in which leases are only added, and only when no eviction is queued.    *)
LEMMA RequestsKeep ==
  ASSUME IInv, TypeInv', UNCHANGED <<evictor, evictionPromises, terminal, drain>>,
         \A v \in User : user'[v].pc = "connecting" => user'[v] = user[v],
         \A v \in Call :
           user'[v].pc \in Leased => user[v].pc \in Leased \/ v \in activeLeases',
         activeLeases \subseteq activeLeases',
         activeLeases' # activeLeases => evictionPromises = <<>>,
         \A c \in Client, v \in User :
           /\ state[c] \in {"connecting", "closing", "closed"}
           /\ user'[v].pc = "connecting" /\ user'[v].client = c
           => state'[c] \in {"connecting", "closing", "closed"}
  PROVE  IInv'
<1>1. LeasesHeld'
  BY DEF IInv, LeasesHeld, Open
<1>2. EvictionsWait'
  BY DEF IInv, TypeInv, EvictionsWait, EvictionsInTurn, First, Open
<1>3. StartsAlone'
  BY DEF IInv, StartsAlone
<1>4. DrainOff'
  BY DEF IInv, DrainOff, Open
<1> QED
  BY <1>1, <1>2, <1>3, <1>4 DEF IInv

(* A closed client is not unclosed, and a closing one is closed.           *)
LEMMA ClosingKeeps ==
  ASSUME TypeInv, NEW C, Close(C), NEW c \in Client,
         state[c] \in {"connecting", "closing", "closed"}
  PROVE  state'[c] \in {"connecting", "closing", "closed"}
BY ClosingType DEF Gone

(* A step of one request that keeps the lease it needs.                    *)
LEMMA RequestKeeps ==
  ASSUME IInv, TypeInv', NEW u \in User,
         \A v \in User \ {u} : user'[v] = user[v],
         user'[u].pc # "connecting",
         u \in Call /\ user'[u].pc \in Leased => user[u].pc \in Leased,
         \A c \in Client : state[c] \in {"connecting", "closing", "closed"} =>
                           state'[c] \in {"connecting", "closing", "closed"},
         UNCHANGED <<activeLeases, evictor, evictionPromises, terminal, drain>>
  PROVE  IInv'
BY RequestsKeep DEF User

LEMMA AskKeeps ==
  ASSUME IInv, NEW u \in User, Ask(u)
  PROVE  IInv'
<1>1. TypeInv'
  BY AskType DEF IInv
<1>2. /\ \A v \in User \ {u} : user'[v] = user[v]
      /\ user'[u].pc = IF u \in Call THEN "asking" ELSE "getting"
  BY DEF Ask, IInv, TypeInv, IdleUser
<1> QED
  BY <1>1, <1>2, RequestsKeep, RegistryAssumption DEF Ask, others, Leased, Connecting, User

LEMMA GettingKeeps ==
  ASSUME IInv, NEW u \in User, Getting(u)
  PROVE  IInv'
<1> USE DEF others
<1>0. TypeInv /\ TypeInv' /\ user \in [User -> Request]
  BY GettingType DEF IInv, TypeInv
<1>1. CASE AcquireLease(u)
  <2>1. /\ \A v \in User \ {u} : user'[v] = user[v]
        /\ user'[u].pc \in {"idle", "getting"}
        /\ user'[u].pc = "getting" => u \in activeLeases'
    <3>1. CASE Open
      <4> DEFINE r == [user[u] EXCEPT !.pc = "getting", !.bound = clients]
      <4>1. r.pc = "getting"
        BY <1>0 DEF Request, UserRecord
      <4>2. user' = [user EXCEPT ![u] = r] /\ activeLeases' = activeLeases \cup {u}
        BY <1>1, <3>1 DEF AcquireLease
      <4> HIDE DEF r
      <4> QED
        BY <1>0, <4>1, <4>2
    <3>2. CASE ~Open
      BY <1>0, <1>1, <3>2 DEF AcquireLease, IdleUser
    <3> QED
      BY <3>1, <3>2
  <2>2. activeLeases \subseteq activeLeases'
        /\ (activeLeases' # activeLeases => evictionPromises = <<>>)
    BY <1>1 DEF AcquireLease, MayLease
  <2>3. "idle" \notin Leased
    BY DEF Leased, Connecting
  <2> QED
    BY <1>0, <1>1, <2>1, <2>2, <2>3, RequestsKeep DEF AcquireLease, User
<1>3. CASE GetClient(u)
  <2>1. \A v \in User \ {u} : user'[v] = user[v]
    BY <1>0, <1>3, Stages DEF GetClient
  <2>2. user'[u].pc \in {"leaving", "probing", "waiting", "spawning"}
    <3>1. CASE Open /\ clients # NoClient
      <4> DEFINE r == [user[u] EXCEPT !.pc = "probing", !.client = clients]
      <4>1. r.pc = "probing"
        BY <1>0 DEF Request, UserRecord
      <4>2. user' = [user EXCEPT ![u] = r]
        BY <1>3, <3>1 DEF GetClient
      <4> HIDE DEF r
      <4> QED
        BY <1>0, <4>1, <4>2
    <3>2. CASE ~(Open /\ clients # NoClient)
      BY <1>0, <1>3, <3>2, Stages DEF GetClient
    <3> QED
      BY <3>1, <3>2
  <2> QED
    BY <1>0, RequestKeeps, <1>3, <2>1, <2>2 DEF GetClient, At, Leased
<1>4. CASE HealthOk(u)
  <2>1. \A v \in User \ {u} : user'[v] = user[v]
    BY <1>0, <1>4, Stages DEF HealthOk
  <2>2. user'[u].pc \in {"leaving", "idle", "getting", "preflight"}
    BY <1>0, <1>4, Stages DEF HealthOk
  <2> QED
    BY <1>0, RequestKeeps, <1>4, <2>1, <2>2 DEF HealthOk, At, Leased
<1>5. CASE HealthBad(u)
  <2>1. \A v \in User \ {u} : user'[v] = user[v]
    BY <1>0, <1>5, Stages DEF HealthBad
  <2>2. user'[u].pc \in {"leaving", "discarding", "waiting", "spawning"}
    BY <1>0, <1>5, Stages DEF HealthBad
  <2>3. \A c \in Client : state[c] \in {"connecting", "closing", "closed"} =>
                          state'[c] \in {"connecting", "closing", "closed"}
    BY <1>0, <1>5, ClosingKeeps DEF HealthBad
  <2> QED
    BY <1>0, RequestKeeps, <1>5, <2>1, <2>2, <2>3 DEF HealthBad, At, Leased
<1>6. CASE Discarded(u)
  <2>1. \A v \in User \ {u} : user'[v] = user[v]
    BY <1>0, <1>6, Stages DEF Discarded
  <2>2. user'[u].pc \in {"leaving", "waiting", "spawning"}
    BY <1>0, <1>6, Stages DEF Discarded
  <2> QED
    BY <1>0, RequestKeeps, <1>6, <2>1, <2>2 DEF Discarded, At, Leased
<1>7. CASE Handed(u)
  <2>1. \A v \in User \ {u} : user'[v] = user[v]
    BY <1>0, <1>7, Stages DEF Handed
  <2>2. user'[u].pc \in {"leaving", "idle", "getting", "preflight"}
    BY <1>0, <1>7, Stages DEF Handed
  <2> QED
    BY <1>0, RequestKeeps, <1>7, <2>1, <2>2 DEF Handed, At, Leased
<1> QED
  BY <1>1, <1>3, <1>4, <1>5, <1>6, <1>7 DEF Getting

LEMMA AttemptKeeps ==
  ASSUME IInv, NEW u \in User, Attempt(u)
  PROVE  IInv'
<1> USE DEF others
<1>0. TypeInv /\ TypeInv' /\ user \in [User -> Request] /\ user[u] \in UserRecord
      /\ user[u].client \in SomeClient
      /\ [user[u] EXCEPT !.pc = "leaving"] \in Request
  BY AttemptType, RequestTypes DEF IInv, TypeInv, Request, Leased
<1>1. CASE Spawn(u)
  <2>1. PICK d \in Client :
          /\ state[d] = "unused"
          /\ state' = [state EXCEPT ![d] = "connecting"]
          /\ user' = [user EXCEPT ![u] = [@ EXCEPT !.pc = "connecting", !.client = d]]
    BY <1>1 DEF Spawn
  <2>2. /\ user'[u].pc = "connecting" /\ user'[u].client = d
        /\ \A v \in User \ {u} : user'[v] = user[v]
    BY <1>0, <2>1 DEF UserRecord
  <2>3. state'[d] = "connecting" /\ \A c \in Client \ {d} : state'[c] = state[c]
    BY <1>0, <2>1 DEF TypeInv, TypeOK
  <2>4. \A v \in User : user[v].pc = "connecting" => user[v].client # d
    BY <2>1 DEF IInv, StartsAlone
  <2>5. StartsAlone'
    BY <2>2, <2>3, <2>4 DEF IInv, StartsAlone
  <2>6. LeasesHeld'
    BY <1>1, <2>2 DEF IInv, LeasesHeld, Spawn, At, Open, Leased, Connecting
  <2>7. EvictionsWait' /\ DrainOff'
    BY <1>1 DEF IInv, EvictionsWait, DrainOff, Spawn, Open
  <2> QED
    BY <1>0, <2>5, <2>6, <2>7 DEF IInv
<1>2. CASE Connected(u)
  <2>1. user' = Move(u, "publishing") \/ user' = Move(u, "retrying")
    BY <1>2 DEF Connected
  <2>2. /\ \A v \in User \ {u} : user'[v] = user[v]
        /\ user'[u].pc \in {"publishing", "retrying"}
    BY <1>0, <2>1, Stages
  <2>3. ASSUME NEW c \in Client, NEW v \in User,
               state[c] \in {"connecting", "closing", "closed"},
               user'[v].pc = "connecting", user'[v].client = c
        PROVE  state'[c] \in {"connecting", "closing", "closed"}
    <3>1. v # u /\ user[v].pc = "connecting" /\ user[v].client = c
      BY <2>2, <2>3
    <3>2. user[u].client # c
      BY <1>2, <3>1 DEF IInv, StartsAlone, Connected, At
    <3>3. CASE Open
      BY <1>0, <1>2, <2>3, <3>2, <3>3 DEF Connected, TypeInv, TypeOK
    <3>4. CASE ~Open
      BY <1>0, <1>2, <2>3, <3>4, ClosingKeeps DEF Connected
    <3> QED
      BY <3>3, <3>4
  <2>4. user[u].pc \in Leased
    BY <1>2 DEF Connected, At, Leased, Connecting
  <2> QED
    BY <1>0, <1>2, <2>2, <2>3, <2>4, RequestsKeep DEF Connected, User
<1>3. CASE ConnectFails(u)
  <2>1. /\ \A v \in User \ {u} : user'[v] = user[v]
        /\ user'[u].pc = "retrying"
    BY <1>0, <1>3, Stages DEF ConnectFails
  <2>2. \A c \in Client : state[c] \in {"connecting", "closing", "closed"} =>
                          state'[c] \in {"connecting", "closing", "closed"}
    BY <1>0, <1>3, ClosingKeeps DEF ConnectFails
  <2> QED
    BY <1>0, <1>3, <2>1, <2>2, RequestKeeps DEF ConnectFails, At, Leased, Connecting
<1>4. CASE Retry(u)
  <2>1. /\ \A v \in User \ {u} : user'[v] = user[v]
        /\ user'[u].pc = "spawning"
    BY <1>0, <1>4 DEF Retry, UserRecord
  <2> QED
    BY <1>0, <1>4, <2>1, RequestKeeps DEF Retry, At, Leased, Connecting
<1>5. ASSUME NEW c \in SomeClient, NEW r \in Request, Settle(u, c, r),
             r.pc # "connecting",
             u \in Call /\ r.pc \in Leased => user[u].pc \in Leased,
             UNCHANGED <<state, activeLeases, evictionPromises, evictor, terminal, drain>>
      PROVE  IInv'
  <2>1. /\ user'[u] = r
        /\ \A v \in User \ {u} :
             \/ user'[v] = user[v]
             \/ user[v].pc = "waiting" /\ user'[v].pc \in {"leaving", "handed"}
    BY <1>0, <1>5, SettleType
  <2>2. "waiting" \in Leased
    BY DEF Leased
  <2> QED
    BY <1>0, <1>5, <2>1, <2>2, RequestsKeep DEF User
<1>6. CASE AttemptFails(u)
  <2>1. [user[u] EXCEPT !.pc = "leaving"].pc = "leaving"
    BY <1>0 DEF UserRecord
  <2> QED
    BY <1>0, <1>5, <1>6, <2>1 DEF AttemptFails, SomeClient, At, Leased, Connecting
<1>7. CASE Publish(u)
  <2>1. user[u].pc \in Leased
    BY <1>7 DEF Publish, At, Leased, Connecting
  <2>2. CASE Open
    <3>1. Receive(u, user[u].client) \in Request
          /\ Receive(u, user[u].client).pc # "connecting"
      BY <1>0, ReceiveType, Stages
    <3> QED
      BY <1>0, <1>5, <1>7, <2>1, <2>2, <3>1 DEF Publish
  <2>3. CASE ~Open
    <3>1. [user[u] EXCEPT !.pc = "leaving"].pc = "leaving"
      BY <1>0 DEF UserRecord
    <3> QED
      BY <1>0, <1>5, <1>7, <2>1, <2>3, <3>1 DEF Publish, SomeClient
  <2> QED
    BY <2>2, <2>3
<1> QED
  BY <1>1, <1>2, <1>3, <1>4, <1>6, <1>7 DEF Attempt

LEMMA EndingKeeps ==
  ASSUME IInv, NEW u \in User, Ending(u)
  PROVE  IInv'
<1> USE DEF others
<1>0. TypeInv /\ TypeInv' /\ user \in [User -> Request]
  BY EndingType DEF IInv, TypeInv
<1>1. CASE Dispatch(u)
  <2>1. /\ \A v \in User \ {u} : user'[v] = user[v]
        /\ user'[u].pc \in {"dispatched", "leaving"}
    BY <1>0, <1>1, Stages DEF Dispatch
  <2> QED
    BY <1>0, <1>1, <2>1, RequestKeeps DEF Dispatch, At, Leased
<1>2. CASE Answer(u)
  <2>1. /\ \A v \in User \ {u} : user'[v] = user[v]
        /\ user'[u].pc = "leaving"
    BY <1>0, <1>2, Stages DEF Answer
  <2> QED
    BY <1>0, <1>2, <2>1, RequestKeeps DEF Answer, At, Leased
<1>3. CASE ReleaseLease(u)
  <2>1. /\ \A v \in User \ {u} : user'[v] = user[v]
        /\ user'[u].pc = "idle"
    BY <1>0, <1>3 DEF ReleaseLease, IdleUser
  <2>2. activeLeases' = activeLeases \ {u} /\ "idle" \notin Leased
    BY <1>3 DEF ReleaseLease, Leased, Connecting
  <2>3. LeasesHeld'
    BY <1>3, <2>1, <2>2 DEF IInv, LeasesHeld, ReleaseLease, Open, User
  <2>4. EvictionsWait' /\ DrainOff'
    BY <1>3, <2>2 DEF IInv, EvictionsWait, DrainOff, ReleaseLease, Open
  <2>5. StartsAlone'
    BY <1>3, <2>1 DEF IInv, StartsAlone, ReleaseLease
  <2> QED
    BY <1>0, <2>3, <2>4, <2>5 DEF IInv
<1> QED
  BY <1>1, <1>2, <1>3 DEF Ending

LEMMA ClientKeeps ==
  ASSUME IInv, NEW c \in Client, ClientExits(c) \/ Closed(c)
  PROVE  IInv'
<1> USE DEF others
<1>0. TypeInv /\ TypeInv' /\ user \in [User -> Request]
      /\ state \in [Client -> {"unused", "exited"} \cup Live \cup Gone]
  BY ClientType DEF IInv, TypeInv, TypeOK
<1>1. CASE ClientExits(c)
  <2>1. \A d \in Client : state[d] \in {"connecting", "closing", "closed"} =>
                          state'[d] \in {"connecting", "closing", "closed"}
    BY <1>0, <1>1 DEF ClientExits
  <2> QED
    BY <1>0, <1>1, <2>1, RequestsKeep DEF ClientExits, User
<1>2. CASE Closed(c)
  <2>1. \A d \in Client : state[d] \in {"connecting", "closing", "closed"} =>
                          state'[d] \in {"connecting", "closing", "closed"}
    BY <1>0, <1>2 DEF Closed
  <2>2. ASSUME NEW v \in User
        PROVE  \/ user'[v] = user[v]
               \/ user'[v].pc = "dropped" /\ user[v].pc \in {"probing", "dispatched"}
    <3>1. user[v] \in UserRecord
      BY <1>0 DEF Request
    <3>2. [user[v] EXCEPT !.pc = "dropped"].pc = "dropped"
      BY <3>1 DEF UserRecord
    <3> QED
      BY <1>2, <3>2 DEF Closed, Pending
  <2>3. {"probing", "dispatched"} \subseteq Leased
    BY DEF Leased
  <2> QED
    BY <1>0, <1>2, <2>1, <2>2, <2>3, RequestsKeep DEF Closed, User
<1> QED
  BY <1>1, <1>2

(* Steps that move no request and no lease.                                *)
LEMMA OthersKeep ==
  ASSUME IInv, TypeInv', UNCHANGED <<user, activeLeases>>,
         Open' => Open /\ drain' = drain,
         \A e \in Evictor :
           evictor'[e].pc = "taking" => evictor[e].pc = "taking" \/ activeLeases = {},
         \A c \in Client : state[c] \in {"connecting", "closing", "closed"} =>
                           state'[c] \in {"connecting", "closing", "closed"}
  PROVE  IInv'
<1>1. LeasesHeld' /\ DrainOff'
  BY DEF IInv, LeasesHeld, DrainOff
<1>2. EvictionsWait'
  BY DEF IInv, EvictionsWait
<1>3. StartsAlone'
  BY DEF IInv, StartsAlone
<1> QED
  BY <1>1, <1>2, <1>3 DEF IInv

LEMMA EvictorKeeps ==
  ASSUME IInv, NEW e \in Evictor, Evict(e) \/ Evicting(e)
  PROVE  IInv'
<1>0. TypeInv /\ TypeInv'
      /\ evictor \in [Evictor -> [pc : {"idle", "queued", "draining", "taking", "closing"},
                                  client : SomeClient]]
  BY EvictType, EvictingType DEF IInv, TypeInv, TypeOK
<1>1. UNCHANGED <<user, activeLeases, terminal, drain>>
  BY DEF Evict, Evicting, EvictionTurn, WaitForActiveLeases, EvictionTakes, Evicted
<1>2. \A c \in Client : state[c] \in {"connecting", "closing", "closed"} =>
                        state'[c] \in {"connecting", "closing", "closed"}
  BY <1>0, ClosingKeeps
     DEF Evict, Evicting, EvictionTurn, WaitForActiveLeases, EvictionTakes, Evicted
<1>3. ASSUME NEW f \in Evictor, evictor'[f].pc = "taking"
      PROVE  evictor[f].pc = "taking" \/ activeLeases = {}
  <2>1. CASE f # e
    BY <1>0, <2>1, <1>3
       DEF Evict, Evicting, EvictionTurn, WaitForActiveLeases, EvictionTakes, Evicted,
           EvictionEnds
  <2>2. CASE f = e
    <3>1. CASE WaitForActiveLeases(e)
      BY <1>0, <1>3, <2>2, <3>1 DEF WaitForActiveLeases
    <3>2. CASE ~WaitForActiveLeases(e)
      BY <1>0, <1>3, <2>2, <3>2
         DEF Evict, Evicting, EvictionTurn, EvictionTakes, Evicted, EvictionEnds, IdleEvictor
    <3> QED
      BY <3>1, <3>2
  <2> QED
    BY <2>1, <2>2
<1> QED
  BY <1>0, <1>1, <1>2, <1>3, OthersKeep DEF Open

LEMMA SweepKeeps ==
  ASSUME IInv, Sweep
  PROVE  IInv'
<1>0. TypeInv /\ TypeInv'
  BY SweepType DEF IInv
<1>1. \A c \in Client : state[c] \in {"connecting", "closing", "closed"} =>
                        state'[c] \in {"connecting", "closing", "closed"}
  BY <1>0, ClosingKeeps DEF Sweep
<1> QED
  BY <1>0, <1>1, OthersKeep DEF Sweep, others, Open

LEMMA RestartKeeps ==
  ASSUME IInv, NEW r \in Restarter, Restart(r) \/ Restarting(r)
  PROVE  IInv'
<1>0. TypeInv /\ TypeInv'
  BY RestartType DEF IInv
<1>1. \A c \in Client : state[c] \in {"connecting", "closing", "closed"} =>
                        state'[c] \in {"connecting", "closing", "closed"}
  BY <1>0, ClosingKeeps
     DEF Restart, Restarting, RestartTakes, RestartPending, RestartGoesOn, Restarted
<1>2. UNCHANGED <<user, activeLeases, evictor, terminal, drain>>
  BY DEF Restart, Restarting, RestartPending, RestartGoesOn, Restarted
<1> QED
  BY <1>0, <1>1, <1>2, OthersKeep DEF Open

LEMMA ShutdownKeeps ==
  ASSUME IInv, CloseAll \/ Draining
  PROVE  IInv'
<1>0. TypeInv /\ TypeInv'
  BY ShutdownType DEF IInv
<1>1. ~Open' /\ user' = user
  BY DEF CloseAll, Draining, DrainLoop, DrainGoesOn, Open, IInv, DrainOff
<1>2. \A c \in Client : state[c] \in {"connecting", "closing", "closed"} =>
                        state'[c] \in {"connecting", "closing", "closed"}
  BY <1>0, ClosingKeeps DEF CloseAll, Draining, DrainLoop, DrainGoesOn
<1>3. StartsAlone'
  BY <1>1, <1>2 DEF IInv, StartsAlone
<1> QED
  BY <1>0, <1>1, <1>3 DEF IInv, LeasesHeld, EvictionsWait, DrainOff

LEMMA Inductive ==
  ASSUME IInv, [Next]_vars
  PROVE  IInv'
<1>1. CASE UNCHANGED vars
  BY <1>1, TypeStep, OthersKeep DEF vars, others, IInv, Open
<1>2. CASE Next
  BY <1>2, AskKeeps, GettingKeeps, AttemptKeeps, EndingKeeps, ClientKeeps,
     EvictorKeeps, SweepKeeps, RestartKeeps, ShutdownKeeps DEF Next
<1> QED
  BY <1>1, <1>2

LEMMA InductiveInit ==
  ASSUME Init
  PROVE  IInv
<1>1. \A u \in User : user[u].pc = "idle"
  BY DEF Init, IdleUser
<1>2. "idle" \notin Leased /\ "idle" # "connecting"
  BY DEF Leased, Connecting
<1>3. LeasesHeld /\ StartsAlone
  BY <1>1, <1>2 DEF LeasesHeld, StartsAlone, User
<1>4. EvictionsWait /\ DrainOff
  BY DEF Init, EvictionsWait, DrainOff
<1> QED
  BY <1>3, <1>4, TypeInit DEF IInv

(* What may close the client of a call under way.                          *)
LEMMA NoInterruption ==
  ASSUME IInv, [Next]_vars, Restarter = {}, "unhealthy" \notin Events,
         NEW u \in Call, NEW c \in Client,
         user[u].pc \in {"preflight", "dispatched"}, user[u].client = c,
         state[c] = "connected", Open
  PROVE  state'[c] # "closing"
<1>0. /\ TypeInv
      /\ state \in [Client -> {"unused", "exited"} \cup Live \cup Gone]
      /\ u \in activeLeases
  BY DEF IInv, TypeInv, TypeOK, LeasesHeld, Leased
<1>c. ASSUME NEW C, Close(C), c \notin C
      PROVE  state'[c] # "closing"
  BY <1>0, <1>c, ClosingType
<1>1. CASE UNCHANGED state
  BY <1>1
<1>2. ASSUME NEW v \in User, HealthBad(v)
      PROVE  state'[c] # "closing"
  <2>1. user[v].client # c
    BY <1>2 DEF HealthBad
  <2> QED
    BY <1>2, <1>c, <2>1 DEF HealthBad
<1>3. ASSUME NEW v \in User, ConnectFails(v)
      PROVE  state'[c] # "closing"
  <2>1. user[v].client # c
    BY <1>3 DEF ConnectFails, At, IInv, StartsAlone
  <2> QED
    BY <1>3, <1>c, <2>1 DEF ConnectFails
<1>4. ASSUME NEW v \in User, Spawn(v) \/ Connected(v)
      PROVE  state'[c] # "closing"
  <2>1. CASE Spawn(v)
    BY <1>0, <2>1 DEF Spawn
  <2>2. CASE Connected(v)
    BY <1>0, <2>2 DEF Connected
  <2> QED
    BY <1>4, <2>1, <2>2
<1>5. ASSUME NEW d \in Client, ClientExits(d) \/ Closed(d)
      PROVE  state'[c] # "closing"
  BY <1>0, <1>5 DEF ClientExits, Closed
<1>6. ASSUME NEW e \in Evictor, EvictionTakes(e)
      PROVE  state'[c] # "closing"
  BY <1>0, <1>6 DEF EvictionTakes, IInv, EvictionsWait
<1>7. CASE Sweep
  BY <1>0, <1>7 DEF Sweep, Reapable
<1>8. CASE Draining
  BY <1>8 DEF Draining, DrainLoop, DrainGoesOn, IInv, DrainOff
<1>9. QED
  BY <1>1, <1>2, <1>3, <1>4, <1>5, <1>6, <1>7, <1>8
     DEF vars, Next, Ask, Getting, AcquireLease, GetClient, HealthOk, Discarded, Handed,
         Attempt, Retry, AttemptFails, Publish, Ending, Dispatch, Answer, ReleaseLease,
         Evict, Evicting, EvictionTurn, WaitForActiveLeases, Evicted, CloseAll

(* While no restart is under way and health checks of live clients do not  *)
(* fail, no reaper, eviction or other request closes the client of a call  *)
(* between the moment the call has it and its answer.                      *)
THEOREM CallsUninterrupted ==
  ASSUME Restarter = {}, "unhealthy" \notin Events
  PROVE  Spec => CallsAreNotInterrupted
<1>1. Spec => []IInv
  BY InductiveInit, Inductive, PTL DEF Spec
<1>2. IInv /\ [Next]_vars =>
        [\A u \in Call, c \in Client :
           /\ user[u].pc \in {"preflight", "dispatched"} /\ user[u].client = c
           /\ state[c] = "connected" /\ Open
           => state'[c] # "closing"]_vars
  BY NoInterruption
<1> QED
  BY <1>1, <1>2, PTL DEF Spec, CallsAreNotInterrupted
-----------------------------------------------------------------------------
(* Why no client is lost.  Requests without a lease, restarts and health   *)
(* checks that fail on a live client may each lose one: the results below  *)
(* are about calls, evictions, the reaper and shutdown.                    *)
CallsOnly == Getter = {} /\ Restarter = {} /\ "unhealthy" \notin Events

(* One request at a time connects, and only while nothing is published.    *)
OneAttempt ==
  /\ \A u \in User : user[u].pc \in Connecting <=> clientPromises = u
  /\ clientPromises # Nobody => clients = NoClient

PublishedAlive ==
  Open /\ clients # NoClient => state[clients] \in {"connected", "exited"}

(* The client a request has in hand is the one published, unless that is   *)
(* gone: so that the request unpublishes no other.                         *)
InHand ==
  Open => \A u \in User :
    user[u].pc \in {"probing", "handed"} =>
      /\ user[u].client \in Client
      /\ state[user[u].client] \in {"connected", "exited", "closed"}
      /\ clients \in {user[u].client, NoClient}
      /\ state[user[u].client] = "connected" => clients = user[u].client

Discards ==
  Open => \A u \in User :
    user[u].pc = "discarding" =>
      user[u].client \in Client /\ state[user[u].client] = "closed" /\ clients = NoClient

(* Whoever awaited the end of a client went on before the next one started.*)
Publishes ==
  Open => \A u \in User :
    user[u].pc = "publishing" =>
      /\ state[user[u].client] \in {"connected", "exited"}
      /\ \A v \in User : user[v].pc \notin {"probing", "handed", "discarding"}

OwnInv ==
  /\ IInv /\ OneAttempt /\ PublishedAlive /\ InHand /\ Discards /\ Publishes
  /\ NoOrphan /\ NothingSurvivesShutdown

LEMMA JoinMoves ==
  ASSUME TypeInv, NEW u \in User, Join(u)
  PROVE  /\ \A v \in User \ {u} : user'[v] = user[v]
         /\ \/ user'[u].pc = "waiting" /\ clientPromises' = clientPromises
            \/ user'[u].pc = "spawning" /\ clientPromises = Nobody /\ clientPromises' = u
<1>1. user \in [User -> UserRecord]
  BY DEF TypeInv, TypeOK
<1>2. CASE clientPromises # Nobody
  BY <1>1, <1>2 DEF Join, UserRecord
<1>3. CASE clientPromises = Nobody
  BY <1>1, <1>3 DEF Join, UserRecord
<1> QED
  BY <1>2, <1>3

LEMMA SettleMoves ==
  ASSUME TypeInv, NEW u \in User, NEW c \in SomeClient, NEW r, Settle(u, c, r)
  PROVE  /\ user'[u] = r /\ clientPromises' = Nobody
         /\ \A v \in User \ {u} :
              \/ user'[v] = user[v]
              \/ c = NoClient /\ user'[v].pc = "leaving"
              \/ c # NoClient /\ user'[v].pc = "handed" /\ user'[v].client = c
<1>1. user \in [User -> UserRecord]
  BY DEF TypeInv, TypeOK
<1>2. user' = [v \in User |->
       IF v = u THEN r
       ELSE IF At(v, "waiting") /\ user[v].awaits = u
         THEN [user[v] EXCEPT !.pc = IF c = NoClient THEN "leaving" ELSE "handed",
                              !.client = c, !.awaits = Nobody]
       ELSE user[v]]
      /\ clientPromises' = Nobody
  BY DEF Settle
<1>3. ASSUME NEW v \in User \ {u}, user'[v] # user[v]
      PROVE  /\ user'[v].pc = IF c = NoClient THEN "leaving" ELSE "handed"
             /\ user'[v].client = c
  <2>1. user'[v] = [user[v] EXCEPT !.pc = IF c = NoClient THEN "leaving" ELSE "handed",
                                   !.client = c, !.awaits = Nobody]
    BY <1>2, <1>3
  <2>2. user[v] \in UserRecord
    BY <1>1
  <2> QED
    BY <2>1, <2>2 DEF UserRecord
<1> QED
  BY <1>2, <1>3

(* A request that moves without touching a client.                         *)
LEMMA UserStep ==
  ASSUME OwnInv, IInv', NEW u \in User,
         \A v \in User \ {u} : user'[v] = user[v],
         UNCHANGED <<state, constructedClients, terminal, drain>>,
         user'[u].pc \notin {"probing", "handed", "discarding", "publishing"},
         \/ clients' = clients
         \/ clients' = NoClient /\ state[clients] \notin Live,
         \/ /\ clientPromises' = clientPromises
            /\ user'[u].pc \in Connecting <=> user[u].pc \in Connecting
         \/ /\ user[u].pc \notin Connecting /\ user'[u].pc = "spawning"
            /\ clientPromises = Nobody /\ clientPromises' = u /\ clients' = NoClient
  PROVE  OwnInv'
<1>1. OneAttempt'
  <2>1. OneAttempt /\ clients \in SomeClient
    BY DEF OwnInv, IInv, TypeInv, TypeOK
  <2>2. CASE clientPromises' = clientPromises
             /\ (user'[u].pc \in Connecting <=> user[u].pc \in Connecting)
    <3>1. \A v \in User : user'[v].pc \in Connecting <=> user[v].pc \in Connecting
      BY <2>2
    <3>2. clients = NoClient => clients' = NoClient
      OBVIOUS
    <3> QED
      BY <2>1, <2>2, <3>1, <3>2 DEF OneAttempt
  <2>3. CASE /\ user[u].pc \notin Connecting /\ user'[u].pc = "spawning"
             /\ clientPromises = Nobody /\ clientPromises' = u /\ clients' = NoClient
    <3>1. \A v \in User \ {u} : user'[v].pc \notin Connecting
      BY <2>1, <2>3, RegistryAssumption DEF OneAttempt, User
    <3>2. "spawning" \in Connecting
      BY DEF Connecting
    <3> QED
      BY <2>3, <3>1, <3>2 DEF OneAttempt
  <2> QED
    BY <2>2, <2>3
<1>2. PublishedAlive' /\ Discards' /\ Publishes' /\ NothingSurvivesShutdown'
  BY DEF OwnInv, PublishedAlive, Discards, Publishes, Open, NothingSurvivesShutdown
<1>3. InHand'
  BY DEF OwnInv, InHand, Open, Live
<1>4. NoOrphan'
  BY DEF OwnInv, NoOrphan
<1> QED
  BY <1>1, <1>2, <1>3, <1>4 DEF OwnInv

(* A request that gets a client, drops one or asks for a connection.       *)
LEMMA GettingOwns ==
  ASSUME OwnInv, CallsOnly, NEW u \in User, Getting(u)
  PROVE  OwnInv'
<1>0. /\ IInv /\ IInv' /\ TypeInv /\ user \in [User -> UserRecord]
      /\ OneAttempt /\ InHand /\ Discards /\ Publishes /\ PublishedAlive
      /\ clients \in SomeClient
  BY GettingKeeps DEF OwnInv, IInv, TypeInv, TypeOK
<1>1. /\ {"asking", "getting", "probing", "discarding", "handed"} \cap Connecting = {}
      /\ {"idle", "getting", "leaving", "waiting", "preflight"} \cap Connecting = {}
      /\ "spawning" \in Connecting
  BY DEF Connecting
<1>2. ASSUME Join(u), UNCHANGED <<clients, state, constructedClients, terminal, drain>>,
             clients = NoClient, user[u].pc \in {"getting", "probing", "discarding"}
      PROVE  OwnInv'
  BY <1>0, <1>1, <1>2, JoinMoves, UserStep
<1>3. ASSUME UNCHANGED <<state, constructedClients, terminal, drain, clientPromises>>,
             user[u].pc \in {"asking", "getting", "probing", "discarding", "handed"},
             user'[u].pc \in {"idle", "getting", "leaving", "preflight"},
             \A v \in User \ {u} : user'[v] = user[v],
             \/ clients' = clients
             \/ clients' = NoClient /\ state[clients] \notin Live
      PROVE  OwnInv'
  BY <1>0, <1>1, <1>3, UserStep
<1>4. CASE AcquireLease(u)
  <2>1. /\ \A v \in User \ {u} : user'[v] = user[v]
        /\ user'[u].pc \in {"idle", "getting"}
    <3>1. CASE Open
      <4> DEFINE r == [user[u] EXCEPT !.pc = "getting", !.bound = clients]
      <4>1. r.pc = "getting"
        BY <1>0 DEF UserRecord
      <4>2. user' = [user EXCEPT ![u] = r]
        BY <1>4, <3>1 DEF AcquireLease
      <4> HIDE DEF r
      <4> QED
        BY <1>0, <4>1, <4>2
    <3>2. CASE ~Open
      BY <1>0, <1>4, <3>2 DEF AcquireLease, IdleUser
    <3> QED
      BY <3>1, <3>2
  <2> QED
    BY <1>3, <1>4, <2>1 DEF AcquireLease, At, others
<1>5. CASE GetClient(u)
  <2>1. CASE ~Open
    BY <1>0, <1>3, <1>5, <2>1, Stages DEF GetClient, At, others
  <2>2. CASE Open /\ clients = NoClient
    BY <1>2, <1>5, <2>2 DEF GetClient, At, others
  <2>3. CASE Open /\ clients # NoClient
    <3>1. /\ UNCHANGED <<clients, state, constructedClients, terminal, drain, clientPromises>>
          /\ user' = [user EXCEPT ![u] = [@ EXCEPT !.pc = "probing", !.client = clients]]
          /\ user[u].pc = "getting"
      BY <1>5, <2>3 DEF GetClient, At, others
    <3>2. /\ user'[u].pc = "probing" /\ user'[u].client = clients
          /\ \A v \in User \ {u} : user'[v] = user[v]
      BY <1>0, <3>1 DEF UserRecord
    <3>3. clientPromises = Nobody
      BY <1>0, <2>3 DEF OneAttempt
    <3>4. OneAttempt'
      BY <1>0, <1>1, <3>1, <3>2, <3>3, RegistryAssumption DEF OneAttempt, User
    <3>5. \A v \in User : user'[v].pc # "publishing"
      BY <3>1, <3>3, <3>4, RegistryAssumption DEF OneAttempt, User, Connecting
    <3>6. InHand' /\ Discards' /\ Publishes' /\ PublishedAlive'
      BY <1>0, <2>3, <3>1, <3>2, <3>5
         DEF InHand, Discards, Publishes, PublishedAlive, Open, SomeClient
    <3>7. NoOrphan' /\ NothingSurvivesShutdown'
      BY <3>1 DEF OwnInv, NoOrphan, NothingSurvivesShutdown
    <3> QED
      BY <1>0, <3>4, <3>6, <3>7 DEF OwnInv
  <2> QED
    BY <2>1, <2>2, <2>3
<1>6. CASE HealthOk(u) \/ Handed(u)
  <2> DEFINE c == user[u].client
  <2>1. /\ user[u].pc \in {"probing", "handed"}
        /\ user' = IF Open THEN [user EXCEPT ![u] = Receive(u, c)] ELSE Move(u, "leaving")
        /\ clients' = IF Open /\ Reestablishes(u, c) THEN NoClient ELSE clients
        /\ UNCHANGED <<state, constructedClients, terminal, drain, clientPromises>>
    BY <1>6 DEF HealthOk, Handed, At, others
  <2> HIDE DEF c
  <2>2. /\ user'[u].pc \in {"idle", "getting", "leaving", "preflight"}
        /\ \A v \in User \ {u} : user'[v] = user[v]
    BY <1>0, <2>1, Stages
  <2>3. clients' = clients \/ (clients' = NoClient /\ state[clients] \notin Live)
    BY <1>0, <2>1 DEF Reestablishes, InHand, c, Live
  <2> QED
    BY <1>3, <2>1, <2>2, <2>3
<1>7. CASE HealthBad(u)
  <2>1. CASE ~Open
    BY <1>0, <1>3, <1>7, <2>1, Stages DEF HealthBad, At, others
  <2>2. CASE Open /\ clients = NoClient
    BY <1>2, <1>7, <2>2 DEF HealthBad, At, others
  <2>3. CASE Open /\ clients # NoClient
    <3> DEFINE c == user[u].client
    <3>1. /\ user[u].pc = "probing" /\ state[c] # "connected"
          /\ clients' = NoClient /\ Close({c}) /\ user' = Move(u, "discarding")
          /\ UNCHANGED <<constructedClients, terminal, drain, clientPromises>>
      BY <1>7, <2>3 DEF HealthBad, At, others, CallsOnly, WithoutUnhealthy
    <3>2. c = clients /\ state[c] = "exited" /\ c \in Client
      BY <1>0, <2>3, <3>1 DEF InHand, PublishedAlive
    <3> HIDE DEF c
    <3>3. state'[c] = "closed" /\ \A d \in Client \ {c} : state'[d] = state[d]
      BY <3>1, <3>2 DEF Close, Closing, Gone
    <3>4. /\ \A v \in User \ {u} : user'[v] = user[v]
          /\ user'[u].pc = "discarding" /\ user'[u].client = c
      BY <1>0, <3>1, Stages DEF c
    <3>5. clientPromises = Nobody
      BY <1>0, <2>3 DEF OneAttempt
    <3>6. OneAttempt'
      BY <1>0, <1>1, <3>1, <3>4, <3>5, RegistryAssumption DEF OneAttempt, User
    <3>7. \A v \in User : user'[v].pc # "publishing"
      BY <3>1, <3>5, <3>6, RegistryAssumption DEF OneAttempt, User, Connecting
    <3>8. InHand'
      BY <1>0, <2>3, <3>1, <3>2, <3>3, <3>4 DEF InHand, Open
    <3>9. Discards' /\ Publishes' /\ PublishedAlive'
      BY <1>0, <2>3, <3>1, <3>2, <3>3, <3>4, <3>7 DEF Discards, Publishes, PublishedAlive, Open
    <3>10. NoOrphan' /\ NothingSurvivesShutdown'
      BY <2>3, <3>1, <3>2, <3>3
         DEF OwnInv, IInv, DrainOff, NoOrphan, NothingSurvivesShutdown, Live
    <3> QED
      BY <1>0, <3>6, <3>8, <3>9, <3>10 DEF OwnInv
  <2> QED
    BY <2>1, <2>2, <2>3
<1>8. CASE Discarded(u)
  <2>1. CASE ~Open
    BY <1>0, <1>3, <1>8, <2>1, Stages DEF Discarded, At, others
  <2>2. CASE Open
    <3>1. clients = NoClient
      BY <1>0, <1>8, <2>2 DEF Discarded, At, Discards
    <3> QED
      BY <1>2, <1>8, <2>2, <3>1 DEF Discarded, At, others
  <2> QED
    BY <2>1, <2>2
<1> QED
  BY <1>4, <1>5, <1>6, <1>7, <1>8 DEF Getting

(* An attempt: it starts one client at a time, which it hands over as it   *)
(* publishes it.                                                           *)
LEMMA AttemptOwns ==
  ASSUME OwnInv, CallsOnly, NEW u \in User, Attempt(u)
  PROVE  OwnInv'
<1>0. /\ IInv /\ IInv' /\ TypeInv /\ user \in [User -> UserRecord] /\ user \in [User -> Request]
      /\ state \in [Client -> {"unused", "exited"} \cup Live \cup Gone]
      /\ OneAttempt /\ InHand /\ Discards /\ Publishes /\ PublishedAlive
      /\ NoOrphan /\ NothingSurvivesShutdown
  BY AttemptKeeps DEF OwnInv, IInv, TypeInv, TypeOK
<1>1. /\ user[u].pc \in Connecting /\ clientPromises = u /\ clients = NoClient
      /\ u # Nobody
      /\ \A v \in User \ {u} : user[v].pc \notin Connecting
  <2>1. user[u].pc \in Connecting
    BY DEF Attempt, Spawn, Connected, ConnectFails, Retry, AttemptFails, Publish, At, Connecting
  <2> QED
    BY <1>0, <2>1, RegistryAssumption DEF OneAttempt, User
<1>2. drain.pc = "done" => \A c \in Client : state[c] \notin Live \cup {"closing"}
  BY <1>0 DEF NothingSurvivesShutdown
<1>3. CASE Spawn(u)
  <2>1. PICK d \in Client :
          /\ state[d] = "unused"
          /\ state' = [state EXCEPT ![d] = "connecting"]
          /\ constructedClients' = Own(d)
          /\ user' = [user EXCEPT ![u] = [@ EXCEPT !.pc = "connecting", !.client = d]]
    BY <1>3 DEF Spawn
  <2>2. /\ user'[u].pc = "connecting" /\ user'[u].client = d
        /\ \A v \in User \ {u} : user'[v] = user[v]
    BY <1>0, <2>1 DEF UserRecord
  <2>3. state'[d] = "connecting" /\ \A c \in Client \ {d} : state'[c] = state[c]
    BY <1>0, <2>1
  <2>4. constructedClients' = constructedClients \cup {d}
    BY <1>1, <2>1 DEF Own, Gone
  <2>5. UNCHANGED <<clients, clientPromises, terminal, drain>> /\ Open
    BY <1>3 DEF Spawn, others
  <2>6. OneAttempt'
    BY <1>0, <1>1, <2>2, <2>5 DEF OneAttempt, Connecting
  <2>7. PublishedAlive' /\ InHand' /\ Discards' /\ Publishes'
    BY <1>0, <1>1, <2>1, <2>2, <2>3, <2>5
       DEF PublishedAlive, InHand, Discards, Publishes, Open, Connecting
  <2>8. NoOrphan' /\ NothingSurvivesShutdown'
    BY <1>0, <2>3, <2>4, <2>5
       DEF NoOrphan, NothingSurvivesShutdown, IInv, DrainOff
  <2> QED
    BY <1>0, <2>6, <2>7, <2>8 DEF OwnInv
<1>4. CASE Connected(u)
  <2> DEFINE c == user[u].client
  <2>1. /\ user[u].pc = "connecting" /\ state[c] = "connecting" /\ c \in Client
        /\ \A v \in User : ~Due(v)
        /\ IF Open
             THEN state' = [state EXCEPT ![c] = "connected"] /\ user' = Move(u, "publishing")
             ELSE Close({c}) /\ user' = Move(u, "retrying")
        /\ UNCHANGED <<clients, clientPromises, constructedClients, terminal, drain>>
    BY <1>0, <1>4 DEF Connected, At, others, Request
  <2> HIDE DEF c
  <2>2. /\ \A v \in User \ {u} : user'[v] = user[v]
        /\ user'[u].client = c
        /\ user'[u].pc = IF Open THEN "publishing" ELSE "retrying"
    BY <1>0, <2>1, Stages DEF c
  <2>3. OneAttempt'
    BY <1>0, <1>1, <2>1, <2>2 DEF OneAttempt, Connecting
  <2>4. drain.pc # "done"
    BY <1>2, <2>1 DEF Live
  <2>5. CASE Open
    <3>1. state'[c] = "connected" /\ \A d \in Client \ {c} : state'[d] = state[d]
      BY <1>0, <2>1, <2>5
    <3>2. \A v \in User : user[v].pc \notin {"probing", "handed", "discarding"}
      <4> SUFFICES ASSUME NEW v \in User, user[v].pc \in {"probing", "handed", "discarding"}
                   PROVE  FALSE
        OBVIOUS
      <4>1. ~Due(v)
        BY <2>1
      <4>2. CASE user[v].pc = "discarding"
        BY <1>0, <2>5, <4>1, <4>2 DEF Due, At, Discards
      <4>3. CASE user[v].pc = "handed"
        BY <4>1, <4>3 DEF Due, At
      <4>4. CASE user[v].pc = "probing"
        <5>1. state[user[v].client] = "connected"
          BY <1>0, <2>5, <4>1, <4>4 DEF Due, At, InHand
        <5>2. clients \in Client
          BY <1>0, <2>5, <4>4, <5>1 DEF InHand
        <5> QED
          BY <1>1, <5>2, RegistryAssumption
      <4> QED
        BY <4>2, <4>3, <4>4
    <3>3. PublishedAlive' /\ InHand' /\ Discards'
      BY <1>1, <2>1, <2>2, <2>5, <3>2 DEF PublishedAlive, InHand, Discards
    <3>4. Publishes'
      BY <1>1, <2>2, <2>5, <3>1, <3>2 DEF Publishes, Connecting
    <3>5. NoOrphan'
      BY <1>0, <2>1, <3>1 DEF NoOrphan, Live
    <3> QED
      BY <1>0, <2>1, <2>3, <2>4, <3>3, <3>4, <3>5 DEF OwnInv, NothingSurvivesShutdown
  <2>6. CASE ~Open
    <3>1. \A d \in Client : state'[d] \in Live => state[d] \in Live
      BY <1>0, <2>1, <2>6, ClosingType DEF Live, Gone
    <3>2. PublishedAlive' /\ InHand' /\ Discards' /\ Publishes'
      BY <2>1, <2>6 DEF PublishedAlive, InHand, Discards, Publishes, Open
    <3>3. NoOrphan'
      BY <1>0, <2>1, <3>1 DEF NoOrphan
    <3> QED
      BY <1>0, <2>1, <2>3, <2>4, <3>2, <3>3 DEF OwnInv, NothingSurvivesShutdown
  <2> QED
    BY <2>5, <2>6
<1>5. CASE ConnectFails(u)
  <2> DEFINE c == user[u].client
  <2>1. /\ user[u].pc = "connecting" /\ c \in Client
        /\ Close({c}) /\ user' = Move(u, "retrying")
        /\ UNCHANGED <<clients, clientPromises, constructedClients, terminal, drain>>
    BY <1>0, <1>5 DEF ConnectFails, At, others, Request
  <2>2. state[c] \in {"connecting", "closing", "closed"}
    BY <1>0, <2>1 DEF IInv, StartsAlone
  <2> HIDE DEF c
  <2>3. \A v \in User \ {u} : user'[v] = user[v]
    BY <1>0, <2>1, Stages
  <2>4. \A d \in Client : \/ state'[d] = state[d]
                          \/ state[d] = "connecting" /\ state'[d] = "closing"
    BY <2>1, <2>2 DEF Close, Closing, Gone
  <2>5. user'[u].pc = "retrying"
    BY <1>0, <2>1, Stages
  <2>6. OneAttempt'
    BY <1>0, <1>1, <2>1, <2>3, <2>5 DEF OneAttempt, Connecting
  <2>7. PublishedAlive' /\ InHand' /\ Discards' /\ Publishes'
    BY <1>0, <1>1, <2>1, <2>3, <2>4, <2>5
       DEF PublishedAlive, InHand, Discards, Publishes, Open, Connecting
  <2>8. NoOrphan' /\ NothingSurvivesShutdown'
    BY <1>0, <2>1, <2>4 DEF NoOrphan, NothingSurvivesShutdown, Live
  <2> QED
    BY <1>0, <2>6, <2>7, <2>8 DEF OwnInv
<1>6. CASE Retry(u)
  <2>1. /\ \A v \in User \ {u} : user'[v] = user[v]
        /\ user'[u].pc = "spawning"
    BY <1>0, <1>6 DEF Retry, UserRecord
  <2>2. "spawning" \in Connecting
    BY DEF Connecting
  <2> QED
    BY <1>0, <1>1, <1>6, <2>1, <2>2, UserStep DEF Retry, others
<1>7. CASE AttemptFails(u)
  <2>1. /\ Settle(u, NoClient, [user[u] EXCEPT !.pc = "leaving"])
        /\ UNCHANGED <<clients, constructedClients, state, terminal, drain>>
    BY <1>7 DEF AttemptFails
  <2>2. [user[u] EXCEPT !.pc = "leaving"].pc = "leaving"
    BY <1>0 DEF UserRecord
  <2>3. /\ user'[u].pc = "leaving" /\ clientPromises' = Nobody
        /\ \A v \in User \ {u} : user'[v] = user[v] \/ user'[v].pc = "leaving"
    <3> DEFINE r == [user[u] EXCEPT !.pc = "leaving"]
    <3>1. Settle(u, NoClient, r) /\ r.pc = "leaving" /\ NoClient \in SomeClient
      BY <2>1, <2>2 DEF SomeClient
    <3> HIDE DEF r
    <3> QED
      BY <1>0, <3>1, SettleMoves
  <2>4. OneAttempt'
    BY <1>1, <2>1, <2>3, RegistryAssumption DEF OneAttempt, Connecting, User
  <2>5. PublishedAlive' /\ InHand' /\ Discards' /\ Publishes'
    BY <1>0, <2>1, <2>3 DEF PublishedAlive, InHand, Discards, Publishes, Open
  <2>6. NoOrphan' /\ NothingSurvivesShutdown'
    BY <1>0, <2>1 DEF NoOrphan, NothingSurvivesShutdown
  <2> QED
    BY <1>0, <2>4, <2>5, <2>6 DEF OwnInv
<1>8. CASE Publish(u)
  <2> DEFINE c == user[u].client
  <2>1. /\ user[u].pc = "publishing" /\ c \in Client /\ c # NoClient
        /\ UNCHANGED <<state, terminal, drain>>
    BY <1>0, <1>8, RegistryAssumption DEF Publish, At, Request
  <2>2. CASE Open
    <3>1. /\ clients' = IF Reestablishes(u, c) THEN NoClient ELSE c
          /\ constructedClients' = constructedClients \ {c}
          /\ Settle(u, c, Receive(u, c))
      BY <1>8, <2>2 DEF Publish
    <3>2. /\ state[c] \in {"connected", "exited"}
          /\ \A v \in User : user[v].pc \notin {"probing", "handed", "discarding"}
      BY <1>0, <2>1, <2>2 DEF Publishes
    <3> HIDE DEF c
    <3>3. Receive(u, c).pc \in {"idle", "getting", "preflight"}
      BY <1>0, Stages
    <3>4. /\ user'[u].pc \in {"idle", "getting", "preflight"} /\ clientPromises' = Nobody
          /\ \A v \in User \ {u} :
               user'[v] = user[v] \/ (user'[v].pc = "handed" /\ user'[v].client = c)
      BY <1>0, <2>1, <3>1, <3>3, SettleMoves DEF SomeClient
    <3>5. OneAttempt'
      BY <1>1, <3>4, RegistryAssumption DEF OneAttempt, Connecting, User
    <3>6. state[c] = "connected" => clients' = c
      BY <3>1 DEF Reestablishes
    <3>7. clients' \in {c, NoClient}
      BY <3>1
    <3>8. PublishedAlive' /\ InHand'
      BY <2>1, <3>2, <3>4, <3>6, <3>7 DEF PublishedAlive, InHand
    <3>9. Discards' /\ Publishes'
      BY <1>1, <3>2, <3>4 DEF Discards, Publishes, Connecting
    <3>10. NoOrphan'
      BY <1>0, <1>1, <2>1, <3>1, <3>2, <3>6, RegistryAssumption DEF NoOrphan, Live
    <3>11. NothingSurvivesShutdown'
      BY <1>0, <2>1 DEF NothingSurvivesShutdown
    <3> QED
      BY <1>0, <3>5, <3>8, <3>9, <3>10, <3>11 DEF OwnInv
  <2>3. CASE ~Open
    <3>1. /\ Settle(u, NoClient, [user[u] EXCEPT !.pc = "leaving"])
          /\ clients' = clients /\ constructedClients' = Own(c)
      BY <1>8, <2>3 DEF Publish
    <3>2. [user[u] EXCEPT !.pc = "leaving"].pc = "leaving"
      BY <1>0 DEF UserRecord
    <3>3. /\ user'[u].pc = "leaving" /\ clientPromises' = Nobody
          /\ \A v \in User \ {u} : user'[v] = user[v] \/ user'[v].pc = "leaving"
      <4> DEFINE r == [user[u] EXCEPT !.pc = "leaving"]
      <4>1. Settle(u, NoClient, r) /\ r.pc = "leaving" /\ NoClient \in SomeClient
        BY <3>1, <3>2 DEF SomeClient
      <4> HIDE DEF r
      <4> QED
        BY <1>0, <4>1, SettleMoves
    <3>4. OneAttempt'
      BY <1>1, <3>1, <3>3, RegistryAssumption DEF OneAttempt, Connecting, User
    <3>5. PublishedAlive' /\ InHand' /\ Discards' /\ Publishes'
      BY <2>1, <2>3 DEF PublishedAlive, InHand, Discards, Publishes, Open
    <3>6. NoOrphan' /\ NothingSurvivesShutdown'
      BY <1>0, <2>1, <3>1 DEF NoOrphan, NothingSurvivesShutdown, Own
    <3> QED
      BY <1>0, <3>4, <3>5, <3>6 DEF OwnInv
  <2> QED
    BY <2>2, <2>3
<1> QED
  BY <1>3, <1>4, <1>5, <1>6, <1>7, <1>8 DEF Attempt

(* The end of a request, and a client that ends or is closed.              *)
LEMMA EndingOwns ==
  ASSUME OwnInv, NEW u \in User, Ask(u) \/ Ending(u)
  PROVE  OwnInv'
<1>0. /\ IInv /\ IInv' /\ TypeInv /\ user \in [User -> UserRecord]
  BY AskKeeps, EndingKeeps DEF OwnInv, IInv, TypeInv, TypeOK
<1>1. /\ \A v \in User \ {u} : user'[v] = user[v]
      /\ user'[u].pc \in {"asking", "getting", "dispatched", "leaving", "idle"}
  BY <1>0, Stages DEF Ask, Ending, Dispatch, Answer, ReleaseLease, IdleUser
<1>2. /\ user[u].pc \in {"idle", "preflight", "dispatched", "leaving"}
      /\ UNCHANGED <<clients, clientPromises, state, constructedClients, terminal, drain>>
  BY DEF Ask, Ending, Dispatch, Answer, ReleaseLease, At, others
<1>3. user[u].pc \notin Connecting /\ user'[u].pc \notin Connecting
  BY <1>1, <1>2 DEF Connecting
<1> QED
  BY <1>0, <1>1, <1>2, <1>3, UserStep

LEMMA ClientOwns ==
  ASSUME OwnInv, NEW c \in Client, ClientExits(c) \/ Closed(c)
  PROVE  OwnInv'
<1>0. /\ IInv /\ IInv' /\ TypeInv /\ user \in [User -> UserRecord]
      /\ state \in [Client -> {"unused", "exited"} \cup Live \cup Gone]
      /\ OneAttempt /\ InHand /\ Discards /\ Publishes /\ PublishedAlive
      /\ NoOrphan /\ NothingSurvivesShutdown
  BY ClientKeeps DEF OwnInv, IInv, TypeInv, TypeOK
<1>1. CASE ClientExits(c)
  <2>1. /\ state[c] = "connected" /\ state' = [state EXCEPT ![c] = "exited"]
        /\ UNCHANGED <<clients, clientPromises, constructedClients, user, terminal, drain>>
    BY <1>1 DEF ClientExits, others
  <2>2. state'[c] = "exited" /\ \A d \in Client \ {c} : state'[d] = state[d]
    BY <1>0, <2>1
  <2>3. OneAttempt' /\ PublishedAlive' /\ InHand' /\ Discards' /\ Publishes'
    BY <1>0, <2>1, <2>2
       DEF OneAttempt, PublishedAlive, InHand, Discards, Publishes, Open
  <2>4. NoOrphan' /\ NothingSurvivesShutdown'
    BY <1>0, <2>1, <2>2 DEF NoOrphan, NothingSurvivesShutdown, Live
  <2> QED
    BY <1>0, <2>3, <2>4 DEF OwnInv
<1>2. CASE Closed(c)
  <2>1. /\ state[c] = "closing" /\ state' = [state EXCEPT ![c] = "closed"]
        /\ constructedClients' = constructedClients \ {c}
        /\ Pending(c) \subseteq Droppable(c)
        /\ user' = [u \in User |->
             IF u \in Pending(c) THEN [user[u] EXCEPT !.pc = "dropped"] ELSE user[u]]
        /\ UNCHANGED <<clients, clientPromises, terminal, drain>>
    BY <1>2 DEF Closed, others
  <2>2. state'[c] = "closed" /\ \A d \in Client \ {c} : state'[d] = state[d]
    BY <1>0, <2>1
  <2>3. \A u \in User : /\ u \in Pending(c) => user'[u].pc = "dropped"
                        /\ u \notin Pending(c) => user'[u] = user[u]
    BY <1>0, <2>1 DEF UserRecord
  <2>4. \A u \in User : user'[u] = user[u]
          \/ (user'[u].pc = "dropped" /\ user[u].pc \in {"probing", "dispatched"} /\ ~Open)
    BY <2>1, <2>3 DEF Pending, Droppable
  <2>5. OneAttempt'
    BY <1>0, <2>1, <2>4 DEF OneAttempt, Connecting
  <2>6. PublishedAlive' /\ InHand' /\ Discards' /\ Publishes'
    BY <1>0, <2>1, <2>2, <2>4
       DEF PublishedAlive, InHand, Discards, Publishes, Open
  <2>7. NoOrphan' /\ NothingSurvivesShutdown'
    BY <1>0, <2>1, <2>2 DEF NoOrphan, NothingSurvivesShutdown, Live
  <2> QED
    BY <1>0, <2>5, <2>6, <2>7 DEF OwnInv
<1> QED
  BY <1>1, <1>2

(* An eviction or the reaper takes the client when no request has it.      *)
LEMMA TakingOwns ==
  ASSUME OwnInv, IInv', CallsOnly, Open, activeLeases = {}, clients # NoClient,
         clients' = NoClient, Close({clients}),
         UNCHANGED <<clientPromises, constructedClients, user, terminal, drain>>
  PROVE  OwnInv'
<1>0. /\ IInv /\ TypeInv /\ OneAttempt /\ clients \in Client
      /\ NoOrphan /\ NothingSurvivesShutdown
  BY DEF OwnInv, IInv, TypeInv, TypeOK, SomeClient
<1>1. \A u \in User : user'[u].pc \notin Leased
  BY <1>0 DEF IInv, LeasesHeld, CallsOnly, User
<1>2. PublishedAlive' /\ InHand' /\ Discards' /\ Publishes' /\ OneAttempt'
  BY <1>0, <1>1
     DEF PublishedAlive, InHand, Discards, Publishes, OneAttempt, Leased, Connecting
<1>3. \A d \in Client : IF d = clients THEN state'[d] \in Gone ELSE state'[d] = state[d]
  BY <1>0, ClosingType
<1>4. NoOrphan'
  BY <1>0, <1>3 DEF NoOrphan, Live, Gone
<1>5. NothingSurvivesShutdown'
  BY <1>0 DEF NothingSurvivesShutdown, IInv, DrainOff
<1> QED
  BY <1>0, <1>2, <1>4, <1>5 DEF OwnInv

LEMMA EvictorOwns ==
  ASSUME OwnInv, CallsOnly, NEW e \in Evictor, Evict(e) \/ Evicting(e)
  PROVE  OwnInv'
<1>0. IInv /\ IInv'
  BY EvictorKeeps DEF OwnInv
<1>1. CASE UNCHANGED <<clients, clientPromises, constructedClients, state, user, terminal, drain>>
  BY <1>0, <1>1 DEF OwnInv, OneAttempt, PublishedAlive, InHand, Discards, Publishes, Open,
     NoOrphan, NothingSurvivesShutdown, Pending
<1>2. CASE EvictionTakes(e) /\ Open /\ clients # NoClient
  <2>1. activeLeases = {}
    BY <1>0, <1>2 DEF IInv, EvictionsWait, EvictionTakes
  <2> QED
    BY <1>0, <1>2, <2>1, TakingOwns DEF EvictionTakes
<1> QED
  BY <1>1, <1>2 DEF Evict, Evicting, EvictionTurn, WaitForActiveLeases, EvictionTakes, Evicted

(* Shutdown closes what is published or held, and is done when all that is *)
(* closed.                                                                 *)
LEMMA DrainOwns ==
  ASSUME OwnInv, CallsOnly, CloseAll \/ Draining
  PROVE  OwnInv'
<1>0. /\ IInv /\ IInv' /\ TypeInv
      /\ state \in [Client -> {"unused", "exited"} \cup Live \cup Gone]
      /\ clients \in SomeClient
      /\ OneAttempt /\ NoOrphan
  BY ShutdownKeeps DEF OwnInv, IInv, TypeInv, TypeOK
<1>1. ~Open'
  BY <1>0 DEF CloseAll, Draining, DrainLoop, DrainGoesOn, IInv, DrainOff, Open
<1>2. PublishedAlive' /\ InHand' /\ Discards' /\ Publishes'
  BY <1>1 DEF PublishedAlive, InHand, Discards, Publishes
<1>3. CASE CloseAll \/ DrainGoesOn
  <2>1. UNCHANGED <<clients, clientPromises, constructedClients, state, user>>
        /\ drain'.pc = "looping"
    BY <1>0, <1>3 DEF CloseAll, DrainGoesOn, TypeInv, TypeOK
  <2> QED
    BY <1>0, <1>2, <2>1 DEF OwnInv, OneAttempt, NoOrphan, NothingSurvivesShutdown
<1>4. CASE DrainLoop
  <2>1. /\ Close(Owned) /\ clients' = NoClient
        /\ UNCHANGED <<clientPromises, user>>
        /\ DrainSettles \/ DrainReconciles
    BY <1>4 DEF DrainLoop
  <2>2. OneAttempt'
    BY <1>0, <2>1 DEF OneAttempt
  <2>3. \A c \in Client : IF c \notin Owned \/ state[c] \in Gone THEN state'[c] = state[c]
                          ELSE state'[c] \in Gone
    BY <1>0, <2>1, ClosingType
  <2>4. \A c \in Client : state[c] \in Live => c \in Owned
    BY <1>0, RegistryAssumption DEF NoOrphan, Owned, Published, SomeClient, Live
  <2>5. \A c \in Client : state'[c] \notin Live
    BY <2>3, <2>4 DEF Live, Gone
  <2>6. NoOrphan'
    BY <2>5 DEF NoOrphan
  <2>7. DrainSettles => NothingSurvivesShutdown'
    BY DEF DrainSettles, NothingSurvivesShutdown
  <2>8. ASSUME DrainReconciles PROVE NothingSurvivesShutdown'
    <3>1. \A c \in Client : state[c] # "closing" /\ (c \in Owned => state[c] = "closed")
      BY <2>8 DEF DrainReconciles, ActiveCloses
    <3>2. \A c \in Client : state'[c] # "closing"
      BY <2>3, <3>1 DEF Gone
    <3> QED
      BY <2>5, <3>2 DEF NothingSurvivesShutdown
  <2>9. NothingSurvivesShutdown'
    BY <2>1, <2>7, <2>8
  <2> QED
    BY <1>0, <1>2, <2>2, <2>6, <2>9 DEF OwnInv
<1> QED
  BY <1>3, <1>4 DEF Draining

LEMMA OwnNext ==
  ASSUME CallsOnly, OwnInv, [Next]_vars
  PROVE  OwnInv'
<1>1. CASE UNCHANGED vars
  BY <1>1, Inductive DEF vars, OwnInv, OneAttempt, PublishedAlive, InHand, Discards,
     Publishes, Open, NoOrphan, NothingSurvivesShutdown
<1>2. CASE Sweep
  <2>1. IInv'
    BY <1>2, SweepKeeps DEF OwnInv
  <2> QED
    BY <1>2, <2>1, TakingOwns DEF Sweep, Reapable, others
<1>3. CASE Next /\ ~Sweep
  BY <1>3, GettingOwns, AttemptOwns, EndingOwns, ClientOwns, EvictorOwns, DrainOwns
     DEF Next, CallsOnly
<1> QED
  BY <1>1, <1>2, <1>3

LEMMA OwnInit ==
  ASSUME Init
  PROVE  OwnInv
<1>1. IInv /\ \A u \in User : user[u].pc = "idle"
  BY InductiveInit DEF Init, IdleUser
<1>2. OneAttempt
  BY <1>1, RegistryAssumption DEF Init, OneAttempt, Connecting, User
<1>3. PublishedAlive /\ InHand /\ Discards /\ Publishes
  BY <1>1 DEF Init, PublishedAlive, InHand, Discards, Publishes
<1>4. NoOrphan /\ NothingSurvivesShutdown
  BY DEF Init, NoOrphan, NothingSurvivesShutdown, Live
<1> QED
  BY <1>1, <1>2, <1>3, <1>4 DEF OwnInv

LEMMA OwnAlways ==
  ASSUME CallsOnly
  PROVE  Spec => []OwnInv
BY OwnInit, OwnNext, PTL DEF Spec

(* src/registry.ts: whatever calls, evictions, the reaper and shutdown do, *)
(* every client alive is published, or held until it is or is closed.      *)
THEOREM NoClientIsLost ==
  ASSUME CallsOnly
  PROVE  Spec => []NoOrphan
<1>1. OwnInv => NoOrphan
  BY DEF OwnInv
<1> QED
  BY <1>1, OwnAlways, PTL

(* src/registry.ts, closeAll: once it has resolved no client is alive, and *)
(* none comes to life.                                                     *)
THEOREM ShutdownIsFinal ==
  ASSUME CallsOnly
  PROVE  Spec => []NothingSurvivesShutdown
<1>1. OwnInv => NothingSurvivesShutdown
  BY DEF OwnInv
<1> QED
  BY <1>1, OwnAlways, PTL

(* A request begins to connect only while no client is published.          *)
LEMMA SpawnStep ==
  ASSUME CallsOnly, OwnInv, [Next]_vars, NEW u \in User,
         user[u].pc \notin Connecting, user'[u].pc = "spawning"
  PROVE  clients' = NoClient
<1>0. OwnInv'
  BY OwnNext
<1>1. clientPromises' = u
  BY <1>0 DEF OwnInv, OneAttempt, Connecting
<1>2. u # Nobody
  BY RegistryAssumption DEF User
<1> QED
  BY <1>0, <1>1, <1>2 DEF OwnInv, OneAttempt

(* src/registry.ts, getClient: requests share one connection, and a client *)
(* that is published is not replaced.                                      *)
THEOREM SpawnsShared ==
  ASSUME CallsOnly
  PROVE  Spec => SpawnIsShared
<1>1. OwnInv /\ [Next]_vars =>
        [\A u \in User : user[u].pc \notin Connecting /\ user'[u].pc = "spawning"
           => clients' = NoClient]_vars
  BY SpawnStep
<1> QED
  BY <1>1, OwnAlways, PTL DEF Spec, SpawnIsShared
=============================================================================
