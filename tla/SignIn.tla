------------------------------- MODULE SignIn -------------------------------
(***************************************************************************)
(* The sign-in of one OAuth package: handleAuthenticateCore of             *)
(* src/handlers/authenticate.ts with its attempts on callback ports, the   *)
(* callback server of src/auth/callbackServer.ts, and the client and       *)
(* provider they use (connectWithOAuth and finishOAuth of src/clients/     *)
(* httpClient.ts, src/auth/providers/simple.ts).                           *)
(*                                                                         *)
(* Several calls may overlap: they share the callback ports, the files of  *)
(* the package and the registry's client map, and nothing keeps them       *)
(* apart.  An attempt is named by its call and its number; so are the      *)
(* state it puts in its sign-in page and a client it registers.  Outside   *)
(* src: the provider's pages, the person before them, and the server.      *)
(***************************************************************************)
EXTENDS Naturals, FiniteSets

CONSTANTS
  Flow,         \* calls of authenticate
  Port,         \* ports a callback server may listen on
  MaxAttempts,  \* MAX_PORT_ATTEMPTS
  FilesFail,    \* a change of the package's files may fail
  None,
  Static, Old   \* the client the config gives, and one registered in an earlier sign-in

ASSUME SignInAssumption ==
  /\ Port \subseteq Nat \ {0} /\ Port # {}
  /\ MaxAttempts \in Nat \ {0} /\ FilesFail \in BOOLEAN
  /\ None \notin [by : Flow \X Nat, armed : BOOLEAN]
  /\ Flow \cap {None, "ambient"} = {}

(* What a call remembers: the port, the saved one, those that failed and   *)
(* the first of them; "skip" the probe; the client "held" by the provider  *)
(* of its attempt; whether that provider has started a redirect, and the   *)
(* probe's "verdict" was a rejection; how far connectWithOAuth has come    *)
(* ("none", "running", "up", "redirected", "failed"); its waitForCallback  *)
(* ("none", "armed", or how it was settled), and the attempt whose code    *)
(* settled it.                                                             *)
VARIABLES
  static,     \* the package has static credentials
  taken,      \* ports that other programs hold
  flow,       \* where a call is, and what its current attempt remembers
  client,     \* the HTTP client of its attempt: "none", "open", "up" or "closed"
  result,     \* what a call returned: "authenticated" or something else
  server,     \* [by, armed]: the attempt that listens on a port
  pages,      \* sign-in pages left open in the browser
  disk,       \* [tokens, client, port]: the client ids and the port in the two files
  registered, \* the registry's client: None, "ambient" or the call it is from
  exchanging, \* token exchanges that outlived their timeout: the clients they are for
  late,       \* [of, port, held]: attempts that ended while their client may still ask
              \* the server for something, which nothing aborts
  disturbed,  \* calls, or a call and what an ended one left behind, have overlapped, or
              \* a change of the files has failed
  displaced   \* calls whose client was taken out of the map, or closed in it

config  == <<static, taken>>
run     == <<flow, client, result>>
browser == <<server, pages>>
files   == <<disk, disturbed>>
map     == <<registered, displaced>>
beyond  == <<exchanging, late>>
vars    == <<config, run, browser, files, map, beyond>>

Attempt(f) == <<f, flow[f].attempt>>

Active(f) == flow[f].pc \notin {"new", "done"}

Free(p) == server[p] = None /\ p \notin taken

(* Where the settled wait is looked at: before the race of callback and    *)
(* bootstrap is decided, and after it when a sign-in was begun.            *)
Waiting(f) == flow[f].pc \in {"waiting", "waitingUp"}

(* The port a saved registration was made for, and what a stale one means. *)
SavedPort == IF disk.client # None /\ ~static THEN disk.port ELSE 0
Stale(f)  == ~static /\ disk.client # None /\ disk.port # flow[f].port

At(f, pc)   == flow[f].pc = pc
Goto(f, pc) == flow' = [flow EXCEPT ![f].pc = pc]

Fresh == [pc |-> "new", attempt |-> 0, port |-> 0, saved |-> 0, failed |-> {}, first |-> 0,
          skip |-> FALSE, held |-> None, redirected |-> FALSE, verdict |-> FALSE,
          after |-> "none", bootstrap |-> "none", wait |-> "none", code |-> None]

Return(f, r) ==
  /\ flow' = [flow EXCEPT ![f] = [Fresh EXCEPT !.pc = "done"]]
  /\ result' = [result EXCEPT ![f] = r]

(* The two files are to hold d; a write or an unlink that fails is logged, *)
(* and the sign-in goes on.                                                *)
SetFiles(d) ==
  /\ \E t, c \in {d} \cup (IF FilesFail THEN {disk} ELSE {}) :
       disk' = [tokens |-> t.tokens, client |-> c.client, port |-> c.port]
  /\ disturbed' = (disturbed \/ disk' # d)

(* Whose client the map loses; of no interest when the call has not        *)
(* answered "authenticated".                                               *)
Losing == {g \in Flow : registered = g /\ result[g] # "other"}

(* clients.set and clients.delete, on the map the registry owns.           *)
Put(f) ==
  /\ registered' = f
  /\ displaced' = (displaced \cup Losing) \ {f}
Take ==
  /\ registered' = None
  /\ displaced' = displaced \cup Losing
-----------------------------------------------------------------------------
(* Before the attempts.                                                    *)

(* Forced by the caller, or by the needs-reconnect marker.                 *)
Begin(f) ==
  /\ At(f, "new")
  /\ disturbed' = (disturbed \/ exchanging # {} \/ late # {} \/ \E g \in Flow : Active(g))
  /\ \E force \in BOOLEAN : Goto(f, IF force THEN "evict" ELSE "check")
  /\ UNCHANGED <<config, client, result, browser, disk, map, beyond>>

(* Forced: the client in the map is closed, whosever it is.                *)
Evict(f) ==
  /\ At(f, "evict")
  /\ Goto(f, IF registered = None THEN "wipe" ELSE "evicting")
  /\ client' = [g \in Flow |-> IF registered = g THEN "closed" ELSE client[g]]
  /\ displaced' = displaced \cup Losing
  /\ UNCHANGED <<config, result, browser, files, registered, beyond>>

(* When it has closed, whatever the map holds by now is taken out.         *)
Evicted(f) ==
  /\ At(f, "evicting")
  /\ Take
  /\ Goto(f, "wipe")
  /\ UNCHANGED <<config, client, result, browser, files, beyond>>

NoFiles == [tokens |-> None, client |-> None, port |-> 0]

(* invalidateCredentials('all').                                           *)
Wipe(f) ==
  /\ At(f, "wipe")
  /\ SetFiles(NoFiles)
  /\ Goto(f, "ports")
  /\ UNCHANGED <<config, client, result, browser, map, beyond>>

(* Not forced: perhaps the package works as it is.                         *)
AlreadySignedIn(f) ==
  /\ At(f, "check")
  /\ Return(f, "other")
  /\ registered' = IF registered = None THEN "ambient" ELSE registered
  /\ UNCHANGED <<config, client, browser, files, displaced, beyond>>

(* Its own check may have had an unusable client replaced or taken out.    *)
NotSignedIn(f) ==
  /\ At(f, "check")
  /\ Goto(f, "ports")
  /\ \/ UNCHANGED map
     \/ Take
     \/ /\ registered' = "ambient"
        /\ displaced' = displaced \cup Losing
  /\ UNCHANGED <<config, client, result, browser, files, beyond>>

ReadSavedPort(f) ==
  /\ At(f, "ports")
  /\ flow' = [flow EXCEPT ![f].saved = SavedPort, ![f].pc = "choose"]
  /\ UNCHANGED <<config, client, result, browser, files, map, beyond>>
-----------------------------------------------------------------------------
(* An attempt.                                                             *)

(* The saved port first, then the free ones that have not failed.  The     *)
(* probe is skipped on a saved port that has worked before.                *)
MayChoose(f, p) ==
  /\ Free(p) /\ p \notin flow[f].failed
  /\ (flow[f].attempt = 0 /\ flow[f].saved \in Port /\ Free(flow[f].saved)) => p = flow[f].saved

NextAttempt(f, p, skip) ==
  flow' = [flow EXCEPT ![f] = [@ EXCEPT !.attempt = flow[f].attempt + 1, !.port = p,
                               !.skip = skip, !.saved = 0, !.redirected = FALSE,
                               !.pc = "prepare"]]

ChoosePort(f) ==
  /\ At(f, "choose") /\ flow[f].attempt < MaxAttempts
  /\ \E p \in Port :
       /\ MayChoose(f, p)
       /\ LET reused == flow[f].attempt = 0 /\ p = flow[f].saved
          IN NextAttempt(f, p, reused /\ disk.tokens # None)
  /\ UNCHANGED <<config, client, result, browser, files, map, beyond>>

NoPort(f) ==
  /\ At(f, "choose") /\ flow[f].attempt < MaxAttempts
  /\ \A p \in Port : ~MayChoose(f, p)
  /\ Return(f, "other")
  /\ UNCHANGED <<config, client, browser, files, map, beyond>>

(* Every candidate was rejected: the first one again, with the browser.    *)
Floor(f) ==
  /\ At(f, "choose") /\ flow[f].attempt = MaxAttempts
  /\ NextAttempt(f, flow[f].first, TRUE)
  /\ UNCHANGED <<config, client, result, browser, files, map, beyond>>

(* What the fresh provider holds, once a stale registration is invalidated.*)
Provided(f) == IF static THEN Static ELSE IF Stale(f) THEN None ELSE disk.client

(* Mutant of Prepare: a stale registration goes, its tokens stay.          *)
PrepareKeepingTokens(f) ==
  /\ At(f, "prepare")
  /\ Take
  /\ IF Stale(f) THEN SetFiles([NoFiles EXCEPT !.tokens = disk.tokens]) ELSE UNCHANGED files
  /\ flow' = [flow EXCEPT ![f].held = Provided(f), ![f].pc = "listen"]
  /\ UNCHANGED <<config, client, result, browser, beyond>>

(* The client is taken out of the map without being closed; a fresh        *)
(* provider reads the files, and a stale registration is invalidated with  *)
(* the tokens that belong to it.                                           *)
Prepare(f) ==
  /\ At(f, "prepare")
  /\ Take
  /\ IF Stale(f) THEN SetFiles(NoFiles) ELSE UNCHANGED files
  /\ flow' = [flow EXCEPT ![f].held = Provided(f), ![f].pc = "listen"]
  /\ UNCHANGED <<config, client, result, browser, beyond>>

Listen(f) ==
  /\ At(f, "listen") /\ Free(flow[f].port)
  /\ server' = [server EXCEPT ![flow[f].port] = [by |-> Attempt(f), armed |-> FALSE]]
  /\ Goto(f, "listening")
  /\ UNCHANGED <<config, client, result, pages, files, map, beyond>>

(* Another call took the port in the meantime.                             *)
CannotListen(f) ==
  /\ At(f, "listen") /\ ~Free(flow[f].port)
  /\ Return(f, "other")
  /\ UNCHANGED <<config, client, browser, files, map, beyond>>

(* After half a second: connectWithOAuth begins and the wait is armed.     *)
Start(f) ==
  /\ At(f, "listening")
  /\ flow' = [flow EXCEPT ![f] = [@ EXCEPT !.pc = "waiting", !.bootstrap = "running",
                                           !.wait = "armed"]]
  /\ client' = [client EXCEPT ![f] = "open"]
  /\ server' = [server EXCEPT ![flow[f].port].armed = TRUE]
  /\ UNCHANGED <<config, result, pages, files, map, beyond>>
-----------------------------------------------------------------------------
(* What the client asks the server for while it connects, and while its    *)
(* health is checked: an answer that wants a sign-in starts the SDK's      *)
(* authorization, whatever has become of the connection by then.           *)
Authorizing(f) == At(f, "waiting") \/ At(f, "health")

(* The SDK registers a client unless the provider has one.                 *)
Register(f) ==
  /\ Authorizing(f) /\ flow[f].held = None
  /\ flow' = [flow EXCEPT ![f].held = Attempt(f)]
  /\ SetFiles([disk EXCEPT !.client = Attempt(f), !.port = flow[f].port])
  /\ UNCHANGED <<config, client, result, browser, map, beyond>>

(* The probe finds that the provider refuses the port.                     *)
ProbeRejects(f) ==
  /\ Authorizing(f) /\ flow[f].held # None /\ ~flow[f].skip /\ ~flow[f].redirected
  /\ flow' = [flow EXCEPT ![f].verdict = TRUE, ![f].redirected = TRUE]
  /\ UNCHANGED <<config, client, result, browser, files, map, beyond>>

(* The browser is opened on the sign-in page.                              *)
Redirect(f) ==
  /\ Authorizing(f) /\ flow[f].held # None /\ ~flow[f].redirected
  /\ flow' = [flow EXCEPT ![f].redirected = TRUE]
  /\ pages' = pages \cup {[of |-> Attempt(f), port |-> flow[f].port]}
  /\ UNCHANGED <<config, client, result, server, files, map, beyond>>

(* connectWithOAuth returns: connected, without a sign-in or although one  *)
(* was begun, or with a redirect to wait for; or it fails, with the        *)
(* probe's verdict or with an error that counts even after a redirect.  Its*)
(* time limit is such an error, and stops nothing of what it was doing.    *)
BootstrapEnds(f) ==
  /\ At(f, "waiting") /\ flow[f].bootstrap = "running"
  /\ \E end \in {"up", "failed", "redirected"} :
       /\ end = "redirected" => flow[f].redirected /\ ~flow[f].verdict
       /\ flow' = [flow EXCEPT ![f].bootstrap = end]
       /\ client' = [client EXCEPT ![f] = IF end = "up" THEN "up" ELSE @]
  /\ UNCHANGED <<config, result, browser, files, map, beyond>>
-----------------------------------------------------------------------------
(* The callback server.                                                    *)

(* Mutant of StateIsValid: any callback on the port counts.                *)
StateUnchecked(page) == TRUE

(* checkCallbackState: the callback carries the state of the attempt that  *)
(* listens.                                                                *)
StateIsValid(page) == server[page.port].by = page.of

(* A page sends the browser to its port, with a code or with an error.  A  *)
(* callback that comes before the wait is armed finds nobody.              *)
Callback(page, how) ==
  /\ page \in pages /\ server[page.port] # None
  /\ pages' = pages \ {page}
  /\ LET f == server[page.port].by[1]
     IN IF server[page.port].armed /\ StateIsValid(page) /\ flow[f].wait = "armed"
        THEN flow' = [flow EXCEPT ![f].wait = how,
                                  ![f].code = IF how = "code" THEN page.of ELSE @]
        ELSE UNCHANGED flow
  /\ UNCHANGED <<config, client, result, server, files, map, beyond>>

(* Mutant of WaitRunsOut: a client that connected needs no time limit.     *)
WaitRunsOutUnconnected(f) ==
  /\ flow[f].wait = "armed"
  /\ At(f, "waiting") /\ flow[f].bootstrap = "redirected"
  /\ flow' = [flow EXCEPT ![f].wait = "timeout"]
  /\ UNCHANGED <<config, client, result, browser, files, map, beyond>>

(* OAUTH_CALLBACK_TIMEOUT_MS, which is ten times what the connection or    *)
(* the health check may take.                                              *)
WaitRunsOut(f) ==
  /\ flow[f].wait = "armed"
  /\ At(f, "waitingUp") \/ (At(f, "waiting") /\ flow[f].bootstrap = "redirected")
  /\ flow' = [flow EXCEPT ![f].wait = "timeout"]
  /\ UNCHANGED <<config, client, result, browser, files, map, beyond>>

(* browserUnavailable(), which races the callback.                         *)
NoBrowser(f) ==
  /\ flow[f].wait = "armed" /\ flow[f].redirected /\ ~flow[f].verdict
  /\ flow' = [flow EXCEPT ![f].wait = "noBrowser"]
  /\ UNCHANGED <<config, client, result, browser, files, map, beyond>>
-----------------------------------------------------------------------------
(* The race of the callback and the bootstrap, and what follows from it.   *)

(* The race is decided for the code: nobody looks at the loser any more.   *)
Decide(f, pc) == flow' = [flow EXCEPT ![f] = [@ EXCEPT !.pc = pc, !.bootstrap = "none",
                                                       !.wait = "none"]]

(* The end of runAttempt: what comes once the server is stopped.           *)
After(f, after) == [flow[f] EXCEPT !.pc = "stop", !.after = after, !.bootstrap = "none",
                                   !.wait = "none", !.code = None, !.held = None,
                                   !.redirected = FALSE, !.verdict = FALSE, !.skip = FALSE]
Leave(f, after) == flow' = [flow EXCEPT ![f] = After(f, after)]

(* A client that has begun no redirect may still do so, closed or not: what*)
(* the SDK's authorization asks for is not aborted.                        *)
LeaveBehind(f) ==
  late' = IF flow[f].redirected THEN late
          ELSE late \cup {[of |-> Attempt(f), port |-> flow[f].port, held |-> flow[f].held]}

(* Mutant of Discard: it takes out whatever the map holds.                 *)
DiscardWhateverIsThere(f) ==
  /\ registered' = None
  /\ client' = [client EXCEPT ![f] = "closed"]
  /\ UNCHANGED displaced

(* discardAttemptClient.                                                   *)
Discard(f) ==
  /\ registered' = IF registered = f THEN None ELSE registered
  /\ client' = [client EXCEPT ![f] = "closed"]
  /\ UNCHANGED displaced

GotCode(f) ==
  /\ Waiting(f) /\ flow[f].wait = "code"
  /\ Decide(f, IF At(f, "waiting") THEN "exchange" ELSE "exchangeUp")
  /\ UNCHANGED <<config, client, result, browser, files, map, beyond>>

(* Connected without a callback: the client is registered, and its health  *)
(* is checked while the wait stays armed.                                  *)
BootstrapConnected(f) ==
  /\ At(f, "waiting") /\ flow[f].bootstrap = "up"
  /\ Put(f)
  /\ flow' = [flow EXCEPT ![f] = [@ EXCEPT !.pc = "health", !.bootstrap = "none"]]
  /\ UNCHANGED <<config, client, result, browser, files, beyond>>

(* The health check is over, and a sign-in was begun in the meantime.      *)
SignInBegun(f) ==
  /\ At(f, "health") /\ flow[f].redirected /\ ~flow[f].verdict
  /\ Goto(f, "waitingUp")
  /\ UNCHANGED <<config, client, result, browser, files, map, beyond>>

SetupFailed(f) ==
  /\ At(f, "waiting") /\ flow[f].bootstrap = "failed" /\ ~flow[f].verdict
  /\ client' = [client EXCEPT ![f] = "closed"]
  /\ Leave(f, "other") /\ LeaveBehind(f)
  /\ UNCHANGED <<config, result, browser, files, map, exchanging>>

(* The provider's page said no; the client is not closed.                  *)
ProviderError(f) ==
  /\ Waiting(f) /\ flow[f].wait = "error"
  /\ Leave(f, "other")
  /\ IF At(f, "waitingUp") THEN Discard(f) ELSE UNCHANGED <<map, client>>
  /\ UNCHANGED <<config, result, browser, files, beyond>>

BrowserUnavailable(f) ==
  /\ Waiting(f) /\ flow[f].wait = "noBrowser"
  /\ Leave(f, "other") /\ Discard(f)
  /\ UNCHANGED <<config, result, browser, files, beyond>>

WaitEnded(f) ==
  /\ Waiting(f) /\ flow[f].wait = "timeout"
  /\ Leave(f, "pending")
  /\ IF At(f, "waitingUp") THEN Discard(f) ELSE UNCHANGED <<map, client>>
  /\ UNCHANGED <<config, result, browser, files, beyond>>

(* A classified rejection, before any other error: the registration is     *)
(* invalidated, so that the next port registers anew; static credentials   *)
(* end it.  A client that has connected stays in the map, closed.          *)
Rejected(f) ==
  /\ flow[f].verdict
  /\ At(f, "health") \/ (At(f, "waiting") /\ flow[f].bootstrap = "failed")
  /\ IF static THEN UNCHANGED files ELSE SetFiles([disk EXCEPT !.client = None, !.port = 0])
  /\ client' = [client EXCEPT ![f] = "closed"]
  /\ flow' = [flow EXCEPT ![f] =
                [After(f, IF static THEN "other" ELSE "choose") EXCEPT
                   !.failed = flow[f].failed \cup {flow[f].port},
                   !.first = IF flow[f].first = 0 THEN flow[f].port ELSE flow[f].first]]
  /\ UNCHANGED <<config, result, browser, map, beyond>>
-----------------------------------------------------------------------------
(* The token exchange, and the verification.                               *)

Exchanging(f) == flow[f].pc \in {"exchange", "exchangeUp"}

(* finishOAuth: the tokens are stored, the marker is removed, and a fresh  *)
(* client connects with them.  One that had connected before is in the map *)
(* already, unless another call has taken it out; it is not put back.      *)
Exchange(f) ==
  /\ Exchanging(f)
  /\ SetFiles([disk EXCEPT !.tokens = flow[f].held])
  /\ client' = [client EXCEPT ![f] = "up"]
  /\ IF At(f, "exchange") THEN Put(f) ELSE UNCHANGED map
  /\ Goto(f, "verify")
  /\ UNCHANGED <<config, result, browser, beyond>>

(* The exchange is refused, or the connection after it fails.              *)
ExchangeFails(f) ==
  /\ Exchanging(f)
  /\ UNCHANGED files \/ SetFiles([disk EXCEPT !.tokens = flow[f].held])
  /\ Leave(f, "pending")
  /\ IF At(f, "exchangeUp") THEN Discard(f) ELSE UNCHANGED <<map, client>>
  /\ UNCHANGED <<config, result, browser, beyond>>

(* FINISH_AUTH_TIMEOUT_MS; the exchange itself goes on.                    *)
ExchangeTimesOut(f) ==
  /\ Exchanging(f)
  /\ exchanging' = exchanging \cup {flow[f].held}
  /\ Leave(f, "other")
  /\ IF At(f, "exchangeUp") THEN Discard(f) ELSE UNCHANGED <<map, client>>
  /\ UNCHANGED <<config, result, browser, files, late>>

(* The health check passes or takes too long; otherwise the client is not  *)
(* kept.                                                                   *)
Verifying(f) == At(f, "verify") \/ (At(f, "health") /\ ~flow[f].redirected)

Verified(f) ==
  /\ Verifying(f)
  /\ Leave(f, "authenticated") /\ LeaveBehind(f)
  /\ UNCHANGED <<config, client, result, browser, files, map, exchanging>>

NotVerified(f) ==
  /\ Verifying(f)
  /\ Leave(f, "other") /\ LeaveBehind(f) /\ Discard(f)
  /\ UNCHANGED <<config, result, browser, files, exchanging>>
-----------------------------------------------------------------------------
(* Mutant of Stop: only an attempt that is over for good stops its server. *)
StopUnlessRetried(f) ==
  /\ At(f, "stop")
  /\ server' = IF flow[f].after = "choose" THEN server ELSE [server EXCEPT ![flow[f].port] = None]
  /\ CASE flow[f].after \in {"choose", "pending"} -> Goto(f, flow[f].after) /\ UNCHANGED result
       [] OTHER -> Return(f, flow[f].after)
  /\ displaced' = IF flow[f].after = "authenticated" THEN displaced ELSE displaced \ {f}
  /\ UNCHANGED <<config, client, pages, files, registered, beyond>>

(* finally: the waiter is cancelled and the server stopped.                *)
Stop(f) ==
  /\ At(f, "stop")
  /\ server' = [server EXCEPT ![flow[f].port] = None]
  /\ CASE flow[f].after \in {"choose", "pending"} -> Goto(f, flow[f].after) /\ UNCHANGED result
       [] OTHER -> Return(f, flow[f].after)
  /\ displaced' = IF flow[f].after = "authenticated" THEN displaced ELSE displaced \ {f}
  /\ UNCHANGED <<config, client, pages, files, registered, beyond>>

(* No callback came: the client is registered as it is, and the call       *)
(* reports that a sign-in is required.                                     *)
Pending(f) ==
  /\ At(f, "pending")
  /\ Put(f)
  /\ Return(f, "other")
  /\ UNCHANGED <<config, client, browser, files, beyond>>
-----------------------------------------------------------------------------
(* What ended attempts have left behind.                                   *)

LateExchange(id) ==
  /\ id \in exchanging
  /\ UNCHANGED files \/ SetFiles([disk EXCEPT !.tokens = id])
  /\ exchanging' = exchanging \ {id}
  /\ UNCHANGED <<config, run, browser, map, late>>

(* Register and Redirect of an attempt that has ended.                     *)
LateRegister(l) ==
  /\ l \in late /\ l.held = None
  /\ SetFiles([disk EXCEPT !.client = l.of, !.port = l.port])
  /\ late' = (late \ {l}) \cup {[l EXCEPT !.held = l.of]}
  /\ UNCHANGED <<config, run, browser, map, exchanging>>

LateRedirect(l) ==
  /\ l \in late /\ l.held # None
  /\ pages' = pages \cup {[of |-> l.of, port |-> l.port]}
  /\ late' = late \ {l}
  /\ UNCHANGED <<config, run, server, files, map, exchanging>>

(* It asks for nothing any more.                                           *)
LateEnds(l) ==
  /\ l \in late
  /\ late' = late \ {l}
  /\ UNCHANGED <<config, run, browser, files, map, exchanging>>
-----------------------------------------------------------------------------
Init ==
  /\ static \in BOOLEAN
  /\ taken \in {{}, {CHOOSE p \in Port : TRUE}}
  /\ flow = [f \in Flow |-> Fresh]
  /\ client = [f \in Flow |-> "none"] /\ result = [f \in Flow |-> "none"]
  /\ server = [p \in Port |-> None] /\ pages = {}
  /\ \E id \in {None, IF static THEN Static ELSE Old}, kept \in BOOLEAN :
       disk = [tokens |-> IF kept THEN id ELSE None, client |-> IF static THEN None ELSE id,
               port |-> IF static \/ id = None THEN 0 ELSE CHOOSE p \in Port : TRUE]
  /\ registered \in {None, "ambient"}
  /\ exchanging = {} /\ late = {} /\ disturbed = FALSE /\ displaced = {}

Preparing(f) ==
  \/ Evict(f) \/ Evicted(f) \/ Wipe(f) \/ AlreadySignedIn(f) \/ NotSignedIn(f) \/ ReadSavedPort(f)
  \/ ChoosePort(f) \/ NoPort(f) \/ Floor(f)
  \/ Prepare(f) \/ Listen(f) \/ CannotListen(f) \/ Start(f)

Bootstrap(f) == Register(f) \/ ProbeRejects(f) \/ Redirect(f) \/ BootstrapEnds(f)

Settling(f) ==
  \/ GotCode(f) \/ BootstrapConnected(f) \/ SignInBegun(f) \/ SetupFailed(f) \/ ProviderError(f)
  \/ BrowserUnavailable(f) \/ WaitEnded(f) \/ Rejected(f)
  \/ Exchange(f) \/ ExchangeFails(f) \/ ExchangeTimesOut(f) \/ Verified(f) \/ NotVerified(f)
  \/ Stop(f) \/ Pending(f)

Next ==
  \/ \E f \in Flow : \/ Begin(f) \/ Preparing(f) \/ Bootstrap(f) \/ Settling(f)
                     \/ WaitRunsOut(f) \/ NoBrowser(f)
  \/ \E page \in pages, how \in {"code", "error"} : Callback(page, how)
  \/ \E id \in exchanging : LateExchange(id)
  \/ \E l \in late : LateRegister(l) \/ LateRedirect(l) \/ LateEnds(l)

Spec == Init /\ [][Next]_vars

(* The event loop goes on with a call; the connection is bounded by        *)
(* CONNECT_TIMEOUT_MS, the health check by HEALTH_CHECK_TIMEOUT_MS, the    *)
(* exchange by FINISH_AUTH_TIMEOUT_MS and the wait for the callback by     *)
(* OAUTH_CALLBACK_TIMEOUT_MS.                                              *)
Proceeds(f) == Preparing(f) \/ BootstrapEnds(f) \/ WaitRunsOut(f) \/ Settling(f)

FairSpec == Spec /\ \A f \in Flow : WF_vars(Proceeds(f))
-----------------------------------------------------------------------------
AttemptId == Flow \X (0..MaxAttempts + 1)

ClientId == AttemptId \cup {None, Old, Static}

(* Every variable has its type; a call waits for a callback only while its *)
(* server listens.                                                         *)
TypeOK ==
  /\ static \in BOOLEAN /\ taken \subseteq Port /\ disturbed \in BOOLEAN
  /\ \A f \in Flow :
       /\ flow[f].attempt \in 0..MaxAttempts + 1 /\ flow[f].port \in Port \cup {0}
       /\ flow[f].failed \subseteq Port /\ flow[f].held \in ClientId
       /\ flow[f].saved \in Port \cup {0} /\ flow[f].first \in Port \cup {0}
       /\ flow[f].bootstrap \in {"none", "running", "up", "redirected", "failed"}
       /\ flow[f].wait \in {"none", "armed", "code", "error", "timeout", "noBrowser"}
       /\ flow[f].wait = "armed" => server[flow[f].port] = [by |-> Attempt(f), armed |-> TRUE]
       /\ client[f] \in {"none", "open", "up", "closed"}
       /\ result[f] \in {"none", "authenticated", "other"}
  /\ \A p \in Port : server[p] = None \/ server[p] \in [by : AttemptId, armed : BOOLEAN]
  /\ pages \subseteq [of : AttemptId, port : Port]
  /\ disk \in [tokens : ClientId, client : ClientId, port : Port \cup {0}]
  /\ registered \in {None, "ambient"} \cup Flow /\ displaced \subseteq Flow
  /\ exchanging \subseteq ClientId
  /\ late \subseteq [of : AttemptId, port : Port, held : ClientId]

(* A code is exchanged only by the attempt whose page it came from,        *)
(* although a page of an attempt that was given up may still send the      *)
(* browser to a port a later one listens on (checkCallbackState).          *)
CodeIsOwn == \A f \in Flow : flow[f].code \in {None, Attempt(f)}

(* A call that has returned, or that goes on to another port, listens on   *)
(* none (the finally of runAttempt).                                       *)
PortsAreReleased ==
  \A p \in Port : server[p] # None => LET a == server[p].by
                              IN flow[a[1]].attempt = a[2] /\ Active(a[1])
                                 /\ ~At(a[1], "choose") /\ ~At(a[1], "pending")

(* The tokens on disk belong to the client on disk, without which they     *)
(* cannot be refreshed.                                                    *)
TokensMatchClient == static \/ disk.tokens \in {None, disk.client}

(* They do as long as no sign-in begins while another is under way or an   *)
(* ended one may still store tokens or register a client, and every change *)
(* of the two files succeeds: through stale registrations, ports the probe *)
(* rejects, registrations after the time limit and repeated attempts.      *)
LoneSignInsMatch == disturbed \/ TokensMatchClient

(* A call that says "authenticated" has its own connected client in the    *)
(* registry's map until a call that is forced, starts an attempt, finds the*)
(* client unusable or puts in its own takes it out: an attempt that ends,  *)
(* in whichever way, never removes or closes the client of another call    *)
(* (discardAttemptClient's identity check), nor does what it leaves behind.*)
SignedInIsConnected ==
  \A f \in Flow : result[f] = "authenticated"
                    => f \in displaced \/ (registered = f /\ client[f] = "up")

(* Every call ends, whatever the provider, the server and the person do.   *)
SignInEnds == <>[](\A f \in Flow : ~Active(f))
=============================================================================
