------------------------------ MODULE MCServer ------------------------------
(***************************************************************************)
(* The parts of Server, each on a small instance.  A behaviour is one of   *)
(* one part, chosen at its start; the others stay as they begin.           *)
(*                                                                         *)
(* Liveness of the router and of exports is asked of one session and one   *)
(* export, the parts "exit" and "solo"; safety of two of each.  Of two     *)
(* exports, which differ in nothing, the one that begins first is e1.      *)
(***************************************************************************)
EXTENDS Server, TLC

CONSTANTS c1, c2, h1, h2, n1, n2, p1, p2, e1, e2, s1, nobody

(* The five slots of the HTTP client are one here, fewer than the calls.   *)
Slots == "stdio" :> 1 @@ "http" :> 1 @@ "home" :> 2

Keys == << <<"p", "t">>, <<"p", "u">>, <<"q", "t">> >>

VARIABLE part

BusyRouter == INSTANCE Router WITH Session <- {n1}, now <- clock, late <- dogLate

IdleRouter == INSTANCE Router WITH Post <- {}, now <- clock, late <- dogLate

TwoExports ==
  INSTANCE BulkExport WITH MaxPages <- 1, MaxRetries <- 0, aborted <- expAborted

SoloExport == INSTANCE BulkExport WITH Export <- {e1}, aborted <- expAborted

all == <<part, parts>>

-----------------------------------------------------------------------------
PartInit ==
  /\ part \in {"upstream", "router", "exit", "use tool", "results", "exports", "solo", "notes"}
  /\ ServerInit
  /\ part # "upstream" => kind = "http"
  /\ part \notin {"router", "exit"} => transport = "http"
  /\ part # "notes" => readable = "malformed"

PartNext ==
  /\ UNCHANGED part
  /\ \/ part = "upstream" /\ UpstreamStep
     \/ /\ \/ part = "router" /\ BusyRouter!Next
           \/ part = "exit" /\ IdleRouter!Next
        /\ UNCHANGED <<vars, useTool, results, exports, notes>>
     \/ part = "use tool" /\ UseToolStep
     \/ part = "results" /\ ResultStep
     \/ /\ \/ /\ part = "exports" /\ TwoExports!Next
              /\ (exp[e1].st = "idle" => exp[e2].st = "idle")'
           \/ part = "solo" /\ SoloExport!Next
        /\ UNCHANGED <<clock, vars, router, useTool, results, notes>>
     \/ part = "notes" /\ NotesStep

PartSpec ==
  /\ PartInit /\ [][PartNext]_all
  /\ Fairness
  /\ WF_router(part = "exit" /\ IdleRouter!Teardown)
  /\ WF_router(part = "exit" /\ IdleRouter!Watchdog)
  /\ WF_exports(part = "solo" /\ SoloExport!Step(e1))
  /\ WF_exports(part = "solo" /\ SoloExport!Abort(e1))

-----------------------------------------------------------------------------
(* Calls, shutdowns, a router without its owner, and exports come to an    *)
(* end.                                                                    *)
PartsEnd ==
  /\ CallsSettle
  /\ part = "exit" => IdleRouter!RouterExits
  /\ part = "solo" => SoloExport!ExportsEnd
=============================================================================
