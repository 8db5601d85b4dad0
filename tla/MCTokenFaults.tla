---------------------------- MODULE MCTokenFaults ---------------------------
(***************************************************************************)
(* TokenRefresh where things go wrong.  A behaviour is one of two          *)
(* scenarios:                                                              *)
(*   "echoes"  two requests of one process; access tokens end and the      *)
(*             grant is withdrawn at any moment;                           *)
(*   "lives"   one request in each of two processes; kills, sleeps, lost   *)
(*             answers, a drain out of time.                               *)
(***************************************************************************)
EXTENDS TokenRefresh

CONSTANTS p1, p2, f1, f2, f3, nobody

VARIABLE scenario

MCOwner == [f \in Flow |-> IF f = f3 THEN p2 ELSE p1]

Echoes == INSTANCE TokenRefresh WITH Events <- {"keep", "revoke"}
Lives  == INSTANCE TokenRefresh WITH
            Events <- {"crash", "suspend", "lost", "slow"}, QuietExpiry <- TRUE, MaxIssued <- 2

FaultsInit == Init /\ scenario \in {"echoes", "lives"}

FaultsNext ==
  /\ UNCHANGED scenario
  /\ \/ scenario = "echoes" /\ Echoes!Next /\ flow'[f3] = Idle /\ proc'[p2] = "up"
     \/ scenario = "lives" /\ Lives!Next /\ flow'[f2] = Idle

FaultsSpec ==
  /\ FaultsInit /\ [][FaultsNext]_<<vars, scenario>>
  /\ \A f \in Flow : WF_vars(\/ scenario = "echoes" /\ Echoes!Proceed(f)
                             \/ scenario = "lives" /\ Lives!Proceed(f))

(* Two requests of two processes, without faults, for TokenLateSave.cfg.   *)
LateSaveSpec ==
  /\ Init /\ scenario = "late save"
  /\ [][Next /\ UNCHANGED scenario]_<<vars, scenario>>
  /\ Fairness

-----------------------------------------------------------------------------
(* Every refresh of src/auth comes to an end, and a refused token leaves   *)
(* the disk.  The requests of a scenario are interchangeable.              *)
FlowEnds ==
  /\ scenario = "lives" => RefreshEnds(f1)
  /\ scenario = "echoes" => \A t \in 1..MaxIssued : DeadTokenIsDropped(f1, t)
=============================================================================
