------------------------------ MODULE MCSignIn ------------------------------
(***************************************************************************)
(* SignIn on a small instance.  A behaviour is one of two scenarios:       *)
(*   "alone"    one call, with two attempts and the floor, while changes   *)
(*              of the files may fail and another program may hold a port; *)
(*   "overlap"  two calls, one after the other or at the same time, each   *)
(*              with one attempt and the floor.                            *)
(***************************************************************************)
EXTENDS SignIn

CONSTANTS f1, f2

VARIABLE scenario

Alone == INSTANCE SignIn WITH FilesFail <- TRUE, MaxAttempts <- 2

SmallInit == Init /\ (scenario = "alone" \/ (scenario = "overlap" /\ taken = {}))

(* The calls are interchangeable: f1 is the first to begin.                *)
SmallNext ==
  /\ UNCHANGED scenario
  /\ \/ scenario = "alone" /\ Alone!Next /\ flow'[f2].pc = "new"
     \/ scenario = "overlap" /\ Next
  /\ At(f1, "new") => flow'[f2].pc = "new"

SmallSpec ==
  /\ SmallInit /\ [][SmallNext]_<<vars, scenario>>
  /\ \A f \in Flow : WF_vars(\/ scenario = "alone" /\ Alone!Proceeds(f)
                             \/ scenario = "overlap" /\ Proceeds(f))
=============================================================================
