--------------------------- MODULE MCTokenRefresh ---------------------------
(***************************************************************************)
(* TokenRefresh for two processes, the first with two requests under way   *)
(* and the second with one.  A behaviour is one of two scenarios:          *)
(*   "signins"  sign-ins and answers without a new refresh token;          *)
(*   "writes"   token writes fail and 200 answers cannot be used.          *)
(***************************************************************************)
EXTENDS TokenRefresh, TLC

CONSTANTS p1, p2, f1, f2, f3, nobody

VARIABLE scenario

MCOwner == [f \in Flow |-> IF f = f3 THEN p2 ELSE p1]

SignIns == INSTANCE TokenRefresh WITH Events <- {"keep", "signin"}
Writes  == INSTANCE TokenRefresh WITH Events <- {"body", "persist"}

MCInit == Init /\ scenario \in {"signins", "writes"}

MCNext ==
  /\ UNCHANGED scenario
  /\ \/ scenario = "signins" /\ SignIns!Next
     \/ scenario = "writes" /\ Writes!Next

MCSpec == MCInit /\ [][MCNext]_<<vars, scenario>>

(* The two requests of the first process are interchangeable.              *)
Symmetry == Permutations({f1, f2})
=============================================================================
