------------------------- MODULE MCRegistryLifecycle -------------------------
(* RegistryLifecycle on small instances.                                   *)
EXTENDS RegistryLifecycle, TLC

CONSTANTS c1, c2, c3, k1, k2, g1, e1, r1, nobody, noclient, drainer

Symmetry ==
  Permutations({c1, c2, c3}) \cup Permutations({k1, k2})
=============================================================================
