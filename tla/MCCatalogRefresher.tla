------------------------- MODULE MCCatalogRefresher -------------------------
(* Values for the runs of CatalogRefresher.                                *)
EXTENDS CatalogRefresher, TLC

CONSTANTS p1, p2, i1, i2, c1, c2, w1, s1, s2

SymmetryRest == Permutations({i1, i2}) \cup Permutations({s1, s2})
=============================================================================
