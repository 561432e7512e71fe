--------------------------- MODULE MCCatalogSync ---------------------------
(***************************************************************************)
(* CatalogSync on small instances: two processes, two requests, one direct *)
(* call.                                                                   *)
(***************************************************************************)
EXTENDS CatalogSync, TLC

CONSTANTS p1, p2, w1, w2, d1, x1

MCProcesses == {p1, p2}
MCRequests == {w1, w2}
MCSymmetry == Permutations(MCProcesses) \cup Permutations(MCRequests)
=============================================================================
