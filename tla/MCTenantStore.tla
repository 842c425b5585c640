--------------------------- MODULE MCTenantStore ---------------------------
(***************************************************************************)
(* Instances of TenantStore for TLC.                                       *)
(***************************************************************************)
EXTENDS TenantStore, TLC

CONSTANTS s1, s2, h1, h2

MCSymmetry == Permutations(Sessions)
=============================================================================
