--------------------------- MODULE MCGcRootBuffer ---------------------------
(* A small instance of GcRootBuffer. *)
EXTENDS GcRootBuffer, TLC

RefSymmetry == Permutations(Ref)
=============================================================================
