------------------------- MODULE MCInventoryService -------------------------
(***************************************************************************)
(* Small instances of InventoryService.                                    *)
(***************************************************************************)
EXTENDS InventoryService, TLC

CONSTANTS s1, s2, s3, i1, i2

MCRank == (i1 :> 1) @@ (i2 :> 2)
MCRank1 == (i1 :> 1)
MCReserved == (i1 :> 1) @@ (i2 :> 0)
MCReserved1 == (i1 :> 0)
Symmetry == Permutations(Sessions)
=============================================================================
