--------------------------- MODULE MCInventoryApi ---------------------------
(***************************************************************************)
(* Small instances of InventoryApi.                                        *)
(***************************************************************************)
EXTENDS InventoryApi, TLC

CONSTANTS r1, r2, r3, i1, i2, i3, i4, w1, w2

\* i1 is only issued; on i2 every endpoint but rollback is used, on i3 every one
\* but creation and deletion; i4 is created, issued and perhaps deleted.
MCWarehouseOf == (i1 :> w1) @@ (i2 :> w1) @@ (i3 :> w2) @@ (i4 :> w2)
MCReserved == (i1 :> 1) @@ (i2 :> 1) @@ (i3 :> 0) @@ (i4 :> 0)
MCUses == (i1 :> {"issue"})
       @@ (i2 :> {"issue", "restock", "transfer", "delete"})
       @@ (i3 :> {"issue", "restock", "transfer", "rollback"})
       @@ (i4 :> {"create", "issue", "delete"})

\* One item with every stock movement.
MCWarehouseOf1 == (i1 :> w1)
MCReserved1 == (i1 :> 1)
MCUses1 == (i1 :> {"issue", "restock", "rollback"})

Symmetry == Permutations(Requests)
=============================================================================
