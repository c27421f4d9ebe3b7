--------------------------- MODULE MCStockScreens ---------------------------
(***************************************************************************)
(* Small instances of StockScreens.                                        *)
(***************************************************************************)
EXTENDS StockScreens, TLC

CONSTANTS i1, i2, i3, all, found, depot

\* Two lists of the inventory page, one of a warehouse.
MCPageOf == (all :> "inventory") @@ (found :> "inventory") @@ (depot :> "warehouse")
MCWarehouseOf == (i1 :> "w1") @@ (i2 :> "w2") @@ (i3 :> "w1")
MCUses == (i1 :> {"issue", "restock", "transfer", "assign", "writeoff"})
       @@ (i2 :> {"delete"}) @@ (i3 :> {"add"})
=============================================================================
