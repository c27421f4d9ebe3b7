--------------------------- MODULE MCRecordScreens ---------------------------
(***************************************************************************)
(* Small instances of RecordScreens.                                       *)
(***************************************************************************)
EXTENDS RecordScreens, TLC

CONSTANTS a, b1, b2, w1, w2

Stored == (a :> "OPEN") @@ (b1 :> "ACTIVE") @@ (b2 :> "ACTIVE") @@ (w1 :> "active")
       @@ (w2 :> "active")
Without(rec) == [Stored EXCEPT ![rec] = "absent"]
World(stored, first, lists, uses, shared, n) ==
    [status |-> stored, first |-> first, lists |-> lists, uses |-> uses, shared |-> shared,
     events |-> n]

\* Two buses or one warehouse clicked at will, also while others write; a page left and
\* opened again; new records; one alert with both of its buttons, two filters, the badge.
MCPlans == {
    World(Stored, "buses", {"buses"}, {b1, b2}, {}, 3),
    World(Stored, "buses", {"buses"}, {b1}, {b1}, 3),
    World(Stored, "warehouses", {"warehouses"}, {w1, w2}, {w1}, 3),
    World(Stored, "buses", {"buses", "warehouses"}, {b1}, {}, 4),
    World(Without(b2), "buses", {"buses", "warehouses"}, {b2}, {}, 3),
    World(Without(w2), "warehouses", {"warehouses"}, {w2}, {w2}, 3),
    World(Stored, "all", {"all", "badge"}, {a}, {a}, 2),
    World(Stored, "OPEN", {"OPEN", "all"}, {a}, {a}, 3)}
=============================================================================
