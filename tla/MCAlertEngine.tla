--------------------------- MODULE MCAlertEngine ---------------------------
(***************************************************************************)
(* Small instances of AlertEngine.                                         *)
(***************************************************************************)
EXTENDS AlertEngine, TLC

CONSTANTS h1, h2, h3, p1, p2, i1, i2

MCLow == [i \in Items |-> 3]
MCCritical == [i \in Items |-> 1]
Symmetry == Permutations(Handlers) \cup Permutations(Processes)
Handlers1 == Permutations(Handlers)
=============================================================================
