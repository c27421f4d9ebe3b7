--------------------------- MODULE MCEventPipeline ---------------------------
(***************************************************************************)
(* Small instances of EventPipeline.                                       *)
(***************************************************************************)
EXTENDS EventPipeline, TLC

CONSTANTS m1, m2, w1, w2, i1

MCLow == [i \in Items |-> 3]
MCCritical == [i \in Items |-> 1]
Symmetry == Permutations(Workers) \cup Permutations(Messages)
=============================================================================
