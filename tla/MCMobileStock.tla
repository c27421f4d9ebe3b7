---------------------------- MODULE MCMobileStock ----------------------------
(***************************************************************************)
(* Small instances of MobileStock.                                         *)
(***************************************************************************)
EXTENDS MobileStock, TLC

CONSTANTS i1, i2

\* Everything, and what docs/inventory/supabase-setup.md asks for.
MCPublications == {Kinds, {"update"}}
Symmetry == Permutations(Items)
=============================================================================
