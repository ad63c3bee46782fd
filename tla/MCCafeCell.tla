----------------------------- MODULE MCCafeCell -----------------------------
(***************************************************************************)
(* An instance of CafeCell for TLC.  Cells are alike, and so are cafes.    *)
(***************************************************************************)
EXTENDS CafeCell, TLC

Alike == Permutations(Cells) \cup Permutations(Cafes)
=============================================================================
