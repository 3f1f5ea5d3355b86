-------------------------- MODULE MCDelayedUpdates --------------------------
(***************************************************************************)
(* Small instances of DelayedUpdates.                                      *)
(***************************************************************************)
EXTENDS DelayedUpdates, TLC

Symmetry == Permutations(Dirs)
=============================================================================
