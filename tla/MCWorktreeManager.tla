------------------------- MODULE MCWorktreeManager -------------------------
(***************************************************************************)
(* WorktreeManager for TLC: handlers are interchangeable.                  *)
(***************************************************************************)
EXTENDS WorktreeManager, TLC

Symmetry == Permutations(Ops)
=============================================================================
