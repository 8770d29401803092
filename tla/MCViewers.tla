------------------------------ MODULE MCViewers ------------------------------
(***************************************************************************)
(* The instance of Viewers that TLC checks.  Neither of the two sizes fits *)
(* in the other: their minimum is a size nobody proposed.                  *)
(***************************************************************************)
EXTENDS Viewers

SomeSizes == {<<1, 2>>, <<2, 1>>}
=============================================================================
