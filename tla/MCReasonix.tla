----------------------------- MODULE MCReasonix -----------------------------
(* Instance ids and the goroutines of HTTP handlers are interchangeable.   *)
EXTENDS Reasonix, TLC

Symmetry == Permutations(Ids) \cup Permutations(Callers)
=============================================================================
