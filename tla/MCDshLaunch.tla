---------------------------- MODULE MCDshLaunch ----------------------------
(* Two requests, one release below the floor and one above it.             *)
EXTENDS DshLaunch, TLC

Below == <<0, 1, 9>>
Above == <<0, 2, 0>>
Versions == {Below, Above}
Symmetric == Permutations(Requests)

\* VersionLess is the order of the numbers the components are digits of.
Digits == (0..2) \X (0..2) \X (0..2)
Weight(v) == 9 * v[1] + 3 * v[2] + v[3]
ASSUME VersionOrder ==
  \A a, b \in Digits : VersionLess(a, b) <=> Weight(a) < Weight(b)

=============================================================================
