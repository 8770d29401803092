------------------------- MODULE MCInstanceManager -------------------------
(***************************************************************************)
(* Instances of InstanceManager for TLC.                                   *)
(***************************************************************************)
EXTENDS InstanceManager, TLC

CONSTANTS c1, c2, p1, p2, w1, w2

(* Ids of one kind, and handlers, are interchangeable.                     *)
Symmetry == Permutations(Callers) \cup Permutations(WebIds)
              \cup Permutations(Ids \ WebIds)

(* What the future depends on.  Versions are only ever compared with the   *)
(* present one, a copy loaded before the last commit can only conflict,    *)
(* and the arguments of a call are dead once it has returned.              *)
Stale(v) == v # file.version
View ==
  << file.rec, file.tabs, pc, used, stateMu, gaveUp, tries, memVars, procVars,
     [g \in Goroutines |-> CASE snap[g] = NoSnap            -> "none"
                             [] snap[g] = file              -> "fresh"
                             [] Stale(snap[g].version)      -> "stale"
                             [] OTHER                       -> snap[g]],
     [g \in Goroutines |-> [job[g] EXCEPT !.expect = Stale(@)]],
     [c \in Callers |-> IF pc[c] = "idle" THEN NoId ELSE arg[c]],
     [c \in Callers |-> IF pc[c] \in InStop \cup {"idle", "delbuf", "delete", "rename", "reorder"}
                        THEN NoId ELSE old[c]] >>
=============================================================================
