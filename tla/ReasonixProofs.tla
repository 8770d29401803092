--------------------------- MODULE ReasonixProofs ---------------------------
(***************************************************************************)
(* Any number of reasonix instances, of requests at once and of daemons    *)
(* one after the other: no serve process and no state directory is left    *)
(* with nobody to remove it, an active record has a process that Stop can  *)
(* find, an orderly shutdown leaves nothing running, and a stale address   *)
(* comes from a request only, but for the windows the properties name.     *)
(***************************************************************************)
EXTENDS Reasonix, TLAPS

Doers     == Callers \cup {Main}
Launching == {"spawn", "ready", "register"}

Launch(i, P) == \E c \in Callers : call[c].new = i /\ call[c].pc \in P
Spawning(i)  == Launch(i, {"spawn"})
Coming(i)    == Launch(i, Launching)

(* Nothing runs any more that a teardown did not give up, and then nothing *)
(* is on disk either.                                                      *)
Torn(i)      == i \in early \/ (~Alive(i) /\ ~Spawning(i))
Gone(i)      == i \in early \/ (~Alive(i) /\ ~Spawning(i) /\ dir[i] = {})
Deleting(i)  == \E c \in Callers : call[c].op = "delete" /\ call[c].id = i

(* The parts of the type invariant.                                        *)
DaemonTypes ==
  /\ daemon \in {"off", "boot", "up", "closing"} /\ boots \in 0 .. MaxBoots
  /\ stateMu \in Callers \cup {Main} /\ moved \in BOOLEAN

MapTypes ==
  /\ rec \in [Ids -> Active \cup {"none", "stopped", "failed"}]
  /\ life \in [Ids -> {"none", "ready", "poll"}]
  /\ proc \in [Ids -> {"none", "exec", "up", "dead"}]
  /\ dir \in [Ids -> SUBSET Files]

SetTypes ==
  /\ used \subseteq Ids /\ running \subseteq used /\ todo \subseteq used
  /\ stale \subseteq used /\ cache \subseteq used /\ reader \subseteq used

CallTypes == call \in [Doers -> Calls]

TokenFirst == \A i \in Ids : dir[i] # {} => "token" \in dir[i]

(* What a call carries at each point of its way.                           *)
CallOK(c) ==
  /\ call[c].pc = "idle" <=> call[c].op = "none"
  /\ call[c].op = "none" => call[c] = NoCall
  /\ call[c].op # "none" => Acts(c)
  /\ call[c].op = "start" => call[c].pc \in Launching
  /\ call[c].op = "restart" => call[c].pc \in Launching \cup Teardown \cup {"link"}
  /\ call[c].op = "stop" => call[c].pc \in Teardown \cup {"cancel", "unrun"}
  /\ call[c].op = "delete" => call[c].pc \in Teardown
  /\ call[c].op \in {"restart", "stop", "delete"} => call[c].id \in used
  /\ call[c].op \in {"start", "restart"} => call[c].new \in used
  /\ call[c].op \in {"stop", "delete"} => call[c].new = NoId
  /\ c = Main => call[c].op \in {"none", "stop"}

CallsOK == \A c \in Doers : CallOK(c)

(* No two calls start the same id.                                         *)
OneStart == \A c, d \in Callers : call[c].new # NoId /\ call[c].new = call[d].new => c = d

(* How far the teardown of the instance is when its call is at a point.    *)
StageAt(c, i) ==
  /\ call[c].pc = "grace" => ~Spawning(i)
  /\ call[c].pc = "clean" => Torn(i)
  /\ call[c].pc \in {"cancel", "unrun", "link"} => Gone(i)
  /\ call[c].pc = "unrun" => life[i] = "none" /\ rec[i] \notin Active
  /\ call[c].op = "stop" => ~Coming(i)

StagesOK == \A c \in Doers, i \in Ids : call[c].id = i => StageAt(c, i)

(* An id that was not handed out has left nothing; one on its way up has   *)
(* no process before it is spawned and is not registered before its end.   *)
BornOK(i) ==
  /\ i \notin used => rec[i] = "none" /\ proc[i] = "none" /\ dir[i] = {}
  /\ Spawning(i) => proc[i] = "none" /\ dir[i] = {}
  /\ Coming(i) => i \notin running
  /\ life[i] # "none" => i \in running

(* A record that is gone leaves nothing, or a deletion is at it, or the    *)
(* end of a daemon cut one short.                                          *)
ErasedOK(i) == rec[i] = "none" /\ i \in used => Gone(i) \/ Deleting(i) \/ i \in cut

(* Who answers for an active record while the daemon serves, and before    *)
(* the reconciliation has saved.                                           *)
ActiveOK(i) ==
  /\ Serving /\ rec[i] \in Active => i \in running \/ Coming(i) \/ i \in lost
  /\ daemon = "boot" /\ rec[i] \in Active => i \in todo \/ i \in stale \/ i \in running

(* A shutdown still has to stop what it saw running, or it is torn down.   *)
ClosingOK(i) ==
  daemon = "closing" /\ i \notin late => i \in used /\ (Torn(i) \/ (i \in running /\ i \in todo))

BornsOK == \A i \in Ids : BornOK(i)
KeptsOK == \A i \in Ids : ErasedOK(i) /\ ActiveOK(i) /\ ClosingOK(i)

(* The inductive invariant.                                                *)
Inv == ReasonixTypeOK /\ CallsOK /\ OneStart /\ StagesOK /\ BornsOK /\ KeptsOK

----------------------------------------------------------------------------

(* The type invariant is the conjunction of its parts.                     *)
LEMMA TypeParts ==
  ReasonixTypeOK <=> DaemonTypes /\ MapTypes /\ SetTypes /\ CallTypes /\ TokenFirst
BY DEF ReasonixTypeOK, DaemonTypes, MapTypes, SetTypes, CallTypes, TokenFirst, Doers

(* Where a call is tells what it is and which ids it carries.              *)
LEMMA CallFacts ==
  ASSUME CallTypes, CallsOK, SetTypes, NEW c \in Doers
  PROVE  /\ call[c] \in Calls
         /\ call[c] # NoCall => Acts(c)
         /\ call[c].pc \in Launching =>
              /\ call[c].op \in {"start", "restart"} /\ c \in Callers
              /\ call[c].new \in used /\ call[c].new \in Ids
         /\ call[c].pc \in Teardown \cup {"cancel", "unrun", "link"} =>
              /\ call[c].op \in {"restart", "stop", "delete"}
              /\ call[c].id \in used /\ call[c].id \in Ids
<1>1. call[c] \in Calls /\ CallOK(c)
  BY DEF CallTypes, CallsOK
<1>2. call[c].op \in {"none", "start", "restart", "stop", "delete"}
  BY <1>1 DEF Calls
<1>3. call[c].op = "none" <=> call[c] = NoCall
  BY <1>1 DEF CallOK, NoCall
<1> QED BY <1>1, <1>2, <1>3 DEF CallOK, Launching, Teardown, Doers, SetTypes, NoCall

(* The daemon's own variables.                                             *)
LEMMA DaemonStep ==
  ASSUME DaemonTypes, [Next]_vars
  PROVE  DaemonTypes'
<1>0. MaxBoots \in Nat
  BY BootsAssumption
<1> USE DEF DaemonTypes, storeVars, memVars, driveVars, bootVars, obsVars, Doers
<1>1. ASSUME NEW j \in Ids, AddrRead(j) PROVE DaemonTypes'
  BY <1>1 DEF AddrRead
<1>2. ASSUME NEW j \in Ids, AddrStore(j) PROVE DaemonTypes'
  BY <1>2 DEF AddrStore
<1>3. ASSUME NEW j \in Ids, LifeUp(j) PROVE DaemonTypes'
  BY <1>3 DEF LifeUp, SetRec
<1>4. ASSUME NEW j \in Ids, ServeListens(j) PROVE DaemonTypes'
  BY <1>4 DEF ServeListens, Leaves
<1>5. ASSUME NEW j \in Ids, ServeWritesPid(j) PROVE DaemonTypes'
  BY <1>5 DEF ServeWritesPid, Leaves
<1>6. ASSUME NEW j \in Ids, ServeDies(j) PROVE DaemonTypes'
  BY <1>6 DEF ServeDies
<1>7. ASSUME NEW j \in Ids, Reattach(j) PROVE DaemonTypes'
  BY <1>7 DEF Reattach
<1>8. ASSUME NEW j \in Ids, FoundDead(j) PROVE DaemonTypes'
  BY <1>8 DEF FoundDead
<1>9. ASSUME NEW j \in Ids, NothingToStop(j) PROVE DaemonTypes'
  BY <1>9 DEF NothingToStop
<1>10. ASSUME NEW c \in Callers, NEW j \in Ids, DeleteCall(c, j) PROVE DaemonTypes'
  BY <1>10 DEF DeleteCall
<1>11. ASSUME NEW c \in Callers, NEW j \in Ids, NEW from \in Ids \cup {NoId}, StartCall(c, j, from)
      PROVE  DaemonTypes'
  BY <1>11 DEF StartCall
<1>12. ASSUME NEW c \in Doers, SpawnRefused(c) PROVE DaemonTypes'
  BY <1>12 DEF SpawnRefused, SetRec, Return
<1>13. ASSUME NEW c \in Doers, Spawn(c) PROVE DaemonTypes'
  BY <1>13 DEF Spawn, At
<1>14. ASSUME NEW c \in Doers, SpawnReady(c) PROVE DaemonTypes'
  BY <1>14 DEF SpawnReady, At
<1>15. ASSUME NEW c \in Doers, SpawnFails(c) PROVE DaemonTypes'
  BY <1>15 DEF SpawnFails, SetRec, Return, GivesUp
<1>16. ASSUME NEW c \in Doers, Register(c) PROVE DaemonTypes'
  BY <1>16 DEF Register, At, Return
<1>17. ASSUME NEW c \in Doers, Kill(c) PROVE DaemonTypes'
  BY <1>17 DEF Kill, At, DropCache
<1>18. ASSUME NEW c \in Doers, Grace(c) PROVE DaemonTypes'
  BY <1>18 DEF Grace, At
<1>19. ASSUME NEW c \in Doers, Clean(c) PROVE DaemonTypes'
  BY <1>19 DEF Clean, At, Return, DropCache
<1>20. ASSUME NEW c \in Doers, Cancel(c) PROVE DaemonTypes'
  BY <1>20 DEF Cancel, At, SetRec
<1>21. ASSUME NEW c \in Doers, Unrun(c) PROVE DaemonTypes'
  BY <1>21 DEF Unrun, Return
<1>22. ASSUME NEW c \in Doers, Link(c) PROVE DaemonTypes'
  BY <1>22 DEF Link, Return
<1>23. ASSUME NEW c \in Doers, NEW j \in Ids, StopCall(c, j) PROVE DaemonTypes'
  BY <1>23 DEF StopCall
<1>24. CASE Boot
  <2>1. boots' \in 0 .. MaxBoots
    BY <1>0, <1>24 DEF Boot
  <2> QED BY <1>24, <2>1 DEF Boot
<1>25. CASE ReconcileSave
  BY <1>25 DEF ReconcileSave
<1>26. CASE Shutdown
  BY <1>26 DEF Shutdown
<1>27. CASE ShutdownEnds
  BY <1>27 DEF ShutdownEnds, ProcessEnds
<1>28. CASE Crash
  BY <1>28 DEF Crash, ProcessEnds
<1>29. CASE UNCHANGED vars
  BY <1>29 DEF vars
<1> QED BY <1>1, <1>2, <1>3, <1>4, <1>5, <1>6, <1>7, <1>8, <1>9, <1>10, <1>11,
   <1>12, <1>13, <1>14, <1>15, <1>16, <1>17, <1>18, <1>19, <1>20, <1>21, <1>22,
   <1>23, <1>24, <1>25, <1>26, <1>27, <1>28, <1>29 DEF Next, CallStep, Doers

(* The maps from ids.                                                      *)
LEMMA MapStep ==
  ASSUME MapTypes, [Next]_vars
  PROVE  MapTypes'
<1> USE DEF MapTypes, Active, Files, storeVars, memVars, driveVars, bootVars,
   obsVars
<1>1. ASSUME NEW j \in Ids, AddrRead(j) PROVE MapTypes'
  BY <1>1 DEF AddrRead
<1>2. ASSUME NEW j \in Ids, AddrStore(j) PROVE MapTypes'
  BY <1>2 DEF AddrStore
<1>3. ASSUME NEW j \in Ids, LifeUp(j) PROVE MapTypes'
  BY <1>3 DEF LifeUp, SetRec
<1>4. ASSUME NEW j \in Ids, ServeListens(j) PROVE MapTypes'
  BY <1>4 DEF ServeListens, Leaves
<1>5. ASSUME NEW j \in Ids, ServeWritesPid(j) PROVE MapTypes'
  BY <1>5 DEF ServeWritesPid, Leaves
<1>6. ASSUME NEW j \in Ids, ServeDies(j) PROVE MapTypes'
  BY <1>6 DEF ServeDies
<1>7. ASSUME NEW j \in Ids, Reattach(j) PROVE MapTypes'
  BY <1>7 DEF Reattach
<1>8. ASSUME NEW j \in Ids, FoundDead(j) PROVE MapTypes'
  BY <1>8 DEF FoundDead
<1>9. ASSUME NEW j \in Ids, NothingToStop(j) PROVE MapTypes'
  BY <1>9 DEF NothingToStop
<1>10. ASSUME NEW c \in Callers, NEW j \in Ids, DeleteCall(c, j) PROVE MapTypes'
  BY <1>10 DEF DeleteCall
<1>11. ASSUME NEW c \in Callers, NEW j \in Ids, NEW from \in Ids \cup {NoId}, StartCall(c, j, from)
      PROVE  MapTypes'
  BY <1>11 DEF StartCall
<1>12. ASSUME NEW c \in Doers, SpawnRefused(c) PROVE MapTypes'
  BY <1>12 DEF SpawnRefused, SetRec, Return
<1>13. ASSUME NEW c \in Doers, Spawn(c) PROVE MapTypes'
  BY <1>13 DEF Spawn, At
<1>14. ASSUME NEW c \in Doers, SpawnReady(c) PROVE MapTypes'
  BY <1>14 DEF SpawnReady, At
<1>15. ASSUME NEW c \in Doers, SpawnFails(c) PROVE MapTypes'
  BY <1>15 DEF SpawnFails, SetRec, Return, GivesUp
<1>16. ASSUME NEW c \in Doers, Register(c) PROVE MapTypes'
  BY <1>16 DEF Register, At, Return
<1>17. ASSUME NEW c \in Doers, Kill(c) PROVE MapTypes'
  BY <1>17 DEF Kill, At, DropCache
<1>18. ASSUME NEW c \in Doers, Grace(c) PROVE MapTypes'
  BY <1>18 DEF Grace, At
<1>19. ASSUME NEW c \in Doers, Clean(c) PROVE MapTypes'
  BY <1>19 DEF Clean, At, Return, DropCache
<1>20. ASSUME NEW c \in Doers, Cancel(c) PROVE MapTypes'
  BY <1>20 DEF Cancel, At, SetRec
<1>21. ASSUME NEW c \in Doers, Unrun(c) PROVE MapTypes'
  BY <1>21 DEF Unrun, Return
<1>22. ASSUME NEW c \in Doers, Link(c) PROVE MapTypes'
  BY <1>22 DEF Link, Return
<1>23. ASSUME NEW c \in Doers, NEW j \in Ids, StopCall(c, j) PROVE MapTypes'
  BY <1>23 DEF StopCall
<1>24. CASE Boot
  BY <1>24 DEF Boot
<1>25. CASE ReconcileSave
  BY <1>25 DEF ReconcileSave
<1>26. CASE Shutdown
  BY <1>26 DEF Shutdown
<1>27. CASE ShutdownEnds
  BY <1>27 DEF ShutdownEnds, ProcessEnds
<1>28. CASE Crash
  BY <1>28 DEF Crash, ProcessEnds
<1>29. CASE UNCHANGED vars
  BY <1>29 DEF vars
<1> QED BY <1>1, <1>2, <1>3, <1>4, <1>5, <1>6, <1>7, <1>8, <1>9, <1>10, <1>11,
   <1>12, <1>13, <1>14, <1>15, <1>16, <1>17, <1>18, <1>19, <1>20, <1>21, <1>22,
   <1>23, <1>24, <1>25, <1>26, <1>27, <1>28, <1>29 DEF Next, CallStep, Doers

(* The sets of ids.                                                        *)
LEMMA SetStep ==
  ASSUME DaemonTypes, MapTypes, SetTypes, CallTypes, CallsOK, BornsOK, [Next]_vars
  PROVE  SetTypes'
<1> USE DEF SetTypes, storeVars, memVars, driveVars, bootVars, obsVars
<1>1. ASSUME NEW j \in Ids, AddrRead(j) PROVE SetTypes'
  <2>1. BornOK(j) /\ Active = {"starting", "running"}
    BY DEF BornsOK, Active
  <2>2. j \in used
    BY <1>1, <2>1 DEF AddrRead, BornOK
  <2> QED BY <1>1, <2>2 DEF AddrRead
<1>2. ASSUME NEW j \in Ids, AddrStore(j) PROVE SetTypes'
  BY <1>2 DEF AddrStore
<1>3. ASSUME NEW j \in Ids, LifeUp(j) PROVE SetTypes'
  BY <1>3 DEF LifeUp, SetRec
<1>4. ASSUME NEW j \in Ids, ServeListens(j) PROVE SetTypes'
  BY <1>4 DEF ServeListens, Leaves
<1>5. ASSUME NEW j \in Ids, ServeWritesPid(j) PROVE SetTypes'
  BY <1>5 DEF ServeWritesPid, Leaves
<1>6. ASSUME NEW j \in Ids, ServeDies(j) PROVE SetTypes'
  BY <1>6 DEF ServeDies
<1>7. ASSUME NEW j \in Ids, Reattach(j) PROVE SetTypes'
  BY <1>7 DEF Reattach
<1>8. ASSUME NEW j \in Ids, FoundDead(j) PROVE SetTypes'
  BY <1>8 DEF FoundDead
<1>9. ASSUME NEW j \in Ids, NothingToStop(j) PROVE SetTypes'
  BY <1>9 DEF NothingToStop
<1>10. ASSUME NEW c \in Callers, NEW j \in Ids, DeleteCall(c, j) PROVE SetTypes'
  BY <1>10 DEF DeleteCall
<1>11. ASSUME NEW c \in Callers, NEW j \in Ids, NEW from \in Ids \cup {NoId}, StartCall(c, j, from)
      PROVE  SetTypes'
  BY <1>11 DEF StartCall
<1>12. ASSUME NEW c \in Doers, SpawnRefused(c) PROVE SetTypes'
  BY <1>12 DEF SpawnRefused, SetRec, Return
<1>13. ASSUME NEW c \in Doers, Spawn(c) PROVE SetTypes'
  BY <1>13 DEF Spawn, At
<1>14. ASSUME NEW c \in Doers, SpawnReady(c) PROVE SetTypes'
  <2>1. call[c].new \in used /\ call[c].new \in Ids
    BY <1>14, CallFacts DEF SpawnReady, Launching
  <2> QED BY <1>14, <2>1 DEF SpawnReady, At
<1>15. ASSUME NEW c \in Doers, SpawnFails(c) PROVE SetTypes'
  BY <1>15 DEF SpawnFails, SetRec, Return, GivesUp
<1>16. ASSUME NEW c \in Doers, Register(c) PROVE SetTypes'
  <2>1. call[c].new \in used /\ call[c].new \in Ids
    BY <1>16, CallFacts DEF Register, Launching
  <2> QED BY <1>16, <2>1 DEF Register, At, Return
<1>17. ASSUME NEW c \in Doers, Kill(c) PROVE SetTypes'
  BY <1>17 DEF Kill, At, DropCache
<1>18. ASSUME NEW c \in Doers, Grace(c) PROVE SetTypes'
  BY <1>18 DEF Grace, At
<1>19. ASSUME NEW c \in Doers, Clean(c) PROVE SetTypes'
  BY <1>19 DEF Clean, At, Return, DropCache
<1>20. ASSUME NEW c \in Doers, Cancel(c) PROVE SetTypes'
  BY <1>20 DEF Cancel, At, SetRec
<1>21. ASSUME NEW c \in Doers, Unrun(c) PROVE SetTypes'
  BY <1>21 DEF Unrun, Return
<1>22. ASSUME NEW c \in Doers, Link(c) PROVE SetTypes'
  BY <1>22 DEF Link, Return
<1>23. ASSUME NEW c \in Doers, NEW j \in Ids, StopCall(c, j) PROVE SetTypes'
  BY <1>23 DEF StopCall
<1>24. CASE Boot
  <2>1. ASSUME NEW i \in Ids, rec[i] \in Active PROVE i \in used
    BY <2>1 DEF BornsOK, BornOK, Active
  <2> QED BY <1>24, <2>1 DEF Boot
<1>25. CASE ReconcileSave
  BY <1>25 DEF ReconcileSave
<1>26. CASE Shutdown
  BY <1>26 DEF Shutdown
<1>27. CASE ShutdownEnds
  BY <1>27 DEF ShutdownEnds, ProcessEnds
<1>28. CASE Crash
  BY <1>28 DEF Crash, ProcessEnds
<1>29. CASE UNCHANGED vars
  BY <1>29 DEF vars
<1> QED BY <1>1, <1>2, <1>3, <1>4, <1>5, <1>6, <1>7, <1>8, <1>9, <1>10, <1>11,
   <1>12, <1>13, <1>14, <1>15, <1>16, <1>17, <1>18, <1>19, <1>20, <1>21, <1>22,
   <1>23, <1>24, <1>25, <1>26, <1>27, <1>28, <1>29 DEF Next, CallStep, Doers

(* The calls.                                                              *)
LEMMA CallTypeStep ==
  ASSUME CallTypes, [Next]_vars
  PROVE  CallTypes'
<1> USE DEF CallTypes, Calls, NoCall, Teardown, storeVars, memVars, driveVars,
   bootVars, obsVars
<1>1. ASSUME NEW j \in Ids, AddrRead(j) PROVE CallTypes'
  BY <1>1 DEF AddrRead
<1>2. ASSUME NEW j \in Ids, AddrStore(j) PROVE CallTypes'
  BY <1>2 DEF AddrStore
<1>3. ASSUME NEW j \in Ids, LifeUp(j) PROVE CallTypes'
  BY <1>3 DEF LifeUp, SetRec
<1>4. ASSUME NEW j \in Ids, ServeListens(j) PROVE CallTypes'
  BY <1>4 DEF ServeListens, Leaves
<1>5. ASSUME NEW j \in Ids, ServeWritesPid(j) PROVE CallTypes'
  BY <1>5 DEF ServeWritesPid, Leaves
<1>6. ASSUME NEW j \in Ids, ServeDies(j) PROVE CallTypes'
  BY <1>6 DEF ServeDies
<1>7. ASSUME NEW j \in Ids, Reattach(j) PROVE CallTypes'
  BY <1>7 DEF Reattach
<1>8. ASSUME NEW j \in Ids, FoundDead(j) PROVE CallTypes'
  BY <1>8 DEF FoundDead
<1>9. ASSUME NEW j \in Ids, NothingToStop(j) PROVE CallTypes'
  BY <1>9 DEF NothingToStop
<1>10. ASSUME NEW c \in Callers, NEW j \in Ids, DeleteCall(c, j) PROVE CallTypes'
  BY <1>10 DEF DeleteCall
<1>11. ASSUME NEW c \in Callers, NEW j \in Ids, NEW from \in Ids \cup {NoId}, StartCall(c, j, from)
      PROVE  CallTypes'
  BY <1>11 DEF StartCall
<1>12. ASSUME NEW c \in Doers, SpawnRefused(c) PROVE CallTypes'
  BY <1>12 DEF SpawnRefused, SetRec, Return
<1>13. ASSUME NEW c \in Doers, Spawn(c) PROVE CallTypes'
  BY <1>13 DEF Spawn, At
<1>14. ASSUME NEW c \in Doers, SpawnReady(c) PROVE CallTypes'
  BY <1>14 DEF SpawnReady, At
<1>15. ASSUME NEW c \in Doers, SpawnFails(c) PROVE CallTypes'
  BY <1>15 DEF SpawnFails, SetRec, Return, GivesUp
<1>16. ASSUME NEW c \in Doers, Register(c) PROVE CallTypes'
  BY <1>16 DEF Register, At, Return
<1>17. ASSUME NEW c \in Doers, Kill(c) PROVE CallTypes'
  BY <1>17 DEF Kill, At, DropCache
<1>18. ASSUME NEW c \in Doers, Grace(c) PROVE CallTypes'
  BY <1>18 DEF Grace, At
<1>19. ASSUME NEW c \in Doers, Clean(c) PROVE CallTypes'
  BY <1>19 DEF Clean, At, Return, DropCache
<1>20. ASSUME NEW c \in Doers, Cancel(c) PROVE CallTypes'
  BY <1>20 DEF Cancel, At, SetRec
<1>21. ASSUME NEW c \in Doers, Unrun(c) PROVE CallTypes'
  BY <1>21 DEF Unrun, Return
<1>22. ASSUME NEW c \in Doers, Link(c) PROVE CallTypes'
  BY <1>22 DEF Link, Return
<1>23. ASSUME NEW c \in Doers, NEW j \in Ids, StopCall(c, j) PROVE CallTypes'
  BY <1>23 DEF StopCall
<1>24. CASE Boot
  BY <1>24 DEF Boot
<1>25. CASE ReconcileSave
  BY <1>25 DEF ReconcileSave
<1>26. CASE Shutdown
  BY <1>26 DEF Shutdown
<1>27. CASE ShutdownEnds
  <2>1. NoCall \in Calls
    BY DEF NoCall, Calls
  <2> QED BY <1>27, <2>1 DEF ShutdownEnds, ProcessEnds, CallTypes, Doers
<1>28. CASE Crash
  <2>1. NoCall \in Calls
    BY DEF NoCall, Calls
  <2> QED BY <1>28, <2>1 DEF Crash, ProcessEnds, CallTypes, Doers
<1>29. CASE UNCHANGED vars
  BY <1>29 DEF vars
<1> QED BY <1>1, <1>2, <1>3, <1>4, <1>5, <1>6, <1>7, <1>8, <1>9, <1>10, <1>11,
   <1>12, <1>13, <1>14, <1>15, <1>16, <1>17, <1>18, <1>19, <1>20, <1>21, <1>22,
   <1>23, <1>24, <1>25, <1>26, <1>27, <1>28, <1>29 DEF Next, CallStep, Doers

(* A directory begins with its token.                                      *)
LEMMA TokenStep ==
  ASSUME MapTypes, TokenFirst, [Next]_vars
  PROVE  TokenFirst'
<1> USE DEF TokenFirst, MapTypes, storeVars, memVars, driveVars, bootVars,
   obsVars
<1>1. ASSUME NEW j \in Ids, AddrRead(j) PROVE TokenFirst'
  BY <1>1 DEF AddrRead
<1>2. ASSUME NEW j \in Ids, AddrStore(j) PROVE TokenFirst'
  BY <1>2 DEF AddrStore
<1>3. ASSUME NEW j \in Ids, LifeUp(j) PROVE TokenFirst'
  BY <1>3 DEF LifeUp, SetRec
<1>4. ASSUME NEW j \in Ids, ServeListens(j) PROVE TokenFirst'
  BY <1>4 DEF ServeListens, Leaves
<1>5. ASSUME NEW j \in Ids, ServeWritesPid(j) PROVE TokenFirst'
  BY <1>5 DEF ServeWritesPid, Leaves
<1>6. ASSUME NEW j \in Ids, ServeDies(j) PROVE TokenFirst'
  BY <1>6 DEF ServeDies
<1>7. ASSUME NEW j \in Ids, Reattach(j) PROVE TokenFirst'
  BY <1>7 DEF Reattach
<1>8. ASSUME NEW j \in Ids, FoundDead(j) PROVE TokenFirst'
  BY <1>8 DEF FoundDead
<1>9. ASSUME NEW j \in Ids, NothingToStop(j) PROVE TokenFirst'
  BY <1>9 DEF NothingToStop
<1>10. ASSUME NEW c \in Callers, NEW j \in Ids, DeleteCall(c, j) PROVE TokenFirst'
  BY <1>10 DEF DeleteCall
<1>11. ASSUME NEW c \in Callers, NEW j \in Ids, NEW from \in Ids \cup {NoId}, StartCall(c, j, from)
      PROVE  TokenFirst'
  BY <1>11 DEF StartCall
<1>12. ASSUME NEW c \in Doers, SpawnRefused(c) PROVE TokenFirst'
  BY <1>12 DEF SpawnRefused, SetRec, Return
<1>13. ASSUME NEW c \in Doers, Spawn(c) PROVE TokenFirst'
  BY <1>13 DEF Spawn, At
<1>14. ASSUME NEW c \in Doers, SpawnReady(c) PROVE TokenFirst'
  BY <1>14 DEF SpawnReady, At
<1>15. ASSUME NEW c \in Doers, SpawnFails(c) PROVE TokenFirst'
  BY <1>15 DEF SpawnFails, SetRec, Return, GivesUp
<1>16. ASSUME NEW c \in Doers, Register(c) PROVE TokenFirst'
  BY <1>16 DEF Register, At, Return
<1>17. ASSUME NEW c \in Doers, Kill(c) PROVE TokenFirst'
  BY <1>17 DEF Kill, At, DropCache
<1>18. ASSUME NEW c \in Doers, Grace(c) PROVE TokenFirst'
  BY <1>18 DEF Grace, At
<1>19. ASSUME NEW c \in Doers, Clean(c) PROVE TokenFirst'
  BY <1>19 DEF Clean, At, Return, DropCache
<1>20. ASSUME NEW c \in Doers, Cancel(c) PROVE TokenFirst'
  BY <1>20 DEF Cancel, At, SetRec
<1>21. ASSUME NEW c \in Doers, Unrun(c) PROVE TokenFirst'
  BY <1>21 DEF Unrun, Return
<1>22. ASSUME NEW c \in Doers, Link(c) PROVE TokenFirst'
  BY <1>22 DEF Link, Return
<1>23. ASSUME NEW c \in Doers, NEW j \in Ids, StopCall(c, j) PROVE TokenFirst'
  BY <1>23 DEF StopCall
<1>24. CASE Boot
  BY <1>24 DEF Boot
<1>25. CASE ReconcileSave
  BY <1>25 DEF ReconcileSave
<1>26. CASE Shutdown
  BY <1>26 DEF Shutdown
<1>27. CASE ShutdownEnds
  BY <1>27 DEF ShutdownEnds, ProcessEnds
<1>28. CASE Crash
  BY <1>28 DEF Crash, ProcessEnds
<1>29. CASE UNCHANGED vars
  BY <1>29 DEF vars
<1> QED BY <1>1, <1>2, <1>3, <1>4, <1>5, <1>6, <1>7, <1>8, <1>9, <1>10, <1>11,
   <1>12, <1>13, <1>14, <1>15, <1>16, <1>17, <1>18, <1>19, <1>20, <1>21, <1>22,
   <1>23, <1>24, <1>25, <1>26, <1>27, <1>28, <1>29 DEF Next, CallStep, Doers

(* The parts that lemmas about one call and one id start from.             *)
Shape == DaemonTypes /\ MapTypes /\ SetTypes /\ CallTypes /\ CallsOK

(* What a call carries.                                                    *)
LEMMA CallsStep ==
  ASSUME Shape, BornsOK, [Next]_vars
  PROVE  CallsOK'
<1> SUFFICES ASSUME NEW e \in Doers PROVE CallOK(e)'
  BY DEF CallsOK
<1>0. call[e] \in Calls /\ CallOK(e) /\ DOMAIN call = Doers /\ call \in [Doers -> Calls]
  BY DEF Shape, CallsOK, CallTypes
<1>90. \A c \in Doers : CallOK(c) /\ call[c] \in Calls
  BY DEF Shape, CallsOK, CallTypes
<1>91. daemon \in {"off", "boot", "up", "closing"} /\ Main \notin Callers
  BY MainAssumption DEF Shape, DaemonTypes
<1> USE <1>0, <1>90, <1>91
<1> USE DEF CallOK, Acts, Serving, NoCall, Calls, Launching, Teardown, Doers,
   SetTypes, storeVars, memVars, driveVars, bootVars, obsVars
<1>1. ASSUME NEW j \in Ids, AddrRead(j) PROVE CallOK(e)'
  BY <1>1 DEF AddrRead
<1>2. ASSUME NEW j \in Ids, AddrStore(j) PROVE CallOK(e)'
  BY <1>2 DEF AddrStore
<1>3. ASSUME NEW j \in Ids, LifeUp(j) PROVE CallOK(e)'
  BY <1>3 DEF LifeUp, SetRec
<1>4. ASSUME NEW j \in Ids, ServeListens(j) PROVE CallOK(e)'
  BY <1>4 DEF ServeListens, Leaves
<1>5. ASSUME NEW j \in Ids, ServeWritesPid(j) PROVE CallOK(e)'
  BY <1>5 DEF ServeWritesPid, Leaves
<1>6. ASSUME NEW j \in Ids, ServeDies(j) PROVE CallOK(e)'
  BY <1>6 DEF ServeDies
<1>7. ASSUME NEW j \in Ids, Reattach(j) PROVE CallOK(e)'
  BY <1>7 DEF Reattach
<1>8. ASSUME NEW j \in Ids, FoundDead(j) PROVE CallOK(e)'
  BY <1>8 DEF FoundDead
<1>9. ASSUME NEW j \in Ids, NothingToStop(j) PROVE CallOK(e)'
  BY <1>9 DEF NothingToStop
<1>10. ASSUME NEW c \in Callers, NEW j \in Ids, DeleteCall(c, j) PROVE CallOK(e)'
  <2>1. BornOK(j)
    BY DEF BornsOK
  <2>2. j \in used
    BY <1>10, <2>1 DEF DeleteCall, BornOK
  <2> QED BY <1>10, <2>2 DEF DeleteCall
<1>11. ASSUME NEW c \in Callers, NEW j \in Ids, NEW from \in Ids \cup {NoId}, StartCall(c, j, from)
      PROVE  CallOK(e)'
  <2>1. from \in Ids => BornOK(from)
    BY DEF BornsOK
  <2>2. from = NoId \/ (from \in Ids /\ from \in used)
    BY <1>11, <2>1 DEF StartCall, BornOK
  <2>3. used' = used \cup {j} /\ Serving /\ UNCHANGED daemon
    BY <1>11 DEF StartCall
  <2>4. CASE e = c
    <3>1. call'[e] = [op |-> IF from = NoId THEN "start" ELSE "restart",
                      id |-> from, new |-> j, pc |-> "spawn"]
      BY <1>11, <2>4 DEF StartCall
    <3> QED BY <2>2, <2>3, <2>4, <3>1
  <2>5. CASE e # c
    <3>1. call'[e] = call[e]
      BY <1>11, <2>5 DEF StartCall
    <3> QED BY <2>3, <3>1
  <2> QED BY <2>4, <2>5
<1>12. ASSUME NEW c \in Doers, SpawnRefused(c) PROVE CallOK(e)'
  BY <1>12 DEF SpawnRefused, SetRec, Return
<1>13. ASSUME NEW c \in Doers, Spawn(c) PROVE CallOK(e)'
  BY <1>13 DEF Spawn, At
<1>14. ASSUME NEW c \in Doers, SpawnReady(c) PROVE CallOK(e)'
  BY <1>14 DEF SpawnReady, At
<1>15. ASSUME NEW c \in Doers, SpawnFails(c) PROVE CallOK(e)'
  BY <1>15 DEF SpawnFails, SetRec, Return, GivesUp
<1>16. ASSUME NEW c \in Doers, Register(c) PROVE CallOK(e)'
  BY <1>16 DEF Register, At, Return
<1>17. ASSUME NEW c \in Doers, Kill(c) PROVE CallOK(e)'
  BY <1>17 DEF Kill, At, DropCache
<1>18. ASSUME NEW c \in Doers, Grace(c) PROVE CallOK(e)'
  BY <1>18 DEF Grace, At
<1>19. ASSUME NEW c \in Doers, Clean(c) PROVE CallOK(e)'
  BY <1>19 DEF Clean, At, Return, DropCache
<1>20. ASSUME NEW c \in Doers, Cancel(c) PROVE CallOK(e)'
  BY <1>20 DEF Cancel, At, SetRec
<1>21. ASSUME NEW c \in Doers, Unrun(c) PROVE CallOK(e)'
  BY <1>21 DEF Unrun, Return
<1>22. ASSUME NEW c \in Doers, Link(c) PROVE CallOK(e)'
  BY <1>22 DEF Link, Return
<1>23. ASSUME NEW c \in Doers, NEW j \in Ids, StopCall(c, j) PROVE CallOK(e)'
  <2>1. j \in used
    BY <1>23 DEF StopCall, Shape
  <2> QED BY <1>23, <2>1 DEF StopCall
<1>24. CASE Boot
  BY <1>24 DEF Boot
<1>25. CASE ReconcileSave
  BY <1>25 DEF ReconcileSave
<1>26. CASE Shutdown
  BY <1>26 DEF Shutdown
<1>27. CASE ShutdownEnds
  BY <1>27 DEF ShutdownEnds, ProcessEnds
<1>28. CASE Crash
  BY <1>28 DEF Crash, ProcessEnds
<1>29. CASE UNCHANGED vars
  BY <1>29 DEF vars
<1> QED BY <1>1, <1>2, <1>3, <1>4, <1>5, <1>6, <1>7, <1>8, <1>9, <1>10, <1>11,
   <1>12, <1>13, <1>14, <1>15, <1>16, <1>17, <1>18, <1>19, <1>20, <1>21, <1>22,
   <1>23, <1>24, <1>25, <1>26, <1>27, <1>28, <1>29 DEF Next, CallStep, Doers

(* No id is started twice.                                                *)
LEMMA OneStep ==
  ASSUME Shape, OneStart, [Next]_vars
  PROVE  OneStart'
<1>0. DOMAIN call = Doers /\ call \in [Doers -> Calls]
  BY DEF Shape, CallsOK, CallTypes
<1>90. \A c \in Doers : CallOK(c) /\ call[c] \in Calls
  BY DEF Shape, CallsOK, CallTypes
<1>91. daemon \in {"off", "boot", "up", "closing"} /\ Main \notin Callers
  BY MainAssumption DEF Shape, DaemonTypes
<1> USE <1>0, <1>90, <1>91
<1> USE DEF OneStart, CallOK, NoCall, Calls, Launching, Teardown, Doers,
   SetTypes, storeVars, memVars, driveVars, bootVars, obsVars
<1>1. ASSUME NEW j \in Ids, AddrRead(j) PROVE OneStart'
  BY <1>1 DEF AddrRead
<1>2. ASSUME NEW j \in Ids, AddrStore(j) PROVE OneStart'
  BY <1>2 DEF AddrStore
<1>3. ASSUME NEW j \in Ids, LifeUp(j) PROVE OneStart'
  BY <1>3 DEF LifeUp, SetRec
<1>4. ASSUME NEW j \in Ids, ServeListens(j) PROVE OneStart'
  BY <1>4 DEF ServeListens, Leaves
<1>5. ASSUME NEW j \in Ids, ServeWritesPid(j) PROVE OneStart'
  BY <1>5 DEF ServeWritesPid, Leaves
<1>6. ASSUME NEW j \in Ids, ServeDies(j) PROVE OneStart'
  BY <1>6 DEF ServeDies
<1>7. ASSUME NEW j \in Ids, Reattach(j) PROVE OneStart'
  BY <1>7 DEF Reattach
<1>8. ASSUME NEW j \in Ids, FoundDead(j) PROVE OneStart'
  BY <1>8 DEF FoundDead
<1>9. ASSUME NEW j \in Ids, NothingToStop(j) PROVE OneStart'
  BY <1>9 DEF NothingToStop
<1>10. ASSUME NEW c \in Callers, NEW j \in Ids, DeleteCall(c, j) PROVE OneStart'
  BY <1>10 DEF DeleteCall
<1>11. ASSUME NEW c \in Callers, NEW j \in Ids, NEW from \in Ids \cup {NoId}, StartCall(c, j, from)
      PROVE  OneStart'
  <2>1. call' = [call EXCEPT ![c] = [op |-> IF from = NoId THEN "start" ELSE "restart",
                                     id |-> from, new |-> j, pc |-> "spawn"]]
    BY <1>11 DEF StartCall
  <2>2. \A d \in Callers : call[d].new # j
    BY <1>11, NoIdAssumption DEF StartCall
  <2>3. call'[c].new = j /\ \A d \in Callers : d # c => call'[d].new = call[d].new
    BY <2>1
  <2> QED BY <2>2, <2>3
<1>12. ASSUME NEW c \in Doers, SpawnRefused(c) PROVE OneStart'
  BY <1>12 DEF SpawnRefused, SetRec, Return
<1>13. ASSUME NEW c \in Doers, Spawn(c) PROVE OneStart'
  BY <1>13 DEF Spawn, At
<1>14. ASSUME NEW c \in Doers, SpawnReady(c) PROVE OneStart'
  BY <1>14 DEF SpawnReady, At
<1>15. ASSUME NEW c \in Doers, SpawnFails(c) PROVE OneStart'
  BY <1>15 DEF SpawnFails, SetRec, Return, GivesUp
<1>16. ASSUME NEW c \in Doers, Register(c) PROVE OneStart'
  BY <1>16 DEF Register, At, Return
<1>17. ASSUME NEW c \in Doers, Kill(c) PROVE OneStart'
  BY <1>17 DEF Kill, At, DropCache
<1>18. ASSUME NEW c \in Doers, Grace(c) PROVE OneStart'
  BY <1>18 DEF Grace, At
<1>19. ASSUME NEW c \in Doers, Clean(c) PROVE OneStart'
  BY <1>19 DEF Clean, At, Return, DropCache
<1>20. ASSUME NEW c \in Doers, Cancel(c) PROVE OneStart'
  BY <1>20 DEF Cancel, At, SetRec
<1>21. ASSUME NEW c \in Doers, Unrun(c) PROVE OneStart'
  BY <1>21 DEF Unrun, Return
<1>22. ASSUME NEW c \in Doers, Link(c) PROVE OneStart'
  BY <1>22 DEF Link, Return
<1>23. ASSUME NEW c \in Doers, NEW j \in Ids, StopCall(c, j) PROVE OneStart'
  BY <1>23 DEF StopCall
<1>24. CASE Boot
  BY <1>24 DEF Boot
<1>25. CASE ReconcileSave
  BY <1>25 DEF ReconcileSave
<1>26. CASE Shutdown
  BY <1>26 DEF Shutdown
<1>27. CASE ShutdownEnds
  BY <1>27 DEF ShutdownEnds, ProcessEnds
<1>28. CASE Crash
  BY <1>28 DEF Crash, ProcessEnds
<1>29. CASE UNCHANGED vars
  BY <1>29 DEF vars
<1> QED BY <1>1, <1>2, <1>3, <1>4, <1>5, <1>6, <1>7, <1>8, <1>9, <1>10, <1>11,
   <1>12, <1>13, <1>14, <1>15, <1>16, <1>17, <1>18, <1>19, <1>20, <1>21, <1>22,
   <1>23, <1>24, <1>25, <1>26, <1>27, <1>28, <1>29 DEF Next, CallStep, Doers

(* What a caller started now it was starting before, no further on.        *)
Older(d, i) ==
  /\ call[d].new = i
  /\ call'[d].pc = "spawn" => call[d].pc = "spawn"
  /\ call'[d].pc \in Launching => call[d].pc \in Launching

(* So it is for every id handed out before.                                *)
LEMMA NewFades ==
  ASSUME Shape, NEW i \in used, NEW d \in Callers, call'[d].new = i, [Next]_vars
  PROVE  Older(d, i)
<1>0. /\ call[d] \in Calls /\ DOMAIN call = Doers /\ call \in [Doers -> Calls]
      /\ i # NoId /\ d \in Doers /\ d # Main
  BY MainAssumption, NoIdAssumption DEF Shape, CallTypes, SetTypes, Doers
<1> USE <1>0
<1> USE DEF Older, NoCall, Calls, Launching, Doers, storeVars, memVars,
   driveVars, bootVars, obsVars
<1>1. ASSUME NEW j \in Ids, AddrRead(j) PROVE Older(d, i)
  BY <1>1 DEF AddrRead
<1>2. ASSUME NEW j \in Ids, AddrStore(j) PROVE Older(d, i)
  BY <1>2 DEF AddrStore
<1>3. ASSUME NEW j \in Ids, LifeUp(j) PROVE Older(d, i)
  BY <1>3 DEF LifeUp, SetRec
<1>4. ASSUME NEW j \in Ids, ServeListens(j) PROVE Older(d, i)
  BY <1>4 DEF ServeListens, Leaves
<1>5. ASSUME NEW j \in Ids, ServeWritesPid(j) PROVE Older(d, i)
  BY <1>5 DEF ServeWritesPid, Leaves
<1>6. ASSUME NEW j \in Ids, ServeDies(j) PROVE Older(d, i)
  BY <1>6 DEF ServeDies
<1>7. ASSUME NEW j \in Ids, Reattach(j) PROVE Older(d, i)
  BY <1>7 DEF Reattach
<1>8. ASSUME NEW j \in Ids, FoundDead(j) PROVE Older(d, i)
  BY <1>8 DEF FoundDead
<1>9. ASSUME NEW j \in Ids, NothingToStop(j) PROVE Older(d, i)
  BY <1>9 DEF NothingToStop
<1>10. ASSUME NEW c \in Callers, NEW j \in Ids, DeleteCall(c, j) PROVE Older(d, i)
  BY <1>10 DEF DeleteCall
<1>11. ASSUME NEW c \in Callers, NEW j \in Ids, NEW from \in Ids \cup {NoId}, StartCall(c, j, from)
      PROVE  Older(d, i)
  BY <1>11 DEF StartCall
<1>12. ASSUME NEW c \in Doers, SpawnRefused(c) PROVE Older(d, i)
  BY <1>12 DEF SpawnRefused, SetRec, Return
<1>13. ASSUME NEW c \in Doers, Spawn(c) PROVE Older(d, i)
  BY <1>13 DEF Spawn, At
<1>14. ASSUME NEW c \in Doers, SpawnReady(c) PROVE Older(d, i)
  BY <1>14 DEF SpawnReady, At
<1>15. ASSUME NEW c \in Doers, SpawnFails(c) PROVE Older(d, i)
  BY <1>15 DEF SpawnFails, SetRec, Return, GivesUp
<1>16. ASSUME NEW c \in Doers, Register(c) PROVE Older(d, i)
  BY <1>16 DEF Register, At, Return
<1>17. ASSUME NEW c \in Doers, Kill(c) PROVE Older(d, i)
  BY <1>17 DEF Kill, At, DropCache
<1>18. ASSUME NEW c \in Doers, Grace(c) PROVE Older(d, i)
  BY <1>18 DEF Grace, At
<1>19. ASSUME NEW c \in Doers, Clean(c) PROVE Older(d, i)
  BY <1>19 DEF Clean, At, Return, DropCache
<1>20. ASSUME NEW c \in Doers, Cancel(c) PROVE Older(d, i)
  BY <1>20 DEF Cancel, At, SetRec
<1>21. ASSUME NEW c \in Doers, Unrun(c) PROVE Older(d, i)
  BY <1>21 DEF Unrun, Return
<1>22. ASSUME NEW c \in Doers, Link(c) PROVE Older(d, i)
  BY <1>22 DEF Link, Return
<1>23. ASSUME NEW c \in Doers, NEW j \in Ids, StopCall(c, j) PROVE Older(d, i)
  BY <1>23 DEF StopCall
<1>24. CASE Boot
  BY <1>24 DEF Boot
<1>25. CASE ReconcileSave
  BY <1>25 DEF ReconcileSave
<1>26. CASE Shutdown
  BY <1>26 DEF Shutdown
<1>27. CASE ShutdownEnds
  BY <1>27 DEF ShutdownEnds, ProcessEnds
<1>28. CASE Crash
  BY <1>28 DEF Crash, ProcessEnds
<1>29. CASE UNCHANGED vars
  BY <1>29 DEF vars
<1> QED BY <1>1, <1>2, <1>3, <1>4, <1>5, <1>6, <1>7, <1>8, <1>9, <1>10, <1>11,
   <1>12, <1>13, <1>14, <1>15, <1>16, <1>17, <1>18, <1>19, <1>20, <1>21, <1>22,
   <1>23, <1>24, <1>25, <1>26, <1>27, <1>28, <1>29 DEF Next, CallStep, Doers

(* An id handed out before is never on its way up again.                   *)
LEMMA ComingFades ==
  ASSUME Shape, NEW i \in used, [Next]_vars
  PROVE  (Spawning(i)' => Spawning(i)) /\ (Coming(i)' => Coming(i))
<1>1. ASSUME NEW d \in Callers, call'[d].new = i PROVE Older(d, i)
  BY <1>1, NewFades
<1>2. ASSUME Spawning(i)' PROVE Spawning(i)
  BY <1>1, <1>2 DEF Spawning, Launch, Older
<1>3. ASSUME Coming(i)' PROVE Coming(i)
  BY <1>1, <1>3 DEF Coming, Launch, Older
<1> QED BY <1>2, <1>3

(* What the observers noted stays noted; only a spawn brings a process or  *)
(* a directory up.                                                         *)
Ageing(i) ==
  /\ used \subseteq used' /\ early \subseteq early' /\ lost \subseteq lost' /\ cut \subseteq cut'
  /\ Alive(i)' => Alive(i) \/ Spawning(i)
  /\ dir'[i] # {} => dir[i] # {} \/ Spawning(i)

(* Every step is of that kind.                                             *)
LEMMA AgeStep ==
  ASSUME Shape, NEW i \in Ids, [Next]_vars
  PROVE  Ageing(i)
<1> USE DEF Shape, MapTypes
<1> USE DEF Ageing, Alive, storeVars, memVars, driveVars, bootVars, obsVars
<1>1. ASSUME NEW j \in Ids, AddrRead(j) PROVE Ageing(i)
  BY <1>1 DEF AddrRead
<1>2. ASSUME NEW j \in Ids, AddrStore(j) PROVE Ageing(i)
  BY <1>2 DEF AddrStore
<1>3. ASSUME NEW j \in Ids, LifeUp(j) PROVE Ageing(i)
  BY <1>3 DEF LifeUp, SetRec
<1>4. ASSUME NEW j \in Ids, ServeListens(j) PROVE Ageing(i)
  BY <1>4 DEF ServeListens, Leaves
<1>5. ASSUME NEW j \in Ids, ServeWritesPid(j) PROVE Ageing(i)
  BY <1>5 DEF ServeWritesPid, Leaves
<1>6. ASSUME NEW j \in Ids, ServeDies(j) PROVE Ageing(i)
  BY <1>6 DEF ServeDies
<1>7. ASSUME NEW j \in Ids, Reattach(j) PROVE Ageing(i)
  BY <1>7 DEF Reattach
<1>8. ASSUME NEW j \in Ids, FoundDead(j) PROVE Ageing(i)
  BY <1>8 DEF FoundDead
<1>9. ASSUME NEW j \in Ids, NothingToStop(j) PROVE Ageing(i)
  BY <1>9 DEF NothingToStop
<1>10. ASSUME NEW c \in Callers, NEW j \in Ids, DeleteCall(c, j) PROVE Ageing(i)
  BY <1>10 DEF DeleteCall
<1>11. ASSUME NEW c \in Callers, NEW j \in Ids, NEW from \in Ids \cup {NoId}, StartCall(c, j, from)
      PROVE  Ageing(i)
  BY <1>11 DEF StartCall
<1>12. ASSUME NEW c \in Doers, SpawnRefused(c) PROVE Ageing(i)
  BY <1>12 DEF SpawnRefused, SetRec, Return
<1>13. ASSUME NEW c \in Doers, Spawn(c) PROVE Ageing(i)
  <2>1. call[c].new = i => Spawning(i)
    BY <1>13, CallFacts DEF Spawn, Spawning, Launch, Launching, Shape
  <2> QED BY <1>13, <2>1 DEF Spawn, At
<1>14. ASSUME NEW c \in Doers, SpawnReady(c) PROVE Ageing(i)
  BY <1>14 DEF SpawnReady, At
<1>15. ASSUME NEW c \in Doers, SpawnFails(c) PROVE Ageing(i)
  BY <1>15 DEF SpawnFails, SetRec, Return, GivesUp
<1>16. ASSUME NEW c \in Doers, Register(c) PROVE Ageing(i)
  BY <1>16 DEF Register, At, Return
<1>17. ASSUME NEW c \in Doers, Kill(c) PROVE Ageing(i)
  BY <1>17 DEF Kill, At, DropCache
<1>18. ASSUME NEW c \in Doers, Grace(c) PROVE Ageing(i)
  BY <1>18 DEF Grace, At
<1>19. ASSUME NEW c \in Doers, Clean(c) PROVE Ageing(i)
  BY <1>19 DEF Clean, At, Return, DropCache
<1>20. ASSUME NEW c \in Doers, Cancel(c) PROVE Ageing(i)
  BY <1>20 DEF Cancel, At, SetRec
<1>21. ASSUME NEW c \in Doers, Unrun(c) PROVE Ageing(i)
  BY <1>21 DEF Unrun, Return
<1>22. ASSUME NEW c \in Doers, Link(c) PROVE Ageing(i)
  BY <1>22 DEF Link, Return
<1>23. ASSUME NEW c \in Doers, NEW j \in Ids, StopCall(c, j) PROVE Ageing(i)
  BY <1>23 DEF StopCall
<1>24. CASE Boot
  BY <1>24 DEF Boot
<1>25. CASE ReconcileSave
  BY <1>25 DEF ReconcileSave
<1>26. CASE Shutdown
  BY <1>26 DEF Shutdown
<1>27. CASE ShutdownEnds
  BY <1>27 DEF ShutdownEnds, ProcessEnds
<1>28. CASE Crash
  BY <1>28 DEF Crash, ProcessEnds
<1>29. CASE UNCHANGED vars
  BY <1>29 DEF vars
<1> QED BY <1>1, <1>2, <1>3, <1>4, <1>5, <1>6, <1>7, <1>8, <1>9, <1>10, <1>11,
   <1>12, <1>13, <1>14, <1>15, <1>16, <1>17, <1>18, <1>19, <1>20, <1>21, <1>22,
   <1>23, <1>24, <1>25, <1>26, <1>27, <1>28, <1>29 DEF Next, CallStep, Doers

(* What is torn down, or gone, stays so.                                   *)
LEMMA TornStays ==
  ASSUME Shape, NEW i \in used, [Next]_vars
  PROVE  (Torn(i) => Torn(i)') /\ (Gone(i) => Gone(i)')
<1>1. Ageing(i)
  BY AgeStep DEF Shape, SetTypes
<1>2. Spawning(i)' => Spawning(i)
  BY ComingFades
<1> QED BY <1>1, <1>2 DEF Ageing, Torn, Gone

(* An instance on its way up is known, while the daemon serves.            *)
LEMMA ComingServes ==
  ASSUME Shape, NEW i \in Ids
  PROVE  (Spawning(i) => Coming(i)) /\ (Coming(i) => i \in used /\ Serving)
<1>1. ASSUME NEW c \in Callers, call[c].new = i, call[c].pc \in Launching
      PROVE  i \in used /\ Serving
  <2>1. c \in Doers /\ c # Main
    BY MainAssumption DEF Doers
  <2>2. call[c].new \in used /\ (call[c] # NoCall => Acts(c))
    BY <1>1, <2>1, CallFacts DEF Shape
  <2>3. call[c] # NoCall
    BY <1>1 DEF NoCall, Launching
  <2> QED BY <1>1, <2>1, <2>2, <2>3 DEF Acts
<1>2. Spawning(i) => Coming(i)
  BY DEF Spawning, Coming, Launch, Launching
<1>3. Coming(i) => i \in used /\ Serving
  BY <1>1 DEF Coming, Launch
<1> QED BY <1>2, <1>3

(* They keep themselves.                                                   *)
LEMMA ShapeStep == ASSUME Shape, BornsOK, [Next]_vars PROVE Shape'
BY DaemonStep, MapStep, SetStep, CallTypeStep, CallsStep DEF Shape

(* While no id is handed out nothing new is on its way up.                 *)
LEMMA NothingComes ==
  ASSUME Shape, BornsOK, NEW i \in Ids, [Next]_vars, i \in used' => i \in used
  PROVE  (Spawning(i)' => Spawning(i)) /\ (Coming(i)' => Coming(i))
<1>1. ASSUME NEW c \in Callers, call'[c].new = i PROVE i \in used'
  <2>1. CallOK(c)' /\ call'[c] \in Calls
    BY ShapeStep DEF Shape, CallsOK, CallTypes, Doers
  <2>2. call'[c].op \in {"start", "restart"}
    BY <1>1, <2>1, NoIdAssumption DEF CallOK, Calls, NoCall
  <2> QED BY <1>1, <2>1, <2>2 DEF CallOK
<1>2. (Spawning(i)' => i \in used') /\ (Coming(i)' => i \in used')
  BY <1>1 DEF Spawning, Coming, Launch
<1>3. i \in used => (Spawning(i)' => Spawning(i)) /\ (Coming(i)' => Coming(i))
  BY ComingFades
<1> QED BY <1>2, <1>3

(* The only call that starts an id has moved on.                           *)
LEMMA MovedOn ==
  ASSUME OneStart, NEW c \in Callers, NEW P, NEW i \in Ids, call[c].new = i,
         \A d \in Callers : d # c => call'[d] = call[d],
         call'[c].new = i => call'[c].pc \notin P
  PROVE  ~Launch(i, P)'
<1>1. ASSUME NEW d \in Callers, call'[d].new = i, call'[d].pc \in P PROVE FALSE
  <2>1. CASE d = c
    BY <1>1, <2>1
  <2>2. CASE d # c
    BY <1>1, <2>2, NoIdAssumption DEF OneStart
  <2> QED BY <2>1, <2>2
<1> QED BY <1>1 DEF Launch

(* Births.                                                                 *)
LEMMA BornStep ==
  ASSUME Shape, OneStart, StagesOK, BornsOK, [Next]_vars
  PROVE  BornsOK'
<1> SUFFICES ASSUME NEW i \in Ids PROVE BornOK(i)'
  BY DEF BornsOK
<1>90. BornOK(i) /\ running \subseteq used
  BY DEF BornsOK, Shape, SetTypes
<1>91. ASSUME i \in used' => i \in used
       PROVE  (Spawning(i)' => Spawning(i)) /\ (Coming(i)' => Coming(i))
  BY <1>91, NothingComes
<1>92. (Spawning(i) => Coming(i)) /\ (Coming(i) => i \in used /\ Serving)
  BY ComingServes
<1>93. MapTypes /\ call \in [Doers -> Calls]
  BY DEF Shape, CallTypes
<1>94. Main \notin Callers
  BY MainAssumption
<1> USE <1>90, <1>91, <1>92, <1>93
<1> USE DEF BornOK, MapTypes, storeVars, memVars, driveVars, bootVars, obsVars
<1>1. ASSUME NEW j \in Ids, AddrRead(j) PROVE BornOK(i)'
  BY <1>1 DEF AddrRead
<1>2. ASSUME NEW j \in Ids, AddrStore(j) PROVE BornOK(i)'
  BY <1>2 DEF AddrStore
<1>3. ASSUME NEW j \in Ids, LifeUp(j) PROVE BornOK(i)'
  BY <1>3 DEF LifeUp, SetRec
<1>4. ASSUME NEW j \in Ids, ServeListens(j) PROVE BornOK(i)'
  BY <1>4 DEF ServeListens, Leaves
<1>5. ASSUME NEW j \in Ids, ServeWritesPid(j) PROVE BornOK(i)'
  BY <1>5 DEF ServeWritesPid, Leaves
<1>6. ASSUME NEW j \in Ids, ServeDies(j) PROVE BornOK(i)'
  BY <1>6 DEF ServeDies
<1>7. ASSUME NEW j \in Ids, Reattach(j) PROVE BornOK(i)'
  BY <1>7 DEF Reattach, Serving
<1>8. ASSUME NEW j \in Ids, FoundDead(j) PROVE BornOK(i)'
  BY <1>8 DEF FoundDead
<1>9. ASSUME NEW j \in Ids, NothingToStop(j) PROVE BornOK(i)'
  BY <1>9 DEF NothingToStop
<1>10. ASSUME NEW c \in Callers, NEW j \in Ids, DeleteCall(c, j) PROVE BornOK(i)'
  BY <1>10 DEF DeleteCall
<1>11. ASSUME NEW c \in Callers, NEW j \in Ids, NEW from \in Ids \cup {NoId}, StartCall(c, j, from)
      PROVE  BornOK(i)'
  BY <1>11 DEF StartCall
<1>12. ASSUME NEW c \in Doers, SpawnRefused(c) PROVE BornOK(i)'
  BY <1>12 DEF SpawnRefused, SetRec, Return
<1>13. ASSUME NEW c \in Doers, Spawn(c) PROVE BornOK(i)'
  <2>1. c \in Callers /\ call[c].new \in used /\ call[c].new \in Ids
    BY <1>13, CallFacts DEF Spawn, Launching, Shape
  <2>2. ASSUME call[c].new = i PROVE ~Launch(i, {"spawn"})'
    <3>1. call'[c].new = i => call'[c].pc \notin {"spawn"}
      BY <1>13, <2>1 DEF Spawn, At, NoCall, Launching, Doers
    <3>2. \A d \in Callers : d # c => call'[d] = call[d]
      BY <1>13, <2>1 DEF Spawn, At, Doers
    <3> QED BY <2>1, <2>2, <3>1, <3>2, MovedOn
  <2> QED BY <1>13, <2>1, <2>2 DEF Spawn, At, Spawning
<1>14. ASSUME NEW c \in Doers, SpawnReady(c) PROVE BornOK(i)'
  BY <1>14 DEF SpawnReady, At
<1>15. ASSUME NEW c \in Doers, SpawnFails(c) PROVE BornOK(i)'
  <2>1. c \in Callers /\ call[c].new \in used /\ call[c].new \in Ids
    BY <1>15, CallFacts DEF SpawnFails, GivesUp, Launching, Shape
  <2>2. ASSUME call[c].new = i PROVE ~Launch(i, {"spawn"})'
    <3>1. call'[c].new = i => call'[c].pc \notin {"spawn"}
      BY <1>15, <2>1 DEF SpawnFails, SetRec, Return, GivesUp, NoCall, Doers
    <3>2. \A d \in Callers : d # c => call'[d] = call[d]
      BY <1>15, <2>1 DEF SpawnFails, SetRec, Return, GivesUp, Doers
    <3> QED BY <2>1, <2>2, <3>1, <3>2, MovedOn
  <2>3. CASE call[c].new = i
    BY <1>15, <2>1, <2>2, <2>3 DEF SpawnFails, SetRec, Return, GivesUp, Spawning
  <2>4. CASE call[c].new # i
    <3>1. rec'[i] = rec[i] /\ proc'[i] = proc[i] /\ UNCHANGED <<used, dir, life, running>>
      BY <1>15, <2>1, <2>4 DEF SpawnFails, SetRec, Return, GivesUp
    <3> QED BY <3>1
  <2> QED BY <2>3, <2>4
<1>16. ASSUME NEW c \in Doers, Register(c) PROVE BornOK(i)'
  <2>1. c \in Callers /\ call[c].new \in used /\ call[c].new \in Ids
    BY <1>16, CallFacts DEF Register, Launching, Shape
  <2>2. ASSUME call[c].new = i PROVE ~Launch(i, Launching)'
    <3>1. call'[c].new = i => call'[c].pc \notin Launching
      <4>1. call'[c] = [call[c] EXCEPT !.pc = "kill"] \/ call'[c] = NoCall
        BY <1>16 DEF Register, At, Return
      <4>2. call[c] \in Calls
        BY CallFacts DEF Shape
      <4>3. call'[c].pc = "kill" \/ call'[c].new = NoId
        BY <4>1, <4>2 DEF Calls, NoCall
      <4> QED BY <4>3, NoIdAssumption DEF Launching
    <3>2. \A d \in Callers : d # c => call'[d] = call[d]
      BY <1>16, <2>1 DEF Register, At, Return, Doers
    <3> QED BY <2>1, <2>2, <3>1, <3>2, MovedOn
  <2> QED BY <1>16, <2>1, <2>2 DEF Register, At, Return, Coming
<1>17. ASSUME NEW c \in Doers, Kill(c) PROVE BornOK(i)'
  BY <1>17 DEF Kill, At, DropCache
<1>18. ASSUME NEW c \in Doers, Grace(c) PROVE BornOK(i)'
  <2>1. call[c].id \in used /\ call[c].id \in Ids
    BY <1>18, CallFacts DEF Grace, Teardown, Shape
  <2>2. call[c].id = i => StageAt(c, i)
    BY DEF StagesOK
  <2>3. call[c].id = i => ~Spawning(i)
    BY <1>18, <2>2 DEF Grace, StageAt
  <2> QED BY <1>18, <2>1, <2>3 DEF Grace, At
<1>19. ASSUME NEW c \in Doers, Clean(c) PROVE BornOK(i)'
  BY <1>19 DEF Clean, At, Return, DropCache
<1>20. ASSUME NEW c \in Doers, Cancel(c) PROVE BornOK(i)'
  BY <1>20 DEF Cancel, At, SetRec
<1>21. ASSUME NEW c \in Doers, Unrun(c) PROVE BornOK(i)'
  <2>1. call[c].id = i => StageAt(c, i)
    BY DEF StagesOK
  <2>2. call[c].id = i => life[i] = "none"
    BY <1>21, <2>1 DEF Unrun, StageAt
  <2> QED BY <1>21, <2>2 DEF Unrun
<1>22. ASSUME NEW c \in Doers, Link(c) PROVE BornOK(i)'
  BY <1>22 DEF Link, Return
<1>23. ASSUME NEW c \in Doers, NEW j \in Ids, StopCall(c, j) PROVE BornOK(i)'
  BY <1>23 DEF StopCall
<1>24. CASE Boot
  BY <1>24 DEF Boot
<1>25. CASE ReconcileSave
  BY <1>25 DEF ReconcileSave, Shape, SetTypes
<1>26. CASE Shutdown
  BY <1>26 DEF Shutdown
<1>27. CASE ShutdownEnds
  BY <1>27 DEF ShutdownEnds, ProcessEnds
<1>28. CASE Crash
  BY <1>28 DEF Crash, ProcessEnds
<1>29. CASE UNCHANGED vars
  BY <1>29 DEF vars
<1> QED BY <1>1, <1>2, <1>3, <1>4, <1>5, <1>6, <1>7, <1>8, <1>9, <1>10, <1>11,
   <1>12, <1>13, <1>14, <1>15, <1>16, <1>17, <1>18, <1>19, <1>20, <1>21, <1>22,
   <1>23, <1>24, <1>25, <1>26, <1>27, <1>28, <1>29 DEF Next, CallStep, Doers

(* Nothing revives an instance whose lifecycle Stop has ended.             *)
LEMMA NothingRevives ==
  ASSUME Shape, BornsOK, StagesOK, NEW e \in Doers, NEW i \in Ids, call[e].id = i,
         call[e].pc = "unrun", [Next]_vars
  PROVE  life'[i] = "none" /\ rec'[i] \notin Active
<1> DEFINE Still == life'[i] = "none" /\ rec'[i] \notin Active
<1>0. /\ life[i] = "none" /\ rec[i] \notin Active /\ ~Coming(i) /\ i \in used /\ Serving
      /\ MapTypes /\ DaemonTypes
  <2>1. call[e].op = "stop" /\ call[e].id \in used /\ Acts(e)
    BY CallFacts DEF Shape, CallsOK, CallOK, NoCall, Launching, Teardown
  <2>2. StageAt(e, i)
    BY DEF StagesOK
  <2> QED BY <2>1, <2>2 DEF StageAt, Acts, Shape, Serving
<1> USE <1>0
<1> USE DEF Active, MapTypes, storeVars, memVars, driveVars, bootVars, obsVars
<1>1. ASSUME NEW j \in Ids, AddrRead(j) PROVE Still
  BY <1>1 DEF AddrRead
<1>2. ASSUME NEW j \in Ids, AddrStore(j) PROVE Still
  BY <1>2 DEF AddrStore
<1>3. ASSUME NEW j \in Ids, LifeUp(j) PROVE Still
  BY <1>3 DEF LifeUp, SetRec
<1>4. ASSUME NEW j \in Ids, ServeListens(j) PROVE Still
  BY <1>4 DEF ServeListens, Leaves
<1>5. ASSUME NEW j \in Ids, ServeWritesPid(j) PROVE Still
  BY <1>5 DEF ServeWritesPid, Leaves
<1>6. ASSUME NEW j \in Ids, ServeDies(j) PROVE Still
  BY <1>6 DEF ServeDies
<1>7. ASSUME NEW j \in Ids, Reattach(j) PROVE Still
  BY <1>7 DEF Reattach, Serving
<1>8. ASSUME NEW j \in Ids, FoundDead(j) PROVE Still
  BY <1>8 DEF FoundDead
<1>9. ASSUME NEW j \in Ids, NothingToStop(j) PROVE Still
  BY <1>9 DEF NothingToStop
<1>10. ASSUME NEW c \in Callers, NEW j \in Ids, DeleteCall(c, j) PROVE Still
  BY <1>10 DEF DeleteCall
<1>11. ASSUME NEW c \in Callers, NEW j \in Ids, NEW from \in Ids \cup {NoId}, StartCall(c, j, from)
      PROVE  Still
  BY <1>11 DEF StartCall
<1>12. ASSUME NEW c \in Doers, SpawnRefused(c) PROVE Still
  BY <1>12 DEF SpawnRefused, SetRec, Return
<1>13. ASSUME NEW c \in Doers, Spawn(c) PROVE Still
  BY <1>13 DEF Spawn, At
<1>14. ASSUME NEW c \in Doers, SpawnReady(c) PROVE Still
  BY <1>14 DEF SpawnReady, At
<1>15. ASSUME NEW c \in Doers, SpawnFails(c) PROVE Still
  BY <1>15 DEF SpawnFails, SetRec, Return, GivesUp
<1>16. ASSUME NEW c \in Doers, Register(c) PROVE Still
  <2>1. c \in Callers /\ call[c].pc \in Launching
    BY <1>16, CallFacts DEF Shape, Register, Launching
  <2>2. call[c].new # i
    BY <1>0, <2>1 DEF Coming, Launch
  <2>3. life'[i] = life[i] /\ rec' = rec
    BY <1>16, <2>2 DEF Register, At, Return
  <2> QED BY <1>0, <2>3
<1>17. ASSUME NEW c \in Doers, Kill(c) PROVE Still
  BY <1>17 DEF Kill, At, DropCache
<1>18. ASSUME NEW c \in Doers, Grace(c) PROVE Still
  BY <1>18 DEF Grace, At
<1>19. ASSUME NEW c \in Doers, Clean(c) PROVE Still
  BY <1>19 DEF Clean, At, Return, DropCache
<1>20. ASSUME NEW c \in Doers, Cancel(c) PROVE Still
  BY <1>20 DEF Cancel, At, SetRec
<1>21. ASSUME NEW c \in Doers, Unrun(c) PROVE Still
  BY <1>21 DEF Unrun, Return
<1>22. ASSUME NEW c \in Doers, Link(c) PROVE Still
  BY <1>22 DEF Link, Return
<1>23. ASSUME NEW c \in Doers, NEW j \in Ids, StopCall(c, j) PROVE Still
  BY <1>23 DEF StopCall
<1>24. CASE Boot
  BY <1>24 DEF Boot
<1>25. CASE ReconcileSave
  BY <1>25 DEF ReconcileSave
<1>26. CASE Shutdown
  BY <1>26 DEF Shutdown
<1>27. CASE ShutdownEnds
  BY <1>27 DEF ShutdownEnds, ProcessEnds
<1>28. CASE Crash
  BY <1>28 DEF Crash, ProcessEnds
<1>29. CASE UNCHANGED vars
  BY <1>29 DEF vars
<1> QED BY <1>1, <1>2, <1>3, <1>4, <1>5, <1>6, <1>7, <1>8, <1>9, <1>10, <1>11,
   <1>12, <1>13, <1>14, <1>15, <1>16, <1>17, <1>18, <1>19, <1>20, <1>21, <1>22,
   <1>23, <1>24, <1>25, <1>26, <1>27, <1>28, <1>29 DEF Next, CallStep, Doers

(* The point where a call is stays true of its instance until it moves on. *)
LEMMA StageStays ==
  ASSUME Shape, BornsOK, StagesOK, [Next]_vars, NEW e \in Doers, NEW i \in Ids,
         call[e].id = i, call'[e] = call[e]
  PROVE  StageAt(e, i)'
<1>1. StageAt(e, i)
  BY DEF StagesOK
<1>2. CASE call[e].op \in {"none", "start"}
  <2>1. call[e].pc \in Launching \cup {"idle"}
    BY <1>2 DEF Shape, CallsOK, CallOK
  <2> QED BY <1>2, <2>1 DEF StageAt, Launching
<1>3. CASE call[e].op \in {"restart", "stop", "delete"}
  <2>1. i \in used
    BY <1>3 DEF Shape, CallsOK, CallOK
  <2>2. (Torn(i) => Torn(i)') /\ (Gone(i) => Gone(i)')
    BY <2>1, TornStays
  <2>3. (Spawning(i)' => Spawning(i)) /\ (Coming(i)' => Coming(i))
    BY <2>1, ComingFades
  <2>4. call[e].pc = "unrun" => life'[i] = "none" /\ rec'[i] \notin Active
    BY NothingRevives
  <2> QED BY <1>1, <2>2, <2>3, <2>4 DEF StageAt
<1> QED BY <1>2, <1>3 DEF Shape, CallTypes, Calls

(* Every step keeps them all.                                             *)
LEMMA StageStep ==
  ASSUME Shape, TokenFirst, BornsOK, StagesOK, [Next]_vars
  PROVE  StagesOK'
<1> SUFFICES ASSUME NEW e \in Doers, NEW i \in Ids, call'[e].id = i PROVE StageAt(e, i)'
  BY DEF StagesOK
<1>91. ASSUME call'[e] = call[e] PROVE StageAt(e, i)'
  BY <1>91, StageStays
<1>92. DOMAIN call = Doers /\ call[e] \in Calls /\ call \in [Doers -> Calls]
  BY DEF Shape, CallTypes
<1>93. ASSUME call'[e].pc \in Launching \cup {"idle", "kill"}, call'[e].op # "stop"
       PROVE  StageAt(e, i)'
  BY <1>93 DEF StageAt, Launching
<1> USE <1>91, <1>92
<1> USE DEF Launching, Doers, NoCall, Calls, storeVars, memVars, driveVars,
   bootVars, obsVars
<1>1. ASSUME NEW j \in Ids, AddrRead(j) PROVE StageAt(e, i)'
  BY <1>1 DEF AddrRead
<1>2. ASSUME NEW j \in Ids, AddrStore(j) PROVE StageAt(e, i)'
  BY <1>2 DEF AddrStore
<1>3. ASSUME NEW j \in Ids, LifeUp(j) PROVE StageAt(e, i)'
  BY <1>3 DEF LifeUp, SetRec
<1>4. ASSUME NEW j \in Ids, ServeListens(j) PROVE StageAt(e, i)'
  BY <1>4 DEF ServeListens, Leaves
<1>5. ASSUME NEW j \in Ids, ServeWritesPid(j) PROVE StageAt(e, i)'
  BY <1>5 DEF ServeWritesPid, Leaves
<1>6. ASSUME NEW j \in Ids, ServeDies(j) PROVE StageAt(e, i)'
  BY <1>6 DEF ServeDies
<1>7. ASSUME NEW j \in Ids, Reattach(j) PROVE StageAt(e, i)'
  BY <1>7 DEF Reattach
<1>8. ASSUME NEW j \in Ids, FoundDead(j) PROVE StageAt(e, i)'
  BY <1>8 DEF FoundDead
<1>9. ASSUME NEW j \in Ids, NothingToStop(j) PROVE StageAt(e, i)'
  BY <1>9 DEF NothingToStop
<1>10. ASSUME NEW c \in Callers, NEW j \in Ids, DeleteCall(c, j) PROVE StageAt(e, i)'
  <2>1. CASE e = c
    <3>1. call'[e].pc = "kill" /\ call'[e].op # "stop"
      BY <1>10, <2>1 DEF DeleteCall
    <3> QED BY <1>93, <3>1
  <2>2. CASE e # c
    BY <1>10, <2>2 DEF DeleteCall
  <2> QED BY <2>1, <2>2
<1>11. ASSUME NEW c \in Callers, NEW j \in Ids, NEW from \in Ids \cup {NoId}, StartCall(c, j, from)
      PROVE  StageAt(e, i)'
  <2>1. CASE e = c
    <3>1. call'[e].pc = "spawn" /\ call'[e].op # "stop"
      BY <1>11, <2>1 DEF StartCall
    <3> QED BY <1>93, <3>1
  <2>2. CASE e # c
    BY <1>11, <2>2 DEF StartCall
  <2> QED BY <2>1, <2>2
<1>12. ASSUME NEW c \in Doers, SpawnRefused(c) PROVE StageAt(e, i)'
  <2>1. CASE e = c
    BY <1>12, <2>1 DEF SpawnRefused, SetRec, Return, StageAt
  <2>2. CASE e # c
    BY <1>12, <2>2 DEF SpawnRefused, SetRec, Return
  <2> QED BY <2>1, <2>2
<1>13. ASSUME NEW c \in Doers, Spawn(c) PROVE StageAt(e, i)'
  <2>1. CASE e = c
    <3>1. call[c].op \in {"start", "restart"}
      BY <1>13, CallFacts DEF Spawn, At, Shape, Launching
    <3>6. call'[e].pc = "ready" /\ call'[e].op = call[c].op
      BY <1>13, <2>1 DEF Spawn, At
    <3> QED BY <1>93, <3>1, <3>6
  <2>2. CASE e # c
    BY <1>13, <2>2 DEF Spawn, At
  <2> QED BY <2>1, <2>2
<1>14. ASSUME NEW c \in Doers, SpawnReady(c) PROVE StageAt(e, i)'
  <2>1. CASE e = c
    <3>1. call[c].op \in {"start", "restart"}
      BY <1>14, CallFacts DEF SpawnReady, At, Shape, Launching
    <3>6. call'[e].pc = "register" /\ call'[e].op = call[c].op
      BY <1>14, <2>1 DEF SpawnReady, At
    <3> QED BY <1>93, <3>1, <3>6
  <2>2. CASE e # c
    BY <1>14, <2>2 DEF SpawnReady, At
  <2> QED BY <2>1, <2>2
<1>15. ASSUME NEW c \in Doers, SpawnFails(c) PROVE StageAt(e, i)'
  <2>1. CASE e = c
    BY <1>15, <2>1 DEF SpawnFails, SetRec, Return, GivesUp, StageAt
  <2>2. CASE e # c
    BY <1>15, <2>2 DEF SpawnFails, SetRec, Return, GivesUp
  <2> QED BY <2>1, <2>2
<1>16. ASSUME NEW c \in Doers, Register(c) PROVE StageAt(e, i)'
  <2>1. CASE e = c
    <3>1. call[c].op \in {"start", "restart"}
      BY <1>16, CallFacts DEF Register, At, Return, Shape, Launching
    <3>2. CASE call[c].op = "restart"
      <4>1. call'[e].pc = "kill" /\ call'[e].op = "restart"
        BY <1>16, <2>1, <3>2 DEF Register, At, Return
      <4> QED BY <1>93, <4>1
    <3>3. CASE call[c].op # "restart"
      <4>1. call'[e].pc = "idle" /\ call'[e].op = "none"
        BY <1>16, <2>1, <3>3 DEF Register, At, Return
      <4> QED BY <1>93, <4>1
    <3> QED BY <3>2, <3>3
  <2>2. CASE e # c
    BY <1>16, <2>2 DEF Register, At, Return
  <2> QED BY <2>1, <2>2
<1>17. ASSUME NEW c \in Doers, Kill(c) PROVE StageAt(e, i)'
  <2>1. CASE e = c
    <3>1. i \in used /\ call[c].id = i /\ i \in Ids
      BY <1>17, <2>1, CallFacts, NoIdAssumption DEF Kill, At, DropCache, Shape, Teardown
    <3>2. StageAt(c, i) /\ BornOK(i)
      BY <3>1 DEF StagesOK, BornsOK
    <3>3. (Spawning(i)' => Spawning(i)) /\ (Coming(i)' => Coming(i))
      BY <3>1, ComingFades
    <3>4. (Torn(i) => Torn(i)') /\ (Gone(i) => Gone(i)')
      BY <3>1, TornStays
    <3>5. call[c].op = "stop" => ~Coming(i)'
      BY <3>2, <3>3 DEF StageAt
    <3>6. call'[e].op = call[c].op
      BY <1>17, <2>1 DEF Kill, At, DropCache
    <3>7. CASE "pid" \in dir[i]
      <4>1. call'[e].pc = "grace"
        BY <1>17, <2>1, <3>1, <3>7 DEF Kill, At, DropCache
      <4>2. ~Spawning(i)'
        BY <3>2, <3>3, <3>7 DEF BornOK
      <4> QED BY <2>1, <3>5, <3>6, <4>1, <4>2 DEF StageAt
    <3>8. CASE "pid" \notin dir[i]
      <4>1. /\ call'[e].pc = "clean"
            /\ early' = IF Alive(i) \/ Starting(i) THEN early \cup {i} ELSE early
        BY <1>17, <2>1, <3>1, <3>8 DEF Kill, At, DropCache
      <4>2. Spawning(i) => Starting(i)
        BY DEF Spawning, Launch, Starting
      <4>3. Torn(i)'
        BY <3>4, <4>1, <4>2 DEF Torn
      <4> QED BY <2>1, <3>5, <3>6, <4>1, <4>3 DEF StageAt
    <3> QED BY <3>7, <3>8
  <2>2. CASE e # c
    BY <1>17, <2>2 DEF Kill, At, DropCache
  <2> QED BY <2>1, <2>2
<1>18. ASSUME NEW c \in Doers, Grace(c) PROVE StageAt(e, i)'
  <2>1. CASE e = c
    <3>1. i \in used /\ call[c].id = i /\ i \in Ids
      BY <1>18, <2>1, CallFacts, NoIdAssumption DEF Grace, At, Shape, Teardown
    <3>2. StageAt(c, i) /\ BornOK(i)
      BY <3>1 DEF StagesOK, BornsOK
    <3>3. (Spawning(i)' => Spawning(i)) /\ (Coming(i)' => Coming(i))
      BY <3>1, ComingFades
    <3>4. (Torn(i) => Torn(i)') /\ (Gone(i) => Gone(i)')
      BY <3>1, TornStays
    <3>5. call[c].op = "stop" => ~Coming(i)'
      BY <3>2, <3>3 DEF StageAt
    <3>6. call'[e].pc = "clean" /\ call'[e].op = call[c].op
      BY <1>18, <2>1 DEF Grace, At
    <3>7. ~Spawning(i)'
      BY <1>18, <3>2, <3>3 DEF Grace, StageAt
    <3>8. ~Alive(i)'
      <4>1. proc'[i] = "dead"
        BY <1>18, <3>1 DEF Grace, Shape, MapTypes
      <4> QED BY <4>1 DEF Alive
    <3>9. Torn(i)'
      BY <3>7, <3>8 DEF Torn
    <3> QED BY <2>1, <3>5, <3>6, <3>9 DEF StageAt
  <2>2. CASE e # c
    BY <1>18, <2>2 DEF Grace, At
  <2> QED BY <2>1, <2>2
<1>19. ASSUME NEW c \in Doers, Clean(c) PROVE StageAt(e, i)'
  <2>1. CASE e = c
    <3>1. i \in used /\ call[c].id = i /\ i \in Ids
      BY <1>19, <2>1, CallFacts, NoIdAssumption DEF Clean, At, Return, DropCache, Shape, Teardown
    <3>2. StageAt(c, i) /\ BornOK(i)
      BY <3>1 DEF StagesOK, BornsOK
    <3>3. (Spawning(i)' => Spawning(i)) /\ (Coming(i)' => Coming(i))
      BY <3>1, ComingFades
    <3>4. (Torn(i) => Torn(i)') /\ (Gone(i) => Gone(i)')
      BY <3>1, TornStays
    <3>5. call[c].op = "stop" => ~Coming(i)'
      BY <3>2, <3>3 DEF StageAt
    <3>6. Torn(i)' /\ dir'[i] = {}
      BY <1>19, <3>1, <3>2, <3>4 DEF Clean, At, Return, DropCache, StageAt, Shape, MapTypes
    <3>7. Gone(i)'
      BY <3>6 DEF Torn, Gone
    <3>8. CASE call[c].op = "delete"
      <4>1. call'[e] = NoCall
        BY <1>19, <2>1, <3>8 DEF Clean, At, Return, DropCache
      <4> QED BY <1>93, <4>1
    <3>9. CASE call[c].op # "delete"
      <4>1. call'[e].pc \in {"cancel", "link"} /\ call'[e].op = call[c].op
        BY <1>19, <2>1, <3>9 DEF Clean, At, Return, DropCache
      <4> QED BY <2>1, <3>5, <3>7, <4>1 DEF StageAt
    <3> QED BY <3>8, <3>9
  <2>2. CASE e # c
    BY <1>19, <2>2 DEF Clean, At, Return, DropCache
  <2> QED BY <2>1, <2>2
<1>20. ASSUME NEW c \in Doers, Cancel(c) PROVE StageAt(e, i)'
  <2>1. CASE e = c
    <3>1. i \in used /\ call[c].id = i /\ i \in Ids
      BY <1>20, <2>1, CallFacts, NoIdAssumption DEF Cancel, At, SetRec, Shape, Teardown
    <3>2. StageAt(c, i) /\ BornOK(i)
      BY <3>1 DEF StagesOK, BornsOK
    <3>3. (Spawning(i)' => Spawning(i)) /\ (Coming(i)' => Coming(i))
      BY <3>1, ComingFades
    <3>4. (Torn(i) => Torn(i)') /\ (Gone(i) => Gone(i)')
      BY <3>1, TornStays
    <3>5. call[c].op = "stop" => ~Coming(i)'
      BY <3>2, <3>3 DEF StageAt
    <3>6. call'[e].pc = "unrun" /\ call'[e].op = call[c].op
      BY <1>20, <2>1 DEF Cancel, At, SetRec
    <3>7. Gone(i)'
      BY <1>20, <3>2, <3>4 DEF Cancel, StageAt
    <3>8. life'[i] = "none" /\ rec'[i] \notin Active
      BY <1>20, <3>1 DEF Cancel, SetRec, Active, Shape, MapTypes
    <3> QED BY <2>1, <3>5, <3>6, <3>7, <3>8 DEF StageAt
  <2>2. CASE e # c
    BY <1>20, <2>2 DEF Cancel, At, SetRec
  <2> QED BY <2>1, <2>2
<1>21. ASSUME NEW c \in Doers, Unrun(c) PROVE StageAt(e, i)'
  <2>1. CASE e = c
    BY <1>21, <2>1 DEF Unrun, Return, StageAt
  <2>2. CASE e # c
    BY <1>21, <2>2 DEF Unrun, Return
  <2> QED BY <2>1, <2>2
<1>22. ASSUME NEW c \in Doers, Link(c) PROVE StageAt(e, i)'
  <2>1. CASE e = c
    BY <1>22, <2>1 DEF Link, Return, StageAt
  <2>2. CASE e # c
    BY <1>22, <2>2 DEF Link, Return
  <2> QED BY <2>1, <2>2
<1>23. ASSUME NEW c \in Doers, NEW j \in Ids, StopCall(c, j) PROVE StageAt(e, i)'
  <2>1. CASE e = c
    <3>1. i = j /\ j \in used /\ BornOK(j) /\ call'[e].pc = "kill"
      BY <1>23, <2>1 DEF StopCall, BornsOK, Shape, SetTypes
    <3>2. ~Coming(i)'
      BY <1>23, <3>1, ComingFades DEF StopCall, BornOK
    <3> QED BY <2>1, <3>1, <3>2 DEF StageAt
  <2>2. CASE e # c
    BY <1>23, <2>2 DEF StopCall
  <2> QED BY <2>1, <2>2
<1>24. CASE Boot
  BY <1>24 DEF Boot
<1>25. CASE ReconcileSave
  BY <1>25 DEF ReconcileSave
<1>26. CASE Shutdown
  BY <1>26 DEF Shutdown
<1>27. CASE ShutdownEnds
  <2>1. call'[e] = NoCall
    BY <1>27 DEF ShutdownEnds, ProcessEnds, Doers
  <2> QED BY <1>93, <2>1 DEF NoCall
<1>28. CASE Crash
  <2>1. call'[e] = NoCall
    BY <1>28 DEF Crash, ProcessEnds, Doers
  <2> QED BY <1>93, <2>1 DEF NoCall
<1>29. CASE UNCHANGED vars
  BY <1>29 DEF vars
<1> QED BY <1>1, <1>2, <1>3, <1>4, <1>5, <1>6, <1>7, <1>8, <1>9, <1>10, <1>11,
   <1>12, <1>13, <1>14, <1>15, <1>16, <1>17, <1>18, <1>19, <1>20, <1>21, <1>22,
   <1>23, <1>24, <1>25, <1>26, <1>27, <1>28, <1>29 DEF Next, CallStep, Doers

(* A deletion goes on until its instance is gone or the daemon ends.       *)
LEMMA DeletionEnds ==
  ASSUME Shape, StagesOK, NEW i \in Ids, NEW d \in Callers, call[d].op = "delete",
         call[d].id = i, [Next]_vars
  PROVE  Deleting(i)' \/ Gone(i)' \/ i \in cut'
<1> DEFINE Ends == Deleting(i)' \/ Gone(i)' \/ i \in cut'
<1>0. /\ d \in Doers /\ call[d] \in Calls /\ call[d].pc \in Teardown /\ i \in used
      /\ DOMAIN call = Doers /\ call \in [Doers -> Calls]
  BY DEF Shape, CallsOK, CallOK, CallTypes, Doers
<1>90. call'[d].op = "delete" /\ call'[d].id = i => Deleting(i)'
  BY DEF Deleting
<1> USE <1>0, <1>90
<1> USE DEF Doers, Teardown, NoCall, Calls, storeVars, memVars, driveVars,
   bootVars, obsVars
<1>1. ASSUME NEW j \in Ids, AddrRead(j) PROVE Ends
  BY <1>1 DEF AddrRead
<1>2. ASSUME NEW j \in Ids, AddrStore(j) PROVE Ends
  BY <1>2 DEF AddrStore
<1>3. ASSUME NEW j \in Ids, LifeUp(j) PROVE Ends
  BY <1>3 DEF LifeUp, SetRec
<1>4. ASSUME NEW j \in Ids, ServeListens(j) PROVE Ends
  BY <1>4 DEF ServeListens, Leaves
<1>5. ASSUME NEW j \in Ids, ServeWritesPid(j) PROVE Ends
  BY <1>5 DEF ServeWritesPid, Leaves
<1>6. ASSUME NEW j \in Ids, ServeDies(j) PROVE Ends
  BY <1>6 DEF ServeDies
<1>7. ASSUME NEW j \in Ids, Reattach(j) PROVE Ends
  BY <1>7 DEF Reattach
<1>8. ASSUME NEW j \in Ids, FoundDead(j) PROVE Ends
  BY <1>8 DEF FoundDead
<1>9. ASSUME NEW j \in Ids, NothingToStop(j) PROVE Ends
  BY <1>9 DEF NothingToStop
<1>10. ASSUME NEW c \in Callers, NEW j \in Ids, DeleteCall(c, j) PROVE Ends
  BY <1>10 DEF DeleteCall
<1>11. ASSUME NEW c \in Callers, NEW j \in Ids, NEW from \in Ids \cup {NoId}, StartCall(c, j, from)
      PROVE  Ends
  BY <1>11 DEF StartCall
<1>12. ASSUME NEW c \in Doers, SpawnRefused(c) PROVE Ends
  <2>1. CASE d = c
    BY <1>12, <2>1 DEF SpawnRefused, SetRec, Return
  <2>2. CASE d # c
    BY <1>12, <2>2 DEF SpawnRefused, SetRec, Return
  <2> QED BY <2>1, <2>2
<1>13. ASSUME NEW c \in Doers, Spawn(c) PROVE Ends
  <2>1. CASE d = c
    BY <1>13, <2>1 DEF Spawn, At
  <2>2. CASE d # c
    BY <1>13, <2>2 DEF Spawn, At
  <2> QED BY <2>1, <2>2
<1>14. ASSUME NEW c \in Doers, SpawnReady(c) PROVE Ends
  <2>1. CASE d = c
    BY <1>14, <2>1 DEF SpawnReady, At
  <2>2. CASE d # c
    BY <1>14, <2>2 DEF SpawnReady, At
  <2> QED BY <2>1, <2>2
<1>15. ASSUME NEW c \in Doers, SpawnFails(c) PROVE Ends
  <2>1. CASE d = c
    BY <1>15, <2>1 DEF SpawnFails, SetRec, Return, GivesUp
  <2>2. CASE d # c
    BY <1>15, <2>2 DEF SpawnFails, SetRec, Return, GivesUp
  <2> QED BY <2>1, <2>2
<1>16. ASSUME NEW c \in Doers, Register(c) PROVE Ends
  <2>1. CASE d = c
    BY <1>16, <2>1 DEF Register, At, Return
  <2>2. CASE d # c
    BY <1>16, <2>2 DEF Register, At, Return
  <2> QED BY <2>1, <2>2
<1>17. ASSUME NEW c \in Doers, Kill(c) PROVE Ends
  <2>1. CASE d = c
    BY <1>17, <2>1 DEF Kill, At, DropCache
  <2>2. CASE d # c
    BY <1>17, <2>2 DEF Kill, At, DropCache
  <2> QED BY <2>1, <2>2
<1>18. ASSUME NEW c \in Doers, Grace(c) PROVE Ends
  <2>1. CASE d = c
    BY <1>18, <2>1 DEF Grace, At
  <2>2. CASE d # c
    BY <1>18, <2>2 DEF Grace, At
  <2> QED BY <2>1, <2>2
<1>19. ASSUME NEW c \in Doers, Clean(c) PROVE Ends
  <2>1. CASE d = c
    <3>1. StageAt(d, i)
      BY DEF StagesOK
    <3>2. Torn(i)
      BY <1>19, <2>1, <3>1 DEF Clean, StageAt
    <3>3. Torn(i)' /\ dir'[i] = {}
      BY <1>19, <2>1, <3>2, TornStays DEF Clean, At, Return, DropCache, Shape, MapTypes
    <3> QED BY <3>3 DEF Torn, Gone
  <2>2. CASE d # c
    BY <1>19, <2>2 DEF Clean, At, Return, DropCache
  <2> QED BY <2>1, <2>2
<1>20. ASSUME NEW c \in Doers, Cancel(c) PROVE Ends
  <2>1. CASE d = c
    BY <1>20, <2>1 DEF Cancel, At, SetRec
  <2>2. CASE d # c
    BY <1>20, <2>2 DEF Cancel, At, SetRec
  <2> QED BY <2>1, <2>2
<1>21. ASSUME NEW c \in Doers, Unrun(c) PROVE Ends
  <2>1. CASE d = c
    BY <1>21, <2>1 DEF Unrun, Return
  <2>2. CASE d # c
    BY <1>21, <2>2 DEF Unrun, Return
  <2> QED BY <2>1, <2>2
<1>22. ASSUME NEW c \in Doers, Link(c) PROVE Ends
  <2>1. CASE d = c
    BY <1>22, <2>1 DEF Link, Return
  <2>2. CASE d # c
    BY <1>22, <2>2 DEF Link, Return
  <2> QED BY <2>1, <2>2
<1>23. ASSUME NEW c \in Doers, NEW j \in Ids, StopCall(c, j) PROVE Ends
  BY <1>23 DEF StopCall
<1>24. CASE Boot
  BY <1>24 DEF Boot
<1>25. CASE ReconcileSave
  BY <1>25 DEF ReconcileSave
<1>26. CASE Shutdown
  BY <1>26 DEF Shutdown
<1>27. CASE ShutdownEnds
  <2>1. i \in cut'
    BY <1>27 DEF ShutdownEnds, ProcessEnds
  <2> QED BY <2>1
<1>28. CASE Crash
  <2>1. i \in cut'
    BY <1>28 DEF Crash, ProcessEnds
  <2> QED BY <2>1
<1>29. CASE UNCHANGED vars
  BY <1>29 DEF vars
<1> QED BY <1>1, <1>2, <1>3, <1>4, <1>5, <1>6, <1>7, <1>8, <1>9, <1>10, <1>11,
   <1>12, <1>13, <1>14, <1>15, <1>16, <1>17, <1>18, <1>19, <1>20, <1>21, <1>22,
   <1>23, <1>24, <1>25, <1>26, <1>27, <1>28, <1>29 DEF Next, CallStep, Doers

(* What held of an id without a record before a step.                      *)
LEMMA ErasedStays ==
  ASSUME Shape, StagesOK, KeptsOK, [Next]_vars, NEW i \in Ids, rec[i] = "none", i \in used
  PROVE  ErasedOK(i)'
<1>1. CASE Deleting(i)
  <2>1. PICK d \in Callers : call[d].op = "delete" /\ call[d].id = i
    BY <1>1 DEF Deleting
  <2> QED BY <2>1, DeletionEnds DEF ErasedOK
<1>2. CASE Gone(i)
  BY <1>2, TornStays DEF ErasedOK
<1>3. CASE i \in cut
  <2>1. Ageing(i)
    BY AgeStep
  <2> QED BY <1>3, <2>1 DEF Ageing, ErasedOK
<1> QED BY <1>1, <1>2, <1>3 DEF KeptsOK, ErasedOK

(* Records that are gone.                                                  *)
LEMMA ErasedStep ==
  ASSUME Shape, StagesOK, KeptsOK, NEW i \in Ids, [Next]_vars
  PROVE  ErasedOK(i)'
<1>90. ASSUME rec[i] = "none", i \in used PROVE ErasedOK(i)'
  BY <1>90, ErasedStays
<1>91. ASSUME i \in used' => i \in used, rec'[i] = "none" => rec[i] = "none" PROVE ErasedOK(i)'
  BY <1>90, <1>91 DEF ErasedOK
<1>92. MapTypes /\ call \in [Doers -> Calls]
  BY DEF Shape, CallTypes
<1> USE <1>91, <1>92
<1> USE DEF MapTypes, Active, storeVars, memVars, driveVars, bootVars, obsVars
<1>1. ASSUME NEW j \in Ids, AddrRead(j) PROVE ErasedOK(i)'
  BY <1>1 DEF AddrRead
<1>2. ASSUME NEW j \in Ids, AddrStore(j) PROVE ErasedOK(i)'
  BY <1>2 DEF AddrStore
<1>3. ASSUME NEW j \in Ids, LifeUp(j) PROVE ErasedOK(i)'
  BY <1>3 DEF LifeUp, SetRec
<1>4. ASSUME NEW j \in Ids, ServeListens(j) PROVE ErasedOK(i)'
  BY <1>4 DEF ServeListens, Leaves
<1>5. ASSUME NEW j \in Ids, ServeWritesPid(j) PROVE ErasedOK(i)'
  BY <1>5 DEF ServeWritesPid, Leaves
<1>6. ASSUME NEW j \in Ids, ServeDies(j) PROVE ErasedOK(i)'
  BY <1>6 DEF ServeDies
<1>7. ASSUME NEW j \in Ids, Reattach(j) PROVE ErasedOK(i)'
  BY <1>7 DEF Reattach
<1>8. ASSUME NEW j \in Ids, FoundDead(j) PROVE ErasedOK(i)'
  BY <1>8 DEF FoundDead
<1>9. ASSUME NEW j \in Ids, NothingToStop(j) PROVE ErasedOK(i)'
  BY <1>9 DEF NothingToStop
<1>10. ASSUME NEW c \in Callers, NEW j \in Ids, DeleteCall(c, j) PROVE ErasedOK(i)'
  <2>1. CASE i = j
    <3>1. call'[c].op = "delete" /\ call'[c].id = i
      BY <1>10, <2>1 DEF DeleteCall, Doers
    <3> QED BY <3>1 DEF ErasedOK, Deleting
  <2>2. CASE i # j
    BY <1>10, <2>2 DEF DeleteCall
  <2> QED BY <2>1, <2>2
<1>11. ASSUME NEW c \in Callers, NEW j \in Ids, NEW from \in Ids \cup {NoId}, StartCall(c, j, from)
      PROVE  ErasedOK(i)'
  <2>1. CASE i = j
    <3>1. rec'[i] = "starting"
      BY <1>11, <2>1 DEF StartCall
    <3> QED BY <3>1 DEF ErasedOK
  <2>2. CASE i # j
    BY <1>11, <2>2 DEF StartCall
  <2> QED BY <2>1, <2>2
<1>12. ASSUME NEW c \in Doers, SpawnRefused(c) PROVE ErasedOK(i)'
  BY <1>12 DEF SpawnRefused, SetRec, Return
<1>13. ASSUME NEW c \in Doers, Spawn(c) PROVE ErasedOK(i)'
  BY <1>13 DEF Spawn, At
<1>14. ASSUME NEW c \in Doers, SpawnReady(c) PROVE ErasedOK(i)'
  BY <1>14 DEF SpawnReady, At
<1>15. ASSUME NEW c \in Doers, SpawnFails(c) PROVE ErasedOK(i)'
  BY <1>15 DEF SpawnFails, SetRec, Return, GivesUp
<1>16. ASSUME NEW c \in Doers, Register(c) PROVE ErasedOK(i)'
  BY <1>16 DEF Register, At, Return
<1>17. ASSUME NEW c \in Doers, Kill(c) PROVE ErasedOK(i)'
  BY <1>17 DEF Kill, At, DropCache
<1>18. ASSUME NEW c \in Doers, Grace(c) PROVE ErasedOK(i)'
  BY <1>18 DEF Grace, At
<1>19. ASSUME NEW c \in Doers, Clean(c) PROVE ErasedOK(i)'
  BY <1>19 DEF Clean, At, Return, DropCache
<1>20. ASSUME NEW c \in Doers, Cancel(c) PROVE ErasedOK(i)'
  BY <1>20 DEF Cancel, At, SetRec
<1>21. ASSUME NEW c \in Doers, Unrun(c) PROVE ErasedOK(i)'
  BY <1>21 DEF Unrun, Return
<1>22. ASSUME NEW c \in Doers, Link(c) PROVE ErasedOK(i)'
  <2>1. CASE i = call[c].id
    <3>1. StageAt(c, i) /\ i \in used
      BY <1>22, <2>1, CallFacts DEF Link, StagesOK, Shape
    <3>2. Gone(i)'
      BY <1>22, <3>1, TornStays DEF Link, StageAt
    <3> QED BY <3>2 DEF ErasedOK
  <2>2. CASE i # call[c].id
    BY <1>22, <2>2 DEF Link
  <2> QED BY <2>1, <2>2
<1>23. ASSUME NEW c \in Doers, NEW j \in Ids, StopCall(c, j) PROVE ErasedOK(i)'
  BY <1>23 DEF StopCall
<1>24. CASE Boot
  BY <1>24 DEF Boot
<1>25. CASE ReconcileSave
  BY <1>25 DEF ReconcileSave
<1>26. CASE Shutdown
  BY <1>26 DEF Shutdown
<1>27. CASE ShutdownEnds
  BY <1>27 DEF ShutdownEnds, ProcessEnds
<1>28. CASE Crash
  BY <1>28 DEF Crash, ProcessEnds
<1>29. CASE UNCHANGED vars
  BY <1>29 DEF vars
<1> QED BY <1>1, <1>2, <1>3, <1>4, <1>5, <1>6, <1>7, <1>8, <1>9, <1>10, <1>11,
   <1>12, <1>13, <1>14, <1>15, <1>16, <1>17, <1>18, <1>19, <1>20, <1>21, <1>22,
   <1>23, <1>24, <1>25, <1>26, <1>27, <1>28, <1>29 DEF Next, CallStep, Doers

(* An instance comes up, or its record is no longer active, or the daemon  *)
(* ends.                                                                   *)
LEMMA ComingEnds ==
  ASSUME Shape, NEW i \in Ids, NEW d \in Callers, call[d].new = i, call[d].pc \in
         Launching, [Next]_vars
  PROVE  Coming(i)' \/ rec'[i] \notin Active \/ i \in running' \/ ~Serving'
<1> DEFINE Ends == Coming(i)' \/ rec'[i] \notin Active \/ i \in running' \/ ~Serving'
<1>0. /\ d \in Doers /\ call[d] \in Calls /\ MapTypes
      /\ DOMAIN call = Doers /\ call \in [Doers -> Calls]
  BY DEF Shape, CallTypes, Doers
<1>90. call'[d].new = i /\ call'[d].pc \in Launching => Coming(i)'
  BY DEF Coming, Launch
<1> USE <1>0, <1>90
<1> USE DEF MapTypes, Active, Launching, NoCall, Calls, storeVars, memVars,
   driveVars, bootVars, obsVars
<1>1. ASSUME NEW j \in Ids, AddrRead(j) PROVE Ends
  BY <1>1 DEF AddrRead
<1>2. ASSUME NEW j \in Ids, AddrStore(j) PROVE Ends
  BY <1>2 DEF AddrStore
<1>3. ASSUME NEW j \in Ids, LifeUp(j) PROVE Ends
  BY <1>3 DEF LifeUp, SetRec
<1>4. ASSUME NEW j \in Ids, ServeListens(j) PROVE Ends
  BY <1>4 DEF ServeListens, Leaves
<1>5. ASSUME NEW j \in Ids, ServeWritesPid(j) PROVE Ends
  BY <1>5 DEF ServeWritesPid, Leaves
<1>6. ASSUME NEW j \in Ids, ServeDies(j) PROVE Ends
  BY <1>6 DEF ServeDies
<1>7. ASSUME NEW j \in Ids, Reattach(j) PROVE Ends
  BY <1>7 DEF Reattach
<1>8. ASSUME NEW j \in Ids, FoundDead(j) PROVE Ends
  BY <1>8 DEF FoundDead
<1>9. ASSUME NEW j \in Ids, NothingToStop(j) PROVE Ends
  BY <1>9 DEF NothingToStop
<1>10. ASSUME NEW c \in Callers, NEW j \in Ids, DeleteCall(c, j) PROVE Ends
  BY <1>10 DEF DeleteCall
<1>11. ASSUME NEW c \in Callers, NEW j \in Ids, NEW from \in Ids \cup {NoId}, StartCall(c, j, from)
      PROVE  Ends
  BY <1>11 DEF StartCall
<1>12. ASSUME NEW c \in Doers, SpawnRefused(c) PROVE Ends
  <2>1. CASE d = c
    BY <1>12, <2>1 DEF SpawnRefused, SetRec, Return
  <2>2. CASE d # c
    BY <1>12, <2>2 DEF SpawnRefused, SetRec, Return
  <2> QED BY <2>1, <2>2
<1>13. ASSUME NEW c \in Doers, Spawn(c) PROVE Ends
  <2>1. CASE d = c
    BY <1>13, <2>1 DEF Spawn, At
  <2>2. CASE d # c
    BY <1>13, <2>2 DEF Spawn, At
  <2> QED BY <2>1, <2>2
<1>14. ASSUME NEW c \in Doers, SpawnReady(c) PROVE Ends
  <2>1. CASE d = c
    BY <1>14, <2>1 DEF SpawnReady, At
  <2>2. CASE d # c
    BY <1>14, <2>2 DEF SpawnReady, At
  <2> QED BY <2>1, <2>2
<1>15. ASSUME NEW c \in Doers, SpawnFails(c) PROVE Ends
  <2>1. CASE d = c
    BY <1>15, <2>1 DEF SpawnFails, SetRec, Return, GivesUp
  <2>2. CASE d # c
    BY <1>15, <2>2 DEF SpawnFails, SetRec, Return, GivesUp
  <2> QED BY <2>1, <2>2
<1>16. ASSUME NEW c \in Doers, Register(c) PROVE Ends
  <2>1. CASE d = c
    BY <1>16, <2>1 DEF Register, At, Return
  <2>2. CASE d # c
    BY <1>16, <2>2 DEF Register, At, Return
  <2> QED BY <2>1, <2>2
<1>17. ASSUME NEW c \in Doers, Kill(c) PROVE Ends
  <2>1. CASE d = c
    BY <1>17, <2>1 DEF Kill, At, DropCache
  <2>2. CASE d # c
    BY <1>17, <2>2 DEF Kill, At, DropCache
  <2> QED BY <2>1, <2>2
<1>18. ASSUME NEW c \in Doers, Grace(c) PROVE Ends
  <2>1. CASE d = c
    BY <1>18, <2>1 DEF Grace, At
  <2>2. CASE d # c
    BY <1>18, <2>2 DEF Grace, At
  <2> QED BY <2>1, <2>2
<1>19. ASSUME NEW c \in Doers, Clean(c) PROVE Ends
  <2>1. CASE d = c
    BY <1>19, <2>1 DEF Clean, At, Return, DropCache
  <2>2. CASE d # c
    BY <1>19, <2>2 DEF Clean, At, Return, DropCache
  <2> QED BY <2>1, <2>2
<1>20. ASSUME NEW c \in Doers, Cancel(c) PROVE Ends
  <2>1. CASE d = c
    BY <1>20, <2>1 DEF Cancel, At, SetRec
  <2>2. CASE d # c
    BY <1>20, <2>2 DEF Cancel, At, SetRec
  <2> QED BY <2>1, <2>2
<1>21. ASSUME NEW c \in Doers, Unrun(c) PROVE Ends
  <2>1. CASE d = c
    BY <1>21, <2>1 DEF Unrun, Return
  <2>2. CASE d # c
    BY <1>21, <2>2 DEF Unrun, Return
  <2> QED BY <2>1, <2>2
<1>22. ASSUME NEW c \in Doers, Link(c) PROVE Ends
  <2>1. CASE d = c
    BY <1>22, <2>1 DEF Link, Return
  <2>2. CASE d # c
    BY <1>22, <2>2 DEF Link, Return
  <2> QED BY <2>1, <2>2
<1>23. ASSUME NEW c \in Doers, NEW j \in Ids, StopCall(c, j) PROVE Ends
  BY <1>23 DEF StopCall
<1>24. CASE Boot
  BY <1>24 DEF Boot
<1>25. CASE ReconcileSave
  BY <1>25 DEF ReconcileSave
<1>26. CASE Shutdown
  BY <1>26 DEF Shutdown
<1>27. CASE ShutdownEnds
  <2>1. ~Serving'
    BY <1>27 DEF ShutdownEnds, ProcessEnds, Serving
  <2> QED BY <2>1
<1>28. CASE Crash
  <2>1. ~Serving'
    BY <1>28 DEF Crash, ProcessEnds, Serving
  <2> QED BY <2>1
<1>29. CASE UNCHANGED vars
  BY <1>29 DEF vars
<1> QED BY <1>1, <1>2, <1>3, <1>4, <1>5, <1>6, <1>7, <1>8, <1>9, <1>10, <1>11,
   <1>12, <1>13, <1>14, <1>15, <1>16, <1>17, <1>18, <1>19, <1>20, <1>21, <1>22,
   <1>23, <1>24, <1>25, <1>26, <1>27, <1>28, <1>29 DEF Next, CallStep, Doers

(* An active record that the daemon answers for stays so.                  *)
LEMMA MannedStays ==
  ASSUME Shape, [Next]_vars, NEW i \in Ids,
         i \in running => i \in running' \/ rec'[i] \notin Active,
         i \in running \/ Coming(i) \/ i \in lost
  PROVE  Serving' /\ rec'[i] \in Active => i \in running' \/ Coming(i)' \/ i \in lost'
<1>1. CASE Coming(i)
  <2>1. PICK d \in Callers : call[d].new = i /\ call[d].pc \in Launching
    BY <1>1 DEF Coming, Launch
  <2> QED BY <2>1, ComingEnds
<1>2. CASE i \in lost
  <2>1. Ageing(i)
    BY AgeStep
  <2> QED BY <1>2, <2>1 DEF Ageing
<1> QED BY <1>1, <1>2

(* Active records.                                                         *)
LEMMA ActiveStep ==
  ASSUME Shape, BornsOK, StagesOK, KeptsOK, NEW i \in Ids, [Next]_vars
  PROVE  ActiveOK(i)'
<1>90. ASSUME i \in running => i \in running' \/ rec'[i] \notin Active,
              i \in running \/ Coming(i) \/ i \in lost, daemon' # "boot"
       PROVE  ActiveOK(i)'
  BY <1>90, MannedStays DEF ActiveOK
<1>91. ASSUME Serving, daemon' # "boot", rec'[i] \in Active => rec[i] \in Active,
              i \in running => i \in running' \/ rec'[i] \notin Active
       PROVE  ActiveOK(i)'
  BY <1>90, <1>91 DEF KeptsOK, ActiveOK
<1>92. ASSUME daemon = "boot", daemon' = "boot",
              rec'[i] \in Active => rec[i] \in Active \/ i \in running,
              i \in todo => i \in todo' \/ i \in stale' \/ i \in running',
              stale \subseteq stale', running \subseteq running'
       PROVE  ActiveOK(i)'
  BY <1>92 DEF KeptsOK, ActiveOK, Serving
<1>93. ASSUME daemon = "off", daemon' = "off" PROVE ActiveOK(i)'
  BY <1>93 DEF ActiveOK, Serving
<1>95. ASSUME daemon' = daemon, rec'[i] \in Active => rec[i] \in Active,
              running' = running, todo' = todo, stale' = stale
       PROVE  ActiveOK(i)'
  <2>1. daemon \in {"off", "boot", "up", "closing"}
    BY DEF Shape, DaemonTypes
  <2> QED BY <1>91, <1>92, <1>93, <1>95, <2>1 DEF Serving
<1>94. MapTypes /\ call \in [Doers -> Calls] /\ Active = {"starting", "running"}
  BY DEF Shape, CallTypes, Active
<1> USE <1>94, <1>95
<1> USE DEF MapTypes, storeVars, memVars, driveVars, bootVars, obsVars
<1>1. ASSUME NEW j \in Ids, AddrRead(j) PROVE ActiveOK(i)'
  BY <1>1 DEF AddrRead
<1>2. ASSUME NEW j \in Ids, AddrStore(j) PROVE ActiveOK(i)'
  BY <1>2 DEF AddrStore
<1>3. ASSUME NEW j \in Ids, LifeUp(j) PROVE ActiveOK(i)'
  <2>1. CASE i = j
    <3>1. i \in running
      BY <1>3, <2>1 DEF LifeUp, BornsOK, BornOK
    <3>2. UNCHANGED <<daemon, running, todo, stale>>
      BY <1>3 DEF LifeUp
    <3>3. daemon \in {"off", "boot", "up", "closing"}
      BY DEF Shape, DaemonTypes
    <3>4. CASE Serving
      BY <1>90, <3>1, <3>2, <3>4 DEF Serving
    <3> QED BY <1>92, <1>93, <3>1, <3>2, <3>3, <3>4 DEF Serving
  <2>2. CASE i # j
    BY <1>3, <2>2 DEF LifeUp, SetRec
  <2> QED BY <2>1, <2>2
<1>4. ASSUME NEW j \in Ids, ServeListens(j) PROVE ActiveOK(i)'
  BY <1>4 DEF ServeListens, Leaves
<1>5. ASSUME NEW j \in Ids, ServeWritesPid(j) PROVE ActiveOK(i)'
  BY <1>5 DEF ServeWritesPid, Leaves
<1>6. ASSUME NEW j \in Ids, ServeDies(j) PROVE ActiveOK(i)'
  BY <1>6 DEF ServeDies
<1>7. ASSUME NEW j \in Ids, Reattach(j) PROVE ActiveOK(i)'
  BY <1>7, <1>92 DEF Reattach
<1>8. ASSUME NEW j \in Ids, FoundDead(j) PROVE ActiveOK(i)'
  BY <1>8, <1>92 DEF FoundDead
<1>9. ASSUME NEW j \in Ids, NothingToStop(j) PROVE ActiveOK(i)'
  BY <1>9, <1>91 DEF NothingToStop, Serving
<1>10. ASSUME NEW c \in Callers, NEW j \in Ids, DeleteCall(c, j) PROVE ActiveOK(i)'
  BY <1>10 DEF DeleteCall
<1>11. ASSUME NEW c \in Callers, NEW j \in Ids, NEW from \in Ids \cup {NoId}, StartCall(c, j, from)
      PROVE  ActiveOK(i)'
  <2>1. CASE i = j
    <3>1. call'[c].new = i /\ call'[c].pc \in Launching
      BY <1>11, <2>1 DEF StartCall, Doers, Launching
    <3>2. Coming(i)' /\ daemon' # "boot"
      BY <1>11, <3>1 DEF Coming, Launch, StartCall, Serving
    <3> QED BY <3>2 DEF ActiveOK
  <2>2. CASE i # j
    BY <1>11, <2>2 DEF StartCall
  <2> QED BY <2>1, <2>2
<1>12. ASSUME NEW c \in Doers, SpawnRefused(c) PROVE ActiveOK(i)'
  BY <1>12 DEF SpawnRefused, SetRec, Return
<1>13. ASSUME NEW c \in Doers, Spawn(c) PROVE ActiveOK(i)'
  BY <1>13 DEF Spawn, At
<1>14. ASSUME NEW c \in Doers, SpawnReady(c) PROVE ActiveOK(i)'
  BY <1>14 DEF SpawnReady, At
<1>15. ASSUME NEW c \in Doers, SpawnFails(c) PROVE ActiveOK(i)'
  BY <1>15 DEF SpawnFails, SetRec, Return, GivesUp
<1>16. ASSUME NEW c \in Doers, Register(c) PROVE ActiveOK(i)'
  <2>1. Serving /\ UNCHANGED <<daemon, rec>> /\ running \subseteq running'
    BY <1>16, CallFacts DEF Register, Shape, Launching, Acts, Serving
  <2> QED BY <1>91, <2>1 DEF Serving
<1>17. ASSUME NEW c \in Doers, Kill(c) PROVE ActiveOK(i)'
  BY <1>17 DEF Kill, At, DropCache
<1>18. ASSUME NEW c \in Doers, Grace(c) PROVE ActiveOK(i)'
  BY <1>18 DEF Grace, At
<1>19. ASSUME NEW c \in Doers, Clean(c) PROVE ActiveOK(i)'
  BY <1>19 DEF Clean, At, Return, DropCache
<1>20. ASSUME NEW c \in Doers, Cancel(c) PROVE ActiveOK(i)'
  BY <1>20 DEF Cancel, At, SetRec
<1>21. ASSUME NEW c \in Doers, Unrun(c) PROVE ActiveOK(i)'
  <2>1. Serving /\ UNCHANGED <<daemon, rec>>
    BY <1>21 DEF Unrun, Acts, Serving
  <2>2. call[c].id = i => rec[i] \notin Active
    BY <1>21 DEF Unrun, StagesOK, StageAt
  <2>3. i \in running => i \in running' \/ rec'[i] \notin Active
    BY <1>21, <2>1, <2>2 DEF Unrun
  <2> QED BY <1>91, <2>1, <2>3 DEF Serving
<1>22. ASSUME NEW c \in Doers, Link(c) PROVE ActiveOK(i)'
  BY <1>22 DEF Link, Return
<1>23. ASSUME NEW c \in Doers, NEW j \in Ids, StopCall(c, j) PROVE ActiveOK(i)'
  BY <1>23 DEF StopCall
<1>24. CASE Boot
  <2>1. daemon' = "boot" /\ rec' = rec /\ (rec[i] \in Active => i \in todo')
    BY <1>24 DEF Boot
  <2> QED BY <2>1 DEF ActiveOK, Serving
<1>25. CASE ReconcileSave
  <2>1. daemon = "boot" /\ todo = {} /\ daemon' = "up" /\ running' = running
    BY <1>25 DEF ReconcileSave
  <2>2. rec[i] \in Active => i \in stale \/ i \in running
    BY <2>1 DEF KeptsOK, ActiveOK
  <2>3. rec'[i] \in Active => rec[i] \in Active /\ (i \in stale => i \in lost')
    BY <1>25 DEF ReconcileSave
  <2> QED BY <2>1, <2>2, <2>3 DEF ActiveOK
<1>26. CASE Shutdown
  BY <1>26, <1>91 DEF Shutdown, Serving
<1>27. CASE ShutdownEnds
  BY <1>27 DEF ShutdownEnds, ProcessEnds, ActiveOK, Serving
<1>28. CASE Crash
  BY <1>28 DEF Crash, ProcessEnds, ActiveOK, Serving
<1>29. CASE UNCHANGED vars
  BY <1>29 DEF vars
<1> QED BY <1>1, <1>2, <1>3, <1>4, <1>5, <1>6, <1>7, <1>8, <1>9, <1>10, <1>11,
   <1>12, <1>13, <1>14, <1>15, <1>16, <1>17, <1>18, <1>19, <1>20, <1>21, <1>22,
   <1>23, <1>24, <1>25, <1>26, <1>27, <1>28, <1>29 DEF Next, CallStep, Doers

(* What a shutdown still has to stop.                                      *)
LEMMA ClosingStep ==
  ASSUME Shape, StagesOK, KeptsOK, NEW i \in Ids, [Next]_vars
  PROVE  ClosingOK(i)'
<1>90. ASSUME daemon' = daemon, late' = late,
              i \in running => i \in running', i \in todo => i \in todo'
       PROVE  ClosingOK(i)'
  <2>1. ClosingOK(i)
    BY DEF KeptsOK
  <2>2. Ageing(i) /\ (i \in used /\ Torn(i) => Torn(i)')
    BY AgeStep, TornStays
  <2> QED BY <1>90, <2>1, <2>2 DEF ClosingOK, Ageing
<1>91. ASSUME daemon' # "closing" PROVE ClosingOK(i)'
  BY <1>91 DEF ClosingOK
<1> USE <1>90, <1>91
<1> USE DEF storeVars, memVars, driveVars, bootVars, obsVars
<1>1. ASSUME NEW j \in Ids, AddrRead(j) PROVE ClosingOK(i)'
  BY <1>1 DEF AddrRead
<1>2. ASSUME NEW j \in Ids, AddrStore(j) PROVE ClosingOK(i)'
  BY <1>2 DEF AddrStore
<1>3. ASSUME NEW j \in Ids, LifeUp(j) PROVE ClosingOK(i)'
  BY <1>3 DEF LifeUp, SetRec
<1>4. ASSUME NEW j \in Ids, ServeListens(j) PROVE ClosingOK(i)'
  BY <1>4 DEF ServeListens, Leaves
<1>5. ASSUME NEW j \in Ids, ServeWritesPid(j) PROVE ClosingOK(i)'
  BY <1>5 DEF ServeWritesPid, Leaves
<1>6. ASSUME NEW j \in Ids, ServeDies(j) PROVE ClosingOK(i)'
  BY <1>6 DEF ServeDies
<1>7. ASSUME NEW j \in Ids, Reattach(j) PROVE ClosingOK(i)'
  BY <1>7 DEF Reattach
<1>8. ASSUME NEW j \in Ids, FoundDead(j) PROVE ClosingOK(i)'
  BY <1>8 DEF FoundDead
<1>9. ASSUME NEW j \in Ids, NothingToStop(j) PROVE ClosingOK(i)'
  <2>1. CASE i = j
    <3>1. ClosingOK(i) /\ (i \in used /\ Torn(i) => Torn(i)') /\ Ageing(i)
      BY AgeStep, TornStays DEF KeptsOK
    <3> QED BY <1>9, <2>1, <3>1 DEF NothingToStop, ClosingOK, Ageing
  <2>2. CASE i # j
    BY <1>9, <2>2 DEF NothingToStop
  <2> QED BY <2>1, <2>2
<1>10. ASSUME NEW c \in Callers, NEW j \in Ids, DeleteCall(c, j) PROVE ClosingOK(i)'
  BY <1>10 DEF DeleteCall
<1>11. ASSUME NEW c \in Callers, NEW j \in Ids, NEW from \in Ids \cup {NoId}, StartCall(c, j, from)
      PROVE  ClosingOK(i)'
  BY <1>11 DEF StartCall
<1>12. ASSUME NEW c \in Doers, SpawnRefused(c) PROVE ClosingOK(i)'
  BY <1>12 DEF SpawnRefused, SetRec, Return
<1>13. ASSUME NEW c \in Doers, Spawn(c) PROVE ClosingOK(i)'
  BY <1>13 DEF Spawn, At
<1>14. ASSUME NEW c \in Doers, SpawnReady(c) PROVE ClosingOK(i)'
  BY <1>14 DEF SpawnReady, At
<1>15. ASSUME NEW c \in Doers, SpawnFails(c) PROVE ClosingOK(i)'
  BY <1>15 DEF SpawnFails, SetRec, Return, GivesUp
<1>16. ASSUME NEW c \in Doers, Register(c) PROVE ClosingOK(i)'
  BY <1>16 DEF Register, At, Return
<1>17. ASSUME NEW c \in Doers, Kill(c) PROVE ClosingOK(i)'
  BY <1>17 DEF Kill, At, DropCache
<1>18. ASSUME NEW c \in Doers, Grace(c) PROVE ClosingOK(i)'
  BY <1>18 DEF Grace, At
<1>19. ASSUME NEW c \in Doers, Clean(c) PROVE ClosingOK(i)'
  BY <1>19 DEF Clean, At, Return, DropCache
<1>20. ASSUME NEW c \in Doers, Cancel(c) PROVE ClosingOK(i)'
  BY <1>20 DEF Cancel, At, SetRec
<1>21. ASSUME NEW c \in Doers, Unrun(c) PROVE ClosingOK(i)'
  <2>1. CASE call[c].id = i
    <3>1. StageAt(c, i) /\ i \in used
      BY <1>21, <2>1, CallFacts DEF Unrun, StagesOK, Shape
    <3>2. Torn(i)
      BY <1>21, <3>1 DEF Unrun, StageAt, Gone, Torn
    <3>3. Torn(i)' /\ used' = used
      BY <1>21, <3>1, <3>2, TornStays DEF Unrun
    <3> QED BY <3>1, <3>3 DEF ClosingOK
  <2>2. CASE call[c].id # i
    BY <1>21, <2>2 DEF Unrun
  <2> QED BY <2>1, <2>2
<1>22. ASSUME NEW c \in Doers, Link(c) PROVE ClosingOK(i)'
  BY <1>22 DEF Link, Return
<1>23. ASSUME NEW c \in Doers, NEW j \in Ids, StopCall(c, j) PROVE ClosingOK(i)'
  BY <1>23 DEF StopCall
<1>24. CASE Boot
  BY <1>24 DEF Boot
<1>25. CASE ReconcileSave
  BY <1>25 DEF ReconcileSave
<1>26. CASE Shutdown
  <2>1. i \notin late' => i \in running' /\ i \in todo' /\ i \in used'
    BY <1>26 DEF Shutdown, Shape, SetTypes
  <2> QED BY <2>1 DEF ClosingOK
<1>27. CASE ShutdownEnds
  BY <1>27 DEF ShutdownEnds, ProcessEnds
<1>28. CASE Crash
  BY <1>28 DEF Crash, ProcessEnds
<1>29. CASE UNCHANGED vars
  BY <1>29 DEF vars
<1> QED BY <1>1, <1>2, <1>3, <1>4, <1>5, <1>6, <1>7, <1>8, <1>9, <1>10, <1>11,
   <1>12, <1>13, <1>14, <1>15, <1>16, <1>17, <1>18, <1>19, <1>20, <1>21, <1>22,
   <1>23, <1>24, <1>25, <1>26, <1>27, <1>28, <1>29 DEF Next, CallStep, Doers

(* How an address without a directory gets into the cache.                 *)
LEMMA StaleStep ==
  ASSUME MapTypes, CallTypes, NEW i \in Ids, i \in cache', dir'[i] = {}, [Next]_vars
  PROVE  AddrStore(i) \/ (i \in cache /\ dir[i] = {})
<1> DEFINE Known == AddrStore(i) \/ (i \in cache /\ dir[i] = {})
<1> USE DEF MapTypes
<1> USE DEF storeVars, memVars, driveVars, bootVars, obsVars
<1>1. ASSUME NEW j \in Ids, AddrRead(j) PROVE Known
  BY <1>1 DEF AddrRead
<1>2. ASSUME NEW j \in Ids, AddrStore(j) PROVE Known
  BY <1>2 DEF AddrStore
<1>3. ASSUME NEW j \in Ids, LifeUp(j) PROVE Known
  BY <1>3 DEF LifeUp, SetRec
<1>4. ASSUME NEW j \in Ids, ServeListens(j) PROVE Known
  BY <1>4 DEF ServeListens, Leaves
<1>5. ASSUME NEW j \in Ids, ServeWritesPid(j) PROVE Known
  BY <1>5 DEF ServeWritesPid, Leaves
<1>6. ASSUME NEW j \in Ids, ServeDies(j) PROVE Known
  BY <1>6 DEF ServeDies
<1>7. ASSUME NEW j \in Ids, Reattach(j) PROVE Known
  BY <1>7 DEF Reattach, Healthy, Files
<1>8. ASSUME NEW j \in Ids, FoundDead(j) PROVE Known
  BY <1>8 DEF FoundDead
<1>9. ASSUME NEW j \in Ids, NothingToStop(j) PROVE Known
  BY <1>9 DEF NothingToStop
<1>10. ASSUME NEW c \in Callers, NEW j \in Ids, DeleteCall(c, j) PROVE Known
  BY <1>10 DEF DeleteCall
<1>11. ASSUME NEW c \in Callers, NEW j \in Ids, NEW from \in Ids \cup {NoId}, StartCall(c, j, from)
      PROVE  Known
  BY <1>11 DEF StartCall
<1>12. ASSUME NEW c \in Doers, SpawnRefused(c) PROVE Known
  BY <1>12 DEF SpawnRefused, SetRec, Return
<1>13. ASSUME NEW c \in Doers, Spawn(c) PROVE Known
  BY <1>13 DEF Spawn, At
<1>14. ASSUME NEW c \in Doers, SpawnReady(c) PROVE Known
  BY <1>14 DEF SpawnReady, At, Files
<1>15. ASSUME NEW c \in Doers, SpawnFails(c) PROVE Known
  BY <1>15 DEF SpawnFails, SetRec, Return, GivesUp
<1>16. ASSUME NEW c \in Doers, Register(c) PROVE Known
  BY <1>16 DEF Register, At, Return
<1>17. ASSUME NEW c \in Doers, Kill(c) PROVE Known
  BY <1>17 DEF Kill, At, DropCache
<1>18. ASSUME NEW c \in Doers, Grace(c) PROVE Known
  BY <1>18 DEF Grace, At
<1>19. ASSUME NEW c \in Doers, Clean(c) PROVE Known
  BY <1>19 DEF Clean, At, Return, DropCache
<1>20. ASSUME NEW c \in Doers, Cancel(c) PROVE Known
  BY <1>20 DEF Cancel, At, SetRec
<1>21. ASSUME NEW c \in Doers, Unrun(c) PROVE Known
  BY <1>21 DEF Unrun, Return
<1>22. ASSUME NEW c \in Doers, Link(c) PROVE Known
  BY <1>22 DEF Link, Return
<1>23. ASSUME NEW c \in Doers, NEW j \in Ids, StopCall(c, j) PROVE Known
  BY <1>23 DEF StopCall
<1>24. CASE Boot
  BY <1>24 DEF Boot
<1>25. CASE ReconcileSave
  BY <1>25 DEF ReconcileSave
<1>26. CASE Shutdown
  BY <1>26 DEF Shutdown
<1>27. CASE ShutdownEnds
  BY <1>27 DEF ShutdownEnds, ProcessEnds
<1>28. CASE Crash
  BY <1>28 DEF Crash, ProcessEnds
<1>29. CASE UNCHANGED vars
  BY <1>29 DEF vars
<1> QED BY <1>1, <1>2, <1>3, <1>4, <1>5, <1>6, <1>7, <1>8, <1>9, <1>10, <1>11,
   <1>12, <1>13, <1>14, <1>15, <1>16, <1>17, <1>18, <1>19, <1>20, <1>21, <1>22,
   <1>23, <1>24, <1>25, <1>26, <1>27, <1>28, <1>29 DEF Next, CallStep, Doers

----------------------------------------------------------------------------
(* The invariant holds initially.                                          *)
LEMMA InvInit == Init => Inv
<1> SUFFICES ASSUME Init PROVE Inv
  OBVIOUS
<1>0. call = [c \in Doers |-> NoCall] /\ \A c \in Doers : call[c] = NoCall
  BY DEF Init, Doers
<1>9. 0 \in 0 .. MaxBoots
  BY BootsAssumption
<1>1. DaemonTypes
  BY <1>9 DEF Init, DaemonTypes
<1>10. MapTypes
  BY DEF Init, MapTypes, Active
<1>2. SetTypes /\ TokenFirst
  BY DEF Init, SetTypes, TokenFirst
<1>3. CallTypes
  BY <1>0 DEF CallTypes, Calls, NoCall
<1>4. CallsOK /\ OneStart
  BY <1>0, NoIdAssumption DEF CallsOK, CallOK, OneStart, NoCall, Doers
<1>5. StagesOK
  BY <1>0 DEF StagesOK, StageAt, NoCall
<1>6. \A i \in Ids : ~Spawning(i) /\ ~Coming(i)
  BY <1>0 DEF Spawning, Coming, Launch, Launching, NoCall, Doers
<1>7. BornsOK
  BY <1>6 DEF Init, BornsOK, BornOK
<1>8. KeptsOK
  BY DEF Init, KeptsOK, ErasedOK, ActiveOK, ClosingOK, Active, Serving
<1> QED BY <1>1, <1>2, <1>3, <1>4, <1>5, <1>7, <1>8, <1>10, TypeParts DEF Inv

(* Every step keeps it.                                                    *)
LEMMA InvStep == Inv /\ [Next]_vars => Inv'
<1> SUFFICES ASSUME Inv, [Next]_vars PROVE Inv'
  OBVIOUS
<1>1. Shape /\ OneStart /\ StagesOK /\ BornsOK /\ KeptsOK /\ TokenFirst
  BY TypeParts DEF Inv, Shape
<1>2. Shape' /\ TokenFirst'
  BY <1>1, ShapeStep, TokenStep DEF Shape
<1>3. ReasonixTypeOK'
  BY <1>2 DEF ReasonixTypeOK, DaemonTypes, MapTypes, SetTypes, CallTypes, TokenFirst, Shape, Doers
<1>4. OneStart' /\ BornsOK' /\ StagesOK'
  BY <1>1, OneStep, BornStep, StageStep
<1>5. KeptsOK'
  BY <1>1, ErasedStep, ActiveStep, ClosingStep DEF KeptsOK
<1> QED BY <1>2, <1>3, <1>4, <1>5 DEF Inv, Shape

(* So it always holds.                                                     *)
LEMMA InvAlways == Spec => []Inv
<1>1. Init => Inv
  BY InvInit
<1>2. Inv /\ [Next]_vars => Inv'
  BY InvStep
<1> QED BY <1>1, <1>2, PTL DEF Spec

(* It implies the two invariants, and what holds when a shutdown ends.     *)
LEMMA InvGives == Inv => NothingLeft /\ ActiveIsManaged
<1> SUFFICES ASSUME Inv PROVE NothingLeft /\ ActiveIsManaged
  OBVIOUS
<1>0. SetTypes /\ DOMAIN call = Doers /\ \A i \in Ids : BornOK(i) /\ ErasedOK(i) /\ ActiveOK(i)
  BY TypeParts DEF Inv, BornsOK, KeptsOK, CallTypes
<1>1. ASSUME NEW i \in Ids, Deleting(i) \/ Coming(i) PROVE Handled(i)
  BY <1>0, <1>1 DEF Deleting, Coming, Launch, Handled, Doers
<1>2. NoOrphan
  <2> SUFFICES ASSUME NEW i \in Ids, Alive(i), rec[i] = "none"
               PROVE  Handled(i) \/ i \in early \cup cut
    BY DEF NoOrphan
  <2>1. i \in used
    BY <1>0 DEF BornOK, Alive
  <2> QED BY <1>0, <1>1, <2>1 DEF ErasedOK, Gone
<1>3. DirRemoved
  <2> SUFFICES ASSUME NEW i \in used, rec[i] = "none", ~Handled(i)
               PROVE  dir[i] = {} \/ i \in cut \cup early
    BY DEF DirRemoved
  <2>1. i \in Ids
    BY <1>0 DEF SetTypes
  <2> QED BY <1>0, <1>1, <2>1 DEF ErasedOK, Gone
<1>4. ActiveIsManaged
  <2> SUFFICES ASSUME Serving, NEW i \in Ids, rec[i] \in Active
               PROVE  i \in running \/ Handled(i) \/ i \in lost
    BY DEF ActiveIsManaged
  <2> QED BY <1>0, <1>1 DEF ActiveOK
<1> QED BY <1>2, <1>3, <1>4 DEF NothingLeft, Inv

(* A serve process that nobody can stop, or a directory that nobody will   *)
(* remove, comes only from a teardown that found no pid file yet, or from  *)
(* the end of a daemon in the middle of one.                               *)
THEOREM NothingEverLeft == Spec => []NothingLeft
<1>1. Inv => NothingLeft
  BY InvGives
<1> QED BY <1>1, InvAlways, PTL

(* While the daemon serves, an active record has an instance behind it     *)
(* that Stop finds, or a call that is bringing it up, unless the one save  *)
(* of the reconciliation was refused.                                      *)
THEOREM ActiveAlwaysManaged == Spec => []ActiveIsManaged
<1>1. Inv => ActiveIsManaged
  BY InvGives
<1> QED BY <1>1, InvAlways, PTL

(* When a shutdown ends, the serve processes still alive are those that    *)
(* StopAllKind did not see registered and those a teardown had given up.   *)
THEOREM ShutdownAlwaysStops == Spec => ShutdownStops
<1>1. ASSUME Inv PROVE [ShutdownEnds => \A i \in Ids : Alive(i) => i \in late \cup early]_vars
  <2> SUFFICES ASSUME ShutdownEnds, NEW i \in Ids, Alive(i) PROVE i \in late \cup early
    OBVIOUS
  <2>1. ClosingOK(i)
    BY <1>1 DEF Inv, KeptsOK
  <2> QED BY <2>1 DEF ClosingOK, ShutdownEnds, Torn
<1> QED BY <1>1, InvAlways, PTL DEF ShutdownStops

(* An address without a directory behind it is cached only by a request    *)
(* that had read the files before the teardown removed them.               *)
THEOREM StaleAlwaysByRequest == Spec => StaleOnlyByRequest
<1>1. ASSUME Inv, [Next]_vars
      PROVE  [\A i \in cache' : dir'[i] = {} => AddrStore(i) \/ (i \in cache /\ dir[i] = {})]_vars
  <2> SUFFICES ASSUME NEW i \in cache', dir'[i] = {}
               PROVE  AddrStore(i) \/ (i \in cache /\ dir[i] = {})
    OBVIOUS
  <2>1. Inv' /\ MapTypes /\ CallTypes
    BY <1>1, InvStep, TypeParts DEF Inv
  <2>2. i \in Ids
    BY <2>1 DEF Inv, ReasonixTypeOK
  <2> QED BY <1>1, <2>1, <2>2, StaleStep
<1> QED BY <1>1, InvAlways, PTL DEF StaleOnlyByRequest, Spec
=============================================================================
