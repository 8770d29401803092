---------------------------- MODULE DshWebProofs ----------------------------
(***************************************************************************)
(* One dsh-web instance, with any number of callers of Stop and any health *)
(* threshold: whatever the order in which its goroutines, the process and  *)
(* its proxy end, the listener is closed, the record tells how it ended,   *)
(* and the stored blob is the handle's, but for the races the properties   *)
(* name.                                                                   *)
(***************************************************************************)
EXTENDS DshWeb, TLAPS

(* The parts of the type invariant.                                        *)
FlowTypes ==
  /\ main \in {"spawn", "failed", "bind", "reg", "up"}
  /\ child \in {"none", "live", "dead"}
  /\ pump \in {"off", "scan", "starter", "store", "blob", "publish", "ready",
               "mark", "drain", "end"}
  /\ health \in {"off", "loop", "mark", "end"} /\ fails \in 0..HealthThreshold
  /\ waiter \in {"off", "wait", "reason", "exit", "blame", "failed", "close", "end"}
  /\ boot \in {"off", "wait", "call", "publish", "end"}
  /\ pd \in {"off", "serve", "lock", "publish", "fail", "cancel", "end"}
  /\ proxy \in {"none", "up", "broken", "closed"}
  /\ life \in {"off", "wait", "up", "poll", "bad", "end"}

BoolTypes ==
  killed \in BOOLEAN /\ said \in BOOLEAN /\ cut \in BOOLEAN /\ managed \in BOOLEAN

BlobTypes ==
  /\ {pumpBlob, bootBlob, pdBlob, blob} \subseteq Blobs
  /\ rec \in [status : {"starting", "running", "stopped", "failed", "exited"}, blob : Blobs]

SetTypes ==
  /\ hnd \subseteq Flags
  /\ stop \in [Callers -> {"idle", "unknown", "wait", "killed", "close", "join", "done"}]
  /\ obs \subseteq {"early", "outgrown", "late", "slow", "blamed"}

(* Which steps are behind us when a later one has been taken.              *)
Order ==
  /\ main \in {"spawn", "failed"} =>
       /\ child = "none" /\ waiter = "off" /\ pump = "off" /\ health = "off"
       /\ boot = "off" /\ hnd = {}
  /\ pump \in {"off", "scan", "starter"} => pd = "off"
  /\ life # "off" => main = "up"
  /\ waiter \notin {"off", "wait"} => child = "dead" /\ Is("done")
  /\ Is("exited") => waiter = "end" /\ Is("once")
  /\ Is("once") => Is("done")
  /\ \A c \in Callers : stop[c] \in {"close", "join", "done"} => Is("exited")
  /\ health \in {"off", "loop"} => fails < HealthThreshold

(* A listener that is up has its close function in the handle as soon as   *)
(* the pump has stored it; if closeProxy has run by then, it ran early.    *)
Listener ==
  /\ Is("closer") => pump \notin {"off", "scan", "starter", "store"}
  /\ proxy \in {"up", "broken"} /\ pump # "store" => Is("closer")
  /\ Is("once") /\ pump \in {"starter", "store"} => "early" \in obs
  /\ Is("once") /\ Is("closer") /\ proxy \in {"up", "broken"} => "early" \in obs

(* Who wrote the status last, told by where the goroutines stand.          *)
Status ==
  /\ rec.status = "running" => Bound
  /\ Judged /\ rec.status = "running" => "late" \in obs
  /\ "blamed" \in obs => /\ waiter \in {"close", "end"}
                         /\ rec.status \in {"failed", "stopped"} \/ "late" \in obs
  /\ child = "live" /\ main = "up" /\ ~managed =>
       life = "end" /\ (rec.status = "failed" \/ {"slow", "late"} \cap obs # {})

(* The record has the handle's blob, or somebody is about to write it.     *)
BlobUnderWay ==
  \/ rec.blob = blob \/ "outgrown" \in obs
  \/ pump = "blob" \/ (pump = "publish" /\ pumpBlob = blob)
  \/ boot = "publish" /\ bootBlob = blob
  \/ pd = "publish" /\ pdBlob = blob

(* What a step does to the record's status "exited".                       *)
OnlyWait == rec'.status = "exited" => rec.status = "exited" \/ WaitExited

(* The inductive invariant.                                                *)
Inv == DshTypeOK /\ Order /\ Listener /\ Status /\ BlobUnderWay

----------------------------------------------------------------------------
(* The type invariant is the conjunction of its parts.                     *)
LEMMA TypeParts == DshTypeOK <=> FlowTypes /\ BoolTypes /\ BlobTypes /\ SetTypes
BY DEF DshTypeOK, FlowTypes, BoolTypes, BlobTypes, SetTypes

(* The invariant implies the three properties.                             *)
LEMMA InvGives == Inv => DeadIsDead /\ EndRecorded /\ BlobPersisted
<1> SUFFICES ASSUME Inv PROVE DeadIsDead /\ EndRecorded /\ BlobPersisted
  OBVIOUS
<1>1. DshTypeOK /\ Order /\ Listener /\ Status /\ BlobUnderWay
  BY DEF Inv
<1>2. ListenerClosed
  BY <1>1 DEF ListenerClosed, Order, Listener
<1>3. StopMeansDead
  BY <1>1 DEF StopMeansDead, Order
<1>4. DeadNotRunning
  BY <1>1 DEF DeadNotRunning, Order, Status, Judged
<1>5. ProxyBlamed /\ LostIsFailed
  BY <1>1 DEF ProxyBlamed, LostIsFailed, Status
<1>6. BlobPersisted
  BY <1>1 DEF BlobPersisted, BlobUnderWay
<1> QED BY <1>1, <1>2, <1>3, <1>4, <1>5, <1>6 DEF DeadIsDead, EndRecorded

(* It holds initially, and every step keeps it.                            *)
LEMMA InvInit == Init => Inv
<1> SUFFICES ASSUME Init PROVE Inv
  OBVIOUS
<1>1. NoBlob \in Blobs
  BY DEF NoBlob, Blobs
<1>2. FlowTypes
  BY ThresholdAssumption DEF Init, FlowTypes
<1>3. BoolTypes
  BY DEF Init, BoolTypes
<1>4. BlobTypes
  BY <1>1 DEF Init, BlobTypes
<1>5. SetTypes
  BY DEF Init, SetTypes
<1>6. DshTypeOK
  BY <1>2, <1>3, <1>4, <1>5, TypeParts
<1> QED BY <1>6, ThresholdAssumption
        DEF Init, Inv, Order, Listener, Status, BlobUnderWay, Is, Bound, Judged

(* Where the goroutines are.                                               *)
LEMMA FlowStep == FlowTypes /\ Order /\ [Next]_vars => FlowTypes'
<1> SUFFICES ASSUME FlowTypes, Order, [Next]_vars PROVE FlowTypes'
  OBVIOUS
<1>90. HealthThreshold \in Nat \ {0}
  BY ThresholdAssumption
<1> USE <1>90
<1> USE DEF FlowTypes, procVars, pumpVars, healthVars, bootVars, pdVars
<1>1. CASE SpawnFails
  BY <1>1 DEF SpawnFails
<1>2. CASE Spawn
  BY <1>2 DEF Spawn
<1>3. CASE Bind
  BY <1>3 DEF Bind
<1>4. CASE Register
  BY <1>4 DEF Register
<1>5. CASE ChildReady
  BY <1>5 DEF ChildReady
<1>6. CASE ChildBabbles
  BY <1>6 DEF ChildBabbles
<1>7. CASE ChildEnds
  BY <1>7 DEF ChildEnds
<1>8. CASE PumpLine
  BY <1>8 DEF PumpLine
<1>9. CASE PumpStarter
  BY <1>9 DEF PumpStarter
<1>10. CASE PumpStore
  BY <1>10 DEF PumpStore
<1>11. CASE PumpBlob
  BY <1>11 DEF PumpBlob
<1>12. CASE PumpPublish
  BY <1>12 DEF PumpPublish, Persist, Outgrown
<1>13. CASE PumpReady
  BY <1>13 DEF PumpReady
<1>14. CASE PumpMark
  BY <1>14 DEF PumpMark, Mark, LateRunning
<1>15. CASE HealthGood
  BY <1>15 DEF HealthGood
<1>16. CASE HealthBad
  BY <1>16 DEF HealthBad, Order
<1>17. CASE HealthMark
  BY <1>17 DEF HealthMark, Verdict, Mark, Timely
<1>18. CASE HealthDone
  BY <1>18 DEF HealthDone
<1>19. CASE Reap
  BY <1>19 DEF Reap
<1>20. CASE WaitReason
  BY <1>20 DEF WaitReason
<1>21. CASE WaitExited
  BY <1>21 DEF WaitExited, Verdict, Mark, Timely
<1>22. CASE WaitFailed
  BY <1>22 DEF WaitFailed, Blamed, Mark, Timely
<1>23. CASE WaitDone
  BY <1>23 DEF WaitDone, CloseProxy
<1>24. CASE BootWait
  BY <1>24 DEF BootWait
<1>25. CASE BootCall
  BY <1>25 DEF BootCall
<1>26. CASE BootPublish
  BY <1>26 DEF BootPublish, Persist, Outgrown
<1>27. CASE ProxyBreaks
  BY <1>27 DEF ProxyBreaks
<1>28. CASE PdLock
  BY <1>28 DEF PdLock
<1>29. CASE PdPublish
  BY <1>29 DEF PdPublish, Persist, Outgrown
<1>30. CASE PdFail
  BY <1>30 DEF PdFail, Verdict, Mark, Timely
<1>31. CASE PdTeardown
  BY <1>31 DEF PdTeardown, CloseProxy
<1>32. CASE LifeReady
  BY <1>32 DEF LifeReady
<1>33. CASE LifeUp
  BY <1>33 DEF LifeUp, LateRunning
<1>34. CASE LifeTimeout
  BY <1>34 DEF LifeTimeout, Timely
<1>35. CASE LifePoll
  BY <1>35 DEF LifePoll
<1>36. CASE LifeBad
  BY <1>36 DEF LifeBad, Timely
<1>37. CASE LifeCancelled
  BY <1>37 DEF LifeCancelled
<1>38. ASSUME NEW c \in Callers, StopCall(c) PROVE FlowTypes'
  BY <1>38 DEF StopCall, StopTo
<1>39. ASSUME NEW c \in Callers, StopKill(c) PROVE FlowTypes'
  BY <1>39 DEF StopKill, StopTo
<1>40. ASSUME NEW c \in Callers, StopExited(c) PROVE FlowTypes'
  BY <1>40 DEF StopExited, StopTo
<1>41. ASSUME NEW c \in Callers, StopClose(c) PROVE FlowTypes'
  BY <1>41 DEF StopClose, StopTo, CloseProxy
<1>42. ASSUME NEW c \in Callers, StopJoin(c) PROVE FlowTypes'
  BY <1>42 DEF StopJoin, StopTo, Timely
<1>43. CASE UNCHANGED vars
  BY <1>43 DEF vars
<1> QED BY <1>1, <1>2, <1>3, <1>4, <1>5, <1>6, <1>7, <1>8, <1>9, <1>10, <1>11, <1>12,
   <1>13, <1>14, <1>15, <1>16, <1>17, <1>18, <1>19, <1>20, <1>21, <1>22, <1>23, <1>24,
   <1>25, <1>26, <1>27, <1>28, <1>29, <1>30, <1>31, <1>32, <1>33, <1>34, <1>35, <1>36,
   <1>37, <1>38, <1>39, <1>40, <1>41, <1>42, <1>43 DEF Next, StartStep, ChildStep,
   HealthStep, PumpStep, WaitStep, BootStep, PdStep, LifeStep, StopStep

(* The Boolean variables.                                                  *)
LEMMA BoolStep == BoolTypes /\ [Next]_vars => BoolTypes'
<1> SUFFICES ASSUME BoolTypes, [Next]_vars PROVE BoolTypes'
  OBVIOUS
<1> USE DEF BoolTypes, procVars, pumpVars, healthVars, bootVars, pdVars
<1>1. CASE SpawnFails
  BY <1>1 DEF SpawnFails
<1>2. CASE Spawn
  BY <1>2 DEF Spawn
<1>3. CASE Bind
  BY <1>3 DEF Bind
<1>4. CASE Register
  BY <1>4 DEF Register
<1>5. CASE ChildReady
  BY <1>5 DEF ChildReady
<1>6. CASE ChildBabbles
  BY <1>6 DEF ChildBabbles
<1>7. CASE ChildEnds
  BY <1>7 DEF ChildEnds
<1>8. CASE PumpLine
  BY <1>8 DEF PumpLine
<1>9. CASE PumpStarter
  BY <1>9 DEF PumpStarter
<1>10. CASE PumpStore
  BY <1>10 DEF PumpStore
<1>11. CASE PumpBlob
  BY <1>11 DEF PumpBlob
<1>12. CASE PumpPublish
  BY <1>12 DEF PumpPublish, Persist, Outgrown
<1>13. CASE PumpReady
  BY <1>13 DEF PumpReady
<1>14. CASE PumpMark
  BY <1>14 DEF PumpMark, Mark, LateRunning
<1>15. CASE HealthGood
  BY <1>15 DEF HealthGood
<1>16. CASE HealthBad
  BY <1>16 DEF HealthBad
<1>17. CASE HealthMark
  BY <1>17 DEF HealthMark, Verdict, Mark, Timely
<1>18. CASE HealthDone
  BY <1>18 DEF HealthDone
<1>19. CASE Reap
  BY <1>19 DEF Reap
<1>20. CASE WaitReason
  BY <1>20 DEF WaitReason
<1>21. CASE WaitExited
  BY <1>21 DEF WaitExited, Verdict, Mark, Timely
<1>22. CASE WaitFailed
  BY <1>22 DEF WaitFailed, Blamed, Mark, Timely
<1>23. CASE WaitDone
  BY <1>23 DEF WaitDone, CloseProxy
<1>24. CASE BootWait
  BY <1>24 DEF BootWait
<1>25. CASE BootCall
  BY <1>25 DEF BootCall
<1>26. CASE BootPublish
  BY <1>26 DEF BootPublish, Persist, Outgrown
<1>27. CASE ProxyBreaks
  BY <1>27 DEF ProxyBreaks
<1>28. CASE PdLock
  BY <1>28 DEF PdLock
<1>29. CASE PdPublish
  BY <1>29 DEF PdPublish, Persist, Outgrown
<1>30. CASE PdFail
  BY <1>30 DEF PdFail, Verdict, Mark, Timely
<1>31. CASE PdTeardown
  BY <1>31 DEF PdTeardown, CloseProxy
<1>32. CASE LifeReady
  BY <1>32 DEF LifeReady
<1>33. CASE LifeUp
  BY <1>33 DEF LifeUp, LateRunning
<1>34. CASE LifeTimeout
  BY <1>34 DEF LifeTimeout, Timely
<1>35. CASE LifePoll
  BY <1>35 DEF LifePoll
<1>36. CASE LifeBad
  BY <1>36 DEF LifeBad, Timely
<1>37. CASE LifeCancelled
  BY <1>37 DEF LifeCancelled
<1>38. ASSUME NEW c \in Callers, StopCall(c) PROVE BoolTypes'
  BY <1>38 DEF StopCall, StopTo
<1>39. ASSUME NEW c \in Callers, StopKill(c) PROVE BoolTypes'
  BY <1>39 DEF StopKill, StopTo
<1>40. ASSUME NEW c \in Callers, StopExited(c) PROVE BoolTypes'
  BY <1>40 DEF StopExited, StopTo
<1>41. ASSUME NEW c \in Callers, StopClose(c) PROVE BoolTypes'
  BY <1>41 DEF StopClose, StopTo, CloseProxy
<1>42. ASSUME NEW c \in Callers, StopJoin(c) PROVE BoolTypes'
  BY <1>42 DEF StopJoin, StopTo, Timely
<1>43. CASE UNCHANGED vars
  BY <1>43 DEF vars
<1> QED BY <1>1, <1>2, <1>3, <1>4, <1>5, <1>6, <1>7, <1>8, <1>9, <1>10, <1>11, <1>12,
   <1>13, <1>14, <1>15, <1>16, <1>17, <1>18, <1>19, <1>20, <1>21, <1>22, <1>23, <1>24,
   <1>25, <1>26, <1>27, <1>28, <1>29, <1>30, <1>31, <1>32, <1>33, <1>34, <1>35, <1>36,
   <1>37, <1>38, <1>39, <1>40, <1>41, <1>42, <1>43 DEF Next, StartStep, ChildStep,
   HealthStep, PumpStep, WaitStep, BootStep, PdStep, LifeStep, StopStep

(* The blobs and the record.                                               *)
LEMMA BlobsStep == BlobTypes /\ [Next]_vars => BlobTypes'
<1> SUFFICES ASSUME BlobTypes, [Next]_vars PROVE BlobTypes'
  OBVIOUS
<1>90. NoBlob \in Blobs
  BY DEF NoBlob, Blobs
<1>91. \A b \in Blobs : [b EXCEPT !.ws = TRUE] \in Blobs /\ [b EXCEPT !.url = "live"] \in Blobs
                       /\ [b EXCEPT !.url = IF @ = "live" THEN "cleared" ELSE @] \in Blobs
  BY DEF Blobs
<1> USE <1>90, <1>91
<1> USE DEF BlobTypes, procVars, pumpVars, healthVars, bootVars, pdVars
<1>1. CASE SpawnFails
  BY <1>1 DEF SpawnFails
<1>2. CASE Spawn
  BY <1>2 DEF Spawn
<1>3. CASE Bind
  BY <1>3 DEF Bind
<1>4. CASE Register
  BY <1>4 DEF Register
<1>5. CASE ChildReady
  BY <1>5 DEF ChildReady
<1>6. CASE ChildBabbles
  BY <1>6 DEF ChildBabbles
<1>7. CASE ChildEnds
  BY <1>7 DEF ChildEnds
<1>8. CASE PumpLine
  BY <1>8 DEF PumpLine
<1>9. CASE PumpStarter
  BY <1>9 DEF PumpStarter
<1>10. CASE PumpStore
  <2>1. blob' \in Blobs /\ UNCHANGED <<pumpBlob, bootBlob, pdBlob, rec>>
    BY <1>10, <1>91 DEF PumpStore
  <2> QED BY <2>1
<1>11. CASE PumpBlob
  BY <1>11 DEF PumpBlob
<1>12. CASE PumpPublish
  BY <1>12 DEF PumpPublish, Persist, Outgrown
<1>13. CASE PumpReady
  BY <1>13 DEF PumpReady
<1>14. CASE PumpMark
  BY <1>14 DEF PumpMark, Mark, LateRunning
<1>15. CASE HealthGood
  BY <1>15 DEF HealthGood
<1>16. CASE HealthBad
  BY <1>16 DEF HealthBad
<1>17. CASE HealthMark
  BY <1>17 DEF HealthMark, Verdict, Mark, Timely
<1>18. CASE HealthDone
  BY <1>18 DEF HealthDone
<1>19. CASE Reap
  BY <1>19 DEF Reap
<1>20. CASE WaitReason
  BY <1>20 DEF WaitReason
<1>21. CASE WaitExited
  BY <1>21 DEF WaitExited, Verdict, Mark, Timely
<1>22. CASE WaitFailed
  BY <1>22 DEF WaitFailed, Blamed, Mark, Timely
<1>23. CASE WaitDone
  BY <1>23 DEF WaitDone, CloseProxy
<1>24. CASE BootWait
  BY <1>24 DEF BootWait
<1>25. CASE BootCall
  <2>1. blob' \in Blobs /\ bootBlob' \in Blobs /\ UNCHANGED <<pumpBlob, pdBlob, rec>>
    <3>1. CASE UNCHANGED <<blob, bootBlob>>
      BY <1>25, <3>1 DEF BootCall
    <3>2. CASE blob' = [blob EXCEPT !.ws = TRUE] /\ bootBlob' = blob'
      BY <1>25, <3>2, <1>91 DEF BootCall
    <3> QED BY <1>25, <3>1, <3>2 DEF BootCall
  <2> QED BY <2>1
<1>26. CASE BootPublish
  BY <1>26 DEF BootPublish, Persist, Outgrown
<1>27. CASE ProxyBreaks
  BY <1>27 DEF ProxyBreaks
<1>28. CASE PdLock
  <2>1. blob' \in Blobs /\ pdBlob' = blob' /\ UNCHANGED <<pumpBlob, bootBlob, rec>>
    BY <1>28, <1>91 DEF PdLock
  <2> QED BY <2>1
<1>29. CASE PdPublish
  BY <1>29 DEF PdPublish, Persist, Outgrown
<1>30. CASE PdFail
  BY <1>30 DEF PdFail, Verdict, Mark, Timely
<1>31. CASE PdTeardown
  BY <1>31 DEF PdTeardown, CloseProxy
<1>32. CASE LifeReady
  BY <1>32 DEF LifeReady
<1>33. CASE LifeUp
  BY <1>33 DEF LifeUp, LateRunning
<1>34. CASE LifeTimeout
  BY <1>34 DEF LifeTimeout, Timely
<1>35. CASE LifePoll
  BY <1>35 DEF LifePoll
<1>36. CASE LifeBad
  BY <1>36 DEF LifeBad, Timely
<1>37. CASE LifeCancelled
  BY <1>37 DEF LifeCancelled
<1>38. ASSUME NEW c \in Callers, StopCall(c) PROVE BlobTypes'
  BY <1>38 DEF StopCall, StopTo
<1>39. ASSUME NEW c \in Callers, StopKill(c) PROVE BlobTypes'
  BY <1>39 DEF StopKill, StopTo
<1>40. ASSUME NEW c \in Callers, StopExited(c) PROVE BlobTypes'
  BY <1>40 DEF StopExited, StopTo
<1>41. ASSUME NEW c \in Callers, StopClose(c) PROVE BlobTypes'
  BY <1>41 DEF StopClose, StopTo, CloseProxy
<1>42. ASSUME NEW c \in Callers, StopJoin(c) PROVE BlobTypes'
  BY <1>42 DEF StopJoin, StopTo, Timely
<1>43. CASE UNCHANGED vars
  BY <1>43 DEF vars
<1> QED BY <1>1, <1>2, <1>3, <1>4, <1>5, <1>6, <1>7, <1>8, <1>9, <1>10, <1>11, <1>12,
   <1>13, <1>14, <1>15, <1>16, <1>17, <1>18, <1>19, <1>20, <1>21, <1>22, <1>23, <1>24,
   <1>25, <1>26, <1>27, <1>28, <1>29, <1>30, <1>31, <1>32, <1>33, <1>34, <1>35, <1>36,
   <1>37, <1>38, <1>39, <1>40, <1>41, <1>42, <1>43 DEF Next, StartStep, ChildStep,
   HealthStep, PumpStep, WaitStep, BootStep, PdStep, LifeStep, StopStep

(* The sets and the callers.                                               *)
LEMMA SetsStep == SetTypes /\ [Next]_vars => SetTypes'
<1> SUFFICES ASSUME SetTypes, [Next]_vars PROVE SetTypes'
  OBVIOUS
<1> USE DEF SetTypes, Flags, procVars, pumpVars, healthVars, bootVars, pdVars, Is, Set
<1>1. CASE SpawnFails
  BY <1>1 DEF SpawnFails
<1>2. CASE Spawn
  BY <1>2 DEF Spawn
<1>3. CASE Bind
  BY <1>3 DEF Bind
<1>4. CASE Register
  BY <1>4 DEF Register
<1>5. CASE ChildReady
  BY <1>5 DEF ChildReady
<1>6. CASE ChildBabbles
  BY <1>6 DEF ChildBabbles
<1>7. CASE ChildEnds
  BY <1>7 DEF ChildEnds
<1>8. CASE PumpLine
  BY <1>8 DEF PumpLine
<1>9. CASE PumpStarter
  BY <1>9 DEF PumpStarter
<1>10. CASE PumpStore
  BY <1>10 DEF PumpStore
<1>11. CASE PumpBlob
  BY <1>11 DEF PumpBlob
<1>12. CASE PumpPublish
  BY <1>12 DEF PumpPublish, Persist, Outgrown
<1>13. CASE PumpReady
  BY <1>13 DEF PumpReady
<1>14. CASE PumpMark
  BY <1>14 DEF PumpMark, Mark, LateRunning
<1>15. CASE HealthGood
  BY <1>15 DEF HealthGood
<1>16. CASE HealthBad
  BY <1>16 DEF HealthBad
<1>17. CASE HealthMark
  BY <1>17 DEF HealthMark, Verdict, Mark, Timely
<1>18. CASE HealthDone
  BY <1>18 DEF HealthDone
<1>19. CASE Reap
  BY <1>19 DEF Reap
<1>20. CASE WaitReason
  BY <1>20 DEF WaitReason
<1>21. CASE WaitExited
  BY <1>21 DEF WaitExited, Verdict, Mark, Timely
<1>22. CASE WaitFailed
  BY <1>22 DEF WaitFailed, Blamed, Mark, Timely
<1>23. CASE WaitDone
  BY <1>23 DEF WaitDone, CloseProxy
<1>24. CASE BootWait
  BY <1>24 DEF BootWait
<1>25. CASE BootCall
  BY <1>25 DEF BootCall
<1>26. CASE BootPublish
  BY <1>26 DEF BootPublish, Persist, Outgrown
<1>27. CASE ProxyBreaks
  BY <1>27 DEF ProxyBreaks
<1>28. CASE PdLock
  BY <1>28 DEF PdLock
<1>29. CASE PdPublish
  BY <1>29 DEF PdPublish, Persist, Outgrown
<1>30. CASE PdFail
  BY <1>30 DEF PdFail, Verdict, Mark, Timely
<1>31. CASE PdTeardown
  BY <1>31 DEF PdTeardown, CloseProxy
<1>32. CASE LifeReady
  BY <1>32 DEF LifeReady
<1>33. CASE LifeUp
  BY <1>33 DEF LifeUp, LateRunning
<1>34. CASE LifeTimeout
  BY <1>34 DEF LifeTimeout, Timely
<1>35. CASE LifePoll
  BY <1>35 DEF LifePoll
<1>36. CASE LifeBad
  BY <1>36 DEF LifeBad, Timely
<1>37. CASE LifeCancelled
  BY <1>37 DEF LifeCancelled
<1>38. ASSUME NEW c \in Callers, StopCall(c) PROVE SetTypes'
  BY <1>38 DEF StopCall, StopTo
<1>39. ASSUME NEW c \in Callers, StopKill(c) PROVE SetTypes'
  BY <1>39 DEF StopKill, StopTo
<1>40. ASSUME NEW c \in Callers, StopExited(c) PROVE SetTypes'
  BY <1>40 DEF StopExited, StopTo
<1>41. ASSUME NEW c \in Callers, StopClose(c) PROVE SetTypes'
  BY <1>41 DEF StopClose, StopTo, CloseProxy
<1>42. ASSUME NEW c \in Callers, StopJoin(c) PROVE SetTypes'
  BY <1>42 DEF StopJoin, StopTo, Timely
<1>43. CASE UNCHANGED vars
  BY <1>43 DEF vars
<1> QED BY <1>1, <1>2, <1>3, <1>4, <1>5, <1>6, <1>7, <1>8, <1>9, <1>10, <1>11, <1>12,
   <1>13, <1>14, <1>15, <1>16, <1>17, <1>18, <1>19, <1>20, <1>21, <1>22, <1>23, <1>24,
   <1>25, <1>26, <1>27, <1>28, <1>29, <1>30, <1>31, <1>32, <1>33, <1>34, <1>35, <1>36,
   <1>37, <1>38, <1>39, <1>40, <1>41, <1>42, <1>43 DEF Next, StartStep, ChildStep,
   HealthStep, PumpStep, WaitStep, BootStep, PdStep, LifeStep, StopStep

(* The order of the steps.                                                 *)
LEMMA OrderStep == DshTypeOK /\ Order /\ [Next]_vars => Order'
<1> SUFFICES ASSUME DshTypeOK, Order, [Next]_vars PROVE Order'
  OBVIOUS
<1>90. /\ HealthThreshold \in Nat \ {0} /\ fails \in Nat
       /\ stop \in [Callers -> {"idle", "unknown", "wait", "killed", "close", "join", "done"}]
  BY ThresholdAssumption DEF DshTypeOK
<1> USE <1>90
<1> USE DEF Order, procVars, pumpVars, healthVars, bootVars, pdVars, Is, Set
<1>1. CASE SpawnFails
  BY <1>1 DEF SpawnFails
<1>2. CASE Spawn
  <2>1. /\ hnd = {} /\ hnd' = {} /\ waiter = "off" /\ pump = "off" /\ pd = "off" /\ life = "off"
        /\ UNCHANGED <<fails, pd, life, stop>>
    BY <1>2 DEF Spawn
  <2>2. main' = "bind" /\ waiter' = "wait" /\ pump' = "scan" /\ health' = "loop"
    BY <1>2 DEF Spawn
  <2>3. fails < HealthThreshold
    BY <1>2 DEF Spawn
  <2> QED BY <2>1, <2>2, <2>3
<1>3. CASE Bind
  BY <1>3 DEF Bind
<1>4. CASE Register
  BY <1>4 DEF Register
<1>5. CASE ChildReady
  BY <1>5 DEF ChildReady
<1>6. CASE ChildBabbles
  BY <1>6 DEF ChildBabbles
<1>7. CASE ChildEnds
  BY <1>7 DEF ChildEnds
<1>8. CASE PumpLine
  BY <1>8 DEF PumpLine
<1>9. CASE PumpStarter
  BY <1>9 DEF PumpStarter
<1>10. CASE PumpStore
  BY <1>10 DEF PumpStore
<1>11. CASE PumpBlob
  BY <1>11 DEF PumpBlob
<1>12. CASE PumpPublish
  BY <1>12 DEF PumpPublish, Persist, Outgrown
<1>13. CASE PumpReady
  BY <1>13 DEF PumpReady
<1>14. CASE PumpMark
  BY <1>14 DEF PumpMark, Mark, LateRunning
<1>15. CASE HealthGood
  BY <1>15 DEF HealthGood
<1>16. CASE HealthBad
  BY <1>16 DEF HealthBad
<1>17. CASE HealthMark
  BY <1>17 DEF HealthMark, Verdict, Mark, Timely
<1>18. CASE HealthDone
  BY <1>18 DEF HealthDone
<1>19. CASE Reap
  BY <1>19 DEF Reap
<1>20. CASE WaitReason
  BY <1>20 DEF WaitReason
<1>21. CASE WaitExited
  BY <1>21 DEF WaitExited, Verdict, Mark, Timely
<1>22. CASE WaitFailed
  BY <1>22 DEF WaitFailed, Blamed, Mark, Timely
<1>23. CASE WaitDone
  BY <1>23 DEF WaitDone, CloseProxy
<1>24. CASE BootWait
  BY <1>24 DEF BootWait
<1>25. CASE BootCall
  BY <1>25 DEF BootCall
<1>26. CASE BootPublish
  BY <1>26 DEF BootPublish, Persist, Outgrown
<1>27. CASE ProxyBreaks
  BY <1>27 DEF ProxyBreaks
<1>28. CASE PdLock
  BY <1>28 DEF PdLock
<1>29. CASE PdPublish
  BY <1>29 DEF PdPublish, Persist, Outgrown
<1>30. CASE PdFail
  BY <1>30 DEF PdFail, Verdict, Mark, Timely
<1>31. CASE PdTeardown
  BY <1>31 DEF PdTeardown, CloseProxy
<1>32. CASE LifeReady
  BY <1>32 DEF LifeReady
<1>33. CASE LifeUp
  BY <1>33 DEF LifeUp, LateRunning
<1>34. CASE LifeTimeout
  BY <1>34 DEF LifeTimeout, Timely
<1>35. CASE LifePoll
  BY <1>35 DEF LifePoll
<1>36. CASE LifeBad
  BY <1>36 DEF LifeBad, Timely
<1>37. CASE LifeCancelled
  BY <1>37 DEF LifeCancelled
<1>38. ASSUME NEW c \in Callers, StopCall(c) PROVE Order'
  BY <1>38 DEF StopCall, StopTo
<1>39. ASSUME NEW c \in Callers, StopKill(c) PROVE Order'
  BY <1>39 DEF StopKill, StopTo
<1>40. ASSUME NEW c \in Callers, StopExited(c) PROVE Order'
  BY <1>40 DEF StopExited, StopTo
<1>41. ASSUME NEW c \in Callers, StopClose(c) PROVE Order'
  BY <1>41 DEF StopClose, StopTo, CloseProxy
<1>42. ASSUME NEW c \in Callers, StopJoin(c) PROVE Order'
  BY <1>42 DEF StopJoin, StopTo, Timely
<1>43. CASE UNCHANGED vars
  BY <1>43 DEF vars
<1> QED BY <1>1, <1>2, <1>3, <1>4, <1>5, <1>6, <1>7, <1>8, <1>9, <1>10, <1>11, <1>12,
   <1>13, <1>14, <1>15, <1>16, <1>17, <1>18, <1>19, <1>20, <1>21, <1>22, <1>23, <1>24,
   <1>25, <1>26, <1>27, <1>28, <1>29, <1>30, <1>31, <1>32, <1>33, <1>34, <1>35, <1>36,
   <1>37, <1>38, <1>39, <1>40, <1>41, <1>42, <1>43 DEF Next, StartStep, ChildStep,
   HealthStep, PumpStep, WaitStep, BootStep, PdStep, LifeStep, StopStep

(* The listener.                                                           *)
LEMMA ListenerStep == Order /\ Listener /\ [Next]_vars => Listener'
<1> SUFFICES ASSUME Order, Listener, [Next]_vars PROVE Listener'
  OBVIOUS
<1> USE DEF Order, Listener, procVars, pumpVars, healthVars, bootVars, pdVars, Is, Set
<1>1. CASE SpawnFails
  BY <1>1 DEF SpawnFails
<1>2. CASE Spawn
  BY <1>2 DEF Spawn
<1>3. CASE Bind
  BY <1>3 DEF Bind
<1>4. CASE Register
  BY <1>4 DEF Register
<1>5. CASE ChildReady
  BY <1>5 DEF ChildReady
<1>6. CASE ChildBabbles
  BY <1>6 DEF ChildBabbles
<1>7. CASE ChildEnds
  BY <1>7 DEF ChildEnds
<1>8. CASE PumpLine
  BY <1>8 DEF PumpLine
<1>9. CASE PumpStarter
  BY <1>9 DEF PumpStarter
<1>10. CASE PumpStore
  BY <1>10 DEF PumpStore
<1>11. CASE PumpBlob
  BY <1>11 DEF PumpBlob
<1>12. CASE PumpPublish
  BY <1>12 DEF PumpPublish, Persist, Outgrown
<1>13. CASE PumpReady
  BY <1>13 DEF PumpReady
<1>14. CASE PumpMark
  BY <1>14 DEF PumpMark, Mark, LateRunning
<1>15. CASE HealthGood
  BY <1>15 DEF HealthGood
<1>16. CASE HealthBad
  BY <1>16 DEF HealthBad
<1>17. CASE HealthMark
  BY <1>17 DEF HealthMark, Verdict, Mark, Timely
<1>18. CASE HealthDone
  BY <1>18 DEF HealthDone
<1>19. CASE Reap
  BY <1>19 DEF Reap
<1>20. CASE WaitReason
  BY <1>20 DEF WaitReason
<1>21. CASE WaitExited
  BY <1>21 DEF WaitExited, Verdict, Mark, Timely
<1>22. CASE WaitFailed
  BY <1>22 DEF WaitFailed, Blamed, Mark, Timely
<1>23. CASE WaitDone
  BY <1>23 DEF WaitDone, CloseProxy
<1>24. CASE BootWait
  BY <1>24 DEF BootWait
<1>25. CASE BootCall
  BY <1>25 DEF BootCall
<1>26. CASE BootPublish
  BY <1>26 DEF BootPublish, Persist, Outgrown
<1>27. CASE ProxyBreaks
  BY <1>27 DEF ProxyBreaks
<1>28. CASE PdLock
  BY <1>28 DEF PdLock
<1>29. CASE PdPublish
  BY <1>29 DEF PdPublish, Persist, Outgrown
<1>30. CASE PdFail
  BY <1>30 DEF PdFail, Verdict, Mark, Timely
<1>31. CASE PdTeardown
  BY <1>31 DEF PdTeardown, CloseProxy
<1>32. CASE LifeReady
  BY <1>32 DEF LifeReady
<1>33. CASE LifeUp
  BY <1>33 DEF LifeUp, LateRunning
<1>34. CASE LifeTimeout
  BY <1>34 DEF LifeTimeout, Timely
<1>35. CASE LifePoll
  BY <1>35 DEF LifePoll
<1>36. CASE LifeBad
  BY <1>36 DEF LifeBad, Timely
<1>37. CASE LifeCancelled
  BY <1>37 DEF LifeCancelled
<1>38. ASSUME NEW c \in Callers, StopCall(c) PROVE Listener'
  BY <1>38 DEF StopCall, StopTo
<1>39. ASSUME NEW c \in Callers, StopKill(c) PROVE Listener'
  BY <1>39 DEF StopKill, StopTo
<1>40. ASSUME NEW c \in Callers, StopExited(c) PROVE Listener'
  BY <1>40 DEF StopExited, StopTo
<1>41. ASSUME NEW c \in Callers, StopClose(c) PROVE Listener'
  BY <1>41 DEF StopClose, StopTo, CloseProxy
<1>42. ASSUME NEW c \in Callers, StopJoin(c) PROVE Listener'
  BY <1>42 DEF StopJoin, StopTo, Timely
<1>43. CASE UNCHANGED vars
  BY <1>43 DEF vars
<1> QED BY <1>1, <1>2, <1>3, <1>4, <1>5, <1>6, <1>7, <1>8, <1>9, <1>10, <1>11, <1>12,
   <1>13, <1>14, <1>15, <1>16, <1>17, <1>18, <1>19, <1>20, <1>21, <1>22, <1>23, <1>24,
   <1>25, <1>26, <1>27, <1>28, <1>29, <1>30, <1>31, <1>32, <1>33, <1>34, <1>35, <1>36,
   <1>37, <1>38, <1>39, <1>40, <1>41, <1>42, <1>43 DEF Next, StartStep, ChildStep,
   HealthStep, PumpStep, WaitStep, BootStep, PdStep, LifeStep, StopStep

(* The status.                                                             *)
LEMMA StatusStep == DshTypeOK /\ Order /\ Status /\ [Next]_vars => Status'
<1> SUFFICES ASSUME DshTypeOK, Order, Status, [Next]_vars PROVE Status'
  OBVIOUS
<1> USE DEF Order, Status, Bound, Judged, procVars, pumpVars, healthVars, bootVars,
   pdVars, Is, Set
<1>1. CASE SpawnFails
  BY <1>1 DEF SpawnFails
<1>2. CASE Spawn
  BY <1>2 DEF Spawn
<1>3. CASE Bind
  BY <1>3 DEF Bind
<1>4. CASE Register
  BY <1>4 DEF Register
<1>5. CASE ChildReady
  BY <1>5 DEF ChildReady
<1>6. CASE ChildBabbles
  BY <1>6 DEF ChildBabbles
<1>7. CASE ChildEnds
  BY <1>7 DEF ChildEnds
<1>8. CASE PumpLine
  BY <1>8 DEF PumpLine
<1>9. CASE PumpStarter
  BY <1>9 DEF PumpStarter
<1>10. CASE PumpStore
  BY <1>10 DEF PumpStore
<1>11. CASE PumpBlob
  BY <1>11 DEF PumpBlob
<1>12. CASE PumpPublish
  BY <1>12 DEF PumpPublish, Persist, Outgrown
<1>13. CASE PumpReady
  BY <1>13 DEF PumpReady
<1>14. CASE PumpMark
  BY <1>14 DEF PumpMark, Mark, LateRunning
<1>15. CASE HealthGood
  BY <1>15 DEF HealthGood
<1>16. CASE HealthBad
  BY <1>16 DEF HealthBad
<1>17. CASE HealthMark
  BY <1>17 DEF HealthMark, Verdict, Mark, Timely
<1>18. CASE HealthDone
  BY <1>18 DEF HealthDone
<1>19. CASE Reap
  BY <1>19 DEF Reap
<1>20. CASE WaitReason
  BY <1>20 DEF WaitReason
<1>21. CASE WaitExited
  BY <1>21 DEF WaitExited, Verdict, Mark, Timely
<1>22. CASE WaitFailed
  BY <1>22 DEF WaitFailed, Blamed, Mark, Timely
<1>23. CASE WaitDone
  BY <1>23 DEF WaitDone, CloseProxy
<1>24. CASE BootWait
  BY <1>24 DEF BootWait
<1>25. CASE BootCall
  BY <1>25 DEF BootCall
<1>26. CASE BootPublish
  BY <1>26 DEF BootPublish, Persist, Outgrown
<1>27. CASE ProxyBreaks
  BY <1>27 DEF ProxyBreaks
<1>28. CASE PdLock
  BY <1>28 DEF PdLock
<1>29. CASE PdPublish
  BY <1>29 DEF PdPublish, Persist, Outgrown
<1>30. CASE PdFail
  BY <1>30 DEF PdFail, Verdict, Mark, Timely
<1>31. CASE PdTeardown
  BY <1>31 DEF PdTeardown, CloseProxy
<1>32. CASE LifeReady
  BY <1>32 DEF LifeReady
<1>33. CASE LifeUp
  BY <1>33 DEF LifeUp, LateRunning
<1>34. CASE LifeTimeout
  BY <1>34 DEF LifeTimeout, Timely
<1>35. CASE LifePoll
  BY <1>35 DEF LifePoll
<1>36. CASE LifeBad
  BY <1>36 DEF LifeBad, Timely
<1>37. CASE LifeCancelled
  BY <1>37 DEF LifeCancelled
<1>38. ASSUME NEW c \in Callers, StopCall(c) PROVE Status'
  BY <1>38 DEF StopCall, StopTo
<1>39. ASSUME NEW c \in Callers, StopKill(c) PROVE Status'
  BY <1>39 DEF StopKill, StopTo
<1>40. ASSUME NEW c \in Callers, StopExited(c) PROVE Status'
  BY <1>40 DEF StopExited, StopTo
<1>41. ASSUME NEW c \in Callers, StopClose(c) PROVE Status'
  BY <1>41 DEF StopClose, StopTo, CloseProxy
<1>42. ASSUME NEW c \in Callers, StopJoin(c) PROVE Status'
  BY <1>42 DEF StopJoin, StopTo, Timely
<1>43. CASE UNCHANGED vars
  BY <1>43 DEF vars
<1> QED BY <1>1, <1>2, <1>3, <1>4, <1>5, <1>6, <1>7, <1>8, <1>9, <1>10, <1>11, <1>12,
   <1>13, <1>14, <1>15, <1>16, <1>17, <1>18, <1>19, <1>20, <1>21, <1>22, <1>23, <1>24,
   <1>25, <1>26, <1>27, <1>28, <1>29, <1>30, <1>31, <1>32, <1>33, <1>34, <1>35, <1>36,
   <1>37, <1>38, <1>39, <1>40, <1>41, <1>42, <1>43 DEF Next, StartStep, ChildStep,
   HealthStep, PumpStep, WaitStep, BootStep, PdStep, LifeStep, StopStep

(* The blob.                                                               *)
LEMMA BlobStep == Order /\ BlobUnderWay /\ [Next]_vars => BlobUnderWay'
<1> SUFFICES ASSUME Order, BlobUnderWay, [Next]_vars PROVE BlobUnderWay'
  OBVIOUS
<1> USE DEF Order, BlobUnderWay, Bound, procVars, pumpVars, healthVars, bootVars,
   pdVars, Is, Set
<1>1. CASE SpawnFails
  BY <1>1 DEF SpawnFails
<1>2. CASE Spawn
  BY <1>2 DEF Spawn
<1>3. CASE Bind
  BY <1>3 DEF Bind
<1>4. CASE Register
  BY <1>4 DEF Register
<1>5. CASE ChildReady
  BY <1>5 DEF ChildReady
<1>6. CASE ChildBabbles
  BY <1>6 DEF ChildBabbles
<1>7. CASE ChildEnds
  BY <1>7 DEF ChildEnds
<1>8. CASE PumpLine
  BY <1>8 DEF PumpLine
<1>9. CASE PumpStarter
  BY <1>9 DEF PumpStarter
<1>10. CASE PumpStore
  BY <1>10 DEF PumpStore
<1>11. CASE PumpBlob
  BY <1>11 DEF PumpBlob
<1>12. CASE PumpPublish
  BY <1>12 DEF PumpPublish, Persist, Outgrown
<1>13. CASE PumpReady
  BY <1>13 DEF PumpReady
<1>14. CASE PumpMark
  BY <1>14 DEF PumpMark, Mark, LateRunning
<1>15. CASE HealthGood
  BY <1>15 DEF HealthGood
<1>16. CASE HealthBad
  BY <1>16 DEF HealthBad
<1>17. CASE HealthMark
  BY <1>17 DEF HealthMark, Verdict, Mark, Timely
<1>18. CASE HealthDone
  BY <1>18 DEF HealthDone
<1>19. CASE Reap
  BY <1>19 DEF Reap
<1>20. CASE WaitReason
  BY <1>20 DEF WaitReason
<1>21. CASE WaitExited
  BY <1>21 DEF WaitExited, Verdict, Mark, Timely
<1>22. CASE WaitFailed
  BY <1>22 DEF WaitFailed, Blamed, Mark, Timely
<1>23. CASE WaitDone
  BY <1>23 DEF WaitDone, CloseProxy
<1>24. CASE BootWait
  BY <1>24 DEF BootWait
<1>25. CASE BootCall
  BY <1>25 DEF BootCall
<1>26. CASE BootPublish
  BY <1>26 DEF BootPublish, Persist, Outgrown
<1>27. CASE ProxyBreaks
  BY <1>27 DEF ProxyBreaks
<1>28. CASE PdLock
  BY <1>28 DEF PdLock
<1>29. CASE PdPublish
  BY <1>29 DEF PdPublish, Persist, Outgrown
<1>30. CASE PdFail
  BY <1>30 DEF PdFail, Verdict, Mark, Timely
<1>31. CASE PdTeardown
  BY <1>31 DEF PdTeardown, CloseProxy
<1>32. CASE LifeReady
  BY <1>32 DEF LifeReady
<1>33. CASE LifeUp
  BY <1>33 DEF LifeUp, LateRunning
<1>34. CASE LifeTimeout
  BY <1>34 DEF LifeTimeout, Timely
<1>35. CASE LifePoll
  BY <1>35 DEF LifePoll
<1>36. CASE LifeBad
  BY <1>36 DEF LifeBad, Timely
<1>37. CASE LifeCancelled
  BY <1>37 DEF LifeCancelled
<1>38. ASSUME NEW c \in Callers, StopCall(c) PROVE BlobUnderWay'
  BY <1>38 DEF StopCall, StopTo
<1>39. ASSUME NEW c \in Callers, StopKill(c) PROVE BlobUnderWay'
  BY <1>39 DEF StopKill, StopTo
<1>40. ASSUME NEW c \in Callers, StopExited(c) PROVE BlobUnderWay'
  BY <1>40 DEF StopExited, StopTo
<1>41. ASSUME NEW c \in Callers, StopClose(c) PROVE BlobUnderWay'
  BY <1>41 DEF StopClose, StopTo, CloseProxy
<1>42. ASSUME NEW c \in Callers, StopJoin(c) PROVE BlobUnderWay'
  BY <1>42 DEF StopJoin, StopTo, Timely
<1>43. CASE UNCHANGED vars
  BY <1>43 DEF vars
<1> QED BY <1>1, <1>2, <1>3, <1>4, <1>5, <1>6, <1>7, <1>8, <1>9, <1>10, <1>11, <1>12,
   <1>13, <1>14, <1>15, <1>16, <1>17, <1>18, <1>19, <1>20, <1>21, <1>22, <1>23, <1>24,
   <1>25, <1>26, <1>27, <1>28, <1>29, <1>30, <1>31, <1>32, <1>33, <1>34, <1>35, <1>36,
   <1>37, <1>38, <1>39, <1>40, <1>41, <1>42, <1>43 DEF Next, StartStep, ChildStep,
   HealthStep, PumpStep, WaitStep, BootStep, PdStep, LifeStep, StopStep

(* Only wait records the exit.                                            *)
LEMMA ExitedByWait == BlobTypes /\ [Next]_vars => OnlyWait
<1> SUFFICES ASSUME BlobTypes, [Next]_vars PROVE OnlyWait
  OBVIOUS
<1> USE DEF OnlyWait, BlobTypes, Bound, procVars, pumpVars, healthVars, bootVars, pdVars
<1>1. CASE SpawnFails
  BY <1>1 DEF SpawnFails
<1>2. CASE Spawn
  BY <1>2 DEF Spawn
<1>3. CASE Bind
  BY <1>3 DEF Bind
<1>4. CASE Register
  BY <1>4 DEF Register
<1>5. CASE ChildReady
  BY <1>5 DEF ChildReady
<1>6. CASE ChildBabbles
  BY <1>6 DEF ChildBabbles
<1>7. CASE ChildEnds
  BY <1>7 DEF ChildEnds
<1>8. CASE PumpLine
  BY <1>8 DEF PumpLine
<1>9. CASE PumpStarter
  BY <1>9 DEF PumpStarter
<1>10. CASE PumpStore
  BY <1>10 DEF PumpStore
<1>11. CASE PumpBlob
  BY <1>11 DEF PumpBlob
<1>12. CASE PumpPublish
  BY <1>12 DEF PumpPublish, Persist, Outgrown
<1>13. CASE PumpReady
  BY <1>13 DEF PumpReady
<1>14. CASE PumpMark
  BY <1>14 DEF PumpMark, Mark, LateRunning
<1>15. CASE HealthGood
  BY <1>15 DEF HealthGood
<1>16. CASE HealthBad
  BY <1>16 DEF HealthBad
<1>17. CASE HealthMark
  BY <1>17 DEF HealthMark, Verdict, Mark, Timely
<1>18. CASE HealthDone
  BY <1>18 DEF HealthDone
<1>19. CASE Reap
  BY <1>19 DEF Reap
<1>20. CASE WaitReason
  BY <1>20 DEF WaitReason
<1>21. CASE WaitExited
  BY <1>21 DEF WaitExited, Verdict, Mark, Timely
<1>22. CASE WaitFailed
  BY <1>22 DEF WaitFailed, Blamed, Mark, Timely
<1>23. CASE WaitDone
  BY <1>23 DEF WaitDone, CloseProxy
<1>24. CASE BootWait
  BY <1>24 DEF BootWait
<1>25. CASE BootCall
  BY <1>25 DEF BootCall
<1>26. CASE BootPublish
  BY <1>26 DEF BootPublish, Persist, Outgrown
<1>27. CASE ProxyBreaks
  BY <1>27 DEF ProxyBreaks
<1>28. CASE PdLock
  BY <1>28 DEF PdLock
<1>29. CASE PdPublish
  BY <1>29 DEF PdPublish, Persist, Outgrown
<1>30. CASE PdFail
  BY <1>30 DEF PdFail, Verdict, Mark, Timely
<1>31. CASE PdTeardown
  BY <1>31 DEF PdTeardown, CloseProxy
<1>32. CASE LifeReady
  BY <1>32 DEF LifeReady
<1>33. CASE LifeUp
  BY <1>33 DEF LifeUp, LateRunning
<1>34. CASE LifeTimeout
  BY <1>34 DEF LifeTimeout, Timely
<1>35. CASE LifePoll
  BY <1>35 DEF LifePoll
<1>36. CASE LifeBad
  BY <1>36 DEF LifeBad, Timely
<1>37. CASE LifeCancelled
  BY <1>37 DEF LifeCancelled
<1>38. ASSUME NEW c \in Callers, StopCall(c) PROVE OnlyWait
  BY <1>38 DEF StopCall, StopTo
<1>39. ASSUME NEW c \in Callers, StopKill(c) PROVE OnlyWait
  BY <1>39 DEF StopKill, StopTo
<1>40. ASSUME NEW c \in Callers, StopExited(c) PROVE OnlyWait
  BY <1>40 DEF StopExited, StopTo
<1>41. ASSUME NEW c \in Callers, StopClose(c) PROVE OnlyWait
  BY <1>41 DEF StopClose, StopTo, CloseProxy
<1>42. ASSUME NEW c \in Callers, StopJoin(c) PROVE OnlyWait
  BY <1>42 DEF StopJoin, StopTo, Timely
<1>43. CASE UNCHANGED vars
  BY <1>43 DEF vars
<1> QED BY <1>1, <1>2, <1>3, <1>4, <1>5, <1>6, <1>7, <1>8, <1>9, <1>10, <1>11, <1>12,
   <1>13, <1>14, <1>15, <1>16, <1>17, <1>18, <1>19, <1>20, <1>21, <1>22, <1>23, <1>24,
   <1>25, <1>26, <1>27, <1>28, <1>29, <1>30, <1>31, <1>32, <1>33, <1>34, <1>35, <1>36,
   <1>37, <1>38, <1>39, <1>40, <1>41, <1>42, <1>43 DEF Next, StartStep, ChildStep,
   HealthStep, PumpStep, WaitStep, BootStep, PdStep, LifeStep, StopStep

(* All parts together.                                                     *)
LEMMA InvStep == Inv /\ [Next]_vars => Inv'
<1> SUFFICES ASSUME Inv, [Next]_vars PROVE Inv'
  OBVIOUS
<1>1. DshTypeOK /\ Order /\ Listener /\ Status /\ BlobUnderWay
  BY DEF Inv
<1>2. FlowTypes /\ BoolTypes /\ BlobTypes /\ SetTypes
  BY <1>1, TypeParts
<1>3. FlowTypes' /\ BoolTypes' /\ BlobTypes' /\ SetTypes'
  BY <1>1, <1>2, FlowStep, BoolStep, BlobsStep, SetsStep
<1>4. DshTypeOK'
  BY <1>3 DEF DshTypeOK, FlowTypes, BoolTypes, BlobTypes, SetTypes
<1>5. Order' /\ Listener' /\ Status' /\ BlobUnderWay'
  BY <1>1, OrderStep, ListenerStep, StatusStep, BlobStep
<1> QED BY <1>4, <1>5 DEF Inv

LEMMA InvHolds == Spec => []Inv
<1> QED BY InvInit, InvStep, PTL DEF Spec

----------------------------------------------------------------------------
(* Once the process is reaped and the pump is past the start of the proxy, *)
(* no listener of the instance is left, unless closeProxy had run between  *)
(* the listener's start and the storing of its close function; and when    *)
(* Stop returns, the process it found is dead, whoever else called Stop.   *)
THEOREM DeadAlwaysDead == Spec => []DeadIsDead
<1> QED BY InvHolds, InvGives, PTL

(* A reaped process is not recorded as running, an instance whose proxy    *)
(* died stays failed, and a live process that Stop no longer finds is      *)
(* recorded as failed, but for the late "running" of the pump and of       *)
(* runLifecycle.                                                           *)
THEOREM EndAlwaysRecorded == Spec => []EndRecorded
<1> QED BY InvHolds, InvGives, PTL

(* When the pump, bootstrap and markProxyDead have no blob left to write,  *)
(* the record has the handle's, unless one of them wrote a copy that       *)
(* another had outgrown.                                                   *)
THEOREM BlobAlwaysPersisted == Spec => []BlobPersisted
<1> QED BY InvHolds, InvGives, PTL

(* After a Stop has returned, nothing writes "exited" into the record:     *)
(* wait's last word comes before it closes h.exited.                       *)
THEOREM StoppedNotExitedLater == Spec => ExitBeforeStop
<1> DEFINE Good == (\E c \in Callers : stop[c] = "done") /\ rec'.status = "exited"
                     => rec.status = "exited"
<1>1. ASSUME Inv, [Next]_vars PROVE [Good]_vars
  <2>1. SUFFICES ASSUME NEW c \in Callers, stop[c] = "done", rec'.status = "exited",
                        rec.status # "exited"
                 PROVE  FALSE
    OBVIOUS
  <2>2. waiter = "end" /\ BlobTypes
    BY <1>1, <2>1, TypeParts DEF Inv, Order
  <2>3. WaitExited
    BY <1>1, <2>1, <2>2, ExitedByWait DEF OnlyWait
  <2> QED BY <2>2, <2>3 DEF WaitExited
<1> QED BY <1>1, InvHolds, PTL DEF Spec, ExitBeforeStop
=============================================================================
