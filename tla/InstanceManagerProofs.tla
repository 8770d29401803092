----------------------- MODULE InstanceManagerProofs -----------------------
(***************************************************************************)
(* Proofs about InstanceManager, for every set of instances, every number  *)
(* of handlers and every limit on retries and buffers.                     *)
(***************************************************************************)
EXTENDS InstanceManager, TLAPS, FiniteSetTheorems

(* The part of the invariant that speaks of state.json and control; what   *)
(* memory and the kinds do to the rest of the state does not disturb it.   *)
Core ==
  /\ StoreTypeOK
  /\ SnapshotFresh
  /\ \A g \in Goroutines : JobOK(g) /\ SnapOK(g)
  /\ \A c \in Callers : StartOK(c)
  /\ \A i \in Ids : FreshOK(i)

Labels == CallerLabels \cup LifeLabels \cup WebLabels

(* g alone moves, to l with edit j, and nobody touches the store.          *)
Moves(g, l, j) ==
  /\ pc' = [pc EXCEPT ![g] = l]
  /\ job' = [job EXCEPT ![g] = j]
  /\ UNCHANGED <<file, snap, tries, used, old>>

(* An edit other than a new record that may be begun at label l.           *)
Beginnable(j, l) ==
  /\ j \in Jobs
  /\ j.op # "none" => l \in LoopLabels
  /\ j.op # "append"
  /\ j.op = "status" => j.status \in Statuses
  /\ j.op = "link" => j.from \in Ids \ {j.id}
  /\ j.op = "reorder" => j.expect <= file.version

----------------------------------------------------------------------------
(* Handlers, lifecycles and the goroutines of the kinds are different.     *)
LEMMA Gors ==
  /\ Callers \subseteq Goroutines /\ KindGors \subseteq Goroutines
  /\ \A i \in Ids : /\ Gor("life", i) \in Goroutines
                    /\ Gor("life", i) \notin Callers
                    /\ Gor("life", i) \notin KindGors
                    /\ \A k \in Ids : Gor("life", i) = Gor("life", k) => i = k
  /\ \A i \in WebIds, r \in {"pump", "health", "wait"} :
       /\ Gor(r, i) \in Goroutines /\ Gor(r, i) \in KindGors
       /\ Gor(r, i) \notin Callers /\ Gor(r, i)[2] = i
  /\ \A g \in KindGors : g \notin Callers
BY CallersAssumption, WebIdsAssumption DEF Gor, Goroutines, Watchers, KindGors

(* What the constructors of edits make.                                    *)
LEMMA JobTypes ==
  /\ NoJob \in Jobs /\ NoJob.op = "none"
  /\ \A i \in Ids : /\ AppendJob(i) \in Jobs /\ TouchJob(i) \in Jobs /\ RemoveJob(i) \in Jobs
                    /\ AppendJob(i).op = "append" /\ AppendJob(i).id = i
                    /\ TouchJob(i).op = "touch" /\ RemoveJob(i).op = "remove"
  /\ \A i \in Ids, t \in Statuses :
       StatusJob(i, t) \in Jobs /\ StatusJob(i, t).op = "status" /\ StatusJob(i, t).status = t
  /\ \A o, n \in Ids : /\ LinkJob(o, n) \in Jobs /\ LinkJob(o, n).op = "link"
                       /\ LinkJob(o, n).id = n /\ LinkJob(o, n).from = o
  /\ \A q \in Seq(Ids), v \in Nat :
       OrderJob(q, v) \in Jobs /\ OrderJob(q, v).op = "reorder" /\ OrderJob(q, v).expect = v
<1>1. NoJob \in Jobs /\ NoJob.op = "none"
  BY DEF NoJob, Jobs
<1> QED BY <1>1 DEF AppendJob, TouchJob, RemoveJob, StatusJob, LinkJob, OrderJob, Jobs

(* A goroutine outside the retry loops holds no edit and no copy.          *)
LEMMA OutsideLoop ==
  ASSUME Core, NEW g \in Goroutines, pc[g] \notin LoopLabels
  PROVE  job[g].op = "none" /\ snap[g] = NoSnap
BY DEF Core, JobOK, SnapOK

(* A handler moves between points of a call, or begins a Stop, Delete,     *)
(* UpdateName or ReorderInstances.                                         *)
LEMMA CallerMove ==
  ASSUME Core, NEW c \in Callers, NEW l \in CallerLabels, NEW j, Beginnable(j, l),
         NEW x \in Ids \cup {NoId},
         pc[c] \notin LoopLabels, l # "check", l # "persist",
         Moves(c, l, j), arg' = [arg EXCEPT ![c] = x],
         l \notin {"idle", "check", "reorder"} => x \in Ids,
         l \in BeforeLife => pc[c] \in BeforeLife /\ x = arg[c],
         l \in BeforeSpawn => pc[c] \in BeforeSpawn
  PROVE  Core'
<1>0. c \in Goroutines /\ job[c].op = "none" /\ snap[c] = NoSnap
  BY OutsideLoop, Gors
<1>1. StoreTypeOK'
  BY <1>0 DEF Core, StoreTypeOK, Moves, Beginnable
<1>2. SnapshotFresh'
  BY DEF Core, SnapshotFresh, Moves
<1>3. \A g \in Goroutines : JobOK(g)'
  <2> TAKE g \in Goroutines
  <2>1. CASE g = c
    BY <2>1, <1>0 DEF Core, StoreTypeOK, JobOK, Moves, Beginnable
  <2>2. CASE g # c
    <3>1. job'[g] = job[g] /\ pc'[g] = pc[g] /\ file' = file
      BY <2>2 DEF Core, StoreTypeOK, Moves
    <3>2. g \in Callers => arg'[g] = arg[g]
      BY <2>2 DEF Core, StoreTypeOK
    <3> QED BY <3>1, <3>2 DEF Core, JobOK
  <2> QED BY <2>1, <2>2
<1>4. \A g \in Goroutines : SnapOK(g)'
  <2> TAKE g \in Goroutines
  <2>1. CASE g = c
    BY <2>1, <1>0 DEF SnapOK, Moves
  <2>2. CASE g # c
    <3>1. job'[g] = job[g] /\ snap'[g] = snap[g]
      BY <2>2 DEF Core, StoreTypeOK, Moves
    <3> QED BY <3>1 DEF Core, SnapOK
  <2> QED BY <2>1, <2>2
<1>5. \A d \in Callers : StartOK(d)'
  <2>1. \A g \in Goroutines : g # c => pc'[g] = pc[g]
    BY DEF Core, StoreTypeOK, Moves
  <2>2. pc'[c] = l /\ arg'[c] = x /\ \A d \in Callers : d # c => arg'[d] = arg[d]
    BY <1>0 DEF Core, StoreTypeOK, Moves
  <2>3. old' = old /\ used' = used /\ file' = file
    BY DEF Moves
  <2> TAKE d \in Callers
  <2>4. StartOK(d)
    BY DEF Core
  <2>5. pc'[d] \in BeforeLife => pc[d] \in BeforeLife /\ arg'[d] = arg[d] /\ arg[d] \in Ids
    BY <2>1, <2>2, <2>4, Gors DEF StartOK, BeforeLife, BeforeSpawn
  <2>6. \A e \in Callers : pc'[e] \in BeforeLife => pc[e] \in BeforeLife /\ arg'[e] = arg[e]
    BY <2>1, <2>2, Gors DEF BeforeLife, BeforeSpawn
  <2>7. pc'[d] \in BeforeSpawn => pc[d] \in BeforeSpawn
    BY <2>1, <2>2, Gors
  <2>8. \A i \in Ids : pc'[Gor("life", i)] = pc[Gor("life", i)]
    BY <2>1, Gors
  <2>9. \A g \in KindGors : pc'[g] = pc[g]
    BY <2>1, Gors
  <2>10. pc'[d] \notin {"idle", "check", "reorder"} => arg'[d] \in Ids
    BY <2>1, <2>2, <2>4, Gors DEF StartOK
  <2>11. pc'[d] = "check" => old'[d] \in used'
    BY <2>1, <2>2, <2>3, <2>4, Gors DEF StartOK
  <2>12. pc'[d] \in BeforeLife =>
           /\ arg'[d] \in used' /\ arg'[d] # old'[d] /\ pc'[Gor("life", arg'[d])] = "off"
           /\ \A e \in Callers : pc'[e] \in BeforeLife /\ arg'[e] = arg'[d] => e = d
    BY <2>3, <2>4, <2>5, <2>6, <2>8 DEF StartOK
  <2>13. pc'[d] \in BeforeSpawn => \A g \in KindGors : g[2] = arg'[d] => pc'[g] = "off"
    BY <2>4, <2>5, <2>7, <2>9 DEF StartOK, BeforeLife
  <2>14. pc'[d] = "persist" => arg'[d] \notin Present(file')
    BY <2>1, <2>2, <2>3, <2>4, Gors DEF StartOK
  <2> QED BY <2>10, <2>11, <2>12, <2>13, <2>14 DEF StartOK, Present
<1>6. \A i \in Ids : FreshOK(i)'
  <2> TAKE i \in Ids
  <2>1. \A g \in Goroutines : g # c => pc'[g] = pc[g]
    BY DEF Core, StoreTypeOK, Moves
  <2>2. pc'[Gor("life", i)] = pc[Gor("life", i)] /\ \A g \in KindGors : pc'[g] = pc[g]
    BY <2>1, Gors
  <2> QED BY <2>2 DEF Core, FreshOK, Present, Moves
<1> QED BY <1>1, <1>2, <1>3, <1>4, <1>5, <1>6 DEF Core

(* A lifecycle or kind goroutine that has been started moves.              *)
LEMMA GorMove ==
  ASSUME Core, NEW g \in Goroutines \ Callers, NEW l \in Labels, NEW j, Beginnable(j, l),
         pc[g] \notin LoopLabels, pc[g] # "off", Moves(g, l, j), UNCHANGED arg
  PROVE  Core'
<1>0. job[g].op = "none" /\ snap[g] = NoSnap
  BY OutsideLoop
<1>1. StoreTypeOK'
  BY DEF Core, StoreTypeOK, Moves, Beginnable, Labels
<1>2. SnapshotFresh'
  BY DEF Core, SnapshotFresh, Moves
<1>3. \A h \in Goroutines : JobOK(h)'
  <2> TAKE h \in Goroutines
  <2>1. CASE h = g
    BY <2>1, <1>0 DEF Core, StoreTypeOK, JobOK, Moves, Beginnable
  <2>2. CASE h # g
    <3>1. job'[h] = job[h] /\ pc'[h] = pc[h] /\ file' = file
      BY <2>2 DEF Core, StoreTypeOK, Moves
    <3> QED BY <3>1 DEF Core, JobOK
  <2> QED BY <2>1, <2>2
<1>4. \A h \in Goroutines : SnapOK(h)'
  <2> TAKE h \in Goroutines
  <2>1. CASE h = g
    BY <2>1, <1>0 DEF SnapOK, Moves
  <2>2. CASE h # g
    <3>1. job'[h] = job[h] /\ snap'[h] = snap[h]
      BY <2>2 DEF Core, StoreTypeOK, Moves
    <3> QED BY <3>1 DEF Core, SnapOK
  <2> QED BY <2>1, <2>2
<1>5. \A c \in Callers : pc'[c] = pc[c]
  BY Gors DEF Core, StoreTypeOK, Moves
<1>6. \A h \in Goroutines : pc[h] = "off" => pc'[h] = "off"
  BY DEF Core, StoreTypeOK, Moves
<1>7. \A c \in Callers : StartOK(c)'
  <2> TAKE c \in Callers
  <2>1. StartOK(c)
    BY DEF Core
  <2>2. pc[c] \in BeforeLife => arg[c] \in Ids
    BY <2>1 DEF StartOK, BeforeLife, BeforeSpawn
  <2>3. \A i \in Ids : pc[Gor("life", i)] = "off" => pc'[Gor("life", i)] = "off"
    BY <1>6, Gors
  <2>4. \A h \in KindGors : pc[h] = "off" => pc'[h] = "off"
    BY <1>6, Gors
  <2> QED BY <2>1, <2>2, <2>3, <2>4, <1>5 DEF StartOK, Moves, Present
<1>8. \A i \in Ids : FreshOK(i)'
  <2> TAKE i \in Ids
  <2>1. pc[Gor("life", i)] = "off" => pc'[Gor("life", i)] = "off"
    BY <1>6, Gors
  <2>2. \A h \in KindGors : pc[h] = "off" => pc'[h] = "off"
    BY <1>6, Gors
  <2> QED BY <2>1, <2>2 DEF Core, FreshOK, Present, Moves
<1> QED BY <1>1, <1>2, <1>3, <1>4, <1>7, <1>8 DEF Core

(* Memory, processes and probes are no part of Core.                       *)
LEMMA CoreFrame ==
  ASSUME Core, UNCHANGED <<file, job, snap, used, tries, pc, arg, old>>
  PROVE  Core'
BY DEF Core, StoreTypeOK, SnapshotFresh, JobOK, SnapOK, StartOK, FreshOK, Present,
       Applicable, TabIds

----------------------------------------------------------------------------
(* Start and the second half of Restart take an id nobody has used.        *)
LEMMA NewId ==
  ASSUME Core, NEW c \in Callers, NEW i \in Ids \ used,
         pc[c] \in {"idle", "check"}, Check(c, i), old'[c] # i,
         \A d \in Callers : d # c => old'[d] = old[d],
         old' \in [Callers -> Ids \cup {NoId}],
         UNCHANGED <<file, snap, tries>>
  PROVE  Core'
<1>0. c \in Goroutines /\ job[c].op = "none" /\ snap[c] = NoSnap
  BY OutsideLoop, Gors DEF LoopLabels, NextLabel
<1>1. /\ pc' = [pc EXCEPT ![c] = "persist"] /\ job' = [job EXCEPT ![c] = AppendJob(i)]
      /\ used' = used \cup {i} /\ arg' = [arg EXCEPT ![c] = i]
  BY DEF Check, Begin
<1>2. AppendJob(i) \in Jobs /\ AppendJob(i).op = "append" /\ AppendJob(i).id = i
  BY JobTypes
<1>3. StoreTypeOK'
  BY <1>0, <1>1, <1>2 DEF Core, StoreTypeOK, CallerLabels
<1>4. SnapshotFresh'
  BY DEF Core, SnapshotFresh
<1>5. /\ \A g \in Goroutines : g # c => pc'[g] = pc[g] /\ job'[g] = job[g]
      /\ \A d \in Callers : d # c => arg'[d] = arg[d]
      /\ pc'[c] = "persist" /\ job'[c] = AppendJob(i) /\ arg'[c] = i
  BY <1>0, <1>1 DEF Core, StoreTypeOK
<1>6. \A g \in Goroutines : JobOK(g)'
  <2> TAKE g \in Goroutines
  <2>1. CASE g = c
    BY <2>1, <1>2, <1>5 DEF JobOK, LoopLabels, NextLabel
  <2>2. CASE g # c
    BY <2>2, <1>5 DEF Core, JobOK
  <2> QED BY <2>1, <2>2
<1>7. \A g \in Goroutines : SnapOK(g)'
  BY <1>0, <1>5 DEF Core, SnapOK
<1>8. /\ \A k \in Ids : pc'[Gor("life", k)] = pc[Gor("life", k)]
      /\ \A g \in KindGors : pc'[g] = pc[g]
  BY <1>5, Gors
<1>9. FreshOK(i) /\ \A d \in Callers : StartOK(d)
  BY DEF Core
<1>10. StartOK(c)'
  <2>1. \A d \in Callers : d # c /\ pc'[d] \in BeforeLife => arg'[d] # i
    BY <1>5, <1>9, Gors DEF StartOK
  <2> QED BY <2>1, <1>1, <1>5, <1>8, <1>9 DEF StartOK, FreshOK, BeforeLife, BeforeSpawn, Present
<1>11. \A d \in Callers \ {c} : StartOK(d)'
  <2> TAKE d \in Callers \ {c}
  <2>1. /\ pc'[d] = pc[d] /\ arg'[d] = arg[d] /\ old'[d] = old[d] /\ used \subseteq used'
        /\ file' = file
    BY <1>1, <1>5, Gors
  <2>2. pc[d] \in BeforeLife => arg[d] \in Ids /\ arg[d] # i
    BY <1>9 DEF StartOK, BeforeLife, BeforeSpawn
  <2>3. pc[d] \in BeforeLife =>
          \A e \in Callers : pc'[e] \in BeforeLife /\ arg'[e] = arg'[d] => e = d
    BY <1>5, <1>9, <2>1, <2>2, Gors DEF StartOK
  <2> QED BY <2>1, <2>2, <2>3, <1>8, <1>9 DEF StartOK, Present
<1>12. \A k \in Ids : FreshOK(k)'
  BY <1>1, <1>8 DEF Core, FreshOK, Present
<1> QED BY <1>3, <1>4, <1>6, <1>7, <1>10, <1>11, <1>12 DEF Core

(* Restart looks at a record that is there, so at an id that was used.     *)
LEMMA RestartCallCore ==
  ASSUME Core, NEW c \in Callers, NEW o \in Ids, RestartCall(c, o)
  PROVE  Core'
<1>1. /\ pc[c] = "idle" /\ pc' = [pc EXCEPT ![c] = "check"] /\ old' = [old EXCEPT ![c] = o]
      /\ UNCHANGED <<file, job, snap, used, tries, arg>>
  BY DEF RestartCall, Goto, storeIdle
<1>2. c \in Goroutines /\ job[c].op = "none"
  BY <1>1, OutsideLoop, Gors DEF LoopLabels, NextLabel
<1>3. o \in used
  BY DEF RestartCall, Core, FreshOK, Present, Terminal
<1>4. StoreTypeOK'
  BY <1>1, <1>2 DEF Core, StoreTypeOK, CallerLabels
<1>5. SnapshotFresh'
  BY <1>1 DEF Core, SnapshotFresh
<1>6. /\ pc'[c] = "check" /\ old'[c] = o
      /\ \A g \in Goroutines : g # c => pc'[g] = pc[g]
      /\ \A d \in Callers : d # c => old'[d] = old[d]
  BY <1>1, <1>2 DEF Core, StoreTypeOK
<1>7. \A g \in Goroutines : JobOK(g)' /\ SnapOK(g)'
  <2> TAKE g \in Goroutines
  <2>1. JobOK(g)'
    BY <1>1, <1>2, <1>6 DEF Core, JobOK
  <2>2. SnapOK(g)'
    BY <1>1 DEF Core, SnapOK, Applicable, Present, TabIds
  <2> QED BY <2>1, <2>2
<1>8. \A d \in Callers : StartOK(d)'
  <2> TAKE d \in Callers
  <2>1. \A e \in Callers : pc'[e] \in BeforeLife => pc[e] \in BeforeLife
    BY <1>6, Gors DEF BeforeLife, BeforeSpawn
  <2>2. /\ \A k \in Ids : pc'[Gor("life", k)] = pc[Gor("life", k)]
        /\ \A g \in KindGors : pc'[g] = pc[g]
    BY <1>6, Gors
  <2>3. CASE d = c
    BY <2>3, <1>1, <1>3, <1>6 DEF StartOK, BeforeLife, BeforeSpawn
  <2>4. CASE d # c
    <3>1. pc'[d] = pc[d] /\ old'[d] = old[d]
      BY <2>4, <1>6, Gors
    <3>2. StartOK(d) /\ (pc[d] \in BeforeLife => arg[d] \in Ids)
      BY DEF Core, StartOK, BeforeLife, BeforeSpawn
    <3> QED BY <3>1, <3>2, <1>1, <2>1, <2>2 DEF StartOK, Present
  <2> QED BY <2>3, <2>4
<1>9. \A i \in Ids : FreshOK(i)'
  <2> TAKE i \in Ids
  <2>1. /\ pc'[Gor("life", i)] = pc[Gor("life", i)]
        /\ \A g \in KindGors : pc'[g] = pc[g]
    BY <1>6, Gors
  <2> QED BY <1>1, <2>1 DEF Core, FreshOK, Present
<1> QED BY <1>4, <1>5, <1>7, <1>8, <1>9 DEF Core

(* Spawn starts goroutines of its own instance, which were off.            *)
LEMMA SpawnCore ==
  ASSUME Core, NEW c \in Callers, Spawn(c)
  PROVE  Core'
<1> DEFINE i == arg[c]
<1>1. /\ pc[c] = "spawn" /\ UNCHANGED <<file, job, snap, used, tries, arg, old>>
      /\ pc' = [g \in Goroutines |->
                  IF g = c THEN "publish"
                  ELSE IF g \in KindGors /\ g[2] = i THEN "serve" ELSE pc[g]]
  BY DEF Spawn, storeIdle
<1>2. c \in Goroutines /\ c \notin KindGors /\ job[c].op = "none" /\ StartOK(c)
  BY <1>1, OutsideLoop, Gors DEF LoopLabels, NextLabel, Core
<1>3. \A g \in KindGors : g[2] = i => pc[g] = "off"
  BY <1>1, <1>2 DEF StartOK, BeforeSpawn
<1>4. i \in Ids /\ i \in used
  BY <1>1, <1>2 DEF StartOK, BeforeLife, BeforeSpawn
<1>5. \A g \in Goroutines : g # c /\ pc'[g] # pc[g] =>
         pc[g] = "off" /\ pc'[g] = "serve" /\ g \in KindGors /\ g[2] = i
  BY <1>1, <1>3
<1>6. pc'[c] = "publish" /\ \A d \in Callers : d # c => pc'[d] = pc[d]
  BY <1>1, Gors
<1>7. StoreTypeOK'
  BY <1>1 DEF Core, StoreTypeOK, CallerLabels, WebLabels
<1>8. SnapshotFresh'
  BY <1>1 DEF Core, SnapshotFresh
<1>9. \A g \in Goroutines : JobOK(g)'
  <2> TAKE g \in Goroutines
  <2>1. job[g].op # "none" => pc[g] \in LoopLabels
    BY DEF Core, JobOK
  <2>2. job[g].op # "none" => pc'[g] = pc[g]
    BY <1>1, <1>2, <1>5, <2>1 DEF LoopLabels, NextLabel
  <2> QED BY <1>1, <2>2 DEF Core, JobOK
<1>10. \A g \in Goroutines : SnapOK(g)'
  BY <1>1 DEF Core, SnapOK, Applicable, Present, TabIds
<1>11. \A d \in Callers : StartOK(d)'
  <2> TAKE d \in Callers
  <2>1. \A e \in Callers : pc'[e] \in BeforeLife => pc[e] \in BeforeLife
    BY <1>1, <1>6 DEF BeforeLife, BeforeSpawn
  <2>2. \A k \in Ids : pc'[Gor("life", k)] = pc[Gor("life", k)]
    BY <1>2, <1>5, Gors
  <2>3. StartOK(d) /\ (pc[d] \in BeforeLife => arg[d] \in Ids)
    BY DEF Core, StartOK, BeforeLife, BeforeSpawn
  <2>4. CASE d = c
    <3>1. pc[c] \in BeforeLife
      BY <1>1 DEF BeforeLife, BeforeSpawn
    <3> QED BY <2>4, <1>1, <1>4, <1>6, <2>1, <2>2, <2>3, <3>1
            DEF StartOK, BeforeSpawn, Present
  <2>5. CASE d # c
    <3>1. pc'[d] = pc[d]
      BY <2>5, <1>6
    <3>2. pc[d] \in BeforeSpawn => arg[d] # i
      BY <1>1, <1>2, <2>3, <2>5 DEF StartOK, BeforeLife, BeforeSpawn
    <3>3. pc'[d] \in BeforeSpawn => \A g \in KindGors : g[2] = arg[d] => pc'[g] = "off"
      BY <3>1, <3>2, <1>5, <2>3, <1>2, Gors DEF StartOK
    <3> QED BY <3>1, <3>3, <2>1, <2>2, <2>3, <1>1 DEF StartOK, Present
  <2> QED BY <2>4, <2>5
<1>12. \A k \in Ids : FreshOK(k)'
  <2> TAKE k \in Ids
  <2>1. pc'[Gor("life", k)] = pc[Gor("life", k)]
    BY <1>2, <1>5, Gors
  <2>2. k \notin used => \A g \in KindGors : g[2] = k => pc'[g] = pc[g]
    BY <1>2, <1>4, <1>5, Gors
  <2> QED BY <1>1, <2>1, <2>2 DEF Core, FreshOK, Present
<1> QED BY <1>7, <1>8, <1>9, <1>10, <1>11, <1>12 DEF Core

(* Register starts the lifecycle, which was off.                           *)
LEMMA RegisterCore ==
  ASSUME Core, NEW c \in Callers, Register(c)
  PROVE  Core'
<1> DEFINE i == arg[c]
           w == Gor("life", arg[c])
           l == IF old[c] = NoId THEN "idle" ELSE "link"
<1>1. /\ pc[c] = "register" /\ UNCHANGED <<file, snap, used, tries, arg, old>>
      /\ pc' = [pc EXCEPT ![c] = l, ![w] = "wait"]
      /\ job' = IF old[c] = NoId THEN job ELSE [job EXCEPT ![c] = LinkJob(old[c], i)]
  BY DEF Register, storeIdle
<1>2. c \in Goroutines /\ job[c].op = "none" /\ snap[c] = NoSnap /\ StartOK(c)
  BY <1>1, OutsideLoop, Gors DEF LoopLabels, NextLabel, Core
<1>3. i \in Ids /\ i \in used /\ i # old[c] /\ pc[w] = "off"
  BY <1>1, <1>2 DEF StartOK, BeforeLife, BeforeSpawn
<1>4. w \in Goroutines /\ w \notin Callers /\ w \notin KindGors /\ w # c
  BY <1>3, Gors
<1>5. /\ pc'[c] = l /\ pc'[w] = "wait"
      /\ \A g \in Goroutines : g # c /\ g # w => pc'[g] = pc[g]
      /\ \A g \in Goroutines : g # c => job'[g] = job[g]
  BY <1>1, <1>2, <1>4 DEF Core, StoreTypeOK
<1>6. old[c] # NoId => /\ old[c] \in Ids /\ LinkJob(old[c], i) \in Jobs
                       /\ job'[c] = LinkJob(old[c], i) /\ job'[c].op = "link"
                       /\ job'[c].id = i /\ job'[c].from = old[c]
  BY <1>1, <1>2, <1>3, JobTypes DEF Core, StoreTypeOK
<1>7. StoreTypeOK'
  <2>1. job' \in [Goroutines -> Jobs]
    BY <1>1, <1>6 DEF Core, StoreTypeOK
  <2>2. pc' \in [Goroutines -> CallerLabels \cup LifeLabels \cup WebLabels]
    BY <1>1 DEF Core, StoreTypeOK, CallerLabels, LifeLabels
  <2> QED BY <1>1, <2>1, <2>2 DEF Core, StoreTypeOK
<1>8. SnapshotFresh'
  BY <1>1 DEF Core, SnapshotFresh
<1>9. \A g \in Goroutines : JobOK(g)'
  <2> TAKE g \in Goroutines
  <2>1. CASE g = c
    BY <2>1, <1>1, <1>2, <1>3, <1>5, <1>6 DEF JobOK, LoopLabels, NextLabel
  <2>2. CASE g = w
    BY <2>2, <1>3, <1>4, <1>5 DEF Core, JobOK, LoopLabels, NextLabel
  <2>3. CASE g # c /\ g # w
    BY <2>3, <1>1, <1>5 DEF Core, JobOK
  <2> QED BY <2>1, <2>2, <2>3
<1>10. \A g \in Goroutines : SnapOK(g)'
  <2> TAKE g \in Goroutines
  <2>1. CASE g = c
    BY <2>1, <1>1, <1>2 DEF SnapOK
  <2>2. CASE g # c
    BY <2>2, <1>1, <1>5 DEF Core, SnapOK, Applicable, Present, TabIds
  <2> QED BY <2>1, <2>2
<1>11. \A d \in Callers : StartOK(d)'
  <2> TAKE d \in Callers
  <2>1. \A e \in Callers : pc'[e] \in BeforeLife => e # c /\ pc'[e] = pc[e]
    BY <1>4, <1>5, Gors DEF BeforeLife, BeforeSpawn
  <2>2. StartOK(d) /\ (pc[d] \in BeforeLife => arg[d] \in Ids)
    BY DEF Core, StartOK, BeforeLife, BeforeSpawn
  <2>3. CASE d = c
    BY <2>3, <1>1, <1>3, <1>5 DEF StartOK, BeforeLife, BeforeSpawn
  <2>4. CASE d # c
    <3>1. pc'[d] = pc[d]
      BY <2>4, <1>4, <1>5, Gors
    <3>2. pc[d] \in BeforeLife => arg[d] # i
      BY <1>1, <1>2, <2>2, <2>4 DEF StartOK, BeforeLife, BeforeSpawn
    <3>3. pc[d] \in BeforeLife => pc'[Gor("life", arg[d])] = "off"
      BY <3>2, <2>2, <1>3, <1>4, <1>5, Gors DEF StartOK
    <3>4. \A g \in KindGors : pc'[g] = pc[g]
      BY <1>4, <1>5, Gors
    <3> QED BY <3>1, <3>3, <3>4, <2>1, <2>2, <1>1 DEF StartOK, Present
  <2> QED BY <2>3, <2>4
<1>12. \A k \in Ids : FreshOK(k)'
  <2> TAKE k \in Ids
  <2>1. k \notin used => pc'[Gor("life", k)] = pc[Gor("life", k)]
    BY <1>3, <1>4, <1>5, Gors
  <2>2. \A g \in KindGors : pc'[g] = pc[g]
    BY <1>4, <1>5, Gors
  <2> QED BY <1>1, <2>1, <2>2 DEF Core, FreshOK, Present
<1> QED BY <1>7, <1>8, <1>9, <1>10, <1>11, <1>12 DEF Core

----------------------------------------------------------------------------
(***************************************************************************)
(* The retry loop.                                                         *)
(***************************************************************************)
(* What an edit that applies does: it makes a table, one version on, and   *)
(* only the edit of a new record adds one.                                 *)
LEMMA EditFacts ==
  ASSUME NEW st \in Tables, NEW j \in Jobs, j.op # "none", Applicable(j, st),
         j.op = "append" => j.id \in Ids,
         j.op = "status" => j.status \in Statuses,
         j.op = "link" => j.from \in Ids
  PROVE  /\ Edit(j, st) \in Tables
         /\ Edit(j, st).version = st.version + 1
         /\ \A i \in Present(Edit(j, st)) : i \in Present(st) \/ (j.op = "append" /\ i = j.id)
<1> USE DEF Write
<1>0. /\ st.version \in Nat /\ st.rec \in [Ids -> Records] /\ st.tabs \in Seq(Ids)
      /\ st.version + 1 \in Nat
  BY DEF Tables
<1>1. CASE j.op = "append"
  <2>1. Edit(j, st) = AddRec(st, j.id)
    BY <1>1 DEF Edit
  <2>2. [status |-> "starting", from |-> NoId] \in Records
    BY DEF Records, Statuses, Live
  <2>3. Append(st.tabs, j.id) \in Seq(Ids)
    BY <1>0, <1>1
  <2> QED BY <1>0, <1>1, <2>1, <2>2, <2>3 DEF AddRec, Tables, Present
<1>2. CASE j.op = "status"
  <2>1. Edit(j, st) = SetStatus(st, j.id, j.status)
    BY <1>2 DEF Edit
  <2>2. j.id \in Ids /\ st.rec[j.id].status # "none"
    BY <1>2 DEF Applicable, Present
  <2>3. [st.rec[j.id] EXCEPT !.status = j.status] \in Records
    BY <1>0, <1>2, <2>2 DEF Records, NoRec
  <2>4. [st.rec EXCEPT ![j.id].status = j.status] \in [Ids -> Records]
    BY <1>0, <2>2, <2>3
  <2> QED BY <1>0, <1>2, <2>1, <2>2, <2>4 DEF SetStatus, Tables, Present
<1>3. CASE j.op = "touch"
  <2>1. Edit(j, st) = Touch(st)
    BY <1>3 DEF Edit
  <2> QED BY <1>0, <2>1 DEF Touch, Tables, Present
<1>4. CASE j.op = "remove"
  <2>1. Edit(j, st) = DropRec(st, j.id)
    BY <1>4 DEF Edit
  <2>2. NoRec \in Records /\ NoRec.status = "none"
    BY DEF Records, NoRec
  <2>3. [st.rec EXCEPT ![j.id] = NoRec] \in [Ids -> Records]
    BY <1>0, <2>2
  <2>4. \A i \in Ids : [st.rec EXCEPT ![j.id] = NoRec][i].status # "none" => st.rec[i].status # "none"
    BY <1>0, <2>2
  <2> QED BY <1>0, <2>1, <2>3, <2>4 DEF DropRec, Tables, Present
<1>5. CASE j.op = "link"
  <2>1. Edit(j, st) = Replace(st, j.from, j.id)
    BY <1>5 DEF Edit
  <2>2. j.id \in Ids /\ st.rec[j.id].status # "none"
    BY <1>5 DEF Applicable, Present
  <2>3. NoRec \in Records /\ [st.rec[j.id] EXCEPT !.from = j.from] \in Records
    BY <1>0, <1>5, <2>2 DEF Records, NoRec
  <2>4. Edit(j, st).rec \in [Ids -> Records]
    BY <1>0, <2>1, <2>2, <2>3 DEF Replace
  <2>5. \A i \in Ids : Edit(j, st).rec[i].status # "none" => st.rec[i].status # "none"
    BY <1>0, <2>1, <2>2 DEF Replace, NoRec
  <2> QED BY <1>0, <2>1, <2>4, <2>5 DEF Replace, Tables, Present
<1>6. CASE j.op = "reorder"
  <2>1. Edit(j, st) = SetTabs(st, j.order) /\ j.order \in Seq(Ids)
    BY <1>6 DEF Edit, Jobs
  <2> QED BY <1>0, <2>1 DEF SetTabs, Tables, Present
<1> QED BY <1>1, <1>2, <1>3, <1>4, <1>5, <1>6 DEF Jobs

(* Load and Save change control only by Leave, which ends the loop.        *)
Leaves(g, res) ==
  pc' = [pc EXCEPT ![g] = After(pc[g], res)] /\ job' = [job EXCEPT ![g] = NoJob]

(* Leaving the loop puts a Start one step further or ends it.              *)
LEMMA AfterLabels ==
  ASSUME NEW l \in LoopLabels, NEW res
  PROVE  /\ After(l, res) \in Labels
         /\ After(l, res) \notin LoopLabels /\ After(l, res) # "check"
         /\ After(l, res) \in BeforeLife => l \in BeforeLife
         /\ After(l, res) \in BeforeSpawn => l \in BeforeSpawn
         /\ After(l, res) \notin {"idle", "check", "reorder"} => l # "reorder"
BY DEF LoopLabels, NextLabel, After, Labels, CallerLabels, LifeLabels, WebLabels,
       BeforeLife, BeforeSpawn

LEMMA Retries ==
  ASSUME StoreTypeOK, NEW g \in Goroutines, tries' = [tries EXCEPT ![g] = 0]
  PROVE  tries' \in [Goroutines -> 0..(MaxTries - 1)]
<1>1. 0 \in 0..(MaxTries - 1)
  BY MaxTriesAssumption
<1> QED BY <1>1 DEF StoreTypeOK

(* The part of the invariant about control, when g leaves its loop and the *)
(* table, if it changes, gains no record but that of g's append.           *)
LEMMA LeaveControl ==
  ASSUME Core, NEW g \in Goroutines, job[g].op # "none", NEW res, Leaves(g, res),
         UNCHANGED <<used, arg, old>>,
         \A i \in Present(file') :
            \/ i \in Present(file)
            \/ res = "ok" /\ job[g].op = "append" /\ i = job[g].id
  PROVE  /\ pc' \in [Goroutines -> Labels] /\ job' \in [Goroutines -> Jobs]
         /\ \A c \in Callers : StartOK(c)'
         /\ \A i \in Ids : FreshOK(i)'
<1> DEFINE l == After(pc[g], res)
<1>1. pc[g] \in LoopLabels /\ JobOK(g)
  BY DEF Core, JobOK
<1>2. /\ pc'[g] = l /\ \A h \in Goroutines : h # g => pc'[h] = pc[h]
      /\ \A h \in Goroutines : pc[h] = "off" => h # g
  BY <1>1 DEF Core, StoreTypeOK, Leaves, LoopLabels, NextLabel
<1>3. pc' \in [Goroutines -> Labels] /\ job' \in [Goroutines -> Jobs]
  BY <1>1, AfterLabels, JobTypes DEF Core, StoreTypeOK, Leaves, Labels
<1>4. /\ \A k \in Ids : pc[Gor("life", k)] = "off" => pc'[Gor("life", k)] = "off"
      /\ \A h \in KindGors : pc[h] = "off" => pc'[h] = "off"
  BY <1>2, Gors
<1>5. \A c \in Callers : /\ pc'[c] \in BeforeLife => pc[c] \in BeforeLife
                         /\ pc'[c] \in BeforeSpawn => pc[c] \in BeforeSpawn
                         /\ pc'[c] = "check" => pc[c] = "check"
                         /\ pc'[c] = "persist" => pc[c] = "persist" /\ c # g
                         /\ pc'[c] \notin {"idle", "check", "reorder"}
                              => pc[c] \notin {"idle", "check", "reorder"}
  <2> TAKE c \in Callers
  <2>1. CASE c = g
    BY <2>1, <1>1, <1>2, AfterLabels DEF LoopLabels, NextLabel
  <2>2. CASE c # g
    BY <2>2, <1>2, Gors
  <2> QED BY <2>1, <2>2
<1>6. \A c \in Callers : StartOK(c)'
  <2> TAKE c \in Callers
  <2>1. StartOK(c) /\ (pc[c] \in BeforeLife => arg[c] \in Ids)
    BY DEF Core, StartOK, BeforeLife, BeforeSpawn
  <2>2. pc'[c] = "persist" => arg[c] \notin Present(file')
    <3> SUFFICES ASSUME pc'[c] = "persist", arg[c] \in Present(file') PROVE FALSE
      OBVIOUS
    <3>1. pc[c] = "persist" /\ c # g /\ arg[c] \notin Present(file)
      BY <1>5, <2>1 DEF StartOK
    <3>2. g \in Callers /\ pc[g] = "persist" /\ arg[g] = arg[c]
      BY <1>1, <3>1 DEF JobOK
    <3> QED BY <2>1, <3>1, <3>2 DEF StartOK, BeforeLife, BeforeSpawn
  <2> QED BY <1>4, <1>5, <2>1, <2>2 DEF StartOK, Present
<1>7. \A i \in Ids : FreshOK(i)'
  <2> TAKE i \in Ids
  <2>1. i \notin used => i \notin Present(file')
    <3> SUFFICES ASSUME i \notin used, i \in Present(file') PROVE FALSE
      OBVIOUS
    <3>1. i \notin Present(file)
      BY DEF Core, FreshOK
    <3>2. g \in Callers /\ pc[g] = "persist" /\ arg[g] = i
      BY <1>1, <3>1 DEF JobOK
    <3> QED BY <3>2 DEF Core, StartOK, BeforeLife, BeforeSpawn
  <2> QED BY <1>4, <2>1 DEF Core, FreshOK, Present
<1> QED BY <1>3, <1>6, <1>7

LEMMA LoadCore ==
  ASSUME Core, NEW g \in Goroutines, Load(g)
  PROVE  Core'
<1>1. /\ job[g].op # "none" /\ snap[g] = NoSnap /\ UNCHANGED <<file, used, arg, old>>
      /\ JobOK(g) /\ SnapOK(g) /\ file \in Tables
  BY DEF Load, Core, StoreTypeOK
<1>2. CASE Applicable(job[g], file)
  <2>1. snap' = [snap EXCEPT ![g] = file] /\ UNCHANGED <<job, pc, tries>>
    BY <1>2 DEF Load
  <2>2. StoreTypeOK'
    BY <1>1, <2>1 DEF Core, StoreTypeOK
  <2>3. SnapshotFresh'
    BY <1>1, <2>1 DEF Core, StoreTypeOK, SnapshotFresh, Tables
  <2>4. \A h \in Goroutines : JobOK(h)' /\ SnapOK(h)'
    <3> TAKE h \in Goroutines
    <3>1. JobOK(h)'
      BY <1>1, <2>1 DEF Core, JobOK
    <3>2. CASE h = g
      BY <3>1, <3>2, <1>1, <1>2, <2>1 DEF Core, StoreTypeOK, SnapOK, JobOK
    <3>3. CASE h # g
      <4>1. snap'[h] = snap[h] /\ job'[h] = job[h]
        BY <3>3, <2>1 DEF Core, StoreTypeOK
      <4>2. SnapOK(h)
        BY DEF Core
      <4> QED BY <3>1, <4>1, <4>2 DEF SnapOK
    <3> QED BY <3>2, <3>3
  <2>5. (\A c \in Callers : StartOK(c)') /\ (\A i \in Ids : FreshOK(i)')
    BY <1>1, <2>1 DEF Core, StartOK, FreshOK, Present
  <2> QED BY <2>2, <2>3, <2>4, <2>5 DEF Core
<1>3. CASE ~Applicable(job[g], file)
  <2>1. Leaves(g, "missing") /\ tries' = [tries EXCEPT ![g] = 0] /\ UNCHANGED snap
    BY <1>3 DEF Load, Leave, Begin, Leaves
  <2>2. /\ pc' \in [Goroutines -> Labels] /\ job' \in [Goroutines -> Jobs]
        /\ \A c \in Callers : StartOK(c)'
        /\ \A i \in Ids : FreshOK(i)'
    BY <1>1, <2>1, LeaveControl DEF Present
  <2>3. StoreTypeOK'
    BY <1>1, <2>1, <2>2, Retries DEF Core, StoreTypeOK, Labels
  <2>4. SnapshotFresh'
    BY <1>1, <2>1 DEF Core, SnapshotFresh
  <2>5. \A h \in Goroutines : JobOK(h)' /\ SnapOK(h)'
    <3> TAKE h \in Goroutines
    <3>1. CASE h = g
      <4>1. job'[h] = NoJob /\ snap'[h] = NoSnap
        BY <3>1, <1>1, <2>1 DEF Core, StoreTypeOK, Leaves
      <4> QED BY <4>1, JobTypes DEF JobOK, SnapOK
    <3>2. CASE h # g
      <4>1. snap'[h] = snap[h] /\ job'[h] = job[h] /\ pc'[h] = pc[h]
        BY <3>2, <2>1 DEF Core, StoreTypeOK, Leaves
      <4> QED BY <1>1, <4>1 DEF Core, SnapOK, JobOK
    <3> QED BY <3>1, <3>2
  <2> QED BY <2>2, <2>3, <2>4, <2>5 DEF Core
<1> QED BY <1>2, <1>3

(* SaveWithVersion replaces state.json only by an edit of its own content. *)
LEMMA CommitFresh ==
  ASSUME Core, NEW g \in Goroutines, snap[g] # NoSnap,
         file.version = Expected(job[g], snap[g])
  PROVE  snap[g] = file
<1>1. /\ snap[g] \in Tables /\ file \in Tables /\ job[g] \in Jobs
      /\ snap[g].version <= file.version
      /\ snap[g].version = file.version => snap[g] = file
      /\ job[g].op = "reorder" => job[g].expect <= snap[g].version
  BY DEF Core, StoreTypeOK, SnapshotFresh, SnapOK
<1>2. snap[g].version \in Nat /\ file.version \in Nat /\ job[g].expect \in Nat
  BY <1>1 DEF Tables, Jobs
<1> QED BY <1>1, <1>2 DEF Expected

LEMMA SaveCore ==
  ASSUME Core, NEW g \in Goroutines, Save(g)
  PROVE  Core'
<1>1. /\ snap[g] # NoSnap /\ snap' = [snap EXCEPT ![g] = NoSnap]
      /\ UNCHANGED <<used, arg, old>>
      /\ JobOK(g) /\ SnapOK(g) /\ job[g] \in Jobs
      /\ file \in Tables /\ snap[g] \in Tables
  BY DEF Save, Core, StoreTypeOK
<1>2. job[g].op # "none" /\ Applicable(job[g], snap[g])
  BY <1>1 DEF SnapOK
<1>3. /\ file.version \in Nat /\ \A h \in Goroutines : job[h].expect \in Nat
      /\ \A h \in Goroutines : snap[h] # NoSnap => snap[h].version \in Nat
  BY <1>1 DEF Tables, Core, StoreTypeOK, Jobs
<1>4. \A h \in Goroutines : h # g => snap'[h] = snap[h]
  BY <1>1 DEF Core, StoreTypeOK
<1>5. snap' \in [Goroutines -> Tables \cup {NoSnap}] /\ snap'[g] = NoSnap
  BY <1>1 DEF Core, StoreTypeOK
<1>6. CASE Commit(g)
  <2>1. /\ file.version = Expected(job[g], snap[g]) /\ file' = Edit(job[g], snap[g])
        /\ Leaves(g, "ok") /\ tries' = [tries EXCEPT ![g] = 0]
    BY <1>6 DEF Commit, Leave, Begin, Leaves
  <2>2. snap[g] = file
    BY <1>1, <2>1, CommitFresh
  <2>3. job[g].op = "append" => job[g].id \in Ids
    BY <1>1 DEF JobOK, Core, StartOK
  <2>4. /\ file' \in Tables /\ file'.version = file.version + 1
        /\ \A i \in Present(file') : i \in Present(file) \/ (job[g].op = "append" /\ i = job[g].id)
    BY <1>1, <1>2, <2>1, <2>2, <2>3, EditFacts DEF JobOK
  <2>5. /\ pc' \in [Goroutines -> Labels] /\ job' \in [Goroutines -> Jobs]
        /\ \A c \in Callers : StartOK(c)'
        /\ \A i \in Ids : FreshOK(i)'
    BY <1>1, <1>2, <2>1, <2>4, LeaveControl
  <2>6. StoreTypeOK'
    BY <1>1, <1>5, <2>1, <2>4, <2>5, Retries DEF Core, StoreTypeOK, Labels
  <2>7. SnapshotFresh'
    <3> SUFFICES ASSUME NEW h \in Goroutines, snap'[h] # NoSnap
                 PROVE  /\ snap'[h].version <= file'.version
                        /\ snap'[h].version = file'.version => snap'[h] = file'
      BY DEF SnapshotFresh
    <3>1. h # g /\ snap'[h] = snap[h] /\ snap[h].version <= file.version
      BY <1>4, <1>5 DEF Core, SnapshotFresh
    <3> QED BY <3>1, <1>3, <2>4
  <2>8. \A h \in Goroutines : JobOK(h)' /\ SnapOK(h)'
    <3> TAKE h \in Goroutines
    <3>1. CASE h = g
      <4>1. job'[h] = NoJob /\ snap'[h] = NoSnap
        BY <3>1, <1>5, <2>1 DEF Core, StoreTypeOK, Leaves
      <4> QED BY <4>1, JobTypes DEF JobOK, SnapOK
    <3>2. CASE h # g
      <4>1. snap'[h] = snap[h] /\ job'[h] = job[h] /\ pc'[h] = pc[h] /\ arg' = arg
        BY <3>2, <1>1, <1>4, <2>1 DEF Core, StoreTypeOK, Leaves
      <4>2. JobOK(h) /\ SnapOK(h)
        BY DEF Core
      <4>3. job'[h].op = "reorder" => job'[h].expect <= file'.version
        BY <4>1, <4>2, <1>3, <2>4 DEF JobOK
      <4> QED BY <4>1, <4>2, <4>3 DEF SnapOK, JobOK
    <3> QED BY <3>1, <3>2
  <2> QED BY <2>5, <2>6, <2>7, <2>8 DEF Core
<1>7. CASE Conflict(g) /\ tries[g] + 1 < TriesOf(job[g])
  <2>1. tries' = [tries EXCEPT ![g] = @ + 1] /\ UNCHANGED <<file, job, pc>>
    BY <1>7 DEF Conflict
  <2>2. tries' \in [Goroutines -> 0..(MaxTries - 1)]
    BY <1>7, <2>1, MaxTriesAssumption DEF Core, StoreTypeOK, TriesOf
  <2>3. StoreTypeOK'
    BY <1>1, <1>5, <2>1, <2>2 DEF Core, StoreTypeOK
  <2>4. SnapshotFresh'
    BY <1>4, <1>5, <2>1 DEF Core, SnapshotFresh
  <2>5. \A h \in Goroutines : JobOK(h)' /\ SnapOK(h)'
    BY <1>1, <1>4, <1>5, <2>1 DEF Core, JobOK, SnapOK, Applicable, Present, TabIds
  <2>6. (\A c \in Callers : StartOK(c)') /\ (\A i \in Ids : FreshOK(i)')
    BY <1>1, <2>1 DEF Core, StartOK, FreshOK, Present
  <2> QED BY <2>3, <2>4, <2>5, <2>6 DEF Core
<1>8. CASE Conflict(g) /\ ~(tries[g] + 1 < TriesOf(job[g]))
  <2>1. /\ Leaves(g, "conflict") /\ tries' = [tries EXCEPT ![g] = 0] /\ file' = file
    BY <1>8 DEF Conflict, Leave, Begin, Leaves
  <2>2. /\ pc' \in [Goroutines -> Labels] /\ job' \in [Goroutines -> Jobs]
        /\ \A c \in Callers : StartOK(c)'
        /\ \A i \in Ids : FreshOK(i)'
    BY <1>1, <1>2, <2>1, LeaveControl DEF Present
  <2>3. StoreTypeOK'
    BY <1>1, <1>5, <2>1, <2>2, Retries DEF Core, StoreTypeOK, Labels
  <2>4. SnapshotFresh'
    BY <1>4, <1>5, <2>1 DEF Core, SnapshotFresh
  <2>5. \A h \in Goroutines : JobOK(h)' /\ SnapOK(h)'
    <3> TAKE h \in Goroutines
    <3>1. CASE h = g
      <4>1. job'[h] = NoJob /\ snap'[h] = NoSnap
        BY <3>1, <1>5, <2>1 DEF Core, StoreTypeOK, Leaves
      <4> QED BY <4>1, JobTypes DEF JobOK, SnapOK
    <3>2. CASE h # g
      <4>1. snap'[h] = snap[h] /\ job'[h] = job[h] /\ pc'[h] = pc[h]
        BY <3>2, <1>4, <2>1 DEF Core, StoreTypeOK, Leaves
      <4> QED BY <1>1, <2>1, <4>1 DEF Core, SnapOK, JobOK
    <3> QED BY <3>1, <3>2
  <2> QED BY <2>2, <2>3, <2>4, <2>5 DEF Core
<1> QED BY <1>6, <1>7, <1>8 DEF Save

----------------------------------------------------------------------------
(***************************************************************************)
(* Every step keeps Core.                                                  *)
(***************************************************************************)
(* A goto is a move that keeps the edit, there being none.                 *)
LEMMA GotoMoves ==
  ASSUME Core, NEW g \in Goroutines, NEW l, pc[g] \notin LoopLabels, Goto(g, l), storeIdle,
         UNCHANGED <<used, old>>
  PROVE  Moves(g, l, job[g]) /\ Beginnable(job[g], l)
<1>1. job[g].op = "none" /\ job[g] \in Jobs
  BY OutsideLoop DEF Core, StoreTypeOK
<1>2. job' = [job EXCEPT ![g] = job[g]]
  BY DEF Goto, Core, StoreTypeOK
<1> QED BY <1>1, <1>2 DEF Goto, storeIdle, Moves, Beginnable

LEMMA BeginMoves ==
  ASSUME NEW g \in Goroutines, NEW l, NEW j, Begin(g, l, j), storeIdle, UNCHANGED <<used, old>>
  PROVE  Moves(g, l, j)
BY DEF Begin, storeIdle, Moves

(* The edits the goroutines begin may be begun.                            *)
LEMMA Edits ==
  ASSUME NEW i \in Ids, NEW l \in LoopLabels
  PROVE  /\ Beginnable(TouchJob(i), l) /\ Beginnable(RemoveJob(i), l)
         /\ \A t \in Statuses : Beginnable(StatusJob(i, t), l)
BY JobTypes DEF Beginnable

LEMMA LifeCore ==
  ASSUME Core, NEW i \in Ids, LifeStep(i) \/ LifeTimeout(i)
  PROVE  Core'
<1> DEFINE g == Gor("life", i)
<1>0. g \in Goroutines \ Callers
  BY Gors
<1>1. CASE LifeReady(i)
  <2>1. pc[g] = "wait" /\ Begin(g, "up", StatusJob(i, "running")) /\ storeIdle
        /\ UNCHANGED <<arg, old, used>>
    BY <1>1 DEF LifeReady
  <2> QED BY <1>0, <2>1, GorMove, BeginMoves, Edits
          DEF LoopLabels, NextLabel, Labels, LifeLabels, Statuses, Live
<1>2. CASE LifeTimeout(i)
  <2>1. pc[g] = "wait" /\ Begin(g, "down", StatusJob(i, "failed")) /\ storeIdle
        /\ UNCHANGED <<arg, old, used>>
    BY <1>2 DEF LifeTimeout
  <2> QED BY <1>0, <2>1, GorMove, BeginMoves, Edits
          DEF LoopLabels, NextLabel, Labels, LifeLabels, Statuses, Terminal
<1>3. CASE LifePoll(i)
  <2>1. PICK t \in Terminal : pc[g] = "poll" /\ Begin(g, "down", StatusJob(i, t)) /\ storeIdle
                              /\ UNCHANGED <<arg, old, used>>
    BY <1>3 DEF LifePoll
  <2> QED BY <1>0, <2>1, GorMove, BeginMoves, Edits
          DEF LoopLabels, NextLabel, Labels, LifeLabels, Statuses, Terminal
<1>4. CASE LifeUnrun(i)
  <2>1. pc[g] = "unrun" /\ Goto(g, "drop") /\ storeIdle /\ UNCHANGED <<arg, old, used>>
    BY <1>4 DEF LifeUnrun
  <2> QED BY <1>0, <2>1, GorMove, GotoMoves DEF LoopLabels, NextLabel, Labels, LifeLabels
<1>5. CASE LifeCancelled(i)
  <2>1. pc[g] \in {"wait", "poll"} /\ Goto(g, "drop") /\ storeIdle /\ UNCHANGED <<arg, old, used>>
    BY <1>5 DEF LifeCancelled
  <2> QED BY <1>0, <2>1, GorMove, GotoMoves DEF LoopLabels, NextLabel, Labels, LifeLabels
<1>6. CASE LifeDrop(i)
  <2>1. pc[g] = "drop" /\ Goto(g, "done") /\ storeIdle /\ UNCHANGED <<arg, old, used>>
    BY <1>6 DEF LifeDrop
  <2> QED BY <1>0, <2>1, GorMove, GotoMoves DEF LoopLabels, NextLabel, Labels, LifeLabels
<1> QED BY <1>1, <1>2, <1>3, <1>4, <1>5, <1>6 DEF LifeStep

LEMMA KindCore ==
  ASSUME Core, NEW i \in WebIds, PumpAddr(i) \/ HealthFails(i) \/ WebStep(i)
  PROVE  Core'
<1>0. /\ i \in Ids
      /\ \A r \in {"pump", "health", "wait"} : Gor(r, i) \in Goroutines \ Callers
  BY Gors, WebIdsAssumption
<1>1. CASE PumpAddr(i)
  <2> DEFINE g == Gor("pump", i)
  <2>1. /\ pc[g] = "serve" /\ storeIdle /\ UNCHANGED <<arg, old, used>>
        /\ Begin(g, "blob", TouchJob(i)) \/ Goto(g, "ready")
    BY <1>1 DEF PumpAddr
  <2> QED BY <1>0, <2>1, GorMove, BeginMoves, GotoMoves, Edits
          DEF LoopLabels, NextLabel, Labels, WebLabels
<1>2. CASE PumpReady(i)
  <2> DEFINE g == Gor("pump", i)
  <2>1. /\ pc[g] = "ready" /\ storeIdle /\ UNCHANGED <<arg, old, used>>
        /\ Begin(g, "live", StatusJob(i, "running")) \/ Goto(g, "done")
    BY <1>2 DEF PumpReady
  <2> QED BY <1>0, <2>1, GorMove, BeginMoves, GotoMoves, Edits
          DEF LoopLabels, NextLabel, Labels, WebLabels, Statuses, Live
<1>3. CASE HealthFails(i)
  <2> DEFINE g == Gor("health", i)
  <2>1. /\ pc[g] = "serve" /\ storeIdle /\ UNCHANGED <<arg, old, used>>
        /\ Begin(g, "unwell", StatusJob(i, "failed")) \/ Goto(g, "done")
    BY <1>3 DEF HealthFails
  <2> QED BY <1>0, <2>1, GorMove, BeginMoves, GotoMoves, Edits
          DEF LoopLabels, NextLabel, Labels, WebLabels, Statuses, Terminal
<1>4. CASE WaitReap(i)
  <2> DEFINE g == Gor("wait", i)
  <2>1. /\ pc[g] = "serve" /\ storeIdle /\ UNCHANGED <<arg, old, used>>
        /\ Begin(g, "exited", StatusJob(i, "exited")) \/ Goto(g, "done")
    BY <1>4 DEF WaitReap
  <2> QED BY <1>0, <2>1, GorMove, BeginMoves, GotoMoves, Edits
          DEF LoopLabels, NextLabel, Labels, WebLabels, Statuses, Terminal
<1> QED BY <1>1, <1>2, <1>3, <1>4 DEF WebStep

(* The orders a client may send are sequences of ids.                      *)
LEMMA FiniteOrders == Orders \subseteq Seq(Ids)
<1> SUFFICES ASSUME NEW n \in 1..Cardinality(Ids), NEW s \in [1..n -> Ids]
             PROVE  s \in Seq(Ids)
  BY DEF Orders
<1>1. n \in Nat
  OBVIOUS
<1> QED BY <1>1

(* Every step of a handler between its loads and saves.                    *)
LEMMA CallerCallCore ==
  ASSUME Core, NEW c \in Callers, CallerCall(c)
  PROVE  Core'
<1>0. c \in Goroutines
  BY Gors
<1>1. CASE \E i \in Ids : StartCall(c, i)
  <2>1. PICK i \in Ids : StartCall(c, i)
    BY <1>1
  <2>2. /\ i \in Ids \ used /\ pc[c] = "idle" /\ Check(c, i)
        /\ old' = [old EXCEPT ![c] = NoId] /\ UNCHANGED <<file, snap, tries>>
    BY <2>1 DEF StartCall, storeIdle
  <2>3. /\ old' \in [Callers -> Ids \cup {NoId}] /\ old'[c] # i
        /\ \A d \in Callers : d # c => old'[d] = old[d]
    BY <2>2, NoIdAssumption DEF Core, StoreTypeOK
  <2> QED BY <2>2, <2>3, NewId
<1>2. CASE \E i \in Ids : RestartCall(c, i)
  BY <1>2, RestartCallCore
<1>3. CASE \E i \in Ids : StopCall(c, i)
  <2>1. PICK i \in Ids : /\ pc[c] = "idle" /\ Goto(c, "kstop") /\ storeIdle
                         /\ arg' = [arg EXCEPT ![c] = i] /\ UNCHANGED <<old, used>>
    BY <1>3 DEF StopCall
  <2> QED BY <1>0, <2>1, CallerMove, GotoMoves
          DEF LoopLabels, NextLabel, CallerLabels, BeforeLife, BeforeSpawn
<1>4. CASE \E i \in Ids : DeleteCall(c, i)
  <2>1. PICK i \in Ids : /\ pc[c] = "idle" /\ Goto(c, "delbuf") /\ storeIdle
                         /\ arg' = [arg EXCEPT ![c] = i] /\ UNCHANGED <<old, used>>
    BY <1>4 DEF DeleteCall
  <2> QED BY <1>0, <2>1, CallerMove, GotoMoves
          DEF LoopLabels, NextLabel, CallerLabels, BeforeLife, BeforeSpawn
<1>5. CASE \E i \in Ids : RenameCall(c, i)
  <2>1. PICK i \in Ids : /\ pc[c] = "idle" /\ Begin(c, "rename", TouchJob(i)) /\ storeIdle
                         /\ arg' = [arg EXCEPT ![c] = i] /\ UNCHANGED <<old, used>>
    BY <1>5 DEF RenameCall
  <2>2. Moves(c, "rename", TouchJob(i)) /\ Beginnable(TouchJob(i), "rename")
    BY <1>0, <2>1, BeginMoves, Edits DEF LoopLabels, NextLabel
  <2> QED BY <2>1, <2>2, CallerMove
          DEF LoopLabels, NextLabel, CallerLabels, BeforeLife, BeforeSpawn
<1>6. CASE \E order \in Orders, back \in 0..1 : ReorderCall(c, order, file.version - back)
  <2>1. PICK order \in Orders, back \in 0..1 : ReorderCall(c, order, file.version - back)
    BY <1>6
  <2> DEFINE v == file.version - back
  <2>2. /\ pc[c] = "idle" /\ v >= 0 /\ Begin(c, "reorder", OrderJob(order, v)) /\ storeIdle
        /\ UNCHANGED <<arg, old, used>>
    BY <2>1 DEF ReorderCall
  <2>3. file.version \in Nat /\ order \in Seq(Ids)
    BY FiniteOrders DEF Core, StoreTypeOK, Tables
  <2>4. v \in Nat /\ v <= file.version
    BY <2>2, <2>3
  <2>5. Beginnable(OrderJob(order, v), "reorder")
    BY <2>3, <2>4, JobTypes DEF Beginnable, LoopLabels, NextLabel
  <2>6. Moves(c, "reorder", OrderJob(order, v))
    BY <1>0, <2>2, BeginMoves
  <2>7. arg' = [arg EXCEPT ![c] = arg[c]] /\ arg[c] \in Ids \cup {NoId}
    BY <2>2 DEF Core, StoreTypeOK
  <2> HIDE DEF v
  <2> QED BY <2>2, <2>5, <2>6, <2>7, CallerMove
          DEF LoopLabels, NextLabel, CallerLabels, BeforeLife, BeforeSpawn
<1> QED BY <1>1, <1>2, <1>3, <1>4, <1>5, <1>6 DEF CallerCall

LEMMA CallerStepCore ==
  ASSUME Core, NEW c \in Callers, CallerStep(c)
  PROVE  Core'
<1>0. c \in Goroutines /\ StartOK(c) /\ arg[c] \in Ids \cup {NoId}
      /\ arg = [arg EXCEPT ![c] = arg[c]]
  BY Gors DEF Core, StoreTypeOK
<1>00. pc[c] \notin {"idle", "check", "reorder"} => arg[c] \in Ids
  BY <1>0 DEF StartOK
<1>1. CASE \E i \in Ids : RestartCheck(c, i)
  <2>1. PICK i \in Ids : RestartCheck(c, i)
    BY <1>1
  <2>2. /\ i \in Ids \ used /\ pc[c] = "check" /\ Check(c, i)
        /\ UNCHANGED <<file, snap, tries, old>>
    BY <2>1 DEF RestartCheck, storeIdle
  <2>3. old[c] # i /\ old' \in [Callers -> Ids \cup {NoId}]
    BY <1>0, <2>2 DEF StartOK, Core, StoreTypeOK
  <2> QED BY <2>2, <2>3, NewId
<1>2. CASE RestartRefused(c)
  <2>1. pc[c] = "check" /\ Goto(c, "idle") /\ storeIdle /\ UNCHANGED <<arg, old, used>>
    BY <1>2 DEF RestartRefused
  <2> QED BY <1>0, <2>1, CallerMove, GotoMoves
          DEF LoopLabels, NextLabel, CallerLabels, BeforeLife, BeforeSpawn
<1>3. CASE Alloc(c)
  <2>1. /\ pc[c] = "alloc" /\ storeIdle /\ UNCHANGED <<arg, old, used>>
        /\ Goto(c, "account") \/ Goto(c, "spawn")
    BY <1>3 DEF Alloc
  <2>2. PICK l \in {"account", "spawn"} : Goto(c, l)
    BY <2>1
  <2>3. Moves(c, l, job[c]) /\ Beginnable(job[c], l)
    BY <1>0, <2>1, <2>2, GotoMoves DEF LoopLabels, NextLabel
  <2> QED BY <1>0, <1>00, <2>1, <2>3, CallerMove
          DEF LoopLabels, NextLabel, CallerLabels, BeforeLife, BeforeSpawn
<1>4. CASE Account(c)
  <2>1. pc[c] = "account" /\ Goto(c, "spawn") /\ storeIdle /\ UNCHANGED <<arg, old, used>>
    BY <1>4 DEF Account
  <2> QED BY <1>0, <1>00, <2>1, CallerMove, GotoMoves
          DEF LoopLabels, NextLabel, CallerLabels, BeforeLife, BeforeSpawn
<1>5. CASE Spawn(c)
  BY <1>5, SpawnCore
<1>6. CASE SpawnFails(c)
  <2>1. pc[c] = "spawn" /\ Goto(c, "unspawn") /\ storeIdle /\ UNCHANGED <<arg, old, used>>
    BY <1>6 DEF SpawnFails
  <2> QED BY <1>0, <1>00, <2>1, CallerMove, GotoMoves
          DEF LoopLabels, NextLabel, CallerLabels, BeforeLife, BeforeSpawn
<1>7. CASE Unspawn(c)
  <2>1. /\ pc[c] = "unspawn" /\ Begin(c, "unstart", StatusJob(arg[c], "failed"))
        /\ storeIdle /\ UNCHANGED <<arg, old, used>>
    BY <1>7 DEF Unspawn
  <2> QED BY <1>0, <1>00, <2>1, CallerMove, BeginMoves, Edits
          DEF LoopLabels, NextLabel, CallerLabels, BeforeLife, BeforeSpawn, Statuses, Terminal
<1>8. CASE Publish(c)
  <2>1. /\ pc[c] = "publish" /\ Begin(c, "setpid", TouchJob(arg[c]))
        /\ storeIdle /\ UNCHANGED <<arg, old, used>>
    BY <1>8 DEF Publish
  <2> QED BY <1>0, <1>00, <2>1, CallerMove, BeginMoves, Edits
          DEF LoopLabels, NextLabel, CallerLabels, BeforeLife, BeforeSpawn
<1>9. CASE Register(c)
  BY <1>9, RegisterCore
<1>10. CASE KindStop(c)
  <2>1. pc[c] = "kstop" /\ Goto(c, "kwait") /\ storeIdle /\ UNCHANGED <<arg, old, used>>
    BY <1>10 DEF KindStop
  <2> QED BY <1>0, <1>00, <2>1, CallerMove, GotoMoves
          DEF LoopLabels, NextLabel, CallerLabels, BeforeLife, BeforeSpawn
<1>11. CASE KindStopped(c)
  <2>1. pc[c] = "kwait" /\ Goto(c, "join") /\ storeIdle /\ UNCHANGED <<arg, old, used>>
    BY <1>11 DEF KindStopped
  <2> QED BY <1>0, <1>00, <2>1, CallerMove, GotoMoves
          DEF LoopLabels, NextLabel, CallerLabels, BeforeLife, BeforeSpawn
<1>12. CASE Join(c)
  <2>1. /\ pc[c] = "join" /\ Begin(c, "stopped", StatusJob(arg[c], "stopped"))
        /\ storeIdle /\ UNCHANGED <<arg, old, used>>
    BY <1>12 DEF Join
  <2> QED BY <1>0, <1>00, <2>1, CallerMove, BeginMoves, Edits
          DEF LoopLabels, NextLabel, CallerLabels, BeforeLife, BeforeSpawn, Statuses, Terminal
<1>13. CASE Unrun(c)
  <2>1. pc[c] = "unrun" /\ Goto(c, "idle") /\ storeIdle /\ UNCHANGED <<arg, old, used>>
    BY <1>13 DEF Unrun
  <2> QED BY <1>0, <1>00, <2>1, CallerMove, GotoMoves
          DEF LoopLabels, NextLabel, CallerLabels, BeforeLife, BeforeSpawn
<1>14. CASE DeleteBuffer(c)
  <2>1. /\ pc[c] = "delbuf" /\ Begin(c, "delete", RemoveJob(arg[c]))
        /\ storeIdle /\ UNCHANGED <<arg, old, used>>
    BY <1>14 DEF DeleteBuffer
  <2> QED BY <1>0, <1>00, <2>1, CallerMove, BeginMoves, Edits
          DEF LoopLabels, NextLabel, CallerLabels, BeforeLife, BeforeSpawn
<1> QED BY <1>1, <1>2, <1>3, <1>4, <1>5, <1>6, <1>7, <1>8, <1>9, <1>10, <1>11, <1>12,
           <1>13, <1>14 DEF CallerStep

LEMMA CoreNext ==
  ASSUME Core, [Next]_vars
  PROVE  Core'
<1>1. ASSUME NEW g \in Goroutines, Load(g) \/ Save(g) PROVE Core'
  BY <1>1, LoadCore, SaveCore
<1>2. ASSUME NEW c \in Callers, CallerCall(c) \/ CallerStep(c) PROVE Core'
  BY <1>2, CallerCallCore, CallerStepCore
<1>3. ASSUME NEW i \in Ids, LifeStep(i) \/ LifeTimeout(i) PROVE Core'
  BY <1>3, LifeCore
<1>4. ASSUME NEW i \in Ids, ProcExit(i) PROVE Core'
  BY <1>4, CoreFrame DEF ProcExit, storeIdle
<1>5. ASSUME NEW i \in WebIds, PumpAddr(i) \/ HealthFails(i) \/ WebStep(i) PROVE Core'
  BY <1>5, KindCore
<1>6. CASE UNCHANGED vars
  BY <1>6, CoreFrame DEF vars
<1> QED BY <1>1, <1>2, <1>3, <1>4, <1>5, <1>6 DEF Next

(***************************************************************************)
(* Memory and the kinds keep their types.                                  *)
(***************************************************************************)
LEMMA StoreMem ==
  ASSUME Core, MemTypeOK, NEW g \in Goroutines, Load(g) \/ Save(g)
  PROVE  MemTypeOK'
<1>1. UNCHANGED <<memVars, procVars>>
  BY DEF Load, Save
<1>2. stateMu' \in Goroutines \cup {Free}
  BY DEF MemTypeOK, Load, Save, Commit, Conflict, Leave
<1>3. gaveUp' \subseteq Ids
  <2>1. CASE Load(g)
    BY <2>1 DEF Load, MemTypeOK
  <2>2. CASE Save(g)
    <3>1. job[g].op = "status" => job[g].id \in Ids
      BY <2>2 DEF Save, Core, SnapOK, Applicable, Present
    <3>2. gaveUp' = gaveUp \/ (job[g].op = "status" /\ gaveUp' = gaveUp \cup {job[g].id})
      BY <2>2 DEF Save, Commit, Conflict
    <3> QED BY <3>1, <3>2 DEF MemTypeOK
  <2> QED BY <2>1, <2>2
<1> QED BY <1>1, <1>2, <1>3 DEF MemTypeOK, memVars, procVars

LEMMA CallerMem ==
  ASSUME Core, MemTypeOK, NEW c \in Callers, CallerCall(c) \/ CallerStep(c)
  PROVE  MemTypeOK'
<1>1. UNCHANGED <<gaveUp, stateMu, addr, sick>>
  BY DEF CallerCall, StartCall, RestartCall, StopCall, DeleteCall, RenameCall, ReorderCall,
         CallerStep, RestartCheck, RestartRefused, Alloc, Account, Spawn, SpawnFails, Unspawn,
         Publish, Register, KindStop, KindStopped, Join, Unrun, DeleteBuffer,
         storeIdle, procVars
<1>2. CASE CallerCall(c)
  BY <1>1, <1>2 DEF CallerCall, StartCall, RestartCall, StopCall, DeleteCall, RenameCall,
         ReorderCall, memVars, procVars, MemTypeOK
<1>3. CASE CallerStep(c)
  <2>1. pc[c] \notin {"idle", "check", "reorder"} => arg[c] \in Ids
    BY DEF Core, StartOK
  <2>2. CASE \/ \E i \in Ids : RestartCheck(c, i)
             \/ RestartRefused(c) \/ SpawnFails(c) \/ Join(c)
    BY <1>1, <2>2 DEF RestartCheck, RestartRefused, SpawnFails, Join, memVars, procVars, MemTypeOK
  <2>3. CASE Alloc(c) \/ Account(c)
    BY <1>1, <2>1, <2>3 DEF Alloc, Account, procVars, MemTypeOK
  <2>4. CASE Spawn(c) \/ KindStop(c)
    BY <1>1, <2>1, <2>4 DEF Spawn, KindStop, memVars, MemTypeOK
  <2>5. CASE Unspawn(c) \/ DeleteBuffer(c)
    BY <1>1, <2>1, <2>5 DEF Unspawn, DeleteBuffer, DropBuffer, procVars, MemTypeOK
  <2>6. CASE Publish(c) \/ Register(c) \/ KindStopped(c) \/ Unrun(c)
    BY <1>1, <2>1, <2>6 DEF Publish, Register, KindStopped, Unrun, procVars, MemTypeOK
  <2> QED BY <1>3, <2>2, <2>3, <2>4, <2>5, <2>6 DEF CallerStep
<1> QED BY <1>2, <1>3

LEMMA LifeMem ==
  ASSUME MemTypeOK, NEW i \in Ids, LifeStep(i) \/ LifeTimeout(i) \/ ProcExit(i)
  PROVE  MemTypeOK'
<1>1. CASE LifeReady(i) \/ LifePoll(i) \/ LifeCancelled(i) \/ LifeTimeout(i)
  BY <1>1 DEF LifeReady, LifePoll, LifeCancelled, LifeTimeout, storeIdle, memVars, procVars,
              MemTypeOK
<1>2. CASE LifeUnrun(i) \/ LifeDrop(i)
  BY <1>2 DEF LifeUnrun, LifeDrop, DropBuffer, storeIdle, procVars, MemTypeOK
<1>3. CASE ProcExit(i)
  BY <1>3 DEF ProcExit, storeIdle, memVars, MemTypeOK
<1> QED BY <1>1, <1>2, <1>3 DEF LifeStep

LEMMA KindMem ==
  ASSUME MemTypeOK, NEW i \in WebIds, PumpAddr(i) \/ HealthFails(i) \/ WebStep(i)
  PROVE  MemTypeOK'
<1>1. i \in Ids
  BY WebIdsAssumption
<1>2. UNCHANGED <<gaveUp, stateMu, memVars, proc>>
  BY DEF PumpAddr, HealthFails, WebStep, PumpReady, WaitReap, storeIdle, procVars
<1>3. addr' \subseteq WebIds /\ ready' \subseteq Ids /\ sick' \subseteq WebIds
  BY <1>1 DEF PumpAddr, HealthFails, WebStep, PumpReady, WaitReap, procVars, MemTypeOK
<1> QED BY <1>2, <1>3 DEF memVars, MemTypeOK

----------------------------------------------------------------------------
(***************************************************************************)
(* The theorems.                                                           *)
(***************************************************************************)
LEMMA InitIInv == Init => IInv
<1> SUFFICES ASSUME Init PROVE IInv
  OBVIOUS
<1> USE DEF Init
<1>1. EmptyTable \in Tables /\ Present(EmptyTable) = {} /\ file = EmptyTable
  BY DEF EmptyTable, Tables, Records, NoRec, Present
<1>2. StoreTypeOK
  BY <1>1, MaxTriesAssumption, JobTypes DEF StoreTypeOK, CallerLabels, LifeLabels
<1>3. MemTypeOK
  BY DEF MemTypeOK
<1>4. SnapshotFresh
  BY DEF SnapshotFresh
<1>5. \A g \in Goroutines : JobOK(g) /\ SnapOK(g)
  BY JobTypes DEF JobOK, SnapOK
<1>6. \A c \in Callers : pc[c] = "idle"
  BY Gors
<1>7. \A c \in Callers : StartOK(c)
  BY <1>6 DEF StartOK, BeforeLife, BeforeSpawn
<1>8. \A i \in Ids : FreshOK(i)
  BY <1>1, Gors DEF FreshOK
<1> QED BY <1>2, <1>3, <1>4, <1>5, <1>7, <1>8 DEF IInv, TypeOK

LEMMA NextIInv == IInv /\ [Next]_vars => IInv'
<1> SUFFICES ASSUME IInv, [Next]_vars PROVE IInv'
  OBVIOUS
<1>1. Core /\ MemTypeOK
  BY DEF IInv, TypeOK, Core
<1>2. Core'
  BY <1>1, CoreNext
<1>3. MemTypeOK'
  <2>1. CASE UNCHANGED vars
    BY <1>1, <2>1 DEF vars, memVars, procVars, MemTypeOK
  <2> QED BY <1>1, <2>1, StoreMem, CallerMem, LifeMem, KindMem DEF Next
<1> QED BY <1>2, <1>3 DEF IInv, TypeOK, Core

(* Every reachable state of the instance manager satisfies the inductive   *)
(* invariant: no two Starts share an id, a goroutine holds a copy of       *)
(* state.json only inside its retry loop and only one its edit applies to. *)
THEOREM Invariant == Spec => []IInv
BY InitIInv, NextIInv, PTL DEF Spec

(* Every variable has its type; no retry loop runs more than MaxTries.     *)
THEOREM TypeCorrect == Spec => []TypeOK
<1>1. IInv => TypeOK
  BY DEF IInv
<1> QED BY <1>1, Invariant, PTL

(* A copy of state.json whose version is the present one is the present    *)
(* content, whoever loaded it and however long ago.                        *)
THEOREM FreshSnapshots == Spec => []SnapshotFresh
<1>1. IInv => SnapshotFresh
  BY DEF IInv
<1> QED BY <1>1, Invariant, PTL

----------------------------------------------------------------------------
(***************************************************************************)
(* The daemon implements InstanceTable.                                    *)
(***************************************************************************)
(* An edit that applies to a table is one operation on that table.         *)
LEMMA EditIsOperation ==
  ASSUME file \in Tables, NEW j \in Jobs, j.op # "none", Applicable(j, file),
         j.op = "append" => j.id \in Ids \ Present(file),
         j.op = "status" => j.status \in Statuses,
         j.op = "link" => j.from \in Ids \ {j.id},
         file' = Edit(j, file)
  PROVE  Table!TableNext
<1>1. j.op \notin {"append", "reorder"} => j.id \in Present(file)
  BY DEF Applicable
<1>2. CASE j.op = "append"
  <2>1. file' = AddRec(file, j.id)
    BY <1>2 DEF Edit
  <2>2. Table!Add
    BY <1>2, <2>1 DEF Table!Add, Table!AddRec, Table!Write, Table!Present,
                      AddRec, Write, Present
  <2> QED BY <2>2 DEF Table!TableNext
<1>3. CASE j.op = "status"
  <2>1. file' = SetStatus(file, j.id, j.status)
    BY <1>3 DEF Edit
  <2>2. Table!Mark
    BY <1>1, <1>3, <2>1 DEF Table!Mark, Table!SetStatus, Table!Write, Table!Present,
                Table!Statuses, Table!Live, Table!Terminal,
                SetStatus, Write, Present, Statuses, Live, Terminal
  <2> QED BY <2>2 DEF Table!TableNext
<1>4. CASE j.op = "touch"
  <2>1. file' = Touch(file)
    BY <1>4 DEF Edit
  <2>2. Table!Rewrite
    BY <2>1 DEF Table!Rewrite, Table!Touch, Table!Write, Touch, Write
  <2> QED BY <2>2 DEF Table!TableNext
<1>5. CASE j.op = "remove"
  <2>1. file' = DropRec(file, j.id)
    BY <1>5 DEF Edit
  <2>2. Table!Drop
    BY <1>1, <1>5, <2>1 DEF Table!Drop, Table!DropRec, Table!Write, Table!Present,
                Table!NoRec, DropRec, Write, Present, NoRec
  <2> QED BY <2>2 DEF Table!TableNext
<1>6. CASE j.op = "link"
  <2>1. file' = Replace(file, j.from, j.id)
    BY <1>6 DEF Edit
  <2>2. Table!Migrate
    BY <1>1, <1>6, <2>1 DEF Table!Migrate, Table!Replace, Table!Write, Table!Present,
                Table!NoRec, Replace, Write, Present, NoRec
  <2> QED BY <2>2 DEF Table!TableNext
<1>7. CASE j.op = "reorder"
  <2>1. file' = SetTabs(file, j.order) /\ j.order \in Seq(Ids)
    BY <1>7 DEF Edit, Jobs
  <2>2. file'.tabs = j.order /\ TabIds(j.order) = Present(file)
    BY <1>7, <2>1 DEF SetTabs, Write, Applicable
  <2>3. Table!Reorder
    BY <2>1, <2>2 DEF Table!Reorder, Table!SetTabs, Table!Write, Table!Present,
                      Table!TabIds, SetTabs, Write, Present, TabIds
  <2> QED BY <2>3 DEF Table!TableNext
<1> QED BY <1>2, <1>3, <1>4, <1>5, <1>6, <1>7 DEF Jobs

LEMMA StepIsOperation == IInv /\ [Next]_vars => [Table!TableNext]_file
<1> SUFFICES ASSUME IInv, [Next]_vars PROVE Table!TableNext \/ file' = file
  OBVIOUS
<1>0. Core
  BY DEF IInv, TypeOK, Core
<1>1. ASSUME NEW g \in Goroutines, Save(g) PROVE Table!TableNext \/ file' = file
  <2>1. CASE Conflict(g)
    BY <2>1 DEF Conflict
  <2>2. CASE Commit(g)
    <3>1. snap[g] = file /\ file' = Edit(job[g], file)
      BY <1>0, <1>1, <2>2, CommitFresh DEF Save, Commit
    <3>2. /\ JobOK(g) /\ job[g].op # "none" /\ Applicable(job[g], file)
          /\ file \in Tables /\ job[g] \in Jobs
      BY <1>0, <1>1, <3>1 DEF Save, Core, StoreTypeOK, SnapOK
    <3>3. job[g].op = "append" => job[g].id \in Ids \ Present(file)
      BY <1>0, <3>2 DEF JobOK, Core, StartOK
    <3> QED BY <3>1, <3>2, <3>3, EditIsOperation DEF JobOK
  <2> QED BY <1>1, <2>1, <2>2 DEF Save
<1>2. ASSUME NEW g \in Goroutines, Load(g) PROVE file' = file
  BY <1>2 DEF Load
<1>3. ASSUME NEW c \in Callers, CallerCall(c) PROVE file' = file
  BY <1>3 DEF CallerCall, StartCall, RestartCall, StopCall, DeleteCall, RenameCall,
              ReorderCall, storeIdle
<1>4. ASSUME NEW c \in Callers, CallerStep(c) PROVE file' = file
  BY <1>4 DEF CallerStep, RestartCheck, RestartRefused, Alloc, Account, Spawn, SpawnFails,
              Unspawn, Publish, Register, KindStop, KindStopped, Join, Unrun, DeleteBuffer,
              storeIdle
<1>5. ASSUME NEW i \in Ids, LifeStep(i) \/ LifeTimeout(i) \/ ProcExit(i) PROVE file' = file
  BY <1>5 DEF LifeStep, LifeReady, LifePoll, LifeUnrun, LifeCancelled, LifeDrop, LifeTimeout,
              ProcExit, storeIdle
<1>6. ASSUME NEW i \in WebIds, PumpAddr(i) \/ HealthFails(i) \/ WebStep(i) PROVE file' = file
  BY <1>6 DEF PumpAddr, HealthFails, WebStep, PumpReady, WaitReap, storeIdle
<1>7. CASE UNCHANGED vars
  BY <1>7 DEF vars
<1> QED BY <1>1, <1>2, <1>3, <1>4, <1>5, <1>6, <1>7 DEF Next

(* No update of state.json is lost: for any number of handlers, instances  *)
(* and retries the loads and saves of all goroutines amount to a sequence  *)
(* of whole operations on one table.                                       *)
THEOREM Refinement == Spec => NoLostUpdate
<1>1. Init => Table!TableInit
  BY DEF Init, Table!TableInit, EmptyTable, Table!EmptyTable, NoRec, Table!NoRec
<1> QED BY <1>1, StepIsOperation, Invariant, PTL DEF Spec, NoLostUpdate, Table!TableSpec

----------------------------------------------------------------------------
(***************************************************************************)
(* The tab order, argued on the abstract table: an operation that adds a   *)
(* record adds its tab, and a new order names every record there is.       *)
(***************************************************************************)
LEMMA AppendedIds ==
  ASSUME NEW s \in Seq(Ids), NEW i \in Ids
  PROVE  TabIds(Append(s, i)) = TabIds(s) \cup {i}
<1>1. DOMAIN Append(s, i) = (DOMAIN s) \cup {Len(s) + 1}
  OBVIOUS
<1>2. \A k \in DOMAIN s : Append(s, i)[k] = s[k]
  OBVIOUS
<1>3. Append(s, i)[Len(s) + 1] = i
  OBVIOUS
<1> QED BY <1>1, <1>2, <1>3 DEF TabIds

LEMMA OperationCovers ==
  ASSUME file \in Tables, TabCovers, Table!TableNext
  PROVE  TabCovers'
<1> USE DEF TabCovers
<1>0. /\ Present(file) = {i \in Ids : file.rec[i].status # "none"}
      /\ file.rec \in [Ids -> Records] /\ file.tabs \in Seq(Ids)
  BY DEF Present, Tables
<1>1. CASE Table!Add
  <2>1. PICK i \in Ids : file' = AddRec(file, i)
    BY <1>1 DEF Table!Add, Table!AddRec, Table!Write, AddRec, Write
  <2>2. Present(file') \subseteq Present(file) \cup {i}
    BY <1>0, <2>1 DEF AddRec, Write, Present
  <2>3. TabIds(file'.tabs) = TabIds(file.tabs) \cup {i}
    BY <1>0, <2>1, AppendedIds DEF AddRec, Write
  <2> QED BY <2>2, <2>3
<1>2. CASE Table!Mark
  <2>1. PICK i \in Present(file), s \in Statuses : file' = SetStatus(file, i, s)
    BY <1>2 DEF Table!Mark, Table!SetStatus, Table!Write, Table!Present, Table!Statuses,
                Table!Live, Table!Terminal, SetStatus, Write, Present, Statuses, Live, Terminal
  <2>2. Present(file') \subseteq Present(file) /\ file'.tabs = file.tabs
    BY <1>0, <2>1 DEF SetStatus, Write, Present
  <2> QED BY <2>2
<1>3. CASE Table!Rewrite
  <2>1. Present(file') = Present(file) /\ file'.tabs = file.tabs
    BY <1>3 DEF Table!Rewrite, Table!Touch, Table!Write, Present
  <2> QED BY <2>1
<1>4. CASE Table!Drop
  <2>1. PICK i \in Ids : file' = DropRec(file, i)
    BY <1>4 DEF Table!Drop, Table!DropRec, Table!Write, Table!Present, Table!NoRec,
                DropRec, Write, NoRec
  <2>2. Present(file') \subseteq Present(file) /\ file'.tabs = file.tabs
    BY <1>0, <2>1 DEF DropRec, Write, NoRec, Present
  <2> QED BY <2>2
<1>5. CASE Table!Migrate
  <2>1. PICK new \in Ids, o \in Ids : file' = Replace(file, o, new)
    BY <1>5 DEF Table!Migrate, Table!Replace, Table!Write, Table!Present, Table!NoRec,
                Replace, Write, NoRec
  <2>2. Present(file') \subseteq Present(file) /\ file'.tabs = file.tabs
    <3>1. /\ file'.tabs = file.tabs
          /\ file'.rec = [i \in Ids |-> IF i = o THEN NoRec
                            ELSE IF i = new THEN [file.rec[i] EXCEPT !.from = o]
                            ELSE file.rec[i]]
      BY <2>1 DEF Replace, Write
    <3>2. \A i \in Ids : file'.rec[i].status \in {"none", file.rec[i].status}
      BY <1>0, <3>1 DEF NoRec, Records
    <3> QED BY <3>1, <3>2 DEF Present
  <2> QED BY <2>2
<1>6. CASE Table!Reorder
  <2>1. TabIds(file'.tabs) = Present(file) /\ file'.rec = file.rec
    BY <1>6 DEF Table!Reorder, Table!SetTabs, Table!Write, Table!Present, Table!TabIds,
                Present, TabIds
  <2> QED BY <2>1 DEF Present
<1> QED BY <1>1, <1>2, <1>3, <1>4, <1>5, <1>6 DEF Table!TableNext

(* Every record keeps its tab: a Start whose record lands between the tabs *)
(* a client saw and the order it sends makes the reorder conflict.         *)
THEOREM TabsCover == Spec => []TabCovers
<1>1. Init => TabCovers
  BY DEF Init, EmptyTable, TabCovers, Present, NoRec
<1>2. IInv /\ TabCovers /\ [Next]_vars => TabCovers'
  <2> SUFFICES ASSUME IInv, TabCovers, [Next]_vars PROVE TabCovers'
    OBVIOUS
  <2>1. CASE file' = file
    BY <2>1 DEF TabCovers
  <2>2. CASE Table!TableNext
    BY <2>2, OperationCovers DEF IInv, TypeOK, StoreTypeOK
  <2> QED BY <2>1, <2>2, StepIsOperation
<1> QED BY <1>1, <1>2, Invariant, PTL DEF Spec

----------------------------------------------------------------------------
(***************************************************************************)
(* Who writes which status.  A goroutine is in its own code, and what the  *)
(* edit it is trying to commit may be follows from where it is: this is    *)
(* what keeps "running" out of a record after the lifecycle has ended it.  *)
(***************************************************************************)
(* Every goroutine is in its own code.                                     *)
PlacesOK ==
  /\ \A c \in Callers : pc[c] \in CallerLabels
  /\ \A i \in Ids : Life(i) \in LifeLabels
  /\ \A g \in KindGors : pc[g] \in WebLabels

(* Who may write which status: the edit under way in g is one of these.    *)
Ends(i, s) == s \in Terminal /\ (i \in WebIds => s = "failed")
Writes(g, i, s) ==
  \/ g \in Callers /\ i = arg[g] /\ pc[g] = "unstart" /\ s = "failed"
  \/ g \in Callers /\ i = arg[g] /\ pc[g] = "stopped" /\ s = "stopped"
  \/ g = Gor("life", i) /\ pc[g] = "up" /\ s = "running"
  \/ g = Gor("life", i) /\ pc[g] = "down" /\ Ends(i, s)
  \/ i \in WebIds /\ g \in {Gor("pump", i), Gor("health", i)} /\ s \in {"running", "failed"}
  \/ i \in WebIds /\ g = Gor("wait", i) /\ s = "exited" /\ pc[g] = "exited"

Writer(g) ==
  /\ job[g].op = "status" => Writes(g, job[g].id, job[g].status)
  /\ pc[g] = "stopped" => job[g].op = "status" /\ job[g].id = arg[g]
  /\ pc[g] = "down" => job[g].op = "status" /\ Gor("life", job[g].id) = g

WritersOK == PlacesOK /\ \A g \in Goroutines : Writer(g)

(* g alone moves, and no other call changes its subject.                   *)
Alone(g) ==
  /\ \A h \in Goroutines \ {g} : pc'[h] = pc[h] /\ job'[h] = job[h]
  /\ \A d \in Callers \ {g} : arg'[d] = arg[d]

(* g stays in its own code.                                                *)
Home(g) ==
  /\ g \in Callers => pc'[g] \in CallerLabels
  /\ g \in Watchers => pc'[g] \in LifeLabels
  /\ g \in KindGors => pc'[g] \in WebLabels

(* A goroutine is a handler, a lifecycle or one of a kind, and only one.   *)
LEMMA Roles ==
  /\ \A r, s, i, k : Gor(r, i) = Gor(s, k) => r = s /\ i = k
  /\ \A g \in KindGors : \E i \in WebIds :
       g[2] = i /\ g \in {Gor("pump", i), Gor("health", i), Gor("wait", i)}
  /\ \A g \in Goroutines : g \in Callers \/ g \in KindGors \/ \E i \in Ids : g = Gor("life", i)
  /\ \A g \in Watchers : \E i \in Ids : g = Gor("life", i)
  /\ \A i \in Ids : Gor("life", i) \in Watchers
  /\ Callers \cap Watchers = {} /\ Watchers \cap KindGors = {} /\ Callers \cap KindGors = {}
BY CallersAssumption DEF Gor, Goroutines, Watchers, KindGors

(* One goroutine moves within its own code.                                *)
LEMMA WriterMove ==
  ASSUME WritersOK, NEW g \in Goroutines, Alone(g), Home(g), Writer(g)'
  PROVE  WritersOK'
<1>1. \A h \in Goroutines : Writer(h)'
  <2> TAKE h \in Goroutines
  <2>1. CASE h = g
    BY <2>1
  <2>2. CASE h # g
    <3>1. pc'[h] = pc[h] /\ job'[h] = job[h] /\ (h \in Callers => arg'[h] = arg[h])
      BY <2>2 DEF Alone
    <3>2. pc[h] = "stopped" => h \in Callers
      BY Roles, Gors DEF WritersOK, PlacesOK, Life, LifeLabels, WebLabels
    <3> QED BY <3>1, <3>2 DEF WritersOK, Writer, Writes, Ends
  <2> QED BY <2>1, <2>2
<1>2. PlacesOK'
  <2>1. \A c \in Callers : pc'[c] \in CallerLabels
    BY Gors DEF WritersOK, PlacesOK, Alone, Home
  <2>2. \A i \in Ids : pc'[Gor("life", i)] \in LifeLabels
    BY Gors, Roles DEF WritersOK, PlacesOK, Alone, Home, Life
  <2>3. \A k \in KindGors : pc'[k] \in WebLabels
    BY Gors DEF WritersOK, PlacesOK, Alone, Home
  <2> QED BY <2>1, <2>2, <2>3 DEF PlacesOK, Life
<1> QED BY <1>1, <1>2 DEF WritersOK

(* A goto keeps the edit, and there is none.                               *)
LEMMA WriterGoto ==
  ASSUME Core, WritersOK, NEW g \in Goroutines, NEW l, pc[g] \notin LoopLabels, Goto(g, l),
         l \notin {"stopped", "down"},
         \A d \in Callers \ {g} : arg'[d] = arg[d],
         g \in Callers => l \in CallerLabels,
         g \in Watchers => l \in LifeLabels,
         g \in KindGors => l \in WebLabels
  PROVE  WritersOK'
<1>1. job[g].op = "none"
  BY OutsideLoop
<1>2. Alone(g) /\ pc'[g] = l /\ job'[g] = job[g]
  BY DEF Goto, Alone, Core, StoreTypeOK
<1>3. Home(g) /\ Writer(g)'
  BY <1>1, <1>2 DEF Home, Writer
<1> QED BY <1>2, <1>3, WriterMove

(* Where each status edit is begun.                                        *)
LEMMA WriterBegin ==
  ASSUME Core, WritersOK, NEW g \in Goroutines, NEW l, NEW j, Begin(g, l, j),
         \A d \in Callers \ {g} : arg'[d] = arg[d],
         j.op # "status" => l \notin {"stopped", "down"},
         j.op = "status" =>
            \/ g \in Callers /\ j.id = arg'[g] /\ l = "unstart" /\ j.status = "failed"
            \/ g \in Callers /\ j.id = arg'[g] /\ l = "stopped" /\ j.status = "stopped"
            \/ g = Gor("life", j.id) /\ l = "up" /\ j.status = "running"
            \/ g = Gor("life", j.id) /\ l = "down" /\ Ends(j.id, j.status)
            \/ j.id \in WebIds /\ g \in {Gor("pump", j.id), Gor("health", j.id)}
                 /\ j.status \in {"running", "failed"} /\ l \notin {"stopped", "down"}
            \/ j.id \in WebIds /\ g = Gor("wait", j.id) /\ j.status = "exited" /\ l = "exited",
         g \in Callers => l \in CallerLabels,
         g \in Watchers => l \in LifeLabels,
         g \in KindGors => l \in WebLabels
  PROVE  WritersOK'
<1>2. Alone(g) /\ pc'[g] = l /\ job'[g] = j
  BY DEF Begin, Alone, Core, StoreTypeOK
<1>3. Home(g)
  BY <1>2 DEF Home
<1>4. Writer(g)'
  BY <1>2 DEF Writer, Writes, Ends
<1> QED BY <1>2, <1>3, <1>4, WriterMove

(* Leaving a retry loop drops the edit.                                    *)
LEMMA WriterLeave ==
  ASSUME Core, WritersOK, NEW g \in Goroutines, job[g].op # "none", NEW res, Leaves(g, res),
         UNCHANGED arg
  PROVE  WritersOK'
<1> DEFINE l == After(pc[g], res)
<1>1. pc[g] \in LoopLabels
  BY DEF Core, JobOK
<1>2. Alone(g) /\ pc'[g] = l /\ job'[g] = NoJob /\ NoJob.op # "status"
  BY JobTypes DEF Leaves, Alone, Core, StoreTypeOK
<1>3. l \notin LoopLabels
  BY <1>1, AfterLabels
<1>4. Writer(g)'
  BY <1>2, <1>3 DEF Writer, LoopLabels, NextLabel
<1>5. Home(g)
  <2>1. g \in Callers => l \in CallerLabels
    BY <1>1 DEF WritersOK, PlacesOK, After, NextLabel, LoopLabels, CallerLabels
  <2>2. g \in Watchers => l \in LifeLabels
    BY <1>1, Roles DEF WritersOK, PlacesOK, After, NextLabel, LoopLabels, LifeLabels, Life
  <2>3. g \in KindGors => l \in WebLabels
    BY <1>1 DEF WritersOK, PlacesOK, After, NextLabel, LoopLabels, WebLabels
  <2> QED BY <1>2, <2>1, <2>2, <2>3 DEF Home
<1> QED BY <1>2, <1>4, <1>5, WriterMove

LEMMA WriterStore ==
  ASSUME Core, WritersOK, NEW g \in Goroutines, Load(g) \/ Save(g)
  PROVE  WritersOK'
<1>1. arg' = arg /\ job[g].op # "none"
  BY DEF Load, Save, Core, SnapOK
<1>2. UNCHANGED <<job, pc>> \/ \E res : Leaves(g, res)
  BY DEF Load, Save, Commit, Conflict, Leave, Begin, Leaves
<1>3. CASE UNCHANGED <<job, pc>>
  BY <1>1, <1>3 DEF WritersOK, PlacesOK, Life, Writer, Writes, Ends
<1> QED BY <1>1, <1>2, <1>3, WriterLeave

LEMMA WriterCaller ==
  ASSUME Core, WritersOK, NEW c \in Callers, CallerCall(c) \/ CallerStep(c)
  PROVE  WritersOK'
<1>0. /\ c \in Goroutines /\ c \notin Watchers /\ c \notin KindGors
      /\ arg \in [Callers -> Ids \cup {NoId}]
      /\ pc[c] \notin {"idle", "check", "reorder"} => arg[c] \in Ids
  BY Gors, Roles DEF Core, StoreTypeOK, StartOK
<1>1. CASE CallerCall(c) /\ ~\E i \in Ids : RestartCall(c, i) \/ StopCall(c, i) \/ DeleteCall(c, i)
  <2>1. \A d \in Callers \ {c} : arg'[d] = arg[d]
    BY <1>0, <1>1 DEF CallerCall, StartCall, Check, RenameCall, ReorderCall
  <2>2. \E l \in {"persist", "rename", "reorder"} : \E j : Begin(c, l, j) /\ j.op # "status"
    <3>1. CASE \E i \in Ids : StartCall(c, i) \/ RenameCall(c, i)
      BY <3>1, JobTypes DEF StartCall, Check, RenameCall
    <3>2. CASE \E order \in Orders, back \in 0..1 : ReorderCall(c, order, file.version - back)
      <4>1. PICK order \in Orders, back \in 0..1 : ReorderCall(c, order, file.version - back)
        BY <3>2
      <4>2. OrderJob(order, file.version - back).op = "reorder"
        BY DEF OrderJob, NoJob
      <4> QED BY <4>1, <4>2 DEF ReorderCall
    <3> QED BY <1>1, <3>1, <3>2 DEF CallerCall
  <2>3. PICK l, j : l \in {"persist", "rename", "reorder"} /\ Begin(c, l, j) /\ j.op # "status"
    BY <2>2
  <2> QED BY <1>0, <2>1, <2>3, WriterBegin DEF CallerLabels
<1>2. CASE \E i \in Ids : RestartCall(c, i) \/ StopCall(c, i) \/ DeleteCall(c, i)
  <2>1. PICK l \in {"check", "kstop", "delbuf"} : Goto(c, l) /\ pc[c] = "idle"
    BY <1>2 DEF RestartCall, StopCall, DeleteCall
  <2>2. \A d \in Callers \ {c} : arg'[d] = arg[d]
    BY <1>0, <1>2 DEF RestartCall, StopCall, DeleteCall
  <2> QED BY <1>0, <2>1, <2>2, WriterGoto DEF CallerLabels, LoopLabels, NextLabel
<1>3. CASE \E i \in Ids : RestartCheck(c, i)
  <2>1. PICK i \in Ids : Begin(c, "persist", AppendJob(i)) /\ arg' = [arg EXCEPT ![c] = i]
    BY <1>3 DEF RestartCheck, Check
  <2> QED BY <1>0, <2>1, JobTypes, WriterBegin DEF CallerLabels
<1>4. CASE \/ RestartRefused(c) \/ Alloc(c) \/ Account(c) \/ SpawnFails(c)
           \/ KindStop(c) \/ KindStopped(c) \/ Unrun(c)
  <2>1. /\ arg' = arg /\ pc[c] \in {"check", "alloc", "account", "spawn", "kstop", "kwait", "unrun"}
        /\ \E l \in {"idle", "account", "spawn", "unspawn", "kwait", "join"} : Goto(c, l)
    BY <1>4 DEF RestartRefused, Alloc, Account, SpawnFails, KindStop, KindStopped, Unrun
  <2>2. PICK l \in {"idle", "account", "spawn", "unspawn", "kwait", "join"} : Goto(c, l)
    BY <2>1
  <2> QED BY <1>0, <2>1, <2>2, WriterGoto DEF CallerLabels, LoopLabels, NextLabel
<1>5. CASE Unspawn(c) \/ Join(c)
  <2>1. PICK l \in {"unstart", "stopped"}, s \in {"failed", "stopped"} :
          /\ Begin(c, l, StatusJob(arg[c], s)) /\ arg' = arg
          /\ \/ l = "unstart" /\ s = "failed"
             \/ l = "stopped" /\ s = "stopped"
    BY <1>5 DEF Unspawn, Join
  <2>2. StatusJob(arg[c], s).op = "status" /\ StatusJob(arg[c], s).id = arg[c]
        /\ StatusJob(arg[c], s).status = s
    BY DEF StatusJob, NoJob
  <2> QED BY <1>0, <2>1, <2>2, WriterBegin DEF CallerLabels
<1>6. CASE Publish(c) \/ DeleteBuffer(c)
  <2>1. arg[c] \in Ids
    BY <1>0, <1>6 DEF Publish, DeleteBuffer
  <2>2. PICK l \in {"setpid", "delete"}, j \in {TouchJob(arg[c]), RemoveJob(arg[c])} :
          Begin(c, l, j) /\ arg' = arg
    BY <1>6 DEF Publish, DeleteBuffer
  <2>3. j.op # "status"
    BY <2>1, <2>2, JobTypes
  <2> QED BY <1>0, <2>2, <2>3, WriterBegin DEF CallerLabels
<1>7. CASE Spawn(c)
  <2>1. /\ pc[c] = "spawn" /\ job' = job /\ arg' = arg
        /\ pc' = [g \in Goroutines |->
                    IF g = c THEN "publish"
                    ELSE IF g \in KindGors /\ g[2] = arg[c] THEN "serve" ELSE pc[g]]
    BY <1>7 DEF Spawn
  <2>2. \A g \in KindGors : g[2] = arg[c] => pc[g] = "off"
    BY <2>1 DEF Core, StartOK, BeforeSpawn
  <2>3. job[c].op = "none"
    BY <1>0, <2>1, OutsideLoop DEF LoopLabels, NextLabel
  <2>4. \A g \in Goroutines :
          g # c => pc'[g] = pc[g] \/ (g \in KindGors /\ pc[g] = "off" /\ pc'[g] = "serve")
    BY <2>1, <2>2
  <2>5. \A g \in KindGors : pc[g] = "off" => job[g].op = "none"
    BY Gors, OutsideLoop DEF LoopLabels, NextLabel
  <2>6. PlacesOK'
    <3>1. \A d \in Callers : pc'[d] \in CallerLabels
      BY <2>1, Gors, Roles DEF WritersOK, PlacesOK, CallerLabels
    <3>2. \A i \in Ids : pc'[Gor("life", i)] \in LifeLabels
      BY <2>1, Gors, Roles DEF WritersOK, PlacesOK, Life
    <3>3. \A g \in KindGors : pc'[g] \in WebLabels
      BY <2>1, Gors, Roles DEF WritersOK, PlacesOK, WebLabels
    <3> QED BY <3>1, <3>2, <3>3 DEF PlacesOK, Life
  <2>7. \A g \in Goroutines : Writer(g)'
    <3> TAKE g \in Goroutines
    <3>1. CASE g = c
      BY <3>1, <2>1, <2>3 DEF Writer
    <3>2. CASE pc'[g] = pc[g]
      BY <3>2, <2>1 DEF WritersOK, Writer, Writes, Ends
    <3>3. CASE g \in KindGors /\ pc[g] = "off" /\ pc'[g] = "serve"
      BY <3>3, <2>1, <2>5 DEF Writer
    <3> QED BY <3>1, <3>2, <3>3, <2>4
  <2> QED BY <2>6, <2>7 DEF WritersOK
<1>8. CASE Register(c)
  <2> DEFINE w == Gor("life", arg[c])
  <2>1. /\ pc[c] = "register" /\ arg' = arg
        /\ pc' = [pc EXCEPT ![c] = IF old[c] = NoId THEN "idle" ELSE "link", ![w] = "wait"]
        /\ job' = IF old[c] = NoId THEN job ELSE [job EXCEPT ![c] = LinkJob(old[c], arg[c])]
    BY <1>8 DEF Register
  <2>2. arg[c] \in Ids /\ pc[w] = "off"
    BY <1>0, <2>1 DEF Core, StartOK, BeforeLife
  <2>3. w \in Goroutines /\ w # c /\ w \notin Callers /\ w \notin KindGors
    BY <2>2, Gors
  <2>4. job[c].op = "none" /\ job[w].op = "none"
    BY <1>0, <2>1, <2>2, <2>3, OutsideLoop DEF LoopLabels, NextLabel
  <2>5. job'[c].op # "status" /\ \A g \in Goroutines \ {c} : job'[g] = job[g]
    <3>1. LinkJob(old[c], arg[c]).op = "link"
      BY DEF LinkJob, NoJob
    <3> QED BY <2>1, <2>4, <3>1 DEF Core, StoreTypeOK
  <2>6. /\ pc'[c] \in {"idle", "link"} /\ pc'[w] = "wait"
        /\ \A g \in Goroutines \ {c, w} : pc'[g] = pc[g]
    BY <1>0, <2>1, <2>3 DEF Core, StoreTypeOK
  <2>7. PlacesOK'
    <3>1. \A d \in Callers : pc'[d] \in CallerLabels
      BY <2>3, <2>6, Gors, Roles DEF WritersOK, PlacesOK, CallerLabels
    <3>2. \A i \in Ids : pc'[Gor("life", i)] \in LifeLabels
      BY <2>6, Gors, Roles DEF WritersOK, PlacesOK, Life, LifeLabels
    <3>3. \A g \in KindGors : pc'[g] \in WebLabels
      BY <2>3, <2>6, Gors, Roles DEF WritersOK, PlacesOK
    <3> QED BY <3>1, <3>2, <3>3 DEF PlacesOK, Life
  <2>8. \A g \in Goroutines : Writer(g)'
    <3> TAKE g \in Goroutines
    <3>1. CASE g = c
      BY <3>1, <2>5, <2>6 DEF Writer
    <3>2. CASE g = w
      BY <3>2, <2>3, <2>4, <2>5, <2>6 DEF Writer
    <3>3. CASE g # c /\ g # w
      <4>1. pc'[g] = pc[g] /\ job'[g] = job[g]
        BY <3>3, <2>5, <2>6
      <4> HIDE DEF w
      <4> QED BY <4>1, <2>1 DEF WritersOK, Writer, Writes, Ends
    <3> QED BY <3>1, <3>2, <3>3
  <2> QED BY <2>7, <2>8 DEF WritersOK
<1> QED BY <1>1, <1>2, <1>3, <1>4, <1>5, <1>6, <1>7, <1>8 DEF CallerStep, CallerCall

LEMMA WriterLife ==
  ASSUME Core, WritersOK, NEW i \in Ids, LifeStep(i) \/ LifeTimeout(i)
  PROVE  WritersOK'
<1> DEFINE g == Gor("life", i)
<1>0. g \in Goroutines /\ g \notin Callers /\ g \notin KindGors
  BY Gors
<1>1. arg' = arg
  BY DEF LifeStep, LifeReady, LifeTimeout, LifePoll, LifeUnrun, LifeCancelled, LifeDrop
<1>2. CASE LifeReady(i) \/ LifeTimeout(i) \/ LifePoll(i)
  <2>1. PICK l, s :
          /\ l \in {"up", "down"} /\ Begin(g, l, StatusJob(i, s))
          /\ \/ l = "up" /\ s = "running"
             \/ l = "down" /\ Ends(i, s)
    <3>1. CASE LifeReady(i) \/ LifeTimeout(i)
      BY <3>1 DEF LifeReady, LifeTimeout, Ends, Terminal
    <3>2. CASE LifePoll(i)
      BY <3>2 DEF LifePoll, Ends, Terminal, Reports
    <3> QED BY <1>2, <3>1, <3>2
  <2>2. StatusJob(i, s).op = "status" /\ StatusJob(i, s).id = i /\ StatusJob(i, s).status = s
    BY DEF StatusJob, NoJob
  <2> QED BY <1>0, <1>1, <2>1, <2>2, WriterBegin DEF LifeLabels
<1>3. CASE LifeUnrun(i) \/ LifeCancelled(i) \/ LifeDrop(i)
  <2>1. PICK l \in {"drop", "done"} : Goto(g, l)
    BY <1>3 DEF LifeUnrun, LifeCancelled, LifeDrop
  <2>2. pc[g] \notin LoopLabels
    BY <1>3 DEF LifeUnrun, LifeCancelled, LifeDrop, LoopLabels, NextLabel
  <2> QED BY <1>0, <1>1, <2>1, <2>2, WriterGoto DEF LifeLabels
<1> QED BY <1>2, <1>3 DEF LifeStep

LEMMA WriterKind ==
  ASSUME Core, WritersOK, NEW i \in WebIds, PumpAddr(i) \/ HealthFails(i) \/ WebStep(i)
  PROVE  WritersOK'
<1>0. \A r \in {"pump", "health", "wait"} :
        Gor(r, i) \in Goroutines /\ Gor(r, i) \notin Callers /\ Gor(r, i) \notin Watchers
  BY Gors, Roles
<1>1. arg' = arg
  BY DEF PumpAddr, HealthFails, WebStep, PumpReady, WaitReap
<1>2. \A s : /\ StatusJob(i, s).op = "status" /\ StatusJob(i, s).id = i
             /\ StatusJob(i, s).status = s /\ TouchJob(i).op = "touch"
  BY DEF StatusJob, TouchJob, NoJob
<1>3. PICK r \in {"pump", "health", "wait"} :
        /\ pc[Gor(r, i)] \in {"serve", "ready"}
        /\ \/ \E l \in {"ready", "done"} : Goto(Gor(r, i), l)
           \/ Begin(Gor(r, i), "blob", TouchJob(i))
           \/ r = "pump" /\ Begin(Gor(r, i), "live", StatusJob(i, "running"))
           \/ r = "health" /\ Begin(Gor(r, i), "unwell", StatusJob(i, "failed"))
           \/ r = "wait" /\ Begin(Gor(r, i), "exited", StatusJob(i, "exited"))
  BY DEF PumpAddr, HealthFails, WebStep, PumpReady, WaitReap
<1>4. CASE \E l \in {"ready", "done"} : Goto(Gor(r, i), l)
  BY <1>0, <1>1, <1>3, <1>4, WriterGoto DEF WebLabels, LoopLabels, NextLabel
<1>5. CASE Begin(Gor(r, i), "blob", TouchJob(i))
  BY <1>0, <1>1, <1>2, <1>5, WriterBegin DEF WebLabels
<1>6. CASE r = "pump" /\ Begin(Gor(r, i), "live", StatusJob(i, "running"))
  BY <1>0, <1>1, <1>2, <1>6, WriterBegin DEF WebLabels
<1>7. CASE r = "health" /\ Begin(Gor(r, i), "unwell", StatusJob(i, "failed"))
  BY <1>0, <1>1, <1>2, <1>7, WriterBegin DEF WebLabels
<1>8. CASE r = "wait" /\ Begin(Gor(r, i), "exited", StatusJob(i, "exited"))
  BY <1>0, <1>1, <1>2, <1>8, WriterBegin DEF WebLabels
<1> QED BY <1>3, <1>4, <1>5, <1>6, <1>7, <1>8

(* Every step keeps the edits under way where their writers are.           *)
LEMMA WritersNext ==
  ASSUME Core, WritersOK, [Next]_vars
  PROVE  WritersOK'
<1>1. CASE UNCHANGED <<pc, job, arg>>
  BY <1>1 DEF WritersOK, PlacesOK, Life, Writer, Writes, Ends
<1> QED BY <1>1, WriterStore, WriterCaller, WriterLife, WriterKind DEF Next, vars, ProcExit

----------------------------------------------------------------------------
(***************************************************************************)
(* The lifecycle, the map of running instances and the handlers in Stop.   *)
(***************************************************************************)
(* A Stop or Delete finds the lifecycle its instance had; a failed Start   *)
(* has none; a cancelled context has a Stop that waits for the lifecycle.  *)
Joined(i) == \E c \in Callers : arg[c] = i /\ pc[c] = "join"
StopOK(c) ==
  /\ pc[c] \in InStop => Life(arg[c]) # "off"
  /\ pc[c] \in {"stopped", "unrun"} => Life(arg[c]) = "done"
UnstartOK(c) ==
  pc[c] \in {"unspawn", "unstart"} =>
    /\ arg[c] \in used /\ Life(arg[c]) = "off"
    /\ \A d \in Callers : pc[d] \in BeforeLife => arg[d] # arg[c]
LifeOK ==
  /\ \A c \in Callers : StopOK(c) /\ UnstartOK(c)
  /\ \A i \in running \cup cancelled : Life(i) # "off"
  /\ \A i \in cancelled : Life(i) = "done" \/ Joined(i)
  /\ RunningIsWatched

(* Handler c alone moves and no lifecycle does.                            *)
CallerMoves(c, l) ==
  /\ pc'[c] = l
  /\ \A d \in Callers \ {c} : pc'[d] = pc[d] /\ arg'[d] = arg[d]
  /\ \A i \in Ids : pc'[Gor("life", i)] = pc[Gor("life", i)]

(* Lifecycle i alone moves and no handler does.                            *)
LifeMoves(i, l) ==
  /\ pc'[Gor("life", i)] = l
  /\ \A k \in Ids \ {i} : pc'[Gor("life", k)] = pc[Gor("life", k)]
  /\ \A c \in Callers : pc'[c] = pc[c] /\ arg'[c] = arg[c]

(* A change of control at one goroutine moves nobody else.                 *)
LEMMA GoesCaller ==
  ASSUME Core, NEW c \in Callers, NEW l, pc' = [pc EXCEPT ![c] = l],
         \A d \in Callers \ {c} : arg'[d] = arg[d]
  PROVE  CallerMoves(c, l)
BY Gors DEF CallerMoves, Core, StoreTypeOK

LEMMA GoesLife ==
  ASSUME Core, NEW i \in Ids, NEW l, pc' = [pc EXCEPT ![Gor("life", i)] = l], arg' = arg
  PROVE  LifeMoves(i, l)
BY Gors DEF LifeMoves, Core, StoreTypeOK

(* Handlers outside Start, Stop and their beginnings disturb nothing.      *)
LEMMA LifeOKCaller ==
  ASSUME Core, LifeOK, MemTypeOK, NEW c \in Callers, NEW l, CallerMoves(c, l),
         used \subseteq used',
         running' \subseteq running, cancelled' \subseteq cancelled,
         l \in InStop => arg'[c] \in Ids /\ Life(arg'[c]) # "off",
         l \in {"stopped", "unrun"} => Life(arg'[c]) = "done",
         l \in {"unspawn", "unstart"} =>
           /\ arg'[c] \in used' /\ arg'[c] \in Ids /\ Life(arg'[c]) = "off"
           /\ \A d \in Callers \ {c} : pc[d] \in BeforeLife => arg[d] # arg'[c],
         l \in BeforeLife => arg'[c] \notin used \/ (pc[c] \in BeforeLife /\ arg'[c] = arg[c]),
         pc[c] = "join" => Life(arg[c]) = "done" /\ arg'[c] = arg[c] /\ l = "stopped",
         pc[c] = "stopped" => arg'[c] = arg[c] /\ l = "unrun",
         pc[c] = "unrun" => arg[c] \notin running'
  PROVE  LifeOK'
<1>0. \A d \in Callers : pc[d] \in InStop \cup {"unspawn", "unstart"} => arg[d] \in Ids
  BY DEF Core, StartOK, InStop
<1>1. \A d \in Callers : StopOK(d)'
  <2> TAKE d \in Callers
  <2>1. CASE d = c
    BY <2>1, <1>0 DEF CallerMoves, StopOK, Life, InStop
  <2>2. CASE d # c
    BY <2>2, <1>0 DEF LifeOK, CallerMoves, StopOK, Life, InStop
  <2> QED BY <2>1, <2>2
<1>2. \A d \in Callers : UnstartOK(d)'
  <2> TAKE d \in Callers
  <2>1. CASE d = c
    BY <2>1, <1>0 DEF CallerMoves, UnstartOK, Life, BeforeLife, BeforeSpawn
  <2>2. CASE d # c
    <3>1. pc'[d] = pc[d] /\ arg'[d] = arg[d] /\ UnstartOK(d)
      BY <2>2 DEF CallerMoves, LifeOK
    <3>2. pc[d] \in {"unspawn", "unstart"} /\ l \in BeforeLife => arg'[c] # arg[d]
      BY <3>1 DEF UnstartOK
    <3> QED BY <1>0, <3>1, <3>2 DEF CallerMoves, UnstartOK, Life
  <2> QED BY <2>1, <2>2
<1>3. \A i \in running' \cup cancelled' : Life(i)' # "off"
  BY DEF LifeOK, CallerMoves, Life, MemTypeOK
<1>4. \A i \in cancelled' : Life(i)' = "done" \/ Joined(i)'
  <2> TAKE i \in cancelled'
  <2>1. i \in Ids /\ (Life(i) = "done" \/ Joined(i))
    BY DEF LifeOK, MemTypeOK
  <2>2. CASE Life(i) = "done"
    BY <2>1, <2>2 DEF CallerMoves, Life
  <2>3. CASE Joined(i)
    <3>1. PICK d \in Callers : arg[d] = i /\ pc[d] = "join"
      BY <2>3 DEF Joined
    <3>2. CASE d = c
      BY <2>1, <3>1, <3>2 DEF CallerMoves, Life
    <3>3. CASE d # c
      BY <3>1, <3>3 DEF CallerMoves, Joined
    <3> QED BY <3>2, <3>3
  <2> QED BY <2>1, <2>2, <2>3
<1>5. RunningIsWatched'
  <2> SUFFICES ASSUME NEW i \in running'
               PROVE  \/ Life(i)' \in {"wait", "up", "poll", "down", "unrun"}
                      \/ \E d \in Callers : arg'[d] = i /\ pc'[d] \in {"join", "stopped", "unrun"}
    BY DEF RunningIsWatched
  <2>1. i \in Ids /\ i \in running
    BY DEF MemTypeOK
  <2>2. CASE Life(i) \in {"wait", "up", "poll", "down", "unrun"}
    BY <2>1, <2>2 DEF CallerMoves, Life
  <2>3. CASE \E d \in Callers : arg[d] = i /\ pc[d] \in {"join", "stopped", "unrun"}
    <3>1. PICK d \in Callers : arg[d] = i /\ pc[d] \in {"join", "stopped", "unrun"}
      BY <2>3
    <3>2. CASE d = c
      BY <3>1, <3>2 DEF CallerMoves
    <3>3. CASE d # c
      BY <3>1, <3>3 DEF CallerMoves
    <3> QED BY <3>2, <3>3
  <2> QED BY <2>1, <2>2, <2>3 DEF LifeOK, RunningIsWatched
<1> QED BY <1>1, <1>2, <1>3, <1>4, <1>5 DEF LifeOK

(* A lifecycle that runs moves on.                                         *)
LEMMA LifeOKLife ==
  ASSUME Core, LifeOK, MemTypeOK, NEW i \in Ids, NEW l, LifeMoves(i, l),
         UNCHANGED <<used, cancelled>>, running' \subseteq running,
         Life(i) \notin {"off", "done"}, l # "off",
         \/ l \in {"wait", "up", "poll", "down", "unrun"}
         \/ l = "drop" /\ i \notin running'
         \/ l = "drop" /\ i \in cancelled
         \/ l = "done" /\ Life(i) = "drop"
  PROVE  LifeOK'
<1>0. \A d \in Callers : pc[d] \in InStop \cup {"unspawn", "unstart"} => arg[d] \in Ids
  BY DEF Core, StartOK, InStop
<1>1. \A d \in Callers : StopOK(d)' /\ UnstartOK(d)'
  <2> TAKE d \in Callers
  <2>1. StopOK(d)'
    BY <1>0 DEF LifeOK, LifeMoves, StopOK, Life, InStop
  <2>2. UnstartOK(d)'
    BY <1>0 DEF LifeOK, LifeMoves, UnstartOK, Life
  <2> QED BY <2>1, <2>2
<1>2. \A k \in running' \cup cancelled' : Life(k)' # "off"
  BY DEF LifeOK, LifeMoves, Life, MemTypeOK
<1>3. \A k : Joined(k) <=> Joined(k)'
  BY DEF Joined, LifeMoves
<1>4. \A k \in cancelled' : Life(k)' = "done" \/ Joined(k)'
  BY <1>3 DEF LifeOK, LifeMoves, Life, MemTypeOK
<1>5. RunningIsWatched'
  <2> SUFFICES ASSUME NEW k \in running'
               PROVE  \/ Life(k)' \in {"wait", "up", "poll", "down", "unrun"}
                      \/ \E d \in Callers : arg'[d] = k /\ pc'[d] \in {"join", "stopped", "unrun"}
    BY DEF RunningIsWatched
  <2>1. \/ Life(k) \in {"wait", "up", "poll", "down", "unrun"}
        \/ \E d \in Callers : arg[d] = k /\ pc[d] \in {"join", "stopped", "unrun"}
    BY DEF LifeOK, RunningIsWatched
  <2>2. CASE \E d \in Callers : arg[d] = k /\ pc[d] \in {"join", "stopped", "unrun"}
    BY <2>2 DEF LifeMoves
  <2>3. CASE k # i
    BY <2>1, <2>2, <2>3 DEF LifeMoves, Life, MemTypeOK
  <2>4. CASE k = i /\ i \in cancelled
    <3>1. Joined(i)
      BY <2>4 DEF LifeOK
    <3> QED BY <2>4, <3>1 DEF Joined, LifeMoves
  <2>5. CASE k = i /\ i \notin cancelled
    BY <2>1, <2>2, <2>5 DEF LifeMoves, Life
  <2> QED BY <2>3, <2>4, <2>5
<1> QED BY <1>1, <1>2, <1>4, <1>5 DEF LifeOK

LEMMA LifeOKStore ==
  ASSUME Core, LifeOK, MemTypeOK, WritersOK, NEW g \in Goroutines, Load(g) \/ Save(g)
  PROVE  LifeOK'
<1>1. UNCHANGED <<used, arg, running, cancelled>> /\ job[g].op # "none"
  BY DEF Load, Save, Core, SnapOK, memVars
<1>2. UNCHANGED pc \/ \E res : Leaves(g, res)
  BY DEF Load, Save, Commit, Conflict, Leave, Begin, Leaves
<1>3. CASE UNCHANGED pc
  BY <1>1, <1>3 DEF LifeOK, StopOK, UnstartOK, RunningIsWatched, Joined, Life
<1>4. CASE \E res : Leaves(g, res)
  <2>1. PICK res : Leaves(g, res)
    BY <1>4
  <2> DEFINE l == After(pc[g], res)
  <2>2. pc[g] \in LoopLabels /\ pc' = [pc EXCEPT ![g] = l]
    BY <1>1, <2>1 DEF Core, JobOK, Leaves
  <2>3. CASE g \in Callers
    <3>1. CallerMoves(g, l)
      BY <1>1, <2>2, <2>3, GoesCaller
    <3>2. pc[g] \in CallerLabels
      BY <2>3 DEF WritersOK, PlacesOK
    <3>3. /\ l \in {"alloc", "idle", "register", "unrun"}
          /\ l \in {"alloc", "register"} => pc[g] \in BeforeLife
          /\ l = "unrun" <=> pc[g] = "stopped"
          /\ pc[g] \notin {"join", "unrun"}
      BY <2>2, <3>2 DEF After, NextLabel, LoopLabels, CallerLabels, BeforeLife, BeforeSpawn
    <3>4. pc[g] = "stopped" => arg[g] \in Ids /\ Life(arg[g]) = "done"
      BY <2>3 DEF LifeOK, StopOK, Core, StartOK
    <3> HIDE DEF l
    <3> QED BY <1>1, <2>3, <3>1, <3>3, <3>4, LifeOKCaller DEF InStop, BeforeLife, BeforeSpawn
  <2>4. CASE \E i \in Ids : g = Gor("life", i)
    <3>1. PICK i \in Ids : g = Gor("life", i)
      BY <2>4
    <3>2. LifeMoves(i, l)
      BY <1>1, <2>2, <3>1, GoesLife
    <3>3. Life(i) \in LifeLabels
      BY DEF WritersOK, PlacesOK
    <3>4. l \in {"poll", "unrun"} /\ Life(i) \notin {"off", "done"}
      BY <2>2, <3>1, <3>3 DEF After, NextLabel, LoopLabels, LifeLabels, Life
    <3>5. running' \subseteq running /\ UNCHANGED <<used, cancelled>>
      BY <1>1
    <3> HIDE DEF l
    <3>6. /\ l # "off"
          /\ \/ l \in {"wait", "up", "poll", "down", "unrun"}
             \/ l = "drop" /\ i \notin running'
             \/ l = "drop" /\ i \in cancelled
             \/ l = "done" /\ Life(i) = "drop"
      BY <3>4
    <3> QED BY <3>2, <3>4, <3>5, <3>6, LifeOKLife
  <2>5. CASE g \in KindGors
    <3>1. /\ \A c \in Callers : pc'[c] = pc[c]
          /\ \A i \in Ids : pc'[Gor("life", i)] = pc[Gor("life", i)]
      BY <2>2, <2>5, Gors DEF Core, StoreTypeOK
    <3>2. \A d \in Callers : pc[d] \in InStop \cup {"unspawn", "unstart"} => arg[d] \in Ids
      BY DEF Core, StartOK, InStop
    <3> QED BY <1>1, <3>1, <3>2 DEF LifeOK, StopOK, UnstartOK, RunningIsWatched, Joined, Life,
                                    InStop, MemTypeOK
  <2> QED BY <2>3, <2>4, <2>5, Roles
<1> QED BY <1>2, <1>3, <1>4

LEMMA LifeOKCallerNext ==
  ASSUME Core, LifeOK, MemTypeOK, NEW c \in Callers, CallerCall(c) \/ CallerStep(c)
  PROVE  LifeOK'
<1>0. /\ c \in Goroutines /\ arg \in [Callers -> Ids \cup {NoId}]
      /\ pc[c] \notin {"idle", "check", "reorder"} => arg[c] \in Ids
      /\ StartOK(c) /\ StopOK(c) /\ UnstartOK(c)
  BY Gors DEF Core, StoreTypeOK, StartOK, LifeOK
<1>1. CASE CallerCall(c)
  <2>1. PICK l \in {"persist", "check", "kstop", "delbuf", "rename", "reorder"} :
          /\ pc[c] = "idle" /\ pc' = [pc EXCEPT ![c] = l]
          /\ \A d \in Callers \ {c} : arg'[d] = arg[d]
          /\ used \subseteq used' /\ UNCHANGED <<running, cancelled>>
          /\ l = "kstop" => arg'[c] \in running
          /\ l = "persist" => arg'[c] \notin used
    <3>1. CASE \E i \in Ids : StartCall(c, i)
      BY <3>1, <1>0 DEF StartCall, Check, Begin, memVars
    <3>2. CASE \E i \in Ids : RestartCall(c, i) \/ StopCall(c, i) \/ DeleteCall(c, i)
      BY <3>2, <1>0 DEF RestartCall, StopCall, DeleteCall, Goto, memVars
    <3>3. CASE \/ \E i \in Ids : RenameCall(c, i)
               \/ \E order \in Orders, back \in 0..1 : ReorderCall(c, order, file.version - back)
      BY <3>3, <1>0 DEF RenameCall, ReorderCall, Begin, memVars
    <3> QED BY <1>1, <3>1, <3>2, <3>3 DEF CallerCall
  <2>2. CallerMoves(c, l)
    BY <2>1, GoesCaller
  <2>3. l \in InStop => l = "kstop" /\ arg'[c] \in Ids /\ Life(arg'[c]) # "off"
    BY <2>1 DEF InStop, LifeOK, MemTypeOK
  <2>4. l \in BeforeLife => l = "persist"
    BY DEF BeforeLife, BeforeSpawn
  <2> QED BY <2>1, <2>2, <2>3, <2>4, LifeOKCaller
<1>2. CASE \E i \in Ids : RestartCheck(c, i)
  <2>1. PICK i \in Ids : RestartCheck(c, i)
    BY <1>2
  <2>2. /\ pc[c] = "check" /\ pc' = [pc EXCEPT ![c] = "persist"] /\ i \notin used
        /\ arg'[c] = i /\ \A d \in Callers \ {c} : arg'[d] = arg[d]
        /\ used \subseteq used' /\ UNCHANGED <<running, cancelled>>
    BY <1>0, <2>1 DEF RestartCheck, Check, Begin, memVars
  <2>3. CallerMoves(c, "persist")
    BY <2>2, GoesCaller
  <2> QED BY <2>2, <2>3, LifeOKCaller DEF InStop
<1>3. CASE RestartRefused(c) \/ Alloc(c) \/ Account(c) \/ Publish(c) \/ DeleteBuffer(c)
  <2>1. PICK l \in {"idle", "account", "spawn", "setpid", "delete"} :
          /\ pc' = [pc EXCEPT ![c] = l] /\ UNCHANGED <<arg, used, running, cancelled>>
          /\ pc[c] \notin InStop
          /\ l \in {"account", "spawn", "setpid"} => pc[c] \in BeforeLife
    BY <1>3 DEF RestartRefused, Alloc, Account, Publish, DeleteBuffer, Goto, Begin, memVars,
                InStop, BeforeLife, BeforeSpawn
  <2>2. CallerMoves(c, l)
    BY <2>1, GoesCaller
  <2> QED BY <2>1, <2>2, LifeOKCaller DEF InStop, BeforeLife, BeforeSpawn
<1>4. CASE SpawnFails(c) \/ Unspawn(c)
  <2>1. PICK l \in {"unspawn", "unstart"} :
          /\ pc' = [pc EXCEPT ![c] = l] /\ UNCHANGED <<arg, used, running, cancelled>>
          /\ pc[c] \in {"spawn", "unspawn"}
    BY <1>4 DEF SpawnFails, Unspawn, Goto, Begin, memVars
  <2>2. CallerMoves(c, l)
    BY <2>1, GoesCaller
  <2>3. /\ arg[c] \in used /\ arg[c] \in Ids /\ Life(arg[c]) = "off"
        /\ \A d \in Callers \ {c} : pc[d] \in BeforeLife => arg[d] # arg[c]
    BY <1>0, <2>1 DEF StartOK, UnstartOK, Life, BeforeLife, BeforeSpawn
  <2> QED BY <2>1, <2>2, <2>3, LifeOKCaller DEF InStop, BeforeLife, BeforeSpawn
<1>5. CASE KindStop(c)
  <2>1. /\ pc[c] = "kstop" /\ pc' = [pc EXCEPT ![c] = "kwait"]
        /\ UNCHANGED <<arg, used, running, cancelled>>
    BY <1>5 DEF KindStop, Goto, memVars
  <2> QED BY <1>0, <2>1, GoesCaller, LifeOKCaller DEF StopOK, InStop, BeforeLife, BeforeSpawn
<1>6. CASE Join(c)
  <2>1. /\ pc[c] = "join" /\ pc' = [pc EXCEPT ![c] = "stopped"] /\ Life(arg[c]) = "done"
        /\ UNCHANGED <<arg, used, running, cancelled>>
    BY <1>6 DEF Join, Begin, memVars, Life
  <2> QED BY <1>0, <2>1, GoesCaller, LifeOKCaller DEF StopOK, InStop, BeforeLife, BeforeSpawn
<1>7. CASE Unrun(c)
  <2>1. /\ pc[c] = "unrun" /\ pc' = [pc EXCEPT ![c] = "idle"] /\ running' = running \ {arg[c]}
        /\ UNCHANGED <<arg, used, cancelled>>
    BY <1>7 DEF Unrun, Goto
  <2> QED BY <1>0, <2>1, GoesCaller, LifeOKCaller DEF StopOK, InStop, BeforeLife, BeforeSpawn
<1>8. CASE KindStopped(c)
  <2>1. /\ pc[c] = "kwait" /\ pc' = [pc EXCEPT ![c] = "join"] /\ arg[c] \in Ids
        /\ cancelled' = cancelled \cup {arg[c]} /\ UNCHANGED <<arg, used, running>>
    BY <1>0, <1>8 DEF KindStopped, Goto
  <2>2. CallerMoves(c, "join")
    BY <2>1, GoesCaller
  <2>3. Life(arg[c]) # "off"
    BY <1>0, <2>1 DEF StopOK, InStop
  <2>4. \A d \in Callers : StopOK(d)' /\ UnstartOK(d)'
    <3>1. \A d \in Callers : pc[d] \in InStop \cup {"unspawn", "unstart"} => arg[d] \in Ids
      BY DEF Core, StartOK, InStop
    <3> TAKE d \in Callers
    <3>2. StopOK(d)'
      BY <2>1, <2>2, <2>3, <3>1 DEF CallerMoves, LifeOK, StopOK, Life, InStop
    <3>3. UnstartOK(d)'
      BY <2>1, <2>2, <3>1 DEF CallerMoves, LifeOK, UnstartOK, Life, BeforeLife, BeforeSpawn
    <3> QED BY <3>2, <3>3
  <2>5. \A i \in Ids : Life(i)' = Life(i) /\ (Joined(i) => Joined(i)')
    BY <2>1, <2>2 DEF CallerMoves, Life, Joined
  <2>6. Joined(arg[c])'
    BY <2>1, <2>2 DEF CallerMoves, Joined
  <2>7. /\ \A i \in running' \cup cancelled' : Life(i)' # "off"
        /\ \A i \in cancelled' : Life(i)' = "done" \/ Joined(i)'
    BY <2>1, <2>3, <2>5, <2>6 DEF LifeOK, MemTypeOK
  <2>8. RunningIsWatched'
    BY <2>1, <2>2, <2>5 DEF LifeOK, RunningIsWatched, CallerMoves, MemTypeOK
  <2> QED BY <2>4, <2>7, <2>8 DEF LifeOK
<1>9. CASE Spawn(c)
  <2>1. /\ pc[c] = "spawn" /\ UNCHANGED <<arg, used, running, cancelled>>
        /\ pc' = [g \in Goroutines |->
                    IF g = c THEN "publish"
                    ELSE IF g \in KindGors /\ g[2] = arg[c] THEN "serve" ELSE pc[g]]
    BY <1>9 DEF Spawn, memVars
  <2>2. CallerMoves(c, "publish")
    BY <2>1, Gors DEF CallerMoves
  <2> QED BY <2>1, <2>2, LifeOKCaller DEF InStop, BeforeLife, BeforeSpawn
<1>10. CASE Register(c)
  <2> DEFINE l == IF old[c] = NoId THEN "idle" ELSE "link"
  <2>0. PICK i \in Ids : i = arg[c]
    BY <1>0, <1>10 DEF Register
  <2>1. /\ pc[c] = "register" /\ pc' = [pc EXCEPT ![c] = l, ![Gor("life", i)] = "wait"]
        /\ running' = running \cup {i} /\ UNCHANGED <<arg, used, cancelled>>
    BY <1>10, <2>0 DEF Register
  <2>2. /\ pc'[c] = l /\ Life(i)' = "wait"
        /\ \A d \in Callers \ {c} : pc'[d] = pc[d]
        /\ \A k \in Ids \ {i} : Life(k)' = Life(k)
    BY <2>1, Gors DEF Core, StoreTypeOK, Life
  <2>3. Life(i) = "off" /\ pc[c] \in BeforeLife
    BY <1>0, <2>0, <2>1 DEF StartOK, Life, BeforeLife, BeforeSpawn
  <2>4. \A d \in Callers : StopOK(d)' /\ UnstartOK(d)'
    <3>1. \A d \in Callers : pc[d] \in InStop \cup {"unspawn", "unstart"} => arg[d] \in Ids
      BY DEF Core, StartOK, InStop
    <3> TAKE d \in Callers
    <3>2. StopOK(d)'
      <4>1. CASE d = c
        BY <2>2, <4>1 DEF StopOK, InStop
      <4>2. CASE d # c
        <5>1. arg'[d] = arg[d] /\ pc'[d] = pc[d] /\ StopOK(d)
          BY <2>1, <2>2, <4>2 DEF LifeOK
        <5>2. pc[d] \in InStop => arg[d] \in Ids /\ arg[d] # i
          BY <2>3, <3>1, <5>1 DEF StopOK
        <5>3. pc[d] \in InStop => pc'[Gor("life", arg[d])] = pc[Gor("life", arg[d])]
          BY <2>2, <5>2 DEF Life
        <5> QED BY <5>1, <5>3 DEF StopOK, InStop, Life
      <4> QED BY <4>1, <4>2
    <3>3. UnstartOK(d)'
      <4>1. pc'[d] \in {"unspawn", "unstart"} => d # c /\ arg[d] \in Ids /\ arg[d] # i
        BY <2>0, <2>1, <2>2, <2>3, <3>1 DEF LifeOK, UnstartOK
      <4>2. \A e \in Callers : pc'[e] \in BeforeLife => pc[e] \in BeforeLife
        BY <2>2, <2>3
      <4> QED BY <2>1, <2>2, <4>1, <4>2 DEF LifeOK, UnstartOK
    <3> QED BY <3>2, <3>3
  <2>5. \A k \in Ids : Joined(k) => Joined(k)'
    BY <2>1, <2>2 DEF Joined
  <2>6. /\ \A k \in running' \cup cancelled' : Life(k)' # "off"
        /\ \A k \in cancelled' : Life(k)' = "done" \/ Joined(k)'
    BY <2>1, <2>2, <2>3, <2>5 DEF LifeOK, MemTypeOK
  <2>7. RunningIsWatched'
    <3> SUFFICES ASSUME NEW k \in running'
                 PROVE  \/ Life(k)' \in {"wait", "up", "poll", "down", "unrun"}
                        \/ \E d \in Callers : arg'[d] = k /\ pc'[d] \in {"join", "stopped", "unrun"}
      BY DEF RunningIsWatched
    <3>1. CASE k = i
      BY <2>2, <3>1
    <3>2. CASE k # i
      <4>1. k \in Ids /\ k \in running
        BY <2>1, <3>2 DEF MemTypeOK
      <4> QED BY <2>1, <2>2, <3>2, <4>1 DEF LifeOK, RunningIsWatched
    <3> QED BY <3>1, <3>2
  <2> QED BY <2>4, <2>6, <2>7 DEF LifeOK
<1> QED BY <1>1, <1>2, <1>3, <1>4, <1>5, <1>6, <1>7, <1>8, <1>9, <1>10 DEF CallerStep

(* Every step keeps the lifecycles.                                        *)
LEMMA LifeOKNext ==
  ASSUME Core, WritersOK, LifeOK, MemTypeOK, [Next]_vars
  PROVE  LifeOK'
<1>1. ASSUME NEW i \in Ids, LifeStep(i) \/ LifeTimeout(i) PROVE LifeOK'
  <2>1. PICK l \in {"up", "down", "drop", "done"} :
          /\ pc' = [pc EXCEPT ![Gor("life", i)] = l]
          /\ UNCHANGED <<arg, used, cancelled>> /\ running' \subseteq running
          /\ Life(i) \notin {"off", "done"}
          /\ l = "drop" => i \notin running' \/ i \in cancelled
          /\ l = "done" => Life(i) = "drop"
    <3>1. CASE LifeReady(i) \/ LifeTimeout(i) \/ LifePoll(i)
      BY <3>1 DEF LifeReady, LifeTimeout, LifePoll, Begin, memVars, Life
    <3>2. CASE LifeUnrun(i) \/ LifeCancelled(i) \/ LifeDrop(i)
      BY <3>2 DEF LifeUnrun, LifeCancelled, LifeDrop, Goto, memVars, Life
    <3> QED BY <1>1, <3>1, <3>2 DEF LifeStep
  <2> QED BY <2>1, GoesLife, LifeOKLife
<1>2. ASSUME NEW i \in WebIds, PumpAddr(i) \/ HealthFails(i) \/ WebStep(i) PROVE LifeOK'
  <2>1. PICK r, l : r \in {"pump", "health", "wait"} /\ pc' = [pc EXCEPT ![Gor(r, i)] = l]
    BY <1>2 DEF PumpAddr, HealthFails, WebStep, PumpReady, WaitReap, Goto, Begin
  <2>2. UNCHANGED <<arg, used, running, cancelled>>
    BY <1>2 DEF PumpAddr, HealthFails, WebStep, PumpReady, WaitReap, memVars
  <2>3. /\ \A c \in Callers : pc'[c] = pc[c]
        /\ \A k \in Ids : pc'[Gor("life", k)] = pc[Gor("life", k)]
    BY <2>1, Gors DEF Core, StoreTypeOK
  <2>4. \A d \in Callers : pc[d] \in InStop \cup {"unspawn", "unstart"} => arg[d] \in Ids
    BY DEF Core, StartOK, InStop
  <2> QED BY <2>2, <2>3, <2>4 DEF LifeOK, StopOK, UnstartOK, RunningIsWatched, Joined, Life,
                                  InStop, MemTypeOK
<1>3. CASE UNCHANGED <<pc, arg, used, running, cancelled>>
  BY <1>3 DEF LifeOK, StopOK, UnstartOK, RunningIsWatched, Joined, Life
<1>4. ASSUME NEW i \in Ids, ProcExit(i) PROVE LifeOK'
  BY <1>3, <1>4 DEF ProcExit, memVars
<1>5. CASE UNCHANGED vars
  BY <1>3, <1>5 DEF vars, memVars
<1> QED BY <1>1, <1>2, <1>4, <1>5, LifeOKStore, LifeOKCallerNext DEF Next

----------------------------------------------------------------------------
(***************************************************************************)
(* The buffers and the counter that stands for them.                       *)
(***************************************************************************)
(* The Starts that hold a buffer the counter does not show yet.            *)
Counting == {c \in Callers : pc[c] = "account"}
Early    == {"persist", "alloc"}
BufOK ==
  /\ IsFiniteSet(buf) /\ IsFiniteSet(Counting) /\ BufferAccounting
  /\ buf \subseteq used
  /\ \A c \in Callers : pc[c] \in Early => arg[c] \notin buf
  /\ NoBufferLeak

(* A buffer survives a step with somebody who is going to drop it.         *)
Kept(i) ==
  /\ Starting(i) => Starting(i)' \/ Life(i)' \notin {"off", "done"}
  /\ Life(i) \notin {"off", "done"} => Life(i)' \notin {"off", "done"}

(* dropBuffer, or nothing, done to the buffers.                            *)
Drops(i) == buf' = buf \ {i} /\ totalBuf' = IF i \in buf THEN totalBuf - 1 ELSE totalBuf

LEMMA BufFrame ==
  ASSUME BufOK, MemTypeOK, used \subseteq used', Counting' = Counting,
         UNCHANGED <<buf, totalBuf>> \/ \E i : Drops(i),
         \A c \in Callers : pc'[c] \in Early =>
            arg'[c] \notin used \/ (pc[c] \in Early /\ arg'[c] = arg[c]),
         \A i \in buf' : Kept(i)
  PROVE  BufOK'
<1>1. buf' \subseteq buf
  BY DEF Drops
<1>2. IsFiniteSet(buf') /\ IsFiniteSet(Counting')
  BY <1>1, FS_Subset DEF BufOK
<1>3. BufferAccounting'
  <2>1. CASE UNCHANGED <<buf, totalBuf>>
    BY <2>1 DEF BufOK, BufferAccounting, Counting
  <2>2. CASE \E i : Drops(i)
    <3>1. PICK i : Drops(i)
      BY <2>2
    <3>2. Cardinality(buf') = IF i \in buf THEN Cardinality(buf) - 1 ELSE Cardinality(buf)
      BY <3>1, FS_RemoveElement DEF BufOK, Drops
    <3>3. Cardinality(buf) \in Nat /\ Cardinality(Counting) \in Nat
      BY FS_CardinalityType DEF BufOK
    <3> QED BY <3>1, <3>2, <3>3 DEF BufOK, BufferAccounting, Counting, Drops
  <2> QED BY <2>1, <2>2
<1>4. buf' \subseteq used' /\ \A c \in Callers : pc'[c] \in Early => arg'[c] \notin buf'
  BY <1>1 DEF BufOK
<1>5. NoBufferLeak'
  BY <1>1 DEF BufOK, NoBufferLeak, Kept
<1> QED BY <1>2, <1>3, <1>4, <1>5 DEF BufOK

(* Handler c moves and neither begins nor ends between map and counter.    *)
LEMMA BufCaller ==
  ASSUME Core, BufOK, MemTypeOK, NEW c \in Callers, NEW l, CallerMoves(c, l),
         used \subseteq used', pc[c] # "account", l # "account",
         UNCHANGED <<buf, totalBuf>> \/ Drops(arg[c]),
         l \in Early => arg'[c] \notin used \/ (pc[c] \in Early /\ arg'[c] = arg[c]),
         \/ pc[c] \notin InStart
         \/ l \in InStart /\ arg'[c] = arg[c]
         \/ Drops(arg[c])
  PROVE  BufOK'
<1>1. Counting' = Counting
  BY DEF Counting, CallerMoves
<1>2. \A d \in Callers : pc'[d] \in Early =>
         arg'[d] \notin used \/ (pc[d] \in Early /\ arg'[d] = arg[d])
  BY DEF CallerMoves
<1>3. ASSUME NEW i \in buf' PROVE Kept(i)
  <2>1. i \in Ids
    BY DEF MemTypeOK, Drops
  <2>2. Life(i)' = Life(i)
    BY <2>1 DEF CallerMoves, Life
  <2>3. Starting(i) => Starting(i)'
    <3> SUFFICES ASSUME NEW d \in Callers, arg[d] = i, pc[d] \in InStart PROVE Starting(i)'
      BY DEF Starting
    <3>1. CASE d = c
      <4>1. ~Drops(arg[c])
        BY <1>3, <3>1 DEF Drops
      <4>2. l \in InStart /\ arg'[c] = arg[c] /\ pc'[c] = l
        BY <3>1, <4>1 DEF CallerMoves
      <4> QED BY <3>1, <4>2 DEF Starting
    <3>2. CASE d # c
      BY <3>2 DEF CallerMoves, Starting
    <3> QED BY <3>1, <3>2
  <2> QED BY <2>2, <2>3 DEF Kept
<1> QED BY <1>1, <1>2, <1>3, BufFrame

(* A lifecycle moves; it ends only by dropping the buffer.                 *)
LEMMA BufLife ==
  ASSUME Core, BufOK, MemTypeOK, NEW i \in Ids, NEW l, LifeMoves(i, l), UNCHANGED used,
         l # "off", (UNCHANGED <<buf, totalBuf>> /\ l # "done") \/ Drops(i)
  PROVE  BufOK'
<1>1. Counting' = Counting
  BY DEF Counting, LifeMoves
<1>2. \A k \in buf' : Kept(k)
  BY DEF Drops, Kept, Starting, LifeMoves, Life, MemTypeOK
<1> QED BY <1>1, <1>2, BufFrame DEF LifeMoves

LEMMA BufStore ==
  ASSUME Core, BufOK, MemTypeOK, WritersOK, NEW g \in Goroutines, Load(g) \/ Save(g)
  PROVE  BufOK'
<1>1. UNCHANGED <<used, arg, buf, totalBuf>> /\ job[g].op # "none"
  BY DEF Load, Save, Core, SnapOK, memVars
<1>2. UNCHANGED pc \/ \E res : Leaves(g, res)
  BY DEF Load, Save, Commit, Conflict, Leave, Begin, Leaves
<1>3. CASE UNCHANGED pc
  BY <1>1, <1>3 DEF BufOK, Counting, BufferAccounting, NoBufferLeak, Starting, Life
<1>4. CASE \E res : Leaves(g, res)
  <2>1. PICK res : Leaves(g, res)
    BY <1>4
  <2> DEFINE l == After(pc[g], res)
  <2>2. pc[g] \in LoopLabels /\ pc' = [pc EXCEPT ![g] = l]
    BY <1>1, <2>1 DEF Core, JobOK, Leaves
  <2>3. CASE g \in Callers
    <3>1. CallerMoves(g, l)
      BY <1>1, <2>2, <2>3, GoesCaller
    <3>2. pc[g] \in CallerLabels
      BY <2>3 DEF WritersOK, PlacesOK
    <3>3. /\ l \in {"alloc", "idle", "register", "unrun"}
          /\ l = "alloc" => pc[g] = "persist"
          /\ l = "register" <=> pc[g] = "setpid"
          /\ pc[g] \notin InStart \ {"setpid"}
      BY <2>2, <3>2 DEF After, NextLabel, LoopLabels, CallerLabels, InStart
    <3>4. pc[g] \notin InStart \/ (l \in InStart /\ arg'[g] = arg[g])
      BY <1>1, <3>3 DEF InStart
    <3>5. l \in Early => pc[g] \in Early /\ arg'[g] = arg[g]
      BY <1>1, <3>3 DEF Early
    <3>6. pc[g] # "account" /\ l # "account"
      BY <3>3 DEF InStart
    <3> HIDE DEF l
    <3> QED BY <1>1, <2>3, <3>1, <3>4, <3>5, <3>6, BufCaller
  <2>4. CASE \E i \in Ids : g = Gor("life", i)
    <3>1. PICK i \in Ids : g = Gor("life", i)
      BY <2>4
    <3>2. LifeMoves(i, l)
      BY <1>1, <2>2, <3>1, GoesLife
    <3>3. Life(i) \in LifeLabels
      BY DEF WritersOK, PlacesOK
    <3>4. l \in {"poll", "unrun"}
      BY <2>2, <3>1, <3>3 DEF After, NextLabel, LoopLabels, LifeLabels, Life
    <3>5. l # "off" /\ l # "done"
      BY <3>4
    <3> HIDE DEF l
    <3> QED BY <1>1, <3>2, <3>5, BufLife
  <2>5. CASE g \in KindGors
    <3>1. /\ \A c \in Callers : pc'[c] = pc[c]
          /\ \A i \in Ids : pc'[Gor("life", i)] = pc[Gor("life", i)]
      BY <2>2, <2>5, Gors DEF Core, StoreTypeOK
    <3>2. Counting' = Counting
      BY <3>1 DEF Counting
    <3>3. \A i \in buf' : Kept(i)
      BY <1>1, <3>1 DEF Kept, Starting, Life, MemTypeOK
    <3> QED BY <1>1, <3>1, <3>2, <3>3, BufFrame
  <2> QED BY <2>3, <2>4, <2>5, Roles
<1> QED BY <1>2, <1>3, <1>4

(* The map entry comes before the count: the Start is between the two.     *)
LEMMA BufAlloc ==
  ASSUME Core, BufOK, MemTypeOK, NEW c \in Callers, Alloc(c), NeedsBuffer(arg[c])
  PROVE  BufOK'
<1>1. PICK i \in Ids : i = arg[c]
  BY DEF Alloc, Core, StartOK
<1>2. /\ pc[c] = "alloc" /\ buf' = buf \cup {i} /\ pc' = [pc EXCEPT ![c] = "account"]
      /\ UNCHANGED <<arg, used, totalBuf>>
  BY <1>1 DEF Alloc, Goto
<1>3. CallerMoves(c, "account")
  BY <1>2, GoesCaller
<1>4. i \notin buf /\ i \in used /\ c \notin Counting
  BY <1>1, <1>2 DEF BufOK, Early, Core, StartOK, BeforeLife, BeforeSpawn, Counting
<1>5. Counting' = Counting \cup {c}
  BY <1>3 DEF Counting, CallerMoves
<1>6. /\ IsFiniteSet(buf') /\ Cardinality(buf') = Cardinality(buf) + 1
      /\ IsFiniteSet(Counting') /\ Cardinality(Counting') = Cardinality(Counting) + 1
  BY <1>2, <1>4, <1>5, FS_AddElement DEF BufOK
<1>7. BufferAccounting'
  <2>1. Cardinality(buf) \in Nat /\ Cardinality(Counting) \in Nat
    BY FS_CardinalityType DEF BufOK
  <2>2. totalBuf = Cardinality(buf) - Cardinality(Counting)
    BY DEF BufOK, BufferAccounting, Counting
  <2>3. totalBuf' = Cardinality(buf') - Cardinality(Counting')
    BY <1>2, <1>6, <2>1, <2>2
  <2> QED BY <2>3 DEF BufferAccounting, Counting
<1>8. \A d \in Callers : pc'[d] \in Early => arg'[d] \notin buf'
  <2> SUFFICES ASSUME NEW d \in Callers, pc'[d] \in Early PROVE arg'[d] \notin buf'
    OBVIOUS
  <2>1. d # c /\ pc[d] = pc'[d] /\ arg[d] = arg'[d]
    BY <1>3 DEF CallerMoves, Early
  <2>2. pc[d] \in BeforeLife /\ pc[c] \in BeforeLife
    BY <1>2, <2>1 DEF BeforeLife, BeforeSpawn, Early
  <2>3. arg[d] # i
    BY <1>1, <2>1, <2>2 DEF Core, StartOK
  <2> QED BY <1>2, <2>1, <2>3 DEF BufOK
<1>9. NoBufferLeak'
  <2> SUFFICES ASSUME NEW k \in buf' PROVE Starting(k)' \/ Life(k)' \notin {"off", "done"}
    BY DEF NoBufferLeak
  <2>1. CASE k = i
    BY <1>1, <1>2, <1>3, <2>1 DEF Starting, InStart, CallerMoves
  <2>2. CASE k # i
    <3>1. k \in buf /\ k \in Ids
      BY <1>2, <2>2 DEF MemTypeOK
    <3>2. Life(k)' = Life(k)
      BY <1>3, <3>1 DEF CallerMoves, Life
    <3>3. Starting(k) => Starting(k)'
      BY <1>1, <1>3, <2>2 DEF Starting, CallerMoves
    <3> QED BY <3>1, <3>2, <3>3 DEF BufOK, NoBufferLeak
  <2> QED BY <2>1, <2>2
<1> QED BY <1>2, <1>4, <1>6, <1>7, <1>8, <1>9 DEF BufOK

(* The count comes after the map entry.                                    *)
LEMMA BufAccount ==
  ASSUME Core, BufOK, MemTypeOK, NEW c \in Callers, Account(c)
  PROVE  BufOK'
<1>1. /\ pc[c] = "account" /\ totalBuf' = totalBuf + 1 /\ pc' = [pc EXCEPT ![c] = "spawn"]
      /\ UNCHANGED <<arg, used, buf>>
  BY DEF Account, Goto
<1>2. CallerMoves(c, "spawn")
  BY <1>1, GoesCaller
<1>3. Counting' = Counting \ {c} /\ c \in Counting
  BY <1>1, <1>2 DEF Counting, CallerMoves
<1>4. IsFiniteSet(Counting') /\ Cardinality(Counting') = Cardinality(Counting) - 1
  BY <1>3, FS_RemoveElement DEF BufOK
<1>5. BufferAccounting'
  <2>1. Cardinality(buf) \in Nat /\ Cardinality(Counting) \in Nat
    BY FS_CardinalityType DEF BufOK
  <2>2. totalBuf = Cardinality(buf) - Cardinality(Counting)
    BY DEF BufOK, BufferAccounting, Counting
  <2>3. totalBuf' = Cardinality(buf') - Cardinality(Counting')
    BY <1>1, <1>4, <2>1, <2>2
  <2> QED BY <2>3 DEF BufferAccounting, Counting
<1>6. \A d \in Callers : pc'[d] \in Early => pc[d] \in Early
  BY <1>2 DEF CallerMoves, Early
<1>7. NoBufferLeak'
  <2> SUFFICES ASSUME NEW k \in buf' PROVE Starting(k)' \/ Life(k)' \notin {"off", "done"}
    BY DEF NoBufferLeak
  <2>1. Life(k)' = Life(k)
    BY <1>1, <1>2 DEF CallerMoves, Life, MemTypeOK
  <2>2. Starting(k) => Starting(k)'
    BY <1>1, <1>2 DEF Starting, CallerMoves, InStart
  <2> QED BY <1>1, <2>1, <2>2 DEF BufOK, NoBufferLeak
<1> QED BY <1>1, <1>4, <1>5, <1>6, <1>7 DEF BufOK

LEMMA BufCallerNext ==
  ASSUME Core, BufOK, MemTypeOK, NEW c \in Callers, CallerCall(c) \/ CallerStep(c)
  PROVE  BufOK'
<1>0. arg \in [Callers -> Ids \cup {NoId}]
  BY DEF Core, StoreTypeOK
<1>1. CASE CallerCall(c)
  <2>1. PICK l \in {"persist", "check", "kstop", "delbuf", "rename", "reorder"} :
          /\ pc[c] = "idle" /\ pc' = [pc EXCEPT ![c] = l]
          /\ \A d \in Callers \ {c} : arg'[d] = arg[d]
          /\ used \subseteq used' /\ UNCHANGED <<buf, totalBuf>>
          /\ l = "persist" => arg'[c] \notin used
    <3>1. CASE \E i \in Ids : StartCall(c, i)
      BY <3>1, <1>0 DEF StartCall, Check, Begin, memVars
    <3>2. CASE \E i \in Ids : RestartCall(c, i) \/ StopCall(c, i) \/ DeleteCall(c, i)
      BY <3>2, <1>0 DEF RestartCall, StopCall, DeleteCall, Goto, memVars
    <3>3. CASE \/ \E i \in Ids : RenameCall(c, i)
               \/ \E order \in Orders, back \in 0..1 : ReorderCall(c, order, file.version - back)
      BY <3>3, <1>0 DEF RenameCall, ReorderCall, Begin, memVars
    <3> QED BY <1>1, <3>1, <3>2, <3>3 DEF CallerCall
  <2>2. CallerMoves(c, l)
    BY <2>1, GoesCaller
  <2>3. l \in Early => l = "persist"
    BY DEF Early
  <2> QED BY <2>1, <2>2, <2>3, BufCaller DEF InStart
<1>2. CASE \E i \in Ids : RestartCheck(c, i)
  <2>1. /\ pc[c] = "check" /\ pc' = [pc EXCEPT ![c] = "persist"]
        /\ arg'[c] \notin used /\ \A d \in Callers \ {c} : arg'[d] = arg[d]
        /\ used \subseteq used' /\ UNCHANGED <<buf, totalBuf>>
    BY <1>0, <1>2 DEF RestartCheck, Check, Begin, memVars
  <2> QED BY <2>1, GoesCaller, BufCaller DEF InStart
<1>3. CASE Alloc(c)
  <2>1. CASE NeedsBuffer(arg[c])
    BY <1>3, <2>1, BufAlloc
  <2>2. CASE ~NeedsBuffer(arg[c])
    <3>1. /\ pc[c] = "alloc" /\ pc' = [pc EXCEPT ![c] = "spawn"]
          /\ UNCHANGED <<arg, used, buf, totalBuf>>
      BY <1>3, <2>2 DEF Alloc, Goto
    <3> QED BY <3>1, GoesCaller, BufCaller DEF InStart, Early
  <2> QED BY <2>1, <2>2
<1>4. CASE Account(c)
  BY <1>4, BufAccount
<1>5. CASE Unspawn(c) \/ DeleteBuffer(c)
  <2>1. PICK l \in {"unstart", "delete"} :
          /\ pc[c] \in {"unspawn", "delbuf"} /\ pc' = [pc EXCEPT ![c] = l]
          /\ Drops(arg[c]) /\ UNCHANGED <<arg, used>>
    BY <1>5 DEF Unspawn, DeleteBuffer, DropBuffer, Drops, Begin
  <2> QED BY <2>1, GoesCaller, BufCaller DEF Early
<1>6. CASE RestartRefused(c) \/ KindStop(c) \/ KindStopped(c) \/ Join(c) \/ Unrun(c)
  <2>1. PICK l \in {"idle", "kwait", "join", "stopped"} :
          /\ pc[c] \in {"check", "kstop", "kwait", "join", "unrun"} /\ pc' = [pc EXCEPT ![c] = l]
          /\ UNCHANGED <<arg, used, buf, totalBuf>>
    BY <1>6 DEF RestartRefused, KindStop, KindStopped, Join, Unrun, Goto, Begin, memVars
  <2> QED BY <2>1, GoesCaller, BufCaller DEF InStart, Early
<1>7. CASE SpawnFails(c) \/ Publish(c)
  <2>1. PICK l \in {"unspawn", "setpid"} :
          /\ pc[c] \in {"spawn", "publish"} /\ pc' = [pc EXCEPT ![c] = l]
          /\ UNCHANGED <<arg, used, buf, totalBuf>>
    BY <1>7 DEF SpawnFails, Publish, Goto, Begin, memVars
  <2> QED BY <2>1, GoesCaller, BufCaller DEF InStart, Early
<1>8. CASE Spawn(c)
  <2>1. /\ pc[c] = "spawn" /\ UNCHANGED <<arg, used, buf, totalBuf>>
        /\ pc' = [g \in Goroutines |->
                    IF g = c THEN "publish"
                    ELSE IF g \in KindGors /\ g[2] = arg[c] THEN "serve" ELSE pc[g]]
    BY <1>8 DEF Spawn, memVars
  <2>2. CallerMoves(c, "publish")
    BY <2>1, Gors DEF CallerMoves
  <2> QED BY <2>1, <2>2, BufCaller DEF InStart, Early
<1>9. CASE Register(c)
  <2> DEFINE l == IF old[c] = NoId THEN "idle" ELSE "link"
  <2>1. PICK i \in Ids : i = arg[c]
    BY <1>9 DEF Register, Core, StartOK
  <2>2. /\ pc[c] = "register" /\ pc' = [pc EXCEPT ![c] = l, ![Gor("life", i)] = "wait"]
        /\ UNCHANGED <<arg, used, buf, totalBuf>>
    BY <1>9, <2>1 DEF Register
  <2>3. /\ pc'[c] = l /\ \A d \in Callers \ {c} : pc'[d] = pc[d]
        /\ Life(i)' = "wait" /\ \A k \in Ids \ {i} : Life(k)' = Life(k)
    BY <2>2, Gors DEF Core, StoreTypeOK, Life
  <2>4. Counting' = Counting
    <3>1. \A d \in Callers : pc'[d] = "account" <=> pc[d] = "account"
      <4>1. l # "account" /\ pc[c] # "account"
        BY <2>2
      <4> HIDE DEF l
      <4> QED BY <2>3, <4>1
    <3> QED BY <3>1 DEF Counting
  <2>5. \A k \in buf' : Kept(k)
    <3> TAKE k \in buf'
    <3>1. CASE k = i
      BY <2>3, <3>1 DEF Kept
    <3>2. CASE k # i
      <4>1. Life(k)' = Life(k)
        BY <2>2, <2>3, <3>2 DEF MemTypeOK
      <4>2. Starting(k) => Starting(k)'
        BY <2>1, <2>2, <2>3, <3>2 DEF Starting
      <4> QED BY <4>1, <4>2 DEF Kept
    <3> QED BY <3>1, <3>2
  <2>6. \A d \in Callers : pc'[d] \in Early => pc[d] \in Early
    BY <2>3 DEF Early
  <2> QED BY <2>2, <2>4, <2>5, <2>6, BufFrame
<1> QED BY <1>1, <1>2, <1>3, <1>4, <1>5, <1>6, <1>7, <1>8, <1>9 DEF CallerStep

(* Every step keeps the buffers and their counter.                         *)
LEMMA BufOKNext ==
  ASSUME Core, WritersOK, BufOK, MemTypeOK, [Next]_vars
  PROVE  BufOK'
<1>1. ASSUME NEW i \in Ids, LifeStep(i) \/ LifeTimeout(i) PROVE BufOK'
  <2>1. PICK l \in {"up", "down", "drop", "done"} :
          /\ pc' = [pc EXCEPT ![Gor("life", i)] = l] /\ UNCHANGED <<arg, used>>
          /\ \/ UNCHANGED <<buf, totalBuf>> /\ l # "done"
             \/ Drops(i)
    <3>1. CASE LifeReady(i) \/ LifeTimeout(i) \/ LifePoll(i)
      BY <3>1 DEF LifeReady, LifeTimeout, LifePoll, Begin, memVars
    <3>2. CASE LifeUnrun(i) \/ LifeCancelled(i)
      BY <3>2 DEF LifeUnrun, LifeCancelled, Goto, memVars
    <3>3. CASE LifeDrop(i)
      BY <3>3 DEF LifeDrop, Goto, DropBuffer, Drops
    <3> QED BY <1>1, <3>1, <3>2, <3>3 DEF LifeStep
  <2> QED BY <2>1, GoesLife, BufLife
<1>2. ASSUME NEW i \in WebIds, PumpAddr(i) \/ HealthFails(i) \/ WebStep(i) PROVE BufOK'
  <2>1. PICK r, l : r \in {"pump", "health", "wait"} /\ pc' = [pc EXCEPT ![Gor(r, i)] = l]
    BY <1>2 DEF PumpAddr, HealthFails, WebStep, PumpReady, WaitReap, Goto, Begin
  <2>2. UNCHANGED <<arg, used, buf, totalBuf>>
    BY <1>2 DEF PumpAddr, HealthFails, WebStep, PumpReady, WaitReap, memVars
  <2>3. /\ \A c \in Callers : pc'[c] = pc[c]
        /\ \A k \in Ids : pc'[Gor("life", k)] = pc[Gor("life", k)]
    BY <2>1, Gors DEF Core, StoreTypeOK
  <2>4. Counting' = Counting
    BY <2>3 DEF Counting
  <2>5. \A k \in buf' : Kept(k)
    BY <2>2, <2>3 DEF Kept, Starting, Life, MemTypeOK
  <2> QED BY <2>2, <2>3, <2>4, <2>5, BufFrame
<1>3. CASE UNCHANGED <<pc, arg, used, buf, totalBuf>>
  BY <1>3 DEF BufOK, Counting, BufferAccounting, NoBufferLeak, Starting, Life
<1>4. ASSUME NEW i \in Ids, ProcExit(i) PROVE BufOK'
  BY <1>3, <1>4 DEF ProcExit, memVars
<1>5. CASE UNCHANGED vars
  BY <1>3, <1>5 DEF vars, memVars
<1> QED BY <1>1, <1>2, <1>4, <1>5, BufStore, BufCallerNext DEF Next

----------------------------------------------------------------------------
(***************************************************************************)
(* The records.                                                            *)
(***************************************************************************)
(* The record of a PTY is settled: it says the instance is over, or is     *)
(* gone, or the write that would have said so was given up.                *)
Settled(i) == file.rec[i].status \notin Live \/ i \in gaveUp
Waited(i)  == \E c \in Callers : arg[c] = i /\ pc[c] \in {"join", "stopped"}
Rising(i)  == Life(i) \in {"wait", "up"} \/ \E c \in Callers : arg[c] = i /\ pc[c] \in BeforeLife
Over(i)    == Life(i) \in {"unrun", "drop", "done"}
PtyOK(i) ==
  /\ Over(i) => Settled(i) \/ Waited(i)
  /\ Rising(i) => file.rec[i].status \notin Terminal
WebOK(i) ==
  /\ file.rec[i].status = "stopped" => pc[Gor("wait", i)] = "done"
  /\ Waited(i) => pc[Gor("wait", i)] = "done"
RecordsOK == (\A i \in Ids \ WebIds : PtyOK(i)) /\ (\A i \in WebIds : WebOK(i))

(* What a load or a save does to statuses and to the edit that ends.       *)
LEMMA StoreSteps ==
  ASSUME Core, NEW g \in Goroutines, Load(g) \/ Save(g)
  PROVE  /\ arg' = arg /\ gaveUp \subseteq gaveUp' /\ job[g].op # "none" /\ pc[g] \in LoopLabels
         /\ \A i \in Ids :
              \/ file'.rec[i].status \in {file.rec[i].status, "none"}
              \/ job[g].op = "append" /\ i = job[g].id /\ file'.rec[i].status = "starting"
              \/ job[g].op = "status" /\ i = job[g].id /\ file'.rec[i].status = job[g].status
         /\ \/ UNCHANGED pc
            \/ /\ \E res : pc' = [pc EXCEPT ![g] = After(pc[g], res)]
               /\ job[g].op = "status" /\ job[g].id \in Ids =>
                    \/ file'.rec[job[g].id].status \in {job[g].status, "none"}
                    \/ job[g].id \in gaveUp'
<1>1. /\ arg' = arg /\ gaveUp \subseteq gaveUp' /\ job[g].op # "none" /\ pc[g] \in LoopLabels
      /\ job[g] \in Jobs
  BY DEF Load, Save, Commit, Conflict, Core, SnapOK, JobOK, StoreTypeOK
<1>2. UNCHANGED pc \/ \E res : pc' = [pc EXCEPT ![g] = After(pc[g], res)]
  BY DEF Load, Save, Commit, Conflict, Leave, Begin
<1>3. CASE Load(g)
  <2>1. file' = file
    BY <1>3 DEF Load
  <2>2. CASE Applicable(job[g], file)
    BY <1>1, <1>3, <2>1, <2>2 DEF Load
  <2>3. CASE ~Applicable(job[g], file)
    <3>1. job[g].op = "status" /\ job[g].id \in Ids => file.rec[job[g].id].status = "none"
      BY <2>3 DEF Applicable, Present
    <3> QED BY <1>1, <1>2, <2>1, <3>1
  <2> QED BY <2>2, <2>3
<1>4. CASE Save(g) /\ Conflict(g)
  <2>1. file' = file
    BY <1>4 DEF Conflict
  <2>2. CASE UNCHANGED pc
    BY <1>1, <2>1, <2>2
  <2>3. CASE ~UNCHANGED pc
    <3>1. job[g].op = "status" => job[g].id \in gaveUp'
      BY <1>4, <2>3 DEF Conflict
    <3> QED BY <1>1, <1>2, <2>1, <3>1
  <2> QED BY <2>2, <2>3
<1>5. CASE Save(g) /\ Commit(g)
  <2>1. snap[g] = file /\ file' = Edit(job[g], file) /\ Applicable(job[g], file)
    <3>1. snap[g] = file
      BY <1>5, CommitFresh DEF Save, Commit
    <3> QED BY <1>5, <3>1 DEF Save, Commit, Core, SnapOK
  <2>2. file.rec \in [Ids -> Records]
    BY DEF Core, StoreTypeOK, Tables
  <2>3. \A i \in Ids :
          \/ file'.rec[i].status \in {file.rec[i].status, "none"}
          \/ job[g].op = "append" /\ i = job[g].id /\ file'.rec[i].status = "starting"
          \/ job[g].op = "status" /\ i = job[g].id /\ file'.rec[i].status = job[g].status
    <3> TAKE i \in Ids
    <3>1. CASE job[g].op = "append"
      BY <2>1, <2>2, <3>1 DEF Edit, AddRec, Write
    <3>2. CASE job[g].op = "status"
      <4>1. file'.rec = [file.rec EXCEPT ![job[g].id].status = job[g].status]
        BY <2>1, <3>2 DEF Edit, SetStatus, Write
      <4>2. CASE i = job[g].id
        <5>1. file.rec[i] \in Records
          BY <2>2
        <5>2. [file.rec[i] EXCEPT !.status = job[g].status].status = job[g].status
          BY <5>1 DEF Records, NoRec
        <5> QED BY <2>2, <3>2, <4>1, <4>2, <5>2
      <4>3. CASE i # job[g].id
        BY <2>2, <4>1, <4>3
      <4> QED BY <4>2, <4>3
    <3>3. CASE job[g].op \in {"touch", "reorder"}
      BY <2>1, <3>3 DEF Edit, Touch, SetTabs, Write
    <3>4. CASE job[g].op = "remove"
      BY <2>1, <2>2, <3>4 DEF Edit, DropRec, Write, NoRec
    <3>5. CASE job[g].op = "link"
      <4>1. file'.rec[i] = IF i = job[g].from THEN NoRec
                           ELSE IF i = job[g].id THEN [file.rec[i] EXCEPT !.from = job[g].from]
                           ELSE file.rec[i]
        BY <2>1, <3>5 DEF Edit, Replace, Write
      <4>2. [file.rec[i] EXCEPT !.from = job[g].from].status = file.rec[i].status
        BY <2>2 DEF Records, NoRec
      <4> QED BY <4>1, <4>2 DEF NoRec
    <3> QED BY <1>1, <3>1, <3>2, <3>3, <3>4, <3>5 DEF Jobs
  <2>4. job[g].op = "status" /\ job[g].id \in Ids =>
          file'.rec[job[g].id].status \in {job[g].status, "none"}
    <3> SUFFICES ASSUME job[g].op = "status", job[g].id \in Ids
                 PROVE  file'.rec[job[g].id].status = job[g].status
      OBVIOUS
    <3>1. file'.rec = [file.rec EXCEPT ![job[g].id].status = job[g].status]
      BY <2>1 DEF Edit, SetStatus, Write
    <3>2. [file.rec[job[g].id] EXCEPT !.status = job[g].status].status = job[g].status
      BY <2>2 DEF Records, NoRec
    <3> QED BY <2>2, <3>1, <3>2
  <2> QED BY <1>1, <1>2, <2>3, <2>4
<1> QED BY <1>3, <1>4, <1>5 DEF Save

(* A load or a save writes a status over another only as Writer allows.    *)
LEMMA WhoWrites ==
  ASSUME Core, WritersOK, NEW g \in Goroutines, Load(g) \/ Save(g), NEW i \in Ids,
         file'.rec[i].status \notin {file.rec[i].status, "none"}
  PROVE  \/ /\ file.rec[i].status = "none" /\ file'.rec[i].status = "starting"
            /\ g \in Callers /\ arg[g] = i /\ pc[g] = "persist"
         \/ Writes(g, i, file'.rec[i].status)
<1>1. \/ job[g].op = "append" /\ i = job[g].id /\ file'.rec[i].status = "starting"
      \/ job[g].op = "status" /\ i = job[g].id /\ file'.rec[i].status = job[g].status
  BY StoreSteps
<1>2. job[g].op = "append" /\ i = job[g].id =>
        file.rec[i].status = "none" /\ g \in Callers /\ arg[g] = i /\ pc[g] = "persist"
  BY DEF Core, JobOK, StartOK, Present
<1>3. job[g].op = "status" /\ i = job[g].id => Writes(g, i, job[g].status)
  BY DEF WritersOK, Writer
<1> QED BY <1>1, <1>2, <1>3

(* Loads and saves keep the record of a PTY behind its lifecycle.          *)
LEMMA PtyStore ==
  ASSUME Core, WritersOK, LifeOK, NEW i \in Ids \ WebIds, PtyOK(i),
         NEW g \in Goroutines, Load(g) \/ Save(g)
  PROVE  PtyOK(i)'
<1> DEFINE s == file'.rec[i].status
           w == Gor("life", i)
<1>1. /\ arg' = arg /\ gaveUp \subseteq gaveUp' /\ pc[g] \in LoopLabels
      /\ \A h \in Goroutines \ {g} : pc'[h] = pc[h]
      /\ pc'[g] = pc[g] \/ \E res : pc'[g] = After(pc[g], res)
  BY StoreSteps DEF Core, StoreTypeOK
<1>2. w \in Goroutines /\ w \notin Callers /\ Life(i) \in LifeLabels /\ Callers \subseteq Goroutines
  BY Gors DEF WritersOK, PlacesOK
<1>3. /\ pc'[w] \in {"wait", "up"} => Life(i) \in {"wait", "up"}
      /\ pc'[w] \in {"unrun", "drop", "done"} =>
           Over(i) \/ (g = w /\ Life(i) = "down" /\ pc'[g] # pc[g])
  BY <1>1, <1>2 DEF Life, Over, After, NextLabel, LoopLabels, LifeLabels
<1>4. \A c \in Callers : pc'[c] \in BeforeLife => pc[c] \in BeforeLife
  BY <1>1, <1>2, AfterLabels
<1>5. ASSUME Rising(i)' PROVE s \notin Terminal
  <2>1. Rising(i)
    BY <1>1, <1>3, <1>4, <1>5 DEF Rising, Life
  <2>2. file.rec[i].status \notin Terminal
    BY <2>1 DEF PtyOK
  <2>3. \A d \in Callers : pc[d] \in BeforeLife /\ arg[d] = i => Life(i) = "off"
    BY DEF Core, StartOK, Life
  <2>4. Writes(g, i, s) => s \notin Terminal
    <3> SUFFICES ASSUME Writes(g, i, s), s \in Terminal PROVE FALSE
      OBVIOUS
    <3>1. CASE g \in Callers /\ i = arg[g] /\ pc[g] = "unstart"
      BY <2>1, <3>1 DEF LifeOK, UnstartOK, Rising
    <3>2. CASE g \in Callers /\ i = arg[g] /\ pc[g] = "stopped"
      BY <2>1, <2>3, <3>2 DEF LifeOK, StopOK, Rising
    <3>3. CASE g = w /\ pc[g] = "down"
      BY <2>1, <2>3, <3>3 DEF Life, Rising
    <3> QED BY <3>1, <3>2, <3>3 DEF Writes, Terminal
  <2>5. CASE s \in {file.rec[i].status, "none"}
    BY <2>2, <2>5 DEF Terminal
  <2>6. CASE s \notin {file.rec[i].status, "none"}
    BY <2>4, <2>6, WhoWrites DEF Terminal
  <2> QED BY <2>5, <2>6
<1>6. ASSUME Over(i)' PROVE Settled(i)' \/ Waited(i)'
  <2>1. CASE g = w /\ Life(i) = "down" /\ pc'[g] # pc[g]
    <3>1. job[g].op = "status" /\ job[g].id = i /\ Ends(i, job[g].status)
      BY <1>2, <2>1, Roles DEF WritersOK, Writer, Writes, Life
    <3>2. s \in {job[g].status, "none"} \/ i \in gaveUp'
      BY <2>1, <3>1, StoreSteps
    <3> QED BY <3>1, <3>2 DEF Settled, Ends, Terminal, Live
  <2>2. CASE Over(i)
    <3>1. CASE Settled(i)
      <4>1. s \in Live => s = file.rec[i].status
        <5> SUFFICES ASSUME s \in Live, s # file.rec[i].status PROVE FALSE
          OBVIOUS
        <5>1. s \notin {file.rec[i].status, "none"}
          BY DEF Live
        <5>2. Life(i) # "off" /\ Life(i) # "up"
          BY <2>2 DEF Over
        <5>3. ~(g \in Callers /\ arg[g] = i /\ pc[g] = "persist")
          BY <5>2 DEF Core, StartOK, BeforeLife, BeforeSpawn, Life
        <5>4. Writes(g, i, s)
          BY <5>1, <5>3, WhoWrites
        <5> QED BY <5>2, <5>4 DEF Writes, Ends, Terminal, Live, Life
      <4> QED BY <1>1, <3>1, <4>1 DEF Settled
    <3>2. CASE Waited(i)
      <4>1. PICK c \in Callers : arg[c] = i /\ pc[c] \in {"join", "stopped"}
        BY <3>2 DEF Waited
      <4>2. CASE pc'[c] = pc[c]
        BY <1>1, <4>1, <4>2 DEF Waited
      <4>3. CASE pc'[c] # pc[c]
        <5>1. g = c /\ pc[g] = "stopped"
          BY <1>1, <1>2, <4>1, <4>3 DEF LoopLabels, NextLabel
        <5>2. job[g].op = "status" /\ job[g].id = i /\ Writes(g, i, job[g].status)
          BY <4>1, <5>1 DEF WritersOK, Writer
        <5>3. job[g].status = "stopped"
          BY <5>1, <5>2, <1>2 DEF Writes
        <5>4. s \in {"stopped", "none"} \/ i \in gaveUp'
          BY <4>3, <5>1, <5>2, <5>3, StoreSteps
        <5> QED BY <5>4 DEF Settled, Live
      <4> QED BY <4>2, <4>3
    <3> QED BY <2>2, <3>1, <3>2 DEF PtyOK
  <2> QED BY <1>3, <1>6, <2>1, <2>2 DEF Over, Life
<1> QED BY <1>5, <1>6 DEF PtyOK

(* Loads and saves keep "stopped" behind the end of wait.                  *)
LEMMA WebStore ==
  ASSUME Core, WritersOK, LifeOK, NEW i \in WebIds, WebOK(i),
         NEW g \in Goroutines, Load(g) \/ Save(g)
  PROVE  WebOK(i)'
<1> DEFINE s == file'.rec[i].status
           w == Gor("wait", i)
<1>1. /\ arg' = arg /\ pc[g] \in LoopLabels
      /\ \A h \in Goroutines \ {g} : pc'[h] = pc[h]
      /\ pc'[g] = pc[g] \/ \E res : pc'[g] = After(pc[g], res)
  BY StoreSteps DEF Core, StoreTypeOK
<1>2. w \in Goroutines /\ w \notin Callers /\ i \in Ids /\ Callers \subseteq Goroutines
  BY Gors, WebIdsAssumption
<1>3. pc[w] = "done" => pc'[w] = "done"
  BY <1>1, <1>2 DEF LoopLabels, NextLabel
<1>4. ASSUME s = "stopped" PROVE pc[w] = "done"
  <2>1. CASE file.rec[i].status = "stopped"
    BY <2>1 DEF WebOK
  <2>2. CASE file.rec[i].status # "stopped"
    <3>1. Writes(g, i, s)
      BY <1>2, <1>4, <2>2, WhoWrites
    <3>2. g \in Callers /\ i = arg[g] /\ pc[g] = "stopped"
      BY <1>4, <3>1 DEF Writes, Ends
    <3> QED BY <3>2 DEF WebOK, Waited
  <2> QED BY <2>1, <2>2
<1>5. ASSUME Waited(i)' PROVE pc[w] = "done"
  <2>1. PICK c \in Callers : arg[c] = i /\ pc'[c] \in {"join", "stopped"}
    BY <1>1, <1>5 DEF Waited
  <2>2. pc[c] = pc'[c]
    BY <1>1, <1>2, <2>1 DEF After, NextLabel, LoopLabels
  <2> QED BY <2>1, <2>2 DEF WebOK, Waited
<1> QED BY <1>3, <1>4, <1>5 DEF WebOK

(* Steps that leave the records alone.                                     *)
LEMMA RecordsFrame ==
  ASSUME Core, RecordsOK, UNCHANGED <<file, gaveUp>>,
         \A i \in Ids : Waited(i) => Waited(i)',
         \A i \in Ids : Over(i)' => Over(i) \/ Waited(i)',
         \A i \in Ids : Rising(i)' => Rising(i) \/ i \notin used,
         \A i \in WebIds : pc[Gor("wait", i)] = "done" => pc'[Gor("wait", i)] = "done",
         \A i \in WebIds : Waited(i)' => Waited(i) \/ pc[Gor("wait", i)] = "done"
  PROVE  RecordsOK'
<1>1. ASSUME NEW i \in Ids \ WebIds PROVE PtyOK(i)'
  <2>1. i \notin used => file.rec[i].status \notin Terminal
    BY DEF Core, FreshOK, Present, Terminal
  <2> QED BY <2>1 DEF RecordsOK, PtyOK, Settled
<1>2. ASSUME NEW i \in WebIds PROVE WebOK(i)'
  <2>1. i \in Ids
    BY WebIdsAssumption
  <2> QED BY <2>1 DEF RecordsOK, WebOK
<1> QED BY <1>1, <1>2 DEF RecordsOK

LEMMA RecordsCaller ==
  ASSUME Core, RecordsOK, NEW c \in Callers, NEW l, CallerMoves(c, l), UNCHANGED <<file, gaveUp>>,
         l \in BeforeLife => arg'[c] \notin used \/ (pc[c] \in BeforeLife /\ arg'[c] = arg[c]),
         pc[c] \in {"join", "stopped"} => l \in {"join", "stopped"} /\ arg'[c] = arg[c],
         l \in {"join", "stopped"} =>
           /\ pc[c] \in {"kwait", "join", "stopped"} /\ arg'[c] = arg[c]
           /\ pc[c] = "kwait" /\ arg[c] \in WebIds => pc[Gor("wait", arg[c])] = "done",
         \A i \in WebIds : pc[Gor("wait", i)] = "done" => pc'[Gor("wait", i)] = "done"
  PROVE  RecordsOK'
<1>1. \A i \in Ids : Waited(i) => Waited(i)'
  <2> SUFFICES ASSUME NEW d \in Callers, pc[d] \in {"join", "stopped"} PROVE Waited(arg[d])
                 /\ arg'[d] = arg[d] /\ pc'[d] \in {"join", "stopped"}
    BY DEF Waited
  <2> QED BY DEF Waited, CallerMoves
<1>2. \A i \in Ids : Over(i)' => Over(i)
  BY DEF Over, Life, CallerMoves
<1>3. \A i \in Ids : Rising(i)' => Rising(i) \/ i \notin used
  BY DEF Rising, Life, CallerMoves
<1>4. \A i \in WebIds : Waited(i)' => Waited(i) \/ pc[Gor("wait", i)] = "done"
  <2> SUFFICES ASSUME NEW i \in WebIds, NEW d \in Callers, arg'[d] = i,
                      pc'[d] \in {"join", "stopped"}
               PROVE  Waited(i) \/ pc[Gor("wait", i)] = "done"
    BY DEF Waited
  <2>1. CASE d = c
    BY <2>1 DEF CallerMoves, Waited
  <2>2. CASE d # c
    BY <2>2 DEF CallerMoves, Waited
  <2> QED BY <2>1, <2>2
<1> QED BY <1>1, <1>2, <1>3, <1>4, RecordsFrame

(* Of the goroutines of the kinds wait alone matters.                      *)
LEMMA WaitsStay ==
  ASSUME Core, NEW g \in Goroutines, NEW l, pc' = [pc EXCEPT ![g] = l],
         \A i \in WebIds : g # Gor("wait", i)
  PROVE  \A i \in WebIds : pc'[Gor("wait", i)] = pc[Gor("wait", i)]
BY Gors DEF Core, StoreTypeOK

LEMMA RecordsCallerNext ==
  ASSUME Core, RecordsOK, NEW c \in Callers, CallerCall(c) \/ CallerStep(c)
  PROVE  RecordsOK'
<1>0. /\ c \in Goroutines /\ \A i \in WebIds : c # Gor("wait", i)
      /\ arg \in [Callers -> Ids \cup {NoId}]
  BY Gors DEF Core, StoreTypeOK
<1>1. UNCHANGED <<file, gaveUp>>
  BY DEF CallerCall, StartCall, RestartCall, StopCall, DeleteCall, RenameCall, ReorderCall,
         CallerStep, RestartCheck, RestartRefused, Alloc, Account, Spawn, SpawnFails, Unspawn,
         Publish, Register, KindStop, KindStopped, Join, Unrun, DeleteBuffer, storeIdle
<1>2. CASE CallerCall(c) \/ \E i \in Ids : RestartCheck(c, i)
  <2>1. PICK l \in {"persist", "check", "kstop", "delbuf", "rename", "reorder"} :
          /\ pc[c] \in {"idle", "check"} /\ pc' = [pc EXCEPT ![c] = l]
          /\ \A d \in Callers \ {c} : arg'[d] = arg[d]
          /\ l = "persist" => arg'[c] \notin used
    <3>1. CASE \E i \in Ids : StartCall(c, i) \/ RestartCheck(c, i)
      BY <3>1, <1>0 DEF StartCall, RestartCheck, Check, Begin
    <3>2. CASE \E i \in Ids : RestartCall(c, i) \/ StopCall(c, i) \/ DeleteCall(c, i)
      BY <3>2, <1>0 DEF RestartCall, StopCall, DeleteCall, Goto
    <3>3. CASE \/ \E i \in Ids : RenameCall(c, i)
               \/ \E order \in Orders, back \in 0..1 : ReorderCall(c, order, file.version - back)
      BY <3>3, <1>0 DEF RenameCall, ReorderCall, Begin
    <3> QED BY <1>2, <3>1, <3>2, <3>3 DEF CallerCall
  <2>2. CallerMoves(c, l)
    BY <2>1, GoesCaller
  <2>3. l \in BeforeLife => l = "persist"
    BY DEF BeforeLife, BeforeSpawn
  <2>4. \A i \in WebIds : pc'[Gor("wait", i)] = pc[Gor("wait", i)]
    BY <1>0, <2>1, WaitsStay
  <2> QED BY <1>1, <2>1, <2>2, <2>3, <2>4, RecordsCaller
<1>3. CASE \/ RestartRefused(c) \/ Alloc(c) \/ Account(c) \/ SpawnFails(c) \/ Unspawn(c)
           \/ Publish(c) \/ KindStop(c) \/ Unrun(c) \/ DeleteBuffer(c)
  <2>1. PICK l \in {"idle", "account", "spawn", "unspawn", "unstart", "setpid", "kwait", "delete"} :
          /\ pc' = [pc EXCEPT ![c] = l] /\ arg' = arg
          /\ pc[c] \notin {"join", "stopped"}
          /\ l \in {"account", "spawn", "setpid"} => pc[c] \in BeforeLife
    <3>1. CASE RestartRefused(c) \/ Alloc(c) \/ Account(c) \/ SpawnFails(c)
      BY <3>1 DEF RestartRefused, Alloc, Account, SpawnFails, Goto, BeforeLife, BeforeSpawn
    <3>2. CASE Unspawn(c) \/ Publish(c) \/ KindStop(c) \/ Unrun(c) \/ DeleteBuffer(c)
      BY <3>2 DEF Unspawn, Publish, KindStop, Unrun, DeleteBuffer, Goto, Begin,
                  BeforeLife, BeforeSpawn
    <3> QED BY <1>3, <3>1, <3>2
  <2>2. CallerMoves(c, l)
    BY <2>1, GoesCaller
  <2>3. l \in BeforeLife => pc[c] \in BeforeLife /\ arg'[c] = arg[c]
    BY <2>1 DEF BeforeLife, BeforeSpawn
  <2>4. \A i \in WebIds : pc'[Gor("wait", i)] = pc[Gor("wait", i)]
    BY <1>0, <2>1, WaitsStay
  <2> QED BY <1>1, <2>1, <2>2, <2>3, <2>4, RecordsCaller
<1>4. CASE KindStopped(c) \/ Join(c)
  <2>1. PICK l \in {"join", "stopped"} :
          /\ pc' = [pc EXCEPT ![c] = l] /\ arg' = arg
          /\ pc[c] \in {"kwait", "join"}
          /\ pc[c] = "kwait" /\ arg[c] \in WebIds => pc[Gor("wait", arg[c])] = "done"
    BY <1>4 DEF KindStopped, Join, Goto, Begin
  <2>2. CallerMoves(c, l)
    BY <2>1, GoesCaller
  <2>3. \A i \in WebIds : pc'[Gor("wait", i)] = pc[Gor("wait", i)]
    BY <1>0, <2>1, WaitsStay
  <2> QED BY <1>1, <2>1, <2>2, <2>3, RecordsCaller DEF BeforeLife, BeforeSpawn
<1>5. CASE Spawn(c)
  <2>1. /\ pc[c] = "spawn" /\ arg' = arg
        /\ pc' = [g \in Goroutines |->
                    IF g = c THEN "publish"
                    ELSE IF g \in KindGors /\ g[2] = arg[c] THEN "serve" ELSE pc[g]]
    BY <1>5 DEF Spawn
  <2>2. CallerMoves(c, "publish")
    BY <2>1, Gors DEF CallerMoves
  <2>3. \A g \in KindGors : g[2] = arg[c] => pc[g] = "off"
    BY <2>1 DEF Core, StartOK, BeforeSpawn
  <2>4. \A i \in WebIds : pc[Gor("wait", i)] = "done" => pc'[Gor("wait", i)] = "done"
    BY <1>0, <2>1, <2>3, Gors
  <2> QED BY <1>1, <2>1, <2>2, <2>4, RecordsCaller DEF BeforeLife, BeforeSpawn
<1>6. CASE Register(c)
  <2> DEFINE l == IF old[c] = NoId THEN "idle" ELSE "link"
  <2>1. PICK i \in Ids : i = arg[c]
    BY <1>6 DEF Register, Core, StartOK
  <2>2. /\ pc[c] = "register" /\ pc' = [pc EXCEPT ![c] = l, ![Gor("life", i)] = "wait"]
        /\ arg' = arg
    BY <1>6, <2>1 DEF Register
  <2>3. /\ pc'[c] = l /\ \A d \in Callers \ {c} : pc'[d] = pc[d]
        /\ pc'[Gor("life", i)] = "wait"
        /\ \A k \in Ids \ {i} : pc'[Gor("life", k)] = pc[Gor("life", k)]
        /\ \A k \in WebIds : pc'[Gor("wait", k)] = pc[Gor("wait", k)]
    BY <2>2, Gors DEF Core, StoreTypeOK
  <2>4. l \notin BeforeLife \cup {"join", "stopped"}
    BY DEF BeforeLife, BeforeSpawn
  <2>5. Rising(i)
    BY <2>1, <2>2 DEF Rising, BeforeLife
  <2> HIDE DEF l
  <2>6. \A k \in Ids : (Waited(k) <=> Waited(k)') /\ (Over(k)' => Over(k))
    BY <2>2, <2>3, <2>4 DEF Waited, Over, Life
  <2>7. \A k \in Ids : Rising(k)' => Rising(k)
    BY <2>2, <2>3, <2>4, <2>5 DEF Rising, Life
  <2>8. WebIds \subseteq Ids
    BY WebIdsAssumption
  <2> QED BY <1>1, <2>3, <2>6, <2>7, <2>8, RecordsFrame
<1> QED BY <1>2, <1>3, <1>4, <1>5, <1>6 DEF CallerStep

(* Every step keeps the records.                                           *)
LEMMA RecordsNext ==
  ASSUME Core, MemTypeOK, WritersOK, LifeOK, RecordsOK, [Next]_vars
  PROVE  RecordsOK'
<1>1. ASSUME NEW g \in Goroutines, Load(g) \/ Save(g) PROVE RecordsOK'
  BY <1>1, PtyStore, WebStore DEF RecordsOK
<1>2. ASSUME NEW i \in Ids, LifeStep(i) \/ LifeTimeout(i) PROVE RecordsOK'
  <2>1. PICK l \in {"up", "down", "drop", "done"} :
          /\ pc' = [pc EXCEPT ![Gor("life", i)] = l] /\ UNCHANGED <<file, gaveUp, arg>>
          /\ l = "up" => Life(i) = "wait"
          /\ l \in {"drop", "done"} => Over(i) \/ (i \in cancelled /\ Life(i) # "done")
    <3>1. CASE LifeReady(i) \/ LifeTimeout(i) \/ LifePoll(i)
      BY <3>1 DEF LifeReady, LifeTimeout, LifePoll, Begin, storeIdle, Life
    <3>2. CASE LifeUnrun(i) \/ LifeCancelled(i) \/ LifeDrop(i)
      BY <3>2 DEF LifeUnrun, LifeCancelled, LifeDrop, Goto, storeIdle, Life, Over
    <3> QED BY <1>2, <3>1, <3>2 DEF LifeStep
  <2>2. LifeMoves(i, l)
    BY <2>1, GoesLife
  <2>3. \A k \in WebIds : pc'[Gor("wait", k)] = pc[Gor("wait", k)]
    BY <2>1, WaitsStay, Roles, Gors
  <2>4. \A k : Waited(k) <=> Waited(k)'
    BY <2>2 DEF Waited, LifeMoves
  <2>5. \A k \in Ids : Over(k)' => Over(k) \/ Waited(k)'
    <3> TAKE k \in Ids
    <3>1. CASE k = i
      <4>1. i \in cancelled /\ Life(i) # "done" => Waited(i)
        BY DEF LifeOK, Joined, Waited
      <4> QED BY <2>1, <2>2, <2>4, <3>1, <4>1 DEF LifeMoves, Over, Life
    <3>2. CASE k # i
      BY <2>2, <3>2 DEF LifeMoves, Over, Life
    <3> QED BY <3>1, <3>2
  <2>6. \A k \in Ids : Rising(k)' => Rising(k)
    BY <2>1, <2>2 DEF LifeMoves, Rising, Life
  <2>7. WebIds \subseteq Ids
    BY WebIdsAssumption
  <2> QED BY <2>1, <2>3, <2>4, <2>5, <2>6, <2>7, RecordsFrame
<1>3. ASSUME NEW i \in WebIds, PumpAddr(i) \/ HealthFails(i) \/ WebStep(i) PROVE RecordsOK'
  <2>1. PICK r, l :
          /\ r \in {"pump", "health", "wait"}
          /\ pc[Gor(r, i)] # "done" /\ pc' = [pc EXCEPT ![Gor(r, i)] = l]
    BY <1>3 DEF PumpAddr, HealthFails, WebStep, PumpReady, WaitReap, Goto, Begin
  <2>2. UNCHANGED <<arg, file, gaveUp>>
    BY <1>3 DEF PumpAddr, HealthFails, WebStep, PumpReady, WaitReap, storeIdle
  <2>3. /\ \A c \in Callers : pc'[c] = pc[c]
        /\ \A k \in Ids : pc'[Gor("life", k)] = pc[Gor("life", k)]
        /\ \A k \in WebIds : pc[Gor("wait", k)] = "done" => pc'[Gor("wait", k)] = "done"
    BY <2>1, Gors DEF Core, StoreTypeOK
  <2>4. \A k \in Ids : /\ (Waited(k) <=> Waited(k)') /\ (Over(k) <=> Over(k)')
                       /\ (Rising(k) <=> Rising(k)')
    BY <2>2, <2>3 DEF Waited, Over, Rising, Life
  <2>5. WebIds \subseteq Ids
    BY WebIdsAssumption
  <2> QED BY <2>2, <2>3, <2>4, <2>5, RecordsFrame
<1>4. CASE UNCHANGED <<pc, arg, file, gaveUp>>
  BY <1>4 DEF RecordsOK, PtyOK, WebOK, Settled, Waited, Over, Rising, Life
<1>5. ASSUME NEW i \in Ids, ProcExit(i) PROVE RecordsOK'
  BY <1>4, <1>5 DEF ProcExit, storeIdle
<1>6. CASE UNCHANGED vars
  BY <1>4, <1>6 DEF vars
<1> QED BY <1>1, <1>2, <1>3, <1>5, <1>6, RecordsCallerNext DEF Next

----------------------------------------------------------------------------
(* The whole invariant of memory and records.                              *)
MInv == IInv /\ WritersOK /\ LifeOK /\ BufOK /\ RecordsOK

(* It holds at the start, and every step keeps it.                         *)
LEMMA InitMInv == Init => MInv
<1> SUFFICES ASSUME Init PROVE MInv
  OBVIOUS
<1>1. IInv
  BY InitIInv
<1>2. /\ \A c \in Callers : pc[c] = "idle"
      /\ \A i \in Ids : Life(i) = "off"
      /\ \A g \in KindGors : pc[g] = "off"
      /\ \A g \in Goroutines : job[g].op = "none" /\ pc[g] \in {"idle", "off"}
  BY Gors, JobTypes DEF Init, Life
<1>3. WritersOK
  BY <1>2 DEF WritersOK, PlacesOK, Writer, CallerLabels, LifeLabels, WebLabels
<1>4. LifeOK
  BY <1>2 DEF Init, LifeOK, StopOK, UnstartOK, RunningIsWatched, InStop
<1>5. BufOK
  <2>1. Counting = {} /\ buf = {} /\ totalBuf = 0
    BY <1>2 DEF Counting, Init
  <2>2. BufferAccounting
    BY <2>1, FS_EmptySet DEF BufferAccounting, Counting
  <2> QED BY <2>1, <2>2, FS_EmptySet DEF BufOK, NoBufferLeak
<1>6. RecordsOK
  <2>1. \A i \in Ids : file.rec[i].status = "none"
    BY DEF Init, EmptyTable, NoRec
  <2> QED BY <1>2, <2>1, WebIdsAssumption
          DEF RecordsOK, PtyOK, WebOK, Settled, Waited, Over, Rising, Live, Terminal
<1> QED BY <1>1, <1>3, <1>4, <1>5, <1>6 DEF MInv

LEMMA NextMInv == MInv /\ [Next]_vars => MInv'
<1> SUFFICES ASSUME MInv, [Next]_vars PROVE MInv'
  OBVIOUS
<1>1. Core /\ MemTypeOK
  BY DEF MInv, IInv, TypeOK, Core
<1> QED BY <1>1, NextIInv, WritersNext, LifeOKNext, BufOKNext, RecordsNext DEF MInv

(* Every reachable state satisfies the invariant of memory and records: who *)
(* may write which status, which lifecycles exist, where each buffer is.   *)
THEOREM MemoryInvariant == Spec => []MInv
BY InitMInv, NextMInv, PTL DEF Spec

(* The counter that admits Starts equals the buffers held, short of those  *)
(* between the map and the counter, and every buffer has a Start or a      *)
(* lifecycle that will drop it: lifecycles, failed Starts and Delete may   *)
(* call dropBuffer for one id at once.                                     *)
THEOREM BuffersCounted == Spec => []BuffersMatch
<1>1. MInv => BuffersMatch
  BY DEF MInv, BufOK, BuffersMatch
<1> QED BY <1>1, MemoryInvariant, PTL

(* An entry of Manager.running has a lifecycle or a Stop on its way to     *)
(* remove it; a PTY whose lifecycle is over and that no Stop is working on *)
(* has a terminal record or none, or a write of it was given up.           *)
THEOREM RecordsSettled == Spec => []RecordsSettle
<1>1. MInv => RecordsSettle
  <2> SUFFICES ASSUME MInv PROVE RecordsSettle
    OBVIOUS
  <2>1. RunningIsWatched
    BY DEF MInv, LifeOK
  <2>2. PtyRecordSettled
    BY DEF MInv, RecordsOK, PtyOK, Over, Settled, Waited, PtyRecordSettled, Stopping, InStop
  <2> QED BY <2>1, <2>2 DEF RecordsSettle
<1> QED BY <1>1, MemoryInvariant, PTL

(* Only a load or a save writes state.json.                                *)
LEMMA OnlyStoreWrites ==
  ASSUME [Next]_vars, file' # file
  PROVE  \E g \in Goroutines : Load(g) \/ Save(g)
<1>1. ASSUME NEW c \in Callers, CallerCall(c) \/ CallerStep(c) PROVE file' = file
  BY <1>1 DEF CallerCall, StartCall, RestartCall, StopCall, DeleteCall, RenameCall, ReorderCall,
         CallerStep, RestartCheck, RestartRefused, Alloc, Account, Spawn, SpawnFails, Unspawn,
         Publish, Register, KindStop, KindStopped, Join, Unrun, DeleteBuffer, storeIdle
<1>2. ASSUME NEW i \in Ids, LifeStep(i) \/ LifeTimeout(i) \/ ProcExit(i) PROVE file' = file
  BY <1>2 DEF LifeStep, LifeReady, LifePoll, LifeUnrun, LifeCancelled, LifeDrop, LifeTimeout,
         ProcExit, storeIdle
<1>3. ASSUME NEW i \in WebIds, PumpAddr(i) \/ HealthFails(i) \/ WebStep(i) PROVE file' = file
  BY <1>3 DEF PumpAddr, HealthFails, WebStep, PumpReady, WaitReap, storeIdle
<1> QED BY <1>1, <1>2, <1>3 DEF Next, vars

(* No terminal record of a PTY becomes live again, whichever goroutines race *)
(* to write it: the last write of the lifecycle comes before the one of Stop. *)
THEOREM StatusForward == Spec => PtyStatusForward
<1>1. MInv /\ [Next]_vars => [\A i \in Ids \ WebIds : Forward(i)]_file
  <2> SUFFICES ASSUME MInv, [Next]_vars, file' # file, NEW i \in Ids \ WebIds,
                      file.rec[i].status \in Terminal, file'.rec[i].status \in Live
               PROVE  FALSE
    BY DEF Forward
  <2>1. PICK g \in Goroutines : Load(g) \/ Save(g)
    BY OnlyStoreWrites
  <2>2. Core /\ WritersOK /\ PtyOK(i)
    BY DEF MInv, IInv, TypeOK, Core, RecordsOK
  <2>3. file'.rec[i].status \notin {file.rec[i].status, "none"} /\ file.rec[i].status # "none"
    BY DEF Live, Terminal
  <2>4. Writes(g, i, file'.rec[i].status)
    BY <2>1, <2>2, <2>3, WhoWrites
  <2>5. Life(i) = "up"
    BY <2>4 DEF Writes, Ends, Live, Terminal, Life
  <2> QED BY <2>2, <2>5 DEF PtyOK, Rising
<1> QED BY <1>1, MemoryInvariant, PTL DEF Spec, PtyStatusForward

(* A web instance its user stopped is never marked exited afterwards: Stop *)
(* waits for the goroutine that would, and no other writes "exited".       *)
THEOREM StoppedStays == Spec => StoppedNotExited
<1> DEFINE A == \A i \in WebIds : file.rec[i].status = "stopped" => file'.rec[i].status # "exited"
<1>1. MInv /\ [Next]_vars => [A]_file
  <2> SUFFICES ASSUME MInv, [Next]_vars, file' # file, NEW i \in WebIds,
                      file.rec[i].status = "stopped", file'.rec[i].status = "exited"
               PROVE  FALSE
    OBVIOUS
  <2>1. PICK g \in Goroutines : Load(g) \/ Save(g)
    BY OnlyStoreWrites
  <2>2. Core /\ WritersOK /\ WebOK(i) /\ i \in Ids
    BY WebIdsAssumption DEF MInv, IInv, TypeOK, Core, RecordsOK
  <2>3. Writes(g, i, "exited")
    BY <2>1, <2>2, WhoWrites
  <2>4. pc[Gor("wait", i)] = "exited"
    BY <2>3 DEF Writes, Ends
  <2> QED BY <2>2, <2>4 DEF WebOK
<1> QED BY <1>1, MemoryInvariant, PTL DEF Spec, StoppedNotExited

=============================================================================
