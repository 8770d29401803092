-------------------------- MODULE InstanceManager --------------------------
(***************************************************************************)
(* internal/framework/manager.go and methods.go over internal/store: the   *)
(* life of managed instances inside one daemon.                            *)
(*                                                                         *)
(* Goroutines are the actors.  A caller is an HTTP handler inside Start,   *)
(* Stop, Delete, Restart or ReorderInstances.  Every started instance has  *)
(* a lifecycle goroutine (runLifecycle), and a web kind three more:        *)
(* pumpAndWatch, healthLoop and wait, as opencode-web has them.  One step  *)
(* is the code between two points where another goroutine can run.         *)
(*                                                                         *)
(* All of them change state.json the same way: Load, edit the copy,        *)
(* SaveWithVersion, and again on a version conflict.  That loop is the     *)
(* pair of actions Load(g) and Save(g), driven by job[g]; pc[g] says which *)
(* loop of the source it is and so where g goes afterwards.                *)
(***************************************************************************)
EXTENDS StateFile, FiniteSets

CONSTANTS Callers,      \* HTTP handler goroutines
          WebIds,       \* ids whose kind is a web kind; the others are PTYs
          MaxTries,     \* maxRetries = 3 of updateStore / persistNewInstance / Restart
          BufLimit,     \* MaxTotalFraction of memory, counted in buffer caps
          Requests,     \* the calls clients make
          Free,         \* nobody holds stateMu
          NoSnap        \* nothing loaded

ASSUME MaxTriesAssumption == MaxTries \in Nat \ {0}
ASSUME WebIdsAssumption   == WebIds \subseteq Ids
ASSUME NoSnapAssumption   == NoSnap \notin Tables

Gor(role, i) == <<role, i>>
Watchers     == {Gor("life", i) : i \in Ids}
KindGors     == {Gor(r, i) : r \in {"pump", "health", "wait"}, i \in WebIds}
Goroutines   == Callers \cup Watchers \cup KindGors

ASSUME CallersAssumption == Callers \cap (Watchers \cup KindGors) = {}

NeedsBuffer(i) == i \notin WebIds     \* BufferConsumer.NeedsOutputBuffer

VARIABLES
  file,      \* state.json
  job,       \* [Goroutines -> the edit g is trying to commit, or NoJob]
  snap,      \* [Goroutines -> the State g loaded, or NoSnap]
  used,      \* ids newID has handed out
  tries,     \* [Goroutines -> attempts of the retry loop used up]
  gaveUp,    \* ids with an edit abandoned after MaxTries conflicts
  pc,        \* [Goroutines -> control point]
  arg,       \* [Callers -> the instance the call is about]
  old,       \* [Callers -> the instance being restarted, or NoId]
  stateMu,   \* holder of Manager.stateMu across steps, or Free
  running,   \* Manager.running
  buf,       \* Manager.buffers: ids that own a ring buffer
  totalBuf,  \* Manager.totalBufBytes, in caps
  pub,       \* ids whose kind handle has its publisher
  cancelled, \* ids whose runningInstance context is cancelled
  proc,      \* [Ids -> "none", "up" or "down"]
  addr,      \* web ids whose listening address is known
  ready,     \* ids whose ReadySignal is closed
  sick       \* web ids whose failCount reached the threshold

memVars   == <<running, buf, totalBuf, pub, cancelled>>
procVars  == <<proc, addr, ready, sick>>
vars == <<file, job, snap, tries, gaveUp, pc, arg, old, used, stateMu, memVars, procVars>>

(* Everything an action that only moves goroutines and memory leaves alone *)
storeIdle == UNCHANGED <<file, snap, tries, gaveUp>>

----------------------------------------------------------------------------
(***************************************************************************)
(* Edits.  expect is the version SaveWithVersion is given: that of the     *)
(* loaded copy everywhere but in ReorderInstances, which passes the        *)
(* client's.                                                               *)
(***************************************************************************)
NoJob  == [op |-> "none", id |-> NoId, status |-> "none", from |-> NoId,
           order |-> <<>>, expect |-> 0]

AppendJob(i)    == [NoJob EXCEPT !.op = "append", !.id = i]
StatusJob(i, s) == [NoJob EXCEPT !.op = "status", !.id = i, !.status = s]
TouchJob(i)     == [NoJob EXCEPT !.op = "touch", !.id = i]
RemoveJob(i)    == [NoJob EXCEPT !.op = "remove", !.id = i]
LinkJob(o, n)   == [NoJob EXCEPT !.op = "link", !.id = n, !.from = o]
OrderJob(s, v)  == [NoJob EXCEPT !.op = "reorder", !.order = s, !.expect = v]

(* The early returns between Load and SaveWithVersion.                     *)
Applicable(j, st) ==
  /\ j.op = "reorder" => TabIds(j.order) = Present(st)
  /\ j.op \notin {"append", "reorder"} => j.id \in Present(st)

Edit(j, st) ==
  CASE j.op = "append"  -> AddRec(st, j.id)
    [] j.op = "status"  -> SetStatus(st, j.id, j.status)
    [] j.op = "touch"   -> Touch(st)
    [] j.op = "remove"  -> DropRec(st, j.id)
    [] j.op = "link"    -> Replace(st, j.from, j.id)
    [] j.op = "reorder" -> SetTabs(st, j.order)

Expected(j, st) == IF j.op = "reorder" THEN j.expect ELSE st.version

(* Delete and ReorderInstances hold stateMu throughout, and return a       *)
(* conflict to their caller instead of trying again.                       *)
Locking    == {"remove", "reorder"}
TriesOf(j) == IF j.op \in Locking THEN 1 ELSE MaxTries

(* Where g continues once its loop is over; res: ok, missing or conflict.  *)
NextLabel ==
  [persist |-> "idle",  unstart |-> "idle",   setpid |-> "register", link |-> "idle",
   stopped |-> "unrun", delete  |-> "idle",   rename |-> "idle",     reorder |-> "idle",
   up      |-> "poll",  down    |-> "unrun",
   blob    |-> "ready", live    |-> "done",   unwell |-> "done",     exited |-> "done"]
LoopLabels == DOMAIN NextLabel

After(label, res) == IF label = "persist" /\ res = "ok" THEN "alloc" ELSE NextLabel[label]

----------------------------------------------------------------------------
Init ==
  /\ file = EmptyTable
  /\ job = [g \in Goroutines |-> NoJob]
  /\ snap = [g \in Goroutines |-> NoSnap]
  /\ tries = [g \in Goroutines |-> 0]
  /\ gaveUp = {}
  /\ pc = [g \in Goroutines |-> IF g \in Callers THEN "idle" ELSE "off"]
  /\ arg = [c \in Callers |-> NoId]
  /\ old = [c \in Callers |-> NoId]
  /\ used = {}
  /\ stateMu = Free
  /\ running = {} /\ buf = {} /\ totalBuf = 0 /\ pub = {} /\ cancelled = {}
  /\ proc = [i \in Ids |-> "none"]
  /\ addr = {} /\ ready = {} /\ sick = {}

(* Control moves; Begin enters the retry loop labelled l with edit j.      *)
Goto(g, l)     == pc' = [pc EXCEPT ![g] = l] /\ UNCHANGED job
Begin(g, l, j) == pc' = [pc EXCEPT ![g] = l] /\ job' = [job EXCEPT ![g] = j]

----------------------------------------------------------------------------
(***************************************************************************)
(* The optimistic loop.                                                    *)
(***************************************************************************)
Leave(g, res) ==
  /\ Begin(g, After(pc[g], res), NoJob)
  /\ tries' = [tries EXCEPT ![g] = 0]
  /\ stateMu' = IF stateMu = g THEN Free ELSE stateMu

(* Restart takes stateMu for its Load alone.                               *)
Load(g) ==
  /\ job[g].op # "none" /\ snap[g] = NoSnap
  /\ job[g].op \in Locking \cup {"link"} => stateMu = Free
  /\ IF Applicable(job[g], file)
       THEN /\ snap' = [snap EXCEPT ![g] = file]
            /\ stateMu' = IF job[g].op \in Locking THEN g ELSE stateMu
            /\ UNCHANGED <<job, pc, tries>>
       ELSE Leave(g, "missing") /\ UNCHANGED snap
  /\ UNCHANGED <<file, gaveUp, arg, old, used, memVars, procVars>>

BlindCommit(g) ==            \* mutant of Commit: Save without the version check
  /\ file' = Edit(job[g], snap[g])
  /\ Leave(g, "ok")
  /\ UNCHANGED gaveUp

Commit(g) ==
  /\ file.version = Expected(job[g], snap[g])
  /\ file' = Edit(job[g], snap[g])
  /\ Leave(g, "ok")
  /\ UNCHANGED gaveUp

Conflict(g) ==
  /\ file.version # Expected(job[g], snap[g])
  /\ IF tries[g] + 1 < TriesOf(job[g])
       THEN tries' = [tries EXCEPT ![g] = @ + 1] /\ UNCHANGED <<job, pc, stateMu, gaveUp>>
       ELSE /\ Leave(g, "conflict")
            /\ gaveUp' = IF job[g].op = "status" THEN gaveUp \cup {job[g].id} ELSE gaveUp
  /\ UNCHANGED file

Save(g) ==
  /\ snap[g] # NoSnap
  /\ snap' = [snap EXCEPT ![g] = NoSnap]
  /\ Commit(g) \/ Conflict(g)
  /\ UNCHANGED <<arg, old, used, memVars, procVars>>

----------------------------------------------------------------------------
(***************************************************************************)
(* Start and the first half of Restart.                                    *)
(***************************************************************************)
(* ResolveCap compares the budget with the counter as it is now; the id    *)
(* comes after it, and the record is persisted before the buffer exists.   *)
Check(c, i) ==
  /\ totalBuf + 1 <= BufLimit
  /\ used' = used \cup {i}
  /\ arg' = [arg EXCEPT ![c] = i]
  /\ Begin(c, "persist", AppendJob(i))

StartCall(c, i) ==
  /\ "start" \in Requests /\ pc[c] = "idle" /\ i \notin used
  /\ Check(c, i)
  /\ old' = [old EXCEPT ![c] = NoId]
  /\ storeIdle /\ UNCHANGED <<stateMu, memVars, procVars>>

RestartCall(c, o) ==
  /\ "restart" \in Requests /\ pc[c] = "idle" /\ file.rec[o].status \in Terminal
  /\ old' = [old EXCEPT ![c] = o]
  /\ Goto(c, "check")
  /\ storeIdle /\ UNCHANGED <<arg, used, stateMu, memVars, procVars>>

(* The new instance has the old one's kind.                                *)
RestartCheck(c, i) ==
  /\ pc[c] = "check" /\ i \notin used
  /\ i \in WebIds <=> old[c] \in WebIds
  /\ Check(c, i)
  /\ storeIdle /\ UNCHANGED <<old, stateMu, memVars, procVars>>

RestartRefused(c) ==
  /\ pc[c] = "check" /\ totalBuf + 1 > BufLimit
  /\ Goto(c, "idle")
  /\ storeIdle /\ UNCHANGED <<arg, old, used, stateMu, memVars, procVars>>

(* AllocateBuffer: the map entry under stateMu, the counter after it.      *)
Alloc(c) ==
  /\ pc[c] = "alloc"
  /\ IF NeedsBuffer(arg[c])
       THEN stateMu = Free /\ buf' = buf \cup {arg[c]} /\ Goto(c, "account")
       ELSE UNCHANGED buf /\ Goto(c, "spawn")
  /\ storeIdle
  /\ UNCHANGED <<arg, old, used, stateMu, running, totalBuf, pub, cancelled, procVars>>

Account(c) ==
  /\ pc[c] = "account"
  /\ totalBuf' = totalBuf + 1
  /\ Goto(c, "spawn")
  /\ storeIdle
  /\ UNCHANGED <<arg, old, used, stateMu, running, buf, pub, cancelled, procVars>>

(* A PTY is ready when Spawn returns; a web kind starts its goroutines.    *)
Spawn(c) ==
  LET i == arg[c] IN
  /\ pc[c] = "spawn"
  /\ proc' = [proc EXCEPT ![i] = "up"]
  /\ ready' = IF i \in WebIds THEN ready ELSE ready \cup {i}
  /\ pc' = [g \in Goroutines |->
              IF g = c THEN "publish"
              ELSE IF g \in KindGors /\ g[2] = i THEN "serve" ELSE pc[g]]
  /\ storeIdle
  /\ UNCHANGED <<job, arg, old, used, stateMu, memVars, addr, sick>>

SpawnFails(c) ==
  /\ pc[c] = "spawn"
  /\ Goto(c, "unspawn")
  /\ storeIdle /\ UNCHANGED <<arg, old, used, stateMu, memVars, procVars>>

(* dropBuffer: a no-op for an id that owns no buffer, but it takes stateMu *)
DropBuffer(i) ==
  /\ stateMu = Free
  /\ buf' = buf \ {i}
  /\ totalBuf' = IF i \in buf THEN totalBuf - 1 ELSE totalBuf

Unspawn(c) ==
  /\ pc[c] = "unspawn"
  /\ DropBuffer(arg[c])
  /\ Begin(c, "unstart", StatusJob(arg[c], "failed"))
  /\ storeIdle
  /\ UNCHANGED <<arg, old, used, stateMu, running, pub, cancelled, procVars>>

(* SetPublishers stores the publisher and persists the pid through it.     *)
Publish(c) ==
  /\ pc[c] = "publish"
  /\ pub' = pub \cup {arg[c]}
  /\ Begin(c, "setpid", TouchJob(arg[c]))
  /\ storeIdle
  /\ UNCHANGED <<arg, old, used, stateMu, running, buf, totalBuf, cancelled, procVars>>

(* The instance enters running and its lifecycle goroutine starts; a       *)
(* restart goes on to remove the old record and link the new one.          *)
Register(c) ==
  LET i == arg[c] IN
  /\ pc[c] = "register"
  /\ running' = running \cup {i}
  /\ pc' = [pc EXCEPT ![c] = IF old[c] = NoId THEN "idle" ELSE "link",
                      ![Gor("life", i)] = "wait"]
  /\ job' = IF old[c] = NoId THEN job ELSE [job EXCEPT ![c] = LinkJob(old[c], i)]
  /\ storeIdle
  /\ UNCHANGED <<arg, old, used, stateMu, buf, totalBuf, pub, cancelled, procVars>>

----------------------------------------------------------------------------
(***************************************************************************)
(* runLifecycle.                                                           *)
(***************************************************************************)
LifeReady(i) ==
  LET g == Gor("life", i) IN
  /\ pc[g] = "wait" /\ i \in ready
  /\ Begin(g, "up", StatusJob(i, "running"))
  /\ storeIdle /\ UNCHANGED <<arg, old, used, stateMu, memVars, procVars>>

(* The 60 s timer: the record fails and the process is left as it is.      *)
LifeTimeout(i) ==
  LET g == Gor("life", i) IN
  /\ pc[g] = "wait" /\ i \notin ready
  /\ Begin(g, "down", StatusJob(i, "failed"))
  /\ storeIdle /\ UNCHANGED <<arg, old, used, stateMu, memVars, procVars>>

(* Kind.Status when it is terminal: a PTY whose process is gone, a web     *)
(* kind with an address whose probes failed.                               *)
Reports(i, s) ==
  \/ i \notin WebIds /\ proc[i] = "down" /\ s = "exited"
  \/ i \in WebIds /\ i \in addr /\ i \in sick /\ s = "failed"

LifePoll(i) ==
  LET g == Gor("life", i) IN
  /\ pc[g] = "poll"
  /\ \E s \in Terminal : Reports(i, s) /\ Begin(g, "down", StatusJob(i, s))
  /\ storeIdle /\ UNCHANGED <<arg, old, used, stateMu, memVars, procVars>>

LifeUnrun(i) ==
  LET g == Gor("life", i) IN
  /\ pc[g] = "unrun"
  /\ running' = running \ {i}
  /\ Goto(g, "drop")
  /\ storeIdle
  /\ UNCHANGED <<arg, old, used, stateMu, buf, totalBuf, pub, cancelled, procVars>>

OnlyWaitCancelled(i) ==      \* mutant of LifeCancelled: no ctx.Done in the poll loop
  LET g == Gor("life", i) IN
  /\ pc[g] = "wait" /\ i \in cancelled
  /\ Goto(g, "drop")
  /\ storeIdle /\ UNCHANGED <<arg, old, used, stateMu, memVars, procVars>>

LifeCancelled(i) ==
  LET g == Gor("life", i) IN
  /\ pc[g] \in {"wait", "poll"} /\ i \in cancelled
  /\ Goto(g, "drop")
  /\ storeIdle /\ UNCHANGED <<arg, old, used, stateMu, memVars, procVars>>

CountOnly(i) ==              \* mutant of LifeDrop: the map entry stays
  LET g == Gor("life", i) IN
  /\ pc[g] = "drop"
  /\ totalBuf' = totalBuf - 1
  /\ Goto(g, "done")
  /\ storeIdle
  /\ UNCHANGED <<arg, old, used, stateMu, running, buf, pub, cancelled, procVars>>

(* The deferred dropBuffer and wg.Done.                                    *)
LifeDrop(i) ==
  LET g == Gor("life", i) IN
  /\ pc[g] = "drop"
  /\ DropBuffer(i)
  /\ Goto(g, "done")
  /\ storeIdle
  /\ UNCHANGED <<arg, old, used, stateMu, running, pub, cancelled, procVars>>

----------------------------------------------------------------------------
(***************************************************************************)
(* Stop.  A PTY's Stop sends SIGTERM and returns; a web kind's escalates   *)
(* to SIGKILL and waits until its wait goroutine has closed h.exited.      *)
(***************************************************************************)
StopCall(c, i) ==
  /\ "stop" \in Requests /\ pc[c] = "idle" /\ i \in running
  /\ arg' = [arg EXCEPT ![c] = i]
  /\ Goto(c, "kstop")
  /\ storeIdle /\ UNCHANGED <<old, used, stateMu, memVars, procVars>>

KindStop(c) ==
  /\ pc[c] = "kstop"
  /\ proc' = IF arg[c] \in WebIds THEN [proc EXCEPT ![arg[c]] = "down"] ELSE proc
  /\ Goto(c, "kwait")
  /\ storeIdle
  /\ UNCHANGED <<arg, old, used, stateMu, memVars, addr, ready, sick>>

StopWithoutExited(c) ==      \* mutant of KindStopped: <-h.exited missing
  /\ pc[c] = "kwait"
  /\ cancelled' = cancelled \cup {arg[c]}
  /\ Goto(c, "join")
  /\ storeIdle
  /\ UNCHANGED <<arg, old, used, stateMu, running, buf, totalBuf, pub, procVars>>

KindStopped(c) ==
  /\ pc[c] = "kwait"
  /\ arg[c] \in WebIds => pc[Gor("wait", arg[c])] = "done"
  /\ cancelled' = cancelled \cup {arg[c]}
  /\ Goto(c, "join")
  /\ storeIdle
  /\ UNCHANGED <<arg, old, used, stateMu, running, buf, totalBuf, pub, procVars>>

NoJoin(c) ==                 \* mutant of Join: wg.Wait missing
  /\ pc[c] = "join"
  /\ Begin(c, "stopped", StatusJob(arg[c], "stopped"))
  /\ storeIdle /\ UNCHANGED <<arg, old, used, stateMu, memVars, procVars>>

Join(c) ==
  /\ pc[c] = "join" /\ pc[Gor("life", arg[c])] = "done"
  /\ Begin(c, "stopped", StatusJob(arg[c], "stopped"))
  /\ storeIdle /\ UNCHANGED <<arg, old, used, stateMu, memVars, procVars>>

LeaveEntry(c) ==             \* mutant of Unrun: delete(m.running, id) missing
  /\ pc[c] = "unrun"
  /\ Goto(c, "idle")
  /\ storeIdle /\ UNCHANGED <<arg, old, used, stateMu, memVars, procVars>>

Unrun(c) ==
  /\ pc[c] = "unrun"
  /\ running' = running \ {arg[c]}
  /\ Goto(c, "idle")
  /\ storeIdle
  /\ UNCHANGED <<arg, old, used, stateMu, buf, totalBuf, pub, cancelled, procVars>>

----------------------------------------------------------------------------
(***************************************************************************)
(* Delete: the running check, the buffer, then the record under stateMu.   *)
(***************************************************************************)
DeleteCall(c, i) ==
  /\ "delete" \in Requests /\ pc[c] = "idle" /\ i \in used \ running
  /\ arg' = [arg EXCEPT ![c] = i]
  /\ Goto(c, "delbuf")
  /\ storeIdle /\ UNCHANGED <<old, used, stateMu, memVars, procVars>>

DeleteBuffer(c) ==
  /\ pc[c] = "delbuf"
  /\ DropBuffer(arg[c])
  /\ Begin(c, "delete", RemoveJob(arg[c]))
  /\ storeIdle
  /\ UNCHANGED <<arg, old, used, stateMu, running, pub, cancelled, procVars>>

(* UpdateName. *)
RenameCall(c, i) ==
  /\ "rename" \in Requests /\ pc[c] = "idle" /\ i \in Present(file)
  /\ arg' = [arg EXCEPT ![c] = i]
  /\ Begin(c, "rename", TouchJob(i))
  /\ storeIdle /\ UNCHANGED <<old, used, stateMu, memVars, procVars>>

(* ReorderInstances: the client sends an order of the tabs it shows and    *)
(* the version it last saw, the present one or the one before.             *)
ReorderCall(c, order, v) ==
  /\ "reorder" \in Requests /\ pc[c] = "idle" /\ order # file.tabs
  /\ v >= 0
  /\ Begin(c, "reorder", OrderJob(order, v))
  /\ storeIdle /\ UNCHANGED <<arg, old, used, stateMu, memVars, procVars>>

----------------------------------------------------------------------------
(***************************************************************************)
(* The kinds.                                                              *)
(***************************************************************************)
ProcExit(i) ==
  /\ proc[i] = "up"
  /\ proc' = [proc EXCEPT ![i] = "down"]
  /\ storeIdle
  /\ UNCHANGED <<job, pc, arg, old, used, stateMu, memVars, addr, ready, sick>>

(* pumpAndWatch: the listening line; the blob, ready, and MarkRunning.     *)
(* h.cancel() stops neither this nor the probe of healthLoop that is in    *)
(* flight: both look at ctx before, not after.                             *)
PumpAddr(i) ==
  LET g == Gor("pump", i) IN
  /\ pc[g] = "serve"
  /\ addr' = addr \cup {i}
  /\ IF i \in pub THEN Begin(g, "blob", TouchJob(i)) ELSE Goto(g, "ready")
  /\ storeIdle
  /\ UNCHANGED <<arg, old, used, stateMu, memVars, proc, ready, sick>>

PumpReady(i) ==
  LET g == Gor("pump", i) IN
  /\ pc[g] = "ready"
  /\ ready' = ready \cup {i}
  /\ IF i \in pub THEN Begin(g, "live", StatusJob(i, "running")) ELSE Goto(g, "done")
  /\ storeIdle
  /\ UNCHANGED <<arg, old, used, stateMu, memVars, proc, addr, sick>>

(* healthLoop at its third failed probe in a row.                          *)
HealthFails(i) ==
  LET g == Gor("health", i) IN
  /\ pc[g] = "serve" /\ i \in addr
  /\ sick' = sick \cup {i}
  /\ IF i \in pub THEN Begin(g, "unwell", StatusJob(i, "failed")) ELSE Goto(g, "done")
  /\ storeIdle
  /\ UNCHANGED <<arg, old, used, stateMu, memVars, proc, addr, ready>>

(* wait: cmd.Wait, cancel, MarkExited, and only then close(h.exited), which *)
(* is pc = "done".                                                         *)
WaitReap(i) ==
  LET g == Gor("wait", i) IN
  /\ pc[g] = "serve" /\ proc[i] = "down"
  /\ IF i \in pub THEN Begin(g, "exited", StatusJob(i, "exited")) ELSE Goto(g, "done")
  /\ storeIdle /\ UNCHANGED <<arg, old, used, stateMu, memVars, procVars>>

----------------------------------------------------------------------------
Orders == {s \in UNION {[1..n -> Ids] : n \in 1..Cardinality(Ids)} :
             \A j, k \in DOMAIN s : s[j] = s[k] => j = k}

CallerStep(c) ==
  \/ (\E i \in Ids : RestartCheck(c, i)) \/ RestartRefused(c)
  \/ Alloc(c) \/ Account(c) \/ Spawn(c) \/ SpawnFails(c)
  \/ Unspawn(c) \/ Publish(c) \/ Register(c)
  \/ KindStop(c) \/ KindStopped(c) \/ Join(c) \/ Unrun(c)
  \/ DeleteBuffer(c)

CallerCall(c) ==
  \/ \E i \in Ids : \/ StartCall(c, i) \/ RestartCall(c, i) \/ StopCall(c, i)
                    \/ DeleteCall(c, i) \/ RenameCall(c, i)
  \/ \E order \in Orders, back \in 0..1 : ReorderCall(c, order, file.version - back)

LifeStep(i) ==
  LifeReady(i) \/ LifePoll(i) \/ LifeUnrun(i) \/ LifeCancelled(i) \/ LifeDrop(i)

WebStep(i) == PumpReady(i) \/ WaitReap(i)

Next ==
  \/ \E g \in Goroutines : Load(g) \/ Save(g)
  \/ \E c \in Callers : CallerCall(c) \/ CallerStep(c)
  \/ \E i \in Ids : LifeStep(i) \/ LifeTimeout(i) \/ ProcExit(i)
  \/ \E i \in WebIds : PumpAddr(i) \/ HealthFails(i) \/ WebStep(i)

(* Go runs every runnable goroutine, and a waiter of a sync.Mutex gets it  *)
(* (starvation mode), so steps that may have to wait for stateMu are taken *)
(* if they are enabled again and again.  Nothing is assumed of clients,    *)
(* processes, probes and timers.                                           *)
Fairness ==
  /\ \A g \in Goroutines : SF_vars(Load(g)) /\ WF_vars(Save(g))
  /\ \A c \in Callers : SF_vars(CallerStep(c))
  /\ \A i \in Ids : SF_vars(LifeStep(i))
  /\ \A i \in WebIds : WF_vars(WebStep(i))

Spec     == Init /\ [][Next]_vars
FairSpec == Spec /\ Fairness

----------------------------------------------------------------------------
(***************************************************************************)
(* Types.                                                                  *)
(***************************************************************************)
CallerLabels ==
  {"idle", "check", "persist", "alloc", "account", "spawn", "unspawn", "unstart",
   "publish", "setpid", "register", "link", "kstop", "kwait", "join", "stopped",
   "unrun", "delbuf", "delete", "rename", "reorder"}
LifeLabels == {"off", "wait", "up", "poll", "down", "unrun", "drop", "done"}
WebLabels  == {"off", "serve", "blob", "ready", "live", "unwell", "exited", "done"}

Jobs == [op : {"none", "append", "status", "touch", "remove", "link", "reorder"},
         id : Ids \cup {NoId}, status : Statuses \cup {"none"},
         from : Ids \cup {NoId}, order : Seq(Ids), expect : Nat]

(* Every variable has its type, and no goroutine has used up more attempts *)
(* than updateStore, persistNewInstance and Restart allow.                 *)
StoreTypeOK ==
  /\ file \in Tables
  /\ job \in [Goroutines -> Jobs]
  /\ snap \in [Goroutines -> Tables \cup {NoSnap}]
  /\ used \subseteq Ids
  /\ tries \in [Goroutines -> 0..(MaxTries - 1)]
  /\ pc \in [Goroutines -> CallerLabels \cup LifeLabels \cup WebLabels]
  /\ arg \in [Callers -> Ids \cup {NoId}]
  /\ old \in [Callers -> Ids \cup {NoId}]
MemTypeOK ==
  /\ gaveUp \subseteq Ids
  /\ stateMu \in Goroutines \cup {Free}
  /\ running \subseteq Ids /\ buf \subseteq Ids
  /\ totalBuf \in Int
  /\ pub \subseteq Ids /\ cancelled \subseteq Ids
  /\ proc \in [Ids -> {"none", "up", "down"}]
  /\ addr \subseteq WebIds /\ ready \subseteq Ids /\ sick \subseteq WebIds
TypeOK == StoreTypeOK /\ MemTypeOK

----------------------------------------------------------------------------
(***************************************************************************)
(* What SaveWithVersion protects.                                          *)
(***************************************************************************)
(* A version names one content of state.json: a copy whose version is the  *)
(* present one is the present content, however many goroutines have        *)
(* written since it was loaded.                                            *)
SnapshotFresh ==
  \A g \in Goroutines : snap[g] # NoSnap =>
     /\ snap[g].version <= file.version
     /\ snap[g].version = file.version => snap[g] = file

(* No lost update: the loads and saves of all goroutines together are a    *)
(* sequence of whole operations on one table (InstanceTable).              *)
Table == INSTANCE InstanceTable WITH table <- file
NoLostUpdate == Table!TableSpec

(* Every record has a tab: a reorder computed from the tabs a client saw   *)
(* never overwrites the tab a concurrent Start appended.                   *)
TabCovers == Present(file) \subseteq TabIds(file.tabs)

(***************************************************************************)
(* Why it holds: the inductive invariant.  A goroutine holds an edit only  *)
(* inside a retry loop and a copy only while it holds an edit; the edit    *)
(* applies to the copy; and an id belongs to one Start at most, whose      *)
(* goroutines are off until it starts them.                                *)
(***************************************************************************)
BeforeSpawn == {"persist", "alloc", "account", "spawn"}
BeforeLife  == BeforeSpawn \cup {"publish", "setpid", "register"}

JobOK(g) ==
  /\ job[g].op # "none" => pc[g] \in LoopLabels
  /\ job[g].op = "append" => g \in Callers /\ pc[g] = "persist" /\ arg[g] = job[g].id
  /\ job[g].op = "status" => job[g].status \in Statuses
  /\ job[g].op = "link" => job[g].from \in Ids \ {job[g].id}
  /\ job[g].op = "reorder" => job[g].expect <= file.version

SnapOK(g) ==
  snap[g] # NoSnap =>
    /\ job[g].op # "none" /\ Applicable(job[g], snap[g])
    /\ job[g].op = "reorder" => job[g].expect <= snap[g].version

StartOK(c) ==
  /\ pc[c] \notin {"idle", "check", "reorder"} => arg[c] \in Ids
  /\ pc[c] = "check" => old[c] \in used
  /\ pc[c] \in BeforeLife =>
       /\ arg[c] \in used /\ arg[c] # old[c] /\ pc[Gor("life", arg[c])] = "off"
       /\ \A d \in Callers : pc[d] \in BeforeLife /\ arg[d] = arg[c] => d = c
  /\ pc[c] \in BeforeSpawn => \A g \in KindGors : g[2] = arg[c] => pc[g] = "off"
  /\ pc[c] = "persist" => arg[c] \notin Present(file)

FreshOK(i) ==
  i \notin used => /\ i \notin Present(file) /\ pc[Gor("life", i)] = "off"
                   /\ \A g \in KindGors : g[2] = i => pc[g] = "off"

IInv ==
  /\ TypeOK
  /\ SnapshotFresh
  /\ \A g \in Goroutines : JobOK(g) /\ SnapOK(g)
  /\ \A c \in Callers : StartOK(c)
  /\ \A i \in Ids : FreshOK(i)

----------------------------------------------------------------------------
(***************************************************************************)
(* Ring buffers.                                                           *)
(***************************************************************************)
InStart == {"account", "spawn", "unspawn", "publish", "setpid", "register"}
InStop  == {"kstop", "kwait", "join", "stopped", "unrun"}
Starting(i) == \E c \in Callers : arg[c] = i /\ pc[c] \in InStart
Stopping(i) == \E c \in Callers : arg[c] = i /\ pc[c] \in InStop
Life(i)     == pc[Gor("life", i)]

(* The counter that admits Starts is the number of buffers held, short of  *)
(* those a Start has put in the map and not yet counted: buffers dropped   *)
(* by the lifecycle, a failed Start and Delete at once are counted once.   *)
BufferAccounting ==
  totalBuf = Cardinality(buf) - Cardinality({c \in Callers : pc[c] = "account"})

(* A buffer outlives neither the Start that failed nor the lifecycle of    *)
(* its instance: somebody is still going to drop it.                       *)
NoBufferLeak == \A i \in buf : Starting(i) \/ Life(i) \notin {"off", "done"}

(* The budget's counter and the buffers it stands for never part.          *)
BuffersMatch == BufferAccounting /\ NoBufferLeak

----------------------------------------------------------------------------
(***************************************************************************)
(* The record of an instance and the instance.                             *)
(***************************************************************************)
(* An entry of Manager.running has a lifecycle goroutine that watches it,  *)
(* or a Stop on its way to removing it; nothing stays "running" in memory  *)
(* (so that Delete refuses it for good) after both are gone.               *)
RunningIsWatched ==
  \A i \in running :
     \/ Life(i) \in {"wait", "up", "poll", "down", "unrun"}
     \/ \E c \in Callers : arg[c] = i /\ pc[c] \in {"join", "stopped", "unrun"}

(* A terminal PTY record stays terminal: Stop writes "stopped" only after  *)
(* it has joined the lifecycle goroutine that could still write "running". *)
Forward(i) == file.rec[i].status \in Terminal => file'.rec[i].status \notin Live
PtyStatusForward == [][\A i \in Ids \ WebIds : Forward(i)]_file

(* When the lifecycle of a PTY is over and no Stop is under way, its       *)
(* record is terminal or deleted, unless a status write was given up after *)
(* MaxTries conflicts.                                                     *)
PtyRecordSettled ==
  \A i \in Ids \ WebIds :
     Life(i) = "done" /\ ~Stopping(i) /\ i \notin gaveUp
       => file.rec[i].status \notin Live

(* Memory and state.json agree about who is alive once goroutines are done. *)
RecordsSettle == RunningIsWatched /\ PtyRecordSettled

(* A web instance its user stopped is never shown as having exited by      *)
(* itself: Stop returns from the kind only after wait has written "exited".*)
StoppedNotExited ==
  [][\A i \in WebIds : file.rec[i].status = "stopped"
                          => file'.rec[i].status # "exited"]_file

----------------------------------------------------------------------------
(***************************************************************************)
(* Liveness.                                                               *)
(***************************************************************************)
(* A Stop returns, whatever the process does: a PTY's because the          *)
(* lifecycle sees its context cancelled, a web kind's because SIGKILL      *)
(* leads to wait, and neither side waits for the other.                    *)
StopReturns == \A c \in Callers : (pc[c] \in InStop) ~> (pc[c] = "idle")

(* A PTY whose process has exited leaves running and gives its buffer back *)
(* without anybody calling Stop.                                           *)
PtyDeathReleases ==
  \A i \in Ids \ WebIds :
     (i \in running /\ proc[i] = "down") ~> (i \notin running /\ i \notin buf)

(* Neither a Stop nor a dead process is left hanging.                      *)
Settles == StopReturns /\ PtyDeathReleases
=============================================================================
