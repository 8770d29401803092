------------------------------ MODULE Reasonix ------------------------------
(***************************************************************************)
(* internal/instance/reasonix, with the parts of internal/framework and    *)
(* internal/app that start, stop, delete, restart and re-attach its        *)
(* instances.  Every instance owns a `reasonix serve` process which is     *)
(* found again through the files it leaves in its state directory, so it   *)
(* may outlive the daemon: the daemon here crashes, shuts down and boots.  *)
(*                                                                         *)
(* The retry loop around a change of state.json is InstanceManager's; here *)
(* it is one step, but for the reconciliation at startup, which loads the  *)
(* records, asks the kind about each of them and saves once.               *)
(***************************************************************************)
EXTENDS Naturals, FiniteSets

CONSTANTS Ids, Callers, Main,
          MaxBoots,     \* bound: daemons started one after the other
          NoId

ASSUME MainAssumption == Main \notin Callers
ASSUME NoIdAssumption == NoId \notin Ids
ASSUME BootsAssumption == MaxBoots \in Nat

VARIABLES
  daemon,   \* "off", "boot", "up" or "closing"
  boots,
  rec,      \* [Ids -> the record's status, or "none"]
  used,     \* ids handed out
  running,  \* Manager.running
  life,     \* [Ids -> where runLifecycle is]
  call,     \* [Callers \cup {Main} -> the call in progress]
  todo,     \* ids that Main's loop still has to look at
  stale,    \* ids that the reconciliation found dead
  moved,    \* state.json changed since the reconciliation loaded it
  stateMu,  \* the caller that holds it over several steps, or Main
  proc,     \* [Ids -> the serve process]
  dir,      \* [Ids -> the files of the state directory]
  cache,    \* ids with an entry in Driver.cache
  reader,   \* ids whose address a request has read and is about to cache
  lost,     \* observer: ids whose mark as stopped was lost in a conflict
  cut,      \* observer: ids whose teardown the end of the daemon cut short
  early,    \* observer: ids torn down, or given up, before the pid was known
  late      \* observer: ids that the shutdown did not see running

storeVars == <<rec, used, moved>>
memVars   == <<running, life>>
driveVars == <<proc, dir, cache, reader>>
bootVars  == <<daemon, boots, todo, stale>>
obsVars   == <<lost, cut, early, late>>
vars == <<storeVars, memVars, call, stateMu, driveVars, bootVars, obsVars>>

Active    == {"starting", "running"}
Files     == {"token", "port", "pid"}
NoCall    == [op |-> "none", id |-> NoId, new |-> NoId, pc |-> "idle"]
Teardown  == {"kill", "grace", "clean"}
At(c, l)  == call' = [call EXCEPT ![c].pc = l]
Alive(i) == proc[i] \in {"exec", "up"}
Starting(i) == \E c \in Callers : call[c].new = i
Return(c) == call' = [call EXCEPT ![c] = NoCall]
Serving   == daemon \in {"up", "closing"}          \* the HTTP server answers
Acts(c)   == IF c = Main THEN daemon = "closing" ELSE Serving

(* updateStore: an edit of a record that is gone is refused.  Nobody asks  *)
(* for moved but the reconciliation, so it is kept during that only.       *)
SetRec(i, s) ==
  IF rec[i] = "none" THEN UNCHANGED <<rec, moved>>
  ELSE rec' = [rec EXCEPT ![i] = s] /\ moved' = (daemon = "boot")

Init ==
  /\ daemon = "off" /\ boots = 0 /\ todo = {} /\ stale = {} /\ moved = FALSE
  /\ rec = [i \in Ids |-> "none"] /\ used = {} /\ running = {}
  /\ life = [i \in Ids |-> "none"]
  /\ call = [c \in Callers \cup {Main} |-> NoCall] /\ stateMu = Main
  /\ proc = [i \in Ids |-> "none"] /\ dir = [i \in Ids |-> {}]
  /\ cache = {} /\ reader = {}
  /\ lost = {} /\ cut = {} /\ early = {} /\ late = {}

----------------------------------------------------------------------------
(***************************************************************************)
(* Driver.Health and Driver.Addr.                                          *)
(***************************************************************************)
Healthy(i) == Files \subseteq dir[i] /\ proc[i] = "up"

(* A request of the proxy for a record that is active, or the poll of the  *)
(* lifecycle: the files are read, and the entry stored, by two steps.      *)
AddrRead(i) ==
  /\ Serving /\ (rec[i] \in Active \/ life[i] = "poll")
  /\ i \notin cache /\ "port" \in dir[i] /\ reader = {}     \* bound: one at a time
  /\ reader' = {i}
  /\ UNCHANGED <<storeVars, memVars, call, stateMu, proc, dir, cache, bootVars, obsVars>>

AddrStore(i) ==
  /\ i \in reader
  /\ reader' = reader \ {i} /\ cache' = cache \cup {i}
  /\ UNCHANGED <<storeVars, memVars, call, stateMu, proc, dir, bootVars, obsVars>>

----------------------------------------------------------------------------
(***************************************************************************)
(* The serve process.  It writes its port before its pid.                  *)
(***************************************************************************)
Leaves(i, f) == dir' = [dir EXCEPT ![i] = IF @ = {} THEN {} ELSE @ \cup {f}]

ServeListens(i) ==
  /\ proc[i] = "exec"
  /\ proc' = [proc EXCEPT ![i] = "up"] /\ Leaves(i, "port")
  /\ UNCHANGED <<storeVars, memVars, call, stateMu, cache, reader, bootVars, obsVars>>

ServeWritesPid(i) ==
  /\ proc[i] = "up" /\ dir[i] # {} /\ "pid" \notin dir[i]
  /\ Leaves(i, "pid")
  /\ UNCHANGED <<storeVars, memVars, call, stateMu, proc, cache, reader, bootVars, obsVars>>

ServeDies(i) ==
  /\ proc[i] \in {"exec", "up"}
  /\ proc' = [proc EXCEPT ![i] = "dead"]
  /\ UNCHANGED <<storeVars, memVars, call, stateMu, dir, cache, reader, bootVars, obsVars>>

----------------------------------------------------------------------------
(***************************************************************************)
(* Start, and the first half of Restart, which starts a copy under a new   *)
(* id.  No two Starts share an id, so lockStart never waits.               *)
(***************************************************************************)
StartCall(c, i, from) ==
  /\ Serving /\ call[c] = NoCall /\ i \notin used
  /\ from = NoId => boots = 1                \* bound: only the first daemon creates instances
  /\ from = NoId \/ (from \in Ids /\ rec[from] \in {"stopped", "failed"})
  /\ call' = [call EXCEPT ![c] =
       [op |-> IF from = NoId THEN "start" ELSE "restart", id |-> from, new |-> i, pc |-> "spawn"]]
  /\ rec' = [rec EXCEPT ![i] = "starting"] /\ used' = used \cup {i}
  /\ UNCHANGED <<moved, memVars, stateMu, driveVars, bootVars, obsVars>>

(* No binary, an old version, no state directory, a failing preStart.      *)
SpawnRefused(c) ==
  /\ Acts(c) /\ call[c].pc = "spawn"
  /\ SetRec(call[c].new, "failed") /\ Return(c)
  /\ UNCHANGED <<used, memVars, stateMu, driveVars, bootVars, obsVars>>

Spawn(c) ==
  /\ Acts(c) /\ call[c].pc = "spawn"
  /\ LET i == call[c].new IN
       /\ dir' = [dir EXCEPT ![i] = {"token"}]
       /\ proc' = [proc EXCEPT ![i] = "exec"]
  /\ At(c, "ready")
  /\ UNCHANGED <<storeVars, memVars, stateMu, cache, reader, bootVars, obsVars>>

(* waitReady waits for both files, or for the process to end.              *)
SpawnReady(c) ==
  /\ Acts(c) /\ call[c].pc = "ready"
  /\ Files \subseteq dir[call[c].new]
  /\ cache' = cache \cup {call[c].new}
  /\ At(c, "register")
  /\ UNCHANGED <<storeVars, memVars, stateMu, proc, dir, reader, bootVars, obsVars>>

GivesUp(c) == call[c].pc = "ready" /\ ~(Files \subseteq dir[call[c].new])

(* The process ended early, or 15 seconds passed.  Kill ends the process   *)
(* that was started: if that is a wrapper, serve itself goes on.           *)
SpawnFails(c) ==
  /\ Acts(c) /\ GivesUp(c)
  /\ LET i == call[c].new IN
       /\ \/ proc' = [proc EXCEPT ![i] = "dead"] /\ UNCHANGED early
          \/ proc[i] # "dead" /\ UNCHANGED proc /\ early' = early \cup {i}
       /\ SetRec(i, "failed")
  /\ Return(c)
  /\ UNCHANGED <<used, memVars, stateMu, dir, cache, reader, bootVars, lost, cut, late>>

(* SetPublishers stores the pid in the record; then Manager.running.       *)
Register(c) ==
  /\ Acts(c) /\ call[c].pc = "register"
  /\ LET i == call[c].new IN
       /\ running' = running \cup {i}
       /\ life' = [life EXCEPT ![i] = "ready"]
  /\ IF call[c].op = "restart" THEN At(c, "kill") ELSE Return(c)
  /\ UNCHANGED <<storeVars, stateMu, driveVars, bootVars, obsVars>>

LifeUp(i) ==
  /\ life[i] = "ready"
  /\ SetRec(i, "running")
  /\ life' = [life EXCEPT ![i] = "poll"]
  /\ UNCHANGED <<used, running, call, stateMu, driveVars, bootVars, obsVars>>

----------------------------------------------------------------------------
(***************************************************************************)
(* Stop, Delete and the second half of Restart: the process is told to     *)
(* end, gets five seconds, is killed, and its directory is removed.        *)
(***************************************************************************)
StopCall(c, i) ==
  /\ Acts(c) /\ call[c] = NoCall /\ i \in running
  /\ c = Main => i \in todo
  /\ call' = [call EXCEPT ![c] = [op |-> "stop", id |-> i, new |-> NoId, pc |-> "kill"]]
  /\ UNCHANGED <<storeVars, memVars, stateMu, driveVars, bootVars, obsVars>>

(* The record goes first; stateMu is held until Cleanup has returned.      *)
DeleteCall(c, i) ==
  /\ c # Main /\ Serving /\ call[c] = NoCall /\ stateMu = Main
  /\ i \notin running /\ rec[i] # "none"
  /\ rec' = [rec EXCEPT ![i] = "none"]
  /\ stateMu' = c
  /\ call' = [call EXCEPT ![c] = [op |-> "delete", id |-> i, new |-> NoId, pc |-> "kill"]]
  /\ UNCHANGED <<used, moved, memVars, driveVars, bootVars, obsVars>>

DropCache(i) == cache' = cache \ {i}

(* Driver.Stop.  Without a pid file there is nothing to signal.            *)
Kill(c) ==
  /\ Acts(c) /\ call[c].pc = "kill"
  /\ LET i == call[c].id IN
       /\ DropCache(i)
       /\ IF "pid" \in dir[i] THEN At(c, "grace") /\ UNCHANGED early
          ELSE /\ At(c, "clean")
               /\ early' = IF Alive(i) \/ Starting(i) THEN early \cup {i} ELSE early
  /\ UNCHANGED <<storeVars, memVars, stateMu, proc, dir, reader, bootVars, lost, cut, late>>

NoKill(c) ==                 \* mutant of Grace: the five seconds pass and that is all
  /\ Acts(c) /\ call[c].pc = "grace"
  /\ At(c, "clean")
  /\ UNCHANGED <<storeVars, memVars, stateMu, driveVars, bootVars, obsVars>>

Grace(c) ==
  /\ Acts(c) /\ call[c].pc = "grace"
  /\ proc' = [proc EXCEPT ![call[c].id] = "dead"]
  /\ At(c, "clean")
  /\ UNCHANGED <<storeVars, memVars, stateMu, dir, cache, reader, bootVars, obsVars>>

KeepCache(c) ==              \* mutant of Clean: only Stop drops the cached address
  /\ Acts(c) /\ call[c].pc = "clean"
  /\ dir' = [dir EXCEPT ![call[c].id] = {}]
  /\ IF call[c].op = "delete" THEN Return(c) /\ stateMu' = Main
     ELSE At(c, IF call[c].op = "stop" THEN "cancel" ELSE "link") /\ UNCHANGED stateMu
  /\ UNCHANGED <<storeVars, memVars, proc, cache, reader, bootVars, obsVars>>

(* Driver.Cleanup.                                                         *)
Clean(c) ==
  /\ Acts(c) /\ call[c].pc = "clean"
  /\ LET i == call[c].id IN
       /\ DropCache(i)
       /\ dir' = [dir EXCEPT ![i] = {}]
  /\ IF call[c].op = "delete" THEN Return(c) /\ stateMu' = Main
     ELSE At(c, IF call[c].op = "stop" THEN "cancel" ELSE "link") /\ UNCHANGED stateMu
  /\ UNCHANGED <<storeVars, memVars, proc, reader, bootVars, obsVars>>

(* cancel and wg.Wait; then the status, then Manager.running.              *)
Cancel(c) ==
  /\ Acts(c) /\ call[c].pc = "cancel"
  /\ life' = [life EXCEPT ![call[c].id] = "none"]
  /\ SetRec(call[c].id, "stopped")
  /\ At(c, "unrun")
  /\ UNCHANGED <<used, running, stateMu, driveVars, bootVars, obsVars>>

Unrun(c) ==
  /\ Acts(c) /\ call[c].pc = "unrun"
  /\ running' = running \ {call[c].id}
  /\ todo' = IF c = Main THEN todo \ {call[c].id} ELSE todo
  /\ Return(c)
  /\ UNCHANGED <<storeVars, life, stateMu, driveVars, daemon, boots, stale, obsVars>>

(* Restart drops the old record if the new one is still there.             *)
Link(c) ==
  /\ Acts(c) /\ call[c].pc = "link"
  /\ IF rec[call[c].new] = "none" THEN UNCHANGED rec
     ELSE rec' = [rec EXCEPT ![call[c].id] = "none"]
  /\ Return(c)
  /\ UNCHANGED <<used, moved, memVars, stateMu, driveVars, bootVars, obsVars>>

----------------------------------------------------------------------------
(***************************************************************************)
(* The daemon.                                                             *)
(***************************************************************************)
OnlyRunning ==               \* mutant of Boot: "starting" is not taken for active
  /\ daemon = "off" /\ boots < MaxBoots
  /\ daemon' = "boot" /\ boots' = boots + 1
  /\ todo' = {i \in Ids : rec[i] = "running"} /\ stale' = {} /\ moved' = FALSE
  /\ UNCHANGED <<rec, used, memVars, call, stateMu, driveVars, obsVars>>

Boot ==
  /\ daemon = "off" /\ boots < MaxBoots
  /\ daemon' = "boot" /\ boots' = boots + 1
  /\ todo' = {i \in Ids : rec[i] \in Active} /\ stale' = {} /\ moved' = FALSE
  /\ UNCHANGED <<rec, used, memVars, call, stateMu, driveVars, obsVars>>

Reattach(i) ==
  /\ daemon = "boot" /\ i \in todo /\ Healthy(i)
  /\ todo' = todo \ {i}
  /\ running' = running \cup {i} /\ life' = [life EXCEPT ![i] = "ready"]
  /\ cache' = cache \cup {i}
  /\ UNCHANGED <<storeVars, call, stateMu, proc, dir, reader, daemon, boots, stale, obsVars>>

(* Not healthy, or the port did not answer within 300 ms.                  *)
FoundDead(i) ==
  /\ daemon = "boot" /\ i \in todo
  /\ todo' = todo \ {i} /\ stale' = stale \cup {i}
  /\ UNCHANGED <<storeVars, memVars, call, stateMu, driveVars, daemon, boots, obsVars>>

(* One SaveWithVersion; a conflict is logged by Server.Start and no more.  *)
ReconcileSave ==
  /\ daemon = "boot" /\ todo = {}
  /\ daemon' = "up"
  /\ IF moved THEN lost' = lost \cup stale /\ UNCHANGED rec
     ELSE rec' = [i \in Ids |-> IF i \in stale THEN "stopped" ELSE rec[i]] /\ UNCHANGED lost
  /\ moved' = FALSE /\ stale' = {}
  /\ UNCHANGED <<used, memVars, call, stateMu, driveVars, boots, todo, cut, early, late>>

(* StopAllKind collects the ids that run now.  The HTTP server goes on.    *)
Shutdown ==
  /\ daemon = "up"
  /\ daemon' = "closing" /\ todo' = running
  /\ late' = Ids \ running
  /\ UNCHANGED <<storeVars, memVars, call, stateMu, driveVars, boots, stale, lost, cut, early>>

(* Another call stopped it in between: Stop returns at once.               *)
NothingToStop(i) ==
  /\ daemon = "closing" /\ i \in todo /\ i \notin running /\ call[Main] = NoCall
  /\ todo' = todo \ {i}
  /\ UNCHANGED <<storeVars, memVars, call, stateMu, driveVars, daemon, boots, stale, obsVars>>

(* What the process held is gone; state.json, the directories and the      *)
(* serve processes, each in a group of its own, remain.                    *)
ProcessEnds ==
  /\ daemon' = "off" /\ running' = {} /\ life' = [i \in Ids |-> "none"]
  /\ call' = [c \in Callers \cup {Main} |-> NoCall] /\ stateMu' = Main
  /\ cache' = {} /\ reader' = {} /\ todo' = {} /\ stale' = {}
  /\ late' = {}
  /\ cut' = cut \cup {call[c].id : c \in {d \in DOMAIN call : call[d].pc \in Teardown \cup {"link"}}}
                \cup {i \in Ids : rec[i] = "none" /\ (i \in running \/ \E c \in Callers : call[c].new = i)}
  /\ UNCHANGED <<storeVars, proc, dir, boots, lost, early>>

ShutdownEnds ==
  /\ daemon = "closing" /\ todo = {} /\ call[Main] = NoCall
  /\ ProcessEnds

Crash == daemon # "off" /\ ProcessEnds

----------------------------------------------------------------------------
CallStep(c) ==
  \/ SpawnRefused(c) \/ Spawn(c) \/ SpawnReady(c) \/ SpawnFails(c) \/ Register(c)
  \/ Kill(c) \/ Grace(c) \/ Clean(c) \/ Cancel(c) \/ Unrun(c) \/ Link(c)

Next ==
  \/ \E i \in Ids : AddrRead(i) \/ AddrStore(i) \/ LifeUp(i)
                    \/ ServeListens(i) \/ ServeWritesPid(i) \/ ServeDies(i)
                    \/ Reattach(i) \/ FoundDead(i) \/ NothingToStop(i)
  \/ \E c \in Callers, i \in Ids :
        DeleteCall(c, i) \/ \E from \in Ids \cup {NoId} : StartCall(c, i, from)
  \/ \E c \in Callers \cup {Main} : CallStep(c) \/ \E i \in Ids : StopCall(c, i)
  \/ Boot \/ ReconcileSave \/ Shutdown \/ ShutdownEnds \/ Crash

Spec == Init /\ [][Next]_vars

----------------------------------------------------------------------------
Calls == [op : {"none", "start", "restart", "stop", "delete"},
          id : Ids \cup {NoId}, new : Ids \cup {NoId},
          pc : {"idle", "spawn", "ready", "register", "cancel", "unrun", "link"} \cup Teardown]

ReasonixTypeOK ==
  /\ daemon \in {"off", "boot", "up", "closing"} /\ boots \in 0 .. MaxBoots
  /\ rec \in [Ids -> Active \cup {"none", "stopped", "failed"}]
  /\ life \in [Ids -> {"none", "ready", "poll"}]
  /\ used \subseteq Ids /\ running \subseteq used /\ todo \subseteq used /\ stale \subseteq used
  /\ call \in [Callers \cup {Main} -> Calls] /\ stateMu \in Callers \cup {Main}
  /\ moved \in BOOLEAN
  /\ proc \in [Ids -> {"none", "exec", "up", "dead"}]
  /\ dir \in [Ids -> SUBSET Files] /\ cache \subseteq used /\ reader \subseteq used
  /\ \A i \in Ids : dir[i] # {} => "token" \in dir[i]

Handled(i) == \E c \in DOMAIN call : i \in {call[c].id, call[c].new}

(* Whatever is alive can still be stopped by a call: it is registered, or  *)
(* its record is there to be deleted, or a call is at it.  The exceptions  *)
(* are a teardown that found no pid yet, and one a crash cut short after   *)
(* the record had gone: nothing at startup looks for such a process.       *)
NoOrphan ==
  \A i \in Ids : Alive(i) =>
     i \in running \/ rec[i] # "none" \/ Handled(i) \/ i \in early \cup cut

(* Once the daemon serves, an active record has a process behind it that   *)
(* Stop can find, unless the reconciliation's only save was refused.       *)
ActiveIsManaged ==
  Serving => \A i \in Ids : rec[i] \in Active => i \in running \/ Handled(i) \/ i \in lost

(* The entry of an instance whose directory is gone is stale for good: the *)
(* teardown leaves none, only a request that had read the files before it. *)
StaleOnlyByRequest ==
  [][\A i \in cache' : dir'[i] = {} => AddrStore(i) \/ (i \in cache /\ dir[i] = {})]_vars

(* An orderly shutdown leaves no serve behind but those that were not      *)
(* registered when StopAllKind looked.                                     *)
ShutdownStops ==
  [][ShutdownEnds => \A i \in Ids : Alive(i) => i \in late \cup early]_vars

(* After a deletion nothing is left in the data directory, unless a crash  *)
(* came between the record's end and the directory's, or the instance was  *)
(* deleted while it was starting.                                          *)
DirRemoved ==
  \A i \in used : rec[i] = "none" /\ ~Handled(i) /\ i \notin running => dir[i] = {} \/ i \in cut \cup early

(* Neither a process nor a directory is left with nobody to remove it.     *)
NothingLeft == ReasonixTypeOK /\ NoOrphan /\ DirRemoved
=============================================================================
