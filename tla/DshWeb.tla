------------------------------- MODULE DshWeb -------------------------------
(***************************************************************************)
(* internal/instance/dsh_web: one dsh-web instance from Spawn to the end.  *)
(* Four goroutines serve a handle (pumpAndWatch, healthLoop, wait and      *)
(* bootstrap), a fifth serves its reverse proxy and calls markProxyDead if *)
(* that fails; the framework adds the lifecycle goroutine and whoever      *)
(* calls Stop.  They meet in the handle (h.mu, proxyOnce, the context, the *)
(* channels ready and exited) and in the stored record, which each of them *)
(* writes through the publisher.                                           *)
(*                                                                         *)
(* A publisher call is one atomic update of the record here; what two such *)
(* calls do to each other in state.json is InstanceManager's subject.      *)
(***************************************************************************)
EXTENDS Naturals, FiniteSets

CONSTANTS
  Callers,           \* requests that call Manager.Stop
  HealthThreshold    \* healthFailThreshold

ASSUME ThresholdAssumption == HealthThreshold \in Nat \ {0}

VARIABLES
  main,    \* Manager.Start: where it is
  child,   \* the dsh process: "none", "live" or "dead"
  killed,  \* SIGKILL was sent to it
  said,    \* its ready line is in the pipe
  cut,     \* the pump left at an overlong line: nobody reads the pipe
  pump, pumpBlob,    \* pumpAndWatch, and the blob it is about to publish
  health, fails,     \* healthLoop and h.failCount
  waiter,            \* wait
  boot, bootBlob,    \* bootstrap
  pd, pdBlob,        \* the proxy's serve goroutine and markProxyDead
  proxy,   \* its listener: "none", "up", "broken" or "closed"
  hnd,     \* the handle and its channels
  blob,    \* h.blob
  rec,     \* the stored record: status and blob
  life,    \* runLifecycle
  managed, \* m.running has the instance
  stop,    \* [Callers -> where Stop is]
  obs      \* observer of the races the properties name

procVars   == <<child, killed, said, cut>>
pumpVars   == <<pump, pumpBlob>>
healthVars == <<health, fails>>
bootVars   == <<boot, bootBlob>>
pdVars     == <<pd, pdBlob>>
vars == <<main, procVars, pumpVars, healthVars, waiter, bootVars, pdVars, proxy,
          hnd, blob, rec, life, managed, stop, obs>>

(* url: the proxy's address is unknown; known; known but IframeURL cleared. *)
Blobs  == [url : {"none", "live", "cleared"}, ws : BOOLEAN]
NoBlob == [url |-> "none", ws |-> FALSE]

Flags   == {"addr", "closer", "once", "dead", "done", "ready", "exited"}
Is(f)   == f \in hnd
Set(f)  == hnd' = hnd \cup {f}
Saw(x)  == obs' = obs \cup {x}
Bound   == main \in {"reg", "up"}                  \* SetPublishers was called

(* The publisher's calls; none before SetPublishers.                       *)
Mark(s)    == rec' = IF Bound THEN [rec EXCEPT !.status = s] ELSE rec
Persist(b) == rec' = IF Bound THEN [rec EXCEPT !.blob = b] ELSE rec
Outgrown(b) == obs' = IF b # blob \/ ~Bound THEN obs \cup {"outgrown"} ELSE obs \ {"outgrown"}
Timely      == obs \ {"late", "slow"}      \* a verdict replaced a late "running"
Verdict(s)  == Mark(s) /\ obs' = IF Bound THEN Timely ELSE obs

Init ==
  /\ main = "spawn" /\ child = "none" /\ killed = FALSE /\ said = FALSE /\ cut = FALSE
  /\ pump = "off" /\ pumpBlob = NoBlob /\ health = "off" /\ fails = 0 /\ waiter = "off"
  /\ boot = "off" /\ bootBlob = NoBlob /\ pd = "off" /\ pdBlob = NoBlob /\ proxy = "none"
  /\ hnd = {} /\ blob = NoBlob
  /\ rec = [status |-> "starting", blob |-> NoBlob]
  /\ life = "off" /\ managed = FALSE /\ stop = [c \in Callers |-> "idle"]
  /\ obs = {}

----------------------------------------------------------------------------
(***************************************************************************)
(* Manager.Start.                                                          *)
(***************************************************************************)
(* Launch mode, version gate, overlay or preStart: see DshLaunch.          *)
SpawnFails ==
  /\ main = "spawn" /\ main' = "failed"
  /\ rec' = [rec EXCEPT !.status = "failed"]
  /\ UNCHANGED <<procVars, pumpVars, healthVars, waiter, bootVars, pdVars, proxy,
                 hnd, blob, life, managed, stop, obs>>

Spawn ==
  /\ main = "spawn" /\ main' = "bind"
  /\ child' = "live"
  /\ pump' = "scan" /\ health' = "loop" /\ waiter' = "wait" /\ boot' = "wait"
  /\ UNCHANGED <<killed, said, cut, pumpBlob, fails, bootBlob, pdVars, proxy,
                 hnd, blob, rec, life, managed, stop, obs>>

Bind ==
  /\ main = "bind" /\ main' = "reg"
  /\ UNCHANGED <<procVars, pumpVars, healthVars, waiter, bootVars, pdVars, proxy,
                 hnd, blob, rec, life, managed, stop, obs>>

Register ==
  /\ main = "reg" /\ main' = "up"
  /\ managed' = TRUE /\ life' = "wait"
  /\ UNCHANGED <<procVars, pumpVars, healthVars, waiter, bootVars, pdVars, proxy,
                 hnd, blob, rec, stop, obs>>

----------------------------------------------------------------------------
(***************************************************************************)
(* The dsh process.                                                        *)
(***************************************************************************)
ChildReady ==
  /\ child = "live" /\ ~said
  /\ said' = TRUE
  /\ UNCHANGED <<main, child, killed, cut, pumpVars, healthVars, waiter, bootVars, pdVars, proxy,
                 hnd, blob, rec, life, managed, stop, obs>>

(* A line longer than scanMaxLineBytes ends the scanner.                   *)
ChildBabbles ==
  /\ child = "live" /\ ~said /\ pump = "scan"
  /\ pump' = "end" /\ cut' = TRUE
  /\ UNCHANGED <<main, child, killed, said, pumpBlob, healthVars, waiter, bootVars, pdVars, proxy,
                 hnd, blob, rec, life, managed, stop, obs>>

ChildEnds ==
  /\ child = "live" /\ child' = "dead"
  /\ UNCHANGED <<main, killed, said, cut, pumpVars, healthVars, waiter, bootVars, pdVars, proxy,
                 hnd, blob, rec, life, managed, stop, obs>>

----------------------------------------------------------------------------
(***************************************************************************)
(* closeProxy runs once, with the closer it finds.                         *)
(***************************************************************************)
CloseProxy(flags) ==
  /\ hnd' = hnd \cup {"once"} \cup flags
  /\ proxy' = IF ~Is("once") /\ Is("closer") THEN "closed" ELSE proxy
  /\ obs' = IF ~Is("once") /\ ~Is("closer") /\ pump \in {"starter", "store"}
              THEN obs \cup {"early"} ELSE obs

----------------------------------------------------------------------------
(***************************************************************************)
(* pumpAndWatch.                                                           *)
(***************************************************************************)
PumpLine ==
  /\ pump = "scan" /\ said
  /\ IF Is("done") THEN pump' = "end" /\ UNCHANGED hnd
                   ELSE pump' = "starter" /\ Set("addr")
  /\ UNCHANGED <<main, procVars, pumpBlob, healthVars, waiter, bootVars, pdVars, proxy,
                 blob, rec, life, managed, stop, obs>>

(* Outside h.mu.  Without a listener the instance runs proxy-less.         *)
PumpStarter ==
  /\ pump = "starter"
  /\ \/ pump' = "blob" /\ UNCHANGED <<proxy, pd>>
     \/ pump' = "store" /\ proxy' = "up" /\ pd' = "serve"
  /\ UNCHANGED <<main, procVars, pumpBlob, healthVars, waiter, bootVars, pdBlob,
                 hnd, blob, rec, life, managed, stop, obs>>

NoCloser ==                  \* mutant of PumpStore: h.proxyClose is not set
  /\ pump = "store" /\ pump' = "blob"
  /\ blob' = [blob EXCEPT !.url = "live"]
  /\ UNCHANGED <<main, procVars, pumpBlob, healthVars, waiter, bootVars, pdVars, proxy,
                 hnd, rec, life, managed, stop, obs>>

PumpStore ==
  /\ pump = "store" /\ pump' = "blob"
  /\ Set("closer")
  /\ blob' = [blob EXCEPT !.url = "live"]
  /\ UNCHANGED <<main, procVars, pumpBlob, healthVars, waiter, bootVars, pdVars, proxy,
                 rec, life, managed, stop, obs>>

PumpBlob ==
  /\ pump = "blob" /\ pump' = "publish"
  /\ pumpBlob' = blob
  /\ UNCHANGED <<main, procVars, healthVars, waiter, bootVars, pdVars, proxy,
                 hnd, blob, rec, life, managed, stop, obs>>

PumpPublish ==
  /\ pump = "publish" /\ pump' = "ready"
  /\ Persist(pumpBlob) /\ Outgrown(pumpBlob) /\ pumpBlob' = NoBlob
  /\ UNCHANGED <<main, procVars, healthVars, waiter, bootVars, pdVars, proxy,
                 hnd, blob, life, managed, stop>>

PumpReady ==
  /\ pump = "ready" /\ pump' = "mark"
  /\ Set("ready")
  /\ UNCHANGED <<main, procVars, pumpBlob, healthVars, waiter, bootVars, pdVars, proxy,
                 blob, rec, life, managed, stop, obs>>

(* wait has written its last word by the time it closes the proxy.         *)
Judged == waiter \in {"failed", "close", "end"}
LateRunning == obs' = obs \cup (IF Judged \/ Is("dead") THEN {"late"} ELSE {})
                          \cup (IF life = "end" THEN {"slow"} ELSE {})

PumpMark ==
  /\ pump = "mark" /\ pump' = "drain"
  /\ Mark("running") /\ LateRunning
  /\ UNCHANGED <<main, procVars, pumpBlob, healthVars, waiter, bootVars, pdVars, proxy,
                 hnd, blob, life, managed, stop>>

----------------------------------------------------------------------------
(***************************************************************************)
(* healthLoop.  A probe fails when dsh does not answer and when the        *)
(* context ends under it, and the second counts like the first.            *)
(***************************************************************************)
HealthGood ==
  /\ health = "loop" /\ Is("addr") /\ child = "live" /\ ~Is("done")
  /\ fails # 0 /\ fails' = 0
  /\ UNCHANGED <<main, procVars, pumpVars, health, waiter, bootVars, pdVars, proxy,
                 hnd, blob, rec, life, managed, stop, obs>>

HealthBad ==
  /\ health = "loop" /\ Is("addr")
  /\ fails' = fails + 1
  /\ health' = IF fails + 1 >= HealthThreshold THEN "mark" ELSE "loop"
  /\ UNCHANGED <<main, procVars, pumpVars, waiter, bootVars, pdVars, proxy,
                 hnd, blob, rec, life, managed, stop, obs>>

HealthMark ==
  /\ health = "mark" /\ health' = "end"
  /\ Verdict("failed")
  /\ UNCHANGED <<main, procVars, pumpVars, fails, waiter, bootVars, pdVars, proxy,
                 hnd, blob, life, managed, stop>>

HealthDone ==
  /\ health = "loop" /\ Is("done")
  /\ health' = "end"
  /\ UNCHANGED <<main, procVars, pumpVars, fails, waiter, bootVars, pdVars, proxy,
                 hnd, blob, rec, life, managed, stop, obs>>

----------------------------------------------------------------------------
(***************************************************************************)
(* wait.                                                                   *)
(***************************************************************************)
(* cmd.Wait also waits until the output is read; with a pump that left     *)
(* early it may wait for ever.                                             *)
Reap ==
  /\ waiter = "wait" /\ child = "dead"
  /\ said => pump # "scan"
  /\ waiter' = "reason" /\ Set("done")
  /\ UNCHANGED <<main, procVars, pumpVars, healthVars, bootVars, pdVars, proxy,
                 blob, rec, life, managed, stop, obs>>

WaitReason ==
  /\ waiter = "reason"
  /\ waiter' = IF Is("dead") THEN "blame" ELSE "exit"
  /\ UNCHANGED <<main, procVars, pumpVars, healthVars, bootVars, pdVars, proxy,
                 hnd, blob, rec, life, managed, stop, obs>>

ExitedFirst ==               \* mutant of WaitExited: the channel closes before the record is written
  /\ waiter \in {"exit", "blame"}
  /\ IF Is("exited")
       THEN /\ Verdict("exited") /\ UNCHANGED hnd
            /\ waiter' = IF waiter = "blame" THEN "failed" ELSE "close"
       ELSE Set("exited") /\ UNCHANGED <<rec, obs, waiter>>
  /\ UNCHANGED <<main, procVars, pumpVars, healthVars, bootVars, pdVars, proxy,
                 blob, life, managed, stop>>

WaitExited ==
  /\ waiter \in {"exit", "blame"}
  /\ waiter' = IF waiter = "blame" THEN "failed" ELSE "close"
  /\ Verdict("exited")
  /\ UNCHANGED <<main, procVars, pumpVars, healthVars, bootVars, pdVars, proxy,
                 hnd, blob, life, managed, stop>>

Blamed == obs' = IF Bound THEN Timely \cup {"blamed"} ELSE obs

NoBlame ==                   \* mutant of WaitFailed: the death reason is dropped
  /\ waiter = "failed" /\ waiter' = "close"
  /\ Blamed
  /\ UNCHANGED <<main, procVars, pumpVars, healthVars, bootVars, pdVars, proxy,
                 hnd, blob, rec, life, managed, stop>>

WaitFailed ==
  /\ waiter = "failed" /\ waiter' = "close"
  /\ Mark("failed") /\ Blamed
  /\ UNCHANGED <<main, procVars, pumpVars, healthVars, bootVars, pdVars, proxy,
                 hnd, blob, life, managed, stop>>

(* h.exited is closed last.                                                *)
WaitDone ==
  /\ waiter = "close" /\ waiter' = "end"
  /\ CloseProxy({"exited"})
  /\ UNCHANGED <<main, procVars, pumpVars, healthVars, bootVars, pdVars,
                 blob, rec, life, managed, stop>>

----------------------------------------------------------------------------
(***************************************************************************)
(* bootstrap.  createWorkspace answers, or fails three times.              *)
(***************************************************************************)
BootWait ==
  /\ boot = "wait"
  /\ \/ Is("ready") /\ boot' = "call"
     \/ Is("done") /\ boot' = "end"
  /\ UNCHANGED <<main, procVars, pumpVars, healthVars, waiter, bootBlob, pdVars, proxy,
                 hnd, blob, rec, life, managed, stop, obs>>

BootCall ==
  /\ boot = "call"
  /\ \/ /\ boot' = "publish"
        /\ blob' = [blob EXCEPT !.ws = TRUE] /\ bootBlob' = blob'
     \/ boot' = "end" /\ UNCHANGED <<blob, bootBlob>>
  /\ UNCHANGED <<main, procVars, pumpVars, healthVars, waiter, pdVars, proxy,
                 hnd, rec, life, managed, stop, obs>>

BootPublish ==
  /\ boot = "publish" /\ boot' = "end"
  /\ Persist(bootBlob) /\ Outgrown(bootBlob) /\ bootBlob' = NoBlob
  /\ UNCHANGED <<main, procVars, pumpVars, healthVars, waiter, pdVars, proxy,
                 hnd, blob, life, managed, stop>>

----------------------------------------------------------------------------
(***************************************************************************)
(* The proxy's serve goroutine.                                            *)
(***************************************************************************)
ProxyBreaks ==
  /\ pd = "serve" /\ proxy = "up"
  /\ pd' = "lock" /\ proxy' = "broken"
  /\ UNCHANGED <<main, procVars, pumpVars, healthVars, waiter, bootVars, pdBlob,
                 hnd, blob, rec, life, managed, stop, obs>>

(* markProxyDead, from here on.                                            *)
PdLock ==
  /\ pd = "lock" /\ pd' = "publish"
  /\ Set("dead")
  /\ blob' = [blob EXCEPT !.url = IF @ = "live" THEN "cleared" ELSE @]
  /\ pdBlob' = blob'
  /\ UNCHANGED <<main, procVars, pumpVars, healthVars, waiter, bootVars, proxy,
                 rec, life, managed, stop, obs>>

NoPdPublish ==               \* mutant of PdPublish: the blob is not persisted
  /\ pd = "publish" /\ pd' = "fail"
  /\ UNCHANGED <<main, procVars, pumpVars, healthVars, waiter, bootVars, pdBlob, proxy,
                 hnd, blob, rec, life, managed, stop, obs>>

PdPublish ==
  /\ pd = "publish" /\ pd' = "fail"
  /\ Persist(pdBlob) /\ Outgrown(pdBlob) /\ pdBlob' = NoBlob
  /\ UNCHANGED <<main, procVars, pumpVars, healthVars, waiter, bootVars, proxy,
                 hnd, blob, life, managed, stop>>

PdFail ==
  /\ pd = "fail" /\ pd' = "cancel"
  /\ Verdict("failed")
  /\ UNCHANGED <<main, procVars, pumpVars, healthVars, waiter, bootVars, pdBlob, proxy,
                 hnd, blob, life, managed, stop>>

(* The context, the proxy, and SIGTERM, which dsh may ignore.              *)
PdTeardown ==
  /\ pd = "cancel" /\ pd' = "end"
  /\ CloseProxy({"done"})
  /\ UNCHANGED <<main, procVars, pumpVars, healthVars, waiter, bootVars, pdBlob,
                 blob, rec, life, managed, stop>>

----------------------------------------------------------------------------
(***************************************************************************)
(* runLifecycle.                                                           *)
(***************************************************************************)
Cancelled == \E c \in Callers : stop[c] \in {"join", "done"}

LifeReady ==
  /\ life = "wait" /\ Is("ready") /\ life' = "up"
  /\ UNCHANGED <<main, procVars, pumpVars, healthVars, waiter, bootVars, pdVars, proxy,
                 hnd, blob, rec, managed, stop, obs>>

LifeUp ==
  /\ life = "up" /\ life' = "poll"
  /\ rec' = [rec EXCEPT !.status = "running"] /\ LateRunning
  /\ UNCHANGED <<main, procVars, pumpVars, healthVars, waiter, bootVars, pdVars, proxy,
                 hnd, blob, managed, stop>>

(* Sixty seconds without the ready signal.                                 *)
LifeTimeout ==
  /\ life = "wait" /\ ~Is("ready") /\ life' = "end"
  /\ rec' = [rec EXCEPT !.status = "failed"] /\ managed' = FALSE /\ obs' = Timely
  /\ UNCHANGED <<main, procVars, pumpVars, healthVars, waiter, bootVars, pdVars, proxy,
                 hnd, blob, stop>>

(* Driver.Status at a tick.                                                *)
LifePoll ==
  /\ life = "poll"
  /\ Is("dead") \/ fails >= HealthThreshold
  /\ life' = "bad"
  /\ UNCHANGED <<main, procVars, pumpVars, healthVars, waiter, bootVars, pdVars, proxy,
                 hnd, blob, rec, managed, stop, obs>>

LifeBad ==
  /\ life = "bad" /\ life' = "end"
  /\ rec' = [rec EXCEPT !.status = "failed"] /\ managed' = FALSE /\ obs' = Timely
  /\ UNCHANGED <<main, procVars, pumpVars, healthVars, waiter, bootVars, pdVars, proxy,
                 hnd, blob, stop>>

LifeCancelled ==
  /\ life \in {"wait", "poll"} /\ Cancelled /\ life' = "end"
  /\ UNCHANGED <<main, procVars, pumpVars, healthVars, waiter, bootVars, pdVars, proxy,
                 hnd, blob, rec, managed, stop, obs>>

----------------------------------------------------------------------------
(***************************************************************************)
(* Manager.Stop and Driver.Stop.                                           *)
(***************************************************************************)
StopTo(c, l) == stop' = [stop EXCEPT ![c] = l]

(* SIGTERM at once; what dsh does about it is ChildEnds.                   *)
StopCall(c) ==
  /\ stop[c] = "idle" /\ main \notin {"spawn", "failed"}
  /\ StopTo(c, IF managed THEN "wait" ELSE "unknown")
  /\ UNCHANGED <<main, procVars, pumpVars, healthVars, waiter, bootVars, pdVars, proxy,
                 hnd, blob, rec, life, managed, obs>>

NoKill(c) ==                 \* mutant of StopKill: the process is not killed after the grace
  /\ stop[c] = "wait" /\ StopTo(c, "killed")
  /\ UNCHANGED <<main, procVars, pumpVars, healthVars, waiter, bootVars, pdVars, proxy,
                 hnd, blob, rec, life, managed, obs>>

StopKill(c) ==
  /\ stop[c] = "wait" /\ StopTo(c, "killed")
  /\ killed' = TRUE
  /\ UNCHANGED <<main, child, said, cut, pumpVars, healthVars, waiter, bootVars, pdVars, proxy,
                 hnd, blob, rec, life, managed, obs>>

StopExited(c) ==
  /\ stop[c] \in {"wait", "killed"} /\ Is("exited")
  /\ StopTo(c, "close")
  /\ UNCHANGED <<main, procVars, pumpVars, healthVars, waiter, bootVars, pdVars, proxy,
                 hnd, blob, rec, life, managed, obs>>

StopClose(c) ==
  /\ stop[c] = "close" /\ StopTo(c, "join")
  /\ CloseProxy({})
  /\ UNCHANGED <<main, procVars, pumpVars, healthVars, waiter, bootVars, pdVars,
                 blob, rec, life, managed>>

(* ri.cancel and ri.wg.Wait; "stopped"; the entry is deleted.              *)
StopJoin(c) ==
  /\ stop[c] = "join" /\ life = "end" /\ StopTo(c, "done")
  /\ rec' = [rec EXCEPT !.status = "stopped"] /\ managed' = FALSE /\ obs' = Timely
  /\ UNCHANGED <<main, procVars, pumpVars, healthVars, waiter, bootVars, pdVars, proxy,
                 hnd, blob, life>>

----------------------------------------------------------------------------
StartStep  == Spawn \/ Bind \/ Register
ChildStep  == ChildReady \/ ChildBabbles \/ ChildEnds
PumpStep   == \/ PumpLine \/ PumpStarter \/ PumpStore \/ PumpBlob
              \/ PumpPublish \/ PumpReady \/ PumpMark
HealthStep == HealthGood \/ HealthBad \/ HealthMark \/ HealthDone
WaitStep   == WaitReason \/ WaitExited \/ WaitFailed \/ WaitDone
BootStep   == BootWait \/ BootCall \/ BootPublish
PdStep     == PdLock \/ PdPublish \/ PdFail \/ PdTeardown
LifeStep   == \/ LifeReady \/ LifeUp \/ LifeTimeout \/ LifePoll \/ LifeBad
              \/ LifeCancelled
StopStep(c) == StopKill(c) \/ StopExited(c) \/ StopClose(c) \/ StopJoin(c)

Next ==
  \/ SpawnFails \/ StartStep \/ ChildStep \/ PumpStep \/ HealthStep \/ Reap \/ WaitStep
  \/ BootStep \/ ProxyBreaks \/ PdStep \/ LifeStep
  \/ \E c \in Callers : StopCall(c) \/ StopStep(c)

Spec == Init /\ [][Next]_vars

(* Goroutines are scheduled; a killed process ends.  Nothing is assumed of *)
(* dsh itself: it may never get ready, and ignore SIGTERM.                 *)
FairSpec ==
  /\ Spec
  /\ WF_vars(PumpStep) /\ WF_vars(WaitStep) /\ WF_vars(LifeStep)
  /\ WF_vars(ChildEnds /\ killed)
  /\ WF_vars(Reap /\ ~cut)
  /\ \A c \in Callers : WF_vars(StopStep(c))

----------------------------------------------------------------------------
(***************************************************************************)
(* Properties.                                                             *)
(***************************************************************************)
(* Every variable has its type.                                            *)
DshTypeOK ==
  /\ main \in {"spawn", "failed", "bind", "reg", "up"}
  /\ child \in {"none", "live", "dead"} /\ killed \in BOOLEAN
  /\ said \in BOOLEAN /\ cut \in BOOLEAN /\ managed \in BOOLEAN
  /\ pump \in {"off", "scan", "starter", "store", "blob", "publish", "ready",
               "mark", "drain", "end"}
  /\ health \in {"off", "loop", "mark", "end"} /\ fails \in 0..HealthThreshold
  /\ waiter \in {"off", "wait", "reason", "exit", "blame", "failed", "close", "end"}
  /\ boot \in {"off", "wait", "call", "publish", "end"}
  /\ pd \in {"off", "serve", "lock", "publish", "fail", "cancel", "end"}
  /\ proxy \in {"none", "up", "broken", "closed"}
  /\ {pumpBlob, bootBlob, pdBlob, blob} \subseteq Blobs
  /\ hnd \subseteq Flags
  /\ rec \in [status : {"starting", "running", "stopped", "failed", "exited"}, blob : Blobs]
  /\ life \in {"off", "wait", "up", "poll", "bad", "end"}
  /\ stop \in [Callers -> {"idle", "unknown", "wait", "killed", "close", "join", "done"}]
  /\ obs \subseteq {"early", "outgrown", "late", "slow", "blamed"}

(* When the process is reaped and the pump is past the proxy's start, the  *)
(* proxy's socket is closed: wait, Stop and markProxyDead all call         *)
(* closeProxy.  Its sync.Once can be used up, though, while the pump has   *)
(* the listener and has not stored its close function yet ("early").       *)
ListenerClosed ==
  Is("exited") /\ pump \notin {"starter", "store"} /\ proxy \in {"up", "broken"}
    => "early" \in obs

(* Stop's promise: when it returns, the process it found is dead.          *)
StopMeansDead == \A c \in Callers : stop[c] \in {"close", "join", "done"} => child = "dead"

(* wait closes h.exited after its last write, so a Stop that returned is   *)
(* never followed by "exited" in the record.                               *)
ExitBeforeStop ==
  [][(\E c \in Callers : stop[c] = "done") /\ rec'.status = "exited"
       => rec.status = "exited"]_vars

(* A reaped process is not recorded as running, unless the pump or the     *)
(* lifecycle, which write "running" at the ready line, came after wait.    *)
DeadNotRunning ==
  Is("exited") /\ main = "up" /\ rec.status = "running" => "late" \in obs

(* An instance whose proxy died stays failed although MarkExited follows,  *)
(* with the same exception, until somebody stops it.                       *)
ProxyBlamed ==
  "blamed" \in obs => rec.status \in {"failed", "stopped"} \/ "late" \in obs

(* A process that Stop no longer finds is one the user was told of: its    *)
(* record says failed, unless dsh got ready after the lifecycle had given  *)
(* it up ("slow"): such an instance is recorded as running, and can be     *)
(* neither stopped nor deleted.                                            *)
LostIsFailed ==
  child = "live" /\ main = "up" /\ ~managed
    => rec.status = "failed" \/ {"slow", "late"} \cap obs # {}

(* Once nobody has a blob to write, the record has the handle's blob,      *)
(* unless a goroutine wrote a copy that another had outgrown (the blob is  *)
(* copied under h.mu and written after it) or wrote before SetPublishers.  *)
BlobPersisted ==
  main = "up" /\ pump = "drain" /\ boot = "end" /\ pd \notin {"lock", "publish"}
    => rec.blob = blob \/ "outgrown" \in obs

(* Stop returns, also from a dsh that ignores SIGTERM, unless the pump     *)
(* left the pipe unread: then cmd.Wait never returns.                      *)
StopReturns ==
  \A c \in Callers : stop[c] = "wait" ~> stop[c] = "done" \/ cut

(* A reaped process leaves no listener, and a Stop that returns leaves no  *)
(* process.                                                                *)
DeadIsDead == DshTypeOK /\ ListenerClosed /\ StopMeansDead

(* The record tells how an instance ended, or that it was lost.            *)
EndRecorded == DeadNotRunning /\ ProxyBlamed /\ LostIsFailed
=============================================================================
