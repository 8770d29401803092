----------------------------- MODULE DshLaunch -----------------------------
(* Which dsh a worktree starts, and the version gate in front of it:        *)
(* internal/instance/dsh_web/launch.go, version.go and the first half of    *)
(* Driver.Spawn, with the three handlers of app.go that choose, install and *)
(* report.  The choice is one file per worktree, launch.json, rewritten in  *)
(* place with os.WriteFile (truncate, then write) by requests that hold no  *)
(* lock; the binaries on the machine are replaced by the user and by npm at *)
(* any time; a probed version is memoised per path until the daemon ends.   *)
EXTENDS Integers

CONSTANTS
  Requests,        \* concurrent HTTP requests: starts, mode changes, installs
  Releases,        \* versions a binary may have, <<major, minor, patch>>
  Dev,             \* a binary whose --version output has no x.y.z in it
  Gone,            \* no binary at that path
  NoBin, NoVersion, Nobody, NoRun, \* the empty string, no memo entry, ...
  Empty, Garbage,  \* launch.json just truncated; launch.json that is no JSON
  MaxChanges       \* bound on installs, on the user's changes and on restarts

ASSUME LaunchConstants ==
  /\ MaxChanges \in Nat
  /\ \A v \in Releases : v \in Nat \X Nat \X Nat
  /\ {Dev, Gone, NoVersion} \cap Releases = {}
  /\ Dev # Gone /\ Dev # NoVersion /\ Gone # NoVersion /\ Empty # Garbage
  /\ NoBin \notin {"path", "global"} /\ Nobody \notin Requests

VARIABLES
  file,    \* launch.json of the one worktree modelled
  disk,    \* the version of the binary at each path, or Gone
  gen,     \* how often that binary was replaced (seen only by properties)
  memo,    \* Driver.verMemo: [ver, gen] of the probe that was stored
  lock,    \* the request holding Server.dshInstallMu
  pc,      \* where each request stands
  cfg,     \* the launchConfig a request has read and will use or write
  got,     \* a start's executable and the probe it goes by
  run,     \* the last dsh started: which, of what version, by which probe
  changes, \* installs, user changes and restarts so far
  spoiled, \* launch.json was written by two at once, or a write was cut short
  healed   \* an install was the last thing that happened to file and disk

vars == <<file, disk, gen, memo, lock, pc, cfg, got, run, changes, spoiled, healed>>

MinVersion == <<0, 2, 0>>
Bins == {"path", "global"}    \* the user's own dsh; the one under npm prefix -g
Modes == {"path", "npx", "install"}
Configs == [mode : Modes, bin : Bins \cup {NoBin}]
Default == [mode |-> "path", bin |-> NoBin]
NoProbe == [ver |-> NoVersion, gen |-> 0]
Probes == [ver : Releases \cup {Dev, NoVersion}, gen : 0..MaxChanges]

\* versionLess: the first differing component decides.
VersionLess(a, b) ==
  \E i \in 1..3 : a[i] < b[i] /\ \A j \in 1..(i - 1) : a[j] = b[j]

\* hardVersionOK: below the floor fails; what cannot be parsed is tolerated.
HardVersionOK(v) == v = Dev \/ ~VersionLess(v, MinVersion)

\* exec.LookPath("dsh"): the npm prefix is on PATH too, after the user's own.
LookPath == IF disk["path"] # Gone THEN "path"
            ELSE IF disk["global"] # Gone THEN "global" ELSE NoBin

\* resolveLaunch for the modes path and install: a recorded path is taken as
\* it is, whether or not something is still there.
ResolveLaunch(c) ==
  IF c.mode = "install" /\ c.bin # NoBin THEN c.bin ELSE LookPath

Readable == file \in Configs

\* SetLaunchMode keeps the recorded path only for the mode install.
WithMode(c, m) == [mode |-> m, bin |-> IF m = "install" THEN c.bin ELSE NoBin]
KeepsMode(c, b) == [c EXCEPT !.bin = b]                         \* mutant
WithBin(c, b) == [mode |-> "install", bin |-> b]

\* The bytes of a configuration, by length only: a shorter write over a
\* longer text leaves the text's tail, and that is no JSON.
Length(c) == CASE c.mode = "npx" -> 1 [] c.mode = "path" -> 2
               [] c.mode = "install" /\ c.bin = NoBin -> 3 [] OTHER -> 4

Writers == {r \in Requests : pc[r] = "writing"}
Goto(r, l) == pc' = [pc EXCEPT ![r] = l]

Init ==
  /\ file = Default
  /\ disk \in [Bins -> Releases \cup {Dev, Gone}]
  /\ gen = [b \in Bins |-> 0]
  /\ memo = [b \in Bins |-> NoProbe]
  /\ lock = Nobody
  /\ pc = [r \in Requests |-> "idle"]
  /\ cfg = [r \in Requests |-> Default]
  /\ got = [r \in Requests |-> [bin |-> NoBin, probe |-> NoProbe]]
  /\ run = NoRun /\ changes = 0 /\ spoiled = FALSE /\ healed = FALSE

\* A request that ends forgets what it knew and gives the install lock back.
Ends(r) ==
  /\ Goto(r, "idle")
  /\ cfg' = [cfg EXCEPT ![r] = Default]
  /\ got' = [got EXCEPT ![r] = [bin |-> NoBin, probe |-> NoProbe]]
  /\ lock' = IF lock = r THEN Nobody ELSE lock

-----------------------------------------------------------------------------
(* Spawn.                                                                   *)

\* readLaunch and resolveLaunch.  A launch.json that cannot be read, or a dsh
\* or npx that is nowhere, fails the start: nothing changes.  The mode npx
\* takes its pinned version on trust and starts no binary of this machine.
Resolve(r) ==
  /\ pc[r] = "idle" /\ Readable /\ file.mode # "npx"
  /\ LET exe == ResolveLaunch(file) IN
       /\ exe # NoBin
       /\ got' = [got EXCEPT ![r].bin = exe]
  /\ Goto(r, "gate")
  /\ UNCHANGED <<file, disk, gen, memo, lock, cfg, run, changes, spoiled, healed>>

\* probeAndGate, memo hit: no process is run.
MemoHit(r) ==
  /\ pc[r] = "gate" /\ memo[got[r].bin] # NoProbe
  /\ got' = [got EXCEPT ![r].probe = memo[got[r].bin]]
  /\ Goto(r, "ready")
  /\ UNCHANGED <<file, disk, gen, memo, lock, cfg, run, changes, spoiled, healed>>

\* probeVersion: `bin --version`, outside verMu; a missing binary fails.
Probe(r) ==
  /\ pc[r] = "gate" /\ memo[got[r].bin] = NoProbe
  /\ LET b == got[r].bin IN
       IF disk[b] = Gone THEN Ends(r)
       ELSE /\ got' = [got EXCEPT ![r].probe = [ver |-> disk[b], gen |-> gen[b]]]
            /\ Goto(r, "probed")
            /\ UNCHANGED <<cfg, lock>>
  /\ UNCHANGED <<file, disk, gen, memo, run, changes, spoiled, healed>>

MemoFirst(r) ==                                                 \* mutant
  LET b == got[r].bin  p == got[r].probe IN
  /\ pc[r] = "probed"
  /\ memo' = IF p.ver = Dev THEN memo ELSE [memo EXCEPT ![b] = p]
  /\ IF ~HardVersionOK(p.ver) THEN Ends(r)
     ELSE Goto(r, "ready") /\ UNCHANGED <<cfg, got, lock>>
  /\ UNCHANGED <<file, disk, gen, run, changes, spoiled, healed>>

\* The floor, then the memo: a refusal and a dev build are not remembered.
Gate(r) ==
  LET b == got[r].bin  p == got[r].probe IN
  /\ pc[r] = "probed"
  /\ IF ~HardVersionOK(p.ver) THEN Ends(r) /\ UNCHANGED memo
     ELSE /\ memo' = IF p.ver = Dev THEN memo ELSE [memo EXCEPT ![b] = p]
          /\ Goto(r, "ready")
          /\ UNCHANGED <<cfg, got, lock>>
  /\ UNCHANGED <<file, disk, gen, run, changes, spoiled, healed>>

\* cmd.Start, after the overlay was verified and the preStart hook ran.
Launch(r) ==
  LET b == got[r].bin IN
  /\ pc[r] = "ready"
  /\ run' = IF disk[b] = Gone THEN run
            ELSE [ver |-> disk[b], gen |-> gen[b], probe |-> got[r].probe]
  /\ Ends(r)
  /\ UNCHANGED <<file, disk, gen, memo, changes, spoiled, healed>>

-----------------------------------------------------------------------------
(* The two writers of launch.json.                                          *)

\* handleInstanceDshLaunch -> SetLaunchMode: an unreadable file is an error.
SetLaunchMode(r) ==
  /\ pc[r] = "idle" /\ Readable
  /\ \E m \in Modes : cfg' = [cfg EXCEPT ![r] = WithMode(file, m)]
  /\ Goto(r, "opening")
  /\ UNCHANGED <<file, disk, gen, memo, lock, got, run, changes, spoiled, healed>>

\* handleInstanceDshInstall: `npm install -g` under dshInstallMu, which
\* replaces the global binary by a current release.  A failure of npm
\* releases the lock and changes nothing.
Install(r) ==
  /\ pc[r] = "idle" /\ lock = Nobody /\ changes < MaxChanges
  /\ \E v \in Releases :
       /\ ~VersionLess(v, MinVersion)
       /\ disk' = [disk EXCEPT !["global"] = v]
  /\ gen' = [gen EXCEPT !["global"] = @ + 1]
  /\ changes' = changes + 1
  /\ lock' = r /\ healed' = FALSE
  /\ Goto(r, "installed")
  /\ UNCHANGED <<file, memo, cfg, got, run, spoiled>>

\* `npm prefix -g` fails, or SetInstallBin finds launch.json unreadable: the
\* request ends in an error although the new binary is there.
InstallNotRecorded(r) ==
  /\ pc[r] = "installed"
  /\ Ends(r)
  /\ UNCHANGED <<file, disk, gen, memo, run, changes, spoiled, healed>>

\* SetInstallBin reads launch.json and turns it to the mode install.
SetInstallBin(r) ==
  /\ pc[r] = "installed" /\ Readable
  /\ cfg' = [cfg EXCEPT ![r] = WithBin(file, "global")]
  /\ Goto(r, "opening")
  /\ UNCHANGED <<file, disk, gen, memo, lock, got, run, changes, spoiled, healed>>

\* os.WriteFile, first half: O_TRUNC.
Open(r) ==
  /\ pc[r] = "opening"
  /\ file' = Empty
  /\ spoiled' = (Writers # {})
  /\ healed' = FALSE
  /\ Goto(r, "writing")
  /\ UNCHANGED <<disk, gen, memo, lock, cfg, got, run, changes>>

\* os.WriteFile, second half: the bytes, at the start of the file.
Write(r) ==
  /\ pc[r] = "writing"
  /\ file' \in CASE file = Empty -> {cfg[r]}
                 [] file = Garbage -> {cfg[r], Garbage}
                 [] OTHER -> {IF Length(cfg[r]) >= Length(file)
                              THEN cfg[r] ELSE Garbage}
  /\ healed' = (lock = r /\ file' = cfg[r] /\ disk["global"] # Gone
                 /\ HardVersionOK(disk["global"]))
  /\ Ends(r)
  /\ UNCHANGED <<disk, gen, memo, run, changes, spoiled>>

-----------------------------------------------------------------------------
(* The machine.                                                             *)

\* The user upgrades, downgrades, installs or removes a dsh.
DiskChange ==
  /\ changes < MaxChanges
  /\ \E b \in Bins : \E v \in (Releases \cup {Dev, Gone}) \ {disk[b]} :
       /\ disk' = [disk EXCEPT ![b] = v]
       /\ gen' = [gen EXCEPT ![b] = @ + 1]
  /\ changes' = changes + 1 /\ healed' = FALSE
  /\ UNCHANGED <<file, memo, lock, pc, cfg, got, run, spoiled>>

\* The daemon dies and comes back: requests and memo are gone, a truncated
\* launch.json stays as it is.
Restart ==
  /\ changes < MaxChanges
  /\ spoiled' = (spoiled \/ Writers # {})
  /\ memo' = [b \in Bins |-> NoProbe]
  /\ lock' = Nobody
  /\ pc' = [r \in Requests |-> "idle"]
  /\ cfg' = [r \in Requests |-> Default]
  /\ got' = [r \in Requests |-> [bin |-> NoBin, probe |-> NoProbe]]
  /\ run' = NoRun
  /\ changes' = changes + 1
  /\ UNCHANGED <<file, disk, gen, healed>>

\* Every request may have ended and every change have been made.
Rest == /\ \A r \in Requests : pc[r] = "idle"
        /\ changes = MaxChanges /\ UNCHANGED vars

Next ==
  \/ \E r \in Requests :
       \/ Resolve(r) \/ MemoHit(r) \/ Probe(r) \/ Gate(r) \/ Launch(r)
       \/ SetLaunchMode(r) \/ Install(r) \/ InstallNotRecorded(r)
       \/ SetInstallBin(r) \/ Open(r) \/ Write(r)
  \/ DiskChange \/ Restart \/ Rest

Spec == Init /\ [][Next]_vars

-----------------------------------------------------------------------------
(* What is reported and what is promised.                                   *)

\* ProbeCapability: a fresh probe that bypasses the memo and the gate; an
\* unreadable launch.json is reported as if there were none.
Capability ==
  LET c == IF Readable THEN file ELSE Default  exe == ResolveLaunch(c) IN
  IF c.mode = "npx" THEN [missing |-> FALSE, remote |-> TRUE]
  ELSE IF exe = NoBin \/ disk[exe] = Gone THEN [missing |-> TRUE, remote |-> FALSE]
  ELSE [missing |-> FALSE, remote |-> HardVersionOK(disk[exe])]

LaunchTypeOK ==
  /\ file \in Configs \cup {Empty, Garbage}
  /\ disk \in [Bins -> Releases \cup {Dev, Gone}]
  /\ gen \in [Bins -> 0..MaxChanges] /\ memo \in [Bins -> Probes]
  /\ lock \in Requests \cup {Nobody}
  /\ pc \in [Requests -> {"idle", "gate", "probed", "ready", "installed",
                          "opening", "writing"}]
  /\ cfg \in [Requests -> Configs]
  /\ got \in [Requests -> [bin : Bins \cup {NoBin}, probe : Probes]]
  /\ changes \in 0..MaxChanges /\ spoiled \in BOOLEAN /\ healed \in BOOLEAN

\* The gate of driver.go:526-564 against its "known memo tradeoff": a dsh
\* below the floor is started only if its binary was replaced after the probe
\* the start went by; and a memo entry is at worst old, never of a version
\* that was refused.
GateHolds ==
  /\ run # NoRun /\ run.probe.gen = run.gen
       => run.ver = run.probe.ver /\ HardVersionOK(run.ver)
  /\ \A b \in Bins : memo[b] # NoProbe =>
       /\ memo[b].ver \in Releases /\ HardVersionOK(memo[b].ver)
       /\ memo[b].gen = gen[b] => memo[b].ver = disk[b]

\* writeLaunch (launch.go:108-117) truncates and writes in place: launch.json
\* is unreadable only while a request is between the two, or after two of them
\* overlapped or the daemon died there.  One writer at a time never leaves
\* the tail of the longer choice that was there before.
UnreadableExplained == Readable \/ Writers # {} \/ spoiled

\* No dsh below the floor is started, and no choice is lost unnoticed.
LaunchInv == LaunchTypeOK /\ GateHolds /\ UnreadableExplained

\* "install now" in the missing-dsh dialog is a way out: once it has recorded
\* the binary, and until somebody touches the choice or the binary again, the
\* worktree is reported to have a usable dsh and the next start takes the
\* installed one and passes the gate, whatever older dsh is first on PATH and
\* whatever was refused or memoised before; a restart of the daemon between
\* changes nothing.
InstallHeals ==
  healed => /\ Readable /\ ResolveLaunch(file) = "global"
            /\ Capability = [missing |-> FALSE, remote |-> TRUE]
            /\ memo["global"] = NoProbe \/ HardVersionOK(memo["global"].ver)

=============================================================================
