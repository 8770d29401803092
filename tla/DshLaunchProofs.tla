-------------------------- MODULE DshLaunchProofs --------------------------
(* Any number of starts, mode changes and installs of a worktree, on a      *)
(* machine with any releases, with any number of replaced binaries and      *)
(* restarts: no dsh below the floor is started or remembered, launch.json   *)
(* is readable except where two writers met or one was cut short, and an    *)
(* install that recorded its binary mends the worktree.                     *)
EXTENDS DshLaunch, TLAPS

(* A binary is replaced at most as often as the bound counts.               *)
GenCounted == \A b \in Bins : gen[b] <= changes

(* A version read from a binary is that binary's as long as nobody replaced *)
(* it: p was read from b.                                                   *)
ReadFrom(p, b) ==
  /\ p.ver \in Releases \cup {Dev} /\ p.gen <= gen[b]
  /\ p.gen = gen[b] => p.ver = disk[b]

(* What a start carries from step to step.                                  *)
StartKnows(r) ==
  /\ pc[r] \in {"gate", "probed", "ready"} => got[r].bin \in Bins
  /\ pc[r] \in {"probed", "ready"} => ReadFrom(got[r].probe, got[r].bin)
  /\ pc[r] = "ready" => HardVersionOK(got[r].probe.ver)

(* What was remembered of a binary had been read from it, and passed.       *)
MemoGood(b) ==
  memo[b] # NoProbe =>
    /\ ReadFrom(memo[b], b)
    /\ memo[b].ver \in Releases /\ HardVersionOK(memo[b].ver)

RunGood ==
  run # NoRun /\ run.probe.gen = run.gen
    => run.ver = run.probe.ver /\ HardVersionOK(run.ver)

(* Unless two writers met since the file was last opened by one alone: it   *)
(* is readable when nobody writes; the one that writes found it truncated.  *)
OneWriter ==
  ~spoiled =>
    /\ Writers = {} => Readable
    /\ \A r, q \in Writers : r = q
    /\ Writers # {} => file = Empty

(* Who holds the install lock is installing, and writes what it installed.  *)
InstallerWrites ==
  \A r \in Requests : lock = r =>
    /\ pc[r] \in {"installed", "opening", "writing"}
    /\ pc[r] # "installed" => cfg[r] = [mode |-> "install", bin |-> "global"]

Healed ==
  healed => /\ file = [mode |-> "install", bin |-> "global"]
            /\ disk["global"] # Gone /\ HardVersionOK(disk["global"])

Inv ==
  /\ LaunchTypeOK /\ GenCounted
  /\ \A r \in Requests : StartKnows(r)
  /\ \A b \in Bins : MemoGood(b)
  /\ RunGood /\ OneWriter /\ InstallerWrites /\ Healed

-----------------------------------------------------------------------------
LEMMA InvGives == Inv => LaunchInv /\ InstallHeals
<1> SUFFICES ASSUME Inv PROVE LaunchInv /\ InstallHeals
  OBVIOUS
<1>1. GateHolds
  BY DEF Inv, RunGood, MemoGood, ReadFrom, GateHolds
<1>2. UnreadableExplained
  BY DEF Inv, OneWriter, UnreadableExplained
<1>3. ASSUME healed PROVE /\ Readable /\ ResolveLaunch(file) = "global"
                         /\ Capability = [missing |-> FALSE, remote |-> TRUE]
  <2>1. /\ file = [mode |-> "install", bin |-> "global"]
        /\ disk["global"] # Gone /\ HardVersionOK(disk["global"])
    BY <1>3 DEF Inv, Healed
  <2>2. Readable
    BY <2>1 DEF Readable, Configs, Modes, Bins
  <2>3. ResolveLaunch(file) = "global" /\ NoBin # "global"
    BY <2>1, LaunchConstants DEF ResolveLaunch
  <2>4. Capability = [missing |-> FALSE, remote |-> TRUE]
    BY <2>1, <2>2, <2>3 DEF Capability
  <2> QED BY <2>2, <2>3, <2>4
<1>4. "global" \in Bins
  BY DEF Bins
<1> QED BY <1>1, <1>2, <1>3, <1>4 DEF Inv, GateHolds, LaunchInv, InstallHeals

LEMMA InvInit == Init => Inv
<1> SUFFICES ASSUME Init PROVE Inv
  OBVIOUS
<1>1. NoProbe \in Probes /\ Default \in Configs
  BY LaunchConstants DEF NoProbe, Probes, Default, Configs, Modes
<1>2. LaunchTypeOK
  <2>1. [bin |-> NoBin, probe |-> NoProbe] \in [bin : Bins \cup {NoBin}, probe : Probes]
    BY <1>1
  <2>2. file \in Configs \cup {Empty, Garbage} /\ cfg \in [Requests -> Configs]
    BY <1>1 DEF Init
  <2>3. changes \in 0..MaxChanges /\ gen \in [Bins -> 0..MaxChanges] /\ memo \in [Bins -> Probes]
    BY <1>1, LaunchConstants DEF Init
  <2>4. got \in [Requests -> [bin : Bins \cup {NoBin}, probe : Probes]]
    BY <2>1 DEF Init
  <2>5. spoiled \in BOOLEAN /\ healed \in BOOLEAN
    BY DEF Init
  <2> QED BY <2>2, <2>3, <2>4, <2>5 DEF Init, LaunchTypeOK
<1> QED BY <1>1, <1>2, LaunchConstants
         DEF Init, Inv, GenCounted, StartKnows, MemoGood, RunGood, OneWriter, InstallerWrites,
             Healed, Readable, Writers

-----------------------------------------------------------------------------
(* The types.                                                              *)
LEMMA TypesStep == Inv /\ [Next]_vars => LaunchTypeOK' /\ GenCounted'
<1> SUFFICES ASSUME LaunchTypeOK, GenCounted, \A r \in Requests : StartKnows(r), [Next]_vars
               PROVE  LaunchTypeOK' /\ GenCounted'
  BY DEF Inv
<1>0. /\ NoProbe \in Probes /\ Default \in Configs /\ "global" \in Bins
      /\ MaxChanges \in Nat
  BY LaunchConstants DEF NoProbe, Probes, Default, Configs, Modes, Bins
<1>1. ASSUME NEW r \in Requests, Ends(r)
      PROVE  /\ pc' \in [Requests -> {"idle", "gate", "probed", "ready", "installed",
                                      "opening", "writing"}]
             /\ cfg' \in [Requests -> Configs]
             /\ got' \in [Requests -> [bin : Bins \cup {NoBin}, probe : Probes]]
             /\ lock' \in Requests \cup {Nobody}
  BY <1>0, <1>1 DEF Ends, Goto, LaunchTypeOK
<1> USE <1>0 DEF LaunchTypeOK, GenCounted, Goto
<1>2. ASSUME NEW r \in Requests, Resolve(r) PROVE LaunchTypeOK' /\ GenCounted'
  <2>1. PICK exe \in Bins : got' = [got EXCEPT ![r].bin = exe]
    BY <1>2 DEF Resolve, ResolveLaunch, LookPath, Readable, Configs, Bins
  <2>2. got' \in [Requests -> [bin : Bins \cup {NoBin}, probe : Probes]]
    BY <2>1
  <2> QED BY <1>2, <2>2 DEF Resolve
<1>3. ASSUME NEW r \in Requests, MemoHit(r), StartKnows(r) PROVE LaunchTypeOK' /\ GenCounted'
  <2>1. memo[got[r].bin] \in Probes
    BY <1>3 DEF MemoHit, StartKnows
  <2>2. got' \in [Requests -> [bin : Bins \cup {NoBin}, probe : Probes]]
    BY <1>3, <2>1 DEF MemoHit
  <2> QED BY <1>3, <2>2 DEF MemoHit
<1>4. ASSUME NEW r \in Requests, Probe(r), StartKnows(r) PROVE LaunchTypeOK' /\ GenCounted'
  <2>1. CASE disk[got[r].bin] = Gone
    BY <1>1, <1>4, <2>1 DEF Probe
  <2>2. CASE disk[got[r].bin] # Gone
    <3>1. [ver |-> disk[got[r].bin], gen |-> gen[got[r].bin]] \in Probes
      BY <1>4, <2>2 DEF Probe, StartKnows, Probes
    <3>2. got' \in [Requests -> [bin : Bins \cup {NoBin}, probe : Probes]]
      BY <1>4, <2>2, <3>1 DEF Probe
    <3> QED BY <1>4, <2>2, <3>2 DEF Probe
  <2> QED BY <2>1, <2>2
<1>5. ASSUME NEW r \in Requests, Gate(r) PROVE LaunchTypeOK' /\ GenCounted'
  BY <1>1, <1>5 DEF Gate
<1>6. ASSUME NEW r \in Requests, Launch(r) PROVE LaunchTypeOK' /\ GenCounted'
  BY <1>1, <1>6 DEF Launch
<1>7. ASSUME NEW r \in Requests, SetLaunchMode(r) PROVE LaunchTypeOK' /\ GenCounted'
  <2>1. PICK m \in Modes : cfg' = [cfg EXCEPT ![r] = WithMode(file, m)]
    BY <1>7 DEF SetLaunchMode
  <2>2. WithMode(file, m) \in Configs
    BY <1>7 DEF SetLaunchMode, Readable, WithMode, Configs
  <2> QED BY <1>7, <2>1, <2>2 DEF SetLaunchMode
<1>8. ASSUME NEW r \in Requests, Install(r) PROVE LaunchTypeOK' /\ GenCounted'
  <2>1. PICK v \in Releases : disk' = [disk EXCEPT !["global"] = v]
    BY <1>8 DEF Install
  <2>2. changes' \in 0..MaxChanges /\ changes' = changes + 1
    BY <1>8 DEF Install
  <2>3. \A b \in Bins : gen'[b] \in 0..MaxChanges /\ gen'[b] <= changes'
    BY <1>8, <2>2 DEF Install
  <2> QED BY <1>8, <2>1, <2>2, <2>3 DEF Install
<1>9. ASSUME NEW r \in Requests, InstallNotRecorded(r) PROVE LaunchTypeOK' /\ GenCounted'
  BY <1>1, <1>9 DEF InstallNotRecorded
<1>10. ASSUME NEW r \in Requests, SetInstallBin(r) PROVE LaunchTypeOK' /\ GenCounted'
  <2>1. WithBin(file, "global") \in Configs
    BY DEF WithBin, Configs, Modes
  <2> QED BY <1>10, <2>1 DEF SetInstallBin
<1>11. ASSUME NEW r \in Requests, Open(r) PROVE LaunchTypeOK' /\ GenCounted'
  BY <1>11 DEF Open
<1>12. ASSUME NEW r \in Requests, Write(r) PROVE LaunchTypeOK' /\ GenCounted'
  BY <1>1, <1>12 DEF Write
<1>13. CASE DiskChange
  <2>1. PICK b \in Bins, v \in Releases \cup {Dev, Gone} :
          disk' = [disk EXCEPT ![b] = v] /\ gen' = [gen EXCEPT ![b] = @ + 1]
    BY <1>13 DEF DiskChange
  <2>2. changes' \in 0..MaxChanges /\ changes' = changes + 1
    BY <1>13 DEF DiskChange
  <2>3. \A c \in Bins : gen'[c] \in 0..MaxChanges /\ gen'[c] <= changes'
    BY <2>1, <2>2
  <2> QED BY <1>13, <2>1, <2>2, <2>3 DEF DiskChange
<1>14. CASE Restart
  BY <1>14 DEF Restart
<1>15. CASE UNCHANGED vars
  BY <1>15 DEF vars
<1> QED BY <1>2, <1>3, <1>4, <1>5, <1>6, <1>7, <1>8, <1>9, <1>10, <1>11, <1>12, <1>13,
   <1>14, <1>15 DEF Next, Rest

-----------------------------------------------------------------------------
(* What the starts and the memo know.                                       *)
LEMMA KnownStep ==
  Inv /\ [Next]_vars => /\ \A r \in Requests : StartKnows(r)'
                        /\ \A b \in Bins : MemoGood(b)'
                        /\ RunGood'
<1> SUFFICES ASSUME Inv, [Next]_vars
             PROVE  /\ \A r \in Requests : StartKnows(r)'
                    /\ \A b \in Bins : MemoGood(b)'
                    /\ RunGood'
  OBVIOUS
<1>0. LaunchTypeOK /\ RunGood /\ (\A r \in Requests : StartKnows(r)) /\ \A b \in Bins : MemoGood(b)
  BY DEF Inv
<1>1. /\ disk \in [Bins -> Releases \cup {Dev, Gone}] /\ gen \in [Bins -> 0..MaxChanges]
      /\ memo \in [Bins -> Probes] /\ MaxChanges \in Nat /\ "global" \in Bins
      /\ pc \in [Requests -> {"idle", "gate", "probed", "ready", "installed", "opening", "writing"}]
      /\ got \in [Requests -> [bin : Bins \cup {NoBin}, probe : Probes]]
      /\ changes \in 0..MaxChanges
  BY <1>0, LaunchConstants DEF LaunchTypeOK, Bins
<1>2. ASSUME NEW r \in Requests, UNCHANGED <<disk, gen, memo>>,
             \A q \in Requests \ {r} : pc'[q] = pc[q] /\ got'[q] = got[q]
      PROVE  /\ \A q \in Requests \ {r} : StartKnows(q)'
             /\ \A b \in Bins : MemoGood(b)'
  BY <1>0, <1>2 DEF StartKnows, ReadFrom, MemoGood
<1>3. ASSUME NEW r \in Requests, UNCHANGED <<disk, gen, memo, run>>,
             \A q \in Requests \ {r} : pc'[q] = pc[q] /\ got'[q] = got[q],
             StartKnows(r)'
      PROVE  /\ \A q \in Requests : StartKnows(q)'
             /\ \A b \in Bins : MemoGood(b)'
             /\ RunGood'
  BY <1>0, <1>2, <1>3 DEF RunGood
<1>4. ASSUME NEW r \in Requests, Ends(r)
      PROVE  /\ \A q \in Requests \ {r} : pc'[q] = pc[q] /\ got'[q] = got[q]
             /\ StartKnows(r)'
  BY <1>1, <1>4 DEF Ends, Goto, StartKnows
<1>5. ASSUME NEW r \in Requests, NEW l, Goto(r, l)
      PROVE  \A q \in Requests : pc'[q] = IF q = r THEN l ELSE pc[q]
  BY <1>1, <1>5 DEF Goto
(* A replaced binary has a generation nobody has read yet.                  *)
<1>6. ASSUME UNCHANGED <<memo, run>>,
             \A b \in Bins : \/ gen'[b] = gen[b] + 1
                             \/ gen'[b] = gen[b] /\ disk'[b] = disk[b],
             \A q \in Requests : /\ pc'[q] \in {"gate", "probed", "ready"} => pc'[q] = pc[q]
                                 /\ got'[q] = got[q]
      PROVE  /\ \A q \in Requests : StartKnows(q)'
             /\ \A b \in Bins : MemoGood(b)'
             /\ RunGood'
  <2>1. ASSUME NEW p \in Probes, NEW b \in Bins, ReadFrom(p, b)
        PROVE  /\ p.ver \in Releases \cup {Dev} /\ p.gen <= gen'[b]
               /\ p.gen = gen'[b] => p.ver = disk'[b]
    <3>1. p.gen \in Int /\ gen[b] \in Int
      BY <1>1 DEF Probes
    <3> QED BY <1>6, <2>1, <3>1 DEF ReadFrom
  <2>2. ASSUME NEW q \in Requests PROVE StartKnows(q)'
    <3>1. got[q].probe \in Probes
      BY <1>1
    <3>2. CASE pc'[q] \in {"probed", "ready"}
      <4>1. ReadFrom(got[q].probe, got[q].bin) /\ got[q].bin \in Bins
        BY <1>0, <1>6, <3>2 DEF StartKnows
      <4> QED BY <1>0, <1>6, <2>1, <3>1, <3>2, <4>1 DEF StartKnows, ReadFrom
    <3>3. CASE pc'[q] \notin {"probed", "ready"}
      BY <1>0, <1>6, <3>3 DEF StartKnows
    <3> QED BY <3>2, <3>3
  <2>3. ASSUME NEW b \in Bins PROVE MemoGood(b)'
    <3>1. memo[b] \in Probes
      BY <1>1
    <3> QED BY <1>0, <1>6, <2>1, <3>1 DEF MemoGood, ReadFrom
  <2> QED BY <1>0, <1>6, <2>2, <2>3 DEF RunGood
<1>7. ASSUME NEW r \in Requests, Resolve(r)
      PROVE  (\A q \in Requests : StartKnows(q)') /\ (\A b \in Bins : MemoGood(b)') /\ RunGood'
  <2>1. PICK exe \in Bins : got' = [got EXCEPT ![r].bin = exe]
    BY <1>1, <1>0, <1>7 DEF Resolve, ResolveLaunch, LookPath, Readable, Configs, Bins,
       LaunchTypeOK
  <2>2. StartKnows(r)'
    BY <1>1, <1>5, <1>7, <2>1 DEF StartKnows, Resolve
  <2> QED BY <1>1, <1>3, <1>5, <1>7, <2>1, <2>2 DEF Resolve
<1>8. ASSUME NEW r \in Requests, MemoHit(r)
      PROVE  (\A q \in Requests : StartKnows(q)') /\ (\A b \in Bins : MemoGood(b)') /\ RunGood'
  <2>1. got[r].bin \in Bins /\ MemoGood(got[r].bin)
    BY <1>0, <1>8 DEF MemoHit, StartKnows
  <2>2. pc'[r] = "ready" /\ got'[r].bin = got[r].bin /\ got'[r].probe = memo[got[r].bin]
    BY <1>1, <1>5, <1>8 DEF MemoHit
  <2>3. StartKnows(r)'
    BY <1>8, <2>1, <2>2 DEF StartKnows, MemoHit, MemoGood, ReadFrom
  <2> QED BY <1>1, <1>3, <1>5, <1>8, <2>3 DEF MemoHit
<1>9. ASSUME NEW r \in Requests, Probe(r)
      PROVE  (\A q \in Requests : StartKnows(q)') /\ (\A b \in Bins : MemoGood(b)') /\ RunGood'
  <2>1. CASE disk[got[r].bin] = Gone
    BY <1>3, <1>4, <1>9, <2>1 DEF Probe
  <2>2. CASE disk[got[r].bin] # Gone
    <3>1. got[r].bin \in Bins
      BY <1>0, <1>9 DEF Probe, StartKnows
    <3>2. /\ pc'[r] = "probed" /\ got'[r].bin = got[r].bin
          /\ got'[r].probe = [ver |-> disk[got[r].bin], gen |-> gen[got[r].bin]]
      BY <1>1, <1>5, <1>9, <2>2 DEF Probe
    <3>3. StartKnows(r)'
      BY <1>1, <1>9, <2>2, <3>1, <3>2 DEF StartKnows, Probe, ReadFrom
    <3> QED BY <1>1, <1>3, <1>5, <1>9, <2>2, <3>3 DEF Probe
  <2> QED BY <2>1, <2>2
<1>10. ASSUME NEW r \in Requests, Gate(r)
       PROVE  (\A q \in Requests : StartKnows(q)') /\ (\A b \in Bins : MemoGood(b)') /\ RunGood'
  <2>1. CASE ~HardVersionOK(got[r].probe.ver)
    BY <1>3, <1>4, <1>10, <2>1 DEF Gate
  <2>2. CASE HardVersionOK(got[r].probe.ver)
    <3>1. got[r].bin \in Bins /\ ReadFrom(got[r].probe, got[r].bin)
      BY <1>0, <1>10 DEF Gate, StartKnows
    <3>2. /\ UNCHANGED <<disk, gen, got, run>>
          /\ \A q \in Requests : pc'[q] = IF q = r THEN "ready" ELSE pc[q]
      BY <1>5, <1>10, <2>2 DEF Gate
    <3>3. \A q \in Requests : StartKnows(q)'
      BY <1>0, <2>2, <3>1, <3>2 DEF StartKnows, ReadFrom
    <3>4. memo' = IF got[r].probe.ver = Dev THEN memo
                  ELSE [memo EXCEPT ![got[r].bin] = got[r].probe]
      BY <1>10, <2>2 DEF Gate
    <3>5. ASSUME NEW b \in Bins PROVE MemoGood(b)'
      <4>1. CASE memo'[b] = memo[b]
        BY <1>0, <3>2, <4>1 DEF MemoGood, ReadFrom
      <4>2. CASE memo'[b] # memo[b]
        <5>1. b = got[r].bin /\ memo'[b] = got[r].probe /\ got[r].probe.ver # Dev
          BY <1>1, <3>4, <4>2
        <5> QED BY <2>2, <3>1, <3>2, <5>1 DEF MemoGood, ReadFrom
      <4> QED BY <4>1, <4>2
    <3> QED BY <1>0, <3>2, <3>3, <3>5 DEF RunGood
  <2> QED BY <2>1, <2>2
<1>11. ASSUME NEW r \in Requests, Launch(r)
       PROVE  (\A q \in Requests : StartKnows(q)') /\ (\A b \in Bins : MemoGood(b)') /\ RunGood'
  <2>1. (\A q \in Requests : StartKnows(q)') /\ (\A b \in Bins : MemoGood(b)')
    BY <1>2, <1>4, <1>11 DEF Launch
  <2>2. /\ got[r].bin \in Bins /\ ReadFrom(got[r].probe, got[r].bin)
        /\ HardVersionOK(got[r].probe.ver)
    BY <1>0, <1>11 DEF Launch, StartKnows
  <2>3. CASE disk[got[r].bin] = Gone
    BY <1>0, <1>11, <2>1, <2>3 DEF Launch, RunGood
  <2>4. CASE disk[got[r].bin] # Gone
    <3>1. run' = [ver |-> disk[got[r].bin], gen |-> gen[got[r].bin], probe |-> got[r].probe]
      BY <1>11, <2>4 DEF Launch
    <3> QED BY <2>1, <2>2, <3>1 DEF RunGood, ReadFrom
  <2> QED BY <2>1, <2>3, <2>4
<1>12. ASSUME NEW r \in Requests, SetLaunchMode(r)
       PROVE  (\A q \in Requests : StartKnows(q)') /\ (\A b \in Bins : MemoGood(b)') /\ RunGood'
  BY <1>1, <1>3, <1>5, <1>12 DEF SetLaunchMode, StartKnows
<1>13. ASSUME NEW r \in Requests, Install(r)
       PROVE  (\A q \in Requests : StartKnows(q)') /\ (\A b \in Bins : MemoGood(b)') /\ RunGood'
  <2>1. \A b \in Bins : \/ gen'[b] = gen[b] + 1
                        \/ gen'[b] = gen[b] /\ disk'[b] = disk[b]
    BY <1>1, <1>13 DEF Install
  <2> QED BY <1>1, <1>5, <1>6, <1>13, <2>1 DEF Install
<1>14. ASSUME NEW r \in Requests, InstallNotRecorded(r)
       PROVE  (\A q \in Requests : StartKnows(q)') /\ (\A b \in Bins : MemoGood(b)') /\ RunGood'
  BY <1>3, <1>4, <1>14 DEF InstallNotRecorded
<1>15. ASSUME NEW r \in Requests, SetInstallBin(r)
       PROVE  (\A q \in Requests : StartKnows(q)') /\ (\A b \in Bins : MemoGood(b)') /\ RunGood'
  BY <1>1, <1>3, <1>5, <1>15 DEF SetInstallBin, StartKnows
<1>16. ASSUME NEW r \in Requests, Open(r)
       PROVE  (\A q \in Requests : StartKnows(q)') /\ (\A b \in Bins : MemoGood(b)') /\ RunGood'
  BY <1>1, <1>3, <1>5, <1>16 DEF Open, StartKnows
<1>17. ASSUME NEW r \in Requests, Write(r)
       PROVE  (\A q \in Requests : StartKnows(q)') /\ (\A b \in Bins : MemoGood(b)') /\ RunGood'
  BY <1>3, <1>4, <1>17 DEF Write
<1>18. CASE DiskChange
  <2>1. \A b \in Bins : \/ gen'[b] = gen[b] + 1
                        \/ gen'[b] = gen[b] /\ disk'[b] = disk[b]
    BY <1>1, <1>18 DEF DiskChange
  <2> QED BY <1>6, <1>18, <2>1 DEF DiskChange
<1>19. CASE Restart
  BY <1>19 DEF Restart, StartKnows, MemoGood, RunGood
<1>20. CASE UNCHANGED vars
  BY <1>0, <1>20 DEF vars, StartKnows, MemoGood, RunGood, ReadFrom
<1> QED BY <1>7, <1>8, <1>9, <1>10, <1>11, <1>12, <1>13, <1>14, <1>15, <1>16, <1>17, <1>18,
           <1>19, <1>20 DEF Next, Rest

-----------------------------------------------------------------------------
(* What launch.json holds, and who writes it.                               *)
LEMMA FileStep == Inv /\ [Next]_vars => OneWriter' /\ InstallerWrites' /\ Healed'
<1> SUFFICES ASSUME Inv, [Next]_vars PROVE OneWriter' /\ InstallerWrites' /\ Healed'
  OBVIOUS
<1>0. LaunchTypeOK /\ OneWriter /\ InstallerWrites /\ Healed
  BY DEF Inv
<1>1. /\ lock \in Requests \cup {Nobody} /\ Nobody \notin Requests
      /\ pc \in [Requests -> {"idle", "gate", "probed", "ready", "installed", "opening", "writing"}]
      /\ cfg \in [Requests -> Configs]
      /\ disk \in [Bins -> Releases \cup {Dev, Gone}]
  BY <1>0, LaunchConstants DEF LaunchTypeOK
<1>2. ASSUME NEW r \in Requests, NEW l, Goto(r, l)
      PROVE  \A q \in Requests : pc'[q] = IF q = r THEN l ELSE pc[q]
  BY <1>1, <1>2 DEF Goto
<1>3. ASSUME NEW r \in Requests, Ends(r)
      PROVE  /\ \A q \in Requests : pc'[q] = IF q = r THEN "idle" ELSE pc[q]
             /\ \A q \in Requests \ {r} : cfg'[q] = cfg[q]
             /\ lock' = IF lock = r THEN Nobody ELSE lock
  BY <1>1, <1>3 DEF Ends, Goto
<1>4. ASSUME UNCHANGED <<file, spoiled>>,
             \A q \in Requests : pc[q] = "writing" <=> pc'[q] = "writing"
      PROVE  OneWriter'
  <2>1. Writers' = Writers
    BY <1>4 DEF Writers
  <2> QED BY <1>0, <1>4, <2>1 DEF OneWriter, Readable
(* A start is not the installer, and a request that ends gives the lock back. *)
<1>5. ASSUME NEW r \in Requests, Ends(r) PROVE InstallerWrites'
  BY <1>0, <1>1, <1>3, <1>5 DEF InstallerWrites
<1>6. ASSUME NEW r \in Requests, UNCHANGED <<lock, cfg>>,
             \A q \in Requests \ {r} : pc'[q] = pc[q], lock # r
      PROVE  InstallerWrites'
  BY <1>0, <1>6 DEF InstallerWrites
<1>7. ASSUME UNCHANGED <<file, disk, healed>> PROVE Healed'
  BY <1>0, <1>7 DEF Healed
<1>8. ASSUME NEW r \in Requests, pc[r] \in {"idle", "gate", "probed", "ready"} PROVE lock # r
  BY <1>0, <1>8 DEF InstallerWrites
<1>9. ASSUME NEW r \in Requests, Resolve(r) \/ MemoHit(r)
      PROVE  OneWriter' /\ InstallerWrites' /\ Healed'
  BY <1>1, <1>2, <1>4, <1>6, <1>7, <1>8, <1>9 DEF Resolve, MemoHit
<1>10. ASSUME NEW r \in Requests, Probe(r) PROVE OneWriter' /\ InstallerWrites' /\ Healed'
  <2>1. CASE Ends(r)
    BY <1>1, <1>3, <1>4, <1>5, <1>7, <1>10, <2>1 DEF Probe
  <2>2. CASE Goto(r, "probed") /\ UNCHANGED <<cfg, lock>>
    BY <1>1, <1>2, <1>4, <1>6, <1>7, <1>8, <1>10, <2>2 DEF Probe
  <2> QED BY <1>10, <2>1, <2>2 DEF Probe
<1>11. ASSUME NEW r \in Requests, Gate(r) PROVE OneWriter' /\ InstallerWrites' /\ Healed'
  <2>1. CASE Ends(r)
    BY <1>1, <1>3, <1>4, <1>5, <1>7, <1>11, <2>1 DEF Gate
  <2>2. CASE Goto(r, "ready") /\ UNCHANGED <<cfg, lock>>
    BY <1>1, <1>2, <1>4, <1>6, <1>7, <1>8, <1>11, <2>2 DEF Gate
  <2> QED BY <1>11, <2>1, <2>2 DEF Gate
<1>12. ASSUME NEW r \in Requests, Launch(r) \/ InstallNotRecorded(r)
       PROVE  OneWriter' /\ InstallerWrites' /\ Healed'
  BY <1>1, <1>3, <1>4, <1>5, <1>7, <1>12 DEF Launch, InstallNotRecorded
<1>13. ASSUME NEW r \in Requests, SetLaunchMode(r) PROVE OneWriter' /\ InstallerWrites' /\ Healed'
  <2>1. PICK m \in Modes : cfg' = [cfg EXCEPT ![r] = WithMode(file, m)]
    BY <1>13 DEF SetLaunchMode
  <2>2. \A q \in Requests \ {r} : cfg'[q] = cfg[q]
    BY <1>1, <2>1
  <2>3. lock # r
    BY <1>8, <1>13 DEF SetLaunchMode
  <2>4. InstallerWrites'
    BY <1>0, <1>2, <1>13, <2>2, <2>3 DEF SetLaunchMode, InstallerWrites
  <2> QED BY <1>2, <1>4, <1>7, <1>13, <2>4 DEF SetLaunchMode
<1>14. ASSUME NEW r \in Requests, Install(r) PROVE OneWriter' /\ InstallerWrites' /\ Healed'
  <2>1. InstallerWrites'
    BY <1>1, <1>2, <1>14 DEF Install, InstallerWrites
  <2> QED BY <1>2, <1>4, <1>14, <2>1 DEF Install, Healed
<1>15. ASSUME NEW r \in Requests, SetInstallBin(r) PROVE OneWriter' /\ InstallerWrites' /\ Healed'
  <2>1. \A q \in Requests : cfg'[q] = IF q = r THEN [mode |-> "install", bin |-> "global"] ELSE cfg[q]
    BY <1>1, <1>15 DEF SetInstallBin, WithBin
  <2>2. InstallerWrites'
    BY <1>0, <1>2, <1>15, <2>1 DEF SetInstallBin, InstallerWrites
  <2> QED BY <1>2, <1>4, <1>7, <1>15, <2>2 DEF SetInstallBin
<1>16. ASSUME NEW r \in Requests, Open(r) PROVE OneWriter' /\ InstallerWrites' /\ Healed'
  <2>1. InstallerWrites'
    BY <1>0, <1>2, <1>16 DEF Open, InstallerWrites
  <2>2. OneWriter'
    <3>1. CASE Writers # {}
      BY <1>16, <3>1 DEF Open, OneWriter
    <3>2. CASE Writers = {}
      <4>1. \A q \in Requests : pc[q] # "writing"
        BY <3>2 DEF Writers
      <4>2. \A q \in Requests : pc'[q] = "writing" <=> q = r
        BY <1>2, <1>16, <4>1 DEF Open
      <4>3. Writers' = {r}
        BY <4>2 DEF Writers
      <4> QED BY <1>16, <4>3 DEF Open, OneWriter
    <3> QED BY <3>1, <3>2
  <2> QED BY <1>16, <2>1, <2>2 DEF Open, Healed
<1>17. ASSUME NEW r \in Requests, Write(r) PROVE OneWriter' /\ InstallerWrites' /\ Healed'
  <2>1. InstallerWrites'
    BY <1>5, <1>17 DEF Write
  <2>2. OneWriter'
    <3> SUFFICES ASSUME ~spoiled PROVE OneWriter'
      BY <1>17 DEF Write, OneWriter
    <3>1. r \in Writers
      BY <1>17 DEF Write, Writers
    <3>2. file = Empty /\ \A q \in Requests : pc[q] = "writing" => q = r
      BY <1>0, <3>1 DEF OneWriter, Writers
    <3>3. file' = cfg[r]
      BY <1>17, <3>2, LaunchConstants DEF Write
    <3>4. Writers' = {}
      BY <1>3, <1>17, <3>2 DEF Write, Writers
    <3>5. Readable'
      BY <1>1, <3>3 DEF Readable
    <3> QED BY <3>4, <3>5 DEF OneWriter
  <2>3. Healed'
    <3> SUFFICES ASSUME healed' PROVE Healed'
      BY DEF Healed
    <3>1. /\ lock = r /\ file' = cfg[r] /\ disk["global"] # Gone
          /\ HardVersionOK(disk["global"]) /\ disk' = disk
      BY <1>17 DEF Write
    <3>2. cfg[r] = [mode |-> "install", bin |-> "global"]
      BY <1>0, <1>17, <3>1 DEF InstallerWrites, Write
    <3> QED BY <3>1, <3>2 DEF Healed
  <2> QED BY <2>1, <2>2, <2>3
<1>18. CASE DiskChange
  <2>1. InstallerWrites'
    BY <1>0, <1>18 DEF DiskChange, InstallerWrites
  <2> QED BY <1>4, <1>18, <2>1 DEF DiskChange, Healed
<1>19. CASE Restart
  <2>1. InstallerWrites'
    BY <1>1, <1>19 DEF Restart, InstallerWrites
  <2>2. Writers' = {}
    BY <1>19 DEF Restart, Writers
  <2>3. OneWriter'
    BY <1>0, <1>19, <2>2 DEF Restart, OneWriter, Readable
  <2> QED BY <1>7, <1>19, <2>1, <2>3 DEF Restart
<1>20. CASE UNCHANGED vars
  BY <1>0, <1>4, <1>7, <1>20 DEF vars, InstallerWrites
<1> QED BY <1>9, <1>10, <1>11, <1>12, <1>13, <1>14, <1>15, <1>16, <1>17, <1>18, <1>19, <1>20
        DEF Next, Rest

LEMMA InvStep == Inv /\ [Next]_vars => Inv'
BY TypesStep, KnownStep, FileStep DEF Inv

-----------------------------------------------------------------------------
(* Spawn's gate and the rewriting of launch.json (version.go, launch.go and *)
(* driver.go): whatever the requests, the user and npm do in between, a dsh *)
(* below the floor is started only if its binary was replaced after the     *)
(* probe the start went by, a memo entry is never of a refused version, and *)
(* launch.json is unreadable only through two writers that met or one that  *)
(* was cut short.                                                           *)
THEOREM LaunchAlways == Spec => []LaunchInv
<1>1. Inv => LaunchInv
  BY InvGives
<1> QED BY InvInit, InvStep, <1>1, PTL DEF Spec

(* The missing-dsh dialog's "install now" (handleInstanceDshInstall,        *)
(* SetInstallBin) is a way out for every set of releases and however many   *)
(* requests it meets: once it has recorded its binary, and until the choice *)
(* or the binary is touched again, the worktree is reported usable and the  *)
(* next start takes the installed dsh and is not refused.                   *)
THEOREM InstallAlwaysHeals == Spec => []InstallHeals
<1>1. Inv => InstallHeals
  BY InvGives
<1> QED BY InvInit, InvStep, <1>1, PTL DEF Spec

=============================================================================
