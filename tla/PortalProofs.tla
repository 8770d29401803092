---------------------------- MODULE PortalProofs ----------------------------
(***************************************************************************)
(* Any number of daemons that start, serve the dashboard, stop or are      *)
(* killed at any moment: what each of them believes of the port, what      *)
(* portal.json says and who is registered.                                 *)
(***************************************************************************)
EXTENDS Portal, TLAPS

(* Who has taken the port keeps it until its Serve ends; p.ln is set only  *)
(* while the claimer serves or cleans up after it.                         *)
ClaimGood(d) ==
  /\ main[d] = "off" => claim[d] = "off"
  /\ claim[d] \in {"bound", "status"} => port = d
  /\ d \in srv => claim[d] \in {"status", "serve", "clear"}
  /\ d \in srv /\ claim[d] = "serve" => port = d
  /\ main[d] = "json" => d \in held
  /\ claim[d] = "serve" /\ port = d /\ ~Done(d) => status = d \/ d \in erased

(* A registration is of a daemon that has started; one about to be removed *)
(* is of one that has ended, or that missed a probe.                       *)
RegGood(d) ==
  /\ d \in regs => main[d] # "off"
  /\ main[d] = "up" => d \in regs \cup missed
  /\ \A e \in Daemons : clean[e] = d => main[d] \notin {"off", "up"} \/ d \in missed

Inv == PortalTypeOK /\ \A d \in Daemons : ClaimGood(d) /\ RegGood(d)

LEMMA InvGives == Inv => HolderAgreed /\ LiveRegistered
<1> SUFFICES ASSUME Inv PROVE HolderAgreed /\ LiveRegistered
  OBVIOUS
<1>1. PortalTypeOK
  BY DEF Inv
<1>2. ASSUME NEW d \in srv PROVE port = d \/ claim[d] = "clear"
  <2>1. d \in Daemons /\ ClaimGood(d)
    BY <1>1, <1>2 DEF Inv, PortalTypeOK
  <2> QED BY <2>1, <1>2 DEF ClaimGood
<1>3. StatusNamesHolder
  BY DEF Inv, ClaimGood, StatusNamesHolder
<1>4. LiveRegistered
  BY DEF Inv, RegGood, LiveRegistered
<1> QED BY <1>1, <1>2, <1>3, <1>4 DEF HolderAgreed, HolderKnowsIt

LEMMA InvInit == Init => Inv
BY NobodyAssumption DEF Init, Inv, PortalTypeOK, ClaimGood, RegGood, Done, Stopping

(* The types.                                                              *)
LEMMA TypesStep == PortalTypeOK /\ [Next]_vars => PortalTypeOK'
<1> SUFFICES ASSUME PortalTypeOK, [Next]_vars PROVE PortalTypeOK'
  OBVIOUS
<1> USE DEF PortalTypeOK, MainTo, ClaimTo, Release, Stopping, Done, fileVars, obsVars
<1>1. ASSUME NEW d \in Daemons, StartPortal(d) \/ StopCall(d) \/ StopStep(d) \/ Crash(d)
      PROVE  PortalTypeOK'
  <2>1. CASE StartPortal(d)
    BY <1>1, <2>1 DEF StartPortal, Registers
  <2>2. CASE StopCall(d)
    BY <1>1, <2>2 DEF StopCall
  <2>3. CASE StopShutdown(d)
    BY <1>1, <2>3 DEF StopShutdown
  <2>4. CASE StopUnreg(d)
    BY <1>1, <2>4 DEF StopUnreg
  <2>5. CASE StopJson(d)
    BY <1>1, <2>5 DEF StopJson
  <2>6. CASE StopReturn(d)
    BY <1>1, <2>6 DEF StopReturn
  <2>7. CASE Crash(d)
    BY <1>1, <2>7, NobodyAssumption DEF Crash
  <2> QED BY <1>1, <2>1, <2>2, <2>3, <2>4, <2>5, <2>6, <2>7 DEF StopStep
<1>2. ASSUME NEW d \in Daemons, ClaimStep(d) \/ ClaimServed(d)
      PROVE  PortalTypeOK'
  <2>1. CASE ClaimWaits(d)
    BY <1>2, <2>1 DEF ClaimWaits
  <2>2. CASE ClaimListen(d)
    BY <1>2, <2>2 DEF ClaimListen
  <2>3. CASE ClaimSet(d)
    BY <1>2, <2>3 DEF ClaimSet
  <2>4. CASE ClaimStatus(d)
    BY <1>2, <2>4 DEF ClaimStatus
  <2>5. CASE ClaimServed(d)
    BY <1>2, <2>5 DEF ClaimServed
  <2>6. CASE ClaimClear(d)
    BY <1>2, <2>6 DEF ClaimClear
  <2> QED BY <1>2, <2>1, <2>2, <2>3, <2>4, <2>5, <2>6 DEF ClaimStep
<1>3. ASSUME NEW d \in Daemons, CleanRemove(d) PROVE PortalTypeOK'
  BY <1>3, NobodyAssumption DEF CleanRemove
<1>4. ASSUME NEW d \in Daemons, NEW e \in Daemons, CleanFinds(d, e) \/ CleanMisjudges(d, e)
      PROVE  PortalTypeOK'
  BY <1>4 DEF CleanFinds, CleanMisjudges, Removing, Others
<1>5. CASE UNCHANGED vars
  BY <1>5 DEF vars
<1> QED BY <1>1, <1>2, <1>3, <1>4, <1>5 DEF Next, CleanStep

(* The port and portal.json.                                               *)
LEMMA ClaimsStep ==
  ASSUME Inv, [Next]_vars, NEW x \in Daemons
  PROVE  ClaimGood(x)'
<1>1. PortalTypeOK /\ \A d \in Daemons : ClaimGood(d)
  BY DEF Inv
<1> USE DEF PortalTypeOK, ClaimGood, MainTo, ClaimTo, Release, Stopping, Done, fileVars, obsVars
<1>2. ASSUME NEW d \in Daemons, StartPortal(d) \/ StopCall(d) \/ StopStep(d) \/ Crash(d)
      PROVE  ClaimGood(x)'
  <2>1. CASE StartPortal(d)
    BY <1>1, <1>2, <2>1 DEF StartPortal, Registers
  <2>2. CASE StopCall(d)
    BY <1>1, <1>2, <2>2 DEF StopCall
  <2>3. CASE StopShutdown(d)
    BY <1>1, <1>2, <2>3, NobodyAssumption DEF StopShutdown
  <2>4. CASE StopUnreg(d)
    BY <1>1, <1>2, <2>4 DEF StopUnreg
  <2>5. CASE StopJson(d)
    BY <1>1, <1>2, <2>5, NobodyAssumption DEF StopJson
  <2>6. CASE StopReturn(d)
    BY <1>1, <1>2, <2>6 DEF StopReturn
  <2>7. CASE Crash(d)
    BY <1>1, <1>2, <2>7, NobodyAssumption DEF Crash
  <2> QED BY <1>2, <2>1, <2>2, <2>3, <2>4, <2>5, <2>6, <2>7 DEF StopStep
<1>3. ASSUME NEW d \in Daemons, ClaimStep(d) \/ ClaimServed(d)
      PROVE  ClaimGood(x)'
  <2>1. CASE ClaimWaits(d)
    BY <1>1, <1>3, <2>1 DEF ClaimWaits
  <2>2. CASE ClaimListen(d)
    BY <1>1, <1>3, <2>2, NobodyAssumption DEF ClaimListen
  <2>3. CASE ClaimSet(d)
    BY <1>1, <1>3, <2>3 DEF ClaimSet
  <2>4. CASE ClaimStatus(d)
    BY <1>1, <1>3, <2>4 DEF ClaimStatus
  <2>5. CASE ClaimServed(d)
    BY <1>1, <1>3, <2>5, NobodyAssumption DEF ClaimServed
  <2>6. CASE ClaimClear(d)
    BY <1>1, <1>3, <2>6 DEF ClaimClear
  <2> QED BY <1>3, <2>1, <2>2, <2>3, <2>4, <2>5, <2>6 DEF ClaimStep
<1>4. ASSUME NEW d \in Daemons, CleanRemove(d) \/ \E e \in Daemons : CleanFinds(d, e) \/ CleanMisjudges(d, e)
      PROVE  ClaimGood(x)'
  BY <1>1, <1>4 DEF CleanRemove, CleanFinds, CleanMisjudges
<1>5. CASE UNCHANGED vars
  BY <1>1, <1>5 DEF vars
<1> QED BY <1>2, <1>3, <1>4, <1>5 DEF Next, CleanStep

(* The registrations.                                                      *)
LEMMA RegsStep ==
  ASSUME Inv, [Next]_vars, NEW x \in Daemons
  PROVE  RegGood(x)'
<1>1. PortalTypeOK /\ \A d \in Daemons : RegGood(d)
  BY DEF Inv
<1> USE DEF PortalTypeOK, RegGood, MainTo, Stopping, Done, Alive, fileVars, obsVars
<1>2. ASSUME NEW d \in Daemons, StartPortal(d) \/ StopCall(d) \/ StopStep(d) \/ Crash(d)
      PROVE  RegGood(x)'
  <2>1. CASE StartPortal(d)
    BY <1>1, <1>2, <2>1 DEF StartPortal, Registers
  <2>2. CASE StopCall(d)
    BY <1>1, <1>2, <2>2 DEF StopCall
  <2>3. CASE StopShutdown(d) \/ StopJson(d) \/ StopReturn(d)
    BY <1>1, <1>2, <2>3 DEF StopShutdown, StopJson, StopReturn
  <2>4. CASE StopUnreg(d)
    BY <1>1, <1>2, <2>4 DEF StopUnreg
  <2>5. CASE Crash(d)
    BY <1>1, <1>2, <2>5, NobodyAssumption DEF Crash
  <2> QED BY <1>2, <2>1, <2>2, <2>3, <2>4, <2>5 DEF StopStep
<1>3. ASSUME NEW d \in Daemons, ClaimStep(d) \/ ClaimServed(d)
      PROVE  RegGood(x)'
  BY <1>1, <1>3 DEF ClaimStep, ClaimWaits, ClaimListen, ClaimSet, ClaimStatus, ClaimServed, ClaimClear
<1>4. ASSUME NEW d \in Daemons, CleanRemove(d) PROVE RegGood(x)'
  BY <1>1, <1>4, NobodyAssumption DEF CleanRemove
<1>5. ASSUME NEW d \in Daemons, NEW e \in Daemons, CleanFinds(d, e) \/ CleanMisjudges(d, e)
      PROVE  RegGood(x)'
  BY <1>1, <1>5 DEF CleanFinds, CleanMisjudges, Removing, Others, Stale
<1>6. CASE UNCHANGED vars
  BY <1>1, <1>6 DEF vars
<1> QED BY <1>2, <1>3, <1>4, <1>5, <1>6 DEF Next, CleanStep

LEMMA InvNext == Inv /\ [Next]_vars => Inv'
BY TypesStep, ClaimsStep, RegsStep DEF Inv

(* For any number of daemons: isPortalHolder is right while its daemon     *)
(* serves, and portal.json names the daemon that serves, unless the Stop   *)
(* of an earlier holder deleted the file of the new one.                   *)
THEOREM HolderIsAgreed == Spec => []HolderAgreed
<1>1. Spec => []Inv
  BY InvInit, InvNext, PTL DEF Spec
<1> QED BY <1>1, InvGives, PTL

(* A running daemon keeps its registration whoever cleans up, however late *)
(* a removal decided earlier is carried out, unless it missed a probe.     *)
THEOREM LiveAreRegistered == Spec => []LiveRegistered
<1>1. Spec => []Inv
  BY InvInit, InvNext, PTL DEF Spec
<1> QED BY <1>1, InvGives, PTL
=============================================================================
