------------------------------- MODULE Portal -------------------------------
(***************************************************************************)
(* internal/portal: the daemons of one host share a dashboard.  Each one   *)
(* registers itself in a file; whoever can listen on the portal port       *)
(* serves the dashboard and says so in portal.json; all of them remove the *)
(* registrations of daemons that are gone.                                 *)
(*                                                                         *)
(* A daemon is one process with one instance id: a restarted daemon is a   *)
(* new one.  Its goroutines are the main one (Start, Stop), claimerLoop    *)
(* and cleanupRegistrationLoop.  The operating system gives the port to    *)
(* one listener at a time and takes it back when a process ends.           *)
(***************************************************************************)
EXTENDS Naturals, FiniteSets

CONSTANTS Daemons, Nobody

ASSUME NobodyAssumption == Nobody \notin Daemons

VARIABLES
  main,     \* [Daemons -> where Start and Stop are]
  claim,    \* [Daemons -> where claimerLoop is]
  clean,    \* [Daemons -> the registration cleanup is about to remove, or Nobody]
  port,     \* the daemon whose socket has the portal port, or Nobody
  srv,      \* daemons with p.srv and p.ln set
  shut,     \* daemons whose http.Server is shut down
  held,     \* daemons whose Stop found itself the holder
  regs,     \* daemons with a registration file
  status,   \* portal.json: the daemon it names, or Nobody
  late,     \* observer: daemons that began to serve after Stop had looked
  erased,   \* observer: daemons whose portal.json an earlier holder deleted
  missed    \* observer: daemons whose port did not answer a probe in time

fileVars == <<regs, status>>
obsVars  == <<late, erased, missed>>
vars == <<main, claim, clean, port, srv, shut, held, fileVars, obsVars>>

Stopping == {"closing", "unreg", "json", "wait"}
Alive(d) == main[d] \in {"up"} \cup Stopping     \* the process exists
Done(d)  == main[d] \in Stopping                 \* p.done is closed

Init ==
  /\ main = [d \in Daemons |-> "off"]
  /\ claim = [d \in Daemons |-> "off"]
  /\ clean = [d \in Daemons |-> Nobody]
  /\ port = Nobody /\ srv = {} /\ shut = {} /\ held = {}
  /\ regs = {} /\ status = Nobody
  /\ late = {} /\ erased = {} /\ missed = {}

MainTo(d, l)  == main' = [main EXCEPT ![d] = l]
ClaimTo(d, l) == claim' = [claim EXCEPT ![d] = l]
Release(d)    == port' = IF port = d THEN Nobody ELSE port

----------------------------------------------------------------------------
(***************************************************************************)
(* Start.                                                                  *)
(***************************************************************************)
(* writeRegistration: a temporary file renamed to the daemon's own name.   *)
Registers(d) == regs' = regs \cup {d}

StartPortal(d) ==
  /\ main[d] = "off"
  /\ MainTo(d, "up") /\ ClaimTo(d, "delay")
  /\ Registers(d)
  /\ UNCHANGED <<clean, port, srv, shut, held, status, obsVars>>

(***************************************************************************)
(* claimerLoop.                                                            *)
(***************************************************************************)
(* The random delay, the backoff and the pause all end by a timer, or when *)
(* p.done is closed.                                                       *)
ClaimWaits(d) ==
  /\ claim[d] \in {"delay", "pause"} /\ Alive(d)
  /\ ClaimTo(d, IF Done(d) THEN "end" ELSE "check")
  /\ UNCHANGED <<main, clean, port, srv, shut, held, fileVars, obsVars>>

ClaimListen(d) ==
  /\ claim[d] = "check" /\ Alive(d)
  /\ \/ Done(d) /\ ClaimTo(d, "end") /\ UNCHANGED port
     \/ ~Done(d) /\ port = Nobody /\ ClaimTo(d, "bound") /\ port' = d
     \/ ~Done(d) /\ port # Nobody /\ ClaimTo(d, "pause") /\ UNCHANGED port
  /\ UNCHANGED <<main, clean, srv, shut, held, fileVars, obsVars>>

(* Under p.mu.  Stop may have been there before.                           *)
ClaimSet(d) ==
  /\ claim[d] = "bound"
  /\ srv' = srv \cup {d}
  /\ ClaimTo(d, "status")
  /\ late' = IF main[d] \in Stopping \ {"closing"} THEN late \cup {d} ELSE late
  /\ UNCHANGED <<main, clean, port, shut, held, fileVars, erased, missed>>

StatusOnce(d) ==             \* mutant of ClaimStatus: not on a takeover
  /\ claim[d] = "status"
  /\ status' = IF status = Nobody THEN d ELSE status
  /\ ClaimTo(d, "serve")
  /\ UNCHANGED <<main, clean, port, srv, shut, held, regs, obsVars>>

ClaimStatus(d) ==
  /\ claim[d] = "status"
  /\ status' = d
  /\ erased' = erased \ {d}
  /\ ClaimTo(d, "serve")
  /\ UNCHANGED <<main, clean, port, srv, shut, held, regs, late, missed>>

(* Serve returns: Shutdown was called, or the listener broke.              *)
ClaimServed(d) ==
  /\ claim[d] = "serve"
  /\ ClaimTo(d, "clear")
  /\ Release(d)
  /\ UNCHANGED <<main, clean, srv, shut, held, fileVars, obsVars>>

ClaimClear(d) ==
  /\ claim[d] = "clear"
  /\ srv' = srv \ {d}
  /\ ClaimTo(d, "pause")
  /\ UNCHANGED <<main, clean, port, shut, held, fileVars, obsVars>>

----------------------------------------------------------------------------
(***************************************************************************)
(* Stop.                                                                   *)
(***************************************************************************)
StopCall(d) ==
  /\ main[d] = "up"
  /\ MainTo(d, "closing")
  /\ UNCHANGED <<claim, clean, port, srv, shut, held, fileVars, obsVars>>

NoShutdown(d) ==             \* mutant of StopShutdown: the server is forgotten, not shut down
  /\ main[d] = "closing"
  /\ held' = IF d \in srv THEN held \cup {d} ELSE held
  /\ srv' = srv \ {d}
  /\ MainTo(d, "unreg")
  /\ UNCHANGED <<claim, clean, port, shut, fileVars, obsVars>>

(* Under p.mu: Shutdown closes a listener that Serve knows; a Serve that   *)
(* is called afterwards closes its listener and returns.                   *)
StopShutdown(d) ==
  /\ main[d] = "closing"
  /\ IF d \in srv
       THEN /\ held' = held \cup {d} /\ shut' = shut \cup {d} /\ srv' = srv \ {d}
            /\ IF claim[d] = "serve" THEN Release(d) ELSE UNCHANGED port
       ELSE UNCHANGED <<held, shut, srv, port>>
  /\ MainTo(d, "unreg")
  /\ UNCHANGED <<claim, clean, fileVars, obsVars>>

(* deleteRegistration: the own file, and portal.json of a former holder.   *)
StopUnreg(d) ==
  /\ main[d] = "unreg"
  /\ regs' = regs \ {d}
  /\ MainTo(d, IF d \in held THEN "json" ELSE "wait")
  /\ UNCHANGED <<claim, clean, port, srv, shut, held, status, obsVars>>

StopJson(d) ==
  /\ main[d] = "json"
  /\ status' = Nobody
  /\ erased' = IF d \in held THEN (erased \cup {status}) \ {d, Nobody} ELSE erased
  /\ MainTo(d, "wait")
  /\ UNCHANGED <<claim, clean, port, srv, shut, held, regs, late, missed>>

(* wg.Wait: claimerLoop and cleanupRegistrationLoop have returned.         *)
StopReturn(d) ==
  /\ main[d] = "wait" /\ claim[d] = "end" /\ clean[d] = Nobody
  /\ MainTo(d, "gone")
  /\ UNCHANGED <<claim, clean, port, srv, shut, held, fileVars, obsVars>>

(* The process is killed: its socket goes, its files stay.                 *)
Crash(d) ==
  /\ Alive(d)
  /\ MainTo(d, "dead") /\ ClaimTo(d, "off")
  /\ clean' = [clean EXCEPT ![d] = Nobody]
  /\ Release(d)
  /\ srv' = srv \ {d}
  /\ UNCHANGED <<shut, held, fileVars, obsVars>>

----------------------------------------------------------------------------
(***************************************************************************)
(* cleanupRegistrationLoop.                                                *)
(***************************************************************************)
NotHolder(e)   == port # e           \* mutant of Stale: the portal's port is dialled, not the daemon's

(* isRegistrationAlive asks the pid, and dials the port for one second.    *)
Stale(e) == ~Alive(e)

Others(d)   == regs \ {d}
Removing(d, e) == clean' = [clean EXCEPT ![d] = e]

CleanFinds(d, e) ==
  /\ Alive(d) /\ ~Done(d) /\ clean[d] = Nobody /\ e \in Others(d)
  /\ Stale(e) /\ Removing(d, e) /\ UNCHANGED missed
  /\ UNCHANGED <<main, claim, port, srv, shut, held, fileVars, late, erased>>

CleanMisjudges(d, e) ==
  /\ Alive(d) /\ ~Done(d) /\ clean[d] = Nobody /\ e \in Others(d)
  /\ ~Stale(e) /\ Removing(d, e) /\ missed' = missed \cup {e}
  /\ UNCHANGED <<main, claim, port, srv, shut, held, fileVars, late, erased>>

CleanRemove(d) ==
  /\ clean[d] # Nobody
  /\ regs' = regs \ {clean[d]}
  /\ clean' = [clean EXCEPT ![d] = Nobody]
  /\ UNCHANGED <<main, claim, port, srv, shut, held, status, obsVars>>

----------------------------------------------------------------------------
ClaimStep(d) == ClaimWaits(d) \/ ClaimListen(d) \/ ClaimSet(d) \/ ClaimStatus(d) \/ ClaimClear(d)
StopStep(d)  == StopShutdown(d) \/ StopUnreg(d) \/ StopJson(d) \/ StopReturn(d)
CleanStep(d) == CleanRemove(d) \/ \E e \in Daemons : CleanFinds(d, e)

Next ==
  \E d \in Daemons :
     \/ StartPortal(d) \/ ClaimStep(d) \/ ClaimServed(d)
     \/ StopCall(d) \/ StopStep(d) \/ Crash(d)
     \/ CleanStep(d) \/ \E e \in Daemons : CleanMisjudges(d, e)

(* Goroutines run and timers fire; Serve returns once Shutdown was called. *)
Fairness ==
  \A d \in Daemons :
     /\ WF_vars(ClaimStep(d)) /\ WF_vars(StopStep(d)) /\ WF_vars(CleanStep(d))
     /\ WF_vars(d \in shut /\ ClaimServed(d))

Spec == Init /\ [][Next]_vars /\ Fairness

----------------------------------------------------------------------------
PortalTypeOK ==
  /\ main \in [Daemons -> {"off", "up", "gone", "dead"} \cup Stopping]
  /\ claim \in [Daemons -> {"off", "delay", "check", "bound", "status", "serve",
                            "clear", "pause", "end"}]
  /\ clean \in [Daemons -> Daemons \cup {Nobody}]
  /\ port \in Daemons \cup {Nobody} /\ status \in Daemons \cup {Nobody}
  /\ srv \subseteq Daemons /\ shut \subseteq Daemons /\ held \subseteq Daemons
  /\ regs \subseteq Daemons
  /\ late \subseteq Daemons /\ erased \subseteq Daemons /\ missed \subseteq Daemons
  /\ \A d \in Daemons : clean[d] # d      \* its own registration is not cleaned up

(* isPortalHolder is right, but for the moment between the end of Serve    *)
(* and the claimer's clearing of p.ln.                                     *)
HolderKnowsIt == \A d \in srv : port = d \/ claim[d] = "clear"

(* portal.json names the daemon that serves, unless the Stop of the one    *)
(* before it, which frees the port first and deletes the file afterwards,  *)
(* deleted the new holder's.                                               *)
StatusNamesHolder ==
  \A d \in Daemons :
     claim[d] = "serve" /\ port = d /\ ~Done(d) => status = d \/ d \in erased

(* A running daemon is on the dashboard, unless its port once failed to    *)
(* answer a probe within a second: nobody writes its registration again.   *)
LiveRegistered == \A d \in Daemons : main[d] = "up" => d \in regs \cup missed

(* Stop returns, unless the claimer got the port after Stop had looked for *)
(* a server to shut down: then wg.Wait waits for a Serve nobody ends.      *)
StopReturns == \A d \in Daemons : Done(d) ~> (~Done(d) \/ d \in late)

(* When the holder is gone another running daemon takes the port over.     *)
PortTakenOver ==
  \A d \in Daemons : (main[d] = "up" /\ port = Nobody) ~> (main[d] # "up" \/ port # Nobody)

(* The registration of a daemon that was killed is removed by any other.   *)
DeadForgotten ==
  \A d, e \in Daemons :
     (main[d] = "up" /\ main[e] = "dead" /\ e \in regs) ~> (main[d] # "up" \/ e \notin regs)

(* p.ln, portal.json and the port agree on the holder.                     *)
HolderAgreed == PortalTypeOK /\ HolderKnowsIt /\ StatusNamesHolder

(* Daemons come and go, and neither a Stop, nor the port, nor a dead       *)
(* daemon's registration is left hanging.                                  *)
PortalSettles == StopReturns /\ PortTakenOver /\ DeadForgotten
=============================================================================
