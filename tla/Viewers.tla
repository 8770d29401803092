------------------------------- MODULE Viewers -------------------------------
(***************************************************************************)
(* The viewers of one terminal instance: the handler of a terminal's       *)
(* WebSocket and of its event stream (app.go), the size all viewers share, *)
(* and the connection type the status shows (framework/methods.go).        *)
(*                                                                         *)
(* A handler is one goroutine: while it applies a size it neither takes    *)
(* updates nor notices that its peer has left.  Everything under ttyMu is  *)
(* one step; what follows it, resizing the terminal and telling the others *)
(* through the channels collected under the lock, is not.                  *)
(***************************************************************************)
EXTENDS Naturals, FiniteSets

CONSTANTS
  Viewers,     \* connections
  Grids,       \* sizes they propose: <<columns, rows>>
  MaxClients   \* maxTTYClientsPerInstance

ASSUME ViewerParams ==
  /\ Grids \subseteq (Nat \ {0}) \X (Nat \ {0}) /\ MaxClients \in Nat \ {0}

VARIABLES
  pc,        \* per viewer: "out", "registered", "serving", "stuck", "bye",
             \* "untyped", "closing", "applying", "telling" or "sse"
  size,      \* the viewer's proposed size, or NoSize
  full,      \* its channel of capacity 1 holds a size
  shut,      \* its channel is closed
  told,      \* the last size that was put there
  alive,     \* its peer is there
  job,       \* the size the viewer is applying
  todo,      \* the viewers it has yet to tell
  applied,   \* ttyApplied, or NoSize
  pty,       \* the terminal's size
  conns,     \* the connection type: "", "websocket" or "sse"
  raced,     \* observer: applying overlapped, failed or was cut short
  wiped      \* observer: a viewer that left took the type of those who stay

perViewer == <<pc, size, full, shut, told, alive, job, todo>>
shared    == <<applied, pty, conns>>
watched   == <<raced, wiped>>
viewersVars == <<perViewer, shared, watched>>

NoSize == <<0, 0>>

Registered == {v \in Viewers : pc[v] \in {"registered", "serving", "stuck", "bye", "untyped"}
                               \/ (pc[v] \in {"applying", "telling"} /\ ~shut[v])}
Applying   == {v \in Viewers : pc[v] \in {"applying", "telling"}
                               \/ (pc[v] = "closing" /\ job[v] # NoSize)}
Connected  == {v \in Viewers : pc[v] \notin {"out", "untyped", "closing"} /\ ~shut[v]}

ViewersInit ==
  /\ pc = [v \in Viewers |-> "out"] /\ size = [v \in Viewers |-> NoSize]
  /\ full = [v \in Viewers |-> FALSE] /\ shut = [v \in Viewers |-> TRUE]
  /\ told = [v \in Viewers |-> NoSize] /\ alive = [v \in Viewers |-> FALSE]
  /\ job = [v \in Viewers |-> NoSize] /\ todo = [v \in Viewers |-> {}]
  /\ applied = NoSize /\ pty = NoSize /\ conns = ""
  /\ raced = FALSE /\ wiped = FALSE

Go(v, at) == pc' = [pc EXCEPT ![v] = at]

----------------------------------------------------------------------------
(***************************************************************************)
(* Connecting.                                                             *)
(***************************************************************************)
(* registerTTYClient.  A name returns only when nobody is about to send on *)
(* its old channel.                                                        *)
Register(v) ==
  /\ pc[v] = "out" /\ \A w \in Viewers : v \notin todo[w]
  /\ Cardinality(Registered) < MaxClients
  /\ Go(v, "registered")
  /\ size' = [size EXCEPT ![v] = NoSize] /\ told' = [told EXCEPT ![v] = applied]
  /\ full' = [full EXCEPT ![v] = (applied # NoSize)]
  /\ shut' = [shut EXCEPT ![v] = FALSE] /\ alive' = [alive EXCEPT ![v] = TRUE]
  /\ UNCHANGED <<job, todo, shared, raced, wiped>>

SetType(v) ==
  /\ pc[v] = "registered" /\ Go(v, "serving")
  /\ conns' = "websocket" /\ wiped' = FALSE
  /\ UNCHANGED <<size, full, shut, told, alive, job, todo, applied, pty, raced>>

(* RegisterSSEConnection, and the clean-up it returns.                     *)
StreamOpens(v) ==
  /\ pc[v] = "out" /\ \A w \in Viewers : v \notin todo[w]
  /\ Go(v, "sse") /\ conns' = "sse" /\ wiped' = FALSE
  /\ shut' = [shut EXCEPT ![v] = FALSE]
  /\ UNCHANGED <<size, full, told, alive, job, todo, applied, pty, raced>>

StreamEnds(v) ==
  /\ pc[v] = "sse" /\ Go(v, "out")
  /\ conns' = IF conns = "sse" THEN "" ELSE conns
  /\ wiped' = (wiped \/ (conns = "sse" /\ Connected # {v}))
  /\ shut' = [shut EXCEPT ![v] = TRUE]
  /\ UNCHANGED <<size, full, told, alive, job, todo, applied, pty, raced>>

----------------------------------------------------------------------------
(***************************************************************************)
(* The shared size.                                                        *)
(***************************************************************************)
Smallest(S) ==
  CHOOSE s \in {<<a[1], b[2]>> : a \in S, b \in S} : \A x \in S : s[1] <= x[1] /\ s[2] <= x[2]

(* recomputeTTYSizeLocked for the registered viewers R with sizes sz: v    *)
(* will apply what changed.  The last sized viewer leaves nothing to       *)
(* apply, and the terminal as it is.                                       *)
Recompute(v, R, sz) ==
  LET S   == {sz[w] : w \in R} \ {NoSize}
      min == IF S = {} THEN NoSize ELSE Smallest(S)
  IN  /\ applied' = min
      /\ IF min \in {NoSize, applied}
           THEN UNCHANGED <<job, todo, raced>>
           ELSE /\ job' = [job EXCEPT ![v] = min] /\ todo' = [todo EXCEPT ![v] = R]
                /\ raced' = (Applying # {})

(* updateTTYClientSize, up to the release of ttyMu.                        *)
Propose(v, s) ==
  /\ pc[v] = "serving" /\ alive[v]
  /\ size' = [size EXCEPT ![v] = s]
  /\ Recompute(v, Registered, size')
  /\ Go(v, IF job'[v] # NoSize THEN "applying" ELSE "serving")
  /\ UNCHANGED <<full, shut, told, alive, pty, conns, wiped>>

(* Manager.Resize: the terminal gets the size, or it is no longer running. *)
Resized(s) ==
  \/ pty' = s /\ UNCHANGED raced
  \/ raced' = TRUE /\ UNCHANGED pty

(* applyTTYSize: an error is logged and the viewers are told all the same. *)
Resize(v) ==
  /\ pc[v] = "applying" /\ Go(v, "telling")
  /\ Resized(job[v])
  /\ UNCHANGED <<size, full, shut, told, alive, job, todo, applied, conns, wiped>>

Skip(v, w) ==                \* mutant of Tell: a full channel keeps the older size
  /\ pc[v] = "telling" /\ w \in todo[v] /\ ~shut[w]
  /\ told' = [told EXCEPT ![w] = IF full[w] THEN @ ELSE job[v]]
  /\ full' = [full EXCEPT ![w] = TRUE]
  /\ todo' = [todo EXCEPT ![v] = @ \ {w}]
  /\ UNCHANGED <<pc, size, shut, alive, job, shared, watched>>

(* A full channel's size is replaced.                                      *)
Tell(v, w) ==
  /\ pc[v] = "telling" /\ w \in todo[v] /\ ~shut[w]
  /\ told' = [told EXCEPT ![w] = job[v]] /\ full' = [full EXCEPT ![w] = TRUE]
  /\ todo' = [todo EXCEPT ![v] = @ \ {w}]
  /\ UNCHANGED <<pc, size, shut, alive, job, shared, watched>>

(* A send on a closed channel panics.  The handler unwinds; one that was   *)
(* unwinding already ends, without closing its socket.                     *)
TellPanics(v) ==
  /\ pc[v] = "telling" /\ \E w \in todo[v] : shut[w]
  /\ Go(v, IF shut[v] THEN "out" ELSE "bye")
  /\ job' = [job EXCEPT ![v] = NoSize] /\ todo' = [todo EXCEPT ![v] = {}]
  /\ raced' = TRUE
  /\ UNCHANGED <<size, full, shut, told, alive, shared, wiped>>

Told(v) ==
  /\ pc[v] = "telling" /\ todo[v] = {}
  /\ Go(v, IF shut[v] THEN "out" ELSE "serving")
  /\ job' = [job EXCEPT ![v] = NoSize]
  /\ UNCHANGED <<size, full, shut, told, alive, todo, shared, watched>>

----------------------------------------------------------------------------
(***************************************************************************)
(* Serving.                                                                *)
(***************************************************************************)
Update(v) ==
  /\ pc[v] = "serving" /\ full[v]
  /\ full' = [full EXCEPT ![v] = FALSE]
  /\ UNCHANGED <<pc, size, shut, told, alive, job, todo, shared, watched>>

(* The peer vanishes without a word.                                       *)
PeerGone(v) ==
  /\ alive[v] /\ alive' = [alive EXCEPT ![v] = FALSE]
  /\ UNCHANGED <<pc, size, full, shut, told, job, todo, shared, watched>>

(* A write to a peer that does not read has no deadline.                   *)
WriteBlocks(v) ==
  /\ pc[v] = "serving" /\ Go(v, "stuck")
  /\ UNCHANGED <<size, full, shut, told, alive, job, todo, shared, watched>>

WriteResumes(v) ==
  /\ pc[v] = "stuck" /\ Go(v, IF alive[v] THEN "serving" ELSE "bye")
  /\ UNCHANGED <<size, full, shut, told, alive, job, todo, shared, watched>>

Returns(v) ==
  /\ pc[v] = "serving" /\ Go(v, "bye")
  /\ UNCHANGED <<size, full, shut, told, alive, job, todo, shared, watched>>

(* The select loop returns: the peer closed or the terminal refused its    *)
(* input; ...                                                              *)
PeerCloses(v) == alive[v] /\ Returns(v)

(* ... a ping, a sync or some output could not be written to a peer that   *)
(* has gone; ...                                                           *)
WriteFails(v) == ~alive[v] /\ Returns(v)

(* ... the subscription ended because this viewer fell behind, which only  *)
(* costs a close frame with a deadline of its own; ...                     *)
Overflow(v) == Returns(v)

NoDeadline(v) == alive[v] /\ Returns(v)  \* mutant of ReadExpires: a read waits forever

(* ... the reader's deadline for any frame of the peer passed: it closed   *)
(* msgChan and the loop sees that.                                         *)
ReadExpires(v) == ~alive[v] /\ Returns(v)

----------------------------------------------------------------------------
(***************************************************************************)
(* The deferred calls, last first.                                         *)
(***************************************************************************)
NoClear(v) ==                \* mutant of ClearType: without the deferred call
  /\ pc[v] = "bye" /\ Go(v, "untyped")
  /\ wiped' = (wiped \/ (conns # "" /\ Connected # {v}))
  /\ UNCHANGED <<size, full, shut, told, alive, job, todo, shared, raced>>

ClearType(v) ==
  /\ pc[v] = "bye" /\ Go(v, "untyped")
  /\ conns' = ""
  /\ wiped' = (wiped \/ (conns # "" /\ Connected # {v}))
  /\ UNCHANGED <<size, full, shut, told, alive, job, todo, applied, pty, raced>>

(* unregisterTTYClient, up to the release of ttyMu.                        *)
Unregister(v) ==
  /\ pc[v] = "untyped" /\ Go(v, "closing")
  /\ size' = [size EXCEPT ![v] = NoSize]
  /\ Recompute(v, Registered \ {v}, size)
  /\ UNCHANGED <<full, shut, told, alive, pty, conns, wiped>>

CloseUpdates(v) ==
  /\ pc[v] = "closing" /\ shut' = [shut EXCEPT ![v] = TRUE]
  /\ full' = [full EXCEPT ![v] = FALSE]
  /\ Go(v, IF job[v] # NoSize THEN "applying" ELSE "out")
  /\ alive' = [alive EXCEPT ![v] = FALSE] /\ told' = [told EXCEPT ![v] = NoSize]
  /\ UNCHANGED <<size, job, todo, shared, watched>>

----------------------------------------------------------------------------
Serve(v) ==
  \/ SetType(v) \/ Resize(v) \/ TellPanics(v) \/ Told(v) \/ Update(v)
  \/ ClearType(v) \/ Unregister(v) \/ CloseUpdates(v)
  \/ \E w \in Viewers : Tell(v, w)

ViewersNext ==
  \E v \in Viewers :
    \/ Register(v) \/ StreamOpens(v) \/ StreamEnds(v)
    \/ \E s \in Grids : Propose(v, s)
    \/ PeerGone(v) \/ WriteBlocks(v) \/ WriteResumes(v)
    \/ PeerCloses(v) \/ WriteFails(v) \/ Overflow(v) \/ ReadExpires(v)
    \/ Serve(v)

(* Handlers run, and one that waits for a silent peer gives up at the      *)
(* deadline; a blocked write may stay blocked.                             *)
ViewersFairness ==
  \A v \in Viewers : WF_viewersVars(Serve(v)) /\ SF_viewersVars(ReadExpires(v))

ViewersSpec == ViewersInit /\ [][ViewersNext]_viewersVars /\ ViewersFairness

----------------------------------------------------------------------------
(* Every size is made of a proposed width and a proposed height.           *)
KnownSizes == {<<a[1], b[2]>> : a \in Grids, b \in Grids} \cup {NoSize}

(* The variables' types.                                                   *)
ViewersTypeOK ==
  /\ pc \in [Viewers -> {"out", "registered", "serving", "stuck", "bye", "untyped",
                         "closing", "applying", "telling", "sse"}]
  /\ size \in [Viewers -> Grids \cup {NoSize}]
  /\ full \in [Viewers -> BOOLEAN] /\ shut \in [Viewers -> BOOLEAN] /\ alive \in [Viewers -> BOOLEAN]
  /\ told \in [Viewers -> KnownSizes] /\ job \in [Viewers -> KnownSizes]
  /\ todo \in [Viewers -> SUBSET Viewers]
  /\ applied \in KnownSizes /\ pty \in KnownSizes /\ conns \in {"", "websocket", "sse"}
  /\ raced \in BOOLEAN /\ wiped \in BOOLEAN

(* When nobody is applying a size, the one recorded is the smallest that   *)
(* fits every viewer, the terminal has it and every viewer has been told,  *)
(* or will be by what its channel holds: unless the last application       *)
(* overlapped another, failed or panicked, which only the next change      *)
(* mends.                                                                  *)
SizeShared ==
  LET Sized == {size[v] : v \in Registered} \ {NoSize}
  IN  Applying = {} =>
        /\ applied = IF Sized = {} THEN NoSize ELSE Smallest(Sized)
        /\ (applied # NoSize /\ ~raced) =>
             /\ pty = applied
             /\ \A v \in Registered : told[v] = applied

(* What every reachable state of the viewers satisfies.                    *)
ViewersInv == ViewersTypeOK /\ SizeShared

(* A connection type is shown only while such a connection exists; and as  *)
(* long as one exists, unless a viewer that left has wiped it.             *)
TypeShown ==
  /\ conns = "websocket" => \E v \in Connected : pc[v] \notin {"registered", "sse"}
  /\ conns = "sse" => \E v \in Connected : pc[v] = "sse"
  /\ conns = "" /\ ~wiped => \A v \in Connected : pc[v] = "registered"

(* A viewer whose peer has vanished is given up, so that its size does not *)
(* bind the others, unless its handler is stuck in a write.                *)
GoneReleased ==
  \A v \in Viewers :
    (v \in Registered /\ ~alive[v]) ~> (v \notin Registered \/ pc[v] = "stuck")
=============================================================================
