----------------------------- MODULE TTYStream -----------------------------
(***************************************************************************)
(* One terminal and one viewer.  Three processes share an instance's ring  *)
(* buffer: the goroutine that reads the PTY (pumpLogs, broadcast), the     *)
(* handler of the viewer's WebSocket (completeHandshake and the live loop  *)
(* of handleInstanceTTYWSLiveness) or of its event stream                  *)
(* (handleInstanceLogStream), and the page (connectTTY, startSSE,          *)
(* refreshCurrentInstance).                                                *)
(*                                                                         *)
(* The page has one of the two transports at a time; that the code's two   *)
(* reconnect timers can open both is left out.                             *)
(*                                                                         *)
(* The byte printed n-th is the number n, so byte n has offset n - 1 and a *)
(* screen is the set of bytes painted on it.  A dropped connection ends    *)
(* its handler in the same step: the two share nothing any more.           *)
(***************************************************************************)
EXTENDS RingBuffer, SequencesExt

CONSTANTS MaxPrinted,      \* bound: bytes the process prints
          Sizes,           \* lengths of one read of the PTY
          ReadMax,         \* bytes of one replay read (64KB)
          ReplayBudget,    \* ttyHandshakeReplayBudget
          QueueCap,        \* capacity of a subscriber's channel
          WireCap,         \* frames the socket holds before a write blocks
          Loads            \* outcomes of a log load: "ok", "stripped", "failed"

ASSUME StreamAssumption ==
  /\ Byte = 1..MaxPrinted
  /\ \A k \in {MaxPrinted, ReadMax, ReplayBudget, QueueCap, WireCap} : k \in Nat \ {0}
  /\ Sizes \subseteq Nat \ {0}
  /\ Loads \subseteq {"ok", "stripped", "failed"}

Unknown == -1              \* CURSOR_UNKNOWN
FollowLiveEnd == -2        \* CURSOR_FOLLOW_LIVE_END, sinceFollowLiveEnd

VARIABLES
  printed,     \* how many bytes the process has printed
  chunk,       \* what pumpLogs has put in the ring and not yet broadcast
  running,     \* the manager's running map holds the instance
  sub,         \* the handler's subscriber: registered with broadcast, channel
  draining,    \* broadcast is emptying the channel it has closed
  h,           \* the handler
  out,         \* frames the handler is writing
  wire,        \* frames written and not yet received
  up,          \* the page has a socket or an event source
  via,         \* the transport the page uses: "ws" or "sse"
  cursor,      \* session.ttyOffset
  logCursor,   \* session.logCursor
  latched,     \* handshakeSynced
  painted,     \* bytes on the screen
  (* Observers. *)
  sent,        \* bytes this handshake has replayed
  due,         \* the byte the channel owes, or will owe, the handler next
  base,        \* offset the screen starts at
  races        \* which of Races have happened since the screen was cleared

pumpVars   == <<printed, chunk, draining>>
serverVars == <<sub, h, out>>
pageVars   == <<up, via, cursor, logCursor, latched, painted>>
streamVars == <<ringVars, pumpVars, running, serverVars, wire, pageVars,
                sent, due, base, races>>

----------------------------------------------------------------------------
(* Frames.  A close frame ends the connection.                             *)
Frame(kind, off, body) == [kind |-> kind, off |-> off, body |-> body]
Sync(off)   == Frame("sync", off, <<>>)
Bytes(body) == Frame("bytes", 0, body)
BytesOf(body) == IF body = <<>> THEN <<>> ELSE <<Bytes(body)>>
CloseFrame  == Frame("close", 0, <<>>)
LogEvent(next, body) == Frame("log", next, body)

Greater(m, n) == IF m > n THEN m ELSE n
Shown(body) == {body[k] : k \in DOMAIN body}

(* Offset up to which output has been broadcast.                           *)
Announced == printed - Len(chunk)

Off == [pc |-> "off", since |-> Unknown, cursor |-> 0, first |-> TRUE,
        started |-> FALSE, streamed |-> 0, end |-> 0]
NoSub == [reg |-> FALSE, queue |-> <<>>]
Subscribed == sub' = [NoSub EXCEPT !.reg = TRUE]

(* What can come between the screen and the cursor:                        *)
(*   window   output broadcast between a replay and its subscription;      *)
(*   budget   the replay before the subscription cut short by its budget;  *)
(*   ahead    output replayed from the ring and then broadcast as well;    *)
(*   skip     a chunk drained before one that the handler won;             *)
(*   strip    output after a log load whose offset was stripped;           *)
(*   overrun  a ring that overwrote bytes in the middle of a replay.       *)
Races == {"window", "budget", "ahead", "skip", "strip", "overrun"}
Saw(race, now) == races' = IF now THEN races \cup {race} ELSE races

StreamInit ==
  /\ RingInit
  /\ printed = 0 /\ chunk = <<>> /\ draining = FALSE /\ running = TRUE
  /\ sub = NoSub /\ h = Off /\ out = <<>> /\ wire = <<>>
  /\ up = FALSE /\ via = "ws" /\ cursor = Unknown /\ logCursor = Unknown
  /\ latched = FALSE /\ painted = {}
  /\ sent = {} /\ due = 0 /\ base = 0 /\ races = {}

----------------------------------------------------------------------------
(* pumpLogs: the ring first, the subscribers second.                       *)
PumpRead(n) ==
  LET p == [k \in 1..n |-> printed + k]
  IN  /\ chunk = <<>> /\ ~draining
      /\ printed + n <= MaxPrinted
      /\ Write(p)
      /\ printed' = printed + n /\ chunk' = p
      /\ UNCHANGED <<draining, running, serverVars, wire, pageVars, sent, due, base, races>>

(* broadcast: a full channel is closed, and drained after the unlock.      *)
NoDrain ==                   \* mutant of Offer: leave the backlog
  /\ sub' = CASE ~sub.reg                   -> sub
              [] Len(sub.queue) < QueueCap  -> [sub EXCEPT !.queue = Append(@, chunk)]
              [] OTHER                      -> [sub EXCEPT !.reg = FALSE]
  /\ UNCHANGED draining
Offer ==
  \/ /\ ~sub.reg
     /\ UNCHANGED <<sub, draining>>
  \/ /\ sub.reg /\ Len(sub.queue) < QueueCap
     /\ sub' = [sub EXCEPT !.queue = Append(@, chunk)]
     /\ UNCHANGED draining
  \/ /\ sub.reg /\ Len(sub.queue) = QueueCap
     /\ sub' = [sub EXCEPT !.reg = FALSE]
     /\ draining' = TRUE

Broadcast ==
  /\ chunk # <<>> /\ chunk' = <<>>
  /\ Offer
  /\ UNCHANGED <<ringVars, printed, running, h, out, wire, pageVars, sent, due, base, races>>

(* drain: one value at a time, against the handler's own receives.         *)
Drain ==
  /\ draining
  /\ IF sub.queue = <<>>
       THEN draining' = FALSE /\ UNCHANGED sub
       ELSE sub' = [sub EXCEPT !.queue = Tail(@)] /\ UNCHANGED draining
  /\ UNCHANGED <<ringVars, printed, chunk, running, h, out, wire, pageVars, sent, due, base, races>>

----------------------------------------------------------------------------
(* What the manager answers; an instance that is not running has no log.   *)
Read(since) == IF running THEN ReadSince(since, ReadMax) ELSE [body |-> <<>>, next |-> since]
Newest(n)   == IF running THEN TailRead(n) ELSE [body |-> <<>>, off |-> 0]

(* Every step of the handler comes after its last write has gone out.      *)
At(pc) == h.pc = pc /\ out = <<>>

(* Where a screen that gets a tail starts; an empty tail moves nothing.     *)
StartOf(r) == IF r.body = <<>> THEN base ELSE r.off - Len(r.body)

HandlerOnly == UNCHANGED <<ringVars, pumpVars, running, sub, wire, pageVars>>

WriteFrame ==
  /\ out # <<>> /\ Len(wire) < WireCap
  /\ wire' = Append(wire, Head(out)) /\ out' = Tail(out)
  /\ UNCHANGED <<ringVars, pumpVars, running, sub, h, pageVars, sent, due, base, races>>

(***************************************************************************)
(* completeHandshake.  Its three ways to start: follow the live end, the   *)
(* newest bytes, or everything since the cursor the page sent.             *)
(***************************************************************************)
HandshakeFollow ==
  /\ At("hello") /\ h.since = FollowLiveEnd
  /\ LET end == Newest(0).off
     IN  /\ h' = [h EXCEPT !.pc = "sync", !.end = end]
         /\ Saw("strip", \E o \in Greater(base, Oldest)..(end - 1) : o + 1 \notin painted)
  /\ UNCHANGED <<out, sent, due, base>> /\ HandlerOnly

HandshakeTail ==
  /\ At("hello") /\ h.since = Unknown
  /\ LET r == Newest(ReadMax)
     IN  /\ out' = BytesOf(r.body)
         /\ h' = [h EXCEPT !.pc = "sync", !.end = r.off]
         /\ sent' = Shown(r.body) /\ base' = StartOf(r)
  /\ UNCHANGED <<due, races>> /\ HandlerOnly

HandshakeReplay ==
  /\ At("hello") /\ h.since >= 0
  /\ h' = [h EXCEPT !.pc = "replay", !.cursor = h.since]
  /\ UNCHANGED <<out, sent, due, base, races>> /\ HandlerOnly

ReplayStops(end) == h' = [h EXCEPT !.pc = "sync", !.end = end]

(* The budget is spent: the end stays that of the last chunk written.      *)
ReplayBudgetSpent ==
  /\ At("replay") /\ h.streamed >= ReplayBudget
  /\ ReplayStops(h.end) /\ due' = head + 1
  /\ UNCHANGED <<out, sent, base, races>> /\ HandlerOnly

(* A chunk: its real start is announced ahead of the first one.            *)
ChunkStart(r) == r.next - Len(r.body)
StartAtEnd(r) == r.next      \* mutant of StartSync
StartSync(r) == ChunkStart(r)

ReplayChunk ==
  /\ At("replay") /\ h.streamed < ReplayBudget
  /\ LET r == Read(h.cursor)
     IN  /\ r.body # <<>>
         /\ out' = (IF h.started THEN <<>> ELSE <<Sync(StartSync(r))>>) \o <<Bytes(r.body)>>
         /\ sent' = sent \cup Shown(r.body)
         /\ h' = [h EXCEPT !.pc = IF r.next <= h.cursor THEN "sync" ELSE "replay",
                           !.started = TRUE, !.end = r.next, !.first = FALSE,
                           !.streamed = @ + Len(r.body), !.cursor = r.next]
         /\ Saw("overrun", h.started /\ ChunkStart(r) # h.cursor)
  /\ UNCHANGED <<due, base>> /\ HandlerOnly

(* Nothing to read: the end if anything went before, else ask for the head. *)
ReplayEmpty ==
  /\ At("replay") /\ h.streamed < ReplayBudget
  /\ LET r == Read(h.cursor)
     IN  /\ r.body = <<>>
         /\ IF h.first THEN h' = [h EXCEPT !.pc = "consult"] ELSE ReplayStops(r.next)
  /\ UNCHANGED <<out, sent, due, base, races>> /\ HandlerOnly

(* Bytes have come since that read: read again, once (FIX-F).              *)
PublishHead(head_) == ReplayStops(head_)          \* mutant of ReadAgain
ReadAgain(head_)   == h' = [h EXCEPT !.pc = "replay", !.first = FALSE]

ReplayConsult ==
  /\ At("consult")
  /\ LET r == Newest(ReadMax)
     IN  \/ /\ h.cursor > r.off          \* a cursor the ring never held
            /\ out' = IF r.body = <<>> THEN <<>>
                      ELSE <<Sync(r.off - Len(r.body)), Bytes(r.body)>>
            /\ sent' = Shown(r.body) /\ base' = StartOf(r)
            /\ ReplayStops(r.off)
         \/ /\ h.cursor < r.off
            /\ ReadAgain(r.off)
            /\ UNCHANGED <<out, sent, base>>
         \/ /\ h.cursor = r.off
            /\ ReplayStops(r.off)
            /\ UNCHANGED <<out, sent, base>>
  /\ UNCHANGED <<due, races>> /\ HandlerOnly

SendSync ==
  /\ At("sync")
  /\ out' = <<Sync(h.end)>>
  /\ h' = [h EXCEPT !.pc = "subscribe"]
  /\ UNCHANGED <<sent, due, base, races>> /\ HandlerOnly

(* The handler returns, its subscription cancelled, its socket closed.     *)
Return(frames) ==
  /\ h' = Off /\ out' = <<>> /\ sub' = NoSub /\ draining' = FALSE
  /\ sent' = {} /\ due' = 0 /\ wire' = frames

(* SubscribeOutput.  What was announced between the last read and here is  *)
(* in neither the replay nor the subscription.                             *)
Subscribe ==
  /\ At("subscribe")
  /\ IF running
       THEN /\ Subscribed
            /\ h' = [Off EXCEPT !.pc = "live"]
            /\ Saw(CASE h.end > Announced    -> "ahead"
                     [] due = Announced + 1  -> "budget"
                     [] OTHER                -> "window", h.end # Announced)
            /\ due' = Announced + 1
            /\ UNCHANGED <<draining, out, wire, sent>>
       ELSE /\ Return(Append(wire, CloseFrame))
            /\ UNCHANGED races
  /\ UNCHANGED <<ringVars, printed, chunk, running, pageVars, base>>

(* The live loop: one chunk, or the news that the channel is closed.       *)
LiveSend ==
  /\ At("live") /\ sub.queue # <<>>
  /\ LET next == Head(sub.queue)
     IN  /\ out' = <<Bytes(next)>>
         /\ due' = Last(next) + 1
         /\ Saw("skip", Head(next) # due)
  /\ sub' = [sub EXCEPT !.queue = Tail(@)]
  /\ UNCHANGED <<ringVars, pumpVars, running, h, wire, pageVars, sent, base>>

LiveClosed ==
  /\ At("live") /\ sub.queue = <<>> /\ ~sub.reg
  /\ Return(Append(wire, CloseFrame))
  /\ UNCHANGED <<ringVars, printed, chunk, running, pageVars, base, races>>

----------------------------------------------------------------------------
(***************************************************************************)
(* handleInstanceLogStream: one event at once, then what every tick of a   *)
(* second finds.  It reads the ring and has no subscription.               *)
(***************************************************************************)
LogSends(next, body) ==
  /\ out' = <<LogEvent(next, body)>>
  /\ h' = [Off EXCEPT !.pc = "ticks", !.cursor = next]

LogFollow ==
  /\ At("log") /\ h.since = FollowLiveEnd
  /\ LET end == Newest(0).off
     IN  /\ LogSends(end, <<>>)
         /\ Saw("strip", \E o \in Greater(base, Oldest)..(end - 1) : o + 1 \notin painted)
  /\ UNCHANGED <<sent, due, base>> /\ HandlerOnly

LogTail ==
  /\ At("log") /\ h.since = Unknown
  /\ LET r == Newest(ReadMax)
     IN  LogSends(r.off, r.body) /\ base' = StartOf(r)
  /\ UNCHANGED <<sent, due, races>> /\ HandlerOnly

LogSince ==
  /\ At("log") /\ h.since >= 0
  /\ LET r == Read(h.since) IN LogSends(r.next, r.body)
  /\ UNCHANGED <<sent, due, base, races>> /\ HandlerOnly

(* Nothing new is a comment line, which the page does not see.             *)
LogTick ==
  /\ At("ticks")
  /\ LET r == Read(h.cursor)
     IN  /\ r.body # <<>>
         /\ LogSends(r.next, r.body)
         /\ Saw("overrun", ChunkStart(r) # h.cursor)
  /\ UNCHANGED <<sent, due, base>> /\ HandlerOnly

----------------------------------------------------------------------------
(* The page.                                                               *)
Connect ==
  /\ ~up /\ via = "ws"
  /\ up' = TRUE
  /\ h' = [Off EXCEPT !.pc = "hello",
                      !.since = IF cursor > 0 \/ cursor = FollowLiveEnd THEN cursor ELSE Unknown]
  /\ UNCHANGED <<ringVars, pumpVars, running, sub, out, wire, via, cursor, logCursor,
                 latched, painted, sent, due, base, races>>

(* startSSE: the greater of the two cursors is the one the screen is at.   *)
LogCursorOnly == logCursor                    \* mutant of SseCursor
SseCursor == Greater(logCursor, cursor)
StartSSE ==
  /\ ~up /\ via = "sse"
  /\ up' = TRUE
  /\ h' = [Off EXCEPT !.pc = "log",
                      !.since = CASE SseCursor > 0 -> SseCursor
                                  [] SseCursor <= 0 /\ FollowLiveEnd \in {logCursor, cursor} -> FollowLiveEnd
                                  [] OTHER -> Unknown]
  /\ UNCHANGED <<ringVars, pumpVars, running, sub, out, wire, via, cursor, logCursor,
                 latched, painted, sent, due, base, races>>

(* onmessage and onclose.  Bytes move the cursor once it is absolute.      *)
Advanced(f) == IF latched THEN cursor + Len(f.body) ELSE cursor

Receive ==
  /\ up /\ wire # <<>>
  /\ LET f == Head(wire)
     IN  /\ cursor' = CASE f.kind \in {"sync", "log"} -> f.off
                        [] f.kind = "bytes"          -> Advanced(f)
                        [] OTHER                     -> cursor
         /\ logCursor' = IF f.kind = "log" THEN f.off ELSE logCursor
         /\ up' = (f.kind # "close")
         /\ latched' = (up' /\ (latched \/ f.kind = "sync"))
         /\ painted' = painted \cup Shown(f.body)
  /\ wire' = Tail(wire)
  /\ UNCHANGED <<ringVars, pumpVars, running, serverVars, via, sent, due, base, races>>

(* A closed connection takes its frames, its handler and its latch along.  *)
Closes == up' = FALSE /\ latched' = FALSE /\ Return(<<>>)

(* The connection breaks: frames on their way are lost, the screen stays.  *)
Drop ==
  /\ up /\ Closes
  /\ UNCHANGED <<ringVars, printed, chunk, running, via, cursor, logCursor,
                 painted, base, races>>

(* No WebSocket, or no "ready" from it in five seconds: the event stream,  *)
(* until the timer of the closed socket connects again.                    *)
Fallback ==
  /\ via = "ws" /\ (up => h.pc = "hello")
  /\ Closes /\ via' = "sse"
  /\ UNCHANGED <<ringVars, printed, chunk, running, cursor, logCursor, painted, base, races>>

BackToSocket ==
  /\ via = "sse"
  /\ Closes /\ via' = "ws"
  /\ UNCHANGED <<ringVars, printed, chunk, running, cursor, logCursor, painted, base, races>>

(* loadLog: paint what the log handler answers, then pin both cursors.     *)
LogBody == Newest(ReadMax)
LoadLog(load) ==
  /\ painted' = IF load = "failed" THEN {} ELSE Shown(LogBody.body)
  /\ cursor' = CASE load = "ok"                                 -> LogBody.off
                  [] load = "stripped" /\ LogBody.body # <<>>    -> FollowLiveEnd
                  [] OTHER                                       -> Unknown
  /\ logCursor' = cursor'
  /\ base' = LogBody.off - Len(LogBody.body)

(* refreshCurrentInstance: disconnect, clear the screen, load, connect.    *)
Refresh(load) ==
  /\ Closes /\ via' = "ws"
  /\ LoadLog(load)
  /\ races' = {}
  /\ UNCHANGED <<ringVars, printed, chunk, running>>

----------------------------------------------------------------------------
(* The instance ends: the manager forgets it and drops its buffer.         *)
Unrun ==
  /\ running /\ running' = FALSE
  /\ UNCHANGED <<ringVars, pumpVars, serverVars, wire, pageVars, sent, due, base, races>>
DropBuffer ==
  /\ ~closed /\ CloseRing
  /\ UNCHANGED <<pumpVars, running, serverVars, wire, pageVars, sent, due, base, races>>

Pump      == Broadcast \/ Drain \/ \E n \in Sizes : PumpRead(n)
Handshake == HandshakeFollow \/ HandshakeTail \/ HandshakeReplay \/ ReplayBudgetSpent
               \/ ReplayChunk \/ ReplayEmpty \/ ReplayConsult \/ SendSync \/ Subscribe
LogStream == LogFollow \/ LogTail \/ LogSince \/ LogTick
Handler   == WriteFrame \/ Handshake \/ LiveSend \/ LiveClosed \/ LogStream
Page      == Connect \/ StartSSE \/ Receive \/ Drop \/ Fallback \/ BackToSocket
               \/ \E load \in Loads : Refresh(load)

StreamNext == Pump \/ Handler \/ Page \/ Unrun \/ DropBuffer
StreamSpec == StreamInit /\ [][StreamNext]_streamVars

----------------------------------------------------------------------------
(* Properties.                                                             *)
(***************************************************************************)
InHandshake == {"hello", "replay", "consult", "sync", "subscribe"}

(* The variables' types.                                                   *)
StreamTypeOK ==
  /\ RingTypeOK
  /\ printed \in 0..MaxPrinted /\ chunk \in Seq(Byte)
  /\ running \in BOOLEAN /\ draining \in BOOLEAN
  /\ sub \in [reg : BOOLEAN, queue : Seq(Seq(Byte))] /\ Len(sub.queue) <= QueueCap
  /\ h.pc \in InHandshake \cup {"off", "live", "log", "ticks"} /\ h.first \in BOOLEAN /\ h.started \in BOOLEAN
  /\ {h.cursor, h.streamed, h.end} \subseteq Nat
  /\ {h.since, cursor, logCursor} \subseteq Nat \cup {Unknown, FollowLiveEnd}
  /\ up \in BOOLEAN /\ via \in {"ws", "sse"} /\ latched \in BOOLEAN /\ races \subseteq Races
  /\ painted \subseteq Byte /\ sent \subseteq Byte /\ due \in Nat /\ base \in Nat

(* A reconnect that sent a cursor has been replayed every byte the buffer  *)
(* still holds between that cursor and the offset about to be published,   *)
(* and that offset is one the buffer has reached: whatever was printed,    *)
(* overwritten or dropped while the replay was under way, and whether it   *)
(* ended at the head, at its budget or without a chunk.                    *)
ReplayComplete ==
  h.pc = "sync" /\ h.since >= 0 =>
    /\ h.end <= head
    /\ \A o \in Greater(h.since, Oldest)..(h.end - 1) : o + 1 \in sent

(* Issue #94: from the start sync on, the page's cursor never runs ahead   *)
(* of what the replay has painted, so a socket that dies in mid-replay     *)
(* resumes where the screen ends.                                          *)
ReplayNeverAhead ==
  up /\ latched /\ h.pc \in {"replay", "consult", "sync"} =>
    \A o \in Greater(h.since, Oldest)..(cursor - 1) : o + 1 \in painted

(* Chunks that follow one another from byte first to byte last.            *)
Follow(queue, first, last) ==
  /\ \A k \in DOMAIN queue :
       /\ queue[k] # <<>>
       /\ \A i \in DOMAIN queue[k] :
            queue[k][i] = (IF k = 1 THEN first ELSE Last(queue[k - 1]) + 1) + (i - 1)
  /\ last = IF queue = <<>> THEN first - 1 ELSE Last(Last(queue))

(* Issue #82: as long as a subscriber has not been disconnected, what      *)
(* waits in its channel is all the output between what it has taken (or    *)
(* where it subscribed) and the last broadcast, with nothing left out.     *)
NothingSkippedWhileOpen ==
  h.pc = "live" /\ sub.reg => Follow(sub.queue, due, Announced)

(* When the pump is back at the PTY after an overflow, the handler has no  *)
(* backlog left to write to the socket that stalled.                       *)
BacklogDiscarded ==
  h.pc = "live" /\ ~sub.reg /\ ~draining => sub.queue = <<>>

(* A replay is complete and the page never ahead of it.                    *)
ReplayInv == StreamTypeOK /\ ReplayComplete /\ ReplayNeverAhead

(* A subscriber's queue is all it is owed, and nothing once disconnected.  *)
QueueKept == NothingSkippedWhileOpen /\ BacklogDiscarded

(* The page's cursor tells the truth: the screen holds every byte between  *)
(* where it starts and the cursor that the buffer could still supply.      *)
(* Except after one of the first five Races, which are therefore the only  *)
(* ways to lose output for good.                                           *)
CursorTruthful ==
  races \subseteq {"overrun"} =>
    /\ cursor <= printed
    /\ \A o \in Greater(base, Oldest)..(cursor - 1) : o + 1 \in painted

(* Issue #87: without such a race no reconnect repaints, under a screen    *)
(* whose cursor is known, a byte already on it.                            *)
NoRepaint ==
  [][races = {} /\ (latched \/ (via = "sse" /\ SseCursor > 0)) /\ up /\ up' /\ wire # <<>> /\ wire' = Tail(wire)
       => Shown(Head(wire).body) \cap painted = {}]_streamVars
=============================================================================
