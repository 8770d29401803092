----------------------------- MODULE DshBridge -----------------------------
(***************************************************************************)
(* The remote bridge of the dsh-web proxy: static/dsh-bridge.js replaces   *)
(* window.WebSocket in the embedded page, and bridge.go serves it.  A      *)
(* socket that cannot be opened natively becomes an event stream (GET) for *)
(* what dsh sends and one POST per message for what the page sends; the    *)
(* bridge joins both to one WebSocket of the dsh server.                   *)
(*                                                                         *)
(* One socket of the page, with its random connection id, is modelled: the *)
(* queue of promises in send and close, the GET handler with its pump, and *)
(* the POST handlers, which outlive a request the browser gave up.  Frames *)
(* are the numbers of the messages they carry.                             *)
(***************************************************************************)
EXTENDS Naturals, Sequences, FiniteSets

CONSTANTS MaxUp, MaxDown     \* messages each side sends

ASSUME BridgeBounds == MaxUp \in Nat /\ MaxDown \in Nat

VARIABLES
  rs,       \* readyState
  mode,     \* "trying" natively, "native", "bridge"
  gate,     \* the promise "opened" is resolved
  queue,    \* tasks of the promise queue: messages, and 0 for the close POST
  cur,      \* the task whose POST is awaited, or none: MaxUp + 1
  sent,     \* messages given to send
  es,       \* the event source: "none", "connecting", "live" or "closed"
  got,      \* messages dispatched to the page
  closes,   \* close events dispatched
  posts,    \* POST handlers: <<task, stage>>
  srv,      \* the GET handler
  known,    \* b.conns has the connection
  up,       \* dsh's side: "none", "open" or "closed"
  tcp,      \* the event stream's connection: "none", "up", "shut" or "cut"
  down,     \* frames under way: OpenF, CloseF, ErrorF or a message
  upSent,   \* messages dsh sent
  upGot,    \* messages dsh received, in order
  obs       \* observer: see the properties

pageVars == <<rs, mode, gate, queue, cur, sent, es, got, closes>>
srvVars  == <<srv, known, up, tcp, down, upSent, upGot>>
bridgeVars == <<pageVars, posts, srvVars, obs>>

Close == 0
None  == MaxUp + 1
Tasks == 0..MaxUp
OpenF == MaxDown + 1         \* the frames that carry no message
CloseF == MaxDown + 2
ErrorF == MaxDown + 3
Saw(x) == obs' = obs \cup {x}

BridgeInit ==
  /\ rs = "connecting" /\ mode = "trying" /\ gate = FALSE
  /\ queue = <<>> /\ cur = None /\ sent = 0 /\ es = "none" /\ got = 0 /\ closes = 0
  /\ posts = {}
  /\ srv = "none" /\ known = FALSE /\ up = "none" /\ tcp = "none" /\ down = <<>>
  /\ upSent = 0 /\ upGot = <<>>
  /\ obs = {}

----------------------------------------------------------------------------
(***************************************************************************)
(* The page: constructor and startBridge.                                  *)
(***************************************************************************)
NativeOpens ==
  /\ mode = "trying" /\ rs = "connecting"
  /\ mode' = "native" /\ gate' = TRUE /\ rs' = "open"
  /\ UNCHANGED <<queue, cur, sent, es, got, closes, posts, srvVars, obs>>

NativeCloses ==
  /\ mode = "native" /\ rs # "closed"
  /\ rs' = "closed" /\ closes' = closes + 1
  /\ UNCHANGED <<mode, gate, queue, cur, sent, es, got, posts, srvVars, obs>>

(* After a second, and on error or close of the native socket: also on the *)
(* close event of a socket the page itself closed while it was connecting. *)
Fallback ==
  /\ mode = "trying"
  /\ mode' = "bridge" /\ es' = "connecting"
  /\ UNCHANGED <<rs, gate, queue, cur, sent, got, closes, posts, srvVars, obs>>

(* What becomes of the stream when either side closes its end.             *)
Settle ==
  tcp' = IF tcp = "up" /\ es' = "closed" THEN "cut"
         ELSE IF tcp = "up" /\ (up' = "closed" \/ srv' = "end") THEN "shut" ELSE tcp

CloseEvent(now) ==
  /\ rs' = "closed" /\ gate' = TRUE /\ es' = "closed"
  /\ closes' = IF now THEN closes + 1 ELSE closes

FinishClose == CloseEvent(rs # "closed")

----------------------------------------------------------------------------
(***************************************************************************)
(* The page: send, close and the promise queue.                            *)
(***************************************************************************)
Send ==
  /\ mode = "bridge" /\ rs # "closed" /\ sent < MaxUp
  /\ sent' = sent + 1
  /\ queue' = Append(queue, sent')
  /\ UNCHANGED <<rs, mode, gate, cur, es, got, closes, posts, srvVars, obs>>

(* A page that closes a connecting socket may be left waiting: see         *)
(* CloseCompletes.                                                         *)
PageCloses ==
  /\ rs \in {"connecting", "open"}
  /\ rs' = "closing"
  /\ queue' = IF mode = "bridge" THEN Append(queue, Close) ELSE queue
  /\ obs' = IF mode = "trying" \/ (~gate /\ queue # <<>>) THEN obs \cup {"early"} ELSE obs
  /\ UNCHANGED <<mode, gate, cur, sent, es, got, closes, posts, srvVars>>

AllGated ==                  \* mutant of NextTask: the close POST waits for the gate too
  /\ cur = None /\ queue # <<>> /\ gate
  /\ cur' = Head(queue) /\ queue' = Tail(queue)
  /\ posts' = posts \cup {<<cur', "sent">>}
  /\ UNCHANGED <<rs, mode, gate, sent, es, got, closes, srvVars, obs>>

NextTask ==
  /\ cur = None /\ queue # <<>> /\ (Head(queue) = Close \/ gate)
  /\ cur' = Head(queue) /\ queue' = Tail(queue)
  /\ posts' = posts \cup {<<cur', "sent">>}
  /\ UNCHANGED <<rs, mode, gate, sent, es, got, closes, srvVars, obs>>

(* The browser's fetch rejects; its handler may run all the same.          *)
FetchFails ==
  /\ cur # None /\ cur' = None
  /\ \/ posts' = {p \in posts : p # <<cur, "sent">>}
     \/ UNCHANGED posts
  /\ IF cur = Close THEN FinishClose ELSE UNCHANGED <<rs, gate, es, closes>>
  /\ Saw("failed")
  /\ UNCHANGED <<mode, queue, sent, got, srv, known, up, down, upSent, upGot>> /\ Settle

----------------------------------------------------------------------------
(***************************************************************************)
(* The page: the event source.                                             *)
(***************************************************************************)
Frame(f) == es = "live" /\ down # <<>> /\ Head(down) = f /\ down' = Tail(down)

OpenFrame ==
  /\ Frame(OpenF)
  /\ IF rs = "connecting" THEN rs' = "open" /\ gate' = TRUE ELSE UNCHANGED <<rs, gate>>
  /\ UNCHANGED <<mode, queue, cur, sent, es, got, closes, posts, srv, known, up, tcp,
                 upSent, upGot, obs>>

DataFrame ==
  /\ es = "live" /\ down # <<>> /\ Head(down) \in 1..MaxDown
  /\ down' = Tail(down) /\ got' = got + 1
  /\ UNCHANGED <<rs, mode, gate, queue, cur, sent, es, closes, posts, srv, known, up, tcp,
                 upSent, upGot, obs>>

CloseFrame ==
  /\ Frame(CloseF)
  /\ FinishClose /\ Saw("clean")
  /\ UNCHANGED <<mode, queue, cur, sent, got, posts, srv, known, up, upSent, upGot>> /\ Settle

(* bridgeerror, and an end or an error of the event stream.                *)
EsError ==
  /\ \/ Frame(ErrorF)
     \/ es = "connecting" /\ srv = "none" /\ UNCHANGED down
     \/ es = "live" /\ (tcp = "cut" \/ (tcp = "shut" /\ down = <<>>)) /\ UNCHANGED down
  /\ FinishClose
  /\ UNCHANGED <<mode, queue, cur, sent, got, posts, srv, known, up, upSent, upGot, obs>>
  /\ Settle

(* The network drops the stream, with the frames under way.                *)
StreamLost ==
  /\ tcp = "up" /\ tcp' = "cut" /\ down' = <<>>
  /\ UNCHANGED <<pageVars, posts, srv, known, up, upSent, upGot, obs>>

----------------------------------------------------------------------------
(***************************************************************************)
(* The bridge: serveDownlink.                                              *)
(***************************************************************************)
Write(f) == down' = IF tcp = "up" THEN Append(down, f) ELSE down

PlainOpen ==                 \* mutant of GetArrives: the plain open event opens the socket
  /\ srv = "none" /\ es = "connecting"
  /\ srv' = "dial" /\ tcp' = "up" /\ es' = "live"
  /\ rs' = "open" /\ gate' = TRUE
  /\ UNCHANGED <<mode, queue, cur, sent, got, closes, posts, known, up, down,
                 upSent, upGot, obs>>

(* The headers reach the page before the connection is known; the plain    *)
(* open event they cause is not the "open" frame.                          *)
GetArrives ==
  /\ srv = "none" /\ es \in {"connecting", "closed"} /\ mode = "bridge"
  /\ srv' = "dial"
  /\ tcp' = IF es = "closed" THEN "cut" ELSE "up"
  /\ es' = IF es = "connecting" THEN "live" ELSE es
  /\ UNCHANGED <<rs, mode, gate, queue, cur, sent, got, closes, posts, known, up, down,
                 upSent, upGot, obs>>

DialFails ==
  /\ srv = "dial" /\ srv' = "end"
  /\ Write(ErrorF)
  /\ UNCHANGED <<pageVars, posts, known, up, upSent, upGot, obs>> /\ Settle

Dialed ==
  /\ srv = "dial" /\ srv' = "register" /\ up' = "open"
  /\ UNCHANGED <<pageVars, posts, known, tcp, down, upSent, upGot, obs>>

RegisterConn ==
  /\ srv = "register" /\ srv' = "open" /\ known' = TRUE /\ Saw("registered")
  /\ UNCHANGED <<pageVars, posts, up, tcp, down, upSent, upGot>>

OpenSent ==
  /\ srv = "open" /\ srv' = "pump"
  /\ Write(OpenF)
  /\ UNCHANGED <<pageVars, posts, known, up, tcp, upSent, upGot, obs>>

(* conn.close: once, whoever comes first.                                  *)
ConnClose == up' = "closed" /\ known' = FALSE

PumpData ==
  /\ srv = "pump" /\ up = "open" /\ upSent < MaxDown
  /\ upSent' = upSent + 1
  /\ Write(upSent')
  /\ UNCHANGED <<pageVars, posts, srv, known, up, tcp, upGot, obs>>

PumpClose ==
  /\ srv = "pump" /\ up = "open" /\ srv' = "end"
  /\ Write(CloseF)
  /\ ConnClose
  /\ UNCHANGED <<pageVars, posts, upSent, upGot, obs>> /\ Settle

(* ReadMessage or a write fails: dsh is gone, the page does not read, or   *)
(* the connection was closed here.                                         *)
PumpEnds ==
  /\ srv \in {"open", "pump"} /\ srv' = "end"
  /\ ConnClose
  /\ UNCHANGED <<pageVars, posts, down, upSent, upGot, obs>> /\ Settle

NoWatch ==                   \* mutant of DownGone: nobody reads the page's end
  FALSE /\ UNCHANGED bridgeVars

(* watchDownstream, or a keepAlive that cannot be written.                 *)
DownGone ==
  /\ srv = "pump" /\ tcp = "cut" /\ up = "open"
  /\ ConnClose
  /\ UNCHANGED <<pageVars, posts, srv, tcp, down, upSent, upGot, obs>>

----------------------------------------------------------------------------
(***************************************************************************)
(* The bridge: serveUplink.  The answer to the close POST, whatever it is, *)
(* runs finishClose in the page.                                           *)
(***************************************************************************)
Answer(p) ==
  /\ posts' = posts \ {p}
  /\ cur' = IF p[1] = cur THEN None ELSE cur
  /\ IF p[1] = Close /\ cur = Close
       THEN FinishClose ELSE UNCHANGED <<rs, gate, es, closes>>
  /\ UNCHANGED <<mode, queue, sent, got, srv, down, upSent>>

(* A page that loses the stream before the connection is known drains its  *)
(* queue into refusals, and what is left may still find the connection.    *)
NotFound(p) ==
  /\ p[2] = "sent" /\ ~known
  /\ Answer(p)
  /\ obs' = IF p[1] # Close /\ "registered" \notin obs
              THEN obs \cup {IF rs = "closed" THEN "failed" ELSE "refused"} ELSE obs
  /\ UNCHANGED <<known, up, upGot>> /\ Settle

Found(p) ==
  /\ p[2] = "sent" /\ known
  /\ posts' = (posts \ {p}) \cup {<<p[1], "found">>}
  /\ UNCHANGED <<pageVars, srvVars, obs>>

(* Longer than maxBridgeBodyBytes, or not base64: the connection stays.    *)
Rejected(p) ==
  /\ p[2] = "found" /\ p[1] # Close
  /\ Answer(p) /\ Saw("failed")
  /\ UNCHANGED <<known, up, upGot>> /\ Settle

Relayed(p) ==
  /\ p[2] = "found" /\ p[1] # Close /\ up = "open"
  /\ upGot' = Append(upGot, p[1])
  /\ Answer(p)
  /\ UNCHANGED <<known, up, obs>> /\ Settle

(* close=1, or the upstream write fails.                                   *)
Torn(p) ==
  /\ p[2] = "found" /\ (p[1] = Close \/ up = "closed")
  /\ ConnClose
  /\ Answer(p)
  /\ UNCHANGED <<upGot, obs>> /\ Settle

----------------------------------------------------------------------------
PostStep == \E p \in posts : NotFound(p) \/ Found(p) \/ Rejected(p) \/ Relayed(p) \/ Torn(p)

Shim ==
  \/ NativeOpens \/ NativeCloses \/ Fallback
  \/ Send \/ PageCloses \/ NextTask \/ FetchFails
  \/ OpenFrame \/ DataFrame \/ CloseFrame \/ EsError

Bridge ==
  \/ StreamLost \/ GetArrives \/ DialFails \/ Dialed \/ RegisterConn \/ OpenSent
  \/ PumpData \/ PumpClose \/ PumpEnds \/ DownGone
  \/ PostStep

BridgeNext == Shim \/ Bridge

(* Timers, microtasks, delivered frames and handlers run.  Nothing makes   *)
(* dsh send or close, the page send or close, or the network fail.         *)
BridgeFairness ==
  /\ WF_bridgeVars(NativeOpens \/ Fallback)
  /\ WF_bridgeVars(rs = "closing" /\ NativeCloses)
  /\ WF_bridgeVars(NextTask)
  /\ WF_bridgeVars(OpenFrame \/ DataFrame \/ CloseFrame \/ EsError)
  /\ WF_bridgeVars(GetArrives) /\ WF_bridgeVars(DialFails \/ Dialed)
  /\ WF_bridgeVars(RegisterConn) /\ WF_bridgeVars(OpenSent)
  /\ WF_bridgeVars(up = "closed" /\ PumpEnds) /\ WF_bridgeVars(DownGone)
  /\ WF_bridgeVars(PostStep)

BridgeSpec == BridgeInit /\ [][BridgeNext]_bridgeVars /\ BridgeFairness

----------------------------------------------------------------------------
(* The variables' types.  A socket that is closed has dispatched one close *)
(* event, and one that is not has dispatched none.                         *)
BridgeTypeOK ==
  /\ rs \in {"connecting", "open", "closing", "closed"}
  /\ mode \in {"trying", "native", "bridge"} /\ gate \in BOOLEAN
  /\ queue \in Seq(Tasks) /\ cur \in Tasks \cup {None} /\ sent \in Tasks
  /\ es \in {"none", "connecting", "live", "closed"} /\ got \in 0..MaxDown
  /\ closes = IF rs = "closed" THEN 1 ELSE 0
  /\ posts \subseteq Tasks \X {"sent", "found"}
  /\ srv \in {"none", "dial", "register", "open", "pump", "end"}
  /\ known \in BOOLEAN /\ up \in {"none", "open", "closed"}
  /\ tcp \in {"none", "up", "shut", "cut"}
  /\ down \in Seq(1..MaxDown \cup {OpenF, CloseF, ErrorF})
  /\ upSent \in 0..MaxDown /\ upGot \in Seq(1..MaxUp)
  /\ obs \subseteq {"early", "failed", "clean", "registered", "refused"}

(* No message of an open socket is refused because the bridge does not     *)
(* know the connection yet (dsh-bridge.js: only the frame written after    *)
(* registration opens the socket).                                         *)
SendsFindConn == "refused" \notin obs

(* Unless a POST failed or was rejected, dsh has received a prefix of what *)
(* the page sent, in order and without a gap: send awaits one POST before  *)
(* it makes the next, and a connection that is gone never comes back.      *)
UplinkPrefix ==
  "failed" \notin obs => \A i \in DOMAIN upGot : upGot[i] = i

(* A close frame of dsh comes after everything it sent: the page that sees *)
(* a regular close has missed nothing.                                     *)
CleanCloseComplete == "clean" \in obs => got = upSent

(* close() ends in a close event, but for a page that closes before the    *)
(* socket's way is chosen or with messages waiting for it to open: those   *)
(* wait for dsh, or the network, to end the stream.                        *)
CloseCompletes == rs = "closing" ~> (rs = "closed" \/ "early" \in obs)

(* Whatever closes the page's end, the bridge closes its connection to dsh *)
(* and forgets it.                                                         *)
ConnReleased == (mode = "bridge" /\ rs = "closed") ~> [](up # "open" /\ ~known)

(* Both directions arrive as they were sent.                               *)
BridgeInv == BridgeTypeOK /\ SendsFindConn /\ UplinkPrefix /\ CleanCloseComplete
=============================================================================
