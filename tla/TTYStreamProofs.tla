-------------------------- MODULE TTYStreamProofs --------------------------
(***************************************************************************)
(* The ring buffer first: it holds and returns the right bytes, for every  *)
(* capacity, every chunk and every cursor.                                 *)
(*                                                                         *)
(* Then, whatever the pump, the handler, the page and the manager do:      *)
(*   - the ring buffer between them is used as RingBuffer specifies, so what*)
(*     is proved of it holds of every stream;                              *)
(*   - a channel that was closed gives nothing of its backlog, and an open one*)
(*     has no gap (QueueKept);                                             *)
(*   - a replay is complete and in order (ReplayInv);                      *)
(*   - the page's cursor never runs ahead of its screen (CursorTruthful).  *)
(* Every variable has its shape (ShapeInv); a connection goes down with its*)
(* frames (ConnInv); a handshake has sent all it passed over (HandshakeInv).*)
(* On those rest two invariants about the frames on their way: taken in    *)
(* order, they never move the cursor past what they and the screen supply, *)
(* and together they supply everything up to where the handler goes on,    *)
(* from the replay's cursor on (ReplayOK) and from the start of the screen on*)
(* (TruthOK).                                                              *)
(*                                                                         *)
(* Last, the several viewers of one terminal: whatever sizes they propose  *)
(* and however they come and go, they share the smallest size and the      *)
(* connection type shown is theirs (ViewersIInv).                          *)
(***************************************************************************)
EXTENDS TTYStream, Viewers, SequenceTheorems, WellFoundedInduction, TLAPS

----------------------------------------------------------------------------
(***************************************************************************)
(* The ring buffer.                                                        *)
(***************************************************************************)
(* A quotient and a remainder that fit are the ones % means.               *)
LEMMA ModUnique ==
  ASSUME NEW n \in Nat \ {0}, NEW b \in Nat, NEW q \in Int, NEW r \in 0..(n - 1),
         b = n * q + r
  PROVE  b % n = r
<1> DEFINE qq == b \div n
           rr == b % n
<1>1. qq \in Int /\ rr \in 0..(n - 1)
  BY SMT
<1>2. b = n * qq + rr
  BY SMT
<1> HIDE DEF qq, rr
<1>3. \A k \in Int : k >= 1 => n * k >= n
  BY SMT
<1>4. n * (q - qq) = rr - r
  <2>1. n * (q - qq) = n * q - n * qq
    BY <1>1, SMT
  <2> QED BY <2>1, <1>1, <1>2, SMT
<1>5. n * (qq - q) = r - rr
  <2>1. n * (qq - q) = n * qq - n * q
    BY <1>1, SMT
  <2> QED BY <2>1, <1>1, <1>2, SMT
<1>6. CASE q - qq >= 1
  <2>1. n * (q - qq) >= n
    BY <1>1, <1>3, <1>6
  <2> QED BY <2>1, <1>1, <1>4
<1>7. CASE qq - q >= 1
  <2>1. n * (qq - q) >= n
    BY <1>1, <1>3, <1>7
  <2> QED BY <2>1, <1>1, <1>5
<1>8. CASE q = qq
  BY <1>1, <1>2, <1>8 DEF rr
<1> QED BY <1>1, <1>6, <1>7, <1>8

(* Addressing modulo n, one lap at a time.                                 *)
LEMMA ModStep ==
  ASSUME NEW n \in Nat \ {0}, NEW a \in Nat, NEW d \in 0..(n - 1)
  PROVE  /\ a % n \in 0..(n - 1)
         /\ (a + d) % n = IF (a % n) + d < n THEN (a % n) + d ELSE (a % n) + d - n
<1> DEFINE q == a \div n
           r == a % n
<1>1. q \in Int /\ r \in 0..(n - 1)
  BY SMT
<1>2. a = n * q + r
  BY SMT
<1> HIDE DEF q, r
<1>3. CASE r + d < n
  <2>1. a + d = n * q + (r + d) /\ r + d \in 0..(n - 1) /\ a + d \in Nat
    BY <1>1, <1>2, <1>3
  <2>2. (a + d) % n = r + d
    BY <2>1, <1>1, ModUnique
  <2> QED BY <1>1, <1>3, <2>2 DEF r
<1>4. CASE ~(r + d < n)
  <2> DEFINE q1 == q + 1
             r1 == r + d - n
  <2>1. n * q1 = n * q + n
    BY <1>1, SMT
  <2>2. q1 \in Int /\ r1 \in 0..(n - 1) /\ a + d \in Nat
    BY <1>1, <1>4
  <2>3. a + d = n * q1 + r1
    BY <1>1, <1>2, <2>1
  <2> HIDE DEF q1, r1
  <2>4. (a + d) % n = r1
    BY <2>2, <2>3, ModUnique
  <2> QED BY <1>1, <1>4, <2>4 DEF r, r1
<1> QED BY <1>1, <1>3, <1>4

----------------------------------------------------------------------------
LEMMA InitRing == RingInit => RingTypeOK /\ HoldsTail
<1> SUFFICES ASSUME RingInit PROVE RingTypeOK /\ HoldsTail
  OBVIOUS
<1>1. RingTypeOK
  <2>1. data \in [Slots -> Byte \cup {Zero}]
    BY DEF RingInit
  <2>2. log \in Seq(Byte) /\ head \in Nat /\ used \in 0..Cap /\ closed = FALSE
    BY CapAssumption DEF RingInit
  <2> QED BY <2>1, <2>2 DEF RingTypeOK
<1>2. Len(log) = 0 /\ Lesser(0, Cap) = 0 /\ Oldest..(head - 1) = {}
  BY CapAssumption DEF RingInit, Oldest, Lesser
<1> QED BY <1>1, <1>2 DEF RingInit, HoldsTail

(* What write leaves in the slice: at the slot of an offset of the chunk   *)
(* the chunk's byte, at the slot of an older one that is kept its own.     *)
LEMMA WriteSlots ==
  ASSUME RingTypeOK, closed = FALSE, NEW p \in Seq(Byte), p # <<>>
  PROVE  /\ Written(p) \in [Slots -> Byte \cup {Zero}]
         /\ \A j \in 0..(Len(p) - 1) :
              j >= Len(p) - Cap => Written(p)[(head + j) % Cap] = p[j + 1]
         /\ \A o \in Nat : o < head /\ o >= head + Len(p) - Cap =>
              Written(p)[o % Cap] = data[o % Cap]
<1> DEFINE skip == IF Len(p) > Cap THEN Len(p) - Cap ELSE 0
           origin == head + skip
           pos  == origin % Cap
           w    == Len(p) - skip
           n    == Lesser(Cap - pos, w)
<1>1. /\ Cap \in Nat \ {0} /\ head \in Nat /\ Len(p) \in Nat /\ Len(p) >= 1
      /\ skip \in Nat /\ w = Len(p) - skip /\ w \in 1..Cap
      /\ origin \in Nat /\ origin = head + skip
      /\ skip = 0 \/ w = Cap
  BY CapAssumption DEF RingTypeOK
<1> HIDE DEF skip, w, origin
<1>2. pos \in 0..(Cap - 1)
  BY <1>1, ModStep, 0 \in 0..(Cap - 1)
<1> HIDE DEF pos
<1>3. n \in 1..Cap /\ n <= w /\ pos + n <= Cap /\ w - n <= pos /\ (n = w \/ pos + n = Cap)
  BY <1>1, <1>2 DEF Lesser
<1>4. Written(p) = [k \in Slots |->
                      IF k \in pos..(pos + n - 1) THEN p[skip + (k - pos) + 1]
                      ELSE IF k < w - n            THEN p[skip + n + k + 1]
                      ELSE data[k]]
  BY DEF Written, skip, w, origin, pos
<1>5. data \in [Slots -> Byte \cup {Zero}]
  BY DEF RingTypeOK
<1> HIDE DEF n
<1>6. Written(p) \in [Slots -> Byte \cup {Zero}]
  <2> SUFFICES ASSUME NEW k \in Slots PROVE Written(p)[k] \in Byte \cup {Zero}
    BY <1>4
  <2>1. CASE k \in pos..(pos + n - 1)
    <3>1. skip + (k - pos) + 1 \in 1..Len(p)
      BY <1>1, <1>2, <1>3, <2>1
    <3> QED BY <1>4, <2>1, <3>1
  <2>2. CASE k \notin pos..(pos + n - 1) /\ k < w - n
    <3>1. skip + n + k + 1 \in 1..Len(p)
      BY <1>1, <1>3, <2>2 DEF Slots
    <3> QED BY <1>4, <2>2, <3>1
  <2>3. CASE k \notin pos..(pos + n - 1) /\ ~(k < w - n)
    BY <1>4, <1>5, <2>3
  <2> QED BY <2>1, <2>2, <2>3
<1>7. ASSUME NEW j \in 0..(Len(p) - 1), j >= Len(p) - Cap
      PROVE  Written(p)[(head + j) % Cap] = p[j + 1]
  <2> DEFINE d == j - skip
             k == (head + j) % Cap
  <2>1. d \in 0..(Cap - 1) /\ d < w /\ j = skip + d /\ head + j = origin + d
    BY <1>1, <1>7
  <2>2. k = IF pos + d < Cap THEN pos + d ELSE pos + d - Cap
    <3>1. (origin + d) % Cap = IF pos + d < Cap THEN pos + d ELSE pos + d - Cap
      BY <1>1, <2>1, ModStep DEF pos
    <3> QED BY <2>1, <3>1
  <2> HIDE DEF d, k
  <2>3. k \in 0..(Cap - 1)
    BY <1>1, <1>2, <2>1, <2>2
  <2>4. CASE pos + d < Cap
    <3>1. d < n
      BY <1>1, <1>2, <1>3, <2>1, <2>4
    <3>2. k \in pos..(pos + n - 1) /\ skip + (k - pos) + 1 = j + 1
      BY <1>1, <1>2, <1>3, <2>1, <2>2, <2>4, <3>1
    <3> QED BY <1>4, <2>3, <3>2 DEF k, Slots
  <2>5. CASE ~(pos + d < Cap)
    <3>1. pos + n = Cap
      BY <1>1, <1>2, <1>3, <2>1, <2>5
    <3>2. k < w - n /\ k < pos /\ skip + n + k + 1 = j + 1
      BY <1>1, <1>2, <1>3, <2>1, <2>2, <2>5, <3>1
    <3> QED BY <1>4, <2>3, <1>2, <3>2 DEF k, Slots
  <2> QED BY <2>4, <2>5
<1>8. ASSUME NEW o \in Nat, o < head, o >= head + Len(p) - Cap
      PROVE  Written(p)[o % Cap] = data[o % Cap]
  <2> DEFINE d == head - o
             k == o % Cap
  <2>1. skip = 0 /\ d \in 0..(Cap - 1) /\ d >= 1 /\ d + w <= Cap /\ head = o + d
    BY <1>1, <1>8
  <2>2. k \in 0..(Cap - 1) /\ pos = IF k + d < Cap THEN k + d ELSE k + d - Cap
    <3>1. /\ o % Cap \in 0..(Cap - 1)
          /\ (o + d) % Cap = IF (o % Cap) + d < Cap THEN (o % Cap) + d ELSE (o % Cap) + d - Cap
      BY <1>1, <2>1, ModStep
    <3>2. pos = (o + d) % Cap
      <4>1. origin = o + d
        BY <1>1, <2>1
      <4> QED BY <4>1 DEF pos
    <3> QED BY <3>1, <3>2
  <2> HIDE DEF d, k
  <2>3. k \notin pos..(pos + n - 1) /\ ~(k < w - n) /\ k \in Slots
    BY <1>1, <1>2, <1>3, <2>1, <2>2 DEF Slots
  <2> QED BY <1>4, <2>3 DEF k
<1> QED BY <1>6, <1>7, <1>8

LEMMA WriteKeeps ==
  ASSUME RingTypeOK, HoldsTail, NEW p \in Seq(Byte), p # <<>>, Write(p)
  PROVE  RingTypeOK' /\ HoldsTail'
<1>1. CASE closed
  BY <1>1 DEF Write, ringVars, RingTypeOK, HoldsTail, Oldest
<1>2. CASE ~closed
  <2>1. /\ data' = Written(p) /\ head' = head + Len(p) /\ log' = log \o p
        /\ used' = Lesser(used + Len(p), Cap) /\ closed' = closed /\ closed = FALSE
    BY <1>2 DEF Write, RingTypeOK
  <2>2. /\ head \in Nat /\ Len(p) \in Nat /\ Len(p) >= 1 /\ Cap \in Nat \ {0}
        /\ log \in Seq(Byte) /\ Len(log) = head /\ used = Lesser(head, Cap)
    BY CapAssumption, <2>1 DEF RingTypeOK, HoldsTail
  <2>3. /\ log' \in Seq(Byte) /\ head' = Len(log')
        /\ \A i \in 1..head : log'[i] = log[i]
        /\ \A i \in 1..Len(p) : log'[head + i] = p[i]
    <3>1. /\ log \o p \in Seq(Byte) /\ Len(log \o p) = Len(log) + Len(p)
          /\ \A i \in 1..(Len(log) + Len(p)) :
               (log \o p)[i] = IF i <= Len(log) THEN log[i] ELSE p[i - Len(log)]
      BY <2>2, ConcatProperties
    <3>2. \A i \in 1..head : log'[i] = log[i]
      BY <2>1, <2>2, <3>1
    <3>3. ASSUME NEW i \in 1..Len(p) PROVE log'[head + i] = p[i]
      <4>1. head + i \in 1..(Len(log) + Len(p)) /\ ~(head + i <= Len(log)) /\ (head + i) - Len(log) = i
        BY <2>2
      <4> QED BY <2>1, <3>1, <4>1
    <3> QED BY <2>1, <2>2, <3>1, <3>2, <3>3
  <2>4. used' = Lesser(head', Cap) /\ used' \in 0..Cap
    BY <2>1, <2>2 DEF Lesser
  <2>5. RingTypeOK'
    <3>1. data' \in [Slots -> Byte \cup {Zero}]
      BY <2>1, WriteSlots
    <3>2. head' \in Nat /\ closed' = FALSE
      BY <2>1, <2>2
    <3> QED BY <2>3, <2>4, <3>1, <3>2 DEF RingTypeOK
  <2>6. ASSUME NEW o \in Oldest'..(head' - 1) PROVE data'[o % Cap] = log'[o + 1]
    <3>1. o \in Nat /\ o < head + Len(p) /\ o >= head + Len(p) - Cap
      BY <2>1, <2>2, <2>4 DEF Oldest, Lesser
    <3>2. CASE o >= head
      <4> DEFINE j == o - head
      <4>1. j \in 0..(Len(p) - 1) /\ j >= Len(p) - Cap /\ o = head + j /\ j + 1 \in 1..Len(p)
        BY <2>2, <3>1, <3>2
      <4> HIDE DEF j
      <4>2. data'[o % Cap] = p[j + 1]
        BY <2>1, <4>1, WriteSlots
      <4>3. log'[head + (j + 1)] = p[j + 1] /\ head + (j + 1) = o + 1
        BY <2>2, <2>3, <4>1
      <4> QED BY <4>2, <4>3
    <3>3. CASE o < head
      <4>1. data'[o % Cap] = data[o % Cap]
        BY <2>1, <3>1, <3>3, WriteSlots
      <4>2. o \in Oldest..(head - 1) /\ o + 1 \in 1..head
        BY <2>2, <3>1, <3>3 DEF Oldest, Lesser
      <4> QED BY <2>3, <4>1, <4>2 DEF HoldsTail
    <3> QED BY <3>1, <3>2, <3>3, <2>2
  <2> QED BY <2>1, <2>3, <2>4, <2>5, <2>6 DEF HoldsTail
<1> QED BY <1>1, <1>2

LEMMA CloseKeeps == RingTypeOK /\ HoldsTail /\ CloseRing => RingTypeOK' /\ HoldsTail'
BY CapAssumption DEF CloseRing, RingTypeOK, HoldsTail, Oldest

(* After any sequence of writes and closes the buffer holds the last Cap   *)
(* bytes written, each in the slot its offset addresses.                   *)
THEOREM RingHoldsTail == RingSpec => [](RingTypeOK /\ HoldsTail)
<1>1. RingTypeOK /\ HoldsTail /\ [RingNext]_ringVars => (RingTypeOK /\ HoldsTail)'
  <2>1. CASE UNCHANGED ringVars
    BY <2>1 DEF ringVars, RingTypeOK, HoldsTail, Oldest
  <2> QED BY <2>1, WriteKeeps, CloseKeeps DEF RingNext
<1> QED BY <1>1, InitRing, PTL DEF RingSpec

----------------------------------------------------------------------------
(* What copyRangeLocked returns for a range the buffer holds.              *)
LEMMA CopyIsLog ==
  ASSUME RingTypeOK, HoldsTail, ~closed, NEW start \in Nat, NEW n \in Nat \ {0},
         start >= Oldest, start + n <= head
  PROVE  CopyRange(start, n) = [k \in 1..n |-> log[start + k]]
<1> DEFINE pos == start % Cap
           copied == Lesser(n, Cap - pos)
<1>1. /\ Cap \in Nat \ {0} /\ head \in Nat /\ n <= Cap /\ Oldest = head - used
      /\ \A o \in Oldest..(head - 1) : data[o % Cap] = log[o + 1]
  BY CapAssumption DEF RingTypeOK, HoldsTail, Oldest, Lesser
<1>2. pos \in 0..(Cap - 1)
  BY <1>1, ModStep, 0 \in 0..(Cap - 1)
<1>3. CopyRange(start, n) = [k \in 1..n |-> IF k <= copied THEN data[pos + k - 1]
                                                          ELSE data[k - copied - 1]]
  BY DEF CopyRange
<1>4. ASSUME NEW k \in 1..n
      PROVE  (IF k <= copied THEN data[pos + k - 1] ELSE data[k - copied - 1]) = log[start + k]
  <2> DEFINE d == k - 1
             o == start + d
  <2>1. d \in 0..(Cap - 1) /\ o \in Oldest..(head - 1) /\ o = start + d /\ o + 1 = start + k
    BY <1>1, <1>4
  <2>2. o % Cap = IF pos + d < Cap THEN pos + d ELSE pos + d - Cap
    BY <1>1, <2>1, ModStep
  <2>3. data[o % Cap] = log[start + k]
    BY <1>1, <2>1
  <2> HIDE DEF o
  <2>4. o % Cap = IF k <= copied THEN pos + k - 1 ELSE k - copied - 1
    <3> HIDE DEF pos
    <3> QED BY <1>1, <1>2, <1>4, <2>2 DEF Lesser
  <2> QED BY <2>3, <2>4
<1> QED BY <1>3, <1>4

(* A read from a cursor returns the bytes that follow it, at most max of   *)
(* them, starting at the oldest byte left when the cursor is older; and    *)
(* the cursor it returns is the end of what it returned.                   *)
THEOREM ReadIsLog ==
  ASSUME RingTypeOK, HoldsTail, ~closed, NEW since \in Nat, NEW max \in Nat \ {0}, since < head
  PROVE  LET r == ReadSince(since, max)
             start == IF since < Oldest THEN Oldest ELSE since
         IN  /\ start < r.next /\ r.next <= head
             /\ r.body = [k \in 1..(r.next - start) |-> log[start + k]]
<1> DEFINE start == IF since < Oldest THEN Oldest ELSE since
           n == Lesser(head - start, max)
<1>1. /\ head \in Nat /\ start \in Nat /\ start >= Oldest /\ start < head
      /\ n \in Nat \ {0} /\ start + n <= head
  <2>1. /\ Cap \in Nat /\ head \in Nat /\ used \in 0..Cap /\ used = Lesser(head, Cap)
        /\ since \in Nat /\ max \in Nat /\ max >= 1 /\ Oldest = head - used
    BY CapAssumption DEF RingTypeOK, HoldsTail, Oldest
  <2>2. /\ Oldest \in Nat /\ (used = 0 => head = 0 \/ Cap = 0)
    BY <2>1 DEF Lesser
  <2>3. used >= 1 /\ Oldest < head
    BY <2>1, CapAssumption DEF Lesser
  <2>4. start \in Nat /\ start >= Oldest /\ start < head
    BY <2>1, <2>2, <2>3
  <2> HIDE DEF start
  <2> QED BY <2>1, <2>4 DEF Lesser
<1>2. ReadSince(since, max) = [body |-> CopyRange(start, n), next |-> start + n]
  <2>1. ~(since >= head) /\ max # 0
    BY <1>1
  <2> QED BY <2>1 DEF ReadSince
<1> HIDE DEF start, n
<1>3. CopyRange(start, n) = [k \in 1..n |-> log[start + k]]
  BY <1>1, CopyIsLog
<1> DEFINE r == ReadSince(since, max)
<1>4. r.next = start + n /\ r.body = CopyRange(start, n)
  BY <1>2
<1> HIDE DEF r
<1>5. start < r.next /\ r.next <= head /\ r.next - start = n
  BY <1>1, <1>4
<1>6. r.body = [k \in 1..(r.next - start) |-> log[start + k]]
  BY <1>3, <1>4, <1>5
<1>7. start < r.next /\ r.next <= head /\ r.body = [k \in 1..(r.next - start) |-> log[start + k]]
  BY <1>5, <1>6
<1> QED BY <1>7, Zenon DEF start, r

----------------------------------------------------------------------------
(***************************************************************************)
(* The stream.                                                             *)
(***************************************************************************)
PrintedOK == printed \in Nat

(* A read by the pump is a Write of the buffer.                            *)
LEMMA PumpWrites ==
  ASSUME PrintedOK, NEW n \in Sizes, PumpRead(n)
  PROVE  RingNext /\ PrintedOK'
<1> DEFINE p == [k \in 1..n |-> printed + k]
<1>1. n \in Nat /\ n >= 1 /\ printed \in Nat /\ MaxPrinted \in Nat /\ Byte = 1..MaxPrinted
  BY StreamAssumption DEF PrintedOK
<1>2. printed + n <= MaxPrinted /\ Write(p) /\ printed' = printed + n
  BY DEF PumpRead
<1>3. \A k \in 1..n : printed + k \in Byte
  BY <1>1, <1>2
<1>4. p \in Seq(Byte)
  BY <1>1, <1>3
<1>5. p # <<>>
  <2>1. DOMAIN p = 1..n /\ 1 \in 1..n
    BY <1>1
  <2>2. DOMAIN <<>> = {}
    OBVIOUS
  <2> QED BY <2>1, <2>2
<1>6. PrintedOK'
  BY <1>1, <1>2 DEF PrintedOK
<1> HIDE DEF p
<1> QED BY <1>2, <1>4, <1>5, <1>6 DEF RingNext

(* Every step of a stream is a step of the buffer, or leaves it alone.     *)
LEMMA StreamStep ==
  ASSUME PrintedOK, [StreamNext]_streamVars
  PROVE  [RingNext]_ringVars /\ PrintedOK'
<1>1. CASE UNCHANGED streamVars
  BY <1>1 DEF streamVars, pumpVars, PrintedOK
<1>2. CASE Pump
  <2>1. CASE Broadcast \/ Drain
    BY <2>1 DEF Broadcast, Drain, PrintedOK
  <2> QED BY <1>2, <2>1, PumpWrites DEF Pump
<1>3. CASE Handshake
  <2>1. CASE Subscribe
    BY <2>1 DEF Subscribe, PrintedOK
  <2>2. CASE Handshake /\ ~Subscribe
    <3>1. HandlerOnly
      BY <2>2 DEF Handshake, HandshakeFollow, HandshakeTail, HandshakeReplay, ReplayBudgetSpent,
                  ReplayChunk, ReplayEmpty, ReplayConsult, SendSync
    <3> QED BY <3>1 DEF HandlerOnly, pumpVars, PrintedOK
  <2> QED BY <1>3, <2>1, <2>2
<1>4. CASE WriteFrame \/ LiveSend \/ LiveClosed \/ LogStream
  BY <1>4 DEF WriteFrame, LiveSend, LiveClosed, LogStream, LogFollow, LogTail, LogSince, LogTick,
              HandlerOnly, pumpVars, PrintedOK
<1>5. CASE Page
  <2>1. CASE Connect \/ StartSSE \/ Receive \/ Drop \/ Fallback \/ BackToSocket
    BY <2>1 DEF Connect, StartSSE, Receive, Drop, Fallback, BackToSocket, pumpVars, PrintedOK
  <2>2. ASSUME NEW load \in Loads, Refresh(load)
        PROVE  UNCHANGED ringVars /\ PrintedOK'
    BY <2>2 DEF Refresh, PrintedOK
  <2> QED BY <1>5, <2>1, <2>2 DEF Page
<1>6. CASE Unrun
  BY <1>6 DEF Unrun, pumpVars, PrintedOK
<1>7. CASE DropBuffer
  BY <1>7 DEF DropBuffer, pumpVars, PrintedOK, RingNext
<1> QED BY <1>1, <1>2, <1>3, <1>4, <1>5, <1>6, <1>7 DEF StreamNext, Handler

(* A stream uses the buffer by its methods only: it implements RingSpec.   *)
THEOREM StreamUsesRing == StreamSpec => RingSpec
<1>1. StreamInit => RingInit /\ PrintedOK
  BY DEF StreamInit, PrintedOK
<1>2. PrintedOK /\ [StreamNext]_streamVars => PrintedOK'
  BY StreamStep
<1>3. PrintedOK /\ [StreamNext]_streamVars => [RingNext]_ringVars
  BY StreamStep
<1> QED BY <1>1, <1>2, <1>3, PTL DEF StreamSpec, RingSpec

(* In every state of a stream the buffer holds the last Cap bytes printed  *)
(* before it was dropped, each where its offset says.                      *)
THEOREM StreamHoldsTail == StreamSpec => []HoldsTail
BY StreamUsesRing, RingHoldsTail, PTL

----------------------------------------------------------------------------
(* The records keep their fields.                                          *)
Shapes ==
  /\ sub = [reg |-> sub.reg, queue |-> sub.queue]
  /\ h = [pc |-> h.pc, since |-> h.since, cursor |-> h.cursor, first |-> h.first,
          started |-> h.started, streamed |-> h.streamed, end |-> h.end]

BacklogInv == Shapes /\ BacklogDiscarded

LEMMA InitBacklog == StreamInit => BacklogInv
BY DEF StreamInit, BacklogInv, Shapes, BacklogDiscarded, Off, NoSub

(* A return leaves no handler.                                             *)
LEMMA ReturnBacklog ==
  ASSUME NEW frames, Return(frames)
  PROVE  BacklogInv'
BY DEF Return, BacklogInv, Shapes, BacklogDiscarded, Off, NoSub

(* The steps of the handshake before the subscription move the handler to  *)
(* another place in it.                                                    *)
LEMMA HandshakeBacklog ==
  ASSUME BacklogInv, Handshake, ~Subscribe
  PROVE  BacklogInv'
<1>1. sub' = sub
  BY DEF Handshake, HandshakeFollow, HandshakeTail, HandshakeReplay, ReplayBudgetSpent,
         ReplayChunk, ReplayEmpty, ReplayConsult, SendSync, HandlerOnly
<1>2. CASE HandshakeFollow
  BY <1>1, <1>2 DEF HandshakeFollow, BacklogInv, Shapes, BacklogDiscarded
<1>3. CASE HandshakeTail
  BY <1>1, <1>3 DEF HandshakeTail, BacklogInv, Shapes, BacklogDiscarded
<1>4. CASE HandshakeReplay
  BY <1>1, <1>4 DEF HandshakeReplay, BacklogInv, Shapes, BacklogDiscarded
<1>5. CASE ReplayBudgetSpent
  BY <1>1, <1>5 DEF ReplayBudgetSpent, ReplayStops, BacklogInv, Shapes, BacklogDiscarded
<1>6. CASE ReplayChunk
  <2> DEFINE r  == Read(h.cursor)
             to == IF r.next <= h.cursor THEN "sync" ELSE "replay"
  <2>1. h' = [h EXCEPT !.pc = to, !.started = TRUE, !.end = r.next, !.first = FALSE,
                       !.streamed = @ + Len(r.body), !.cursor = r.next]
    BY <1>6 DEF ReplayChunk
  <2>2. to # "live"
    OBVIOUS
  <2> HIDE DEF r, to
  <2> QED BY <1>1, <2>1, <2>2 DEF BacklogInv, Shapes, BacklogDiscarded
<1>7. CASE ReplayEmpty
  BY <1>1, <1>7 DEF ReplayEmpty, ReplayStops, BacklogInv, Shapes, BacklogDiscarded
<1>8. CASE ReplayConsult
  <2>1. \/ \E end : ReplayStops(end)
        \/ h' = [h EXCEPT !.pc = "replay", !.first = FALSE]
    BY <1>8 DEF ReplayConsult, ReadAgain
  <2> QED BY <1>1, <2>1 DEF ReplayStops, BacklogInv, Shapes, BacklogDiscarded
<1>9. CASE SendSync
  BY <1>1, <1>9 DEF SendSync, BacklogInv, Shapes, BacklogDiscarded
<1> QED BY <1>2, <1>3, <1>4, <1>5, <1>6, <1>7, <1>8, <1>9 DEF Handshake

(* Every step keeps the discarded backlog discarded.                       *)
LEMMA NextBacklog ==
  ASSUME BacklogInv, [StreamNext]_streamVars
  PROVE  BacklogInv'
<1>1. CASE UNCHANGED <<h, sub, draining>>
  BY <1>1 DEF BacklogInv, Shapes, BacklogDiscarded
<1>2. CASE Broadcast
  BY <1>2 DEF Broadcast, Offer, BacklogInv, Shapes, BacklogDiscarded
<1>3. CASE Drain
  BY <1>3 DEF Drain, BacklogInv, Shapes, BacklogDiscarded
<1>4. CASE Subscribe
  <2>1. CASE running
    BY <1>4, <2>1 DEF Subscribe, Subscribed, BacklogInv, Shapes, BacklogDiscarded, NoSub, Off
  <2> QED BY <1>4, <2>1, ReturnBacklog DEF Subscribe
<1>5. CASE Handshake /\ ~Subscribe
  BY <1>5, HandshakeBacklog
<1>6. CASE LiveSend
  BY <1>6 DEF LiveSend, pumpVars, BacklogInv, Shapes, BacklogDiscarded
<1>7. CASE LiveClosed
  BY <1>7, ReturnBacklog DEF LiveClosed
<1>8. CASE Connect \/ StartSSE
  <2>1. PICK s : \E to \in {"hello", "log"} : h' = [Off EXCEPT !.pc = to, !.since = s]
    BY <1>8 DEF Connect, StartSSE
  <2>2. sub' = sub
    BY <1>8 DEF Connect, StartSSE
  <2> QED BY <2>1, <2>2 DEF BacklogInv, Shapes, BacklogDiscarded, Off
<1>9. CASE Drop \/ Fallback \/ BackToSocket \/ \E load \in Loads : Refresh(load)
  BY <1>9, ReturnBacklog DEF Drop, Fallback, BackToSocket, Refresh, Closes
<1>10. CASE (\E n \in Sizes : PumpRead(n)) \/ WriteFrame \/ Receive \/ Unrun \/ DropBuffer
  BY <1>1, <1>10 DEF PumpRead, WriteFrame, Receive, Unrun, DropBuffer, pumpVars, serverVars
<1>11. CASE LogStream
  <2>1. PICK next : h' = [Off EXCEPT !.pc = "ticks", !.cursor = next]
    BY <1>11 DEF LogStream, LogFollow, LogTail, LogSince, LogTick, LogSends
  <2>2. sub' = sub
    BY <1>11 DEF LogStream, LogFollow, LogTail, LogSince, LogTick, HandlerOnly
  <2> QED BY <2>1, <2>2 DEF BacklogInv, Shapes, BacklogDiscarded, Off
<1> QED
  BY <1>1, <1>2, <1>3, <1>4, <1>5, <1>6, <1>7, <1>8, <1>9, <1>10, <1>11
     DEF StreamNext, Pump, Handler, Handshake, Page, streamVars, serverVars, pumpVars

(* After an overflow the pump returns to the PTY only when nothing is left *)
(* in the channel it closed.                                               *)
THEOREM NoBacklog == StreamSpec => []BacklogDiscarded
<1>1. BacklogInv /\ [StreamNext]_streamVars => BacklogInv'
  BY NextBacklog
<1>2. BacklogInv => BacklogDiscarded
  BY DEF BacklogInv
<1> QED BY <1>1, <1>2, InitBacklog, PTL DEF StreamSpec

-----------------------------------------------------------------------------
(* Runs of bytes, and the frames that carry them.                          *)

(* The bytes after a up to e, and the chunks that are such runs.           *)
Run(a, e) == [k \in 1..(e - a) |-> a + k]
IsRun(c) == \E a, e \in 0..MaxPrinted : a < e /\ c = Run(a, e)

(* A run has the bytes after a up to e, and ends with e.                   *)
LEMMA RunFacts ==
  ASSUME NEW a \in Nat, NEW e \in Nat, a < e
  PROVE  /\ Run(a, e) \in Seq(Nat) /\ Len(Run(a, e)) = e - a /\ DOMAIN Run(a, e) = 1..(e - a)
         /\ Run(a, e) # <<>> /\ Run(a, e)[1] = a + 1 /\ Last(Run(a, e)) = e
         /\ Shown(Run(a, e)) = (a + 1)..e
<1> DEFINE r == Run(a, e)
<1>1. r \in Seq(Nat) /\ Len(r) = e - a /\ DOMAIN r = 1..(e - a)
  BY DEF Run
<1>2. \A k \in 1..(e - a) : r[k] = a + k
  BY DEF Run
<1> HIDE DEF r
<1>3. r # <<>> /\ r[1] = a + 1
  BY <1>1, <1>2
<1>4. Last(r) = e
  BY <1>1, <1>2 DEF Last
<1>5. Shown(r) = (a + 1)..e
  <2>1. ASSUME NEW x \in Shown(r) PROVE x \in (a + 1)..e
    BY <1>1, <1>2 DEF Shown
  <2>2. ASSUME NEW x \in (a + 1)..e PROVE x \in Shown(r)
    <3>1. x - a \in 1..(e - a) /\ r[x - a] = x
      BY <1>2
    <3> QED BY <1>1, <3>1 DEF Shown
  <2> QED BY <2>1, <2>2
<1> QED BY <1>1, <1>3, <1>4, <1>5 DEF r

LEMMA RunEmpty == \A a \in Int : Run(a, a) = <<>>
<1> TAKE a \in Int
<1>1. 1..(a - a) = {}
  OBVIOUS
<1> QED BY <1>1 DEF Run

(* A run of bytes that have been printed.                                  *)
LEMMA RunIsRun ==
  ASSUME NEW a \in Nat, NEW e \in Nat, a < e, e <= MaxPrinted
  PROVE  IsRun(Run(a, e)) /\ Run(a, e) \in Seq(Byte)
<1>1. MaxPrinted \in Nat /\ Byte = 1..MaxPrinted
  BY StreamAssumption
<1>2. a \in 0..MaxPrinted /\ e \in 0..MaxPrinted
  BY <1>1
<1>3. \A k \in 1..(e - a) : a + k \in Byte
  BY <1>1
<1> QED BY <1>2, <1>3 DEF IsRun, Run

(* A run read byte by byte.                                                *)
LEMMA IsRunFacts ==
  ASSUME NEW c, IsRun(c)
  PROVE  /\ c \in Seq(Byte) /\ c # <<>> /\ Len(c) \in Nat \ {0} /\ DOMAIN c = 1..Len(c)
         /\ c[1] \in Nat /\ c[1] >= 1 /\ Last(c) = c[1] + Len(c) - 1
         /\ Last(c) \in 1..MaxPrinted
         /\ \A k \in 1..Len(c) : c[k] = c[1] + (k - 1)
         /\ Shown(c) = c[1]..Last(c)
         /\ c = Run(c[1] - 1, Last(c))
<1>1. PICK a \in 0..MaxPrinted, e \in 0..MaxPrinted : a < e /\ c = Run(a, e)
  BY DEF IsRun
<1>2. a \in Nat /\ e \in Nat /\ e <= MaxPrinted /\ MaxPrinted \in Nat
  BY StreamAssumption
<1>3. c \in Seq(Byte)
  BY <1>1, <1>2, RunIsRun
<1>4. /\ Len(c) = e - a /\ DOMAIN c = 1..(e - a) /\ c # <<>> /\ c[1] = a + 1
      /\ Last(c) = e /\ Shown(c) = (a + 1)..e
  BY <1>1, <1>2, RunFacts
<1>5. \A k \in 1..Len(c) : c[k] = a + k
  BY <1>1, <1>4 DEF Run
<1>6. c[1] - 1 = a
  BY <1>2, <1>4
<1>7. c = Run(c[1] - 1, Last(c))
  BY <1>1, <1>4, <1>6
<1>8. Len(c) \in Nat \ {0} /\ DOMAIN c = 1..Len(c) /\ c[1] \in Nat /\ c[1] >= 1
      /\ Last(c) = c[1] + Len(c) - 1 /\ Last(c) \in 1..MaxPrinted
  BY <1>1, <1>2, <1>4
<1>9. \A k \in 1..Len(c) : c[k] = c[1] + (k - 1)
  BY <1>2, <1>4, <1>5
<1> QED BY <1>3, <1>4, <1>7, <1>8, <1>9

----------------------------------------------------------------------------
(* What the handler can put on the wire.                                   *)
Frames ==
  {f \in [kind : {"sync", "bytes", "log", "close"}, off : Nat, body : Seq(Byte)] :
     /\ f.kind \in {"sync", "close"} => f.body = <<>>
     /\ f.kind = "bytes" => IsRun(f.body)
     /\ f.kind = "log" => f.body = <<>> \/ (IsRun(f.body) /\ Last(f.body) = f.off)}

FrameEnd(f)   == IF f.kind = "bytes" THEN Last(f.body) ELSE f.off
FrameStart(f) == f.body[1] - 1

(* What the fields of a frame can be.                                      *)
LEMMA FrameFacts ==
  ASSUME NEW f \in Frames
  PROVE  /\ FrameEnd(f) \in Nat /\ Len(f.body) \in Nat /\ Shown(f.body) \subseteq Byte
         /\ f.off \in Nat /\ f.body \in Seq(Byte)
         /\ f.kind \in {"sync", "bytes", "log", "close"}
         /\ f.kind = "bytes" => /\ FrameStart(f) \in Nat
                                /\ FrameEnd(f) = FrameStart(f) + Len(f.body)
                                /\ Len(f.body) >= 1
                                /\ Shown(f.body) = (FrameStart(f) + 1)..FrameEnd(f)
<1>1. f.off \in Nat /\ f.body \in Seq(Byte) /\ f.kind \in {"sync", "bytes", "log", "close"}
  BY DEF Frames
<1>2. Len(f.body) \in Nat /\ Shown(f.body) \subseteq Byte
  BY <1>1 DEF Shown
<1>3. CASE f.kind = "bytes"
  <2> DEFINE c == f.body
  <2>1. IsRun(c)
    BY <1>3 DEF Frames
  <2> HIDE DEF c
  <2>2. /\ Len(c) \in Nat \ {0} /\ c[1] \in Nat /\ c[1] >= 1 /\ Last(c) = c[1] + Len(c) - 1
        /\ Shown(c) = c[1]..Last(c)
    BY <2>1, IsRunFacts
  <2>3. FrameEnd(f) = Last(c) /\ FrameStart(f) = c[1] - 1
    BY <1>3 DEF FrameEnd, FrameStart, c
  <2>4. FrameStart(f) + 1 = c[1]
    BY <2>2, <2>3
  <2>5. FrameStart(f) \in Nat /\ FrameEnd(f) \in Nat /\ FrameEnd(f) = FrameStart(f) + Len(c) /\ Len(c) >= 1
    BY <2>2, <2>3
  <2>6. Shown(c) = (FrameStart(f) + 1)..FrameEnd(f)
    BY <2>2, <2>3, <2>4
  <2> QED BY <1>1, <1>2, <2>5, <2>6 DEF c
<1>4. CASE f.kind # "bytes"
  BY <1>1, <1>2, <1>4 DEF FrameEnd
<1> QED BY <1>3, <1>4

(* Each way a handler makes a frame.                                       *)
LEMMA MakeFrames ==
  /\ \A off \in Nat : Sync(off) \in Frames
  /\ CloseFrame \in Frames
  /\ \A c : IsRun(c) => Bytes(c) \in Frames /\ LogEvent(Last(c), c) \in Frames
  /\ \A off \in Nat : LogEvent(off, <<>>) \in Frames
<1>1. <<>> \in Seq(Byte)
  OBVIOUS
<1>2. ASSUME NEW c, IsRun(c) PROVE Bytes(c) \in Frames /\ LogEvent(Last(c), c) \in Frames
  <2>1. c \in Seq(Byte) /\ Last(c) \in Nat
    BY <1>2, IsRunFacts, StreamAssumption
  <2> QED BY <1>2, <2>1 DEF Bytes, LogEvent, Frame, Frames
<1> QED BY <1>1, <1>2 DEF Sync, CloseFrame, LogEvent, Frame, Frames

----------------------------------------------------------------------------
(* Sequences.                                                              *)
LEMMA ConcatEmpty ==
  ASSUME NEW X, NEW w \in Seq(X)
  PROVE  w \o <<>> = w
BY ConcatEmptySeq

(* Frames joined one after the other.                                      *)
LEMMA ConcatOne ==
  ASSUME NEW X, NEW w \in Seq(X), NEW f \in X
  PROVE  w \o <<f>> = Append(w, f)
BY AppendIsConcat

LEMMA ConcatTwo ==
  ASSUME NEW X, NEW w \in Seq(X), NEW f \in X, NEW g \in X
  PROVE  w \o <<f, g>> = Append(Append(w, f), g)
<1>1. <<f, g>> = <<f>> \o <<g>> /\ <<f>> \in Seq(X) /\ <<g>> \in Seq(X)
  <2>1. <<f>> \in Seq(X) /\ <<g>> \in Seq(X)
    OBVIOUS
  <2>2. <<f, g>> = Append(<<f>>, g)
    OBVIOUS
  <2>3. Append(<<f>>, g) = <<f>> \o <<g>>
    BY <2>1, ConcatOne
  <2> QED BY <2>1, <2>2, <2>3
<1>2. w \o (<<f>> \o <<g>>) = (w \o <<f>>) \o <<g>>
  BY <1>1, ConcatAssociative
<1>3. w \o <<f>> = Append(w, f) /\ Append(w, f) \in Seq(X)
  BY ConcatOne, AppendProperties
<1> QED BY <1>1, <1>2, <1>3, ConcatOne

(* A frame that goes from one queue to the next stays on its way.          *)
LEMMA MoveOn ==
  ASSUME NEW X, NEW w \in Seq(X), NEW o \in Seq(X), o # <<>>
  PROVE  Append(w, Head(o)) \o Tail(o) = w \o o
<1>1. Head(o) \in X /\ Tail(o) \in Seq(X) /\ <<Head(o)>> \in Seq(X)
  BY HeadTailProperties
<1>2. o = <<Head(o)>> \o Tail(o)
  BY <1>1, SMT
<1>3. Append(w, Head(o)) = w \o <<Head(o)>>
  BY <1>1, ConcatOne
<1>4. (w \o <<Head(o)>>) \o Tail(o) = w \o (<<Head(o)>> \o Tail(o))
  BY <1>1, ConcatAssociative
<1> QED BY <1>2, <1>3, <1>4

(* The first of two joined sequences loses its head.                       *)
LEMMA TakeOff ==
  ASSUME NEW X, NEW w \in Seq(X), NEW o \in Seq(X), w # <<>>
  PROVE  /\ w \o o \in Seq(X) /\ w \o o # <<>> /\ Tail(w) \o o = Tail(w \o o)
         /\ (w \o o)[1] = Head(w)
<1>1. Head(w) \in X /\ Tail(w) \in Seq(X) /\ <<Head(w)>> \in Seq(X)
  BY HeadTailProperties
<1>2. w = <<Head(w)>> \o Tail(w)
  BY <1>1, SMT
<1>3. w \o o = <<Head(w)>> \o (Tail(w) \o o) /\ Tail(w) \o o \in Seq(X)
  BY <1>1, <1>2, ConcatAssociative, ConcatProperties
<1> DEFINE t == Tail(w) \o o
<1>4. t \in Seq(X) /\ w \o o = <<Head(w)>> \o t
  BY <1>3
<1> HIDE DEF t
<1>5. w \o o \in Seq(X) /\ w \o o # <<>> /\ Tail(w \o o) = t /\ (w \o o)[1] = Head(w)
  BY <1>1, <1>4
<1> QED BY <1>5 DEF t

-----------------------------------------------------------------------------
(* What the frames on their way put on the screen.                         *)

(* The offsets from lo up to e are on the screen S, or will be once the    *)
(* first k frames of F have arrived.                                       *)
Covers(S, lo, e) == \A o \in lo..(e - 1) : o + 1 \in S
Supplied(F, k, S, lo, e) ==
  \A o \in lo..(e - 1) : o + 1 \in S \/ \E j \in 1..k : o + 1 \in Shown(F[j].body)

(* The frames F, on their way to a screen S with cursor c (latched or not),*)
(* never move the cursor past what they and the screen supply.             *)
Flow(F, S, c, l, lo) ==
  /\ \A k \in 1..Len(F) : F[k].kind # "close" => Supplied(F, k, S, lo, FrameEnd(F[k]))
  /\ \A k \in 1..(Len(F) - 1) :
       F[k + 1].kind = "bytes" => FrameEnd(F[k]) <= FrameStart(F[k + 1])
  /\ l /\ F # <<>> /\ F[1].kind = "bytes" => c <= FrameStart(F[1])

(* Together they supply everything up to P, where the handler goes on.     *)
Reach(F, S, c, l, lo, P) ==
  /\ F # <<>> => FrameEnd(F[Len(F)]) <= P
  /\ F = <<>> /\ l => c <= P
  /\ Supplied(F, Len(F), S, lo, P)

(* With no frame on its way, what is supplied is what is painted.          *)
LEMMA SuppliedNone ==
  ASSUME NEW S, NEW lo, NEW e, NEW F
  PROVE  Supplied(F, 0, S, lo, e) <=> Covers(S, lo, e)
<1>1. 1..0 = {}
  OBVIOUS
<1> QED BY <1>1, Zenon DEF Supplied, Covers

LEMMA FlowNone ==
  ASSUME NEW S, NEW c, NEW l, NEW lo
  PROVE  /\ Flow(<<>>, S, c, l, lo)
         /\ \A P : Covers(S, lo, P) /\ (l => c <= P) => Reach(<<>>, S, c, l, lo, P)
         /\ \A P : Reach(<<>>, S, c, l, lo, P) => Covers(S, lo, P)
<1>1. Len(<<>>) = 0 /\ 1..0 = {} /\ 1..(0 - 1) = {}
  OBVIOUS
<1>2. Flow(<<>>, S, c, l, lo)
  BY <1>1 DEF Flow
<1>3. \A P : Supplied(<<>>, Len(<<>>), S, lo, P) <=> Covers(S, lo, P)
  BY <1>1, SuppliedNone
<1> QED BY <1>2, <1>3, Zenon DEF Reach

(* The oldest byte that counts moves on.                                   *)
LEMMA FlowGrow ==
  ASSUME NEW F, NEW S, NEW c, NEW l, NEW lo \in Int, NEW lo2 \in Int, lo <= lo2
  PROVE  /\ Flow(F, S, c, l, lo) /\ (\A k \in 1..Len(F) : FrameEnd(F[k]) \in Int) => Flow(F, S, c, l, lo2)
         /\ \A P \in Int : Reach(F, S, c, l, lo, P) => Reach(F, S, c, l, lo2, P)
         /\ \A e \in Int : Covers(S, lo, e) => Covers(S, lo2, e)
<1>1. \A e \in Int : lo2..(e - 1) \subseteq lo..(e - 1)
  OBVIOUS
<1>2. \A k : \A e \in Int : Supplied(F, k, S, lo, e) => Supplied(F, k, S, lo2, e)
  BY <1>1 DEF Supplied
<1>3. \A e \in Int : Covers(S, lo, e) => Covers(S, lo2, e)
  BY <1>1 DEF Covers
<1>4. ASSUME Flow(F, S, c, l, lo), \A k \in 1..Len(F) : FrameEnd(F[k]) \in Int PROVE Flow(F, S, c, l, lo2)
  BY <1>2, <1>4 DEF Flow
<1>5. ASSUME NEW P \in Int, Reach(F, S, c, l, lo, P) PROVE Reach(F, S, c, l, lo2, P)
  BY <1>2, <1>5 DEF Reach
<1> QED BY <1>3, <1>4, <1>5

(* The handler goes on further up, over output that is no longer held.     *)
LEMMA ReachOn ==
  ASSUME NEW F \in Seq(Frames), NEW S, NEW c \in Int, NEW l, NEW lo \in Int,
         NEW P \in Int, NEW P2 \in Int,
         Reach(F, S, c, l, lo, P), P <= P2, P2 <= P \/ P2 <= lo
  PROVE  Reach(F, S, c, l, lo, P2)
<1>1. \A o \in lo..(P2 - 1) : o \in lo..(P - 1)
  OBVIOUS
<1>2. Supplied(F, Len(F), S, lo, P2)
  BY <1>1 DEF Reach, Supplied
<1>3. F # <<>> => FrameEnd(F[Len(F)]) \in Int
  <2> SUFFICES ASSUME F # <<>> PROVE FrameEnd(F[Len(F)]) \in Int
    OBVIOUS
  <2>1. Len(F) \in 1..Len(F)
    OBVIOUS
  <2>2. F[Len(F)] \in Frames
    BY <2>1
  <2> QED BY <2>2, FrameFacts
<1> QED BY <1>2, <1>3 DEF Reach

(* A frame that goes on from where the others reach keeps the flow whole.  *)
LEMMA FlowAppend ==
  ASSUME NEW F \in Seq(Frames), NEW S, NEW c \in Int, NEW l, NEW lo \in Int,
         NEW P \in Int, NEW f \in Frames,
         Flow(F, S, c, l, lo), Reach(F, S, c, l, lo, P), f.kind # "close",
         f.kind = "bytes" => P <= FrameStart(f),
         \A o \in lo..(FrameEnd(f) - 1) : o < P \/ o + 1 \in Shown(f.body)
  PROVE  /\ Append(F, f) \in Seq(Frames)
         /\ Flow(Append(F, f), S, c, l, lo)
         /\ Reach(Append(F, f), S, c, l, lo, FrameEnd(f))
<1> DEFINE G == Append(F, f)
           n == Len(F)
<1>1. /\ G \in Seq(Frames) /\ Len(G) = n + 1 /\ n \in Nat /\ G # <<>>
      /\ \A k \in 1..n : G[k] = F[k]
      /\ G[n + 1] = f
  BY AppendProperties
<1> HIDE DEF G
<1>2. \A k \in 1..n : F[k] \in Frames /\ FrameEnd(F[k]) \in Nat
  BY FrameFacts
<1>3. FrameEnd(f) \in Nat /\ (f.kind = "bytes" => FrameStart(f) \in Nat)
  BY FrameFacts
<1>4. Supplied(G, n + 1, S, lo, FrameEnd(f))
  <2> SUFFICES ASSUME NEW o \in lo..(FrameEnd(f) - 1)
               PROVE  o + 1 \in S \/ \E j \in 1..(n + 1) : o + 1 \in Shown(G[j].body)
    BY DEF Supplied
  <2>1. CASE o + 1 \in Shown(f.body)
    <3>1. n + 1 \in 1..(n + 1)
      BY <1>1
    <3> QED BY <1>1, <2>1, <3>1
  <2>2. CASE o < P
    <3>1. o \in lo..(P - 1)
      BY <2>2, <1>3
    <3>2. o + 1 \in S \/ \E j \in 1..n : o + 1 \in Shown(F[j].body)
      BY <3>1 DEF Reach, Supplied
    <3>3. \A j \in 1..n : j \in 1..(n + 1) /\ G[j] = F[j]
      BY <1>1
    <3> QED BY <3>2, <3>3
  <2> QED BY <2>1, <2>2
<1>5. ASSUME NEW k \in 1..Len(G), G[k].kind # "close"
      PROVE  Supplied(G, k, S, lo, FrameEnd(G[k]))
  <2>1. CASE k = n + 1
    BY <1>1, <1>4, <2>1
  <2>2. CASE k \in 1..n
    <3>1. G[k] = F[k] /\ \A j \in 1..k : G[j] = F[j]
      BY <1>1, <2>2
    <3>2. Supplied(F, k, S, lo, FrameEnd(F[k]))
      BY <1>5, <2>2, <3>1 DEF Flow
    <3> QED BY <3>1, <3>2 DEF Supplied
  <2> QED BY <1>1, <2>1, <2>2
<1>6. ASSUME NEW k \in 1..(Len(G) - 1), G[k + 1].kind = "bytes"
      PROVE  FrameEnd(G[k]) <= FrameStart(G[k + 1])
  <2>1. CASE k = n
    <3>1. n \in 1..n /\ F # <<>> /\ G[k] = F[n] /\ G[k + 1] = f
      BY <1>1, <2>1
    <3>2. FrameEnd(F[n]) <= P
      BY <3>1 DEF Reach
    <3> QED BY <1>2, <1>3, <1>6, <3>1, <3>2
  <2>2. CASE k \in 1..(n - 1)
    <3>1. G[k] = F[k] /\ G[k + 1] = F[k + 1]
      BY <1>1, <2>2
    <3> QED BY <1>6, <2>2, <3>1 DEF Flow
  <2> QED BY <1>1, <2>1, <2>2
<1>7. ASSUME l, G[1].kind = "bytes" PROVE c <= FrameStart(G[1])
  <2>1. CASE F = <<>>
    <3>1. G[1] = f /\ c <= P
      BY <1>1, <1>7, <2>1 DEF Reach
    <3> QED BY <1>3, <1>7, <3>1
  <2>2. CASE F # <<>>
    <3>1. G[1] = F[1]
      BY <1>1, <2>2
    <3> QED BY <1>7, <2>2, <3>1 DEF Flow
  <2> QED BY <2>1, <2>2
<1>8. Flow(G, S, c, l, lo)
  BY <1>5, <1>6, <1>7 DEF Flow
<1>9. Reach(G, S, c, l, lo, FrameEnd(f))
  BY <1>1, <1>3, <1>4 DEF Reach
<1> QED BY <1>1, <1>8, <1>9 DEF G

(* A close frame supplies nothing.                                         *)
LEMMA FlowClose ==
  ASSUME NEW F \in Seq(Frames), NEW S, NEW c, NEW l, NEW lo, Flow(F, S, c, l, lo)
  PROVE  /\ Append(F, CloseFrame) \in Seq(Frames)
         /\ Flow(Append(F, CloseFrame), S, c, l, lo)
<1> DEFINE f == CloseFrame
           G == Append(F, f)
           n == Len(F)
<1>1. f \in Frames /\ f.kind = "close"
  BY MakeFrames DEF CloseFrame, Frame
<1> HIDE DEF f
<1>2. /\ G \in Seq(Frames) /\ Len(G) = n + 1 /\ n \in Nat
      /\ \A k \in 1..n : G[k] = F[k]
      /\ G[n + 1] = f
  BY <1>1, AppendProperties
<1> HIDE DEF G
<1>3. ASSUME NEW k \in 1..Len(G), G[k].kind # "close"
      PROVE  Supplied(G, k, S, lo, FrameEnd(G[k]))
  <2>1. k \in 1..n /\ G[k] = F[k] /\ \A j \in 1..k : G[j] = F[j]
    BY <1>1, <1>2, <1>3
  <2>2. Supplied(F, k, S, lo, FrameEnd(F[k]))
    BY <1>3, <2>1 DEF Flow
  <2> QED BY <2>1, <2>2 DEF Supplied
<1>4. ASSUME NEW k \in 1..(Len(G) - 1), G[k + 1].kind = "bytes"
      PROVE  FrameEnd(G[k]) <= FrameStart(G[k + 1])
  <2>1. k \in 1..(n - 1) /\ G[k] = F[k] /\ G[k + 1] = F[k + 1]
    BY <1>1, <1>2, <1>4
  <2> QED BY <1>4, <2>1 DEF Flow
<1>5. ASSUME l, G[1].kind = "bytes" PROVE c <= FrameStart(G[1])
  <2>1. n # 0 /\ 1 \in 1..n
    BY <1>1, <1>2, <1>5
  <2>2. F # <<>> /\ G[1] = F[1]
    BY <1>2, <2>1
  <2> QED BY <1>5, <2>2 DEF Flow
<1> QED BY <1>2, <1>3, <1>4, <1>5 DEF Flow, G, f

(* The page takes the first frame, the last one if it is a close frame.    *)
Taken(F, S, c, l, S2, c2, l2) ==
  /\ F[1].kind = "close" => Len(F) = 1
  /\ l2 => F[1].kind # "close" /\ (l \/ F[1].kind = "sync")
  /\ F[1].kind \in {"sync", "log"} => c2 = F[1].off
  /\ F[1].kind = "bytes" /\ l => c2 = c + Len(F[1].body)
  /\ F[1].kind = "close" \/ (F[1].kind = "bytes" /\ ~l) => c2 = c
  /\ S2 = S \cup Shown(F[1].body)

(* It paints the body and moves its cursor *)
(* no further than the screen now goes.                                    *)
LEMMA FlowTail ==
  ASSUME NEW F \in Seq(Frames), F # <<>>, NEW S, NEW c \in Int, NEW l \in BOOLEAN, NEW lo \in Int,
         NEW c2 \in Int, NEW l2 \in BOOLEAN,
         Flow(F, S, c, l, lo),
         NEW S2, Taken(F, S, c, l, S2, c2, l2)
  PROVE  /\ Tail(F) \in Seq(Frames)
         /\ Flow(Tail(F), S2, c2, l2, lo)
         /\ \A P \in Int : Reach(F, S, c, l, lo, P) => Reach(Tail(F), S2, c2, l2, lo, P)
         /\ Covers(S, lo, c) => Covers(S2, lo, c2)
         /\ c2 <= c \/ c2 <= FrameEnd(F[1])
         /\ l2 => Covers(S2, lo, c2)
<1> DEFINE f  == F[1]
           T  == Tail(F)
           n  == Len(F)
<1>0. /\ f.kind = "close" => Len(F) = 1
      /\ l2 => f.kind # "close" /\ (l \/ f.kind = "sync")
      /\ f.kind \in {"sync", "log"} => c2 = f.off
      /\ f.kind = "bytes" /\ l => c2 = c + Len(f.body)
      /\ f.kind = "close" \/ (f.kind = "bytes" /\ ~l) => c2 = c
      /\ S2 = S \cup Shown(f.body)
  BY DEF Taken
<1>13. \A x, y, z \in Int : x <= y \/ x <= z =>
        \A o \in lo..(x - 1) : o \in lo..(y - 1) \/ o \in lo..(z - 1)
  OBVIOUS
<1>1. /\ n \in Nat \ {0} /\ T \in Seq(Frames) /\ Len(T) = n - 1
      /\ \A k \in 1..(n - 1) : T[k] = F[k + 1]
      /\ \A k \in 1..n : F[k] \in Frames /\ FrameEnd(F[k]) \in Nat
      /\ f \in Frames
  <2>1. n \in Nat \ {0} /\ T \in Seq(Frames) /\ Len(T) = n - 1 /\ \A k \in 1..(n - 1) : T[k] = F[k + 1]
    BY HeadTailProperties
  <2>2. \A k \in 1..n : F[k] \in Frames
    OBVIOUS
  <2> QED BY <2>1, <2>2, FrameFacts
<1>2. /\ f.off \in Nat /\ FrameEnd(f) \in Nat /\ Len(f.body) \in Nat
      /\ f.kind \in {"sync", "bytes", "log", "close"}
      /\ f.kind = "bytes" => FrameStart(f) \in Nat /\ FrameEnd(f) = FrameStart(f) + Len(f.body)
  BY <1>1, FrameFacts
<1>3. f.kind \in {"sync", "log"} => FrameEnd(f) = f.off
  BY DEF FrameEnd
<1> HIDE DEF T, n
<1>4. ASSUME NEW k \in 0..(n - 1), NEW e, Supplied(F, k + 1, S, lo, e)
      PROVE  Supplied(T, k, S2, lo, e)
  <2> SUFFICES ASSUME NEW o \in lo..(e - 1)
               PROVE  o + 1 \in S2 \/ \E j \in 1..k : o + 1 \in Shown(T[j].body)
    BY DEF Supplied
  <2>1. o + 1 \in S \/ \E j \in 1..(k + 1) : o + 1 \in Shown(F[j].body)
    BY <1>4 DEF Supplied
  <2>2. CASE o + 1 \in S
    BY <1>0, <2>2
  <2>3. ASSUME NEW j \in 1..(k + 1), o + 1 \in Shown(F[j].body)
        PROVE  o + 1 \in S2 \/ \E i \in 1..k : o + 1 \in Shown(T[i].body)
    <3>1. CASE j = 1
      BY <1>0, <2>3, <3>1
    <3>2. CASE j # 1
      <4>0. n \in Nat
        BY <1>1
      <4>1. j - 1 \in 1..k /\ j - 1 \in 1..(n - 1) /\ (j - 1) + 1 = j
        BY <4>0, <3>2
      <4>2. T[j - 1] = F[j]
        BY <1>1, <4>1
      <4>3. o + 1 \in Shown(T[j - 1].body)
        BY <2>3, <4>2
      <4> QED BY <4>1, <4>3, Zenon
    <3> QED BY <3>1, <3>2
  <2> QED BY <2>1, <2>2, <2>3
<1>5. Supplied(T, 0, S2, lo, FrameEnd(f)) \/ f.kind = "close"
  <2>1. 1 \in 1..n /\ 0 \in 0..(n - 1) /\ 0 + 1 = 1
    BY <1>1
  <2>2. f.kind # "close" => Supplied(F, 1, S, lo, FrameEnd(f))
    BY <2>1 DEF Flow, n
  <2> QED BY <1>4, <2>1, <2>2
<1>6. f.kind # "close" => Covers(S2, lo, FrameEnd(f))
  BY <1>5, SuppliedNone
<1>7. l2 => c2 <= FrameEnd(f) /\ f.kind # "close"
  <2>1. CASE f.kind = "bytes"
    <3>1. l2 => l /\ c <= FrameStart(f) /\ c2 = c + Len(f.body)
      BY <1>0, <2>1 DEF Flow
    <3> QED BY <1>2, <2>1, <3>1
  <2>2. CASE f.kind # "bytes"
    BY <1>0, <1>2, <1>3, <2>2
  <2> QED BY <2>1, <2>2
<1>8. c2 <= c \/ c2 <= FrameEnd(f)
  <2>1. CASE f.kind = "bytes" /\ l
    BY <1>0, <1>2, <2>1 DEF Flow
  <2>2. CASE ~(f.kind = "bytes" /\ l)
    BY <1>0, <1>2, <1>3, <2>2
  <2> QED BY <2>1, <2>2
<1>9. ASSUME Covers(S, lo, c) PROVE Covers(S2, lo, c2)
  <2>1. Covers(S2, lo, c)
    BY <1>0, <1>9 DEF Covers
  <2>2. CASE f.kind = "close"
    BY <1>0, <2>1, <2>2, <1>2
  <2>3. CASE f.kind # "close"
    <3>0. FrameEnd(f) \in Int /\ c2 \in Int /\ c \in Int
      BY <1>2
    <3>1. \A o \in lo..(c2 - 1) : o \in lo..(c - 1) \/ o \in lo..(FrameEnd(f) - 1)
      BY <1>13, <1>8, <3>0, Zenon
    <3> QED BY <2>1, <1>6, <2>3, <3>1 DEF Covers
  <2> QED BY <2>2, <2>3
<1>10. Flow(T, S2, c2, l2, lo)
  <2>1. ASSUME NEW k \in 1..Len(T), T[k].kind # "close"
        PROVE  Supplied(T, k, S2, lo, FrameEnd(T[k]))
    <3>1. k + 1 \in 1..n /\ k \in 0..(n - 1) /\ T[k] = F[k + 1]
      BY <1>1
    <3>2. Supplied(F, k + 1, S, lo, FrameEnd(F[k + 1]))
      BY <2>1, <3>1 DEF Flow, n
    <3> QED BY <1>4, <3>1, <3>2
  <2>2. ASSUME NEW k \in 1..(Len(T) - 1), T[k + 1].kind = "bytes"
        PROVE  FrameEnd(T[k]) <= FrameStart(T[k + 1])
    <3>1. k + 1 \in 1..(n - 1) /\ T[k] = F[k + 1] /\ T[k + 1] = F[(k + 1) + 1]
      BY <1>1
    <3> QED BY <2>2, <3>1 DEF Flow, n
  <2>3. ASSUME l2, T # <<>>, T[1].kind = "bytes" PROVE c2 <= FrameStart(T[1])
    <3>1. Len(T) # 0
      BY <1>1, <2>3
    <3>2. 1 \in 1..(n - 1) /\ 2 \in 1..n /\ T[1] = F[1 + 1] /\ 1 + 1 = 2
      BY <1>1, <3>1
    <3>3. FrameEnd(f) <= FrameStart(T[1])
      BY <2>3, <3>2 DEF Flow, n
    <3>4. FrameStart(T[1]) \in Nat
      BY <1>1, <2>3, <3>2, FrameFacts
    <3> QED BY <1>2, <1>7, <2>3, <3>3, <3>4
  <2> QED BY <2>1, <2>2, <2>3 DEF Flow
<1>11. ASSUME NEW P \in Int, Reach(F, S, c, l, lo, P) PROVE Reach(T, S2, c2, l2, lo, P)
  <2>1. n \in 1..n /\ FrameEnd(F[n]) <= P
    BY <1>1, <1>11 DEF Reach, n
  <2>2. T # <<>> => FrameEnd(T[Len(T)]) <= P
    <3>1. T # <<>> => Len(T) # 0
      BY <1>1
    <3>2. T # <<>> => n - 1 \in 1..(n - 1) /\ T[Len(T)] = F[n]
      BY <1>1, <3>1
    <3> QED BY <2>1, <3>2
  <2>3. T = <<>> /\ l2 => c2 <= P
    <3>1. T = <<>> => n = 1
      BY <1>1
    <3> QED BY <1>1, <1>2, <1>7, <2>1, <3>1
  <2>4. Supplied(T, Len(T), S2, lo, P)
    <3>1. n - 1 \in 0..(n - 1) /\ (n - 1) + 1 = n /\ Supplied(F, n, S, lo, P)
      BY <1>1, <1>11 DEF Reach, n
    <3> QED BY <1>1, <1>4, <3>1
  <2> QED BY <2>2, <2>3, <2>4 DEF Reach
<1>12. l2 => Covers(S2, lo, c2)
  <2>1. ASSUME l2 PROVE Covers(S2, lo, c2)
    <3>1. \A o \in lo..(c2 - 1) : o \in lo..(FrameEnd(f) - 1)
      BY <1>2, <1>7, <2>1
    <3> QED BY <1>6, <1>7, <2>1, <3>1 DEF Covers
  <2> QED BY <2>1
<1> QED BY <1>1, <1>8, <1>9, <1>10, <1>11, <1>12 DEF T

-----------------------------------------------------------------------------
(* ShapeInv: what every variable looks like, for every state.              *)

(* The states of a handler.                                                *)
HandlerStates ==
  [pc : InHandshake \cup {"off", "live", "log", "ticks"}, since : Nat \cup {Unknown, FollowLiveEnd},
   cursor : Nat, first : BOOLEAN, started : BOOLEAN, streamed : Nat, end : Nat]

(* What was printed is what the buffer was given, until it was closed.     *)
RingOK ==
  /\ RingTypeOK /\ HoldsTail /\ log = Run(0, head)
  /\ printed \in 0..MaxPrinted /\ head <= printed /\ (~closed => head = printed)

(* The pump holds what was printed and not yet announced.                  *)
ChunkOK == chunk \in Seq(Byte) /\ Len(chunk) <= printed /\ chunk = Run(Announced, printed)

(* The channel holds runs of what was printed.                             *)
SubOK ==
  /\ sub \in [reg : BOOLEAN, queue : Seq(Seq(Byte))] /\ Len(sub.queue) <= QueueCap
  /\ \A k \in 1..Len(sub.queue) : IsRun(sub.queue[k]) /\ Last(sub.queue[k]) <= printed

FramesOK == wire \in Seq(Frames) /\ out \in Seq(Frames)

(* A latched page has a cursor.                                            *)
PageOK ==
  /\ up \in BOOLEAN /\ via \in {"ws", "sse"} /\ latched \in BOOLEAN
  /\ cursor \in Nat \cup {Unknown, FollowLiveEnd} /\ logCursor \in Nat \cup {Unknown, FollowLiveEnd}
  /\ painted \subseteq Byte /\ (latched => cursor >= 0)

(* The screen starts no later than the tail of the buffer that would be    *)
(* painted now.                                                            *)
BaseOK == base \in Nat /\ (~closed => base <= head - Lesser(ReadMax, used))

(* Every variable has its shape.                                           *)
ShapeInv ==
  /\ RingOK /\ ChunkOK /\ SubOK /\ FramesOK /\ PageOK /\ BaseOK
  /\ h \in HandlerStates /\ running \in BOOLEAN /\ draining \in BOOLEAN
  /\ sent \subseteq Byte /\ due \in Nat /\ races \subseteq Races

(* What the assumptions on the constants give.                             *)
LEMMA Constants ==
  /\ MaxPrinted \in Nat /\ MaxPrinted >= 1 /\ Byte = 1..MaxPrinted
  /\ ReadMax \in Nat /\ ReadMax >= 1 /\ ReplayBudget \in Nat /\ ReplayBudget >= 1
  /\ QueueCap \in Nat /\ QueueCap >= 1 /\ WireCap \in Nat /\ Cap \in Nat /\ Cap >= 1
  /\ Sizes \subseteq Nat \ {0} /\ Loads \subseteq {"ok", "stripped", "failed"}
BY StreamAssumption, CapAssumption

(* The type invariant the run checks follows.                              *)
LEMMA ShapeIsType == ShapeInv => StreamTypeOK
<1> SUFFICES ASSUME ShapeInv PROVE StreamTypeOK
  OBVIOUS
<1> USE DEF ShapeInv
<1>1. RingTypeOK /\ printed \in 0..MaxPrinted /\ chunk \in Seq(Byte) /\ running \in BOOLEAN /\ draining \in BOOLEAN
  BY DEF RingOK, ChunkOK
<1>2. sub \in [reg : BOOLEAN, queue : Seq(Seq(Byte))] /\ Len(sub.queue) <= QueueCap
  BY DEF SubOK
<1>3. /\ h.pc \in InHandshake \cup {"off", "live", "log", "ticks"} /\ h.first \in BOOLEAN /\ h.started \in BOOLEAN
      /\ {h.cursor, h.streamed, h.end} \subseteq Nat /\ h.since \in Nat \cup {Unknown, FollowLiveEnd}
  BY DEF HandlerStates
<1>4. /\ {cursor, logCursor} \subseteq Nat \cup {Unknown, FollowLiveEnd}
      /\ up \in BOOLEAN /\ via \in {"ws", "sse"} /\ latched \in BOOLEAN /\ painted \subseteq Byte
  BY DEF PageOK
<1>5. base \in Nat /\ sent \subseteq Byte /\ due \in Nat /\ races \subseteq Races
  BY DEF BaseOK
<1> QED BY <1>1, <1>2, <1>3, <1>4, <1>5 DEF StreamTypeOK

LEMMA InitShape == StreamInit => ShapeInv
<1> SUFFICES ASSUME StreamInit PROVE ShapeInv
  OBVIOUS
<1> USE DEF StreamInit
<1>1. RingTypeOK /\ HoldsTail /\ head = 0 /\ used = 0 /\ log = <<>> /\ closed = FALSE
  BY InitRing DEF RingInit
<1>2. Run(0, 0) = <<>> /\ Len(<<>>) = 0 /\ <<>> \in Seq(Byte)
  BY RunEmpty
<1>3. RingOK
  BY <1>1, <1>2, Constants DEF RingOK
<1>4. ChunkOK
  BY <1>2 DEF ChunkOK, Announced
<1>5. SubOK
  <2>1. sub.queue = <<>> /\ sub \in [reg : BOOLEAN, queue : Seq(Seq(Byte))]
    BY DEF NoSub
  <2> QED BY <2>1, Constants DEF SubOK
<1>6. FramesOK /\ PageOK
  <2>1. <<>> \in Seq(Frames)
    OBVIOUS
  <2>2. PageOK
    BY DEF PageOK
  <2> QED BY <2>1, <2>2 DEF FramesOK
<1>7. BaseOK
  BY <1>1, Constants DEF BaseOK, Lesser
<1>8. h \in HandlerStates
  BY DEF Off, HandlerStates, Unknown
<1> QED BY <1>3, <1>4, <1>5, <1>6, <1>7, <1>8 DEF ShapeInv, Races

----------------------------------------------------------------------------
(* What the buffer gives.                                                  *)
LEMMA RingFacts ==
  ASSUME RingOK
  PROVE  /\ head \in Nat /\ used \in Nat /\ Oldest \in Nat /\ Oldest <= head /\ head <= MaxPrinted
         /\ printed \in Nat /\ printed <= MaxPrinted /\ head <= printed
         /\ closed => Oldest = head
         /\ used <= head /\ (used = 0 => Oldest = head)
         /\ \A o \in Nat : o >= Oldest /\ o < head => log[o + 1] = o + 1
<1>1. head \in Nat /\ used \in 0..Cap /\ used = (IF closed THEN 0 ELSE Lesser(head, Cap)) /\ closed \in BOOLEAN
  BY DEF RingOK, RingTypeOK, HoldsTail
<1>2. printed \in 0..MaxPrinted /\ head <= printed /\ log = Run(0, head)
  BY DEF RingOK
<1>3. used <= head
  BY <1>1, Constants DEF Lesser
<1>4. \A o \in Nat : o >= Oldest /\ o < head => log[o + 1] = o + 1
  <2> TAKE o \in Nat
  <2> HAVE o >= Oldest /\ o < head
  <2>1. o + 1 \in 1..(head - 0)
    BY <1>1
  <2> QED BY <1>2, <2>1 DEF Run
<1>5. closed => used = 0
  BY <1>1
<1> QED BY <1>1, <1>2, <1>3, <1>4, <1>5, Constants DEF Oldest

(* A piece of the log is a run.                                            *)
LEMMA LogRun ==
  ASSUME RingOK, NEW a \in Nat, NEW n \in Nat, a + n <= head
  PROVE  [k \in 1..n |-> log[a + k]] = Run(a, a + n)
<1>1. log = Run(0, head) /\ head \in Nat
  BY RingFacts DEF RingOK
<1>2. ASSUME NEW k \in 1..n PROVE log[a + k] = a + k
  <2>1. a + k \in 1..(head - 0)
    BY <1>1
  <2> QED BY <1>1, <2>1 DEF Run
<1>3. 1..((a + n) - a) = 1..n
  OBVIOUS
<1> QED BY <1>2, <1>3 DEF Run

(* What ReadSince returns: nothing, or a run that ends where its cursor    *)
(* says.                                                                   *)
LEMMA ReadGives ==
  ASSUME RingOK, NEW since \in Nat
  PROVE  LET r == Read(since)
             a == Greater(since, Oldest)
         IN  /\ r.next \in Nat /\ since <= r.next
             /\ \/ r.body = <<>> /\ (r.next = since \/ (r.next = head /\ r.next <= Oldest))
                \/ /\ r.body # <<>> /\ r.body = Run(a, r.next)
                   /\ a \in Nat /\ a < r.next /\ r.next <= head /\ since < r.next
<1> DEFINE r == Read(since)
           a == Greater(since, Oldest)
<1>0. head \in Nat /\ Oldest \in Nat /\ Oldest <= head /\ (closed => Oldest = head)
  BY RingFacts
<1>1. CASE ~running \/ since >= head
  <2>1. r = [body |-> <<>>, next |-> since]
    BY <1>1 DEF Read, ReadSince
  <2> QED BY <2>1
<1>2. CASE running /\ since < head /\ closed
  <2> DEFINE start == IF since < Oldest THEN Oldest ELSE since
  <2>1. start = head /\ Lesser(head - start, ReadMax) = 0
    BY <1>0, <1>2, Constants DEF Lesser
  <2>2. r = [body |-> CopyRange(head, 0), next |-> head + 0]
    BY <1>0, <1>2, <2>1, Constants DEF Read, ReadSince
  <2>3. CopyRange(head, 0) = <<>>
    BY <1>2 DEF CopyRange
  <2> QED BY <1>0, <1>2, <2>2, <2>3
<1>3. CASE running /\ since < head /\ ~closed
  <2> DEFINE start == IF since < Oldest THEN Oldest ELSE since
             x == ReadSince(since, ReadMax)
  <2>1. r = x
    BY <1>3 DEF Read
  <2>2. start = a /\ a \in Nat
    BY <1>0 DEF Greater
  <2>3. start < x.next /\ x.next <= head /\ x.body = [k \in 1..(x.next - start) |-> log[start + k]]
    <3>1. ReadMax \in Nat \ {0} /\ RingTypeOK /\ HoldsTail
      BY Constants DEF RingOK
    <3> QED BY <1>3, <3>1, ReadIsLog
  <2>4. x.next \in Int
    <3>1. x.next = start + Lesser(head - start, ReadMax)
      BY <1>0, <1>3, Constants DEF ReadSince
    <3> QED BY <1>0, <2>2, <3>1, Constants DEF Lesser
  <2> HIDE DEF x, start, a
  <2>5. x.next - start \in Nat /\ start + (x.next - start) = x.next /\ x.next \in Nat
    <3>1. start \in Nat
      BY <2>2
    <3>2. start < x.next
      BY <2>3
    <3>3. ASSUME NEW lo \in Nat, NEW hi \in Int, lo < hi
          PROVE  hi - lo \in Nat /\ lo + (hi - lo) = hi /\ hi \in Nat
      BY <3>3
    <3> QED BY <2>4, <3>1, <3>2, <3>3
  <2>6. x.body = Run(start, x.next)
    <3> DEFINE n == x.next - start
    <3>1. start \in Nat /\ n \in Nat /\ start + n = x.next /\ start + n <= head
      BY <2>2, <2>3, <2>5
    <3>2. x.body = [k \in 1..n |-> log[start + k]]
      BY <2>3
    <3> HIDE DEF n
    <3>3. [k \in 1..n |-> log[start + k]] = Run(start, start + n)
      BY <3>1, LogRun
    <3> QED BY <3>1, <3>2, <3>3, Zenon
  <2>7. x.body # <<>>
    <3>1. start \in Nat /\ x.next \in Nat /\ start < x.next
      BY <2>2, <2>3, <2>5, Zenon
    <3>2. Run(start, x.next) # <<>>
      BY <3>1, RunFacts, Zenon
    <3> QED BY <2>6, <3>2, Zenon
  <2>8. since <= a
    BY <1>0 DEF a, Greater
  <2>9. start = a /\ a \in Nat /\ since < x.next /\ since <= x.next
    BY <2>2, <2>3, <2>5, <2>8
  <2>10. /\ x.next \in Nat /\ since <= x.next
         /\ x.body # <<>> /\ x.body = Run(a, x.next)
         /\ a \in Nat /\ a < x.next /\ x.next <= head /\ since < x.next
    BY <2>2, <2>3, <2>5, <2>6, <2>7, <2>9
  <2> QED BY <2>1, <2>10, Zenon DEF a, r
<1> QED BY <1>1, <1>2, <1>3 DEF RingOK, RingTypeOK

(* What ReadNewest returns: nothing, or the run that ends at the head.     *)
LEMMA NewestGives ==
  ASSUME RingOK, running \in BOOLEAN, NEW n \in Nat
  PROVE  LET r == Newest(n)
             m == Lesser(n, used)
         IN  /\ r.off \in Nat /\ r.off <= head
             /\ \/ r.body = <<>> /\ (n >= 1 => r.off <= Oldest)
                \/ /\ r.body # <<>> /\ r.body = Run(head - m, head) /\ n >= 1
                   /\ head - m \in Nat /\ head - m < head /\ r.off = head /\ ~closed
                   /\ head - m >= Oldest
<1> DEFINE r == Newest(n)
           m == Lesser(n, used)
<1>0. /\ head \in Nat /\ used \in Nat /\ Oldest \in Nat /\ Oldest <= head /\ used <= head
      /\ Oldest = head - used /\ (closed => Oldest = head) /\ closed \in BOOLEAN
  BY RingFacts DEF Oldest, RingOK, RingTypeOK
<1>1. CASE ~running
  <2>1. r = [body |-> <<>>, off |-> 0]
    BY <1>1 DEF Newest
  <2> QED BY <1>0, <2>1
<1>2. CASE running /\ (n = 0 \/ used = 0)
  <2>1. r = [body |-> <<>>, off |-> head]
    BY <1>2 DEF Newest, TailRead
  <2> QED BY <1>0, <1>2, <2>1
<1>3. CASE running /\ n # 0 /\ used # 0
  <2>1. r = [body |-> CopyRange(head - m, m), off |-> head] /\ ~closed
    BY <1>0, <1>3 DEF Newest, TailRead
  <2>2. m \in Nat \ {0} /\ m <= used /\ head - m \in Nat /\ (head - m) + m = head /\ head - m >= Oldest
    BY <1>0, <1>3 DEF Lesser
  <2> HIDE DEF m
  <2> DEFINE st == head - m
  <2>3. CopyRange(st, m) = [k \in 1..m |-> log[st + k]]
    <3>1. RingTypeOK /\ HoldsTail /\ ~closed /\ st \in Nat /\ st >= Oldest /\ st + m <= head
      BY <1>0, <2>1, <2>2 DEF RingOK
    <3> HIDE DEF st
    <3> QED BY <2>2, <3>1, CopyIsLog
  <2>4. st \in Nat /\ st + m = head
    BY <2>2
  <2> HIDE DEF st
  <2>5. [k \in 1..m |-> log[st + k]] = Run(st, st + m)
    <3>1. st + m <= head
      BY <1>0, <2>4
    <3> QED BY <2>2, <2>4, <3>1, LogRun
  <2>6. CopyRange(st, m) = Run(st, head) /\ Run(st, head) # <<>>
    <3>1. st < head
      BY <1>0, <2>2, <2>4
    <3> QED BY <1>0, <2>3, <2>4, <2>5, <3>1, RunFacts
  <2>7. st = head - m
    BY DEF st
  <2>8. r.off = head /\ r.body = Run(head - m, head) /\ r.body # <<>>
    BY <2>1, <2>6, <2>7
  <2>9. n >= 1 /\ head - m < head
    BY <1>0, <1>3, <2>2
  <2> QED BY <1>0, <2>1, <2>2, <2>8, <2>9 DEF m
<1> QED BY <1>1, <1>2, <1>3, <1>0

-----------------------------------------------------------------------------
(* ShapeInv: the steps of the handler.                                     *)

(* Where a page painted from the newest tail would start.                  *)
LEMMA StartGives ==
  ASSUME ShapeInv
  PROVE  LET r == Newest(ReadMax)
             m == Lesser(ReadMax, used)
         IN  /\ StartOf(r) \in Nat /\ base <= StartOf(r)
             /\ ~closed => StartOf(r) <= head - m
             /\ r.body # <<>> => StartOf(r) = head - m
             /\ r.body = <<>> => StartOf(r) = base
<1> DEFINE r == Newest(ReadMax)
           m == Lesser(ReadMax, used)
<1>1. base \in Nat /\ (~closed => base <= head - m) /\ RingOK /\ running \in BOOLEAN /\ ReadMax \in Nat /\ ReadMax >= 1
  BY Constants DEF ShapeInv, BaseOK
<1>2. \/ r.body = <<>>
      \/ /\ r.body # <<>> /\ r.body = Run(head - m, head)
         /\ head - m \in Nat /\ head - m < head /\ r.off = head /\ ~closed
  BY <1>1, NewestGives
<1>3. head \in Nat
  BY <1>1, RingFacts
<1> HIDE DEF r, m
<1>4. CASE r.body = <<>>
  <2>1. StartOf(r) = base
    BY <1>4 DEF StartOf
  <2> QED BY <1>1, <1>4, <2>1 DEF r, m
<1>5. CASE r.body # <<>>
  <2> DEFINE st == head - m
  <2>1. r.body = Run(st, head) /\ st \in Nat /\ st < head
    BY <1>2, <1>5
  <2> HIDE DEF st
  <2>2. Len(r.body) = head - st
    BY <1>3, <2>1, RunFacts
  <2>3. StartOf(r) = head - (head - st)
    BY <1>2, <1>5, <2>2 DEF StartOf
  <2>4. StartOf(r) = st
    BY <1>3, <2>1, <2>3
  <2>5. StartOf(r) = head - m /\ StartOf(r) \in Nat
    BY <2>1, <2>4 DEF st
  <2> QED BY <1>1, <1>2, <1>5, <2>5 DEF r, m
<1> QED BY <1>4, <1>5

(* The frames a read gives.                                                *)
LEMMA ReadFrame ==
  ASSUME RingOK, NEW since \in Nat, Read(since).body # <<>>
  PROVE  LET r == Read(since)
             a == Greater(since, Oldest)
         IN  /\ IsRun(r.body) /\ Last(r.body) = r.next /\ r.body[1] = a + 1
             /\ Shown(r.body) = (a + 1)..r.next
             /\ ChunkStart(r) = a /\ Len(r.body) = r.next - a
             /\ a \in Nat /\ r.next \in Nat /\ a < r.next /\ r.next <= head /\ since < r.next
<1> DEFINE r == Read(since)
           a == Greater(since, Oldest)
<1>1. r.body = Run(a, r.next) /\ a \in Nat /\ r.next \in Nat /\ a < r.next /\ r.next <= head /\ since < r.next
  BY ReadGives
<1>2. head \in Nat /\ head <= MaxPrinted
  BY RingFacts
<1> HIDE DEF r, a
<1>3. IsRun(Run(a, r.next))
  <2>1. r.next <= MaxPrinted
    BY <1>1, <1>2, Constants
  <2> QED BY <1>1, <2>1, RunIsRun
<1>4. /\ Len(r.body) = r.next - a /\ r.body[1] = a + 1 /\ Last(r.body) = r.next
      /\ Shown(r.body) = (a + 1)..r.next
  BY <1>1, RunFacts
<1>5. ChunkStart(r) = a
  BY <1>1, <1>4 DEF ChunkStart
<1> QED BY <1>1, <1>3, <1>4, <1>5 DEF r, a

(* The newest tail as a frame.                                             *)
LEMMA NewestFrame ==
  ASSUME RingOK, running \in BOOLEAN, NEW n \in Nat, Newest(n).body # <<>>
  PROVE  LET r == Newest(n)
             a == head - Lesser(n, used)
         IN  /\ IsRun(r.body) /\ Last(r.body) = r.off /\ r.body[1] = a + 1
             /\ Shown(r.body) = (a + 1)..r.off
             /\ Len(r.body) = r.off - a /\ r.off = head
             /\ a \in Nat /\ r.off \in Nat /\ a < r.off /\ a >= Oldest /\ ~closed
<1> DEFINE r == Newest(n)
           a == head - Lesser(n, used)
<1>1. r.body = Run(a, r.off) /\ a \in Nat /\ r.off \in Nat /\ a < r.off /\ r.off = head /\ a >= Oldest /\ ~closed
  BY NewestGives
<1>2. head \in Nat /\ head <= MaxPrinted
  BY RingFacts
<1> HIDE DEF r, a
<1>3. IsRun(Run(a, r.off))
  BY <1>1, <1>2, RunIsRun
<1>4. /\ Len(r.body) = r.off - a /\ r.body[1] = a + 1 /\ Last(r.body) = r.off
      /\ Shown(r.body) = (a + 1)..r.off
  <2>1. r.body = Run(a, r.off) /\ a \in Nat /\ r.off \in Nat /\ a < r.off
    BY <1>1
  <2> DEFINE e == r.off
             c == r.body
  <2>2. c = Run(a, e) /\ a \in Nat /\ e \in Nat /\ a < e
    BY <2>1
  <2> HIDE DEF c, e
  <2>3. Len(c) = e - a /\ c[1] = a + 1 /\ Last(c) = e /\ Shown(c) = (a + 1)..e
    BY <2>2, RunFacts
  <2> QED BY <2>3 DEF c, e
<1> QED BY <1>1, <1>3, <1>4 DEF r, a

----------------------------------------------------------------------------
LEMMA SameRing ==
  ASSUME RingOK, UNCHANGED <<ringVars, printed>>
  PROVE  RingOK'
<1>1. data' = data /\ head' = head /\ used' = used /\ closed' = closed /\ log' = log /\ printed' = printed
  BY DEF ringVars
<1>2. RingTypeOK'
  BY <1>1 DEF RingOK, RingTypeOK
<1>3. HoldsTail'
  BY <1>1 DEF RingOK, HoldsTail, Oldest
<1> QED BY <1>1, <1>2, <1>3 DEF RingOK

(* A step of the handler alone keeps the shape of what it leaves.          *)
LEMMA HandlerShape ==
  ASSUME ShapeInv, HandlerOnly, h' \in HandlerStates, out' \in Seq(Frames),
         sent' \subseteq Byte, due' \in Nat, races' \subseteq Races,
         base' = base \/ base' = StartOf(Newest(ReadMax))
  PROVE  ShapeInv'
<1>1. UNCHANGED <<ringVars, printed, chunk, draining, running, sub, wire, pageVars>>
  BY DEF HandlerOnly, pumpVars
<1>2. RingOK'
  BY <1>1, SameRing DEF ShapeInv
<1>3. ChunkOK' /\ SubOK'
  BY <1>1 DEF ShapeInv, ChunkOK, SubOK, Announced
<1>4. FramesOK' /\ PageOK'
  BY <1>1 DEF ShapeInv, FramesOK, PageOK, pageVars
<1>5. BaseOK'
  <2>1. head' = head /\ used' = used /\ closed' = closed
    BY <1>1 DEF ringVars
  <2> QED BY <2>1, StartGives DEF ShapeInv, BaseOK
<1> QED BY <1>1, <1>2, <1>3, <1>4, <1>5 DEF ShapeInv

(* The handshake keeps the shapes.                                         *)
LEMMA HandshakeShape ==
  ASSUME ShapeInv, Handshake, ~Subscribe
  PROVE  ShapeInv'
<1>1. /\ h \in HandlerStates /\ out \in Seq(Frames) /\ sent \subseteq Byte /\ due \in Nat
      /\ races \subseteq Races /\ RingOK /\ running \in BOOLEAN /\ ReadMax \in Nat /\ ReadMax >= 1
  BY Constants DEF ShapeInv, FramesOK
<1>2. head \in Nat
  BY <1>1, RingFacts
<1>3. HandlerOnly
  BY DEF Handshake, HandshakeFollow, HandshakeTail, HandshakeReplay, ReplayBudgetSpent,
         ReplayChunk, ReplayEmpty, ReplayConsult, SendSync
<1>4. \A end \in Nat : ReplayStops(end) => h' \in HandlerStates
  BY <1>1 DEF ReplayStops, HandlerStates, InHandshake
<1>5. \A n \in Nat : Newest(n).off \in Nat
  BY <1>1, NewestGives
<1>6. CASE HandshakeFollow
  <2>1. Newest(0).off \in Nat
    BY <1>5
  <2>2. h' \in HandlerStates
    BY <1>1, <1>6, <2>1 DEF HandshakeFollow, HandlerStates, InHandshake
  <2>3. races' \subseteq Races
    BY <1>1, <1>6 DEF HandshakeFollow, Saw, Races
  <2> QED BY <1>1, <1>3, <1>6, <2>2, <2>3, HandlerShape DEF HandshakeFollow
<1>7. CASE HandshakeTail
  <2> DEFINE r == Newest(ReadMax)
  <2>1. r.off \in Nat
    BY <1>1, <1>5
  <2>2. r.body # <<>> => IsRun(r.body)
    BY <1>1, NewestFrame
  <2>3. /\ out' = BytesOf(r.body) /\ h' = [h EXCEPT !.pc = "sync", !.end = r.off]
        /\ sent' = Shown(r.body) /\ base' = StartOf(r) /\ UNCHANGED <<due, races>>
    BY <1>7 DEF HandshakeTail
  <2> HIDE DEF r
  <2>4. h' \in HandlerStates
    BY <1>1, <2>1, <2>3 DEF HandlerStates, InHandshake
  <2>5. CASE r.body = <<>>
    <3>1. out' = <<>> /\ sent' = {}
      BY <2>3, <2>5 DEF BytesOf, Shown
    <3>2. out' \in Seq(Frames)
      BY <3>1
    <3> QED BY <1>1, <1>3, <2>3, <2>4, <3>1, <3>2, HandlerShape DEF r
  <2>6. CASE r.body # <<>>
    <3>1. out' = <<Bytes(r.body)>> /\ Bytes(r.body) \in Frames
      BY <2>2, <2>3, <2>6, MakeFrames DEF BytesOf
    <3>2. out' \in Seq(Frames)
      BY <3>1
    <3>3. sent' \subseteq Byte
      <4>1. r.body \in Seq(Byte)
        BY <2>2, <2>6, IsRunFacts
      <4> QED BY <2>3, <4>1 DEF Shown
    <3> QED BY <1>1, <1>3, <2>3, <2>4, <3>2, <3>3, HandlerShape DEF r
  <2> QED BY <2>5, <2>6
<1>8. CASE HandshakeReplay
  <2>1. h.since \in Nat
    BY <1>1, <1>8 DEF HandshakeReplay, HandlerStates, Unknown, FollowLiveEnd
  <2>2. h' \in HandlerStates
    BY <1>1, <1>8, <2>1 DEF HandshakeReplay, HandlerStates, InHandshake
  <2> QED BY <1>1, <1>3, <1>8, <2>2, HandlerShape DEF HandshakeReplay
<1>9. CASE ReplayBudgetSpent
  <2>1. h.end \in Nat
    BY <1>1 DEF HandlerStates
  <2>2. h' \in HandlerStates /\ due' \in Nat
    BY <1>2, <1>4, <1>9, <2>1 DEF ReplayBudgetSpent
  <2> QED BY <1>1, <1>3, <1>9, <2>2, HandlerShape DEF ReplayBudgetSpent
<1>10. CASE ReplayChunk
  <2> DEFINE r == Read(h.cursor)
             to == IF r.next <= h.cursor THEN "sync" ELSE "replay"
  <2>1. h.cursor \in Nat /\ h.streamed \in Nat
    BY <1>1 DEF HandlerStates
  <2>2. /\ r.body # <<>>
        /\ out' = (IF h.started THEN <<>> ELSE <<Sync(StartSync(r))>>) \o <<Bytes(r.body)>>
        /\ sent' = sent \cup Shown(r.body)
        /\ h' = [h EXCEPT !.pc = to, !.started = TRUE, !.end = r.next, !.first = FALSE,
                          !.streamed = @ + Len(r.body), !.cursor = r.next]
        /\ UNCHANGED <<due, base>>
    BY <1>10 DEF ReplayChunk
  <2>3. races' \subseteq Races
    BY <1>1, <1>10 DEF ReplayChunk, Saw, Races
  <2>4. IsRun(r.body) /\ r.next \in Nat /\ ChunkStart(r) \in Nat
    BY <1>1, <2>1, <2>2, ReadFrame
  <2>5. to \in {"sync", "replay"}
    OBVIOUS
  <2> HIDE DEF r, to
  <2>6. r.body \in Seq(Byte) /\ Len(r.body) \in Nat
    BY <2>4, IsRunFacts
  <2>7. h' \in HandlerStates
    <3> DEFINE streamed == h.streamed + Len(r.body)
               next == r.next
    <3>1. h' = [h EXCEPT !.pc = to, !.started = TRUE, !.end = next, !.first = FALSE,
                         !.streamed = streamed, !.cursor = next]
      BY <2>2
    <3>2. streamed \in Nat /\ next \in Nat /\ h \in HandlerStates
      BY <1>1, <2>1, <2>4, <2>6
    <3> HIDE DEF streamed, next
    <3> QED BY <2>5, <3>1, <3>2 DEF HandlerStates, InHandshake
  <2>8. sent' \subseteq Byte
    BY <1>1, <2>2, <2>6 DEF Shown
  <2>9. out' \in Seq(Frames)
    <3>1. Bytes(r.body) \in Frames /\ Sync(StartSync(r)) \in Frames
      BY <2>4, MakeFrames DEF StartSync
    <3>2. (IF h.started THEN <<>> ELSE <<Sync(StartSync(r))>>) \in Seq(Frames) /\ <<Bytes(r.body)>> \in Seq(Frames)
      BY <3>1
    <3> QED BY <2>2, <3>2, ConcatProperties
  <2> QED BY <1>1, <1>3, <2>2, <2>3, <2>7, <2>8, <2>9, HandlerShape
<1>11. CASE ReplayEmpty
  <2>1. h.cursor \in Nat
    BY <1>1 DEF HandlerStates
  <2>2. Read(h.cursor).next \in Nat
    BY <1>1, <2>1, ReadGives
  <2>3. h' = [h EXCEPT !.pc = "consult"] \/ ReplayStops(Read(h.cursor).next)
    BY <1>11 DEF ReplayEmpty
  <2>4. h' \in HandlerStates
    BY <1>1, <1>4, <2>2, <2>3 DEF HandlerStates, InHandshake
  <2> QED BY <1>1, <1>3, <1>11, <2>4, HandlerShape DEF ReplayEmpty
<1>12. CASE ReplayConsult
  <2> DEFINE r == Newest(ReadMax)
  <2>1. r.off \in Nat
    BY <1>1, <1>5
  <2>2. r.body # <<>> => IsRun(r.body) /\ r.off - Len(r.body) \in Nat
    <3> SUFFICES ASSUME r.body # <<>> PROVE IsRun(r.body) /\ r.off - Len(r.body) \in Nat
      OBVIOUS
    <3> DEFINE a == head - Lesser(ReadMax, used)
    <3>1. IsRun(r.body) /\ Len(r.body) = r.off - a /\ a \in Nat /\ r.off \in Nat
      BY <1>1, NewestFrame
    <3> HIDE DEF a, r
    <3> QED BY <3>1
  <2>3. ReplayStops(r.off) \/ ReadAgain(r.off)
    BY <1>12 DEF ReplayConsult
  <2>4. UNCHANGED <<due, races>>
    BY <1>12 DEF ReplayConsult
  <2>5. \/ UNCHANGED <<out, sent, base>>
        \/ /\ out' = IF r.body = <<>> THEN <<>> ELSE <<Sync(r.off - Len(r.body)), Bytes(r.body)>>
           /\ sent' = Shown(r.body) /\ base' = StartOf(r)
    BY <1>12 DEF ReplayConsult
  <2> HIDE DEF r
  <2>6. h' \in HandlerStates
    BY <1>1, <1>4, <2>1, <2>3 DEF ReadAgain, HandlerStates, InHandshake
  <2>7. CASE UNCHANGED <<out, sent, base>>
    BY <1>1, <1>3, <2>4, <2>6, <2>7, HandlerShape
  <2>8. CASE /\ out' = IF r.body = <<>> THEN <<>> ELSE <<Sync(r.off - Len(r.body)), Bytes(r.body)>>
             /\ sent' = Shown(r.body) /\ base' = StartOf(r)
    <3>1. CASE r.body = <<>>
      <4>1. out' = <<>> /\ sent' = {}
        BY <2>8, <3>1 DEF Shown
      <4>2. out' \in Seq(Frames)
        BY <4>1
      <4> QED BY <1>1, <1>3, <2>4, <2>6, <2>8, <4>1, <4>2, HandlerShape DEF r
    <3>2. CASE r.body # <<>>
      <4>1. /\ out' = <<Sync(r.off - Len(r.body)), Bytes(r.body)>>
            /\ Sync(r.off - Len(r.body)) \in Frames /\ Bytes(r.body) \in Frames
        BY <2>2, <2>8, <3>2, MakeFrames
      <4>2. out' \in Seq(Frames)
        BY <4>1
      <4>3. sent' \subseteq Byte
        <5>1. r.body \in Seq(Byte)
          BY <2>2, <3>2, IsRunFacts
        <5> QED BY <2>8, <5>1 DEF Shown
      <4> QED BY <1>1, <1>3, <2>4, <2>6, <2>8, <4>2, <4>3, HandlerShape DEF r
    <3> QED BY <3>1, <3>2
  <2> QED BY <2>5, <2>7, <2>8
<1>13. CASE SendSync
  <2>1. h.end \in Nat
    BY <1>1 DEF HandlerStates
  <2>2. out' = <<Sync(h.end)>> /\ Sync(h.end) \in Frames
    BY <1>13, <2>1, MakeFrames DEF SendSync
  <2>3. out' \in Seq(Frames)
    BY <2>2
  <2>4. h' \in HandlerStates
    BY <1>1, <1>13 DEF SendSync, HandlerStates, InHandshake
  <2> QED BY <1>1, <1>3, <1>13, <2>3, <2>4, HandlerShape DEF SendSync
<1> QED BY <1>6, <1>7, <1>8, <1>9, <1>10, <1>11, <1>12, <1>13 DEF Handshake

(* So does the event stream.                                               *)
LEMMA LogShape ==
  ASSUME ShapeInv, LogStream
  PROVE  ShapeInv'
<1>1. /\ h \in HandlerStates /\ sent \subseteq Byte /\ due \in Nat
      /\ races \subseteq Races /\ RingOK /\ running \in BOOLEAN /\ ReadMax \in Nat /\ ReadMax >= 1
  BY Constants DEF ShapeInv
<1>2. HandlerOnly
  BY DEF LogStream, LogFollow, LogTail, LogSince, LogTick
<1>3. UNCHANGED <<sent, due>> /\ races' \subseteq Races /\ (base' = base \/ base' = StartOf(Newest(ReadMax)))
  BY <1>1 DEF LogStream, LogFollow, LogTail, LogSince, LogTick, Saw, Races
<1>4. PICK next, body : /\ LogSends(next, body) /\ next \in Nat
                        /\ body = <<>> \/ (IsRun(body) /\ Last(body) = next)
  <2>1. CASE LogFollow
    <3>1. LogSends(Newest(0).off, <<>>)
      BY <2>1 DEF LogFollow
    <3>2. Newest(0).off \in Nat
      BY <1>1, NewestGives
    <3> QED BY <3>1, <3>2
  <2>2. CASE LogTail
    <3>1. LogSends(Newest(ReadMax).off, Newest(ReadMax).body)
      BY <2>2 DEF LogTail
    <3>2. Newest(ReadMax).off \in Nat
      BY <1>1, NewestGives
    <3>3. Newest(ReadMax).body # <<>> => IsRun(Newest(ReadMax).body) /\ Last(Newest(ReadMax).body) = Newest(ReadMax).off
      BY <1>1, NewestFrame
    <3> QED BY <3>1, <3>2, <3>3
  <2>3. CASE LogSince \/ LogTick
    <3>1. PICK s \in Nat : LogSends(Read(s).next, Read(s).body)
      <4>1. h.cursor \in Nat /\ (h.since >= 0 => h.since \in Nat)
        BY <1>1 DEF HandlerStates, Unknown, FollowLiveEnd
      <4> QED BY <2>3, <4>1 DEF LogSince, LogTick
    <3>2. Read(s).next \in Nat
      BY <1>1, ReadGives
    <3>3. Read(s).body # <<>> => IsRun(Read(s).body) /\ Last(Read(s).body) = Read(s).next
      BY <1>1, ReadFrame
    <3> QED BY <3>1, <3>2, <3>3
  <2> QED BY <2>1, <2>2, <2>3 DEF LogStream
<1>5. h' \in HandlerStates
  BY <1>4 DEF LogSends, Off, HandlerStates, Unknown
<1>6. LogEvent(next, body) \in Frames
  BY <1>4, MakeFrames
<1>7. out' \in Seq(Frames)
  <2>1. out' = <<LogEvent(next, body)>>
    BY <1>4 DEF LogSends
  <2> QED BY <1>6, <2>1
<1> QED BY <1>1, <1>2, <1>3, <1>5, <1>7, HandlerShape

-----------------------------------------------------------------------------
(* ShapeInv: the steps of the pump.                                        *)

(* Two runs, one after the other, are one.                                 *)
LEMMA RunConcat ==
  ASSUME NEW a \in Nat, NEW e \in Nat, a <= e
  PROVE  Run(0, a) \o Run(a, e) = Run(0, e)
<1> DEFINE r == Run(0, a)
           s == Run(a, e)
           t == Run(0, e)
<1>1. /\ r \in Seq(Nat) /\ s \in Seq(Nat) /\ t \in Seq(Nat)
      /\ Len(r) = a /\ Len(s) = e - a /\ Len(t) = e
      /\ \A k \in 1..a : r[k] = k
      /\ \A k \in 1..(e - a) : s[k] = a + k
      /\ \A k \in 1..e : t[k] = k
  BY DEF Run
<1> HIDE DEF r, s, t
<1>2. /\ r \o s \in Seq(Nat) /\ Len(r \o s) = a + (e - a)
      /\ \A k \in 1..(a + (e - a)) : (r \o s)[k] = IF k <= a THEN r[k] ELSE s[k - a]
  <2>1. /\ r \o s \in Seq(Nat) /\ Len(r \o s) = Len(r) + Len(s)
        /\ \A k \in 1..(Len(r) + Len(s)) : (r \o s)[k] = IF k <= Len(r) THEN r[k] ELSE s[k - Len(r)]
    <3>1. r \in Seq(Nat) /\ s \in Seq(Nat)
      BY <1>1
    <3> QED BY <3>1, ConcatProperties
  <2>2. Len(r) = a /\ Len(s) = e - a
    BY <1>1
  <2> QED BY <2>1, <2>2
<1>3. ASSUME NEW k \in 1..e PROVE (r \o s)[k] = t[k]
  <2>1. k \in 1..(a + (e - a)) /\ a + (e - a) = e
    OBVIOUS
  <2>2. CASE k <= a
    BY <1>1, <1>2, <2>1, <2>2
  <2>3. CASE ~(k <= a)
    <3>1. k - a \in 1..(e - a) /\ a + (k - a) = k
      BY <2>3
    <3>2. s[k - a] = k
      BY <1>1, <3>1
    <3>3. (r \o s)[k] = s[k - a]
      BY <1>2, <2>1, <2>3
    <3> QED BY <1>1, <3>2, <3>3
  <2> QED BY <2>2, <2>3
<1>4. Len(r \o s) = e
  BY <1>2
<1> DEFINE u == r \o s
<1>5. u \in Seq(Nat) /\ Len(u) = e /\ \A k \in 1..e : u[k] = t[k]
  BY <1>2, <1>3, <1>4
<1> HIDE DEF u
<1>6. u = t
  BY <1>1, <1>5
<1> QED BY <1>6 DEF u, r, s, t

(* What a write does to the ring.                                          *)
LEMMA PumpRing ==
  ASSUME ShapeInv, NEW n \in Sizes, PumpRead(n)
  PROVE  /\ RingOK' /\ ChunkOK' /\ printed' = printed + n /\ Oldest <= Oldest' /\ head <= head'
         /\ ~closed' => head' - Lesser(ReadMax, used') >= head - Lesser(ReadMax, used)
         /\ closed' = closed /\ Announced' = printed
<1> DEFINE p == [k \in 1..n |-> printed + k]
<1>1. n \in Nat /\ n >= 1 /\ printed \in Nat /\ RingOK
  BY Constants DEF ShapeInv, RingOK
<1>2. printed + n <= MaxPrinted /\ Write(p) /\ printed' = printed + n /\ chunk' = p /\ chunk = <<>>
  BY DEF PumpRead
<1>3. (printed + n) - printed = n
  BY <1>1
<1>4. p = Run(printed, printed + n)
  BY <1>3 DEF Run
<1>5. /\ IsRun(p) /\ p \in Seq(Byte) /\ Len(p) = n /\ p # <<>>
  <2>1. printed + n \in Nat /\ printed < printed + n
    BY <1>1
  <2> QED BY <1>1, <1>2, <1>3, <1>4, <2>1, RunIsRun, RunFacts
<1>6. RingTypeOK' /\ HoldsTail'
  BY <1>1, <1>2, <1>5, WriteKeeps DEF RingOK
<1>7. /\ head \in Nat /\ used \in Nat /\ used \in 0..Cap /\ Oldest = head - used /\ closed \in BOOLEAN
      /\ used = (IF closed THEN 0 ELSE Lesser(head, Cap)) /\ log = Run(0, head)
      /\ head <= printed /\ (~closed => head = printed)
  BY <1>1, Constants DEF RingOK, RingTypeOK, HoldsTail, Oldest
<1> HIDE DEF p
<1>8. /\ closed' = closed
      /\ closed => head' = head /\ used' = used /\ log' = log
      /\ ~closed => head' = head + n /\ log' = log \o p /\ used' = Lesser(used + n, Cap)
  BY <1>2, <1>5 DEF Write, ringVars
<1>9. log' = Run(0, head')
  <2>1. CASE closed
    BY <1>7, <1>8, <2>1
  <2>2. CASE ~closed
    <3>1. log' = Run(0, printed) \o Run(printed, printed + n) /\ head' = printed + n
      BY <1>4, <1>7, <1>8, <2>2
    <3>2. printed + n \in Nat /\ printed <= printed + n
      BY <1>1
    <3> QED BY <1>1, <3>1, <3>2, RunConcat
  <2> QED BY <2>1, <2>2
<1>10. printed' \in 0..MaxPrinted /\ head' <= printed' /\ (~closed' => head' = printed')
  <2>1. printed' \in 0..MaxPrinted /\ printed' = printed + n
    BY <1>1, <1>2, Constants
  <2>2. CASE closed
    BY <1>1, <1>7, <1>8, <2>1, <2>2
  <2>3. CASE ~closed
    BY <1>1, <1>7, <1>8, <2>1, <2>3
  <2> QED BY <2>2, <2>3
<1>11. RingOK'
  BY <1>6, <1>9, <1>10 DEF RingOK
<1>12. Announced' = printed /\ ChunkOK'
  <2>1. Announced' = printed
    BY <1>1, <1>2, <1>5 DEF Announced
  <2>2. Len(chunk') <= printed' /\ chunk' \in Seq(Byte)
    BY <1>1, <1>2, <1>5
  <2>3. chunk' = Run(Announced', printed')
    BY <1>2, <1>4, <2>1
  <2> QED BY <2>1, <2>2, <2>3 DEF ChunkOK
<1>13. Oldest' = head' - used'
  BY DEF Oldest
<1>14. Oldest <= Oldest' /\ head <= head'
  BY <1>1, <1>7, <1>8, <1>13, Constants DEF Lesser
<1>15. ~closed' => head' - Lesser(ReadMax, used') >= head - Lesser(ReadMax, used)
  BY <1>1, <1>7, <1>8, Constants DEF Lesser
<1> QED BY <1>2, <1>8, <1>11, <1>12, <1>14, <1>15

(* A buffer dropped has nothing left to read, and the cursor it closed     *)
(* at.                                                                     *)
LEMMA DropRing ==
  ASSUME RingOK, DropBuffer
  PROVE  /\ RingOK' /\ Oldest <= Oldest' /\ head' = head /\ printed' = printed /\ closed'
         /\ Oldest' = head
<1>1. CloseRing /\ printed' = printed
  BY DEF DropBuffer, pumpVars
<1>2. RingTypeOK' /\ HoldsTail'
  BY <1>1, CloseKeeps DEF RingOK
<1>3. head' = head /\ log' = log /\ used' = 0 /\ closed' = TRUE
  BY <1>1 DEF CloseRing
<1>4. RingOK'
  BY <1>1, <1>2, <1>3 DEF RingOK
<1>5. Oldest <= Oldest' /\ Oldest' = head
  <2>1. Oldest' = head - 0
    BY <1>3 DEF Oldest
  <2> QED BY <2>1, RingFacts
<1> QED BY <1>1, <1>3, <1>4, <1>5

(* Everything but the ring.                                                *)
LEMMA PumpShape ==
  ASSUME ShapeInv, Pump \/ Unrun \/ DropBuffer
  PROVE  ShapeInv'
<1> USE DEF ShapeInv
<1>0. /\ RingOK /\ head \in Nat /\ printed \in Nat /\ QueueCap \in Nat
      /\ head' \in Nat => TRUE
  BY RingFacts, Constants
<1>1. ASSUME NEW n \in Sizes, PumpRead(n) PROVE ShapeInv'
  <2>1. UNCHANGED <<draining, running, serverVars, wire, pageVars, sent, due, base, races>>
    BY <1>1 DEF PumpRead
  <2>2. RingOK' /\ ChunkOK' /\ printed <= printed'
    <3>1. n \in Nat
      BY Constants
    <3> QED BY <1>0, <1>1, <3>1, PumpRing
  <2>3. SubOK'
    <3>1. sub' = sub
      BY <2>1 DEF serverVars
    <3>2. \A k \in 1..Len(sub.queue) : IsRun(sub.queue[k]) /\ Last(sub.queue[k]) <= printed
      BY DEF SubOK
    <3>3. \A k \in 1..Len(sub.queue) : Last(sub.queue[k]) <= printed'
      <4> TAKE k \in 1..Len(sub.queue)
      <4>1. Last(sub.queue[k]) \in 1..MaxPrinted
        BY <3>2, IsRunFacts
      <4>2. printed' \in Nat
        BY <2>2 DEF RingOK
      <4> QED BY <1>0, <2>2, <3>2, <4>1, <4>2
    <3> QED BY <3>1, <3>2, <3>3 DEF SubOK
  <2>4. FramesOK' /\ PageOK'
    BY <2>1 DEF FramesOK, PageOK, serverVars, pageVars
  <2>5. BaseOK'
    <3>1. ~closed' => head' - Lesser(ReadMax, used') >= head - Lesser(ReadMax, used) /\ ~closed
      BY <1>1, PumpRing
    <3>2. base \in Nat /\ (~closed => base <= head - Lesser(ReadMax, used)) /\ base' = base
      BY <2>1 DEF BaseOK
    <3>3. used \in Int /\ used' \in Int /\ head' \in Int /\ head \in Int
      BY <1>0, <2>2, RingFacts DEF RingOK, RingTypeOK
    <3> DEFINE x == head - Lesser(ReadMax, used)
               y == head' - Lesser(ReadMax, used')
    <3>4. x \in Int /\ y \in Int
      BY <3>3, Constants DEF Lesser
    <3>5. (~closed' => y >= x /\ ~closed) /\ (~closed => base <= x) /\ base \in Nat /\ base' = base
      BY <3>1, <3>2
    <3> HIDE DEF x, y
    <3>6. base' \in Nat /\ (~closed' => base' <= y)
      BY <3>4, <3>5
    <3> QED BY <3>6 DEF BaseOK, y
  <2> QED BY <2>1, <2>2, <2>3, <2>4, <2>5 DEF serverVars
<1>2. CASE Broadcast
  <2>1. /\ chunk # <<>> /\ chunk' = <<>> /\ Offer
        /\ UNCHANGED <<ringVars, printed, running, h, out, wire, pageVars, sent, due, base, races>>
    BY <1>2 DEF Broadcast
  <2>2. RingOK'
    BY <2>1, SameRing
  <2>3. ChunkOK'
    <3>1. Announced' = printed
      BY <1>0, <2>1 DEF Announced
    <3>2. Run(printed, printed) = <<>>
      BY <1>0, RunEmpty
    <3> QED BY <1>0, <2>1, <3>1, <3>2 DEF ChunkOK
  <2>4. SubOK' /\ draining' \in BOOLEAN
    <3>1. chunk \in Seq(Byte) /\ IsRun(chunk) /\ Last(chunk) = printed
      <4>1. Announced \in Nat /\ Announced < printed
        <5>1. Len(chunk) \in Nat /\ Len(chunk) # 0 /\ Len(chunk) <= printed
          BY <2>1 DEF ChunkOK
        <5> QED BY <1>0, <5>1 DEF Announced
      <4>2. printed <= MaxPrinted
        BY RingFacts
      <4> QED BY <1>0, <4>1, <4>2, RunFacts, RunIsRun DEF ChunkOK
    <3>2. sub \in [reg : BOOLEAN, queue : Seq(Seq(Byte))] /\ Len(sub.queue) <= QueueCap
      BY DEF SubOK
    <3>3. CASE sub' = sub
      BY <2>1, <3>3 DEF SubOK, Offer
    <3>4. CASE sub' = [sub EXCEPT !.reg = FALSE]
      <4>1. sub'.queue = sub.queue /\ sub' \in [reg : BOOLEAN, queue : Seq(Seq(Byte))]
        BY <3>2, <3>4
      <4> QED BY <2>1, <4>1 DEF SubOK, Offer
    <3>5. CASE sub' = [sub EXCEPT !.queue = Append(@, chunk)] /\ Len(sub.queue) < QueueCap
      <4> DEFINE q == sub.queue
      <4>1. q \in Seq(Seq(Byte))
        BY <3>2
      <4>2. /\ Append(q, chunk) \in Seq(Seq(Byte)) /\ Len(Append(q, chunk)) = Len(q) + 1
            /\ \A k \in 1..Len(q) : Append(q, chunk)[k] = q[k]
            /\ Append(q, chunk)[Len(q) + 1] = chunk
        BY <3>1, <4>1, AppendProperties
      <4>3. sub'.queue = Append(q, chunk) /\ sub' \in [reg : BOOLEAN, queue : Seq(Seq(Byte))]
        BY <3>2, <3>5, <4>2
      <4>4. \A k \in 1..(Len(q) + 1) : k \in 1..Len(q) \/ k = Len(q) + 1
        BY <4>1
      <4>5. \A k \in 1..Len(sub'.queue) : IsRun(sub'.queue[k]) /\ Last(sub'.queue[k]) <= printed
        BY <1>0, <3>1, <4>2, <4>3, <4>4 DEF SubOK
      <4>6. Len(q) + 1 <= QueueCap
        BY <1>0, <3>5, <4>1
      <4> QED BY <2>1, <4>2, <4>3, <4>5, <4>6 DEF SubOK, Offer
    <3> QED BY <2>1, <3>2, <3>3, <3>4, <3>5, Constants DEF Offer
  <2>5. FramesOK' /\ PageOK' /\ BaseOK'
    BY <2>1 DEF FramesOK, PageOK, BaseOK, pageVars, ringVars
  <2> QED BY <2>1, <2>2, <2>3, <2>4, <2>5
<1>3. CASE Drain
  <2>1. UNCHANGED <<ringVars, printed, chunk, running, h, out, wire, pageVars, sent, due, base, races>>
    BY <1>3 DEF Drain
  <2>2. RingOK' /\ ChunkOK'
    BY <2>1, SameRing DEF ChunkOK, Announced
  <2>3. SubOK' /\ draining' \in BOOLEAN
    <3>1. sub \in [reg : BOOLEAN, queue : Seq(Seq(Byte))] /\ Len(sub.queue) <= QueueCap
      BY DEF SubOK
    <3>2. CASE sub' = sub
      BY <1>3, <2>1, <3>2 DEF SubOK, Drain
    <3>3. CASE sub.queue # <<>> /\ sub' = [sub EXCEPT !.queue = Tail(@)]
      <4> DEFINE q == sub.queue
      <4>1. q \in Seq(Seq(Byte)) /\ q # <<>>
        BY <3>1, <3>3
      <4>2. /\ Tail(q) \in Seq(Seq(Byte)) /\ Len(Tail(q)) = Len(q) - 1
            /\ \A k \in 1..Len(Tail(q)) : Tail(q)[k] = q[k + 1]
        BY <4>1, HeadTailProperties
      <4>3. sub'.queue = Tail(q) /\ sub' \in [reg : BOOLEAN, queue : Seq(Seq(Byte))]
        BY <3>1, <3>3, <4>2
      <4>4. \A k \in 1..Len(Tail(q)) : k + 1 \in 1..Len(q)
        BY <4>1, <4>2
      <4>5. \A k \in 1..Len(sub'.queue) : IsRun(sub'.queue[k]) /\ Last(sub'.queue[k]) <= printed
        BY <4>2, <4>3, <4>4 DEF SubOK
      <4>6. Len(q) - 1 <= QueueCap
        BY <1>0, <3>1, <4>1
      <4> QED BY <1>3, <2>1, <4>2, <4>3, <4>5, <4>6 DEF SubOK, Drain
    <3> QED BY <1>3, <3>2, <3>3 DEF Drain
  <2>4. FramesOK' /\ PageOK' /\ BaseOK'
    BY <2>1 DEF FramesOK, PageOK, BaseOK, pageVars, ringVars
  <2> QED BY <2>1, <2>2, <2>3, <2>4
<1>4. CASE Unrun
  <2>1. running' = FALSE /\ UNCHANGED <<ringVars, pumpVars, serverVars, wire, pageVars, sent, due, base, races>>
    BY <1>4 DEF Unrun
  <2>2. RingOK' /\ ChunkOK'
    BY <2>1, SameRing DEF ChunkOK, Announced, pumpVars
  <2>3. SubOK' /\ FramesOK' /\ PageOK' /\ BaseOK'
    BY <2>1 DEF SubOK, FramesOK, PageOK, BaseOK, pumpVars, pageVars, serverVars, ringVars
  <2> QED BY <2>1, <2>2, <2>3 DEF pumpVars, serverVars
<1>5. CASE DropBuffer
  <2>1. UNCHANGED <<pumpVars, running, serverVars, wire, pageVars, sent, due, base, races>>
    BY <1>5 DEF DropBuffer
  <2>2. RingOK' /\ closed'
    BY <1>5, DropRing
  <2>3. SubOK' /\ FramesOK' /\ PageOK' /\ BaseOK' /\ ChunkOK'
    BY <2>1, <2>2 DEF SubOK, FramesOK, PageOK, BaseOK, ChunkOK, Announced, pumpVars, pageVars, serverVars
  <2> QED BY <2>1, <2>2, <2>3 DEF pumpVars, serverVars
<1> QED BY <1>1, <1>2, <1>3, <1>4, <1>5 DEF Pump

-----------------------------------------------------------------------------
(* ShapeInv: the page's steps, and the invariant.                          *)

(* A handler that returns keeps the shapes.                                *)
LEMMA ReturnShape ==
  ASSUME ShapeInv, NEW frames \in Seq(Frames), Return(frames),
         UNCHANGED <<ringVars, printed, chunk, running>>, PageOK', BaseOK', races' \subseteq Races
  PROVE  ShapeInv'
<1>1. /\ h' = Off /\ out' = <<>> /\ sub' = NoSub /\ draining' = FALSE
      /\ sent' = {} /\ due' = 0 /\ wire' = frames
  BY DEF Return
<1>2. RingOK'
  BY SameRing DEF ShapeInv
<1>3. ChunkOK'
  BY DEF ShapeInv, ChunkOK, Announced
<1>4. SubOK'
  <2>1. sub'.queue = <<>> /\ sub' \in [reg : BOOLEAN, queue : Seq(Seq(Byte))]
    BY <1>1 DEF NoSub
  <2> QED BY <2>1, Constants DEF SubOK
<1>5. FramesOK'
  <2>1. <<>> \in Seq(Frames)
    OBVIOUS
  <2> QED BY <1>1, <2>1 DEF FramesOK
<1>6. h' \in HandlerStates
  BY <1>1 DEF Off, HandlerStates, Unknown
<1> QED BY <1>1, <1>2, <1>3, <1>4, <1>5, <1>6 DEF ShapeInv

(* So does the live loop.                                                  *)
LEMMA LiveShape ==
  ASSUME ShapeInv, WriteFrame \/ Subscribe \/ LiveSend \/ LiveClosed
  PROVE  ShapeInv'
<1>0. /\ RingOK /\ ChunkOK /\ SubOK /\ FramesOK /\ PageOK /\ BaseOK
      /\ h \in HandlerStates /\ running \in BOOLEAN /\ draining \in BOOLEAN
      /\ sent \subseteq Byte /\ due \in Nat /\ races \subseteq Races
  BY DEF ShapeInv
<1>1. CASE WriteFrame
  <2>1. /\ out # <<>> /\ wire' = Append(wire, Head(out)) /\ out' = Tail(out)
        /\ UNCHANGED <<ringVars, pumpVars, running, sub, h, pageVars, sent, due, base, races>>
    BY <1>1 DEF WriteFrame
  <2>2. Head(out) \in Frames /\ Tail(out) \in Seq(Frames)
    BY <1>0, <2>1, HeadTailProperties DEF FramesOK
  <2>3. FramesOK'
    BY <1>0, <2>1, <2>2, AppendProperties DEF FramesOK
  <2>4. RingOK'
    BY <1>0, <2>1, SameRing DEF pumpVars
  <2>5. ChunkOK' /\ SubOK' /\ PageOK' /\ BaseOK'
    BY <1>0, <2>1 DEF ChunkOK, Announced, SubOK, PageOK, BaseOK, pumpVars, pageVars, ringVars
  <2> QED BY <1>0, <2>1, <2>3, <2>4, <2>5 DEF ShapeInv, pumpVars
<1>2. ASSUME Return(Append(wire, CloseFrame)), UNCHANGED <<ringVars, printed, chunk, running, pageVars, base, races>>
      PROVE  ShapeInv'
  <2>1. Append(wire, CloseFrame) \in Seq(Frames)
    BY <1>0, MakeFrames, AppendProperties DEF FramesOK
  <2>2. PageOK' /\ BaseOK'
    BY <1>0, <1>2 DEF PageOK, BaseOK, pageVars, ringVars
  <2> QED BY <1>0, <1>2, <2>1, <2>2, ReturnShape
<1>3. CASE Subscribe
  <2>1. CASE ~running
    BY <1>2, <1>3, <2>1 DEF Subscribe
  <2>2. CASE running
    <3>1. /\ Subscribed /\ h' = [Off EXCEPT !.pc = "live"] /\ due' = Announced + 1
          /\ UNCHANGED <<draining, out, wire, sent>>
          /\ UNCHANGED <<ringVars, printed, chunk, running, pageVars, base>>
      BY <1>3, <2>2 DEF Subscribe
    <3>2. races' \subseteq Races
      <4> DEFINE race == CASE h.end > Announced    -> "ahead"
                           [] due = Announced + 1  -> "budget"
                           [] OTHER                -> "window"
      <4>1. Saw(race, h.end # Announced)
        BY <1>3, <2>2 DEF Subscribe
      <4>2. race \in {"ahead", "budget", "window"}
        OBVIOUS
      <4> HIDE DEF race
      <4> QED BY <1>0, <4>1, <4>2 DEF Saw, Races
    <3>3. h' \in HandlerStates
      BY <3>1 DEF Off, HandlerStates, Unknown
    <3>4. SubOK'
      <4>1. sub'.queue = <<>> /\ sub' \in [reg : BOOLEAN, queue : Seq(Seq(Byte))]
        <5>1. sub' = [reg |-> TRUE, queue |-> <<>>]
          BY <3>1 DEF Subscribed, NoSub
        <5> QED BY <5>1
      <4> QED BY <4>1, Constants DEF SubOK
    <3>5. due' \in Nat
      <4>1. printed \in Nat /\ Len(chunk) \in Nat /\ Len(chunk) <= printed
        BY <1>0, RingFacts DEF ChunkOK
      <4> QED BY <3>1, <4>1 DEF Announced
    <3>6. RingOK'
      BY <1>0, <3>1, SameRing
    <3>7. ChunkOK' /\ FramesOK' /\ PageOK' /\ BaseOK'
      BY <1>0, <3>1 DEF ChunkOK, Announced, FramesOK, PageOK, BaseOK, pageVars, ringVars
    <3> QED BY <1>0, <3>1, <3>2, <3>3, <3>4, <3>5, <3>6, <3>7 DEF ShapeInv
  <2> QED BY <2>1, <2>2
<1>4. CASE LiveSend
  <2> DEFINE q == sub.queue
             c == q[1]
  <2>1. /\ q # <<>> /\ out' = <<Bytes(Head(q))>> /\ due' = Last(Head(q)) + 1
        /\ sub' = [sub EXCEPT !.queue = Tail(@)]
        /\ UNCHANGED <<ringVars, pumpVars, running, h, wire, pageVars, sent, base>>
    BY <1>4 DEF LiveSend
  <2>2. races' \subseteq Races
    BY <1>0, <1>4 DEF LiveSend, Saw, Races
  <2>3. q \in Seq(Seq(Byte)) /\ sub \in [reg : BOOLEAN, queue : Seq(Seq(Byte))] /\ Len(q) <= QueueCap
    BY <1>0 DEF SubOK
  <2>4. /\ Head(q) = c /\ Tail(q) \in Seq(Seq(Byte)) /\ Len(Tail(q)) = Len(q) - 1
        /\ \A k \in 1..Len(Tail(q)) : Tail(q)[k] = q[k + 1]
        /\ Len(q) \in Nat \ {0}
    BY <2>1, <2>3, HeadTailProperties
  <2>5. \A k \in 1..Len(q) : IsRun(q[k]) /\ Last(q[k]) <= printed
    BY <1>0 DEF SubOK
  <2>6. IsRun(c)
    <3>1. 1 \in 1..Len(q)
      BY <2>4
    <3> QED BY <2>5, <3>1
  <2>7. SubOK'
    <3>1. sub'.queue = Tail(q) /\ sub' \in [reg : BOOLEAN, queue : Seq(Seq(Byte))]
      BY <2>1, <2>3, <2>4
    <3> HIDE DEF q
    <3>2. \A k \in 1..Len(Tail(q)) : k + 1 \in 1..Len(q)
      BY <2>4
    <3>3. \A k \in 1..Len(sub'.queue) : IsRun(sub'.queue[k]) /\ Last(sub'.queue[k]) <= printed
      BY <2>4, <2>5, <3>1, <3>2
    <3>4. Len(q) - 1 <= QueueCap /\ printed' = printed
      BY <2>1, <2>3, <2>4, Constants DEF pumpVars
    <3> QED BY <2>4, <3>1, <3>3, <3>4 DEF SubOK
  <2> HIDE DEF c, q
  <2>8. FramesOK'
    <3>1. out' = <<Bytes(c)>> /\ Bytes(c) \in Frames
      BY <2>1, <2>4, <2>6, MakeFrames
    <3>2. out' \in Seq(Frames)
      BY <3>1
    <3> QED BY <1>0, <2>1, <3>2 DEF FramesOK
  <2>9. due' \in Nat
    <3>1. due' = Last(c) + 1 /\ Last(c) \in 1..MaxPrinted
      BY <2>1, <2>4, <2>6, IsRunFacts
    <3> QED BY <3>1, Constants
  <2>10. RingOK'
    BY <1>0, <2>1, SameRing DEF pumpVars
  <2>11. ChunkOK' /\ PageOK' /\ BaseOK'
    BY <1>0, <2>1 DEF ChunkOK, Announced, PageOK, BaseOK, pumpVars, pageVars, ringVars
  <2> QED BY <1>0, <2>1, <2>2, <2>7, <2>8, <2>9, <2>10, <2>11 DEF ShapeInv, pumpVars
<1>5. CASE LiveClosed
  BY <1>2, <1>5 DEF LiveClosed
<1> QED BY <1>1, <1>3, <1>4, <1>5

(* So does everything the page does.                                       *)
LEMMA PageShape ==
  ASSUME ShapeInv, Page
  PROVE  ShapeInv'
<1>0. /\ RingOK /\ ChunkOK /\ SubOK /\ FramesOK /\ PageOK /\ BaseOK
      /\ h \in HandlerStates /\ running \in BOOLEAN /\ draining \in BOOLEAN
      /\ sent \subseteq Byte /\ due \in Nat /\ races \subseteq Races
  BY DEF ShapeInv
<1>1. ASSUME Connect \/ StartSSE PROVE ShapeInv'
  <2>1. /\ up' = TRUE
        /\ UNCHANGED <<ringVars, pumpVars, running, sub, out, wire, via, cursor, logCursor,
                       latched, painted, sent, due, base, races>>
    BY <1>1 DEF Connect, StartSSE
  <2>2. PICK to, s : /\ h' = [Off EXCEPT !.pc = to, !.since = s]
                     /\ to \in {"hello", "log"} /\ s \in Nat \cup {Unknown, FollowLiveEnd}
    <3>1. cursor \in Nat \cup {Unknown, FollowLiveEnd} /\ logCursor \in Nat \cup {Unknown, FollowLiveEnd}
      BY <1>0 DEF PageOK
    <3>2. CASE Connect
      <4>1. h' = [Off EXCEPT !.pc = "hello",
                      !.since = IF cursor > 0 \/ cursor = FollowLiveEnd THEN cursor ELSE Unknown]
        BY <3>2 DEF Connect
      <4> QED BY <3>1, <4>1
    <3>3. CASE StartSSE
      <4> DEFINE s == CASE SseCursor > 0 -> SseCursor
                        [] SseCursor <= 0 /\ FollowLiveEnd \in {logCursor, cursor} -> FollowLiveEnd
                        [] OTHER -> Unknown
      <4>1. h' = [Off EXCEPT !.pc = "log", !.since = s]
        BY <3>3 DEF StartSSE
      <4>2. SseCursor \in Nat \cup {Unknown, FollowLiveEnd}
        BY <3>1 DEF SseCursor, Greater
      <4>3. s \in Nat \cup {Unknown, FollowLiveEnd}
        BY <4>2
      <4> QED BY <4>1, <4>3
    <3> QED BY <1>1, <3>2, <3>3
  <2>3. h' \in HandlerStates
    BY <2>2 DEF Off, HandlerStates, InHandshake
  <2>4. RingOK'
    BY <1>0, <2>1, SameRing DEF pumpVars
  <2>5. ChunkOK' /\ SubOK' /\ FramesOK' /\ BaseOK'
    BY <1>0, <2>1 DEF ChunkOK, Announced, SubOK, FramesOK, BaseOK, pumpVars, ringVars
  <2>6. PageOK'
    BY <1>0, <2>1 DEF PageOK
  <2> QED BY <1>0, <2>1, <2>3, <2>4, <2>5, <2>6 DEF ShapeInv, pumpVars
<1>2. CASE Receive
  <2> DEFINE f == Head(wire)
  <2>1. /\ wire # <<>>
        /\ cursor' = CASE f.kind \in {"sync", "log"} -> f.off
                       [] f.kind = "bytes"          -> Advanced(f)
                       [] OTHER                     -> cursor
        /\ logCursor' = IF f.kind = "log" THEN f.off ELSE logCursor
        /\ up' = (f.kind # "close")
        /\ latched' = (up' /\ (latched \/ f.kind = "sync"))
        /\ painted' = painted \cup Shown(f.body)
        /\ wire' = Tail(wire)
        /\ UNCHANGED <<ringVars, pumpVars, running, serverVars, via, sent, due, base, races>>
    BY <1>2 DEF Receive
  <2>2. f \in Frames /\ Tail(wire) \in Seq(Frames)
    BY <1>0, <2>1, HeadTailProperties DEF FramesOK
  <2> HIDE DEF f
  <2>3. /\ f.off \in Nat /\ Len(f.body) \in Nat /\ Shown(f.body) \subseteq Byte
    BY <2>2, FrameFacts
  <2>4. FramesOK'
    BY <1>0, <2>1, <2>2 DEF FramesOK, serverVars
  <2>5. PageOK'
    <3>1. /\ latched \in BOOLEAN /\ cursor \in Nat \cup {Unknown, FollowLiveEnd}
          /\ logCursor \in Nat \cup {Unknown, FollowLiveEnd} /\ (latched => cursor >= 0)
          /\ painted \subseteq Byte /\ via \in {"ws", "sse"}
      BY <1>0 DEF PageOK
    <3>2. cursor' \in Nat \cup {Unknown, FollowLiveEnd} /\ (latched' => cursor' >= 0)
      BY <2>1, <2>3, <3>1 DEF Advanced, Unknown, FollowLiveEnd
    <3>3. latched' \in BOOLEAN /\ up' \in BOOLEAN
      BY <2>1, <3>1
    <3>4. logCursor' \in Nat \cup {Unknown, FollowLiveEnd} /\ painted' \subseteq Byte
      BY <2>1, <2>3, <3>1
    <3>5. via' \in {"ws", "sse"}
      BY <2>1, <3>1
    <3> QED BY <3>2, <3>3, <3>4, <3>5 DEF PageOK
  <2>6. RingOK'
    BY <1>0, <2>1, SameRing DEF pumpVars
  <2>7. ChunkOK' /\ SubOK' /\ BaseOK'
    BY <1>0, <2>1 DEF ChunkOK, Announced, SubOK, BaseOK, pumpVars, ringVars, serverVars
  <2> QED BY <1>0, <2>1, <2>4, <2>5, <2>6, <2>7 DEF ShapeInv, pumpVars, serverVars
<1>3. CASE Drop \/ Fallback \/ BackToSocket
  <2>1. /\ Closes /\ (via' = via \/ via' = "ws" \/ via' = "sse")
        /\ UNCHANGED <<ringVars, printed, chunk, running, cursor, logCursor, painted, base, races>>
    BY <1>3 DEF Drop, Fallback, BackToSocket
  <2>2. Return(<<>>) /\ up' = FALSE /\ latched' = FALSE
    BY <2>1 DEF Closes
  <2>3. PageOK' /\ BaseOK'
    BY <1>0, <2>1, <2>2 DEF PageOK, BaseOK, ringVars
  <2>4. <<>> \in Seq(Frames)
    OBVIOUS
  <2> QED BY <1>0, <2>1, <2>2, <2>3, <2>4, ReturnShape
<1>4. ASSUME NEW load \in Loads, Refresh(load) PROVE ShapeInv'
  <2> DEFINE r == Newest(ReadMax)
  <2>1. /\ Return(<<>>) /\ up' = FALSE /\ latched' = FALSE /\ via' = "ws"
        /\ painted' = IF load = "failed" THEN {} ELSE Shown(r.body)
        /\ cursor' = CASE load = "ok"                           -> r.off
                       [] load = "stripped" /\ r.body # <<>>    -> FollowLiveEnd
                       [] OTHER                                 -> Unknown
        /\ logCursor' = cursor' /\ base' = r.off - Len(r.body) /\ races' = {}
        /\ UNCHANGED <<ringVars, printed, chunk, running>>
    BY <1>4 DEF Refresh, Closes, LoadLog, LogBody
  <2>2. /\ r.off \in Nat /\ Shown(r.body) \subseteq Byte /\ base' \in Nat
        /\ ~closed => base' <= head - Lesser(ReadMax, used)
    <3>0. /\ r.off \in Nat /\ r.off <= head
          /\ r.body = <<>> => r.off <= Oldest
      BY <1>0, NewestGives, Constants
    <3>1. CASE r.body = <<>>
      <4>1. base' = r.off /\ Shown(r.body) = {}
        BY <2>1, <3>0, <3>1 DEF Shown
      <4>2. head \in Nat /\ used \in Nat /\ Oldest = head - used
        BY <1>0, RingFacts DEF Oldest
      <4>3. r.off <= head - Lesser(ReadMax, used)
        BY <3>0, <3>1, <4>2, Constants DEF Lesser
      <4> QED BY <3>0, <4>1, <4>3
    <3>2. CASE r.body # <<>>
      <4> DEFINE a == head - Lesser(ReadMax, used)
      <4>1. IsRun(r.body) /\ Len(r.body) = r.off - a /\ a \in Nat
        BY <1>0, <3>2, NewestFrame, Constants
      <4>2. r.body \in Seq(Byte)
        BY <4>1, IsRunFacts
      <4> HIDE DEF a, r
      <4>3. base' = a
        BY <2>1, <3>0, <4>1
      <4>4. Shown(r.body) \subseteq Byte
        BY <4>2 DEF Shown
      <4> QED BY <3>0, <4>1, <4>3, <4>4 DEF a
    <3> QED BY <3>1, <3>2
  <2> HIDE DEF r
  <2>3. BaseOK'
    BY <2>1, <2>2 DEF BaseOK, ringVars
  <2>4. PageOK'
    <3>1. cursor' \in Nat \cup {Unknown, FollowLiveEnd} /\ logCursor' = cursor'
      BY <2>1, <2>2
    <3>2. up' = FALSE /\ latched' = FALSE /\ via' = "ws" /\ painted' \subseteq Byte
      BY <2>1, <2>2
    <3> QED BY <3>1, <3>2 DEF PageOK
  <2>5. races' \subseteq Races
    BY <2>1
  <2>6. <<>> \in Seq(Frames)
    OBVIOUS
  <2> QED BY <2>1, <2>3, <2>4, <2>5, <2>6, ReturnShape
<1> QED BY <1>1, <1>2, <1>3, <1>4 DEF Page

LEMMA NextShape ==
  ASSUME ShapeInv, [StreamNext]_streamVars
  PROVE  ShapeInv'
<1>1. CASE UNCHANGED streamVars
  <2>1. RingOK'
    BY <1>1, SameRing DEF ShapeInv, streamVars, pumpVars
  <2>2. ChunkOK' /\ SubOK' /\ FramesOK' /\ PageOK' /\ BaseOK'
    BY <1>1 DEF ShapeInv, ChunkOK, Announced, SubOK, FramesOK, PageOK, BaseOK,
                streamVars, pumpVars, serverVars, pageVars, ringVars
  <2> QED BY <1>1, <2>1, <2>2 DEF ShapeInv, streamVars, pumpVars, serverVars
<1>2. CASE Handshake /\ ~Subscribe
  BY <1>2, HandshakeShape
<1> QED BY <1>1, <1>2, PumpShape, LogShape, LiveShape, PageShape
     DEF StreamNext, Handler, Handshake

(* The shapes hold in every state.                                         *)
LEMMA ShapeAlways == StreamSpec => []ShapeInv
<1>1. ShapeInv /\ [StreamNext]_streamVars => ShapeInv'
  BY NextShape
<1> QED BY <1>1, InitShape, PTL DEF StreamSpec

-----------------------------------------------------------------------------
(* ConnInv: a connection and its handler.                                  *)

(* A connection: what is left of it when it is down, and where its last    *)
(* frame is.  A subscriber has a live handler.                             *)
ConnInv ==
  /\ ~up => h.pc = "off" /\ wire = <<>> /\ out = <<>> /\ ~latched
  /\ h.pc = "off" => out = <<>>
  /\ \A k \in 1..Len(wire) : wire[k].kind = "close" => k = Len(wire) /\ h.pc = "off"
  /\ \A k \in 1..Len(out) : out[k].kind # "close"
  /\ h.pc \in {"hello", "log"} => wire = <<>> /\ out = <<>> /\ ~latched
  /\ sub.reg \/ draining => h.pc = "live"
  /\ draining => ~sub.reg
  /\ h.pc = "live" => due >= 1

LEMMA InitConn == StreamInit => ConnInv
BY DEF StreamInit, ConnInv, Off, NoSub

(* A handler that returns leaves its connection as it should be.           *)
LEMMA ReturnConn ==
  ASSUME NEW frames, Return(frames), frames = <<>> \/ up',
         \A k \in 1..Len(frames) : frames[k].kind = "close" => k = Len(frames),
         ~up' => ~latched'
  PROVE  ConnInv'
<1>1. h'.pc = "off" /\ sub'.reg = FALSE /\ draining' = FALSE /\ out' = <<>> /\ wire' = frames
  BY DEF Return, Off, NoSub
<1>2. \A k \in 1..Len(out') : out'[k].kind # "close"
  BY <1>1
<1> QED BY <1>1, <1>2 DEF ConnInv

(* It may leave a close frame behind, the last one.                        *)
LEMMA CloseConn ==
  ASSUME ShapeInv, ConnInv, Return(Append(wire, CloseFrame)), h.pc # "off", UNCHANGED pageVars
  PROVE  ConnInv'
<1> DEFINE w == Append(wire, CloseFrame)
<1>1. wire \in Seq(Frames) /\ CloseFrame \in Frames
  BY MakeFrames DEF ShapeInv, FramesOK
<1>2. /\ w \in Seq(Frames) /\ Len(w) = Len(wire) + 1 /\ \A k \in 1..Len(wire) : w[k] = wire[k]
  BY <1>1, AppendProperties
<1>3. up /\ up' = up /\ latched' = latched
  BY DEF ConnInv, pageVars
<1>4. \A k \in 1..Len(wire) : wire[k].kind # "close"
  BY DEF ConnInv
<1> HIDE DEF w
<1>5. \A k \in 1..Len(w) : w[k].kind = "close" => k = Len(w)
  <2> SUFFICES ASSUME NEW k \in 1..Len(w), k # Len(w) PROVE w[k].kind # "close"
    OBVIOUS
  <2>1. k \in 1..Len(wire)
    BY <1>1, <1>2
  <2> QED BY <1>2, <1>4, <2>1
<1>6. Return(w)
  BY DEF w
<1> QED BY <1>3, <1>5, <1>6, ReturnConn

(* The chunk the pump holds is what was printed and not yet announced.     *)
LEMMA ChunkRun ==
  ASSUME ShapeInv
  PROVE  /\ Announced \in Nat /\ printed \in Nat /\ Announced <= printed
         /\ chunk = <<>> => Announced = printed
         /\ chunk # <<>> => Announced < printed /\ chunk = Run(Announced, printed) /\ chunk \in Seq(Byte)
<1>1. chunk \in Seq(Byte) /\ Len(chunk) <= printed /\ chunk = Run(Announced, printed) /\ printed \in Nat
  BY RingFacts DEF ShapeInv, ChunkOK
<1>2. Len(chunk) \in Nat /\ (chunk = <<>> <=> Len(chunk) = 0)
  BY <1>1
<1> QED BY <1>1, <1>2 DEF Announced

(* The handshake and the event stream leave their first state for good.    *)
LEMMA HandlerPc ==
  ASSUME ShapeInv, (Handshake /\ ~Subscribe) \/ LogStream
  PROVE  /\ h.pc \notin {"live", "off"} /\ h'.pc \notin {"live", "off", "hello", "log"} /\ HandlerOnly
         /\ UNCHANGED <<draining, up>>
<1>0. h \in HandlerStates
  BY DEF ShapeInv
<1>1. HandlerOnly
  BY DEF Handshake, HandshakeFollow, HandshakeTail, HandshakeReplay, ReplayBudgetSpent,
         ReplayChunk, ReplayEmpty, ReplayConsult, SendSync, LogStream, LogFollow, LogTail, LogSince, LogTick
<1>2. h.pc \notin {"live", "off"}
  BY DEF Handshake, HandshakeFollow, HandshakeTail, HandshakeReplay, ReplayBudgetSpent,
         ReplayChunk, ReplayEmpty, ReplayConsult, SendSync, LogStream, LogFollow, LogTail, LogSince, LogTick, At
<1>3. h'.pc \notin {"live", "off", "hello", "log"}
  <2>1. CASE LogStream
    <3>1. PICK next : h' = [Off EXCEPT !.pc = "ticks", !.cursor = next]
      BY <2>1 DEF LogStream, LogFollow, LogTail, LogSince, LogTick, LogSends
    <3> QED BY <3>1 DEF Off
  <2>2. CASE HandshakeFollow \/ HandshakeTail \/ HandshakeReplay
    BY <1>0, <2>2 DEF HandshakeFollow, HandshakeTail, HandshakeReplay, HandlerStates
  <2>3. CASE ReplayBudgetSpent \/ ReplayEmpty \/ ReplayConsult \/ SendSync
    BY <1>0, <2>3 DEF ReplayBudgetSpent, ReplayEmpty, ReplayConsult, SendSync, ReplayStops, ReadAgain, HandlerStates
  <2>4. CASE ReplayChunk
    <3> DEFINE r  == Read(h.cursor)
               to == IF r.next <= h.cursor THEN "sync" ELSE "replay"
    <3>1. h' = [h EXCEPT !.pc = to, !.started = TRUE, !.end = r.next, !.first = FALSE,
                         !.streamed = @ + Len(r.body), !.cursor = r.next]
      BY <2>4 DEF ReplayChunk
    <3>2. to \in {"sync", "replay"}
      OBVIOUS
    <3> HIDE DEF r, to
    <3> QED BY <1>0, <3>1, <3>2 DEF HandlerStates
  <2> QED BY <2>1, <2>2, <2>3, <2>4 DEF Handshake
<1> QED BY <1>1, <1>2, <1>3 DEF HandlerOnly, pumpVars, pageVars


LEMMA ConcatPair ==
  ASSUME NEW f, NEW g
  PROVE  <<>> \o <<g>> = <<g>> /\ <<f>> \o <<g>> = <<f, g>>
<1>1. <<g>> \in Seq({f, g}) /\ <<f>> \in Seq({f, g}) /\ g \in {f, g}
  OBVIOUS
<1>2. <<>> \o <<g>> = <<g>>
  BY <1>1, ConcatEmptySeq
<1>3. <<f>> \o <<g>> = Append(<<f>>, g)
  BY <1>1, ConcatOne
<1>4. <<f, g>> = Append(<<f>>, g)
  OBVIOUS
<1> QED BY <1>2, <1>3, <1>4

(* What a handler puts out while it runs is no close frame.                *)
LEMMA HandlerOut ==
  ASSUME ShapeInv, ConnInv, (Handshake /\ ~Subscribe) \/ LogStream
  PROVE  \A k \in 1..Len(out') : out'[k].kind # "close"
<1>1. CASE out' = out
  BY <1>1 DEF ConnInv
<1>2. ASSUME NEW f, out' = <<f>>, f.kind # "close" PROVE \A k \in 1..Len(out') : out'[k].kind # "close"
  BY <1>2
<1>3. ASSUME NEW f, NEW g, out' = <<f, g>>, f.kind # "close", g.kind # "close"
      PROVE  \A k \in 1..Len(out') : out'[k].kind # "close"
  BY <1>3
<1>4. /\ \A off : Sync(off).kind # "close"
      /\ \A body : Bytes(body).kind # "close"
      /\ \A next, body : LogEvent(next, body).kind # "close"
  BY DEF Sync, Bytes, LogEvent, Frame
<1>5. out' = <<>> => \A k \in 1..Len(out') : out'[k].kind # "close"
  OBVIOUS
<1>6. CASE LogStream
  <2>1. PICK next, body : out' = <<LogEvent(next, body)>>
    BY <1>6 DEF LogStream, LogFollow, LogTail, LogSince, LogTick, LogSends
  <2> QED BY <1>2, <1>4, <2>1
<1>7. CASE HandshakeFollow \/ HandshakeReplay \/ ReplayBudgetSpent \/ ReplayEmpty
  BY <1>1, <1>7 DEF HandshakeFollow, HandshakeReplay, ReplayBudgetSpent, ReplayEmpty
<1>8. CASE HandshakeTail
  <2>1. out' = <<>> \/ \E body : out' = <<Bytes(body)>>
    BY <1>8 DEF HandshakeTail, BytesOf
  <2> QED BY <1>2, <1>4, <1>5, <2>1
<1>9. CASE ReplayChunk
  <2> DEFINE r == Read(h.cursor)
             f == Sync(StartSync(r))
             g == Bytes(r.body)
  <2>1. out' = (IF h.started THEN <<>> ELSE <<f>>) \o <<g>>
    BY <1>9 DEF ReplayChunk
  <2>2. f.kind # "close" /\ g.kind # "close"
    BY <1>4
  <2> HIDE DEF f, g
  <2>3. <<>> \o <<g>> = <<g>> /\ <<f>> \o <<g>> = <<f, g>>
    BY ConcatPair
  <2> QED BY <1>2, <1>3, <2>1, <2>2, <2>3
<1>10. CASE ReplayConsult
  <2>1. \/ out' = out \/ out' = <<>>
        \/ \E off, body : out' = <<Sync(off), Bytes(body)>>
    BY <1>10 DEF ReplayConsult
  <2> QED BY <1>1, <1>3, <1>4, <1>5, <2>1
<1>11. CASE SendSync
  <2>1. out' = <<Sync(h.end)>>
    BY <1>11 DEF SendSync
  <2> QED BY <1>2, <1>4, <2>1
<1> QED BY <1>6, <1>7, <1>8, <1>9, <1>10, <1>11 DEF Handshake

(* Every step keeps the connection as it should be.                        *)
LEMMA NextConn ==
  ASSUME ShapeInv, ConnInv, [StreamNext]_streamVars
  PROVE  ConnInv'
<1> USE DEF ConnInv
<1>0. /\ sub \in [reg : BOOLEAN, queue : Seq(Seq(Byte))] /\ h \in HandlerStates /\ due \in Nat
      /\ \A k \in 1..Len(sub.queue) : IsRun(sub.queue[k])
      /\ wire \in Seq(Frames) /\ out \in Seq(Frames) /\ latched \in BOOLEAN
  BY DEF ShapeInv, SubOK, FramesOK, PageOK
<1>1. CASE UNCHANGED <<h, sub, draining, up, latched, due, wire, out>>
  BY <1>1
<1>2. CASE Broadcast
  <2>1. UNCHANGED <<h, up, latched, due, wire, out>> /\ Offer
    BY <1>2 DEF Broadcast, pageVars
  <2>2. /\ sub'.reg \/ draining' => sub.reg \/ draining
        /\ draining' => ~sub'.reg
    BY <1>0, <2>1 DEF Offer
  <2> QED BY <2>1, <2>2
<1>3. CASE Drain
  <2>1. UNCHANGED <<h, up, latched, due, wire, out>>
    BY <1>3 DEF Drain, pageVars
  <2>2. sub'.reg = sub.reg /\ (draining' => draining)
    BY <1>0, <1>3 DEF Drain
  <2> QED BY <2>1, <2>2
<1>4. CASE (Handshake /\ ~Subscribe) \/ LogStream
  <2>1. /\ h.pc \notin {"live", "off"} /\ h'.pc \notin {"live", "off", "hello", "log"}
        /\ UNCHANGED <<sub, draining, up, latched, wire>>
    BY <1>4, HandlerPc DEF HandlerOnly, pumpVars, pageVars
  <2>2. \A k \in 1..Len(out') : out'[k].kind # "close"
    BY <1>4, HandlerOut
  <2> QED BY <2>1, <2>2
<1>5. CASE Subscribe
  <2>1. CASE ~running
    BY <1>5, <2>1, CloseConn DEF Subscribe, At
  <2>2. CASE running
    <3>1. Subscribed /\ h' = [Off EXCEPT !.pc = "live"] /\ due' = Announced + 1 /\ h.pc = "subscribe"
          /\ UNCHANGED <<draining, up, latched, wire, out>>
      BY <1>5, <2>2 DEF Subscribe, At, pageVars
    <3>2. h'.pc = "live" /\ Announced \in Nat
      BY <3>1, ChunkRun DEF Off
    <3> QED BY <3>1, <3>2
  <2> QED BY <2>1, <2>2
<1>6. CASE LiveSend
  <2> DEFINE q == sub.queue
  <2>1. /\ h.pc = "live" /\ q # <<>> /\ due' = Last(Head(q)) + 1 /\ out' = <<Bytes(Head(q))>>
        /\ sub' = [sub EXCEPT !.queue = Tail(@)] /\ UNCHANGED <<draining, h, up, latched, wire>>
    BY <1>6 DEF LiveSend, At, pumpVars, pageVars
  <2>2. q \in Seq(Seq(Byte)) /\ Head(q) = q[1] /\ 1 \in 1..Len(q)
    BY <1>0, <2>1
  <2>3. sub'.reg = sub.reg
    BY <1>0, <2>1
  <2>4. due' >= 1
    <3>1. IsRun(q[1])
      BY <1>0, <2>2
    <3>2. Last(q[1]) \in 1..MaxPrinted
      BY <3>1, IsRunFacts
    <3> QED BY <2>1, <2>2, <3>2, Constants
  <2>5. \A k \in 1..Len(out') : out'[k].kind # "close"
    BY <2>1 DEF Bytes, Frame
  <2> QED BY <2>1, <2>3, <2>4, <2>5
<1>7. CASE LiveClosed
  BY <1>7, CloseConn DEF LiveClosed, At
<1>8. CASE Connect \/ StartSSE
  <2>1. PICK s : \E to \in {"hello", "log"} : h' = [Off EXCEPT !.pc = to, !.since = s]
    BY <1>8 DEF Connect, StartSSE
  <2>2. up' = TRUE /\ ~up /\ UNCHANGED <<draining, sub, wire, out, latched>>
    BY <1>8 DEF Connect, StartSSE, pumpVars
  <2>3. h'.pc # "live" /\ h'.pc # "off"
    BY <2>1 DEF Off
  <2> QED BY <2>2, <2>3
<1>9. CASE Drop \/ Fallback \/ BackToSocket \/ \E load \in Loads : Refresh(load)
  <2>1. Return(<<>>) /\ up' = FALSE /\ latched' = FALSE
    BY <1>9 DEF Drop, Fallback, BackToSocket, Refresh, Closes
  <2>2. \A k \in 1..Len(<<>>) : <<>>[k].kind = "close" => k = Len(<<>>)
    OBVIOUS
  <2> QED BY <2>1, <2>2, ReturnConn
<1>10. CASE Receive
  <2>1. /\ up /\ wire # <<>> /\ wire' = Tail(wire) /\ up' = (Head(wire).kind # "close")
        /\ latched' = (up' /\ (latched \/ Head(wire).kind = "sync"))
        /\ UNCHANGED <<h, out, sub, draining, due>>
    BY <1>10 DEF Receive, serverVars, pumpVars
  <2> DEFINE t == Tail(wire)
             n == Len(wire)
  <2>2. /\ Head(wire) = wire[1] /\ Len(t) = n - 1 /\ n \in Nat \ {0}
        /\ \A k \in 1..(n - 1) : t[k] = wire[k + 1]
        /\ t \in Seq(Frames) /\ wire' = t
    BY <1>0, <2>1, HeadTailProperties
  <2>3. \A k \in 1..n : wire[k].kind = "close" => k = n /\ h.pc = "off"
    OBVIOUS
  <2> HIDE DEF t, n
  <2>4. \A k \in 1..Len(t) : t[k].kind = "close" => k = Len(t) /\ h.pc = "off"
    <3> TAKE k \in 1..Len(t)
    <3>1. k + 1 \in 1..n /\ t[k] = wire[k + 1]
      BY <2>2
    <3>2. wire[k + 1].kind = "close" => k + 1 = n /\ h.pc = "off"
      BY <2>3, <3>1
    <3> QED BY <2>2, <3>1, <3>2
  <2>5. ASSUME Head(wire).kind = "close" PROVE h.pc = "off" /\ t = <<>>
    <3>1. 1 \in 1..n /\ wire[1].kind = "close"
      BY <2>2, <2>5
    <3>2. 1 = n /\ h.pc = "off"
      BY <2>3, <3>1
    <3>3. Len(t) = 0
      BY <2>2, <3>2
    <3> QED BY <2>2, <3>2, <3>3
  <2> QED BY <1>0, <2>1, <2>2, <2>4, <2>5
<1>11. CASE WriteFrame
  <2>1. /\ out # <<>> /\ wire' = Append(wire, Head(out)) /\ out' = Tail(out)
        /\ UNCHANGED <<h, sub, draining, up, latched, due>>
    BY <1>11 DEF WriteFrame, pumpVars, pageVars
  <2>2. h.pc \notin {"off", "hello", "log"} /\ up
    BY <2>1
  <2>3. /\ Head(out) = out[1] /\ Len(Tail(out)) = Len(out) - 1 /\ Len(out) \in Nat \ {0}
        /\ \A k \in 1..(Len(out) - 1) : Tail(out)[k] = out[k + 1]
        /\ Head(out) \in Frames
    BY <1>0, <2>1, HeadTailProperties
  <2>4. \A k \in 1..Len(out') : out'[k].kind # "close"
    <3> TAKE k \in 1..Len(out')
    <3>1. k + 1 \in 1..Len(out) /\ out'[k] = out[k + 1]
      BY <2>1, <2>3
    <3> QED BY <3>1
  <2>5. /\ Len(wire') = Len(wire) + 1 /\ \A k \in 1..Len(wire) : wire'[k] = wire[k]
        /\ wire'[Len(wire) + 1] = Head(out)
    BY <1>0, <2>1, <2>3, AppendProperties
  <2>6. \A k \in 1..Len(wire') : wire'[k].kind # "close"
    <3> TAKE k \in 1..Len(wire')
    <3>1. CASE k \in 1..Len(wire)
      BY <2>2, <2>5, <3>1
    <3>2. CASE k = Len(wire) + 1
      <4>1. 1 \in 1..Len(out)
        BY <2>3
      <4> QED BY <2>3, <2>5, <3>2, <4>1
    <3> QED BY <1>0, <2>5, <3>1, <3>2
  <2> QED BY <2>1, <2>2, <2>4, <2>6
<1>12. CASE (\E n \in Sizes : PumpRead(n)) \/ Unrun \/ DropBuffer \/ UNCHANGED streamVars
  BY <1>1, <1>12 DEF PumpRead, Unrun, DropBuffer, streamVars, pumpVars, serverVars, pageVars
<1> QED
  BY <1>2, <1>3, <1>4, <1>5, <1>6, <1>7, <1>8, <1>9, <1>10, <1>11, <1>12
     DEF StreamNext, Pump, Handler, Handshake, Page

-----------------------------------------------------------------------------
(* QueueKept.                                                              *)

(* An empty channel follows on from anything.                              *)
LEMMA FollowNone == \A first \in Int : Follow(<<>>, first, first - 1)
BY DEF Follow

(* A chunk broadcast follows on from the last one.                         *)
LEMMA FollowAppend ==
  ASSUME NEW q \in Seq(Seq(Byte)), \A k \in 1..Len(q) : IsRun(q[k]),
         NEW first \in Int, NEW last \in Nat, NEW e \in Nat, last < e,
         Run(last, e) \in Seq(Byte), Follow(q, first, last)
  PROVE  Follow(Append(q, Run(last, e)), first, e)
<1> DEFINE c == Run(last, e)
           g == Append(q, c)
           n == Len(q)
<1>1. /\ g \in Seq(Seq(Byte)) /\ Len(g) = n + 1 /\ n \in Nat /\ g # <<>> /\ DOMAIN g = 1..(n + 1)
      /\ \A k \in 1..n : g[k] = q[k]
      /\ g[n + 1] = c
  BY AppendProperties
<1>2. c # <<>> /\ Last(c) = e /\ DOMAIN c = 1..(e - last)
  BY RunFacts
<1>3. \A i \in 1..(e - last) : c[i] = last + i
  BY DEF Run
<1>4. DOMAIN q = 1..n /\ last = IF q = <<>> THEN first - 1 ELSE Last(Last(q))
  BY DEF Follow
<1> HIDE DEF c, g
<1>5. ASSUME NEW k \in DOMAIN g
      PROVE  /\ g[k] # <<>>
             /\ \A i \in DOMAIN g[k] : g[k][i] = (IF k = 1 THEN first ELSE Last(g[k - 1]) + 1) + (i - 1)
  <2>1. CASE k \in 1..n
    <3>1. g[k] = q[k] /\ (k # 1 => g[k - 1] = q[k - 1]) /\ k \in DOMAIN q
      BY <1>1, <1>4, <2>1
    <3>2. /\ q[k] # <<>>
          /\ \A i \in DOMAIN q[k] : q[k][i] = (IF k = 1 THEN first ELSE Last(q[k - 1]) + 1) + (i - 1)
      BY <3>1 DEF Follow
    <3> QED BY <3>1, <3>2
  <2>2. CASE k = n + 1
    <3>1. last + 1 = IF k = 1 THEN first ELSE Last(g[k - 1]) + 1
      <4>1. CASE n = 0
        BY <1>4, <2>2, <4>1
      <4>2. CASE n # 0
        <5>1. q # <<>> /\ n \in 1..n /\ k - 1 = n /\ k # 1
          BY <1>1, <2>2, <4>2
        <5>2. g[k - 1] = Last(q)
          BY <1>1, <5>1 DEF Last
        <5> QED BY <1>4, <5>1, <5>2
      <4> QED BY <4>1, <4>2
    <3>2. \A i \in 1..(e - last) : c[i] = (last + 1) + (i - 1)
      BY <1>3
    <3> QED BY <1>1, <1>2, <2>2, <3>1, <3>2
  <2> QED BY <1>1, <2>1, <2>2
<1>6. Last(Last(g)) = e
  BY <1>1, <1>2 DEF Last
<1>7. Follow(g, first, e)
  BY <1>1, <1>5, <1>6 DEF Follow
<1> QED BY <1>7 DEF g, c

(* A chunk taken leaves the ones after it.                                 *)
LEMMA FollowTail ==
  ASSUME NEW q \in Seq(Seq(Byte)), q # <<>>, NEW first \in Int, NEW last \in Int, Follow(q, first, last)
  PROVE  Follow(Tail(q), Last(q[1]) + 1, last)
<1> DEFINE t == Tail(q)
           n == Len(q)
           first2 == Last(q[1]) + 1
<1>1. /\ t \in Seq(Seq(Byte)) /\ Len(t) = n - 1 /\ n \in Nat \ {0}
      /\ \A k \in 1..(n - 1) : t[k] = q[k + 1]
      /\ DOMAIN t = 1..(n - 1) /\ DOMAIN q = 1..n
  BY HeadTailProperties
<1>2. last = Last(Last(q))
  BY DEF Follow
<1>0. last \in Int
  OBVIOUS
<1> HIDE DEF t
<1>3. ASSUME NEW k \in DOMAIN t
      PROVE  /\ t[k] # <<>>
             /\ \A i \in DOMAIN t[k] : t[k][i] = (IF k = 1 THEN first2 ELSE Last(t[k - 1]) + 1) + (i - 1)
  <2>0. k \in 1..(n - 1)
    BY <1>1, Zenon
  <2>6. n \in Nat
    BY <1>1, Zenon
  <2>7. k \in Int /\ k + 1 \in 1..n /\ k + 1 # 1 /\ (k + 1) - 1 = k /\ (k # 1 => k - 1 \in 1..(n - 1))
    <3>1. ASSUME NEW m \in Nat, NEW j \in 1..(m - 1)
          PROVE  j \in Int /\ j + 1 \in 1..m /\ j + 1 # 1 /\ (j + 1) - 1 = j /\ (j # 1 => j - 1 \in 1..(m - 1))
      OBVIOUS
    <3> HIDE DEF n
    <3> QED BY <2>0, <2>6, <3>1, Zenon
  <2>1. k + 1 \in DOMAIN q /\ k + 1 # 1 /\ (k + 1) - 1 = k /\ t[k] = q[k + 1] /\ k \in 1..(n - 1)
    BY <1>1, <2>0, <2>7, Zenon
  <2>2. /\ q[k + 1] # <<>>
        /\ \A i \in DOMAIN q[k + 1] : q[k + 1][i] = (Last(q[k]) + 1) + (i - 1)
    BY <2>1 DEF Follow
  <2>3. q[k] = IF k = 1 THEN q[1] ELSE t[k - 1]
    <3>1. CASE k = 1
      BY <3>1, Zenon
    <3>2. CASE k # 1
      <4>1. t[k - 1] = q[(k - 1) + 1]
        BY <1>1, <2>7, <3>2, Zenon
      <4>2. (k - 1) + 1 = k
        BY <2>7
      <4> QED BY <3>2, <4>1, <4>2, Zenon
    <3> QED BY <3>1, <3>2, Zenon
  <2> QED BY <2>1, <2>2, <2>3
<1>4. last = IF t = <<>> THEN first2 - 1 ELSE Last(Last(t))
  <2>1. CASE n = 1
    <3>1. t = <<>> /\ Last(q) = q[1]
      BY <1>1, <2>1 DEF Last
    <3>2. last = Last(q[1])
      BY <1>2, <3>1
    <3> QED BY <1>0, <3>1, <3>2
  <2>2. CASE n # 1
    <3>1. t # <<>> /\ n - 1 \in 1..(n - 1) /\ (n - 1) + 1 = n
      BY <1>1, <2>2
    <3>2. Last(t) = Last(q)
      BY <1>1, <3>1 DEF Last
    <3> QED BY <1>2, <3>1, <3>2
  <2> QED BY <2>1, <2>2
<1>5. Follow(t, first2, last)
  BY <1>3, <1>4 DEF Follow
<1> QED BY <1>5 DEF t

----------------------------------------------------------------------------
(* No step leaves a gap in an open channel.                                *)
LEMMA NextQueue ==
  ASSUME ShapeInv, ConnInv, NothingSkippedWhileOpen, [StreamNext]_streamVars
  PROVE  NothingSkippedWhileOpen'
<1> USE DEF NothingSkippedWhileOpen
<1>0. /\ sub \in [reg : BOOLEAN, queue : Seq(Seq(Byte))] /\ h \in HandlerStates /\ due \in Nat
      /\ \A k \in 1..Len(sub.queue) : IsRun(sub.queue[k])
  BY DEF ShapeInv, SubOK
<1>1. CASE UNCHANGED <<h, sub, due, printed, chunk>>
  BY <1>1 DEF Announced
<1>2. ASSUME NEW n \in Sizes, PumpRead(n) PROVE NothingSkippedWhileOpen'
  <2>1. Announced' = printed /\ chunk = <<>> /\ UNCHANGED <<h, sub, due>>
    BY <1>2, PumpRing DEF PumpRead, serverVars
  <2>2. Announced' = Announced
    BY <2>1, ChunkRun
  <2> QED BY <2>1, <2>2
<1>3. CASE Broadcast
  <2>1. chunk # <<>> /\ chunk' = <<>> /\ Offer /\ UNCHANGED <<printed, h, due>>
    BY <1>3 DEF Broadcast
  <2>2. Announced' = printed
    BY <2>1, ChunkRun DEF Announced
  <2>3. CASE ~sub.reg /\ UNCHANGED sub
    BY <2>1, <2>3
  <2>4. CASE sub' = [sub EXCEPT !.reg = FALSE]
    BY <1>0, <2>4
  <2>5. CASE sub.reg /\ sub' = [sub EXCEPT !.queue = Append(@, chunk)]
    <3>1. sub'.reg = sub.reg /\ sub'.queue = Append(sub.queue, chunk)
      BY <1>0, <2>5
    <3>2. h.pc = "live" => Follow(sub.queue, due, Announced)
      BY <2>5
    <3>3. h.pc = "live" => Follow(Append(sub.queue, chunk), due, printed)
      <4>1. /\ Announced \in Nat /\ printed \in Nat /\ Announced < printed
            /\ chunk = Run(Announced, printed) /\ chunk \in Seq(Byte)
        BY <2>1, ChunkRun
      <4> QED BY <1>0, <3>2, <4>1, FollowAppend
    <3> QED BY <2>1, <2>2, <2>5, <3>1, <3>3
  <2> QED BY <2>1, <2>3, <2>4, <2>5 DEF Offer
<1>4. CASE Drain
  <2>1. sub'.reg = sub.reg /\ ~sub.reg
    BY <1>0, <1>4 DEF Drain, ConnInv
  <2> QED BY <2>1
<1>5. CASE (Handshake /\ ~Subscribe) \/ LogStream
  BY <1>5, HandlerPc
<1>6. ASSUME NEW frames, Return(frames) PROVE NothingSkippedWhileOpen'
  BY <1>6 DEF Return, Off
<1>7. CASE Subscribe
  <2>1. CASE ~running
    BY <1>6, <1>7, <2>1 DEF Subscribe
  <2>2. CASE running
    <3>1. Subscribed /\ due' = Announced + 1 /\ UNCHANGED <<printed, chunk>>
      BY <1>7, <2>2 DEF Subscribe
    <3>2. sub'.queue = <<>> /\ Announced' = Announced /\ Announced \in Nat
      BY <3>1, ChunkRun DEF Subscribed, NoSub, Announced
    <3>3. due' \in Int /\ Announced' = due' - 1
      BY <3>1, <3>2
    <3>4. Follow(sub'.queue, due', Announced')
      BY <3>2, <3>3, FollowNone
    <3> QED BY <3>4
  <2> QED BY <2>1, <2>2
<1>8. CASE LiveSend
  <2> DEFINE q == sub.queue
  <2>1. /\ h.pc = "live" /\ q # <<>> /\ due' = Last(Head(q)) + 1
        /\ sub' = [sub EXCEPT !.queue = Tail(@)] /\ UNCHANGED <<printed, chunk, h>>
    BY <1>8 DEF LiveSend, At, pumpVars
  <2>2. q \in Seq(Seq(Byte)) /\ Head(q) = q[1]
    BY <1>0, <2>1
  <2>3. sub'.reg = sub.reg /\ sub'.queue = Tail(q)
    BY <1>0, <2>1
  <2>4. sub.reg => Follow(Tail(q), Last(q[1]) + 1, Announced)
    <3>1. sub.reg => Follow(q, due, Announced)
      BY <2>1
    <3>2. Announced \in Int /\ due \in Int
      BY <1>0, ChunkRun
    <3> QED BY <2>1, <2>2, <3>1, <3>2, FollowTail
  <2> QED BY <2>1, <2>2, <2>3, <2>4 DEF Announced
<1>9. CASE LiveClosed
  BY <1>6, <1>9 DEF LiveClosed
<1>10. CASE Connect \/ StartSSE
  <2>1. PICK s : \E to \in {"hello", "log"} : h' = [Off EXCEPT !.pc = to, !.since = s]
    BY <1>10 DEF Connect, StartSSE
  <2> QED BY <2>1 DEF Off
<1>11. CASE Drop \/ Fallback \/ BackToSocket \/ \E load \in Loads : Refresh(load)
  BY <1>6, <1>11 DEF Drop, Fallback, BackToSocket, Refresh, Closes
<1>12. CASE Receive \/ WriteFrame \/ Unrun \/ DropBuffer \/ UNCHANGED streamVars
  BY <1>1, <1>12 DEF Receive, WriteFrame, Unrun, DropBuffer, streamVars, pumpVars, serverVars
<1> QED
  BY <1>2, <1>3, <1>4, <1>5, <1>7, <1>8, <1>9, <1>10, <1>11, <1>12
     DEF StreamNext, Pump, Handler, Handshake, Page

(* As long as it is not disconnected a subscriber's channel holds all the  *)
(* output since what it took last, in order, and nothing else; once it is  *)
(* disconnected and the pump has moved on, the channel is empty.           *)
THEOREM QueueAlwaysKept == StreamSpec => []QueueKept
<1>1. StreamInit => NothingSkippedWhileOpen
  BY DEF StreamInit, NothingSkippedWhileOpen, Off
<1>2. ConnInv /\ ShapeInv /\ [StreamNext]_streamVars => ConnInv'
  BY NextConn
<1>3. NothingSkippedWhileOpen /\ ConnInv /\ ShapeInv /\ [StreamNext]_streamVars => NothingSkippedWhileOpen'
  BY NextQueue
<1>4. NothingSkippedWhileOpen /\ BacklogDiscarded => QueueKept
  BY DEF QueueKept
<1>5. StreamSpec => []ConnInv
  BY <1>2, InitConn, ShapeAlways, PTL DEF StreamSpec
<1>6. StreamSpec => []NothingSkippedWhileOpen
  BY <1>1, <1>3, <1>5, ShapeAlways, PTL DEF StreamSpec
<1> QED BY <1>4, <1>6, NoBacklog, PTL

-----------------------------------------------------------------------------
(* HandshakeInv: what a handshake has replayed.                            *)

(* The handshake: what it has replayed, and how far.                       *)
HandshakeInv ==
  /\ h.pc = "hello" => h.first /\ ~h.started /\ h.streamed = 0
  /\ h.pc = "sync" /\ h.since < 0 =>
       /\ ~latched
       /\ \A k \in 1..Len(wire) : wire[k].kind # "sync"
       /\ \A k \in 1..Len(out) : out[k].kind # "sync"
  /\ h.pc \in {"replay", "consult"} =>
       /\ h.since >= 0
       /\ ~h.started => wire = <<>> /\ out = <<>> /\ ~latched /\ h.streamed = 0
       /\ h.first => ~h.started /\ h.cursor = h.since
       /\ ~h.first => h.cursor <= head
       /\ h.streamed > 0 => h.end = h.cursor
       /\ h.pc = "consult" => h.first
       /\ Covers(sent, Greater(h.since, Oldest), h.cursor)
  /\ ReplayComplete

(* More is painted, from later on, up to less.                             *)
LEMMA CoversUp ==
  ASSUME NEW S, NEW T, S \subseteq T, NEW lo \in Int, NEW lo2 \in Int, lo <= lo2,
         NEW e \in Int, NEW e2 \in Int, Covers(S, lo, e), e2 <= e \/ e2 <= lo2
  PROVE  Covers(T, lo2, e2)
<1> SUFFICES ASSUME NEW o \in lo2..(e2 - 1) PROVE o + 1 \in T
  BY DEF Covers
<1>1. o \in lo..(e - 1)
  OBVIOUS
<1> QED BY <1>1 DEF Covers

LEMMA GreaterFacts ==
  ASSUME NEW a \in Int, NEW b \in Int
  PROVE  /\ Greater(a, b) \in Int /\ a <= Greater(a, b) /\ b <= Greater(a, b)
         /\ Greater(a, b) = a \/ Greater(a, b) = b
         /\ \A c \in Int : b <= c => Greater(a, b) <= Greater(a, c)
BY DEF Greater

(* The buffer only forgets and grows.                                      *)
LEMMA RingMoves ==
  ASSUME ShapeInv, [StreamNext]_streamVars
  PROVE  /\ Oldest \in Nat /\ Oldest' \in Nat /\ Oldest <= Oldest'
         /\ head \in Nat /\ head' \in Nat /\ head <= head'
         /\ printed \in Nat /\ printed' \in Nat /\ printed <= printed'
<1>1. /\ RingOK /\ RingOK'
  BY NextShape DEF ShapeInv
<1>2. Oldest \in Nat /\ head \in Nat /\ printed \in Nat
  BY <1>1, RingFacts
<1>3. RingOK' => Oldest' \in Nat /\ head' \in Nat /\ printed' \in Nat
  <2>1. RingTypeOK' /\ HoldsTail' /\ printed' \in 0..MaxPrinted
    BY <1>1 DEF RingOK
  <2>2. head' \in Nat /\ used' \in 0..Cap /\ used' = IF closed' THEN 0 ELSE Lesser(head', Cap)
    BY <2>1 DEF RingTypeOK, HoldsTail
  <2>3. Oldest' = head' - used'
    BY DEF Oldest
  <2>4. used' = 0 \/ used' = head' \/ (used' = Cap /\ Cap <= head')
    BY <2>2, Constants DEF Lesser
  <2>5. head' - used' \in Nat
    <3>1. head' \in Nat /\ Cap \in Nat
      BY <2>2, Constants
    <3> QED BY <2>4, <3>1
  <2>6. printed' \in Nat
    BY <2>1, Constants
  <2> QED BY <2>2, <2>3, <2>5, <2>6
<1>4. CASE UNCHANGED <<ringVars, printed>>
  BY <1>1, <1>2, <1>3, <1>4 DEF ringVars, Oldest
<1>5. ASSUME NEW n \in Sizes, PumpRead(n) PROVE Oldest <= Oldest' /\ head <= head' /\ printed <= printed'
  <2>1. n \in Nat
    BY Constants
  <2> QED BY <1>2, <1>5, <2>1, PumpRing
<1>6. CASE DropBuffer
  BY <1>1, <1>2, <1>3, <1>6, DropRing
<1>7. CASE (\E n \in Sizes : PumpRead(n)) \/ DropBuffer
  BY <1>1, <1>2, <1>3, <1>5, <1>6, <1>7
<1>8. CASE (Handshake /\ ~Subscribe) \/ LogStream
  BY <1>4, <1>8, HandlerPc DEF HandlerOnly, pumpVars
<1>9. CASE Subscribe \/ Broadcast \/ Drain \/ WriteFrame \/ LiveSend \/ LiveClosed
  BY <1>4, <1>9 DEF Subscribe, Broadcast, Drain, WriteFrame, LiveSend, LiveClosed, pumpVars
<1>10. CASE Page
  BY <1>4, <1>10 DEF Page, Connect, StartSSE, Receive, Drop, Fallback, BackToSocket, Refresh, pumpVars
<1>11. CASE Unrun \/ UNCHANGED streamVars
  BY <1>4, <1>11 DEF Unrun, streamVars, pumpVars
<1> QED BY <1>7, <1>8, <1>9, <1>10, <1>11 DEF StreamNext, Pump, Handler, Handshake

(* Steps that leave the handler where it is.                               *)
LEMMA IdleHandshake ==
  ASSUME ShapeInv, HandshakeInv, [StreamNext]_streamVars, UNCHANGED <<h, sent>>,
         h.pc = "sync" /\ h.since < 0 =>
           /\ ~latched'
           /\ \A k \in 1..Len(wire') : wire'[k].kind # "sync"
           /\ \A k \in 1..Len(out') : out'[k].kind # "sync",
         h.pc \in {"replay", "consult"} /\ ~h.started =>
           wire' = <<>> /\ out' = <<>> /\ ~latched'
  PROVE  HandshakeInv'
<1>1. /\ Oldest \in Nat /\ Oldest' \in Nat /\ Oldest <= Oldest'
      /\ head \in Nat /\ head' \in Nat /\ head <= head'
  BY RingMoves
<1>2. h \in HandlerStates /\ h' = h /\ sent' = sent
  BY DEF ShapeInv
<1>3. h.since \in Int /\ h.cursor \in Nat /\ h.end \in Nat
  BY <1>2 DEF HandlerStates, Unknown, FollowLiveEnd
<1> DEFINE lo == Greater(h.since, Oldest)
           lo2 == Greater(h.since, Oldest')
<1>4. lo \in Int /\ lo2 \in Int /\ lo <= lo2
  <2>1. Oldest \in Int /\ Oldest' \in Int /\ h.since \in Int /\ Oldest <= Oldest'
    BY <1>1, <1>3
  <2> QED BY <2>1 DEF Greater
<1>5. Covers(sent, lo, h.cursor) => Covers(sent, lo2, h.cursor)
  <2> HIDE DEF lo, lo2
  <2> QED BY <1>3, <1>4, CoversUp
<1>6. Covers(sent, lo, h.end) => Covers(sent, lo2, h.end)
  <2> HIDE DEF lo, lo2
  <2> QED BY <1>3, <1>4, CoversUp
<1>7. ReplayComplete'
  <2>1. h.pc = "sync" /\ h.since >= 0 => h.end <= head /\ Covers(sent, lo, h.end)
    BY DEF HandshakeInv, ReplayComplete, Covers
  <2>2. h.pc = "sync" /\ h.since >= 0 => h.end <= head' /\ Covers(sent, lo2, h.end)
    BY <1>1, <1>3, <1>6, <2>1
  <2>3. Greater(h.since, Oldest)' = lo2
    BY <1>2 DEF Greater
  <2> QED BY <1>2, <2>2, <2>3 DEF ReplayComplete, Covers
<1>8. h.pc \in {"replay", "consult"} => Covers(sent', Greater(h'.since, Oldest'), h'.cursor)
  BY <1>2, <1>5 DEF HandshakeInv
<1>9. h.pc \in {"replay", "consult"} /\ ~h.first => h.cursor <= head'
  BY <1>1, <1>3 DEF HandshakeInv
<1> QED BY <1>2, <1>7, <1>8, <1>9 DEF HandshakeInv

(* Outside the handshake there is nothing to show.                         *)
LEMMA NoHandshake ==
  ASSUME h'.pc \notin {"hello", "replay", "consult", "sync"}
  PROVE  HandshakeInv'
BY DEF HandshakeInv, ReplayComplete

(* Each step of the handshake goes on from where the last one stopped.     *)
LEMMA StepsHandshake ==
  ASSUME ShapeInv, ConnInv, HandshakeInv, Handshake, ~Subscribe
  PROVE  HandshakeInv'
<1>0. HandlerOnly
  BY HandlerPc
<1>1. /\ UNCHANGED <<wire, latched>> /\ head' = head /\ Oldest' = Oldest
  BY <1>0 DEF HandlerOnly, pageVars, ringVars, Oldest
<1>2. /\ h \in HandlerStates /\ RingOK /\ running \in BOOLEAN /\ ReadMax \in Nat /\ ReadMax >= 1
      /\ head \in Nat /\ Oldest \in Nat /\ Oldest <= head
  BY RingFacts, Constants DEF ShapeInv
<1>3. /\ h.since \in Nat \cup {Unknown, FollowLiveEnd} /\ h.cursor \in Nat /\ h.end \in Nat /\ h.streamed \in Nat
      /\ h.first \in BOOLEAN /\ h.started \in BOOLEAN /\ h.since \in Int
  BY <1>2 DEF HandlerStates, Unknown, FollowLiveEnd
<1> DEFINE lo == Greater(h.since, Oldest)
<1>4. lo \in Int /\ Oldest <= lo /\ h.since <= lo
  <2>1. Oldest \in Int /\ h.since \in Int
    BY <1>2, <1>3
  <2> QED BY <2>1 DEF Greater
<1>5. ASSUME h'.pc = "sync", h'.since = h.since, h.since >= 0, h'.end <= head, Covers(sent', lo, h'.end)
      PROVE  HandshakeInv'
  <2>1. ReplayComplete'
    BY <1>1, <1>5 DEF ReplayComplete, Covers
  <2>2. ~(h'.since < 0) /\ h'.pc # "hello" /\ h'.pc \notin {"replay", "consult"}
    BY <1>3, <1>5
  <2> QED BY <2>1, <2>2 DEF HandshakeInv
<1>6. ASSUME h'.pc = "sync", h'.since < 0,
             \A k \in 1..Len(wire) : wire[k].kind # "sync", \A k \in 1..Len(out') : out'[k].kind # "sync", ~latched
      PROVE  HandshakeInv'
  <2>1. ReplayComplete'
    <3>1. h'.since \in Int
      <4>1. h' \in HandlerStates
        BY HandshakeShape DEF ShapeInv
      <4> QED BY <4>1 DEF HandlerStates, Unknown, FollowLiveEnd
    <3> QED BY <1>6, <3>1 DEF ReplayComplete
  <2> QED BY <1>1, <1>6, <2>1 DEF HandshakeInv
<1>7. CASE HandshakeFollow \/ HandshakeTail
  <2>0. h.pc = "hello" /\ (h.since = FollowLiveEnd \/ h.since = Unknown)
    BY <1>7 DEF HandshakeFollow, HandshakeTail, At
  <2>1. h.pc = "hello" /\ h.since < 0 /\ \E end : h' = [h EXCEPT !.pc = "sync", !.end = end]
    <3>1. \E end : h' = [h EXCEPT !.pc = "sync", !.end = end]
      BY <1>7, Zenon DEF HandshakeFollow, HandshakeTail
    <3>2. h.since < 0
      BY <2>0 DEF Unknown, FollowLiveEnd
    <3> QED BY <2>0, <3>1, <3>2
  <2>2. h'.pc = "sync" /\ h'.since = h.since /\ wire = <<>> /\ out = <<>> /\ ~latched
    BY <1>2, <2>1 DEF ConnInv, HandlerStates
  <2>3. \A k \in 1..Len(out') : out'[k].kind # "sync"
    <3>1. out' = <<>> \/ \E body : out' = <<Bytes(body)>>
      BY <1>7, <2>2 DEF HandshakeFollow, HandshakeTail, BytesOf
    <3>2. \A body : Bytes(body).kind # "sync"
      BY DEF Bytes, Frame
    <3> QED BY <3>1, <3>2
  <2> QED BY <1>6, <2>1, <2>2, <2>3
<1>8. CASE HandshakeReplay
  <2>1. h.pc = "hello" /\ h.since >= 0 /\ h' = [h EXCEPT !.pc = "replay", !.cursor = h.since]
        /\ UNCHANGED <<out, sent>>
    BY <1>8 DEF HandshakeReplay, At
  <2>2. /\ h'.pc = "replay" /\ h'.cursor = h.since /\ h'.since = h.since /\ h'.first /\ ~h'.started /\ h'.streamed = 0
        /\ wire = <<>> /\ out = <<>> /\ ~latched
    BY <1>2, <2>1 DEF HandlerStates, HandshakeInv, ConnInv
  <2>3. Covers(sent, lo, h.since)
    <3>1. lo..(h.since - 1) = {}
      BY <1>3, <1>4
    <3> QED BY <3>1 DEF Covers
  <2> QED BY <1>1, <1>3, <2>1, <2>2, <2>3 DEF HandshakeInv, ReplayComplete
<1>9. CASE ReplayBudgetSpent
  <2>1. h.pc = "replay" /\ h.streamed >= ReplayBudget /\ h' = [h EXCEPT !.pc = "sync", !.end = h.end] /\ sent' = sent
    BY <1>9 DEF ReplayBudgetSpent, At, ReplayStops
  <2>2. h'.pc = "sync" /\ h'.since = h.since /\ h'.end = h.end
    BY <1>2, <2>1 DEF HandlerStates
  <2>3. h.streamed > 0 /\ h.started /\ ~h.first
    BY <1>3, <2>1, Constants DEF HandshakeInv
  <2>4. h.since >= 0 /\ h.end = h.cursor /\ h.cursor <= head /\ Covers(sent, lo, h.cursor)
    BY <2>1, <2>3 DEF HandshakeInv
  <2> QED BY <1>5, <2>1, <2>2, <2>4
<1>10. CASE ReplayChunk
  <2> DEFINE r == Read(h.cursor)
             to == IF r.next <= h.cursor THEN "sync" ELSE "replay"
             a == Greater(h.cursor, Oldest)
  <2>1. /\ r.body # <<>> /\ h.pc = "replay"
        /\ sent' = sent \cup Shown(r.body)
        /\ h' = [h EXCEPT !.pc = to, !.started = TRUE, !.end = r.next, !.first = FALSE,
                          !.streamed = @ + Len(r.body), !.cursor = r.next]
    BY <1>10 DEF ReplayChunk, At
  <2>2. /\ Shown(r.body) = (a + 1)..r.next /\ Len(r.body) = r.next - a
        /\ a \in Nat /\ r.next \in Nat /\ a < r.next /\ r.next <= head /\ h.cursor < r.next
    BY <1>2, <1>3, <2>1, ReadFrame
  <2>3. to = "replay"
    BY <1>3, <2>2
  <2> DEFINE next == r.next
             streamed == h.streamed + Len(r.body)
  <2>4. h' = [h EXCEPT !.pc = "replay", !.started = TRUE, !.end = next, !.first = FALSE,
                       !.streamed = streamed, !.cursor = next]
    BY <2>1, <2>3
  <2>5. next \in Nat /\ next <= head /\ streamed > 0 /\ Shown(r.body) = (a + 1)..next
    BY <1>3, <2>2
  <2>6. Covers(sent', lo, next)
    <3> SUFFICES ASSUME NEW o \in lo..(next - 1) PROVE o + 1 \in sent'
      BY DEF Covers
    <3>1. CASE o < h.cursor
      <4>1. Covers(sent, lo, h.cursor) /\ o \in lo..(h.cursor - 1)
        BY <1>3, <1>4, <2>1, <3>1 DEF HandshakeInv
      <4>2. o + 1 \in sent
        BY <4>1 DEF Covers
      <4> QED BY <2>1, <4>2
    <3>2. CASE ~(o < h.cursor)
      <4>1. o \in Int /\ a <= o /\ o < next
        BY <1>2, <1>3, <1>4, <2>5, <3>2 DEF Greater
      <4> HIDE DEF next, a, lo, r
      <4>2. a \in Nat
        BY <2>2
      <4>3. o + 1 \in (a + 1)..next
        BY <2>5, <4>1, <4>2
      <4> QED BY <2>1, <2>5, <4>3
    <3> QED BY <3>1, <3>2
  <2>7. h.since >= 0
    BY <2>1 DEF HandshakeInv
  <2> HIDE DEF next, streamed, r, to, a, lo
  <2>8. /\ h'.pc = "replay" /\ h'.since = h.since /\ h'.started /\ ~h'.first /\ h'.cursor = next
        /\ h'.end = next
    BY <1>2, <2>4 DEF HandlerStates
  <2>9. Covers(sent', Greater(h'.since, Oldest'), h'.cursor)
    BY <1>1, <2>6, <2>8 DEF lo
  <2> QED BY <1>1, <2>5, <2>7, <2>8, <2>9 DEF HandshakeInv, ReplayComplete
<1>11. CASE ReplayEmpty
  <2> DEFINE r == Read(h.cursor)
  <2>1. /\ h.pc = "replay" /\ r.body = <<>> /\ out = <<>>
        /\ IF h.first THEN h' = [h EXCEPT !.pc = "consult"] ELSE ReplayStops(r.next)
        /\ UNCHANGED <<out, sent>>
    BY <1>11 DEF ReplayEmpty, At
  <2>2. r.next \in Nat /\ (r.next = h.cursor \/ (r.next = head /\ r.next <= Oldest))
    BY <1>2, <1>3, <2>1, ReadGives
  <2> HIDE DEF r
  <2>3. CASE h.first
    <3>1. /\ h'.pc = "consult" /\ h'.since = h.since /\ h'.cursor = h.cursor /\ h'.first = h.first
          /\ h'.started = h.started /\ h'.streamed = h.streamed /\ h'.end = h.end
      BY <1>2, <2>1, <2>3 DEF HandlerStates
    <3> QED BY <1>1, <2>1, <2>3, <3>1 DEF HandshakeInv, ReplayComplete
  <2>4. CASE ~h.first
    <3>1. h'.pc = "sync" /\ h'.since = h.since /\ h'.end = r.next
      BY <1>2, <2>1, <2>4 DEF HandlerStates, ReplayStops
    <3>2. h.since >= 0 /\ h.cursor <= head /\ Covers(sent, lo, h.cursor)
      BY <2>1, <2>4 DEF HandshakeInv
    <3>3. r.next <= head
      BY <1>2, <2>2, <3>2
    <3>4. r.next <= h.cursor \/ r.next <= lo
      BY <1>2, <1>3, <1>4, <2>2
    <3>5. Covers(sent, lo, r.next)
      <4> HIDE DEF lo
      <4> QED BY <1>3, <1>4, <2>2, <3>2, <3>4, CoversUp
    <3> QED BY <1>5, <2>1, <3>1, <3>2, <3>3, <3>5
  <2> QED BY <2>3, <2>4
<1>12. CASE ReplayConsult
  <2> DEFINE r == Newest(ReadMax)
  <2>1. r.off \in Nat /\ r.off <= head
    BY <1>2, NewestGives
  <2>2. /\ h.pc = "consult"
        /\ \/ h.cursor > r.off /\ ReplayStops(r.off)
           \/ h.cursor < r.off /\ h' = [h EXCEPT !.pc = "replay", !.first = FALSE] /\ UNCHANGED <<out, sent>>
           \/ h.cursor = r.off /\ ReplayStops(r.off) /\ UNCHANGED <<out, sent>>
    BY <1>12 DEF ReplayConsult, At, ReadAgain
  <2>3. /\ h.since >= 0 /\ h.first /\ ~h.started /\ h.cursor = h.since /\ Covers(sent, lo, h.cursor)
        /\ wire = <<>> /\ out = <<>> /\ ~latched /\ h.streamed = 0
    BY <2>2 DEF HandshakeInv
  <2> HIDE DEF r
  <2>4. CASE h.cursor > r.off /\ ReplayStops(r.off)
    <3>1. h'.pc = "sync" /\ h'.since = h.since /\ h'.end = r.off
      BY <1>2, <2>4 DEF HandlerStates, ReplayStops
    <3>2. lo..(r.off - 1) = {}
      BY <1>3, <1>4, <2>1, <2>3, <2>4
    <3> QED BY <1>5, <2>1, <2>3, <3>1, <3>2 DEF Covers
  <2>5. CASE h.cursor < r.off /\ h' = [h EXCEPT !.pc = "replay", !.first = FALSE] /\ UNCHANGED <<out, sent>>
    <3>1. /\ h'.pc = "replay" /\ h'.since = h.since /\ h'.cursor = h.cursor /\ ~h'.first
          /\ h'.started = h.started /\ h'.streamed = h.streamed /\ h'.end = h.end
      BY <1>2, <2>5 DEF HandlerStates
    <3>2. h.cursor <= head
      BY <1>2, <1>3, <2>1, <2>5
    <3> QED BY <1>1, <2>3, <2>5, <3>1, <3>2 DEF HandshakeInv, ReplayComplete
  <2>6. CASE h.cursor = r.off /\ ReplayStops(r.off) /\ UNCHANGED <<out, sent>>
    <3>1. h'.pc = "sync" /\ h'.since = h.since /\ h'.end = r.off
      BY <1>2, <2>6 DEF HandlerStates, ReplayStops
    <3> QED BY <1>5, <2>1, <2>3, <2>6, <3>1
  <2> QED BY <2>2, <2>4, <2>5, <2>6
<1>13. CASE SendSync
  <2>1. h'.pc = "subscribe"
    BY <1>2, <1>13 DEF SendSync, HandlerStates
  <2> QED BY <2>1, NoHandshake
<1> QED BY <1>7, <1>8, <1>9, <1>10, <1>11, <1>12, <1>13 DEF Handshake

(* And no other actor disturbs it.                                         *)
LEMMA NextHandshake ==
  ASSUME ShapeInv, ConnInv, HandshakeInv, [StreamNext]_streamVars
  PROVE  HandshakeInv'
<1>0. wire \in Seq(Frames) /\ out \in Seq(Frames)
  BY DEF ShapeInv, FramesOK
<1>1. CASE UNCHANGED <<h, sent, wire, out, latched>>
  BY <1>1, IdleHandshake DEF HandshakeInv
<1>2. CASE Pump \/ Unrun \/ DropBuffer \/ UNCHANGED streamVars
  BY <1>1, <1>2 DEF Pump, PumpRead, Broadcast, Drain, Unrun, DropBuffer, streamVars, serverVars, pageVars
<1>3. CASE Handshake /\ ~Subscribe
  BY <1>3, StepsHandshake
<1>4. CASE LogStream
  <2>1. PICK next : h' = [Off EXCEPT !.pc = "ticks", !.cursor = next]
    BY <1>4 DEF LogStream, LogFollow, LogTail, LogSince, LogTick, LogSends
  <2> QED BY <2>1, NoHandshake DEF Off
<1>5. ASSUME NEW frames, Return(frames) PROVE HandshakeInv'
  <2>1. h'.pc = "off"
    BY <1>5 DEF Return, Off
  <2> QED BY <2>1, NoHandshake
<1>6. CASE Subscribe
  <2>1. h'.pc = "live" \/ \E frames : Return(frames)
    BY <1>6 DEF Subscribe, Off
  <2> QED BY <1>5, <2>1, NoHandshake
<1>7. CASE LiveSend
  <2>1. h.pc = "live" /\ h' = h
    BY <1>7 DEF LiveSend, At
  <2> QED BY <2>1, NoHandshake
<1>8. CASE LiveClosed \/ Drop \/ Fallback \/ BackToSocket \/ \E load \in Loads : Refresh(load)
  BY <1>5, <1>8 DEF LiveClosed, Drop, Fallback, BackToSocket, Refresh, Closes
<1>9. CASE Connect \/ StartSSE
  <2>1. PICK s : \E to \in {"hello", "log"} : h' = [Off EXCEPT !.pc = to, !.since = s]
    BY <1>9 DEF Connect, StartSSE
  <2>2. h'.pc \in {"hello", "log"} /\ h'.first /\ ~h'.started /\ h'.streamed = 0
    BY <2>1 DEF Off
  <2> QED BY <2>2 DEF HandshakeInv, ReplayComplete
<1>10. CASE Receive
  <2>1. /\ wire # <<>> /\ wire' = Tail(wire) /\ UNCHANGED <<h, out, sent>>
        /\ latched' => latched \/ Head(wire).kind = "sync"
    BY <1>10 DEF Receive, serverVars
  <2> DEFINE t == Tail(wire)
             n == Len(wire)
  <2>2. /\ Head(wire) = wire[1] /\ Len(t) = n - 1 /\ n \in Nat \ {0}
        /\ \A k \in 1..(n - 1) : t[k] = wire[k + 1] /\ wire' = t
    BY <1>0, <2>1, HeadTailProperties
  <2>3. ASSUME h.pc = "sync", h.since < 0
        PROVE  /\ ~latched'
               /\ \A k \in 1..Len(t) : t[k].kind # "sync"
               /\ \A k \in 1..Len(out') : out'[k].kind # "sync"
    <3>1. /\ ~latched /\ \A k \in 1..n : wire[k].kind # "sync"
          /\ \A k \in 1..Len(out) : out[k].kind # "sync"
      BY <2>3 DEF HandshakeInv
    <3> HIDE DEF t, n
    <3>2. ~latched'
      <4>1. 1 \in 1..n
        BY <2>2
      <4> QED BY <2>1, <2>2, <3>1, <4>1
    <3>3. \A k \in 1..Len(t) : t[k].kind # "sync"
      <4> TAKE k \in 1..Len(t)
      <4>1. k + 1 \in 1..n /\ k \in 1..(n - 1)
        BY <2>2
      <4> QED BY <2>2, <3>1, <4>1
    <3> QED BY <2>1, <3>1, <3>2, <3>3
  <2>4. ~(h.pc \in {"replay", "consult"} /\ ~h.started)
    BY <2>1 DEF HandshakeInv
  <2>5. wire' = t
    BY <2>1
  <2> HIDE DEF t
  <2> QED BY <2>1, <2>3, <2>4, <2>5, IdleHandshake
<1>11. CASE WriteFrame
  <2>1. /\ out # <<>> /\ wire' = Append(wire, Head(out)) /\ out' = Tail(out)
        /\ UNCHANGED <<h, sent, latched>>
    BY <1>11 DEF WriteFrame, pageVars
  <2> DEFINE t == Tail(out)
             m == Len(out)
             w == Append(wire, Head(out))
             n == Len(wire)
  <2>2. /\ Head(out) = out[1] /\ Len(t) = m - 1 /\ m \in Nat \ {0}
        /\ \A k \in 1..(m - 1) : t[k] = out[k + 1]
        /\ Head(out) \in Frames
    BY <1>0, <2>1, HeadTailProperties
  <2>3. Len(w) = n + 1 /\ n \in Nat /\ (\A k \in 1..n : w[k] = wire[k]) /\ w[n + 1] = out[1]
    BY <1>0, <2>2, AppendProperties
  <2>4. ASSUME h.pc = "sync", h.since < 0
        PROVE  /\ ~latched
               /\ \A k \in 1..Len(w) : w[k].kind # "sync"
               /\ \A k \in 1..Len(t) : t[k].kind # "sync"
    <3>1. /\ ~latched /\ \A k \in 1..n : wire[k].kind # "sync"
          /\ \A k \in 1..m : out[k].kind # "sync"
      BY <2>4 DEF HandshakeInv
    <3> HIDE DEF t, m, w, n
    <3>2. \A k \in 1..Len(t) : t[k].kind # "sync"
      <4> TAKE k \in 1..Len(t)
      <4>1. k + 1 \in 1..m /\ k \in 1..(m - 1)
        BY <2>2
      <4> QED BY <2>2, <3>1, <4>1
    <3>3. \A k \in 1..Len(w) : w[k].kind # "sync"
      <4> TAKE k \in 1..Len(w)
      <4>1. 1 \in 1..m
        BY <2>2
      <4>2. k \in 1..n \/ k = n + 1
        BY <2>3
      <4> QED BY <2>3, <3>1, <4>1, <4>2
    <3> QED BY <3>1, <3>2, <3>3
  <2>5. ~(h.pc \in {"replay", "consult"} /\ ~h.started)
    BY <2>1 DEF HandshakeInv
  <2>6. wire' = w /\ out' = t
    BY <2>1
  <2> HIDE DEF w, t
  <2> QED BY <2>1, <2>4, <2>5, <2>6, IdleHandshake
<1> QED BY <1>2, <1>3, <1>4, <1>6, <1>7, <1>8, <1>9, <1>10, <1>11
     DEF StreamNext, Handler, Handshake, Page

(* Connections and handshakes are as they should be in every state.        *)
LEMMA HandshakeAlways == StreamSpec => []ConnInv /\ []HandshakeInv
<1>1. StreamInit => ConnInv
  BY InitConn
<1>2. StreamInit => HandshakeInv
  BY DEF StreamInit, HandshakeInv, ReplayComplete, Off
<1>3. ConnInv /\ ShapeInv /\ [StreamNext]_streamVars => ConnInv'
  BY NextConn
<1>4. HandshakeInv /\ ConnInv /\ ShapeInv /\ [StreamNext]_streamVars => HandshakeInv'
  BY NextHandshake
<1> QED BY <1>1, <1>2, <1>3, <1>4, ShapeAlways, PTL DEF StreamSpec

-----------------------------------------------------------------------------
(* The frames on their way during a handshake.                             *)

(* The first frame on its way, and the second.                             *)
LEMMA AppendPair ==
  ASSUME NEW f, NEW g
  PROVE  Append(<<>>, f) = <<f>> /\ Append(<<f>>, g) = <<f, g>>
<1>1. <<f>> = Append(<<>>, f) /\ <<f, g>> = Append(<<f>>, g)
  OBVIOUS
<1> QED BY <1>1

(* The first frame on an empty connection.                                 *)
LEMMA FlowFirst ==
  ASSUME NEW S, NEW c \in Int, NEW lo \in Int, NEW P \in Int, NEW f \in Frames, NEW e,
         Covers(S, lo, P), f.kind # "close", FrameEnd(f) = e,
         f.kind = "bytes" => P <= FrameStart(f),
         \A o \in lo..(e - 1) : o < P \/ o + 1 \in Shown(f.body)
  PROVE  /\ <<f>> \in Seq(Frames)
         /\ Flow(<<f>>, S, c, FALSE, lo)
         /\ Reach(<<f>>, S, c, FALSE, lo, e)
<1>1. Flow(<<>>, S, c, FALSE, lo) /\ Reach(<<>>, S, c, FALSE, lo, P)
  BY FlowNone
<1> DEFINE F == <<>>
<1>2. F \in Seq(Frames)
  OBVIOUS
<1>3. Append(F, f) = <<f>>
  BY AppendPair
<1>4. Flow(F, S, c, FALSE, lo) /\ Reach(F, S, c, FALSE, lo, P)
  BY <1>1
<1> HIDE DEF F
<1>5. /\ Append(F, f) \in Seq(Frames)
      /\ Flow(Append(F, f), S, c, FALSE, lo)
      /\ Reach(Append(F, f), S, c, FALSE, lo, FrameEnd(f))
  BY <1>2, <1>4, FlowAppend
<1> QED BY <1>3, <1>5

(* A second frame after it.                                                *)
LEMMA FlowSecond ==
  ASSUME NEW S, NEW c \in Int, NEW lo \in Int, NEW P \in Int, NEW f \in Frames, NEW g \in Frames, NEW e,
         Flow(<<f>>, S, c, FALSE, lo), Reach(<<f>>, S, c, FALSE, lo, P), g.kind # "close",
         FrameEnd(g) = e, g.kind = "bytes" => P <= FrameStart(g),
         \A o \in lo..(e - 1) : o < P \/ o + 1 \in Shown(g.body)
  PROVE  /\ Flow(<<f, g>>, S, c, FALSE, lo)
         /\ Reach(<<f, g>>, S, c, FALSE, lo, e)
<1> DEFINE F == <<f>>
<1>1. F \in Seq(Frames) /\ Append(F, g) = <<f, g>>
  BY AppendPair
<1>2. Flow(F, S, c, FALSE, lo) /\ Reach(F, S, c, FALSE, lo, P)
  OBVIOUS
<1> HIDE DEF F
<1>3. /\ Flow(Append(F, g), S, c, FALSE, lo)
      /\ Reach(Append(F, g), S, c, FALSE, lo, FrameEnd(g))
  BY <1>1, <1>2, FlowAppend
<1> QED BY <1>1, <1>3

(* All the frames on their way to the page.                                *)
Flight == wire \o out

(* What they and the screen supply from lo on: never less than the cursor  *)
(* is moved, and everything up to P, where the handler goes on.            *)
Flows(lo)      == Flow(Flight, painted, cursor, latched, lo)
Reaches(lo, P) == Reach(Flight, painted, cursor, latched, lo, P)
Paints(lo, P)  == Flows(lo) /\ Reaches(lo, P)

LEMMA FlightFacts ==
  ASSUME ShapeInv
  PROVE  /\ wire \in Seq(Frames) /\ out \in Seq(Frames) /\ Flight \in Seq(Frames)
         /\ cursor \in Int /\ logCursor \in Int /\ latched \in BOOLEAN
         /\ out = <<>> => Flight = wire
         /\ \A k \in 1..Len(Flight) : Flight[k] \in Frames /\ FrameEnd(Flight[k]) \in Nat
<1>1. wire \in Seq(Frames) /\ out \in Seq(Frames)
  BY DEF ShapeInv, FramesOK
<1>2. Flight \in Seq(Frames) /\ (out = <<>> => Flight = wire)
  BY <1>1, ConcatProperties, ConcatEmpty DEF Flight
<1>3. \A k \in 1..Len(Flight) : Flight[k] \in Frames
  BY <1>2
<1>4. \A k \in 1..Len(Flight) : FrameEnd(Flight[k]) \in Nat
  BY <1>3, FrameFacts
<1>5. cursor \in Int /\ logCursor \in Int /\ latched \in BOOLEAN
  BY DEF ShapeInv, PageOK, Unknown, FollowLiveEnd
<1> QED BY <1>1, <1>2, <1>3, <1>4, <1>5

(* The handler's write moves a frame from one queue to the other.          *)
LEMMA FlightSame ==
  ASSUME ShapeInv, WriteFrame
  PROVE  Flight' = Flight
<1>1. out # <<>> /\ wire' = Append(wire, Head(out)) /\ out' = Tail(out)
  BY DEF WriteFrame
<1> QED BY <1>1, FlightFacts, MoveOn DEF Flight

(* Nothing changes while the frames and the screen stay.                   *)
LEMMA PaintsSame ==
  ASSUME UNCHANGED <<Flight, painted, cursor, latched>>, NEW lo, NEW P
  PROVE  (Flows(lo) => Flows(lo)') /\ (Reaches(lo, P) => Reaches(lo, P)')
<1>1. Flow(Flight, painted, cursor, latched, lo)' = Flow(Flight', painted', cursor', latched', lo)
  BY DEF Flow, Supplied, FrameEnd, FrameStart, Shown
<1>2. Reach(Flight, painted, cursor, latched, lo, P)' = Reach(Flight', painted', cursor', latched', lo, P)
  BY DEF Reach, Supplied, FrameEnd, Shown
<1> QED BY <1>1, <1>2 DEF Flows, Reaches

(* The buffer has moved on.                                                *)
LEMMA PaintsGrow ==
  ASSUME ShapeInv, UNCHANGED <<Flight, painted, cursor, latched>>,
         NEW lo \in Int, NEW lo2 \in Int, lo <= lo2, NEW P \in Int
  PROVE  /\ Flows(lo) => Flows(lo2)' /\ (Reaches(lo, P) => Reaches(lo2, P)')
         /\ \A e \in Int : Covers(painted, lo, e) => Covers(painted', lo2, e)
<1>1. Flows(lo) => Flows(lo2)
  BY FlightFacts, FlowGrow DEF Flows
<1>2. Reaches(lo, P) => Reaches(lo2, P)
  BY FlightFacts, FlowGrow DEF Reaches
<1>3. \A e \in Int : Covers(painted, lo, e) => Covers(painted', lo2, e)
  BY FlowGrow DEF Covers
<1> QED BY <1>1, <1>2, <1>3, PaintsSame

(* One more frame.                                                         *)
LEMMA PaintsFrame ==
  ASSUME ShapeInv, out = <<>>, NEW f \in Frames, NEW e, out' = <<f>>, FrameEnd(f) = e,
         UNCHANGED <<wire, painted, cursor, latched>>,
         NEW lo \in Int, NEW P \in Int, Flows(lo), Reaches(lo, P), f.kind # "close",
         f.kind = "bytes" => P <= FrameStart(f),
         \A o \in lo..(e - 1) : o < P \/ o + 1 \in Shown(f.body)
  PROVE  /\ Flight' = Append(wire, f) /\ Flight = wire
         /\ Flows(lo)' /\ Reach(Flight', painted', cursor', latched', lo, e)
<1>1. Flight = wire /\ wire \in Seq(Frames) /\ cursor \in Int
  BY FlightFacts
<1>2. Flight' = Append(wire, f)
  BY <1>1, ConcatOne DEF Flight
<1>3. Flow(wire, painted, cursor, latched, lo) /\ Reach(wire, painted, cursor, latched, lo, P)
  BY <1>1 DEF Flows, Reaches
<1>4. /\ Flow(Append(wire, f), painted, cursor, latched, lo)
      /\ Reach(Append(wire, f), painted, cursor, latched, lo, e)
  BY <1>1, <1>3, FlowAppend
<1>5. /\ Flow(Flight', painted', cursor', latched', lo)
      /\ Reach(Flight', painted', cursor', latched', lo, e)
  BY <1>2, <1>4
<1> QED BY <1>1, <1>2, <1>5 DEF Flows, Reaches

(* No frame, and none on its way.                                          *)
LEMMA PaintsNone ==
  ASSUME UNCHANGED <<wire, painted, cursor, latched>>, wire = <<>>, out' = <<>>, ~latched,
         NEW lo, NEW P, Covers(painted, lo, P)
  PROVE  Flight' = <<>> /\ Flows(lo)' /\ Reaches(lo, P)'
<1>1. Flight' = <<>>
  BY DEF Flight
<1>2. /\ Flow(Flight', painted', cursor', latched', lo)
      /\ Reach(Flight', painted', cursor', latched', lo, P)
  BY <1>1, FlowNone
<1> QED BY <1>1, <1>2 DEF Flows, Reaches

(* The first frames of a connection: the bytes from a up to e, in a frame  *)
(* of their own or after a sync that says where they start.                *)
LEMMA PaintsTail ==
  ASSUME ShapeInv, out = <<>>, wire = <<>>, ~latched, UNCHANGED <<wire, painted, cursor, latched>>,
         NEW body, IsRun(body), NEW a \in Nat, NEW e \in Nat,
         body[1] = a + 1, Last(body) = e, Shown(body) = (a + 1)..e,
         NEW lo \in Int, a <= lo,
         \/ out' = <<Bytes(body)>>
         \/ out' = <<Sync(a), Bytes(body)>>
         \/ out' = <<LogEvent(e, body)>>
  PROVE  /\ Flows(lo)' /\ Reaches(lo, e)'
         /\ \A k \in 1..Len(Flight') : FrameEnd(Flight'[k]) <= e
<1>0. a < e
  BY IsRunFacts
<1> DEFINE b == Bytes(body)
           s == Sync(a)
           l == LogEvent(e, body)
<1>1. /\ b \in Frames /\ s \in Frames /\ l \in Frames
      /\ FrameEnd(b) = e /\ FrameEnd(s) = a /\ FrameEnd(l) = e /\ FrameStart(b) = a
      /\ b.kind = "bytes" /\ b.body = body /\ s.kind = "sync" /\ s.body = <<>>
      /\ l.kind = "log" /\ l.body = body
  <2>1. b \in Frames /\ s \in Frames /\ l \in Frames
    BY MakeFrames
  <2>2. b.kind = "bytes" /\ b.body = body /\ s.kind = "sync" /\ s.body = <<>> /\ l.kind = "log" /\ l.body = body
        /\ s.off = a /\ l.off = e
    BY DEF Bytes, Sync, LogEvent, Frame
  <2> QED BY <2>1, <2>2 DEF FrameEnd, FrameStart
<1> HIDE DEF b, s, l
<1>2. cursor \in Int /\ a \in Int /\ e \in Int
  BY FlightFacts
<1>3. Covers(painted, lo, a)
  <2>1. lo..(a - 1) = {}
    OBVIOUS
  <2> QED BY <2>1 DEF Covers
<1>4. latched = FALSE
  BY FlightFacts
<1>5. \A o \in lo..(e - 1) : o < a \/ o + 1 \in Shown(body)
  OBVIOUS
<1>8. CASE \E f \in {b, l} : out' = <<f>>
  <2>1. PICK f \in {b, l} : out' = <<f>>
    BY <1>8
  <2>2. Flight' = <<f>>
    BY <2>1, AppendPair DEF Flight
  <2>3. f \in Frames /\ f.kind # "close" /\ FrameEnd(f) = e /\ f.body = body
        /\ (f.kind = "bytes" => a <= FrameStart(f))
    BY <1>1, <1>2, <2>1
  <2>4. Flow(<<f>>, painted, cursor, FALSE, lo) /\ Reach(<<f>>, painted, cursor, FALSE, lo, e)
    <3>1. \A o \in lo..(e - 1) : o < a \/ o + 1 \in Shown(f.body)
      BY <1>5, <2>3
    <3> QED BY <1>2, <1>3, <2>3, <3>1, FlowFirst
  <2>5. /\ Flow(Flight', painted', cursor', latched', lo)
        /\ Reach(Flight', painted', cursor', latched', lo, e)
    BY <1>4, <2>2, <2>4
  <2>6. \A k \in 1..Len(Flight') : FrameEnd(Flight'[k]) <= e
    BY <2>2, <2>3
  <2> QED BY <2>5, <2>6 DEF Flows, Reaches
<1>9. CASE out' = <<s, b>>
  <2>1. Flow(<<s>>, painted, cursor, FALSE, lo) /\ Reach(<<s>>, painted, cursor, FALSE, lo, a)
    <3>1. s.kind # "close" /\ s.kind # "bytes" /\ FrameEnd(s) = a
      BY <1>1
    <3>2. \A o \in lo..(a - 1) : o < a \/ o + 1 \in Shown(s.body)
      OBVIOUS
    <3> QED BY <1>1, <1>2, <1>3, <3>1, <3>2, FlowFirst
  <2>2. Flow(<<s, b>>, painted, cursor, FALSE, lo) /\ Reach(<<s, b>>, painted, cursor, FALSE, lo, e)
    <3>1. b.kind # "close" /\ a <= FrameStart(b) /\ FrameEnd(b) = e
      BY <1>1
    <3>2. \A o \in lo..(e - 1) : o < a \/ o + 1 \in Shown(b.body)
      BY <1>1, <1>5
    <3> QED BY <1>1, <1>2, <2>1, <3>1, <3>2, FlowSecond
  <2>3. Flight' = <<s, b>>
    BY <1>9, AppendPair DEF Flight
  <2>4. /\ Flow(Flight', painted', cursor', latched', lo)
        /\ Reach(Flight', painted', cursor', latched', lo, e)
    BY <1>4, <2>2, <2>3
  <2>5. \A k \in 1..Len(Flight') : FrameEnd(Flight'[k]) <= e
    BY <1>0, <1>1, <2>3
  <2> QED BY <2>4, <2>5 DEF Flows, Reaches
<1> QED BY <1>8, <1>9 DEF b, s, l

(* A chunk of the replay.                                                  *)
LEMMA PaintsChunk ==
  ASSUME ShapeInv, HandshakeInv, ReplayChunk, NEW lo \in Int, Oldest <= lo, Paints(lo, h.cursor)
  PROVE  /\ Paints(lo, h.cursor)' /\ h'.cursor <= head /\ h'.pc = "replay" /\ h'.since = h.since
         /\ \A k \in 1..Len(Flight') : (\E j \in 1..Len(Flight) : Flight'[k] = Flight[j])
                                         \/ FrameEnd(Flight'[k]) <= head
<1> DEFINE r == Read(h.cursor)
           a == Greater(h.cursor, Oldest)
           e == r.next
           b == Bytes(r.body)
           s == Sync(a)
<1>1. /\ r.body # <<>> /\ h.pc = "replay" /\ out = <<>> /\ UNCHANGED <<wire, painted, cursor, latched>>
      /\ out' = (IF h.started THEN <<>> ELSE <<Sync(ChunkStart(r))>>) \o <<b>>
      /\ h' = [h EXCEPT !.pc = IF e <= h.cursor THEN "sync" ELSE "replay",
                        !.started = TRUE, !.end = e, !.first = FALSE,
                        !.streamed = @ + Len(r.body), !.cursor = e]
  BY DEF ReplayChunk, At, HandlerOnly, pageVars, StartSync
<1>2. RingOK /\ h \in HandlerStates /\ h.cursor \in Nat /\ Oldest \in Nat /\ head \in Nat
  BY RingFacts DEF ShapeInv, HandlerStates
<1>3. /\ IsRun(r.body) /\ Last(r.body) = e /\ r.body[1] = a + 1 /\ Shown(r.body) = (a + 1)..e
      /\ ChunkStart(r) = a /\ a \in Nat /\ e \in Nat /\ a < e /\ e <= head /\ h.cursor < e
  BY <1>1, <1>2, ReadFrame
<1>4. /\ b \in Frames /\ s \in Frames /\ FrameEnd(b) = e /\ FrameStart(b) = a /\ FrameEnd(s) = a
      /\ b.kind = "bytes" /\ b.body = r.body /\ s.kind = "sync"
  <2>1. b \in Frames /\ s \in Frames
    BY <1>3, MakeFrames
  <2>2. b.kind = "bytes" /\ b.body = r.body /\ s.kind = "sync" /\ s.off = a
    BY DEF Bytes, Sync, Frame
  <2> QED BY <1>3, <2>1, <2>2 DEF FrameEnd, FrameStart
<1>5. h'.cursor = e /\ h'.pc = "replay" /\ h'.since = h.since
  <2>1. ~(e <= h.cursor)
    BY <1>2, <1>3
  <2> QED BY <1>1, <1>2, <2>1 DEF HandlerStates
<1>6. h.cursor <= a /\ (a <= lo \/ a <= h.cursor)
  BY <1>2 DEF Greater
<1>7. \A o \in lo..(e - 1) : o < h.cursor \/ o + 1 \in (a + 1)..e
  BY <1>2, <1>3, <1>6
<1>8. CASE h.started
  <2>1. out' = <<b>>
    BY <1>1, <1>8
  <2>2. \A o \in lo..(e - 1) : o < h.cursor \/ o + 1 \in Shown(b.body)
    BY <1>3, <1>4, <1>7
  <2>3. Flows(lo) /\ Reaches(lo, h.cursor) /\ h.cursor \in Int /\ b.kind # "close" /\ h.cursor <= FrameStart(b)
    BY <1>2, <1>4, <1>6 DEF Paints
  <2> HIDE DEF r, a, e, b, s
  <2>4. /\ Flight' = Append(wire, b) /\ Flight = wire
        /\ Flows(lo)' /\ Reach(Flight', painted', cursor', latched', lo, e)
    <3>1. out = <<>> /\ UNCHANGED <<wire, painted, cursor, latched>> /\ b \in Frames /\ FrameEnd(b) = e
      BY <1>1, <1>4
    <3> QED BY <2>1, <2>2, <2>3, <3>1, PaintsFrame
  <2>5. Paints(lo, h.cursor)'
    <3>1. Reach(Flight', painted', cursor', latched', lo, h'.cursor)
      BY <1>5, <2>4
    <3> QED BY <2>4, <3>1 DEF Paints, Reaches
  <2>6. ASSUME NEW k \in 1..Len(Flight')
        PROVE  (\E j \in 1..Len(Flight) : Flight'[k] = Flight[j]) \/ FrameEnd(Flight'[k]) <= head
    <3>1. wire \in Seq(Frames)
      BY FlightFacts
    <3>2. Len(Flight') = Len(wire) + 1 /\ Len(wire) \in Nat /\ (\A j \in 1..Len(wire) : Flight'[j] = wire[j])
          /\ Flight'[Len(wire) + 1] = b
      BY <1>4, <2>4, <3>1, AppendProperties
    <3>3. k \in 1..Len(wire) \/ k = Len(wire) + 1
      BY <3>2
    <3> QED BY <1>3, <1>4, <2>4, <3>2, <3>3
  <2> QED BY <1>3, <1>5, <2>5, <2>6
<1>9. CASE ~h.started
  <2>1. wire = <<>> /\ ~latched
    BY <1>1, <1>9 DEF HandshakeInv
  <2>2. out' = <<s, b>>
    BY <1>1, <1>3, <1>9, ConcatPair
  <2>3. Covers(painted, lo, h.cursor)
    <3>1. Flight = <<>>
      BY <1>1, <2>1 DEF Flight
    <3> QED BY <3>1, FlowNone DEF Paints, Reaches
  <2>4. cursor \in Int /\ latched = FALSE
    BY <2>1, FlightFacts
  <2>6. \A o \in lo..(a - 1) : o < h.cursor \/ o + 1 \in Shown(s.body)
    <3> HIDE DEF a, s
    <3> QED BY <1>2, <1>3, <1>6
  <2>7. \A o \in lo..(e - 1) : o < a \/ o + 1 \in Shown(b.body)
    BY <1>3, <1>4
  <2> HIDE DEF r, a, e, b, s
  <2>8. Flow(<<s>>, painted, cursor, FALSE, lo) /\ Reach(<<s>>, painted, cursor, FALSE, lo, a)
    <3>1. h.cursor \in Int /\ s.kind # "close" /\ s.kind # "bytes"
      BY <1>2, <1>4
    <3> QED BY <1>4, <2>3, <2>4, <2>6, <3>1, FlowFirst
  <2>9. Flow(<<s, b>>, painted, cursor, FALSE, lo) /\ Reach(<<s, b>>, painted, cursor, FALSE, lo, e)
    <3>1. a \in Int /\ b.kind # "close" /\ a <= FrameStart(b)
      BY <1>3, <1>4
    <3> QED BY <1>4, <2>4, <2>7, <2>8, <3>1, FlowSecond
  <2>10. Flight' = <<s, b>>
    <3>1. wire' = <<>>
      BY <1>1, <2>1
    <3> QED BY <2>2, <3>1, ConcatPair DEF Flight
  <2>11. /\ Flow(Flight', painted', cursor', latched', lo)
         /\ Reach(Flight', painted', cursor', latched', lo, e)
    BY <1>1, <2>4, <2>9, <2>10
  <2>12. Paints(lo, h.cursor)'
    <3>1. Reach(Flight', painted', cursor', latched', lo, h'.cursor)
      BY <1>5, <2>11
    <3> QED BY <2>11, <3>1 DEF Paints, Flows, Reaches
  <2>13. \A k \in 1..Len(Flight') : FrameEnd(Flight'[k]) <= head
    <3>1. a <= head /\ e <= head
      BY <1>2, <1>3
    <3> QED BY <1>4, <2>10, <3>1
  <2> QED BY <1>3, <1>5, <2>12, <2>13
<1> QED BY <1>8, <1>9

(* The page takes a frame.                                                 *)
LEMMA PaintsReceive ==
  ASSUME ShapeInv, ConnInv, Receive, NEW lo \in Int, Flows(lo)
  PROVE  /\ Flows(lo)'
         /\ \A P \in Int : Reaches(lo, P) => Reaches(lo, P)'
         /\ Covers(painted, lo, cursor) => Covers(painted', lo, cursor')
         /\ latched' => Covers(painted', lo, cursor')
         /\ Flight # <<>> /\ Flight' = Tail(Flight)
         /\ cursor' <= cursor \/ cursor' <= FrameEnd(Flight[1])
         /\ logCursor' = logCursor \/ (logCursor' = cursor' /\ Covers(painted', lo, cursor')
                                        /\ cursor' = FrameEnd(Flight[1]))
<1> DEFINE f == Head(wire)
<1>1. /\ wire # <<>> /\ wire' = Tail(wire) /\ UNCHANGED <<h, out>> /\ up
      /\ cursor' = (CASE f.kind \in {"sync", "log"} -> f.off
                      [] f.kind = "bytes"          -> IF latched THEN cursor + Len(f.body) ELSE cursor
                      [] OTHER                     -> cursor)
      /\ logCursor' = IF f.kind = "log" THEN f.off ELSE logCursor
      /\ up' = (f.kind # "close")
      /\ latched' = (up' /\ (latched \/ f.kind = "sync"))
      /\ painted' = painted \cup Shown(f.body)
  BY DEF Receive, serverVars, Advanced
<1>2. /\ Flight \in Seq(Frames) /\ Flight # <<>> /\ Tail(wire) \o out = Tail(Flight) /\ Flight[1] = f
      /\ cursor \in Int /\ latched \in BOOLEAN /\ wire \in Seq(Frames) /\ out \in Seq(Frames)
  BY <1>1, FlightFacts, TakeOff DEF Flight
<1>3. Flight' = Tail(Flight)
  BY <1>1, <1>2 DEF Flight
<1>4. f.kind = "close" => Len(Flight) = 1
  <2>1. f = wire[1] /\ 1 \in 1..Len(wire)
    BY <1>1, <1>2
  <2>2. f.kind = "close" => Len(wire) = 1 /\ h.pc = "off"
    <3>1. \A k \in 1..Len(wire) : wire[k].kind = "close" => k = Len(wire) /\ h.pc = "off"
      BY DEF ConnInv
    <3> HIDE DEF f
    <3> QED BY <2>1, <3>1
  <2>3. f.kind = "close" => out = <<>>
    BY <2>2 DEF ConnInv
  <2> QED BY <2>2, <2>3, FlightFacts
<1>5. cursor' \in Int /\ latched' \in BOOLEAN
  <2>1. ShapeInv'
    BY PageShape DEF Page
  <2> QED BY <2>1 DEF ShapeInv, PageOK, Unknown, FollowLiveEnd
<1>6. latched' => f.kind # "close" /\ (latched \/ f.kind = "sync")
  BY <1>1
<1>7. /\ Flow(Tail(Flight), painted', cursor', latched', lo)
      /\ \A P \in Int : Reach(Flight, painted, cursor, latched, lo, P) => Reach(Tail(Flight), painted', cursor', latched', lo, P)
      /\ Covers(painted, lo, cursor) => Covers(painted', lo, cursor')
      /\ cursor' <= cursor \/ cursor' <= FrameEnd(Flight[1])
      /\ latched' => Covers(painted', lo, cursor')
  <2>1. Flow(Flight, painted, cursor, latched, lo)
    BY DEF Flows
  <2>2. /\ Flight[1].kind = "close" => Len(Flight) = 1
        /\ latched' => Flight[1].kind # "close" /\ (latched \/ Flight[1].kind = "sync")
        /\ Flight[1].kind \in {"sync", "log"} => cursor' = Flight[1].off
        /\ Flight[1].kind = "bytes" /\ latched => cursor' = cursor + Len(Flight[1].body)
        /\ Flight[1].kind = "close" \/ (Flight[1].kind = "bytes" /\ ~latched) => cursor' = cursor
        /\ painted' = painted \cup Shown(Flight[1].body)
    BY <1>1, <1>2, <1>4 DEF f
  <2>3. Taken(Flight, painted, cursor, latched, painted', cursor', latched')
    BY <2>2, Zenon DEF Taken
  <2>4. Flight \in Seq(Frames) /\ Flight # <<>> /\ cursor \in Int /\ latched \in BOOLEAN
    BY <1>2
  <2> QED BY <1>5, <2>1, <2>3, <2>4, FlowTail
<1> HIDE DEF f
<1>9. /\ Flow(Flight', painted', cursor', latched', lo)
      /\ \A P \in Int : Reach(Flight, painted, cursor, latched, lo, P) => Reach(Flight', painted', cursor', latched', lo, P)
  BY <1>3, <1>7
<1>10. f.kind = "log" => /\ logCursor' = cursor' /\ cursor' = FrameEnd(f)
                         /\ Covers(painted', lo, cursor')
  <2>1. f.kind = "log" => logCursor' = cursor' /\ cursor' = FrameEnd(f)
    BY <1>1 DEF FrameEnd
  <2>2. f.kind = "log" => Supplied(Flight, 1, painted, lo, FrameEnd(f))
    <3>1. 1 \in 1..Len(Flight)
      BY <1>2
    <3> QED BY <1>2, <3>1 DEF Flows, Flow
  <2>3. \A o : (\E j \in 1..1 : o + 1 \in Shown(Flight[j].body)) => o + 1 \in Shown(f.body)
    BY <1>2
  <2>4. f.kind = "log" => Covers(painted', lo, FrameEnd(f))
    BY <1>1, <2>2, <2>3 DEF Supplied, Covers
  <2> QED BY <2>1, <2>4
<1>11. logCursor' = logCursor \/ f.kind = "log"
  BY <1>1
<1> QED BY <1>2, <1>3, <1>7, <1>9, <1>10, <1>11 DEF Flows, Reaches

-----------------------------------------------------------------------------
(* ReplayInv.                                                              *)

(* The offset the handler goes on from.                                    *)
Reached == CASE h.pc \in {"hello", "log"}                -> h.since
             [] h.pc \in {"replay", "consult", "ticks"}  -> h.cursor
             [] h.pc \in {"sync", "subscribe"}           -> h.end
             [] OTHER                                    -> due - 1

(* A replay from a cursor is under way, from the oldest byte it can still  *)
(* give.                                                                   *)
Replaying == h.pc \in {"replay", "consult", "sync"} /\ h.since >= 0
ReplayLow == Greater(h.since, Oldest)

(* While a cursor's replay is under way, the frames and the screen supply  *)
(* everything since that cursor, and a latched page has what it has.       *)
ReplayOK ==
  Replaying => Paints(ReplayLow, Reached) /\ (latched => Covers(painted, ReplayLow, cursor))

(* The offsets are integers, in their order.                               *)
LEMMA HandlerInts ==
  ASSUME ShapeInv
  PROVE  /\ h.since \in Int /\ h.cursor \in Nat /\ h.end \in Nat /\ h.streamed \in Nat /\ h.started \in BOOLEAN
         /\ h.first \in BOOLEAN /\ due \in Nat /\ base \in Nat /\ Reached \in Int
         /\ Oldest \in Nat /\ head \in Nat /\ Oldest <= head /\ printed \in Nat /\ head <= printed
         /\ ReplayLow \in Int /\ Oldest <= ReplayLow /\ h.since <= ReplayLow
         /\ ReplayLow = h.since \/ ReplayLow = Oldest
<1>1. h \in HandlerStates /\ due \in Nat /\ base \in Nat /\ RingOK
  BY DEF ShapeInv, BaseOK
<1>2. /\ h.since \in Int /\ h.cursor \in Nat /\ h.end \in Nat /\ h.streamed \in Nat /\ h.started \in BOOLEAN
      /\ h.first \in BOOLEAN
  BY <1>1 DEF HandlerStates, Unknown, FollowLiveEnd
<1>3. Oldest \in Nat /\ head \in Nat /\ Oldest <= head /\ printed \in Nat /\ head <= printed
  BY <1>1, RingFacts
<1>4. Reached \in Int
  BY <1>1, <1>2 DEF Reached
<1>5. ReplayLow \in Int /\ Oldest <= ReplayLow /\ h.since <= ReplayLow /\ (ReplayLow = h.since \/ ReplayLow = Oldest)
  <2>1. h.since \in Int /\ Oldest \in Int
    BY <1>2, <1>3
  <2> QED BY <2>1 DEF ReplayLow, Greater
<1> QED BY <1>1, <1>2, <1>3, <1>4, <1>5

LEMMA ReplayStep ==
  ASSUME NEW lo, NEW P, Replaying' => ReplayLow' = lo /\ Reached' = P, Paints(lo, P)',
         latched' => Covers(painted', lo, cursor')
  PROVE  ReplayOK'
BY DEF ReplayOK, Paints, Flows, Reaches

(* Outside a replay there is nothing to show.                              *)
LEMMA NoReplay ==
  ASSUME ~Replaying'
  PROVE  ReplayOK'
BY DEF ReplayOK

(* Steps of the others, while the handler stays where it is.               *)
LEMMA IdleReplay ==
  ASSUME ShapeInv, ReplayOK, [StreamNext]_streamVars, UNCHANGED <<h, Flight, painted, cursor, latched>>
  PROVE  ReplayOK'
<1> SUFFICES ASSUME Replaying PROVE ReplayOK'
  <2>1. Replaying' = Replaying
    BY DEF Replaying
  <2> QED BY <2>1, NoReplay
<1>1. PICK lo \in Int, P \in Int, lo2 \in Int : lo = ReplayLow /\ P = Reached /\ lo2 = ReplayLow' /\ lo <= lo2
  <2>1. Oldest \in Int /\ Oldest' \in Int /\ Oldest <= Oldest' /\ h.since \in Int
    BY RingMoves, HandlerInts
  <2>2. ReplayLow' = Greater(h.since, Oldest')
    BY DEF ReplayLow
  <2>3. ReplayLow \in Int /\ ReplayLow' \in Int /\ ReplayLow <= ReplayLow'
    BY <2>1, <2>2 DEF ReplayLow, Greater
  <2> QED BY <2>3, HandlerInts
<1>2. Paints(lo, P) /\ (latched => Covers(painted, lo, cursor))
  BY <1>1 DEF ReplayOK
<1>3. Flows(lo2)' /\ Reaches(lo2, P)' /\ (latched => Covers(painted', lo2, cursor))
  BY <1>1, <1>2, PaintsGrow, FlightFacts DEF Paints
<1>4. Replaying' => Reached' = P
  BY <1>1 DEF Reached, Replaying
<1>5. Paints(lo2, P)'
  BY <1>3 DEF Paints
<1> QED BY <1>1, <1>3, <1>4, <1>5, ReplayStep

(* Each step of the handshake keeps the replay whole.                      *)
LEMMA StepsReplay ==
  ASSUME ShapeInv, ConnInv, HandshakeInv, ReplayOK, Handshake, ~Subscribe
  PROVE  ReplayOK'
<1>0. HandlerOnly /\ out = <<>> /\ h \in HandlerStates /\ RingOK /\ running \in BOOLEAN /\ ReadMax \in Nat /\ ReadMax >= 1
  <2>1. out = <<>>
    BY DEF Handshake, HandshakeFollow, HandshakeTail, HandshakeReplay, ReplayBudgetSpent, ReplayChunk, ReplayEmpty,
           ReplayConsult, SendSync, At
  <2> QED BY <2>1, HandlerPc, Constants DEF ShapeInv
<1>1. /\ UNCHANGED <<wire, painted, cursor, latched>> /\ Oldest' = Oldest
  BY <1>0 DEF HandlerOnly, pageVars, ringVars, Oldest
<1>2. PICK lo \in Int, P \in Int : lo = ReplayLow /\ P = Reached
  BY HandlerInts
<1>3. /\ h.since \in Int /\ h.cursor \in Nat /\ h.end \in Nat /\ Oldest \in Nat /\ head \in Nat
      /\ Oldest <= lo /\ h.since <= lo /\ h.started \in BOOLEAN
  BY <1>2, HandlerInts
<1>4. h'.since = h.since => ReplayLow' = lo
  BY <1>1, <1>2 DEF ReplayLow
<1>5. ASSUME out' = out PROVE Flight' = Flight
  BY <1>1, <1>5 DEF Flight
<1>6. ASSUME Replaying PROVE Paints(lo, P) /\ (latched => Covers(painted, lo, cursor))
  BY <1>2, <1>6 DEF ReplayOK
<1>7. CASE HandshakeFollow \/ HandshakeTail
  <2>1. h.since = FollowLiveEnd \/ h.since = Unknown
    BY <1>7 DEF HandshakeFollow, HandshakeTail
  <2>2. \E end : h' = [h EXCEPT !.pc = "sync", !.end = end]
    BY <1>7, Zenon DEF HandshakeFollow, HandshakeTail
  <2>3. h'.since = h.since
    BY <1>0, <2>2 DEF HandlerStates
  <2>4. ~Replaying'
    <3>1. h.since < 0
      BY <2>1 DEF Unknown, FollowLiveEnd
    <3> QED BY <1>3, <2>3, <3>1 DEF Replaying
  <2> QED BY <2>4, NoReplay
<1>8. CASE HandshakeReplay
  <2>1. h.pc = "hello" /\ h.since >= 0 /\ h' = [h EXCEPT !.pc = "replay", !.cursor = h.since] /\ out' = out
    BY <1>8 DEF HandshakeReplay, At
  <2>2. h'.pc = "replay" /\ h'.cursor = h.since /\ h'.since = h.since /\ wire = <<>> /\ ~latched
    BY <1>0, <2>1 DEF HandlerStates, ConnInv
  <2>3. PICK s \in Int : s = h.since
    BY <1>3
  <2>4. Covers(painted, lo, s)
    <3>1. lo..(s - 1) = {}
      BY <1>3, <2>3
    <3> QED BY <3>1 DEF Covers
  <2>5. Paints(lo, s)'
    BY <1>0, <1>1, <2>1, <2>2, <2>4, PaintsNone DEF Paints
  <2>6. Reached' = s
    BY <2>2, <2>3 DEF Reached
  <2> QED BY <1>1, <1>4, <2>2, <2>5, <2>6, ReplayStep
<1>9. CASE ReplayBudgetSpent
  <2>1. h.pc = "replay" /\ h.streamed >= ReplayBudget /\ h' = [h EXCEPT !.pc = "sync", !.end = h.end] /\ out' = out
    BY <1>9 DEF ReplayBudgetSpent, At, ReplayStops
  <2>2. h'.pc = "sync" /\ h'.since = h.since /\ h'.end = h.end
    BY <1>0, <2>1 DEF HandlerStates
  <2>3. h.streamed > 0
    BY <2>1, HandlerInts, Constants
  <2>4. h.since >= 0 /\ h.end = h.cursor
    BY <2>1, <2>3 DEF HandshakeInv
  <2>5. P = h.cursor /\ Replaying
    BY <1>2, <2>1, <2>4 DEF Reached, Replaying
  <2>6. Reached' = P
    BY <2>2, <2>4, <2>5 DEF Reached
  <2>7. Paints(lo, P)'
    BY <1>1, <1>5, <1>6, <2>1, <2>5, PaintsSame DEF Paints
  <2> QED BY <1>1, <1>4, <1>6, <2>2, <2>5, <2>6, <2>7, ReplayStep
<1>10. CASE ReplayChunk
  <2>1. h.pc = "replay"
    BY <1>10 DEF ReplayChunk, At
  <2>2. Replaying /\ P = h.cursor
    BY <1>2, <2>1 DEF HandshakeInv, Replaying, Reached
  <2>3. Paints(lo, h.cursor)' /\ h'.pc = "replay" /\ h'.since = h.since
    BY <1>3, <1>6, <1>10, <2>2, PaintsChunk
  <2>4. Reached' = h'.cursor
    BY <2>3 DEF Reached
  <2>5. Paints(lo, Reached)'
    BY <2>3, <2>4 DEF Paints, Reaches
  <2> QED BY <1>1, <1>4, <1>6, <2>2, <2>3, <2>5 DEF ReplayOK, Paints, Flows, Reaches
<1>11. CASE ReplayEmpty
  <2> DEFINE r == Read(h.cursor)
  <2>1. /\ h.pc = "replay" /\ r.body = <<>>
        /\ IF h.first THEN h' = [h EXCEPT !.pc = "consult"] ELSE ReplayStops(r.next)
        /\ out' = out
    BY <1>11 DEF ReplayEmpty, At
  <2>2. r.next \in Nat /\ h.cursor <= r.next /\ (r.next = h.cursor \/ r.next <= Oldest)
    BY <1>0, <1>3, <2>1, ReadGives
  <2> HIDE DEF r
  <2>3. Replaying /\ P = h.cursor
    BY <1>2, <2>1 DEF HandshakeInv, Replaying, Reached
  <2>4. CASE h.first
    <3>1. h'.pc = "consult" /\ h'.since = h.since /\ h'.cursor = h.cursor
      BY <1>0, <2>1, <2>4 DEF HandlerStates
    <3>2. Reached' = P
      BY <2>3, <3>1 DEF Reached
    <3>3. Paints(lo, P)'
      BY <1>1, <1>5, <1>6, <2>1, <2>3, PaintsSame DEF Paints
    <3> QED BY <1>1, <1>4, <1>6, <2>3, <3>1, <3>2, <3>3, ReplayStep
  <2>5. CASE ~h.first
    <3>1. h'.pc = "sync" /\ h'.since = h.since /\ h'.end = r.next
      BY <1>0, <2>1, <2>5 DEF HandlerStates, ReplayStops
    <3>2. PICK Q \in Int : Q = r.next
      BY <2>2
    <3>3. Reached' = Q
      BY <3>1, <3>2 DEF Reached
    <3>4. Reaches(lo, Q)
      <4>1. P <= Q /\ (Q <= P \/ Q <= lo)
        BY <1>3, <2>2, <2>3, <3>2
      <4>2. Reach(Flight, painted, cursor, latched, lo, P)
        BY <1>6, <2>3 DEF Paints, Reaches
      <4> QED BY <4>1, <4>2, FlightFacts, ReachOn DEF Reaches
    <3>5. Paints(lo, Q)'
      BY <1>1, <1>5, <1>6, <2>1, <2>3, <3>4, PaintsSame DEF Paints
    <3> QED BY <1>1, <1>4, <1>6, <2>3, <3>1, <3>3, <3>5, ReplayStep
  <2> QED BY <2>4, <2>5
<1>12. CASE ReplayConsult
  <2> DEFINE r == Newest(ReadMax)
             a == head - Lesser(ReadMax, used)
  <2>1. r.off \in Nat /\ r.off <= head
    BY <1>0, NewestGives
  <2>2. /\ h.pc = "consult"
        /\ \/ /\ h.cursor > r.off /\ ReplayStops(r.off)
              /\ out' = IF r.body = <<>> THEN <<>> ELSE <<Sync(r.off - Len(r.body)), Bytes(r.body)>>
           \/ h.cursor < r.off /\ h' = [h EXCEPT !.pc = "replay", !.first = FALSE] /\ out' = out
           \/ h.cursor = r.off /\ ReplayStops(r.off) /\ out' = out
    BY <1>12 DEF ReplayConsult, At, ReadAgain
  <2>3. /\ Replaying /\ P = h.cursor /\ h.cursor = h.since /\ wire = <<>> /\ ~latched
    BY <1>2, <2>2 DEF HandshakeInv, Replaying, Reached
  <2>4. PICK e \in Nat : e = r.off
    BY <2>1
  <2>5. CASE h.cursor > r.off
    <3>1. /\ ReplayStops(r.off)
          /\ out' = IF r.body = <<>> THEN <<>> ELSE <<Sync(r.off - Len(r.body)), Bytes(r.body)>>
      BY <1>3, <2>1, <2>2, <2>5
    <3>2. h'.pc = "sync" /\ h'.since = h.since /\ h'.end = e
      <4> HIDE DEF r
      <4> QED BY <1>0, <2>4, <3>1 DEF HandlerStates, ReplayStops
    <3>3. Reached' = e
      BY <3>2 DEF Reached
    <3>4. e < lo
      BY <1>3, <2>1, <2>3, <2>4, <2>5
    <3>5. CASE r.body = <<>>
      <4>1. Covers(painted, lo, e)
        <5>1. lo..(e - 1) = {}
          BY <3>4
        <5> QED BY <5>1 DEF Covers
      <4>2. Paints(lo, e)'
        BY <1>1, <2>3, <3>1, <3>5, <4>1, PaintsNone DEF Paints
      <4> QED BY <1>1, <1>4, <2>3, <3>2, <3>3, <4>2, ReplayStep
    <3>6. CASE r.body # <<>>
      <4>1. /\ IsRun(r.body) /\ Last(r.body) = e /\ r.body[1] = a + 1 /\ Shown(r.body) = (a + 1)..e
            /\ Len(r.body) = e - a /\ a \in Nat /\ a < e
        BY <1>0, <2>4, <3>6, NewestFrame
      <4>2. PICK b \in Nat : b = a
        BY <4>1
      <4>3. e - Len(r.body) = b
        <5> HIDE DEF a, r
        <5> QED BY <2>4, <4>1, <4>2
      <4>4. out' = <<Sync(b), Bytes(r.body)>>
        BY <2>4, <3>1, <3>6, <4>3
      <4>5. PICK body : body = r.body
        OBVIOUS
      <4>6. /\ IsRun(body) /\ body[1] = b + 1 /\ Last(body) = e /\ Shown(body) = (b + 1)..e
            /\ out' = <<Sync(b), Bytes(body)>> /\ b <= lo
        <5>1. b <= lo
          BY <3>4, <4>1, <4>2
        <5> HIDE DEF a, r
        <5> QED BY <4>1, <4>2, <4>4, <4>5, <5>1
      <4>7. Paints(lo, e)'
        <5> HIDE DEF a, r
        <5> QED BY <1>0, <1>1, <2>3, <4>6, PaintsTail DEF Paints
      <4> QED BY <1>1, <1>4, <2>3, <3>2, <3>3, <4>7, ReplayStep
    <3> QED BY <3>5, <3>6
  <2>6. CASE h.cursor < r.off
    <3>1. h' = [h EXCEPT !.pc = "replay", !.first = FALSE] /\ out' = out
      BY <1>3, <2>1, <2>2, <2>6
    <3>2. h'.pc = "replay" /\ h'.since = h.since /\ h'.cursor = h.cursor
      BY <1>0, <3>1 DEF HandlerStates
    <3>3. Reached' = P
      BY <2>3, <3>2 DEF Reached
    <3>4. Paints(lo, P)'
      BY <1>1, <1>5, <1>6, <2>3, <3>1, PaintsSame DEF Paints
    <3> QED BY <1>1, <1>4, <1>6, <2>3, <3>2, <3>3, <3>4, ReplayStep
  <2>7. CASE h.cursor = r.off
    <3>1. ReplayStops(r.off) /\ out' = out
      BY <1>3, <2>1, <2>2, <2>7
    <3>2. h'.pc = "sync" /\ h'.since = h.since /\ h'.end = e
      <4> HIDE DEF r
      <4> QED BY <1>0, <2>4, <3>1 DEF HandlerStates, ReplayStops
    <3>3. Reached' = P
      BY <2>3, <2>4, <2>7, <3>2 DEF Reached
    <3>4. Paints(lo, P)'
      BY <1>1, <1>5, <1>6, <2>3, <3>1, PaintsSame DEF Paints
    <3> QED BY <1>1, <1>4, <1>6, <2>3, <3>2, <3>3, <3>4, ReplayStep
  <2>8. h.cursor > r.off \/ h.cursor < r.off \/ h.cursor = r.off
    BY <1>3, <2>1
  <2> QED BY <2>5, <2>6, <2>7, <2>8
<1>13. CASE SendSync
  <2>1. h'.pc = "subscribe"
    BY <1>0, <1>13 DEF SendSync, HandlerStates
  <2> QED BY <2>1, NoReplay DEF Replaying
<1> QED BY <1>7, <1>8, <1>9, <1>10, <1>11, <1>12, <1>13 DEF Handshake

(* So does every other step: the pump, the page and the manager.           *)
LEMMA NextReplay ==
  ASSUME ShapeInv, ConnInv, HandshakeInv, ReplayOK, [StreamNext]_streamVars
  PROVE  ReplayOK'
<1>1. CASE UNCHANGED <<h, wire, out, painted, cursor, latched>>
  <2>1. Flight' = Flight
    BY <1>1 DEF Flight
  <2> QED BY <1>1, <2>1, IdleReplay
<1>2. CASE Pump \/ Unrun \/ DropBuffer \/ UNCHANGED streamVars
  BY <1>1, <1>2 DEF Pump, PumpRead, Broadcast, Drain, Unrun, DropBuffer, streamVars, serverVars, pageVars
<1>3. CASE Handshake /\ ~Subscribe
  BY <1>3, StepsReplay
<1>4. CASE LogStream
  <2>1. PICK next : h' = [Off EXCEPT !.pc = "ticks", !.cursor = next]
    BY <1>4 DEF LogStream, LogFollow, LogTail, LogSince, LogTick, LogSends
  <2> QED BY <2>1, NoReplay DEF Off, Replaying
<1>5. ASSUME NEW frames, Return(frames) PROVE ReplayOK'
  <2>1. h'.pc = "off"
    BY <1>5 DEF Return, Off
  <2> QED BY <2>1, NoReplay DEF Replaying
<1>6. CASE Subscribe
  <2>1. h'.pc = "live" \/ \E frames : Return(frames)
    BY <1>6 DEF Subscribe, Off
  <2> QED BY <1>5, <2>1, NoReplay DEF Replaying
<1>7. CASE LiveSend
  <2>1. h.pc = "live" /\ h' = h
    BY <1>7 DEF LiveSend, At
  <2> QED BY <2>1, NoReplay DEF Replaying
<1>8. CASE LiveClosed \/ Drop \/ Fallback \/ BackToSocket \/ \E load \in Loads : Refresh(load)
  BY <1>5, <1>8 DEF LiveClosed, Drop, Fallback, BackToSocket, Refresh, Closes
<1>9. CASE Connect \/ StartSSE
  <2>1. PICK s : \E to \in {"hello", "log"} : h' = [Off EXCEPT !.pc = to, !.since = s]
    BY <1>9 DEF Connect, StartSSE
  <2>2. h'.pc \in {"hello", "log"}
    BY <2>1 DEF Off
  <2> QED BY <2>2, NoReplay DEF Replaying
<1>10. CASE Receive
  <2>1. h' = h /\ Oldest' = Oldest
    BY <1>10 DEF Receive, serverVars, ringVars, Oldest
  <2>2. Replaying' = Replaying /\ ReplayLow' = ReplayLow
    BY <2>1 DEF Replaying, ReplayLow
  <2>3. Replaying => Reached' = Reached
    BY <2>1 DEF Reached, Replaying
  <2>4. CASE Replaying
    <3>1. PICK lo \in Int, P \in Int : lo = ReplayLow /\ P = Reached
      BY HandlerInts
    <3>2. Flows(lo) /\ Reaches(lo, P)
      BY <2>4, <3>1 DEF ReplayOK, Paints
    <3>3. Flows(lo)' /\ Reaches(lo, P)' /\ (latched' => Covers(painted', lo, cursor'))
      BY <1>10, <3>2, PaintsReceive
    <3>4. ReplayLow' = lo /\ Reached' = P /\ Paints(lo, P)'
      BY <2>2, <2>3, <2>4, <3>1, <3>3 DEF Paints
    <3> QED BY <3>3, <3>4, ReplayStep
  <2> QED BY <2>2, <2>4, NoReplay
<1>11. CASE WriteFrame
  <2>1. UNCHANGED <<h, painted, cursor, latched>>
    BY <1>11 DEF WriteFrame, pageVars
  <2> QED BY <1>11, <2>1, FlightSame, IdleReplay
<1> QED BY <1>2, <1>3, <1>4, <1>6, <1>7, <1>8, <1>9, <1>10, <1>11
     DEF StreamNext, Handler, Handshake, Page

(* The page never ahead of the replay.                                     *)
LEMMA ReplayHolds ==
  ASSUME ShapeInv, HandshakeInv, ReplayOK
  PROVE  ReplayInv
<1>1. StreamTypeOK /\ ReplayComplete
  BY ShapeIsType DEF HandshakeInv
<1>2. ReplayNeverAhead
  <2> SUFFICES ASSUME latched, h.pc \in {"replay", "consult", "sync"}
               PROVE  \A o \in Greater(h.since, Oldest)..(cursor - 1) : o + 1 \in painted
    BY DEF ReplayNeverAhead
  <2>1. h.since >= 0
    BY HandlerInts DEF HandshakeInv
  <2> QED BY <2>1 DEF ReplayOK, Replaying, ReplayLow, Covers
<1> QED BY <1>1, <1>2 DEF ReplayInv

(* The replay is whole in every state.                                     *)
LEMMA ReplayOKAlways == StreamSpec => []ReplayOK
<1>1. StreamInit => ReplayOK
  BY DEF StreamInit, ReplayOK, Replaying, Off
<1>2. ReplayOK /\ HandshakeInv /\ ConnInv /\ ShapeInv /\ [StreamNext]_streamVars => ReplayOK'
  BY NextReplay
<1> QED BY <1>1, <1>2, HandshakeAlways, ShapeAlways, PTL DEF StreamSpec

(* When the start sync of a reconnect is about to be published, every      *)
(* byte since the page's cursor that the buffer still holds has been       *)
(* sent, and while the replay runs the page's cursor is never ahead of     *)
(* its screen (the handshake in tty_handler.go).                           *)
THEOREM ReplayAlways == StreamSpec => []ReplayInv
<1>1. ShapeInv /\ HandshakeInv /\ ReplayOK => ReplayInv
  BY ReplayHolds
<1> QED BY <1>1, HandshakeAlways, ShapeAlways, ReplayOKAlways, PTL

-----------------------------------------------------------------------------
(* TruthOK: the page's cursor and its screen.                              *)

(* None of the races that lose output for good has happened.               *)
Harmless == races \subseteq {"overrun"}
BaseLow  == Greater(base, Oldest)

(* Without a harmful race, the screen has everything from where it starts  *)
(* up to either cursor, and with the frames on their way everything up to  *)
(* where the handler goes on: none of it beyond what was printed.          *)
TruthOK ==
  Harmless =>
    /\ cursor <= printed /\ logCursor <= printed
    /\ Covers(painted, BaseLow, cursor) /\ Covers(painted, BaseLow, logCursor)
    /\ Flows(BaseLow)
    /\ \A k \in 1..Len(Flight) : FrameEnd(Flight[k]) <= printed
    /\ h.pc # "off" => Reached <= printed /\ Reaches(BaseLow, Reached)

LEMMA BaseInts ==
  ASSUME ShapeInv
  PROVE  BaseLow \in Int /\ Oldest <= BaseLow /\ base <= BaseLow /\ (BaseLow = base \/ BaseLow = Oldest)
<1>1. base \in Int /\ Oldest \in Int
  BY HandlerInts
<1> QED BY <1>1 DEF BaseLow, Greater

(* More is painted.                                                        *)
LEMMA CoversUpTo ==
  ASSUME NEW S, NEW T, S \subseteq T, NEW lo \in Int, NEW e \in Int, Covers(S, lo, e)
  PROVE  Covers(T, lo, e)
BY DEF Covers

LEMMA CoversNone ==
  ASSUME NEW S, NEW lo \in Int, NEW e \in Int, e <= lo
  PROVE  Covers(S, lo, e)
<1>1. lo..(e - 1) = {}
  OBVIOUS
<1> QED BY <1>1 DEF Covers

LEMMA TruthStep ==
  ASSUME NEW lo, NEW P, BaseLow' = lo, h'.pc # "off" => Reached' = P /\ P <= printed' /\ Reaches(lo, P)',
         cursor' <= printed', logCursor' <= printed',
         Covers(painted', lo, cursor'), Covers(painted', lo, logCursor'),
         Flows(lo)', \A k \in 1..Len(Flight') : FrameEnd(Flight'[k]) <= printed'
  PROVE  TruthOK'
BY DEF TruthOK, Flows, Reaches

(* The buffer moves on.                                                    *)
LEMMA IdleTruth ==
  ASSUME ShapeInv, TruthOK, [StreamNext]_streamVars,
         UNCHANGED <<h, Flight, painted, cursor, logCursor, latched, due, base, races>>
  PROVE  TruthOK'
<1> SUFFICES ASSUME Harmless' PROVE TruthOK'
  BY DEF TruthOK
<1>0. Harmless
  BY DEF Harmless
<1>1. PICK lo \in Int, P \in Int, lo2 \in Int : lo = BaseLow /\ P = Reached /\ lo2 = BaseLow' /\ lo <= lo2
  <2>1. Oldest \in Int /\ Oldest' \in Int /\ Oldest <= Oldest' /\ base \in Int
    BY RingMoves, HandlerInts
  <2>2. BaseLow' = Greater(base, Oldest')
    BY DEF BaseLow
  <2>3. BaseLow \in Int /\ BaseLow' \in Int /\ BaseLow <= BaseLow'
    BY <2>1, <2>2 DEF BaseLow, Greater
  <2> QED BY <2>3, HandlerInts
<1>2. /\ Flows(lo) /\ Covers(painted, lo, cursor) /\ Covers(painted, lo, logCursor)
      /\ cursor <= printed /\ logCursor <= printed
      /\ \A k \in 1..Len(Flight) : FrameEnd(Flight[k]) <= printed
      /\ h.pc # "off" => P <= printed /\ Reaches(lo, P)
  BY <1>0, <1>1 DEF TruthOK
<1>3. /\ Flows(lo2)' /\ (h.pc # "off" => Reaches(lo2, P)')
      /\ Covers(painted', lo2, cursor) /\ Covers(painted', lo2, logCursor)
  BY <1>1, <1>2, PaintsGrow, FlightFacts
<1>4. Reached' = P
  BY <1>1 DEF Reached
<1>5. /\ printed \in Int /\ printed' \in Int /\ printed <= printed' /\ cursor \in Int /\ logCursor \in Int /\ P \in Int
      /\ \A k \in 1..Len(Flight) : FrameEnd(Flight[k]) \in Int
  BY <1>1, RingMoves, FlightFacts
<1>6. /\ cursor' <= printed' /\ logCursor' <= printed' /\ (h'.pc # "off" => P <= printed')
      /\ \A k \in 1..Len(Flight') : FrameEnd(Flight'[k]) <= printed'
  BY <1>2, <1>5
<1> QED BY <1>1, <1>3, <1>4, <1>6, TruthStep

(* The handler moves on, from a screen that may start later.               *)
LEMMA HandlerTruth ==
  ASSUME ShapeInv, TruthOK, Harmless, UNCHANGED <<printed, painted, cursor, logCursor, latched>>,
         NEW lo \in Int, BaseLow' = lo, BaseLow <= lo,
         NEW P, h'.pc # "off" => Reached' = P /\ P <= printed /\ Reaches(lo, P)',
         Flows(lo)', \A k \in 1..Len(Flight') : FrameEnd(Flight'[k]) <= printed
  PROVE  TruthOK'
<1>1. PICK lo1 \in Int : lo1 = BaseLow
  BY BaseInts
<1>2. Covers(painted, lo1, cursor) /\ Covers(painted, lo1, logCursor) /\ cursor <= printed /\ logCursor <= printed
  BY <1>1 DEF TruthOK
<1>3. cursor \in Int /\ logCursor \in Int /\ lo1 <= lo
  BY <1>1, FlightFacts
<1>4. Covers(painted, lo, cursor) /\ Covers(painted, lo, logCursor)
  BY <1>2, <1>3, CoversUp
<1> QED BY <1>2, <1>4, TruthStep

(* One more frame leaves the others where they are.                        *)
LEMMA FrameEnds ==
  ASSUME ShapeInv, NEW f \in Frames, NEW m \in Int, Flight' = Append(wire, f), Flight = wire,
         \A k \in 1..Len(Flight) : FrameEnd(Flight[k]) <= m, FrameEnd(f) <= m
  PROVE  \A k \in 1..Len(Flight') : FrameEnd(Flight'[k]) <= m
<1>1. wire \in Seq(Frames)
  BY FlightFacts
<1>2. Len(Flight') = Len(wire) + 1 /\ Len(wire) \in Nat /\ (\A k \in 1..Len(wire) : Flight'[k] = wire[k])
      /\ Flight'[Len(wire) + 1] = f
  BY <1>1, AppendProperties
<1> TAKE k \in 1..Len(Flight')
<1>3. k \in 1..Len(wire) \/ k = Len(wire) + 1
  BY <1>2
<1> QED BY <1>2, <1>3

(* The handler returns: at most a close frame is left of its connection.   *)
LEMMA ReturnTruth ==
  ASSUME ShapeInv, ConnInv, TruthOK, Harmless' => Harmless,
         UNCHANGED <<ringVars, printed, painted, cursor, logCursor, base>>,
         \/ Return(<<>>)
         \/ Return(Append(wire, CloseFrame)) /\ out = <<>> /\ latched' = latched
  PROVE  TruthOK'
<1> SUFFICES ASSUME Harmless' PROVE TruthOK'
  BY DEF TruthOK
<1>0. PICK lo \in Int : lo = BaseLow
  BY BaseInts
<1>1. BaseLow' = lo /\ h'.pc = "off" /\ out' = <<>>
  BY <1>0 DEF BaseLow, Oldest, ringVars, Return, Off
<1>2. /\ Flows(lo) /\ Covers(painted, lo, cursor) /\ Covers(painted, lo, logCursor)
      /\ cursor <= printed /\ logCursor <= printed
      /\ \A k \in 1..Len(Flight) : FrameEnd(Flight[k]) <= printed
  BY <1>0 DEF TruthOK
<1>3. CASE Return(<<>>)
  <2>1. Flight' = <<>>
    BY <1>3 DEF Flight, Return
  <2>2. Flow(Flight', painted', cursor', latched', lo)
    BY <2>1, FlowNone
  <2>3. \A k \in 1..Len(Flight') : FrameEnd(Flight'[k]) <= printed'
    BY <2>1
  <2> QED BY <1>1, <1>2, <2>2, <2>3, TruthStep DEF Flows
<1>4. CASE Return(Append(wire, CloseFrame)) /\ out = <<>> /\ latched' = latched
  <2>1. Flight = wire /\ wire \in Seq(Frames)
    BY <1>4, FlightFacts
  <2>2. Append(wire, CloseFrame) \in Seq(Frames) /\ Flow(Append(wire, CloseFrame), painted, cursor, latched, lo)
    BY <1>2, <2>1, FlowClose DEF Flows
  <2>3. Flight' = Append(wire, CloseFrame)
    <3>1. wire' = Append(wire, CloseFrame)
      BY <1>4 DEF Return
    <3> QED BY <1>1, <2>2, <3>1, ConcatEmpty DEF Flight
  <2>4. Flow(Flight', painted', cursor', latched', lo)
    BY <1>4, <2>2, <2>3
  <2>5. CloseFrame \in Frames /\ FrameEnd(CloseFrame) <= printed
    <3>1. FrameEnd(CloseFrame) = 0
      BY DEF CloseFrame, Frame, FrameEnd
    <3> QED BY <3>1, MakeFrames, HandlerInts
  <2>6. \A k \in 1..Len(Flight') : FrameEnd(Flight'[k]) <= printed
    BY <1>2, <2>1, <2>3, <2>5, FrameEnds, HandlerInts
  <2> QED BY <1>1, <1>2, <2>4, <2>6, TruthStep DEF Flows
<1> QED BY <1>3, <1>4

-----------------------------------------------------------------------------
(* TruthOK: a frame sent.                                                  *)

(* What a step of the handler starts from.                                 *)
LEMMA HandlerStart ==
  ASSUME ShapeInv, TruthOK, Harmless, h.pc # "off", NEW lo \in Int, NEW P \in Int, lo = BaseLow, P = Reached
  PROVE  /\ Flows(lo) /\ Reaches(lo, P) /\ Paints(lo, P) /\ P <= printed
         /\ \A k \in 1..Len(Flight) : FrameEnd(Flight[k]) <= printed
         /\ Oldest <= lo
BY BaseInts DEF TruthOK, Paints

(* Nothing is sent, and the handler goes on from P.                        *)
LEMMA QuietTruth ==
  ASSUME ShapeInv, TruthOK, Harmless, h.pc # "off", HandlerOnly, out' = out, base' = base,
         NEW lo \in Int, lo = BaseLow,
         NEW P \in Int, Reached' = P, P <= printed, Reaches(lo, P)
  PROVE  TruthOK'
<1>1. UNCHANGED <<wire, printed, painted, cursor, logCursor, latched>> /\ Oldest' = Oldest
  BY DEF HandlerOnly, pageVars, pumpVars, ringVars, Oldest
<1>2. Flight' = Flight /\ BaseLow' = lo
  BY <1>1 DEF Flight, BaseLow
<1>3. Flows(lo) /\ \A k \in 1..Len(Flight) : FrameEnd(Flight[k]) <= printed
  BY DEF TruthOK
<1>4. Flows(lo)' /\ Reaches(lo, P)'
  BY <1>1, <1>2, <1>3, PaintsSame
<1>5. \A k \in 1..Len(Flight') : FrameEnd(Flight'[k]) <= printed
  BY <1>2, <1>3
<1> QED BY <1>1, <1>2, <1>4, <1>5, HandlerTruth

(* A frame that ends at P2 is sent after what reaches P.                   *)
LEMMA SentTruth ==
  ASSUME ShapeInv, TruthOK, Harmless, h.pc # "off", out = <<>>,
         UNCHANGED <<ringVars, printed, wire, pageVars, base>>,
         NEW lo \in Int, lo = BaseLow, NEW P \in Int, Reaches(lo, P),
         NEW f \in Frames, out' = <<f>>, NEW P2 \in Int, FrameEnd(f) = P2, f.kind # "close",
         f.kind = "bytes" => P <= FrameStart(f),
         \A o \in lo..(P2 - 1) : o < P \/ o + 1 \in Shown(f.body),
         Reached' = P2, P2 <= printed
  PROVE  TruthOK'
<1>1. UNCHANGED <<wire, painted, cursor, logCursor, latched>> /\ BaseLow' = lo
  BY DEF pageVars, ringVars, Oldest, BaseLow
<1>2. Flows(lo) /\ \A k \in 1..Len(Flight) : FrameEnd(Flight[k]) <= printed
  BY DEF TruthOK
<1>3. /\ Flight' = Append(wire, f) /\ Flight = wire
      /\ Flows(lo)' /\ Reach(Flight', painted', cursor', latched', lo, P2)
  BY <1>1, <1>2, PaintsFrame
<1>4. \A k \in 1..Len(Flight') : FrameEnd(Flight'[k]) <= printed
  BY <1>2, <1>3, FrameEnds, HandlerInts
<1>5. Reaches(lo, P2)'
  BY <1>3 DEF Reaches
<1> QED BY <1>1, <1>3, <1>4, <1>5, HandlerTruth

(* A first answer from the end of the buffer, which restarts the screen.   *)
LEMMA TailTruth ==
  ASSUME ShapeInv, TruthOK, Harmless, wire = <<>>, out = <<>>, ~latched, HandlerOnly,
         base' = StartOf(Newest(ReadMax)), Reached' = Newest(ReadMax).off,
         LET r == Newest(ReadMax) IN
         \/ (r.body = <<>> /\ out' = <<>>)
         \/ r.body # <<>> /\ out' = <<Bytes(r.body)>>
         \/ r.body # <<>> /\ out' = <<Sync(r.off - Len(r.body)), Bytes(r.body)>>
         \/ out' = <<LogEvent(r.off, r.body)>>
  PROVE  TruthOK'
<1> DEFINE r == Newest(ReadMax)
           a == head - Lesser(ReadMax, used)
<1>1. UNCHANGED <<wire, printed, painted, cursor, logCursor, latched>> /\ Oldest' = Oldest
  BY DEF HandlerOnly, pageVars, pumpVars, ringVars, Oldest
<1>2. RingOK /\ running \in BOOLEAN /\ ReadMax \in Nat /\ ReadMax >= 1
  BY Constants DEF ShapeInv
<1>3. /\ r.off \in Nat /\ r.off <= head /\ (r.body = <<>> => r.off <= Oldest)
      /\ head <= printed /\ head \in Nat /\ printed \in Nat /\ Oldest \in Nat /\ base \in Nat
  BY <1>2, NewestGives, HandlerInts
<1>4. /\ StartOf(r) \in Nat /\ base <= StartOf(r)
      /\ r.body # <<>> => StartOf(r) = a
      /\ r.body = <<>> => StartOf(r) = base
  BY StartGives
<1>5. PICK lo \in Int : /\ lo = BaseLow' /\ BaseLow <= lo /\ Oldest <= lo
                        /\ (r.body # <<>> => a <= lo)
  <2>1. BaseLow' = Greater(StartOf(r), Oldest)
    BY <1>1 DEF BaseLow
  <2>2. Oldest \in Int /\ base \in Int /\ StartOf(r) \in Int /\ base <= StartOf(r)
    BY <1>3, <1>4
  <2> HIDE DEF r, a
  <2>3. BaseLow' \in Int /\ BaseLow <= BaseLow' /\ Oldest <= BaseLow' /\ StartOf(r) <= BaseLow'
    BY <2>1, <2>2 DEF BaseLow, Greater
  <2>4. r.body # <<>> => a <= BaseLow'
    BY <1>4, <2>3
  <2> QED BY <2>3, <2>4
<1>6. PICK e \in Nat : e = r.off /\ e <= printed
  BY <1>3
<1>7. CASE r.body # <<>>
  <2>1. /\ IsRun(r.body) /\ Last(r.body) = e /\ r.body[1] = a + 1 /\ Shown(r.body) = (a + 1)..e
        /\ Len(r.body) = e - a /\ a \in Nat
    BY <1>2, <1>6, <1>7, NewestFrame
  <2>2. PICK b \in Nat, body \in {r.body} : b = a /\ body = r.body
    BY <2>1
  <2> HIDE DEF a, r
  <2>3. e - Len(r.body) = b
    BY <1>6, <2>1, <2>2
  <2>4. \/ out' = <<Bytes(body)>>
        \/ out' = <<Sync(b), Bytes(body)>>
        \/ out' = <<LogEvent(e, body)>>
    BY <1>6, <1>7, <2>2, <2>3 DEF r
  <2>5. /\ IsRun(body) /\ Last(body) = e /\ body[1] = b + 1 /\ Shown(body) = (b + 1)..e /\ b <= lo
    BY <1>5, <1>7, <2>1, <2>2
  <2>6. /\ Flows(lo)' /\ Reaches(lo, e)'
        /\ \A k \in 1..Len(Flight') : FrameEnd(Flight'[k]) <= e
    BY <1>1, <2>4, <2>5, PaintsTail
  <2>7. \A k \in 1..Len(Flight') : FrameEnd(Flight'[k]) <= printed
    <3>2. \A k \in 1..Len(Flight') : FrameEnd(Flight'[k]) \in Int
      <4>1. Bytes(body) \in Frames /\ Sync(b) \in Frames /\ LogEvent(e, body) \in Frames
        BY <2>5, MakeFrames
      <4>2. FrameEnd(Bytes(body)) \in Nat /\ FrameEnd(Sync(b)) \in Nat /\ FrameEnd(LogEvent(e, body)) \in Nat
        BY <4>1, FrameFacts
      <4>3. Flight' = out'
        BY <1>1, <2>4 DEF Flight
      <4>4. \A k \in 1..Len(out') : FrameEnd(out'[k]) \in Nat
        <5>1. CASE out' = <<Bytes(body)>>
          BY <4>2, <5>1
        <5>2. CASE out' = <<Sync(b), Bytes(body)>>
          BY <4>2, <5>2
        <5>3. CASE out' = <<LogEvent(e, body)>>
          BY <4>2, <5>3
        <5> QED BY <2>4, <5>1, <5>2, <5>3
      <4> QED BY <4>3, <4>4
    <3> QED BY <1>3, <1>6, <2>6, <3>2
  <2> QED BY <1>1, <1>5, <1>6, <2>6, <2>7, HandlerTruth DEF r
<1>8. CASE r.body = <<>>
  <2>1. e <= lo
    BY <1>3, <1>5, <1>6, <1>8
  <2>2. Covers(painted, lo, e)
    BY <2>1, CoversNone
  <2>3. CASE out' = <<>>
    <3>1. Flight' = <<>> /\ Flows(lo)' /\ Reaches(lo, e)'
      BY <1>1, <2>2, <2>3, PaintsNone
    <3>2. \A k \in 1..Len(Flight') : FrameEnd(Flight'[k]) <= printed
      BY <3>1
    <3> QED BY <1>1, <1>5, <1>6, <3>1, <3>2, HandlerTruth
  <2>4. CASE out' = <<LogEvent(e, <<>>)>>
    <3>1. LogEvent(e, <<>>) \in Frames /\ FrameEnd(LogEvent(e, <<>>)) = e /\ LogEvent(e, <<>>).kind = "log"
      BY MakeFrames DEF LogEvent, Frame, FrameEnd
    <3>2. Flows(lo) /\ Reaches(lo, e)
      <4>1. Flight = <<>>
        BY DEF Flight
      <4> QED BY <2>2, <4>1, FlowNone DEF Flows, Reaches
    <3>3. /\ Flight' = Append(wire, LogEvent(e, <<>>)) /\ Flight = wire
          /\ Flows(lo)' /\ Reach(Flight', painted', cursor', latched', lo, e)
      <4>1. \A o \in lo..(e - 1) : o < e
        OBVIOUS
      <4> QED BY <1>1, <2>4, <3>1, <3>2, <4>1, PaintsFrame
    <3>4. \A k \in 1..Len(Flight') : FrameEnd(Flight'[k]) <= printed
      <4>1. \A k \in 1..Len(Flight) : FrameEnd(Flight[k]) <= printed
        BY DEF TruthOK
      <4> QED BY <1>3, <1>6, <3>1, <3>3, <4>1, FrameEnds
    <3>5. Reaches(lo, e)'
      BY <3>3 DEF Reaches
    <3> QED BY <1>1, <1>5, <1>6, <3>3, <3>4, <3>5, HandlerTruth
  <2> QED BY <1>6, <1>8, <2>3, <2>4
<1> QED BY <1>7, <1>8

-----------------------------------------------------------------------------
(* TruthOK: the handshake and the event stream.                            *)

(* A live end that is followed without having lost anything.               *)
Lost(e) == \E o \in Greater(base, Oldest)..(e - 1) : o + 1 \notin painted

(* A live end is followed without a race only if nothing was lost.         *)
LEMMA FollowTruth ==
  ASSUME NEW e, NEW lo, lo = BaseLow, Lost(e) => races' = races \cup {"strip"},
         ~Lost(e) => races' = races, Harmless'
  PROVE  Harmless /\ Covers(painted, lo, e)
<1>1. ~Lost(e)
  BY DEF Harmless
<1> QED BY <1>1 DEF Lost, BaseLow, Covers, Harmless

(* The handshake keeps the cursors truthful.                               *)
LEMMA StepsTruth ==
  ASSUME ShapeInv, ConnInv, HandshakeInv, TruthOK, Handshake, ~Subscribe
  PROVE  TruthOK'
<1> SUFFICES ASSUME Harmless' PROVE TruthOK'
  BY DEF TruthOK
<1>0. HandlerOnly /\ out = <<>> /\ h \in HandlerStates /\ RingOK /\ running \in BOOLEAN /\ ReadMax \in Nat /\ ReadMax >= 1
      /\ h.pc # "off"
  <2>1. out = <<>>
    BY DEF Handshake, HandshakeFollow, HandshakeTail, HandshakeReplay, ReplayBudgetSpent, ReplayChunk, ReplayEmpty,
           ReplayConsult, SendSync, At
  <2> QED BY <2>1, HandlerPc, Constants DEF ShapeInv
<1>1. UNCHANGED <<ringVars, printed, wire, pageVars, painted, cursor, logCursor, latched>> /\ Oldest' = Oldest
  BY <1>0 DEF HandlerOnly, pageVars, pumpVars, ringVars, Oldest
<1>2. PICK lo \in Int, P \in Int : lo = BaseLow /\ P = Reached
  BY HandlerInts, BaseInts
<1>3. /\ h.since \in Int /\ h.cursor \in Nat /\ h.end \in Nat /\ Oldest \in Nat /\ head \in Nat /\ head <= printed
      /\ printed \in Nat /\ Oldest <= lo /\ Oldest <= head
  BY <1>2, HandlerInts, BaseInts
<1>4. ASSUME Harmless PROVE Reaches(lo, P) /\ Paints(lo, P) /\ P <= printed
  BY <1>0, <1>2, <1>4, HandlerStart
<1>5. ASSUME races' = races PROVE Harmless
  BY <1>5 DEF Harmless
<1>6. ASSUME h.pc = "hello" PROVE wire = <<>> /\ out = <<>> /\ ~latched /\ Flight = <<>>
  <2>1. wire = <<>> /\ out = <<>> /\ ~latched
    BY <1>6 DEF ConnInv
  <2> QED BY <2>1 DEF Flight
<1>7. CASE HandshakeFollow
  <2>1. PICK e \in Nat : e = Newest(0).off /\ e <= printed
    <3>1. Newest(0).off \in Nat /\ Newest(0).off <= head
      BY <1>0, NewestGives
    <3> QED BY <1>3, <3>1
  <2>2. /\ h.pc = "hello" /\ h' = [h EXCEPT !.pc = "sync", !.end = e] /\ out' = out /\ base' = base
        /\ Lost(e) => races' = races \cup {"strip"}
        /\ ~Lost(e) => races' = races
    BY <1>7, <2>1 DEF HandshakeFollow, At, Saw, Lost
  <2>3. Harmless /\ Covers(painted, lo, e)
    BY <1>2, <2>1, <2>2, FollowTruth
  <2>4. Reaches(lo, e)
    BY <1>6, <2>2, <2>3, FlowNone DEF Reaches
  <2>5. Reached' = e
    <3>1. h'.pc = "sync" /\ h'.end = e
      BY <1>0, <2>2 DEF HandlerStates
    <3> QED BY <3>1 DEF Reached
  <2> QED BY <1>0, <1>2, <2>1, <2>2, <2>3, <2>4, <2>5, QuietTruth
<1>8. CASE HandshakeTail
  <2> DEFINE r == Newest(ReadMax)
  <2>1. /\ h.pc = "hello" /\ h' = [h EXCEPT !.pc = "sync", !.end = r.off] /\ out' = BytesOf(r.body)
        /\ base' = StartOf(r) /\ races' = races
    BY <1>8 DEF HandshakeTail, At
  <2>2. Reached' = r.off
    <3>1. h'.pc = "sync" /\ h'.end = r.off
      <4> HIDE DEF r
      <4> QED BY <1>0, <2>1 DEF HandlerStates
    <3> QED BY <3>1 DEF Reached
  <2>3. (r.body = <<>> /\ out' = <<>>) \/ (r.body # <<>> /\ out' = <<Bytes(r.body)>>)
    BY <2>1 DEF BytesOf
  <2> QED BY <1>0, <1>5, <1>6, <2>1, <2>2, <2>3, TailTruth
<1>9. CASE HandshakeReplay
  <2>1. h.pc = "hello" /\ h.since >= 0 /\ h' = [h EXCEPT !.pc = "replay", !.cursor = h.since]
        /\ UNCHANGED <<out, base, races>>
    BY <1>9 DEF HandshakeReplay, At
  <2>2. P = h.since
    BY <1>2, <2>1 DEF Reached
  <2>3. Reached' = P
    <3>1. h'.pc = "replay" /\ h'.cursor = h.since
      BY <1>0, <2>1 DEF HandlerStates
    <3> QED BY <2>2, <3>1 DEF Reached
  <2> QED BY <1>0, <1>2, <1>4, <1>5, <2>1, <2>3, QuietTruth
<1>10. CASE ReplayBudgetSpent
  <2>1. h.pc = "replay" /\ h.streamed >= ReplayBudget /\ h' = [h EXCEPT !.pc = "sync", !.end = h.end]
        /\ UNCHANGED <<out, base, races>>
    BY <1>10 DEF ReplayBudgetSpent, At, ReplayStops
  <2>2. h'.pc = "sync" /\ h'.end = h.end
    BY <1>0, <2>1 DEF HandlerStates
  <2>3. h.streamed > 0
    BY <2>1, HandlerInts, Constants
  <2>4. h.end = h.cursor
    BY <2>1, <2>3 DEF HandshakeInv
  <2>5. Reached' = P
    BY <1>2, <2>1, <2>2, <2>4 DEF Reached
  <2> QED BY <1>0, <1>2, <1>4, <1>5, <2>1, <2>5, QuietTruth
<1>11. CASE ReplayChunk
  <2>1. h.pc = "replay" /\ base' = base /\ Saw("overrun", h.started /\ ChunkStart(Read(h.cursor)) # h.cursor)
    BY <1>11 DEF ReplayChunk, At
  <2>2. Harmless
    BY <2>1 DEF Saw, Harmless
  <2>3. P = h.cursor
    BY <1>2, <2>1 DEF Reached
  <2>4. /\ Paints(lo, h.cursor)' /\ h'.cursor <= head /\ h'.pc = "replay"
        /\ \A k \in 1..Len(Flight') : (\E j \in 1..Len(Flight) : Flight'[k] = Flight[j])
                                         \/ FrameEnd(Flight'[k]) <= head
    BY <1>3, <1>4, <1>11, <2>2, <2>3, PaintsChunk
  <2>5. \A k \in 1..Len(Flight) : FrameEnd(Flight[k]) <= printed
    BY <2>2 DEF TruthOK
  <2>6. \A k \in 1..Len(Flight') : FrameEnd(Flight'[k]) <= printed
    <3> TAKE k \in 1..Len(Flight')
    <3>1. CASE \E j \in 1..Len(Flight) : Flight'[k] = Flight[j]
      BY <2>5, <3>1
    <3>2. CASE FrameEnd(Flight'[k]) <= head /\ ~\E j \in 1..Len(Flight) : Flight'[k] = Flight[j]
      <4>1. FrameEnd(Flight'[k]) \in Nat
        <5>1. ShapeInv'
          BY HandshakeShape
        <5>2. wire' \in Seq(Frames) /\ out' \in Seq(Frames)
          BY <5>1 DEF ShapeInv, FramesOK
        <5>3. Flight' \in Seq(Frames)
          BY <5>2, ConcatProperties DEF Flight
        <5>4. Flight'[k] \in Frames
          BY <5>3
        <5> QED BY <5>4, FrameFacts
      <4> QED BY <1>3, <3>2, <4>1
    <3> QED BY <2>4, <3>1, <3>2
  <2>7. PICK Q \in Int : Q = h'.cursor /\ Q <= printed
    <3>1. h' \in HandlerStates
      BY HandshakeShape DEF ShapeInv
    <3>2. h'.cursor \in Nat
      BY <3>1 DEF HandlerStates
    <3> QED BY <1>3, <2>4, <3>2
  <2>8. Reached' = Q
    BY <2>4, <2>7 DEF Reached
  <2>9. Flows(lo)' /\ Reaches(lo, Q)'
    BY <2>4, <2>7 DEF Paints, Reaches
  <2>10. BaseLow' = lo
    BY <1>1, <1>2, <2>1 DEF BaseLow
  <2> QED BY <1>1, <1>2, <2>2, <2>6, <2>7, <2>8, <2>9, <2>10, HandlerTruth
<1>12. CASE ReplayEmpty
  <2> DEFINE r == Read(h.cursor)
  <2>1. /\ h.pc = "replay" /\ r.body = <<>>
        /\ IF h.first THEN h' = [h EXCEPT !.pc = "consult"] ELSE ReplayStops(r.next)
        /\ UNCHANGED <<out, base, races>>
    BY <1>12 DEF ReplayEmpty, At
  <2>2. r.next \in Nat /\ h.cursor <= r.next /\ (r.next = h.cursor \/ (r.next = head /\ r.next <= Oldest))
    BY <1>0, <1>3, <2>1, ReadGives
  <2> HIDE DEF r
  <2>3. P = h.cursor
    BY <1>2, <2>1 DEF Reached
  <2>4. CASE h.first
    <3>1. h'.pc = "consult" /\ h'.cursor = h.cursor
      BY <1>0, <2>1, <2>4 DEF HandlerStates
    <3>2. Reached' = P
      BY <2>3, <3>1 DEF Reached
    <3> QED BY <1>0, <1>2, <1>4, <1>5, <2>1, <3>2, QuietTruth
  <2>5. CASE ~h.first
    <3>1. h'.pc = "sync" /\ h'.end = r.next
      BY <1>0, <2>1, <2>5 DEF HandlerStates, ReplayStops
    <3>2. PICK Q \in Int : Q = r.next
      BY <2>2
    <3>3. Reached' = Q
      BY <3>1, <3>2 DEF Reached
    <3>4. Reaches(lo, Q)
      <4>1. P <= Q /\ (Q <= P \/ Q <= lo)
        BY <1>3, <2>2, <2>3, <3>2
      <4>2. Reach(Flight, painted, cursor, latched, lo, P)
        BY <1>4, <1>5, <2>1 DEF Paints, Reaches
      <4> QED BY <4>1, <4>2, FlightFacts, ReachOn DEF Reaches
    <3>5. Q <= printed
      <4>1. P <= printed
        BY <1>4, <1>5, <2>1
      <4> QED BY <1>3, <2>2, <2>3, <3>2, <4>1
    <3> QED BY <1>0, <1>2, <1>5, <2>1, <3>3, <3>4, <3>5, QuietTruth
  <2> QED BY <2>4, <2>5
<1>13. CASE ReplayConsult
  <2> DEFINE r == Newest(ReadMax)
  <2>1. r.off \in Nat /\ r.off <= head
    BY <1>0, NewestGives
  <2>2. /\ h.pc = "consult" /\ races' = races
        /\ \/ /\ h.cursor > r.off /\ ReplayStops(r.off) /\ base' = StartOf(r)
              /\ out' = IF r.body = <<>> THEN <<>> ELSE <<Sync(r.off - Len(r.body)), Bytes(r.body)>>
           \/ h.cursor < r.off /\ h' = [h EXCEPT !.pc = "replay", !.first = FALSE] /\ out' = out /\ base' = base
           \/ h.cursor = r.off /\ ReplayStops(r.off) /\ out' = out /\ base' = base
    BY <1>13 DEF ReplayConsult, At, ReadAgain
  <2>3. P = h.cursor /\ wire = <<>> /\ ~latched
    BY <1>2, <2>2 DEF HandshakeInv, Reached
  <2>4. CASE h.cursor > r.off /\ ReplayStops(r.off) /\ base' = StartOf(r)
             /\ out' = IF r.body = <<>> THEN <<>> ELSE <<Sync(r.off - Len(r.body)), Bytes(r.body)>>
    <3>1. Reached' = r.off
      <4>1. h'.pc = "sync" /\ h'.end = r.off
        <5> HIDE DEF r
        <5> QED BY <1>0, <2>4 DEF HandlerStates, ReplayStops
      <4> QED BY <4>1 DEF Reached
    <3>2. (r.body = <<>> /\ out' = <<>>)
          \/ (r.body # <<>> /\ out' = <<Sync(r.off - Len(r.body)), Bytes(r.body)>>)
      BY <2>4
    <3> QED BY <1>0, <1>5, <2>2, <2>3, <2>4, <3>1, <3>2, TailTruth
  <2>5. CASE h.cursor < r.off /\ h' = [h EXCEPT !.pc = "replay", !.first = FALSE] /\ out' = out /\ base' = base
    <3>1. h'.pc = "replay" /\ h'.cursor = h.cursor
      BY <1>0, <2>5 DEF HandlerStates
    <3>2. Reached' = P
      BY <2>3, <3>1 DEF Reached
    <3> QED BY <1>0, <1>2, <1>4, <1>5, <2>2, <2>5, <3>2, QuietTruth
  <2>6. CASE h.cursor = r.off /\ ReplayStops(r.off) /\ out' = out /\ base' = base
    <3>1. h'.pc = "sync" /\ h'.end = h.cursor
      <4> HIDE DEF r
      <4> QED BY <1>0, <2>6 DEF HandlerStates, ReplayStops
    <3>2. Reached' = P
      BY <2>3, <3>1 DEF Reached
    <3> QED BY <1>0, <1>2, <1>4, <1>5, <2>2, <2>6, <3>2, QuietTruth
  <2> QED BY <2>2, <2>4, <2>5, <2>6
<1>14. CASE SendSync
  <2>1. PICK e \in Nat : e = h.end
    BY <1>3
  <2>2. h.pc = "sync" /\ out' = <<Sync(e)>> /\ h' = [h EXCEPT !.pc = "subscribe"] /\ UNCHANGED <<base, races>>
    BY <1>14, <2>1 DEF SendSync, At
  <2>3. P = e
    BY <1>2, <2>1, <2>2 DEF Reached
  <2>4. Reached' = e
    <3>1. h'.pc = "subscribe" /\ h'.end = e
      BY <1>0, <2>1, <2>2 DEF HandlerStates
    <3> QED BY <3>1 DEF Reached
  <2>5. Sync(e) \in Frames /\ FrameEnd(Sync(e)) = e /\ Sync(e).kind = "sync"
    BY MakeFrames DEF Sync, Frame, FrameEnd
  <2>6. \A o \in lo..(e - 1) : o < P
    BY <2>3
  <2>7. Harmless /\ Reaches(lo, P) /\ P <= printed
    BY <1>4, <1>5, <2>2
  <2> HIDE DEF Sync
  <2> QED BY <1>0, <1>1, <1>2, <2>2, <2>3, <2>4, <2>5, <2>6, <2>7, SentTruth
<1> QED BY <1>7, <1>8, <1>9, <1>10, <1>11, <1>12, <1>13, <1>14 DEF Handshake

(* So does the event stream.                                               *)
LEMMA LogTruth ==
  ASSUME ShapeInv, ConnInv, TruthOK, LogStream
  PROVE  TruthOK'
<1> SUFFICES ASSUME Harmless' PROVE TruthOK'
  BY DEF TruthOK
<1>0. HandlerOnly /\ out = <<>> /\ h \in HandlerStates /\ RingOK /\ running \in BOOLEAN /\ ReadMax \in Nat /\ ReadMax >= 1
      /\ h.pc # "off"
  <2>1. out = <<>>
    BY DEF LogStream, LogFollow, LogTail, LogSince, LogTick, At
  <2> QED BY <2>1, HandlerPc, Constants DEF ShapeInv
<1>1. UNCHANGED <<ringVars, printed, wire, pageVars, painted, cursor, logCursor, latched>> /\ Oldest' = Oldest
  BY <1>0 DEF HandlerOnly, pageVars, pumpVars, ringVars, Oldest
<1>2. PICK lo \in Int, P \in Int : lo = BaseLow /\ P = Reached
  BY HandlerInts, BaseInts
<1>3. /\ h.since \in Int /\ h.cursor \in Nat /\ Oldest \in Nat /\ head \in Nat /\ head <= printed
      /\ printed \in Nat /\ Oldest <= lo
  BY <1>2, HandlerInts, BaseInts
<1>4. ASSUME Harmless PROVE Reaches(lo, P) /\ P <= printed
  BY <1>0, <1>2, <1>4, HandlerStart
<1>5. ASSUME races' = races PROVE Harmless
  BY <1>5 DEF Harmless
<1>6. ASSUME h.pc = "log" PROVE wire = <<>> /\ ~latched /\ Flight = <<>>
  <2>1. wire = <<>> /\ out = <<>> /\ ~latched
    BY <1>6 DEF ConnInv
  <2> QED BY <2>1 DEF Flight
<1>7. ASSUME NEW next, NEW body, LogSends(next, body)
      PROVE  out' = <<LogEvent(next, body)>> /\ Reached' = next
  <2>1. h'.pc = "ticks" /\ h'.cursor = next
    BY <1>7 DEF LogSends, Off
  <2> QED BY <1>7, <2>1 DEF LogSends, Reached
<1>8. CASE LogFollow
  <2>1. PICK e \in Nat : e = Newest(0).off /\ e <= printed
    <3>1. Newest(0).off \in Nat /\ Newest(0).off <= head
      BY <1>0, NewestGives
    <3> QED BY <1>3, <3>1
  <2>2. /\ h.pc = "log" /\ LogSends(e, <<>>) /\ base' = base
        /\ Lost(e) => races' = races \cup {"strip"}
        /\ ~Lost(e) => races' = races
    BY <1>8, <2>1 DEF LogFollow, At, Saw, Lost
  <2>3. Harmless /\ Covers(painted, lo, e)
    BY <1>2, <2>1, <2>2, FollowTruth
  <2>4. Reaches(lo, e)
    BY <1>6, <2>2, <2>3, FlowNone DEF Reaches
  <2>5. out' = <<LogEvent(e, <<>>)>> /\ Reached' = e
    BY <1>7, <2>2
  <2>6. LogEvent(e, <<>>) \in Frames /\ FrameEnd(LogEvent(e, <<>>)) = e /\ LogEvent(e, <<>>).kind = "log"
    BY MakeFrames DEF LogEvent, Frame, FrameEnd
  <2>7. \A o \in lo..(e - 1) : o < e
    OBVIOUS
  <2> HIDE DEF LogEvent
  <2> QED BY <1>0, <1>1, <1>2, <2>1, <2>2, <2>3, <2>4, <2>5, <2>6, <2>7, SentTruth
<1>9. CASE LogTail
  <2>1. h.pc = "log" /\ LogSends(Newest(ReadMax).off, Newest(ReadMax).body) /\ base' = StartOf(Newest(ReadMax))
        /\ races' = races
    BY <1>9 DEF LogTail, At
  <2>2. /\ out' = <<LogEvent(Newest(ReadMax).off, Newest(ReadMax).body)>>
        /\ Reached' = Newest(ReadMax).off
    BY <1>7, <2>1
  <2> QED BY <1>0, <1>5, <1>6, <2>1, <2>2, TailTruth
<1>10. CASE LogSince \/ LogTick
  <2>1. PICK c \in Nat : /\ P = c /\ LogSends(Read(c).next, Read(c).body) /\ base' = base
                         /\ races' = races \/ Saw("overrun", ChunkStart(Read(c)) # c)
    <3>1. CASE LogSince
      <4>1. h.pc = "log" /\ h.since \in Nat
        BY <1>3, <3>1 DEF LogSince, At
      <4>2. P = h.since
        BY <1>2, <4>1 DEF Reached
      <4> QED BY <3>1, <4>1, <4>2 DEF LogSince
    <3>2. CASE LogTick
      <4>1. h.pc = "ticks" /\ P = h.cursor
        BY <1>2, <3>2 DEF LogTick, At, Reached
      <4> QED BY <1>3, <3>2, <4>1 DEF LogTick
    <3> QED BY <1>10, <3>1, <3>2
  <2> DEFINE r == Read(c)
             a == Greater(c, Oldest)
  <2>2. Harmless
    BY <1>5, <2>1 DEF Saw, Harmless
  <2>3. Reaches(lo, P) /\ P <= printed
    BY <1>4, <2>2
  <2>4. /\ r.next \in Nat /\ c <= r.next
        /\ \/ r.body = <<>> /\ (r.next = c \/ (r.next = head /\ r.next <= Oldest))
           \/ r.body # <<>> /\ r.next <= head
    BY <1>0, ReadGives
  <2>5. PICK e \in Nat, body \in {r.body} : e = r.next /\ body = r.body
    BY <2>4
  <2>6. out' = <<LogEvent(e, body)>> /\ Reached' = e
    BY <1>7, <2>1, <2>5
  <2>7. e <= printed
    BY <1>3, <2>1, <2>3, <2>4, <2>5
  <2>8. LogEvent(e, body) \in Frames /\ \A o \in lo..(e - 1) : o < P \/ o + 1 \in Shown(body)
    <3>1. CASE body = <<>>
      <4>1. LogEvent(e, body) \in Frames
        BY <3>1, MakeFrames
      <4>2. e <= P \/ e <= lo
        <5> HIDE DEF r
        <5> QED BY <1>3, <2>1, <2>4, <2>5, <3>1
      <4>3. \A o \in lo..(e - 1) : o < P
        BY <2>1, <4>2
      <4> QED BY <4>1, <4>3
    <3>2. CASE body # <<>>
      <4>1. IsRun(body) /\ Last(body) = e /\ Shown(body) = (a + 1)..e /\ a \in Nat
        BY <1>0, <2>5, <3>2, ReadFrame
      <4>2. LogEvent(e, body) \in Frames
        BY <4>1, MakeFrames
      <4>3. \A o \in lo..(e - 1) : o < P \/ o >= a
        BY <1>3, <2>1 DEF Greater
      <4>4. \A o \in lo..(e - 1) : o < P \/ o + 1 \in (a + 1)..e
        <5> HIDE DEF a
        <5> QED BY <4>1, <4>3
      <4> QED BY <4>1, <4>2, <4>4
    <3> QED BY <3>1, <3>2
  <2>9. FrameEnd(LogEvent(e, body)) = e /\ LogEvent(e, body).kind = "log" /\ LogEvent(e, body).body = body
    BY DEF LogEvent, Frame, FrameEnd
  <2> HIDE DEF r, a, LogEvent
  <2> QED BY <1>0, <1>1, <1>2, <2>1, <2>2, <2>3, <2>6, <2>7, <2>8, <2>9, SentTruth
<1> QED BY <1>8, <1>9, <1>10 DEF LogStream

-----------------------------------------------------------------------------
(* CursorTruthful.                                                         *)

(* So does the subscription, at the sequence number it starts from.        *)
LEMMA SubscribeTruth ==
  ASSUME ShapeInv, ConnInv, TruthOK, Subscribe
  PROVE  TruthOK'
<1>0. /\ h.pc = "subscribe" /\ out = <<>> /\ UNCHANGED <<ringVars, printed, chunk, pageVars, base>>
      /\ h \in HandlerStates
  BY DEF Subscribe, At, ShapeInv
<1>1. UNCHANGED <<printed, painted, cursor, logCursor, latched>> /\ BaseLow' = BaseLow
  BY <1>0 DEF pageVars, ringVars, BaseLow, Oldest
<1>2. CASE running
  <2> SUFFICES ASSUME Harmless' PROVE TruthOK'
    BY DEF TruthOK
  <2>1. /\ h' = [Off EXCEPT !.pc = "live"] /\ due' = Announced + 1 /\ UNCHANGED <<out, wire>>
        /\ h.end # Announced => \E race \in Races \ {"overrun"} : race \in races'
        /\ races' = races \/ \E race : races' = races \cup {race}
    <3>1. /\ h' = [Off EXCEPT !.pc = "live"] /\ due' = Announced + 1 /\ UNCHANGED <<out, wire>>
          /\ Saw(CASE h.end > Announced    -> "ahead"
                   [] due = Announced + 1  -> "budget"
                   [] OTHER                -> "window", h.end # Announced)
      BY <1>2 DEF Subscribe
    <3>2. PICK race : /\ race = (CASE h.end > Announced    -> "ahead"
                                   [] due = Announced + 1  -> "budget"
                                   [] OTHER                -> "window")
                      /\ Saw(race, h.end # Announced)
      BY <3>1
    <3>3. race \in Races \ {"overrun"}
      BY <3>2 DEF Races
    <3> QED BY <3>1, <3>2, <3>3 DEF Saw
  <2>2. h.end = Announced /\ Harmless
    BY <2>1 DEF Harmless
  <2>3. PICK lo \in Int, P \in Int : lo = BaseLow /\ P = Reached
    BY HandlerInts, BaseInts
  <2>4. P = h.end
    BY <1>0, <2>3 DEF Reached
  <2>5. Reached' = P
    <3>1. h'.pc = "live"
      BY <2>1 DEF Off
    <3>2. Announced \in Int
      BY ChunkRun
    <3> QED BY <2>1, <2>2, <2>4, <3>1, <3>2 DEF Reached
  <2>6. Flows(lo) /\ Reaches(lo, P) /\ P <= printed /\ \A k \in 1..Len(Flight) : FrameEnd(Flight[k]) <= printed
    BY <1>0, <2>2, <2>3, HandlerStart
  <2>7. Flight' = Flight
    BY <2>1 DEF Flight
  <2>8. Flows(lo)' /\ Reaches(lo, P)'
    BY <1>1, <2>6, <2>7, PaintsSame
  <2>9. \A k \in 1..Len(Flight') : FrameEnd(Flight'[k]) <= printed
    BY <2>6, <2>7
  <2> QED BY <1>1, <2>2, <2>3, <2>5, <2>6, <2>8, <2>9, HandlerTruth
<1>3. CASE ~running
  <2>1. Return(Append(wire, CloseFrame)) /\ races' = races
    BY <1>3 DEF Subscribe
  <2> QED BY <1>0, <1>1, <2>1, ReturnTruth DEF Harmless
<1> QED BY <1>2, <1>3

(* So does a live chunk.                                                   *)
LEMMA LiveTruth ==
  ASSUME ShapeInv, ConnInv, TruthOK, LiveSend
  PROVE  TruthOK'
<1> SUFFICES ASSUME Harmless' PROVE TruthOK'
  BY DEF TruthOK
<1> DEFINE q == sub.queue
<1>1. /\ h.pc = "live" /\ out = <<>> /\ q # <<>> /\ h' = h
      /\ out' = <<Bytes(Head(q))>> /\ due' = Last(Head(q)) + 1
      /\ races' = (IF Head(Head(q)) # due THEN races \cup {"skip"} ELSE races)
      /\ UNCHANGED <<ringVars, printed, wire, pageVars, base>>
  BY DEF LiveSend, At, Saw, pumpVars
<1>2. Harmless /\ Head(Head(q)) = due
  BY <1>1 DEF Harmless
<1>3. q \in Seq(Seq(Byte)) /\ \A k \in 1..Len(q) : IsRun(q[k]) /\ Last(q[k]) <= printed
  BY DEF ShapeInv, SubOK
<1> HIDE DEF q
<1>4. PICK body : body = Head(q) /\ IsRun(body) /\ Last(body) <= printed
  <2>1. 1 \in 1..Len(q) /\ Head(q) = q[1]
    BY <1>1, <1>3
  <2> QED BY <1>3, <2>1
<1>5. Head(body) = body[1] /\ body[1] \in Nat /\ Last(body) = body[1] + Len(body) - 1 /\ Shown(body) = body[1]..Last(body)
      /\ Len(body) \in Nat \ {0}
  BY <1>4, IsRunFacts
<1>6. PICK e \in Int, P \in Int, lo \in Int :
        e = Last(body) /\ P = due - 1 /\ lo = BaseLow /\ P = body[1] - 1 /\ e <= printed
  <2>1. due \in Nat /\ BaseLow \in Int
    BY HandlerInts, BaseInts
  <2>2. Last(body) \in Int /\ due = body[1]
    BY <1>2, <1>4, <1>5
  <2> QED BY <1>4, <2>1, <2>2
<1>7. Reached = P /\ Reached' = e
  BY <1>1, <1>4, <1>5, <1>6 DEF Reached
<1>8. Reaches(lo, P)
  BY <1>1, <1>2, <1>6, <1>7, HandlerStart
<1>9. /\ Bytes(body) \in Frames /\ FrameEnd(Bytes(body)) = e /\ FrameStart(Bytes(body)) = P
      /\ Bytes(body).kind = "bytes" /\ Bytes(body).body = body
  <2>1. Bytes(body).kind = "bytes" /\ Bytes(body).body = body
    BY DEF Bytes, Frame
  <2> QED BY <1>4, <1>6, <2>1, MakeFrames DEF FrameEnd, FrameStart
<1>10. \A o \in lo..(e - 1) : o < P \/ o + 1 \in Shown(body)
  BY <1>5, <1>6
<1>11. out' = <<Bytes(body)>>
  BY <1>1, <1>4
<1>12. PICK f \in Frames : /\ out' = <<f>> /\ FrameEnd(f) = e /\ f.kind # "close" /\ f.body = body
                           /\ f.kind = "bytes" => P <= FrameStart(f)
  BY <1>6, <1>9, <1>11
<1>13. h.pc # "off" /\ UNCHANGED <<ringVars, printed, wire, pageVars, base>> /\ out = <<>>
  BY <1>1
<1>14. Harmless
  BY <1>2
<1>15. e <= printed /\ lo = BaseLow
  BY <1>6
<1>16. \A o \in lo..(e - 1) : o < P \/ o + 1 \in Shown(f.body)
  BY <1>10, <1>12
<1>17. Reached' = e
  BY <1>7
<1> QED BY <1>8, <1>12, <1>13, <1>14, <1>15, <1>16, <1>17, SentTruth

(* So does a frame that arrives.                                           *)
LEMMA ReceiveTruth ==
  ASSUME ShapeInv, ConnInv, TruthOK, Receive
  PROVE  TruthOK'
<1> SUFFICES ASSUME Harmless' PROVE TruthOK'
  BY DEF TruthOK
<1>0. UNCHANGED <<h, ringVars, printed, due, base, races>> /\ painted \subseteq painted'
  BY DEF Receive, serverVars, pumpVars
<1>1. Harmless /\ BaseLow' = BaseLow /\ Reached' = Reached
  BY <1>0 DEF Harmless, BaseLow, Oldest, ringVars, Reached
<1>2. PICK lo \in Int, P \in Int : lo = BaseLow /\ P = Reached
  BY HandlerInts, BaseInts
<1>3. /\ Flows(lo) /\ Covers(painted, lo, cursor) /\ Covers(painted, lo, logCursor)
      /\ cursor <= printed /\ logCursor <= printed
      /\ \A k \in 1..Len(Flight) : FrameEnd(Flight[k]) <= printed
      /\ h.pc # "off" => P <= printed /\ Reaches(lo, P)
  BY <1>1, <1>2 DEF TruthOK
<1>4. /\ Flows(lo)' /\ (h.pc # "off" => Reaches(lo, P)')
      /\ Covers(painted', lo, cursor')
      /\ Flight # <<>> /\ Flight' = Tail(Flight)
      /\ cursor' <= cursor \/ cursor' <= FrameEnd(Flight[1])
      /\ logCursor' = logCursor \/ logCursor' = cursor'
  BY <1>3, PaintsReceive
<1>5. Covers(painted', lo, logCursor')
  <2>1. Covers(painted', lo, logCursor)
    BY <1>0, <1>3, CoversUpTo, FlightFacts
  <2> QED BY <1>4, <2>1
<1>6. Flight \in Seq(Frames) /\ 1 \in 1..Len(Flight) /\ cursor \in Int /\ printed \in Int /\ FrameEnd(Flight[1]) \in Int
  <2>1. Flight \in Seq(Frames) /\ cursor \in Int /\ printed \in Int
    BY FlightFacts, HandlerInts
  <2>2. 1 \in 1..Len(Flight)
    BY <1>4, <2>1
  <2> QED BY <2>1, <2>2, FlightFacts
<1>7. cursor' \in Int
  <2>1. ShapeInv'
    BY PageShape DEF Page
  <2> QED BY <2>1 DEF ShapeInv, PageOK, Unknown, FollowLiveEnd
<1>8. cursor' <= printed' /\ logCursor' <= printed'
  <2>1. cursor' <= printed
    BY <1>3, <1>4, <1>6, <1>7
  <2> QED BY <1>0, <1>3, <1>4, <2>1
<1>9. \A k \in 1..Len(Flight') : FrameEnd(Flight'[k]) <= printed'
  <2>1. \A k \in 1..Len(Tail(Flight)) : k + 1 \in 1..Len(Flight) /\ Tail(Flight)[k] = Flight[k + 1]
    BY <1>4, <1>6
  <2> QED BY <1>0, <1>3, <1>4, <2>1
<1> QED BY <1>0, <1>1, <1>2, <1>3, <1>4, <1>5, <1>8, <1>9, TruthStep

(* A new connection starts from one of the cursors, or from neither.       *)
LEMMA ConnectTruth ==
  ASSUME ShapeInv, ConnInv, TruthOK, Connect \/ StartSSE
  PROVE  TruthOK'
<1> SUFFICES ASSUME Harmless' PROVE TruthOK'
  BY DEF TruthOK
<1>0. ~up /\ UNCHANGED <<ringVars, printed, out, wire, cursor, logCursor, latched, painted, base, races>>
  BY DEF Connect, StartSSE, pumpVars
<1>1. Harmless /\ BaseLow' = BaseLow /\ wire = <<>> /\ out = <<>> /\ ~latched
  BY <1>0 DEF Harmless, BaseLow, Oldest, ringVars, ConnInv
<1>2. PICK lo \in Int : lo = BaseLow /\ Oldest <= lo
  BY BaseInts
<1>3. Covers(painted, lo, cursor) /\ Covers(painted, lo, logCursor) /\ cursor <= printed /\ logCursor <= printed
  BY <1>1, <1>2 DEF TruthOK
<1>4. PICK s \in Int : /\ \E to \in {"hello", "log"} : h' = [Off EXCEPT !.pc = to, !.since = s]
                       /\ s \in {cursor, logCursor} \/ s < 0
  <2>1. cursor \in Int /\ logCursor \in Int
    BY FlightFacts
  <2>2. CASE Connect
    <3>1. PICK s : /\ s = (IF cursor > 0 \/ cursor = FollowLiveEnd THEN cursor ELSE Unknown)
                   /\ h' = [Off EXCEPT !.pc = "hello", !.since = s]
      BY <2>2 DEF Connect
    <3>2. s \in Int /\ (s = cursor \/ s < 0)
      BY <2>1, <3>1 DEF Unknown
    <3> QED BY <3>1, <3>2
  <2>3. CASE StartSSE
    <3>1. PICK s : /\ s = (CASE SseCursor > 0 -> SseCursor
                             [] SseCursor <= 0 /\ FollowLiveEnd \in {logCursor, cursor} -> FollowLiveEnd
                             [] OTHER -> Unknown)
                   /\ h' = [Off EXCEPT !.pc = "log", !.since = s]
      BY <2>3 DEF StartSSE
    <3>2. SseCursor \in {cursor, logCursor}
      BY DEF SseCursor, Greater
    <3>3. s \in Int /\ (s \in {cursor, logCursor} \/ s < 0)
      <4>1. s = SseCursor \/ s = FollowLiveEnd \/ s = Unknown
        BY <3>1
      <4> QED BY <2>1, <3>2, <4>1 DEF Unknown, FollowLiveEnd
    <3> QED BY <3>1, <3>3
  <2> QED BY <2>2, <2>3
<1>5. Reached' = s
  <2>1. h'.pc \in {"hello", "log"} /\ h'.since = s
    BY <1>4 DEF Off
  <2> QED BY <2>1 DEF Reached
<1>6. s <= printed /\ Covers(painted, lo, s)
  <2>1. CASE s \in {cursor, logCursor}
    BY <1>3, <2>1
  <2>2. CASE s < 0
    <3>1. s <= lo /\ s <= printed
      BY <1>2, <2>2, HandlerInts
    <3> QED BY <3>1, CoversNone
  <2> QED BY <1>4, <2>1, <2>2
<1>7. Flight' = <<>> /\ Flows(lo)' /\ Reaches(lo, s)'
  BY <1>0, <1>1, <1>6, PaintsNone
<1>8. \A k \in 1..Len(Flight') : FrameEnd(Flight'[k]) <= printed
  BY <1>7
<1> QED BY <1>0, <1>1, <1>2, <1>5, <1>6, <1>7, <1>8, HandlerTruth

(* A refresh starts a new screen.                                          *)
LEMMA RefreshTruth ==
  ASSUME ShapeInv, NEW load \in Loads, Refresh(load)
  PROVE  TruthOK'
<1> DEFINE r == Newest(ReadMax)
           a == head - Lesser(ReadMax, used)
<1>1. /\ Return(<<>>) /\ UNCHANGED <<ringVars, printed>>
      /\ painted' = (IF load = "failed" THEN {} ELSE Shown(r.body))
      /\ cursor' = (CASE load = "ok"                            -> r.off
                      [] load = "stripped" /\ r.body # <<>>      -> FollowLiveEnd
                      [] OTHER                                  -> Unknown)
      /\ logCursor' = cursor'
      /\ base' = r.off - Len(r.body)
  BY DEF Refresh, Closes, LoadLog, LogBody
<1>2. RingOK /\ running \in BOOLEAN /\ ReadMax \in Nat /\ ReadMax >= 1
  BY Constants DEF ShapeInv
<1>3. /\ r.off \in Nat /\ r.off <= head /\ (r.body = <<>> => r.off <= Oldest)
      /\ head <= printed /\ head \in Nat /\ printed \in Nat /\ Oldest \in Nat
  BY <1>2, NewestGives, HandlerInts
<1>4. r.body # <<>> => /\ Shown(r.body) = (a + 1)..r.off /\ Len(r.body) = r.off - a /\ a \in Nat /\ a >= Oldest
  BY <1>2, NewestFrame
<1>5. r.body = <<>> => Len(r.body) = 0
  OBVIOUS
<1> HIDE DEF r, a
<1>6. PICK b \in Int : b = base' /\ (r.body = <<>> => b = r.off) /\ (r.body # <<>> => b = a)
  <2>1. r.body # <<>> => r.off - Len(r.body) = a
    BY <1>3, <1>4
  <2>2. r.body = <<>> => r.off - Len(r.body) = r.off
    BY <1>3, <1>5
  <2> QED BY <1>1, <1>3, <1>4, <2>1, <2>2
<1>7. PICK lo \in Int : lo = BaseLow' /\ b <= lo /\ Oldest <= lo
  <2>1. Oldest' = Oldest
    BY <1>1 DEF ringVars, Oldest
  <2>2. BaseLow' = Greater(b, Oldest)
    BY <1>6, <2>1 DEF BaseLow
  <2>3. b \in Int /\ Oldest \in Int
    BY <1>3
  <2> QED BY <2>2, <2>3 DEF Greater
<1>8. PICK c \in Int : c = cursor' /\ c <= printed /\ (c >= 0 => load = "ok" /\ c = r.off)
  <2>1. (cursor' = r.off /\ load = "ok") \/ cursor' = FollowLiveEnd \/ cursor' = Unknown
    BY <1>1
  <2> QED BY <1>3, <2>1 DEF FollowLiveEnd, Unknown
<1>9. Covers(painted', lo, c)
  <2>1. CASE c < 0
    <3>1. c <= lo
      BY <1>3, <1>7, <2>1
    <3> QED BY <3>1, CoversNone
  <2>2. CASE c >= 0 /\ r.body = <<>>
    <3>1. c <= lo
      BY <1>3, <1>7, <1>8, <2>2
    <3> QED BY <3>1, CoversNone
  <2>3. CASE c >= 0 /\ r.body # <<>>
    <3>1. painted' = (a + 1)..c /\ a \in Nat /\ a <= lo
      BY <1>1, <1>4, <1>6, <1>7, <1>8, <2>3
    <3> QED BY <3>1 DEF Covers
  <2> QED BY <2>1, <2>2, <2>3
<1>10. Flight' = <<>> /\ h'.pc = "off"
  BY <1>1 DEF Flight, Return, Off
<1>11. Flow(Flight', painted', cursor', latched', lo)
  BY <1>10, FlowNone
<1>12. \A k \in 1..Len(Flight') : FrameEnd(Flight'[k]) <= printed'
  BY <1>10
<1> QED BY <1>1, <1>7, <1>8, <1>9, <1>10, <1>11, <1>12, TruthStep DEF Flows

(* So does every step.                                                     *)
LEMMA NextTruth ==
  ASSUME ShapeInv, ConnInv, HandshakeInv, TruthOK, [StreamNext]_streamVars
  PROVE  TruthOK'
<1>1. CASE UNCHANGED <<h, wire, out, painted, cursor, logCursor, latched, due, base, races>>
  <2>1. Flight' = Flight
    BY <1>1 DEF Flight
  <2> QED BY <1>1, <2>1, IdleTruth
<1>2. CASE Pump \/ Unrun \/ DropBuffer \/ UNCHANGED streamVars
  BY <1>1, <1>2 DEF Pump, PumpRead, Broadcast, Drain, Unrun, DropBuffer, streamVars, serverVars, pageVars
<1>3. CASE Handshake /\ ~Subscribe
  BY <1>3, StepsTruth
<1>4. CASE LogStream
  BY <1>4, LogTruth
<1>5. CASE Drop \/ Fallback \/ BackToSocket
  <2>1. Return(<<>>) /\ UNCHANGED <<ringVars, printed, painted, cursor, logCursor, base, races>>
    BY <1>5 DEF Drop, Fallback, BackToSocket, Closes
  <2> QED BY <2>1, ReturnTruth DEF Harmless
<1>6. CASE LiveClosed
  <2>1. Return(Append(wire, CloseFrame)) /\ out = <<>>
        /\ UNCHANGED <<ringVars, printed, latched, painted, cursor, logCursor, base, races>>
    BY <1>6 DEF LiveClosed, At, pageVars
  <2> QED BY <2>1, ReturnTruth DEF Harmless
<1>7. CASE WriteFrame
  <2>1. UNCHANGED <<h, painted, cursor, logCursor, latched, due, base, races>>
    BY <1>7 DEF WriteFrame, pageVars
  <2> QED BY <1>7, <2>1, FlightSame, IdleTruth
<1> QED BY <1>2, <1>3, <1>4, <1>5, <1>6, <1>7, SubscribeTruth, LiveTruth, ReceiveTruth, ConnectTruth, RefreshTruth
     DEF StreamNext, Handler, Handshake, Page

(* Unless one of the first five Races has happened, the page's cursor is   *)
(* never past a byte that is missing from its screen and that the buffer   *)
(* could still supply: no reconnect, by socket or event stream, loses      *)
(* output for good.                                                        *)
THEOREM CursorAlwaysTruthful == StreamSpec => []CursorTruthful
<1>1. StreamInit => TruthOK
  <2> SUFFICES ASSUME StreamInit PROVE TruthOK
    OBVIOUS
  <2>1. /\ Flight = <<>> /\ h.pc = "off" /\ cursor = -1 /\ logCursor = -1 /\ printed = 0
    BY DEF StreamInit, Flight, Off, Unknown
  <2>2. ShapeInv
    BY InitShape
  <2>3. PICK lo \in Int : lo = BaseLow /\ 0 <= lo
    BY <2>2, BaseInts, HandlerInts
  <2>4. Covers(painted, lo, cursor) /\ Covers(painted, lo, logCursor)
    BY <2>1, <2>3, CoversNone
  <2>5. Flows(lo)
    BY <2>1, FlowNone DEF Flows
  <2> QED BY <2>1, <2>3, <2>4, <2>5 DEF TruthOK
<1>2. TruthOK /\ HandshakeInv /\ ConnInv /\ ShapeInv /\ [StreamNext]_streamVars => TruthOK'
  BY NextTruth
<1>3. TruthOK => CursorTruthful
  BY DEF TruthOK, CursorTruthful, Harmless, BaseLow, Covers
<1>4. StreamSpec => []TruthOK
  BY <1>1, <1>2, HandshakeAlways, ShapeAlways, PTL DEF StreamSpec
<1> QED BY <1>3, <1>4, PTL

----------------------------------------------------------------------------
(***************************************************************************)
(* The viewers.                                                            *)
(***************************************************************************)
(* Where a handler is tells whether it has a size to apply and a channel.  *)
ViewerPlaced(v) ==
  /\ pc[v] \in {"applying", "telling"} => job[v] # NoSize
  /\ pc[v] \notin {"applying", "telling", "closing"} => job[v] = NoSize
  /\ job[v] = NoSize => todo[v] = {}
  /\ pc[v] = "out" => shut[v]
  /\ pc[v] \notin {"out", "applying", "telling"} => ~shut[v]
  /\ pc[v] \in {"registered", "closing", "sse"} \/ shut[v] => size[v] = NoSize
ViewersPlaced == \A v \in Viewers : ViewerPlaced(v)

(* The size that fits those who registered, or none.                       *)
FitFor(R, sz) ==
  LET S == {sz[w] : w \in R} \ {NoSize}
  IN  IF S = {} THEN NoSize ELSE Smallest(S)

(* The recorded size is always the smallest that fits.                     *)
SizeAgreed == applied = FitFor(Registered, size)

(* Who applies a size applies the recorded one, alone, and has yet to tell *)
(* whoever does not know it; then the terminal has it and all know it.     *)
OneApplies ==
  applied # NoSize /\ ~raced =>
    /\ \A v, w \in Applying : v = w
    /\ \A v \in Applying :
         /\ job[v] = applied
         /\ pc[v] = "telling" => pty = applied
         /\ \A w \in Registered : w \in todo[v] \/ told[w] = applied
    /\ Applying = {} => pty = applied /\ \A w \in Registered : told[w] = applied

(* The inductive invariant of the viewers.                                 *)
ViewersIInv == ViewersTypeOK /\ ViewersPlaced /\ SizeAgreed /\ OneApplies /\ TypeShown

(* A non-empty set of numbers has a least one.                             *)
LEMMA LeastNumber ==
  ASSUME NEW T \in SUBSET Nat, T # {}
  PROVE  \E m \in T : \A n \in T : m <= n
<1> DEFINE R == OpToRel(<, Nat)
<1>1. IsWellFoundedOn(R, Nat)
  BY NatLessThanWellFounded, Zenon
<1>2. PICK m \in T : \A n \in T : ~ (<<n, m>> \in R)
  <2> HIDE DEF R
  <2> QED BY <1>1, WFMin
<1>3. ASSUME NEW n \in T PROVE m <= n
  <2>1. ~ (<<n, m>> \in {ss \in Nat \X Nat : ss[1] < ss[2]})
    BY <1>2, Zenon DEF OpToRel
  <2> QED BY <2>1
<1> QED BY <1>3

(* The smallest size that fits: the least columns and the least rows.      *)
LEMMA SmallestIs ==
  ASSUME NEW S \in SUBSET Grids, S # {}
  PROVE  /\ Smallest(S) \in {<<a[1], b[2]>> : a \in Grids, b \in Grids}
         /\ Smallest(S) # NoSize
<1> DEFINE C == {a[1] : a \in S}
           L == {b[2] : b \in S}
<1>0. \A a \in S : a[1] \in Nat \ {0} /\ a[2] \in Nat \ {0}
  BY ViewerParams
<1>1. C \in SUBSET Nat /\ C # {} /\ L \in SUBSET Nat /\ L # {}
  BY <1>0
<1>2. PICK m \in C : \A n \in C : m <= n
  <2> HIDE DEF C
  <2> QED BY <1>1, LeastNumber
<1>3. PICK k \in L : \A n \in L : k <= n
  <2> HIDE DEF L
  <2> QED BY <1>1, LeastNumber
<1> DEFINE W == {<<a[1], b[2]>> : a \in S, b \in S}
<1>4. PICK a \in S, b \in S : m = a[1] /\ k = b[2]
  OBVIOUS
<1> DEFINE Below(s) == \A x \in S : s[1] <= x[1] /\ s[2] <= x[2]
<1>5. <<m, k>> \in W /\ Below(<<m, k>>)
  BY <1>2, <1>3, <1>4
<1>6. Smallest(S) \in W
  <2>1. Smallest(S) = CHOOSE s \in W : Below(s)
    BY DEF Smallest
  <2> HIDE DEF W, Below
  <2> QED BY <1>5, <2>1, Zenon
<1>7. PICK c \in S, d \in S : Smallest(S) = <<c[1], d[2]>>
  BY <1>6
<1> QED BY <1>0, <1>7 DEF NoSize

(* So the size for any viewers is one of those the type invariant knows.   *)
LEMMA FitsIs ==
  ASSUME NEW R, NEW sz \in [Viewers -> Grids \cup {NoSize}], R \subseteq Viewers
  PROVE  FitFor(R, sz) \in KnownSizes
<1> DEFINE S == {sz[w] : w \in R} \ {NoSize}
<1>1. S \in SUBSET Grids
  OBVIOUS
<1>2. FitFor(R, sz) = IF S = {} THEN NoSize ELSE Smallest(S)
  BY DEF FitFor
<1> HIDE DEF S
<1> QED BY <1>1, <1>2, SmallestIs DEF KnownSizes

(* What recomputing does: record the size that fits and, if it is another  *)
(* one, give it to v to apply.                                             *)
Recomputed(v, R, sz) ==
  /\ applied' = FitFor(R, sz)
  /\ \/ applied' \in {NoSize, applied} /\ UNCHANGED <<job, todo, raced>>
     \/ /\ applied' \notin {NoSize, applied}
        /\ job' = [job EXCEPT ![v] = applied'] /\ todo' = [todo EXCEPT ![v] = R]
        /\ raced' = (Applying # {})

(* That is recomputeTTYSizeLocked.                                         *)
LEMMA RecomputeIs ==
  ASSUME NEW v, NEW R, NEW sz, Recompute(v, R, sz)
  PROVE  Recomputed(v, R, sz)
<1> DEFINE S   == {sz[w] : w \in R} \ {NoSize}
           min == IF S = {} THEN NoSize ELSE Smallest(S)
<1>1. FitFor(R, sz) = min
  BY Zenon DEF FitFor
<1>2. applied' = min
  BY Zenon DEF Recompute
<1>3. IF min \in {NoSize, applied} THEN UNCHANGED <<job, todo, raced>>
      ELSE /\ job' = [job EXCEPT ![v] = min] /\ todo' = [todo EXCEPT ![v] = R]
           /\ raced' = (Applying # {})
  BY Zenon DEF Recompute
<1> HIDE DEF min
<1> QED BY <1>1, <1>2, <1>3, Zenon DEF Recomputed

(* Viewers without a size do not count.                                    *)
LEMMA FitsSame ==
  ASSUME NEW R \in SUBSET Viewers, NEW Q \in SUBSET Viewers, NEW sz, NEW sq,
         \A u \in Viewers :
           /\ u \in R => sz[u] = NoSize \/ (u \in Q /\ sq[u] = sz[u])
           /\ u \in Q => sq[u] = NoSize \/ (u \in R /\ sz[u] = sq[u])
  PROVE  FitFor(R, sz) = FitFor(Q, sq)
<1>1. {sz[w] : w \in R} \ {NoSize} = {sq[w] : w \in Q} \ {NoSize}
  OBVIOUS
<1> QED BY <1>1, Zenon DEF FitFor

(* Every step keeps the types.                                            *)
LEMMA ViewerTypesStep ==
  ASSUME ViewersTypeOK, [ViewersNext]_viewersVars
  PROVE  ViewersTypeOK'
<1>0. NoSize \in KnownSizes /\ Registered \in SUBSET Viewers
  BY DEF KnownSizes, Registered
<1> USE DEF ViewersTypeOK
<1>1. ASSUME NEW v \in Viewers, Register(v) PROVE ViewersTypeOK'
  BY <1>0, <1>1 DEF Register, Go, shared, watched, perViewer
<1>2. ASSUME NEW v \in Viewers, StreamOpens(v) PROVE ViewersTypeOK'
  BY <1>0, <1>2 DEF StreamOpens, Go, shared, watched, perViewer
<1>3. ASSUME NEW v \in Viewers, StreamEnds(v) PROVE ViewersTypeOK'
  BY <1>0, <1>3 DEF StreamEnds, Go, shared, watched, perViewer
<1>4. ASSUME NEW v \in Viewers, NEW z \in Grids, Propose(v, z) PROVE ViewersTypeOK'
  <2>1. Recompute(v, Registered, size') /\ size' = [size EXCEPT ![v] = z]
    BY <1>4 DEF Propose
  <2>2. Recomputed(v, Registered, size')
    BY <2>1, RecomputeIs, Zenon
  <2>3. size' \in [Viewers -> Grids \cup {NoSize}]
    BY <1>0, <2>1
  <2>4. applied' \in KnownSizes
    BY <1>0, <2>2, <2>3, FitsIs DEF Recomputed
  <2>5. job' \in [Viewers -> KnownSizes] /\ todo' \in [Viewers -> SUBSET Viewers]
    <3>1. CASE UNCHANGED <<job, todo, raced>>
      BY <3>1
    <3>2. CASE job' = [job EXCEPT ![v] = applied'] /\ todo' = [todo EXCEPT ![v] = Registered]
      BY <1>0, <2>4, <3>2
    <3> QED BY <2>2, <3>1, <3>2, Zenon DEF Recomputed
  <2>6. raced' \in BOOLEAN
    BY <2>2, Zenon DEF Recomputed
  <2>7. pc' \in [Viewers -> {"out", "registered", "serving", "stuck", "bye", "untyped",
                             "closing", "applying", "telling", "sse"}]
    BY <1>4 DEF Propose, Go
  <2> QED BY <1>4, <2>3, <2>4, <2>5, <2>6, <2>7, Zenon DEF Propose
<1>5. ASSUME NEW v \in Viewers, PeerGone(v) PROVE ViewersTypeOK'
  BY <1>0, <1>5 DEF PeerGone, Go, shared, watched, perViewer
<1>6. ASSUME NEW v \in Viewers, WriteBlocks(v) PROVE ViewersTypeOK'
  BY <1>0, <1>6 DEF WriteBlocks, Go, shared, watched, perViewer
<1>7. ASSUME NEW v \in Viewers, WriteResumes(v) PROVE ViewersTypeOK'
  BY <1>0, <1>7 DEF WriteResumes, Go, shared, watched, perViewer
<1>8. ASSUME NEW v \in Viewers, Returns(v) PROVE ViewersTypeOK'
  BY <1>0, <1>8 DEF Returns, Go, shared, watched, perViewer
<1>9. ASSUME NEW v \in Viewers, SetType(v) PROVE ViewersTypeOK'
  BY <1>0, <1>9 DEF SetType, Go, shared, watched, perViewer
<1>10. ASSUME NEW v \in Viewers, Resize(v) PROVE ViewersTypeOK'
  BY <1>0, <1>10 DEF Resize, Resized, Go, shared, watched, perViewer
<1>11. ASSUME NEW v \in Viewers, TellPanics(v) PROVE ViewersTypeOK'
  BY <1>0, <1>11 DEF TellPanics, Go, shared, watched, perViewer
<1>12. ASSUME NEW v \in Viewers, Told(v) PROVE ViewersTypeOK'
  BY <1>0, <1>12 DEF Told, Go, shared, watched, perViewer
<1>13. ASSUME NEW v \in Viewers, Update(v) PROVE ViewersTypeOK'
  BY <1>0, <1>13 DEF Update, Go, shared, watched, perViewer
<1>14. ASSUME NEW v \in Viewers, ClearType(v) PROVE ViewersTypeOK'
  BY <1>0, <1>14 DEF ClearType, Go, shared, watched, perViewer
<1>15. ASSUME NEW v \in Viewers, Unregister(v) PROVE ViewersTypeOK'
  <2>1. Recompute(v, Registered \ {v}, size) /\ size' = [size EXCEPT ![v] = NoSize]
    BY <1>15 DEF Unregister
  <2>2. Recomputed(v, Registered \ {v}, size)
    BY <2>1, RecomputeIs, Zenon
  <2>3. size' \in [Viewers -> Grids \cup {NoSize}]
    BY <1>0, <2>1
  <2>4. applied' \in KnownSizes
    BY <1>0, <2>2, FitsIs DEF Recomputed
  <2>5. job' \in [Viewers -> KnownSizes] /\ todo' \in [Viewers -> SUBSET Viewers]
    <3>1. CASE UNCHANGED <<job, todo, raced>>
      BY <3>1
    <3>2. CASE job' = [job EXCEPT ![v] = applied'] /\ todo' = [todo EXCEPT ![v] = Registered \ {v}]
      BY <1>0, <2>4, <3>2
    <3> QED BY <2>2, <3>1, <3>2, Zenon DEF Recomputed
  <2>6. raced' \in BOOLEAN
    BY <2>2, Zenon DEF Recomputed
  <2>7. pc' \in [Viewers -> {"out", "registered", "serving", "stuck", "bye", "untyped",
                             "closing", "applying", "telling", "sse"}]
    BY <1>15 DEF Unregister, Go
  <2> QED BY <1>15, <2>3, <2>4, <2>5, <2>6, <2>7, Zenon DEF Unregister
<1>16. ASSUME NEW v \in Viewers, CloseUpdates(v) PROVE ViewersTypeOK'
  BY <1>0, <1>16 DEF CloseUpdates, Go, shared, watched, perViewer
<1>17. ASSUME NEW v \in Viewers, NEW w \in Viewers, Tell(v, w) PROVE ViewersTypeOK'
  BY <1>0, <1>17 DEF Tell, Go, shared, watched, perViewer
<1>18. CASE UNCHANGED viewersVars
  BY <1>18 DEF viewersVars, shared, watched, perViewer
<1> QED BY <1>1, <1>2, <1>3, <1>4, <1>5, <1>6, <1>7, <1>8, <1>9, <1>10, <1>11,
       <1>12, <1>13, <1>14, <1>15, <1>16, <1>17, <1>18 DEF ViewersNext, Serve,
       PeerCloses, WriteFails, Overflow, ReadExpires

(* Every step keeps the handlers' places.                                  *)
LEMMA PlacedStep ==
  ASSUME ViewersTypeOK, ViewersPlaced, [ViewersNext]_viewersVars
  PROVE  ViewersPlaced'
<1> SUFFICES ASSUME NEW u \in Viewers PROVE ViewerPlaced(u)'
  BY DEF ViewersPlaced
<1> USE DEF ViewersTypeOK, ViewersPlaced, ViewerPlaced
<1>1. ASSUME NEW v \in Viewers, Register(v) PROVE ViewerPlaced(u)'
  BY <1>1 DEF Register, Go, shared, watched, perViewer
<1>2. ASSUME NEW v \in Viewers, StreamOpens(v) PROVE ViewerPlaced(u)'
  BY <1>2 DEF StreamOpens, Go, shared, watched, perViewer
<1>3. ASSUME NEW v \in Viewers, StreamEnds(v) PROVE ViewerPlaced(u)'
  BY <1>3 DEF StreamEnds, Go, shared, watched, perViewer
<1>4. ASSUME NEW v \in Viewers, NEW z \in Grids, Propose(v, z) PROVE ViewerPlaced(u)'
  <2>1. Recompute(v, Registered, size') /\ size' = [size EXCEPT ![v] = z]
    BY <1>4 DEF Propose
  <2>2. Recomputed(v, Registered, size')
    BY <2>1, RecomputeIs, Zenon
  <2>3. CASE applied' \in {NoSize, applied} /\ UNCHANGED <<job, todo, raced>>
    BY <1>4, <2>1, <2>3 DEF Propose, Go
  <2>4. CASE /\ applied' \notin {NoSize, applied}
             /\ job' = [job EXCEPT ![v] = applied'] /\ todo' = [todo EXCEPT ![v] = Registered]
             /\ raced' = (Applying # {})
    BY <1>4, <2>1, <2>4 DEF Propose, Go
  <2> QED BY <2>2, <2>3, <2>4, Zenon DEF Recomputed
<1>5. ASSUME NEW v \in Viewers, PeerGone(v) PROVE ViewerPlaced(u)'
  BY <1>5 DEF PeerGone, Go, shared, watched, perViewer
<1>6. ASSUME NEW v \in Viewers, WriteBlocks(v) PROVE ViewerPlaced(u)'
  BY <1>6 DEF WriteBlocks, Go, shared, watched, perViewer
<1>7. ASSUME NEW v \in Viewers, WriteResumes(v) PROVE ViewerPlaced(u)'
  BY <1>7 DEF WriteResumes, Go, shared, watched, perViewer
<1>8. ASSUME NEW v \in Viewers, Returns(v) PROVE ViewerPlaced(u)'
  BY <1>8 DEF Returns, Go, shared, watched, perViewer
<1>9. ASSUME NEW v \in Viewers, SetType(v) PROVE ViewerPlaced(u)'
  BY <1>9 DEF SetType, Go, shared, watched, perViewer
<1>10. ASSUME NEW v \in Viewers, Resize(v) PROVE ViewerPlaced(u)'
  BY <1>10 DEF Resize, Resized, Go, shared, watched, perViewer
<1>11. ASSUME NEW v \in Viewers, TellPanics(v) PROVE ViewerPlaced(u)'
  BY <1>11 DEF TellPanics, Go, shared, watched, perViewer
<1>12. ASSUME NEW v \in Viewers, Told(v) PROVE ViewerPlaced(u)'
  BY <1>12 DEF Told, Go, shared, watched, perViewer
<1>13. ASSUME NEW v \in Viewers, Update(v) PROVE ViewerPlaced(u)'
  BY <1>13 DEF Update, Go, shared, watched, perViewer
<1>14. ASSUME NEW v \in Viewers, ClearType(v) PROVE ViewerPlaced(u)'
  BY <1>14 DEF ClearType, Go, shared, watched, perViewer
<1>15. ASSUME NEW v \in Viewers, Unregister(v) PROVE ViewerPlaced(u)'
  <2>1. Recompute(v, Registered \ {v}, size) /\ size' = [size EXCEPT ![v] = NoSize]
    BY <1>15 DEF Unregister
  <2>2. Recomputed(v, Registered \ {v}, size)
    BY <2>1, RecomputeIs, Zenon
  <2>3. CASE applied' \in {NoSize, applied} /\ UNCHANGED <<job, todo, raced>>
    BY <1>15, <2>1, <2>3 DEF Unregister, Go
  <2>4. CASE /\ applied' \notin {NoSize, applied}
             /\ job' = [job EXCEPT ![v] = applied'] /\ todo' = [todo EXCEPT ![v] = Registered \ {v}]
             /\ raced' = (Applying # {})
    BY <1>15, <2>1, <2>4 DEF Unregister, Go
  <2> QED BY <2>2, <2>3, <2>4, Zenon DEF Recomputed
<1>16. ASSUME NEW v \in Viewers, CloseUpdates(v) PROVE ViewerPlaced(u)'
  BY <1>16 DEF CloseUpdates, Go, shared, watched, perViewer
<1>17. ASSUME NEW v \in Viewers, NEW w \in Viewers, Tell(v, w) PROVE ViewerPlaced(u)'
  BY <1>17 DEF Tell, Go, shared, watched, perViewer
<1>18. CASE UNCHANGED viewersVars
  BY <1>18 DEF viewersVars, shared, watched, perViewer
<1> QED BY <1>1, <1>2, <1>3, <1>4, <1>5, <1>6, <1>7, <1>8, <1>9, <1>10, <1>11,
       <1>12, <1>13, <1>14, <1>15, <1>16, <1>17, <1>18 DEF ViewersNext, Serve,
       PeerCloses, WriteFails, Overflow, ReadExpires

(* The size for the viewers registered after a step, from those before it. *)
LEMMA FitMoved ==
  ASSUME NEW R \in SUBSET Viewers, NEW sz, Registered' \in SUBSET Viewers,
         \A u \in Viewers :
           /\ u \in Registered' => size'[u] = NoSize \/ (u \in R /\ sz[u] = size'[u])
           /\ u \in R => sz[u] = NoSize \/ (u \in Registered' /\ size'[u] = sz[u])
  PROVE  FitFor(Registered', size') = FitFor(R, sz)
<1> DEFINE Q == Registered'
           sq == size'
<1>1. Q \in SUBSET Viewers
  OBVIOUS
<1>2. \A u \in Viewers :
         /\ u \in Q => sq[u] = NoSize \/ (u \in R /\ sz[u] = sq[u])
         /\ u \in R => sz[u] = NoSize \/ (u \in Q /\ sq[u] = sz[u])
  OBVIOUS
<1>3. FitFor(Q, sq) = FitFor(R, sz)
  <2> HIDE DEF Q, sq
  <2> QED BY <1>1, <1>2, FitsSame
<1> QED BY <1>3

(* A step that neither adds, nor takes, nor changes a sized viewer ...     *)
SameSized ==
  \A u \in Viewers :
    /\ u \in Registered' => size'[u] = NoSize \/ (u \in Registered /\ size[u] = size'[u])
    /\ u \in Registered => size[u] = NoSize \/ (u \in Registered' /\ size'[u] = size[u])

(* ... keeps the agreement.                                                *)
LEMMA FitKept ==
  ASSUME SizeAgreed, applied' = applied,
         SameSized
  PROVE  SizeAgreed'
<1>1. Registered \in SUBSET Viewers /\ Registered' \in SUBSET Viewers
  BY DEF Registered
<1>2. FitFor(Registered', size') = FitFor(Registered, size)
  BY <1>1, FitMoved, Zenon DEF SameSized
<1> QED BY <1>2, Zenon DEF SizeAgreed

(* Every step keeps the recorded size the one that fits.                   *)
LEMMA SizeAgreedStep ==
  ASSUME ViewersTypeOK, ViewersPlaced, SizeAgreed, [ViewersNext]_viewersVars
  PROVE  SizeAgreed'
<1>0. Registered \in SUBSET Viewers /\ Registered' \in SUBSET Viewers
  BY DEF Registered
<1> USE DEF ViewersTypeOK, ViewersPlaced, ViewerPlaced
<1>1. ASSUME NEW v \in Viewers, Register(v) PROVE SizeAgreed'
  <2>1. SameSized
    BY <1>1 DEF SameSized, Register, Go, Registered
  <2>2. applied' = applied
    BY <1>1 DEF Register, shared
  <2> QED BY <2>1, <2>2, FitKept, Zenon
<1>2. ASSUME NEW v \in Viewers, StreamOpens(v) PROVE SizeAgreed'
  <2>1. SameSized
    BY <1>2 DEF SameSized, StreamOpens, Go, Registered
  <2>2. applied' = applied
    BY <1>2 DEF StreamOpens, shared
  <2> QED BY <2>1, <2>2, FitKept, Zenon
<1>3. ASSUME NEW v \in Viewers, StreamEnds(v) PROVE SizeAgreed'
  <2>1. SameSized
    BY <1>3 DEF SameSized, StreamEnds, Go, Registered
  <2>2. applied' = applied
    BY <1>3 DEF StreamEnds, shared
  <2> QED BY <2>1, <2>2, FitKept, Zenon
<1>4. ASSUME NEW v \in Viewers, NEW z \in Grids, Propose(v, z) PROVE SizeAgreed'
  <2>1. Recompute(v, Registered, size') /\ size' = [size EXCEPT ![v] = z]
    BY <1>4 DEF Propose
  <2>2. Recomputed(v, Registered, size')
    BY <2>1, RecomputeIs, Zenon
  <2>3. FitFor(Registered', size') = FitFor(Registered, size')
    <3>1. Registered' \in SUBSET Viewers /\ Registered \in SUBSET Viewers
      BY DEF Registered
    <3>2. pc'[v] \in {"applying", "serving"} /\ \A u \in Viewers \ {v} : pc'[u] = pc[u]
      BY <1>4 DEF Propose, Go
    <3>3. \A u \in Viewers :
           /\ u \in Registered' => size'[u] = NoSize \/ (u \in Registered /\ size'[u] = size'[u])
           /\ u \in Registered => size'[u] = NoSize \/ (u \in Registered' /\ size'[u] = size'[u])
      BY <1>4, <2>1, <3>2 DEF Propose, Registered
    <3> QED BY <3>1, <3>3, FitMoved, Zenon
  <2> QED BY <2>2, <2>3, Zenon DEF Recomputed, SizeAgreed
<1>5. ASSUME NEW v \in Viewers, PeerGone(v) PROVE SizeAgreed'
  <2>1. SameSized
    BY <1>5 DEF SameSized, PeerGone, Go, Registered
  <2>2. applied' = applied
    BY <1>5 DEF PeerGone, shared
  <2> QED BY <2>1, <2>2, FitKept, Zenon
<1>6. ASSUME NEW v \in Viewers, WriteBlocks(v) PROVE SizeAgreed'
  <2>1. SameSized
    BY <1>6 DEF SameSized, WriteBlocks, Go, Registered
  <2>2. applied' = applied
    BY <1>6 DEF WriteBlocks, shared
  <2> QED BY <2>1, <2>2, FitKept, Zenon
<1>7. ASSUME NEW v \in Viewers, WriteResumes(v) PROVE SizeAgreed'
  <2>1. SameSized
    BY <1>7 DEF SameSized, WriteResumes, Go, Registered
  <2>2. applied' = applied
    BY <1>7 DEF WriteResumes, shared
  <2> QED BY <2>1, <2>2, FitKept, Zenon
<1>8. ASSUME NEW v \in Viewers, Returns(v) PROVE SizeAgreed'
  <2>1. SameSized
    BY <1>8 DEF SameSized, Returns, Go, Registered
  <2>2. applied' = applied
    BY <1>8 DEF Returns, shared
  <2> QED BY <2>1, <2>2, FitKept, Zenon
<1>9. ASSUME NEW v \in Viewers, SetType(v) PROVE SizeAgreed'
  <2>1. SameSized
    BY <1>9 DEF SameSized, SetType, Go, Registered
  <2>2. applied' = applied
    BY <1>9 DEF SetType, shared
  <2> QED BY <2>1, <2>2, FitKept, Zenon
<1>10. ASSUME NEW v \in Viewers, Resize(v) PROVE SizeAgreed'
  <2>1. SameSized
    BY <1>10 DEF SameSized, Resize, Resized, Go, Registered
  <2>2. applied' = applied
    BY <1>10 DEF Resize, Resized, shared
  <2> QED BY <2>1, <2>2, FitKept, Zenon
<1>11. ASSUME NEW v \in Viewers, TellPanics(v) PROVE SizeAgreed'
  <2>1. SameSized
    BY <1>11 DEF SameSized, TellPanics, Go, Registered
  <2>2. applied' = applied
    BY <1>11 DEF TellPanics, shared
  <2> QED BY <2>1, <2>2, FitKept, Zenon
<1>12. ASSUME NEW v \in Viewers, Told(v) PROVE SizeAgreed'
  <2>1. SameSized
    BY <1>12 DEF SameSized, Told, Go, Registered
  <2>2. applied' = applied
    BY <1>12 DEF Told, shared
  <2> QED BY <2>1, <2>2, FitKept, Zenon
<1>13. ASSUME NEW v \in Viewers, Update(v) PROVE SizeAgreed'
  <2>1. SameSized
    BY <1>13 DEF SameSized, Update, Go, Registered
  <2>2. applied' = applied
    BY <1>13 DEF Update, shared
  <2> QED BY <2>1, <2>2, FitKept, Zenon
<1>14. ASSUME NEW v \in Viewers, ClearType(v) PROVE SizeAgreed'
  <2>1. SameSized
    BY <1>14 DEF SameSized, ClearType, Go, Registered
  <2>2. applied' = applied
    BY <1>14 DEF ClearType, shared
  <2> QED BY <2>1, <2>2, FitKept, Zenon
<1>15. ASSUME NEW v \in Viewers, Unregister(v) PROVE SizeAgreed'
  <2>1. Recompute(v, Registered \ {v}, size) /\ size' = [size EXCEPT ![v] = NoSize]
    BY <1>15 DEF Unregister
  <2>2. Recomputed(v, Registered \ {v}, size)
    BY <2>1, RecomputeIs, Zenon
  <2>3. FitFor(Registered', size') = FitFor(Registered \ {v}, size)
    <3>1. Registered' \in SUBSET Viewers /\ Registered \ {v} \in SUBSET Viewers
      BY DEF Registered
    <3>2. pc'[v] \in {"closing"} /\ \A u \in Viewers \ {v} : pc'[u] = pc[u]
      BY <1>15 DEF Unregister, Go
    <3>3. \A u \in Viewers :
           /\ u \in Registered' => size'[u] = NoSize \/ (u \in Registered \ {v} /\ size[u] = size'[u])
           /\ u \in Registered \ {v} => size[u] = NoSize \/ (u \in Registered' /\ size'[u] = size[u])
      BY <1>15, <2>1, <3>2 DEF Unregister, Registered
    <3> QED BY <3>1, <3>3, FitMoved, Zenon
  <2> QED BY <2>2, <2>3, Zenon DEF Recomputed, SizeAgreed
<1>16. ASSUME NEW v \in Viewers, CloseUpdates(v) PROVE SizeAgreed'
  <2>1. SameSized
    BY <1>16 DEF SameSized, CloseUpdates, Go, Registered
  <2>2. applied' = applied
    BY <1>16 DEF CloseUpdates, shared
  <2> QED BY <2>1, <2>2, FitKept, Zenon
<1>17. ASSUME NEW v \in Viewers, NEW w \in Viewers, Tell(v, w) PROVE SizeAgreed'
  <2>1. SameSized
    BY <1>17 DEF SameSized, Tell, Go, Registered
  <2>2. applied' = applied
    BY <1>17 DEF Tell, shared
  <2> QED BY <2>1, <2>2, FitKept, Zenon
<1>18. CASE UNCHANGED viewersVars
  <2>1. SameSized
    BY <1>18 DEF SameSized, viewersVars, perViewer, Registered
  <2>2. applied' = applied
    BY <1>18 DEF viewersVars, shared
  <2> QED BY <2>1, <2>2, FitKept, Zenon
<1> QED BY <1>1, <1>2, <1>3, <1>4, <1>5, <1>6, <1>7, <1>8, <1>9, <1>10, <1>11,
       <1>12, <1>13, <1>14, <1>15, <1>16, <1>17, <1>18 DEF ViewersNext, Serve,
       PeerCloses, WriteFails, Overflow, ReadExpires

(* Every step keeps the connection type that of a connection.              *)
LEMMA TypeShownStep ==
  ASSUME ViewersTypeOK, ViewersPlaced, TypeShown, [ViewersNext]_viewersVars
  PROVE  TypeShown'
<1> USE DEF ViewersTypeOK, ViewersPlaced, ViewerPlaced, TypeShown
<1>1. ASSUME NEW v \in Viewers, Register(v) PROVE TypeShown'
  BY <1>1 DEF Register, Go, shared, watched, perViewer, Connected
<1>2. ASSUME NEW v \in Viewers, StreamOpens(v) PROVE TypeShown'
  BY <1>2 DEF StreamOpens, Go, shared, watched, perViewer, Connected
<1>3. ASSUME NEW v \in Viewers, StreamEnds(v) PROVE TypeShown'
  BY <1>3 DEF StreamEnds, Go, shared, watched, perViewer, Connected
<1>4. ASSUME NEW v \in Viewers, NEW z \in Grids, Propose(v, z) PROVE TypeShown'
  BY <1>4 DEF Propose, Go, Recompute, Connected
<1>5. ASSUME NEW v \in Viewers, PeerGone(v) PROVE TypeShown'
  BY <1>5 DEF PeerGone, Go, shared, watched, perViewer, Connected
<1>6. ASSUME NEW v \in Viewers, WriteBlocks(v) PROVE TypeShown'
  BY <1>6 DEF WriteBlocks, Go, shared, watched, perViewer, Connected
<1>7. ASSUME NEW v \in Viewers, WriteResumes(v) PROVE TypeShown'
  BY <1>7 DEF WriteResumes, Go, shared, watched, perViewer, Connected
<1>8. ASSUME NEW v \in Viewers, Returns(v) PROVE TypeShown'
  BY <1>8 DEF Returns, Go, shared, watched, perViewer, Connected
<1>9. ASSUME NEW v \in Viewers, SetType(v) PROVE TypeShown'
  BY <1>9 DEF SetType, Go, shared, watched, perViewer, Connected
<1>10. ASSUME NEW v \in Viewers, Resize(v) PROVE TypeShown'
  BY <1>10 DEF Resize, Resized, Go, shared, watched, perViewer, Connected
<1>11. ASSUME NEW v \in Viewers, TellPanics(v) PROVE TypeShown'
  BY <1>11 DEF TellPanics, Go, shared, watched, perViewer, Connected
<1>12. ASSUME NEW v \in Viewers, Told(v) PROVE TypeShown'
  BY <1>12 DEF Told, Go, shared, watched, perViewer, Connected
<1>13. ASSUME NEW v \in Viewers, Update(v) PROVE TypeShown'
  BY <1>13 DEF Update, Go, shared, watched, perViewer, Connected
<1>14. ASSUME NEW v \in Viewers, ClearType(v) PROVE TypeShown'
  BY <1>14 DEF ClearType, Go, shared, watched, perViewer, Connected
<1>15. ASSUME NEW v \in Viewers, Unregister(v) PROVE TypeShown'
  BY <1>15 DEF Unregister, Go, Recompute, Connected
<1>16. ASSUME NEW v \in Viewers, CloseUpdates(v) PROVE TypeShown'
  BY <1>16 DEF CloseUpdates, Go, shared, watched, perViewer, Connected
<1>17. ASSUME NEW v \in Viewers, NEW w \in Viewers, Tell(v, w) PROVE TypeShown'
  BY <1>17 DEF Tell, Go, shared, watched, perViewer, Connected
<1>18. CASE UNCHANGED viewersVars
  BY <1>18 DEF viewersVars, shared, watched, perViewer, Connected
<1> QED BY <1>1, <1>2, <1>3, <1>4, <1>5, <1>6, <1>7, <1>8, <1>9, <1>10, <1>11,
       <1>12, <1>13, <1>14, <1>15, <1>16, <1>17, <1>18 DEF ViewersNext, Serve,
       PeerCloses, WriteFails, Overflow, ReadExpires

(* A step that leaves who applies what, the recorded size and the          *)
(* terminal's, and tells newcomers the recorded one ...                    *)
SameAppliers == \A u \in Viewers : u \in Applying' <=> u \in Applying
SameJobs ==
  \A u \in Viewers : u \in Applying =>
    /\ job'[u] = job[u] /\ todo'[u] = todo[u]
    /\ (pc'[u] = "telling" => pc[u] = "telling")
NewcomersKnow ==
  \A u \in Viewers : u \in Registered' =>
    \/ u \in Registered /\ told'[u] = told[u]
    \/ told'[u] = applied
SameShared == applied' = applied /\ pty' = pty /\ raced' = raced

(* ... keeps OneApplies.                                                   *)
LEMMA Untouched ==
  ASSUME OneApplies, SameShared,
         Applying \in SUBSET Viewers, Applying' \in SUBSET Viewers,
         SameAppliers,
         SameJobs,
         NewcomersKnow,
         Registered \in SUBSET Viewers, Registered' \in SUBSET Viewers
  PROVE  OneApplies'
<1> USE DEF SameAppliers, SameJobs, NewcomersKnow, SameShared
<1> SUFFICES ASSUME applied # NoSize, ~raced PROVE
      /\ \A v, w \in Applying' : v = w
      /\ \A v \in Applying' :
           /\ job'[v] = applied
           /\ pc'[v] = "telling" => pty = applied
           /\ \A w \in Registered' : w \in todo'[v] \/ told'[w] = applied
      /\ Applying' = {} => pty = applied /\ \A w \in Registered' : told'[w] = applied
  BY Zenon DEF OneApplies
<1>1. /\ \A v, w \in Applying : v = w
      /\ \A v \in Applying :
           /\ job[v] = applied
           /\ pc[v] = "telling" => pty = applied
           /\ \A w \in Registered : w \in todo[v] \/ told[w] = applied
      /\ Applying = {} => pty = applied /\ \A w \in Registered : told[w] = applied
  BY Zenon DEF OneApplies
<1>2. Applying' = Applying
  OBVIOUS
<1>3. \A w \in Registered' :
           told'[w] = applied \/ (w \in Registered /\ told'[w] = told[w])
  OBVIOUS
<1>4. ASSUME NEW v \in Applying PROVE
           /\ job'[v] = applied
           /\ pc'[v] = "telling" => pty = applied
           /\ \A w \in Registered' : w \in todo'[v] \/ told'[w] = applied
  <2>1. job'[v] = job[v] /\ todo'[v] = todo[v] /\ (pc'[v] = "telling" => pc[v] = "telling")
    <3>1. v \in Viewers
      OBVIOUS
    <3> QED BY <3>1, Zenon
  <2> QED BY <1>1, <1>3, <2>1
<1> QED BY <1>1, <1>2, <1>3, <1>4

(* Every step that does not end in a race or without a size keeps          *)
(* OneApplies.                                                             *)
LEMMA OneAppliesStep ==
  ASSUME ViewersTypeOK, ViewersPlaced, OneApplies, applied' # NoSize, raced' = FALSE,
         [ViewersNext]_viewersVars
  PROVE  OneApplies'
<1>0. /\ Applying \in SUBSET Viewers /\ Applying' \in SUBSET Viewers
      /\ Registered \in SUBSET Viewers /\ Registered' \in SUBSET Viewers
  BY DEF Applying, Registered
<1>19. applied' # NoSize /\ raced' = FALSE
  OBVIOUS
<1> USE DEF ViewersTypeOK, ViewersPlaced, ViewerPlaced
<1>1. ASSUME NEW v \in Viewers, Register(v) PROVE OneApplies'
  <2>1. SameAppliers
    BY <1>1 DEF SameAppliers, Register, Go, Applying
  <2>2. SameJobs
    BY <1>1 DEF SameJobs, Register, Go, Applying
  <2>3. NewcomersKnow
    BY <1>1 DEF NewcomersKnow, Register, Go, Registered
  <2>4. SameShared
    BY <1>1 DEF SameShared, Register, shared, watched
  <2> QED BY <1>0, <2>1, <2>2, <2>3, <2>4, Untouched, Zenon
<1>2. ASSUME NEW v \in Viewers, StreamOpens(v) PROVE OneApplies'
  <2>1. SameAppliers
    BY <1>2 DEF SameAppliers, StreamOpens, Go, Applying
  <2>2. SameJobs
    BY <1>2 DEF SameJobs, StreamOpens, Go, Applying
  <2>3. NewcomersKnow
    BY <1>2 DEF NewcomersKnow, StreamOpens, Go, Registered
  <2>4. SameShared
    BY <1>2 DEF SameShared, StreamOpens, shared, watched
  <2> QED BY <1>0, <2>1, <2>2, <2>3, <2>4, Untouched, Zenon
<1>3. ASSUME NEW v \in Viewers, StreamEnds(v) PROVE OneApplies'
  <2>1. SameAppliers
    BY <1>3 DEF SameAppliers, StreamEnds, Go, Applying
  <2>2. SameJobs
    BY <1>3 DEF SameJobs, StreamEnds, Go, Applying
  <2>3. NewcomersKnow
    BY <1>3 DEF NewcomersKnow, StreamEnds, Go, Registered
  <2>4. SameShared
    BY <1>3 DEF SameShared, StreamEnds, shared, watched
  <2> QED BY <1>0, <2>1, <2>2, <2>3, <2>4, Untouched, Zenon
<1>4. ASSUME NEW v \in Viewers, NEW z \in Grids, Propose(v, z) PROVE OneApplies'
  <2>1. Recompute(v, Registered, size') /\ size' = [size EXCEPT ![v] = z]
    BY <1>4 DEF Propose
  <2>2. Recomputed(v, Registered, size')
    BY <2>1, RecomputeIs, Zenon
  <2>5. applied' # NoSize /\ raced' = FALSE
    BY <1>19
  <2>3. CASE applied' \in {NoSize, applied} /\ UNCHANGED <<job, todo, raced>>
    <3>5. SameAppliers
      BY <1>4, <2>1, <2>3 DEF SameAppliers, Propose, Go, Applying
    <3>6. SameJobs
      BY <1>4, <2>1, <2>3 DEF SameJobs, Propose, Go, Applying
    <3>7. NewcomersKnow
      BY <1>4, <2>1, <2>3 DEF NewcomersKnow, Propose, Go, Registered
    <3>8. SameShared
      BY <1>4, <2>1, <2>3, <2>5 DEF SameShared, Propose, shared, watched
    <3> QED BY <1>0, <3>5, <3>6, <3>7, <3>8, Untouched, Zenon
  <2>4. CASE /\ applied' \notin {NoSize, applied}
             /\ job' = [job EXCEPT ![v] = applied'] /\ todo' = [todo EXCEPT ![v] = Registered]
             /\ raced' = (Applying # {})
    <3>1. Applying = {}
      BY <2>4, <2>5
    <3>2. \A u \in Viewers : u \in Applying' <=> u = v
      BY <1>4, <2>4, <3>1 DEF Propose, Go, Applying
    <3>3. job'[v] = applied' /\ pc'[v] # "telling" /\ todo'[v] = Registered
      BY <1>4, <2>4 DEF Propose, Go
    <3>4. \A u \in Viewers : u \in Registered' => u \in Registered
      BY <1>4 DEF Propose, Go, Registered
    <3>5. \A u \in Registered' : u \in todo'[v]
      BY <1>0, <3>3, <3>4
    <3>6. v \in Applying' /\ \A u \in Applying' : u = v
      BY <1>0, <3>2
    <3> QED BY <3>3, <3>5, <3>6 DEF OneApplies
  <2> QED BY <2>2, <2>3, <2>4, Zenon DEF Recomputed
<1>5. ASSUME NEW v \in Viewers, PeerGone(v) PROVE OneApplies'
  <2>1. SameAppliers
    BY <1>5 DEF SameAppliers, PeerGone, Go, Applying
  <2>2. SameJobs
    BY <1>5 DEF SameJobs, PeerGone, Go, Applying
  <2>3. NewcomersKnow
    BY <1>5 DEF NewcomersKnow, PeerGone, Go, Registered
  <2>4. SameShared
    BY <1>5 DEF SameShared, PeerGone, shared, watched
  <2> QED BY <1>0, <2>1, <2>2, <2>3, <2>4, Untouched, Zenon
<1>6. ASSUME NEW v \in Viewers, WriteBlocks(v) PROVE OneApplies'
  <2>1. SameAppliers
    BY <1>6 DEF SameAppliers, WriteBlocks, Go, Applying
  <2>2. SameJobs
    BY <1>6 DEF SameJobs, WriteBlocks, Go, Applying
  <2>3. NewcomersKnow
    BY <1>6 DEF NewcomersKnow, WriteBlocks, Go, Registered
  <2>4. SameShared
    BY <1>6 DEF SameShared, WriteBlocks, shared, watched
  <2> QED BY <1>0, <2>1, <2>2, <2>3, <2>4, Untouched, Zenon
<1>7. ASSUME NEW v \in Viewers, WriteResumes(v) PROVE OneApplies'
  <2>1. SameAppliers
    BY <1>7 DEF SameAppliers, WriteResumes, Go, Applying
  <2>2. SameJobs
    BY <1>7 DEF SameJobs, WriteResumes, Go, Applying
  <2>3. NewcomersKnow
    BY <1>7 DEF NewcomersKnow, WriteResumes, Go, Registered
  <2>4. SameShared
    BY <1>7 DEF SameShared, WriteResumes, shared, watched
  <2> QED BY <1>0, <2>1, <2>2, <2>3, <2>4, Untouched, Zenon
<1>8. ASSUME NEW v \in Viewers, Returns(v) PROVE OneApplies'
  <2>1. SameAppliers
    BY <1>8 DEF SameAppliers, Returns, Go, Applying
  <2>2. SameJobs
    BY <1>8 DEF SameJobs, Returns, Go, Applying
  <2>3. NewcomersKnow
    BY <1>8 DEF NewcomersKnow, Returns, Go, Registered
  <2>4. SameShared
    BY <1>8 DEF SameShared, Returns, shared, watched
  <2> QED BY <1>0, <2>1, <2>2, <2>3, <2>4, Untouched, Zenon
<1>9. ASSUME NEW v \in Viewers, SetType(v) PROVE OneApplies'
  <2>1. SameAppliers
    BY <1>9 DEF SameAppliers, SetType, Go, Applying
  <2>2. SameJobs
    BY <1>9 DEF SameJobs, SetType, Go, Applying
  <2>3. NewcomersKnow
    BY <1>9 DEF NewcomersKnow, SetType, Go, Registered
  <2>4. SameShared
    BY <1>9 DEF SameShared, SetType, shared, watched
  <2> QED BY <1>0, <2>1, <2>2, <2>3, <2>4, Untouched, Zenon
<1>10. ASSUME NEW v \in Viewers, Resize(v) PROVE OneApplies'
  <2>1. applied' = applied /\ raced = FALSE
    BY <1>19, <1>10 DEF Resize, Resized, shared, watched
  <2>2. v \in Applying /\ pc[v] = "applying"
    BY <1>10 DEF Resize, Resized, Applying
  <2>3. /\ \A u \in Applying : u = v
        /\ job[v] = applied
        /\ \A u \in Registered : u \in todo[v] \/ told[u] = applied
    BY <1>19, <2>1, <2>2 DEF OneApplies
  <2>4. SameAppliers
    BY <1>10 DEF SameAppliers, Resize, Resized, Go, Applying
  <2>5. \A u \in Viewers : u \in Registered' <=> u \in Registered
    BY <1>10 DEF Resize, Resized, Go, Registered
  <2>6. pty' = applied /\ job' = job /\ todo' = todo /\ told' = told
    BY <1>19, <1>10, <2>3 DEF Resize, Resized
  <2>7. \A u \in Applying' : u = v
    BY <1>0, <2>3, <2>4 DEF SameAppliers
  <2>8. v \in Applying'
    BY <2>2, <2>4 DEF SameAppliers
  <2>9. \A u \in Registered' : u \in todo'[v] \/ told'[u] = applied
    BY <1>0, <2>3, <2>5, <2>6
  <2> QED BY <2>1, <2>3, <2>6, <2>7, <2>8, <2>9 DEF OneApplies
<1>11. ASSUME NEW v \in Viewers, TellPanics(v) PROVE OneApplies'
  BY <1>19, <1>11 DEF TellPanics
<1>12. ASSUME NEW v \in Viewers, Told(v) PROVE OneApplies'
  <2>1. applied' = applied /\ raced = FALSE
    BY <1>19, <1>12 DEF Told, shared, watched
  <2>2. v \in Applying /\ pc[v] = "telling"
    BY <1>12 DEF Told, Applying
  <2>3. /\ \A u \in Applying : u = v
        /\ job[v] = applied /\ pty = applied
        /\ \A u \in Registered : u \in todo[v] \/ told[u] = applied
    BY <1>19, <2>1, <2>2 DEF OneApplies
  <2>4. \A u \in Viewers : u \in Applying' <=> u \in Applying /\ u # v
    BY <1>12 DEF Told, Go, Applying
  <2>5. \A u \in Viewers : u \in Registered' <=> u \in Registered
    BY <1>12 DEF Told, Go, Registered
  <2>6. pty' = pty /\ told' = told /\ todo[v] = {}
    BY <1>12 DEF Told, shared
  <2>7. Applying' = {}
    BY <1>0, <2>3, <2>4
  <2>8. \A u \in Registered' : told'[u] = applied
    BY <1>0, <2>3, <2>5, <2>6
  <2> QED BY <2>1, <2>3, <2>6, <2>7, <2>8 DEF OneApplies
<1>13. ASSUME NEW v \in Viewers, Update(v) PROVE OneApplies'
  <2>1. SameAppliers
    BY <1>13 DEF SameAppliers, Update, Go, Applying
  <2>2. SameJobs
    BY <1>13 DEF SameJobs, Update, Go, Applying
  <2>3. NewcomersKnow
    BY <1>13 DEF NewcomersKnow, Update, Go, Registered
  <2>4. SameShared
    BY <1>13 DEF SameShared, Update, shared, watched
  <2> QED BY <1>0, <2>1, <2>2, <2>3, <2>4, Untouched, Zenon
<1>14. ASSUME NEW v \in Viewers, ClearType(v) PROVE OneApplies'
  <2>1. SameAppliers
    BY <1>14 DEF SameAppliers, ClearType, Go, Applying
  <2>2. SameJobs
    BY <1>14 DEF SameJobs, ClearType, Go, Applying
  <2>3. NewcomersKnow
    BY <1>14 DEF NewcomersKnow, ClearType, Go, Registered
  <2>4. SameShared
    BY <1>14 DEF SameShared, ClearType, shared, watched
  <2> QED BY <1>0, <2>1, <2>2, <2>3, <2>4, Untouched, Zenon
<1>15. ASSUME NEW v \in Viewers, Unregister(v) PROVE OneApplies'
  <2>1. Recompute(v, Registered \ {v}, size) /\ size' = [size EXCEPT ![v] = NoSize]
    BY <1>15 DEF Unregister
  <2>2. Recomputed(v, Registered \ {v}, size)
    BY <2>1, RecomputeIs, Zenon
  <2>5. applied' # NoSize /\ raced' = FALSE
    BY <1>19
  <2>3. CASE applied' \in {NoSize, applied} /\ UNCHANGED <<job, todo, raced>>
    <3>5. SameAppliers
      BY <1>15, <2>1, <2>3 DEF SameAppliers, Unregister, Go, Applying
    <3>6. SameJobs
      BY <1>15, <2>1, <2>3 DEF SameJobs, Unregister, Go, Applying
    <3>7. NewcomersKnow
      BY <1>15, <2>1, <2>3 DEF NewcomersKnow, Unregister, Go, Registered
    <3>8. SameShared
      BY <1>15, <2>1, <2>3, <2>5 DEF SameShared, Unregister, shared, watched
    <3> QED BY <1>0, <3>5, <3>6, <3>7, <3>8, Untouched, Zenon
  <2>4. CASE /\ applied' \notin {NoSize, applied}
             /\ job' = [job EXCEPT ![v] = applied'] /\ todo' = [todo EXCEPT ![v] = Registered \ {v}]
             /\ raced' = (Applying # {})
    <3>1. Applying = {}
      BY <2>4, <2>5
    <3>2. \A u \in Viewers : u \in Applying' <=> u = v
      BY <1>15, <2>4, <3>1 DEF Unregister, Go, Applying
    <3>3. job'[v] = applied' /\ pc'[v] # "telling" /\ todo'[v] = Registered \ {v}
      BY <1>15, <2>4 DEF Unregister, Go
    <3>4. \A u \in Viewers : u \in Registered' => u \in Registered \ {v}
      BY <1>15 DEF Unregister, Go, Registered
    <3>5. \A u \in Registered' : u \in todo'[v]
      BY <1>0, <3>3, <3>4
    <3>6. v \in Applying' /\ \A u \in Applying' : u = v
      BY <1>0, <3>2
    <3> QED BY <3>3, <3>5, <3>6 DEF OneApplies
  <2> QED BY <2>2, <2>3, <2>4, Zenon DEF Recomputed
<1>16. ASSUME NEW v \in Viewers, CloseUpdates(v) PROVE OneApplies'
  <2>1. SameAppliers
    BY <1>16 DEF SameAppliers, CloseUpdates, Go, Applying
  <2>2. SameJobs
    BY <1>16 DEF SameJobs, CloseUpdates, Go, Applying
  <2>3. NewcomersKnow
    BY <1>16 DEF NewcomersKnow, CloseUpdates, Go, Registered
  <2>4. SameShared
    BY <1>16 DEF SameShared, CloseUpdates, shared, watched
  <2> QED BY <1>0, <2>1, <2>2, <2>3, <2>4, Untouched, Zenon
<1>17. ASSUME NEW v \in Viewers, NEW w \in Viewers, Tell(v, w) PROVE OneApplies'
  <2>1. applied' = applied /\ raced = FALSE
    BY <1>19, <1>17 DEF Tell, shared, watched
  <2>2. v \in Applying /\ pc[v] = "telling"
    BY <1>17 DEF Tell, Applying
  <2>3. /\ \A u \in Applying : u = v
        /\ job[v] = applied /\ pty = applied
        /\ \A u \in Registered : u \in todo[v] \/ told[u] = applied
    BY <1>19, <2>1, <2>2 DEF OneApplies
  <2>4. SameAppliers
    BY <1>17 DEF SameAppliers, Tell, Applying
  <2>5. \A u \in Viewers : u \in Registered' <=> u \in Registered
    BY <1>17 DEF Tell, Registered
  <2>6. pty' = pty /\ job' = job /\ told'[w] = applied
    BY <1>17, <2>3 DEF Tell, shared
  <2>7. \A u \in Viewers \ {w} : told'[u] = told[u] /\ (u \in todo[v] => u \in todo'[v])
    BY <1>17 DEF Tell
  <2>8. \A u \in Registered' : u \in todo'[v] \/ told'[u] = applied
    BY <1>0, <2>3, <2>5, <2>6, <2>7
  <2>9. \A u \in Applying' : u = v
    BY <1>0, <2>3, <2>4 DEF SameAppliers
  <2>10. v \in Applying'
    BY <2>2, <2>4 DEF SameAppliers
  <2> QED BY <2>1, <2>3, <2>6, <2>8, <2>9, <2>10 DEF OneApplies
<1>18. CASE UNCHANGED viewersVars
  <2>1. SameAppliers
    BY <1>18 DEF SameAppliers, viewersVars, perViewer, Go, Applying
  <2>2. SameJobs
    BY <1>18 DEF SameJobs, viewersVars, perViewer, Go, Applying
  <2>3. NewcomersKnow
    BY <1>18 DEF NewcomersKnow, viewersVars, perViewer, Go, Registered
  <2>4. SameShared
    BY <1>18 DEF SameShared, viewersVars, perViewer, shared, watched
  <2> QED BY <1>0, <2>1, <2>2, <2>3, <2>4, Untouched, Zenon
<1> QED BY <1>1, <1>2, <1>3, <1>4, <1>5, <1>6, <1>7, <1>8, <1>9, <1>10, <1>11,
       <1>12, <1>13, <1>14, <1>15, <1>16, <1>17, <1>18 DEF ViewersNext, Serve,
       PeerCloses, WriteFails, Overflow, ReadExpires

(* It holds at the start, ...                                              *)
LEMMA ViewersInitially == ViewersInit => ViewersIInv
<1> SUFFICES ASSUME ViewersInit PROVE ViewersIInv
  OBVIOUS
<1>1. ViewersTypeOK
  <2>1. NoSize \in KnownSizes
    BY DEF KnownSizes
  <2> QED BY <2>1 DEF ViewersInit, ViewersTypeOK
<1>2. ViewersPlaced
  BY DEF ViewersInit, ViewersPlaced, ViewerPlaced
<1>3. Registered = {}
  BY DEF ViewersInit, Registered
<1>4. SizeAgreed
  <2>1. {size[w] : w \in Registered} \ {NoSize} = {}
    BY <1>3
  <2> QED BY <2>1 DEF ViewersInit, SizeAgreed, FitFor
<1>5. OneApplies /\ TypeShown
  BY DEF ViewersInit, OneApplies, TypeShown, Connected
<1> QED BY <1>1, <1>2, <1>4, <1>5 DEF ViewersIInv

(* ... every step keeps it, ...                                            *)
LEMMA ViewersStep == ViewersIInv /\ [ViewersNext]_viewersVars => ViewersIInv'
<1> SUFFICES ASSUME ViewersIInv, [ViewersNext]_viewersVars PROVE ViewersIInv'
  OBVIOUS
<1>1. ViewersTypeOK /\ ViewersPlaced /\ SizeAgreed /\ OneApplies /\ TypeShown
  BY Zenon DEF ViewersIInv
<1>2. ViewersTypeOK' /\ ViewersPlaced' /\ SizeAgreed' /\ TypeShown'
  BY <1>1, ViewerTypesStep, PlacedStep, SizeAgreedStep, TypeShownStep, Zenon
<1>3. OneApplies'
  <2>1. CASE applied' # NoSize /\ raced' = FALSE
    BY <1>1, <2>1, OneAppliesStep, Zenon
  <2>2. CASE applied' = NoSize \/ raced' # FALSE
    <3>1. raced' \in BOOLEAN
      BY <1>2, Zenon DEF ViewersTypeOK
    <3> QED BY <2>2, <3>1 DEF OneApplies
  <2> QED BY <2>1, <2>2, Zenon
<1> QED BY <1>2, <1>3, Zenon DEF ViewersIInv

(* ... and it implies what the runs check.                                 *)
LEMMA ViewersGive == ViewersIInv => ViewersInv
<1> SUFFICES ASSUME ViewersIInv PROVE ViewersInv
  OBVIOUS
<1>1. ASSUME Applying = {}, applied # NoSize, ~raced
      PROVE  pty = applied /\ \A v \in Registered : told[v] = applied
  BY <1>1, Zenon DEF ViewersIInv, OneApplies
<1>2. applied = LET Sized == {size[v] : v \in Registered} \ {NoSize}
                IN  IF Sized = {} THEN NoSize ELSE Smallest(Sized)
  BY Zenon DEF ViewersIInv, SizeAgreed, FitFor
<1>3. SizeShared
  BY <1>1, <1>2, Zenon DEF SizeShared
<1> QED BY <1>3, Zenon DEF ViewersIInv, ViewersInv

(* Whatever sizes viewers propose and however they come, stall, vanish and *)
(* leave: when nobody is applying a size, the recorded one is the smallest *)
(* that fits all, and unless an application overlapped another or failed,  *)
(* the terminal has it and every viewer knows it (recomputeTTYSizeLocked,  *)
(* applyTTYSize).                                                          *)
THEOREM SizeAlwaysShared == ViewersSpec => []ViewersInv
<1>1. ViewersIInv => ViewersInv
  BY ViewersGive
<1> QED BY ViewersInitially, ViewersStep, <1>1, PTL DEF ViewersSpec

(* The connection type the status shows is that of a connection there is,  *)
(* and is shown while there is one, unless a viewer that left wiped it     *)
(* (UpdateConnectionType, ClearConnectionType).                            *)
THEOREM TypeAlwaysShown == ViewersSpec => []TypeShown
<1>1. ViewersIInv => TypeShown
  BY Zenon DEF ViewersIInv
<1> QED BY ViewersInitially, ViewersStep, <1>1, PTL DEF ViewersSpec
=============================================================================
