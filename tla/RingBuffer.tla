----------------------------- MODULE RingBuffer -----------------------------
(***************************************************************************)
(* internal/framework/ringbuffer.go: the last Cap bytes an instance wrote, *)
(* kept in a slice that is addressed modulo Cap.  Every method holds mu    *)
(* throughout, so each is one step.                                        *)
(*                                                                         *)
(* log is no part of the code: it is the sequence of all bytes accepted so *)
(* far, what the buffer is the end of.  Offset o of the code is log[o + 1].*)
(***************************************************************************)
EXTENDS Integers, Sequences

CONSTANTS Cap,      \* capBytes
          Byte,     \* what is written
          Zero      \* content of a slot nobody has written

ASSUME CapAssumption == Cap \in Nat \ {0}

VARIABLES data, head, used, closed, log

ringVars == <<data, head, used, closed, log>>

Slots == 0..(Cap - 1)

Lesser(m, n) == IF m < n THEN m ELSE n

(* NewRingBuffer. *)
RingInit ==
  /\ data = [k \in Slots |-> Zero]
  /\ head = 0 /\ used = 0 /\ closed = FALSE
  /\ log = <<>>

(***************************************************************************)
(* write: only the last Cap bytes of p matter; they go to slot pos and up, *)
(* and what does not fit before the end of the slice goes to its start.    *)
(***************************************************************************)
NoWrap(p) ==                 \* mutant of Written: without the second copy
  LET skip == IF Len(p) > Cap THEN Len(p) - Cap ELSE 0
      pos  == (head + skip) % Cap
      n    == Lesser(Cap - pos, Len(p) - skip)
  IN  [k \in Slots |->
         IF k \in pos..(pos + n - 1) THEN p[skip + (k - pos) + 1] ELSE data[k]]

Written(p) ==
  LET skip == IF Len(p) > Cap THEN Len(p) - Cap ELSE 0
      pos  == (head + skip) % Cap
      n    == Lesser(Cap - pos, Len(p) - skip)
  IN  [k \in Slots |->
         IF k \in pos..(pos + n - 1)      THEN p[skip + (k - pos) + 1]
         ELSE IF k < (Len(p) - skip) - n  THEN p[skip + n + k + 1]
         ELSE data[k]]

Write(p) ==
  IF closed
    THEN UNCHANGED ringVars
    ELSE /\ data' = Written(p)
         /\ head' = head + Len(p)
         /\ used' = Lesser(used + Len(p), Cap)
         /\ log' = log \o p
         /\ UNCHANGED closed

(* Close drops the bytes and keeps the offset.                             *)
CloseRing ==
  /\ closed' = TRUE /\ data' = <<>> /\ used' = 0
  /\ UNCHANGED <<head, log>>

(***************************************************************************)
(* The reads.                                                              *)
(***************************************************************************)
Oldest == head - used

CopyRange(start, n) ==       \* copyRangeLocked
  IF closed \/ n <= 0 THEN <<>>
  ELSE LET pos    == start % Cap
           copied == Lesser(n, Cap - pos)
       IN  [k \in 1..n |-> IF k <= copied THEN data[pos + k - 1]
                                          ELSE data[k - copied - 1]]

TailRead(n) ==           \* RingBuffer.Tail
  [body |-> IF n <= 0 \/ used = 0 THEN <<>>
            ELSE CopyRange(head - Lesser(n, used), Lesser(n, used)),
   off  |-> head]

(* A cursor at the head or beyond comes back as it is; one the buffer has  *)
(* overwritten is moved to the oldest byte left.                           *)
ReadSince(since, max) ==
  IF since >= head \/ max = 0
    THEN [body |-> <<>>, next |-> since]
    ELSE LET start == IF since < Oldest THEN Oldest ELSE since
             avail == Lesser(head - start, max)
         IN  [body |-> CopyRange(start, avail), next |-> start + avail]

RingNext == CloseRing \/ \E p \in Seq(Byte) : p # <<>> /\ Write(p)
RingSpec == RingInit /\ [][RingNext]_ringVars

----------------------------------------------------------------------------
RingTypeOK ==
  /\ closed \in BOOLEAN
  /\ log \in Seq(Byte)
  /\ head \in Nat /\ used \in 0..Cap
  /\ closed => data = <<>>
  /\ ~closed => data \in [Slots -> Byte \cup {Zero}]

(* The buffer holds exactly the last Cap bytes written, each in the slot   *)
(* that reads look for it in, however the writes were cut into chunks; and *)
(* offsets count every byte ever accepted.                                 *)
HoldsTail ==
  /\ head = Len(log)
  /\ used = IF closed THEN 0 ELSE Lesser(head, Cap)
  /\ \A o \in Oldest..(head - 1) : data[o % Cap] = log[o + 1]
=============================================================================
