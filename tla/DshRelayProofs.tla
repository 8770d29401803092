--------------------------- MODULE DshRelayProofs ---------------------------
(***************************************************************************)
(* Any mix of callers, any number of rotations and attempts: a retry never *)
(* carries a cookie older than the one its caller dropped, the advisory    *)
(* names no session only managed processes wrote, and the page is told     *)
(* where the last session was made.  Then the bridged socket, for any      *)
(* number of messages either way.                                          *)
(***************************************************************************)
EXTENDS DshRelay, DshBridge, SequenceTheorems, TLAPS

(* Whatever a caller has dropped is gone: the cookie there is, one that is *)
(* being stored and one that is carried are of a later generation.         *)
DroppedGone ==
  /\ \A r \in callers : note[r] <= gen /\ ck[r] <= gen
  /\ cookie <= gen
  /\ cookie # 0 => \A r \in callers : note[r] <= cookie
  /\ \A q, r \in callers : pc[q] = "minted" => note[r] <= ck[q]
  /\ RetryIsFresh

(* A session is marked before its prompt is sent, and the mark stays while *)
(* the request is under way.                                               *)
PromptMarked == "call" \in callers /\ pc["call"] # "idle" => "old" \in own

(* Whoever wrote a session is known: it is marked, another process wrote   *)
(* it, or its case is one of the excused.  The same holds of what a scan   *)
(* has read, for nothing is unmarked under it.                             *)
WritersKnown ==
  /\ fresh \cup busy \subseteq own \cup alien \cup excuse
  /\ scan # <<>> => scan[1] \subseteq own \cup alien \cup excuse
  /\ OwnNotForeign

(* The record is the place of the last request, unless that could not be   *)
(* compared or a workspace was added since; the last session is the one of *)
(* that request, unless it has not been made.                              *)
PlaceKnown ==
  /\ gap \cap {"unknown", "workspace"} = {} => Reported = want
  /\ "unsent" \notin gap => where = want

Inv == RelayTypeOK /\ DroppedGone /\ PromptMarked /\ WritersKnown /\ PlaceKnown

(* The type invariant in two parts: the values, and the mutex.             *)
Tries  == 1..(IF Attempts > 2 THEN Attempts ELSE 2)
Places == {"idle", "lock", "exchange", "minted", "send", "refused", "answer", "joined"}

AuthTypes ==
  /\ gen \in 1..MaxGen /\ cookie \in 0..MaxGen /\ expired \in BOOLEAN /\ throttle \in 0..2
  /\ pc \in [callers -> Places] /\ try \in [callers -> Tries]
  /\ ck \in [callers -> 0..MaxGen] /\ note \in [callers -> 0..MaxGen]

WatchTypes ==
  /\ fresh \subseteq Sessions /\ busy \subseteq Sessions /\ own \subseteq Sessions
  /\ foreign \subseteq Sessions /\ alien \subseteq Sessions /\ excuse \subseteq Sessions
  /\ scan = <<>> \/ scan[1] \subseteq Sessions

WarnTypes ==
  /\ home \in BOOLEAN /\ scope \in {"none", "in", "out"} /\ want \in {"in", "out"}
  /\ where \in {"in", "out"} /\ gap \subseteq {"unsent", "unknown", "workspace"}

MutexHeld ==
  /\ holder \in callers \cup {"none"}
  /\ \A r \in callers : pc[r] \in {"exchange", "minted"} <=> holder = r

Typed == callers \in Scenes /\ AuthTypes /\ WatchTypes /\ WarnTypes /\ MutexHeld

----------------------------------------------------------------------------
LEMMA InvGives == Inv => RelayInv /\ OwnNotForeign
<1> SUFFICES ASSUME Inv PROVE RelayInv /\ OwnNotForeign
  OBVIOUS
<1>1. ScopeTold
  BY DEF Inv, PlaceKnown, ScopeTold
<1> QED BY <1>1 DEF Inv, DroppedGone, WritersKnown, RelayInv

LEMMA TypedIsTypeOK == RelayTypeOK <=> Typed
<1>1. callers \in Scenes => "none" \notin callers
  BY RelayParams DEF Callers
<1>2. ASSUME callers \in Scenes
      PROVE  ({r \in callers : pc[r] \in {"exchange", "minted"}}
                = IF holder = "none" THEN {} ELSE {holder}) <=> MutexHeld
  <2>1. CASE holder = "none"
    BY <1>1, <1>2, <2>1 DEF MutexHeld
  <2>2. CASE holder # "none"
    BY <1>1, <1>2, <2>2 DEF MutexHeld
  <2> QED BY <2>1, <2>2
<1> QED BY <1>2 DEF RelayTypeOK, Typed, AuthTypes, WatchTypes, WarnTypes, Tries, Places

LEMMA InvInit == Init => Inv
<1> SUFFICES ASSUME Init PROVE Inv
  OBVIOUS
<1>1. /\ MaxGen \in Nat \ {0} /\ Attempts \in Nat \ {0}
      /\ callers \in Scenes /\ "none" \notin callers
  BY RelayParams DEF Init, Callers
<1>2. AuthTypes
  <2>1. 1 \in Tries /\ 1 \in 1..MaxGen
    BY <1>1 DEF Tries
  <2>2. pc \in [callers -> Places] /\ try \in [callers -> Tries]
    BY <2>1 DEF Init, Places
  <2>3. ck \in [callers -> 0..MaxGen] /\ note \in [callers -> 0..MaxGen]
    BY <1>1 DEF Init
  <2>4. gen \in 1..MaxGen /\ cookie \in 0..MaxGen
    BY <1>1, <2>1 DEF Init
  <2>5. throttle \in 0..2
    BY DEF Init
  <2>6. expired \in BOOLEAN
    BY DEF Init
  <2> QED BY <2>2, <2>3, <2>4, <2>5, <2>6 DEF AuthTypes
<1>3. RelayTypeOK
  BY <1>1, <1>2, TypedIsTypeOK DEF Init, Typed, WatchTypes, WarnTypes, MutexHeld
<1> QED BY <1>1, <1>3 DEF Init, Inv, DroppedGone, RetryIsFresh, PromptMarked, WritersKnown,
                        OwnNotForeign, PlaceKnown, Reported

----------------------------------------------------------------------------
(* What a step keeps: the callers never change, and the session pool is    *)
(* untouched by the exchange of the cookie, and the other way round.       *)
LEMMA SameCallers == [Next]_vars => callers' = callers /\ Sessions' = Sessions
<1> SUFFICES ASSUME [Next]_vars PROVE callers' = callers
  BY DEF Sessions
<1>1. ASSUME NEW r \in callers, Begin(r) PROVE callers' = callers
  BY <1>1 DEF Begin
<1>2. ASSUME NEW r \in callers, Cookie(r) PROVE callers' = callers
  BY <1>2 DEF Cookie
<1>3. ASSUME NEW r \in callers, Exchanged(r) PROVE callers' = callers
  BY <1>3 DEF Exchanged
<1>4. ASSUME NEW r \in callers, Minted(r) PROVE callers' = callers
  BY <1>4 DEF Minted
<1>5. ASSUME NEW r \in callers, MintFails(r) PROVE callers' = callers
  BY <1>5 DEF MintFails
<1>6. ASSUME NEW r \in callers, Accepted(r) PROVE callers' = callers
  BY <1>6 DEF Accepted
<1>7. ASSUME NEW r \in callers, Broken(r) PROVE callers' = callers
  BY <1>7 DEF Broken
<1>8. ASSUME NEW r \in callers, Refused(r) PROVE callers' = callers
  BY <1>8 DEF Refused
<1>9. ASSUME NEW r \in callers, Invalidate(r) PROVE callers' = callers
  BY <1>9 DEF Invalidate, Drop
<1>10. ASSUME NEW s \in Sessions, Touch(s) PROVE callers' = callers
  BY <1>10 DEF Touch
<1>11. ASSUME NEW s \in Sessions, ForeignWrites(s) PROVE callers' = callers
  BY <1>11 DEF ForeignWrites
<1>12. ASSUME NEW s \in Sessions, FreshEnds(s) PROVE callers' = callers
  BY <1>12 DEF FreshEnds
<1>13. ASSUME NEW s \in Sessions, OwnExpires(s) PROVE callers' = callers
  BY <1>13 DEF OwnExpires
<1>14. CASE Hangup
  BY <1>14 DEF Hangup
<1>15. CASE Tick
  BY <1>15 DEF Tick
<1>16. CASE Expire
  BY <1>16 DEF Expire
<1>17. CASE Rotate
  BY <1>17 DEF Rotate
<1>18. CASE Drained
  BY <1>18 DEF Drained
<1>19. CASE Undrained
  BY <1>19 DEF Undrained
<1>20. CASE AddWorkspace
  BY <1>20 DEF AddWorkspace
<1>21. CASE PoolGone
  BY <1>21 DEF PoolGone
<1>22. CASE ScanReads
  BY <1>22 DEF ScanReads
<1>23. CASE ScanPublishes
  BY <1>23 DEF ScanPublishes
<1>24. CASE UNCHANGED vars
  BY <1>24 DEF vars
<1> QED BY <1>1, <1>2, <1>3, <1>4, <1>5, <1>6, <1>7, <1>8, <1>9, <1>10, <1>11, <1>12,
   <1>13, <1>14, <1>15, <1>16, <1>17, <1>18, <1>19, <1>20, <1>21, <1>22, <1>23, <1>24
   DEF Next, Step

(* The next attempt, as a fact about every caller.                         *)
LEMMA AgainGives ==
  ASSUME AuthTypes, NEW r \in callers, Again(r)
  PROVE  /\ pc' \in [callers -> Places] /\ try' \in [callers -> Tries]
         /\ pc'[r] \in {"lock", "idle"}
         /\ \A q \in callers \ {r} : pc'[q] = pc[q]
<1>1. /\ Attempts \in Nat \ {0} /\ pc \in [callers -> Places] /\ try \in [callers -> Tries]
  BY RelayParams DEF AuthTypes
<1>2. CASE try[r] < (IF r = "boot" THEN Attempts ELSE IF r = "dial" THEN 2 ELSE 1)
  <2>1. try[r] + 1 \in Tries
    BY <1>1, <1>2 DEF Tries
  <2> QED BY <1>1, <1>2, <2>1 DEF Again, Go, Places
<1>3. CASE ~(try[r] < (IF r = "boot" THEN Attempts ELSE IF r = "dial" THEN 2 ELSE 1))
  BY <1>1, <1>3 DEF Again, Go, Places
<1> QED BY <1>2, <1>3

(* The cookie's and the callers' types.                                    *)
LEMMA AuthStep == AuthTypes /\ [Next]_vars => AuthTypes'
<1> SUFFICES ASSUME AuthTypes, [Next]_vars PROVE AuthTypes'
  OBVIOUS
<1>90. callers' = callers /\ MaxGen \in Nat \ {0} /\ Attempts \in Nat \ {0} /\ 1 \in Tries
  BY SameCallers, RelayParams DEF Tries
<1> USE <1>90 DEF AuthTypes, Go, auth, proc, Places
<1>1. ASSUME NEW r \in callers, Begin(r) PROVE AuthTypes'
  BY <1>1 DEF Begin
<1>2. ASSUME NEW r \in callers, Cookie(r) PROVE AuthTypes'
  BY <1>2 DEF Cookie
<1>3. ASSUME NEW r \in callers, Exchanged(r) PROVE AuthTypes'
  BY <1>3 DEF Exchanged
<1>4. ASSUME NEW r \in callers, Minted(r) PROVE AuthTypes'
  <2>1. pc' \in [callers -> Places] /\ ck' \in [callers -> 0..MaxGen]
    BY <1>4 DEF Minted
  <2>2. cookie' \in 0..MaxGen
    BY <1>4 DEF Minted
  <2> QED BY <1>4, <2>1, <2>2 DEF Minted
<1>5. ASSUME NEW r \in callers, MintFails(r) PROVE AuthTypes'
  BY <1>5 DEF MintFails
<1>6. ASSUME NEW r \in callers, Accepted(r) PROVE AuthTypes'
  BY <1>6 DEF Accepted
<1>7. ASSUME NEW r \in callers, Broken(r) PROVE AuthTypes'
  <2>1. CASE r = "boot"
    BY <1>7, <2>1, AgainGives DEF Broken
  <2>2. CASE r # "boot"
    BY <1>7, <2>2 DEF Broken
  <2> QED BY <2>1, <2>2
<1>8. ASSUME NEW r \in callers, Refused(r) PROVE AuthTypes'
  BY <1>8 DEF Refused
<1>9. ASSUME NEW r \in callers, Invalidate(r) PROVE AuthTypes'
  <2>1. /\ gen' \in 1..MaxGen /\ cookie' \in 0..MaxGen /\ expired' \in BOOLEAN /\ throttle' \in 0..2
        /\ ck' \in [callers -> 0..MaxGen] /\ note' \in [callers -> 0..MaxGen]
    BY <1>9 DEF Invalidate, Drop
  <2>2. pc' \in [callers -> Places] /\ try' \in [callers -> Tries]
    BY <1>9, AgainGives DEF Invalidate, Drop
  <2> QED BY <2>1, <2>2
<1>10. ASSUME NEW s \in Sessions, Touch(s) PROVE AuthTypes'
  BY <1>10 DEF Touch
<1>11. ASSUME NEW s \in Sessions, ForeignWrites(s) PROVE AuthTypes'
  BY <1>11 DEF ForeignWrites
<1>12. ASSUME NEW s \in Sessions, FreshEnds(s) PROVE AuthTypes'
  BY <1>12 DEF FreshEnds
<1>13. ASSUME NEW s \in Sessions, OwnExpires(s) PROVE AuthTypes'
  BY <1>13 DEF OwnExpires
<1>14. CASE Hangup
  BY <1>14 DEF Hangup
<1>15. CASE Tick
  BY <1>15 DEF Tick
<1>16. CASE Expire
  BY <1>16 DEF Expire
<1>17. CASE Rotate
  BY <1>17 DEF Rotate
<1>18. CASE Drained
  BY <1>18 DEF Drained
<1>19. CASE Undrained
  BY <1>19 DEF Undrained
<1>20. CASE AddWorkspace
  BY <1>20 DEF AddWorkspace
<1>21. CASE PoolGone
  BY <1>21 DEF PoolGone
<1>22. CASE ScanReads
  BY <1>22 DEF ScanReads
<1>23. CASE ScanPublishes
  BY <1>23 DEF ScanPublishes
<1>24. CASE UNCHANGED vars
  BY <1>24 DEF vars
<1> QED BY <1>1, <1>2, <1>3, <1>4, <1>5, <1>6, <1>7, <1>8, <1>9, <1>10, <1>11, <1>12,
   <1>13, <1>14, <1>15, <1>16, <1>17, <1>18, <1>19, <1>20, <1>21, <1>22, <1>23, <1>24
   DEF Next, Step

(* The session pool's and the record's types.                              *)
LEMMA PoolStep ==
  callers \in Scenes /\ WatchTypes /\ WarnTypes /\ [Next]_vars => WatchTypes' /\ WarnTypes'
<1> SUFFICES ASSUME callers \in Scenes, WatchTypes, WarnTypes, [Next]_vars
             PROVE  WatchTypes' /\ WarnTypes'
  OBVIOUS
<1>90. /\ callers' = callers /\ Sessions' = Sessions
       /\ \A r \in callers : (r = "call" => "old" \in Sessions) /\ (r = "create" => "new" \in Sessions)
  BY SameCallers DEF Sessions
<1> USE <1>90 DEF WatchTypes, WarnTypes, watch, warn
<1>1. ASSUME NEW r \in callers, Begin(r) PROVE WatchTypes' /\ WarnTypes'
  <2>1. WatchTypes'
    BY <1>1 DEF Begin, Observe, MarkOwn
  <2>2. WarnTypes'
    <3>1. CASE r = "create"
      <4>1. PICK t \in Targets : /\ Record(t) /\ want' = t[2]
                                /\ gap' = {"unsent"} \cup (IF Comparable(t) THEN {} ELSE {"unknown"})
        BY <1>1, <3>1 DEF Begin, Observe, Place
      <4>2. t[2] \in {"in", "out"}
        BY DEF Targets
      <4> QED BY <1>1, <4>1, <4>2 DEF Begin, Record
    <3>2. CASE r # "create"
      BY <1>1, <3>2 DEF Begin, Observe, Place
    <3> QED BY <3>1, <3>2
  <2> QED BY <2>1, <2>2
<1>2. ASSUME NEW r \in callers, Cookie(r) PROVE WatchTypes' /\ WarnTypes'
  BY <1>2 DEF Cookie
<1>3. ASSUME NEW r \in callers, Exchanged(r) PROVE WatchTypes' /\ WarnTypes'
  BY <1>3 DEF Exchanged
<1>4. ASSUME NEW r \in callers, Minted(r) PROVE WatchTypes' /\ WarnTypes'
  BY <1>4 DEF Minted
<1>5. ASSUME NEW r \in callers, MintFails(r) PROVE WatchTypes' /\ WarnTypes'
  BY <1>5 DEF MintFails
<1>6. ASSUME NEW r \in callers, Accepted(r) PROVE WatchTypes' /\ WarnTypes'
  <2>1. WarnTypes'
    BY <1>6 DEF Accepted
  <2>2. CASE r = "call" /\ pool
    BY <1>6, <2>1, <2>2 DEF Accepted, Written
  <2>3. CASE r = "create" /\ pool
    BY <1>6, <2>1, <2>3 DEF Accepted, Written
  <2>4. CASE r \notin {"call", "create"} \/ ~pool
    BY <1>6, <2>1, <2>4 DEF Accepted
  <2> QED BY <2>2, <2>3, <2>4
<1>7. ASSUME NEW r \in callers, Broken(r) PROVE WatchTypes' /\ WarnTypes'
  BY <1>7 DEF Broken
<1>8. ASSUME NEW r \in callers, Refused(r) PROVE WatchTypes' /\ WarnTypes'
  BY <1>8 DEF Refused
<1>9. ASSUME NEW r \in callers, Invalidate(r) PROVE WatchTypes' /\ WarnTypes'
  BY <1>9 DEF Invalidate, Drop
<1>10. ASSUME NEW s \in Sessions, Touch(s) PROVE WatchTypes' /\ WarnTypes'
  BY <1>10 DEF Touch
<1>11. ASSUME NEW s \in Sessions, ForeignWrites(s) PROVE WatchTypes' /\ WarnTypes'
  BY <1>11 DEF ForeignWrites
<1>12. ASSUME NEW s \in Sessions, FreshEnds(s) PROVE WatchTypes' /\ WarnTypes'
  BY <1>12 DEF FreshEnds
<1>13. ASSUME NEW s \in Sessions, OwnExpires(s) PROVE WatchTypes' /\ WarnTypes'
  BY <1>13 DEF OwnExpires
<1>14. CASE Hangup
  BY <1>14 DEF Hangup
<1>15. CASE Tick
  BY <1>15 DEF Tick
<1>16. CASE Expire
  BY <1>16 DEF Expire
<1>17. CASE Rotate
  BY <1>17 DEF Rotate
<1>18. CASE Drained
  BY <1>18 DEF Drained, MarkOwn
<1>19. CASE Undrained
  BY <1>19 DEF Undrained
<1>20. CASE AddWorkspace
  BY <1>20 DEF AddWorkspace
<1>21. CASE PoolGone
  BY <1>21 DEF PoolGone
<1>22. CASE ScanReads
  BY <1>22 DEF ScanReads
<1>23. CASE ScanPublishes
  BY <1>23 DEF ScanPublishes
<1>24. CASE UNCHANGED vars
  BY <1>24 DEF vars
<1> QED BY <1>1, <1>2, <1>3, <1>4, <1>5, <1>6, <1>7, <1>8, <1>9, <1>10, <1>11, <1>12,
   <1>13, <1>14, <1>15, <1>16, <1>17, <1>18, <1>19, <1>20, <1>21, <1>22, <1>23, <1>24
   DEF Next, Step

(* The mutex is held exactly during an exchange.                           *)
LEMMA MutexStep == callers \in Scenes /\ AuthTypes /\ MutexHeld /\ [Next]_vars => MutexHeld'
<1> SUFFICES ASSUME callers \in Scenes, AuthTypes, MutexHeld, [Next]_vars PROVE MutexHeld'
  OBVIOUS
<1>90. callers' = callers /\ "none" \notin callers /\ pc \in [callers -> Places]
  BY SameCallers, RelayParams DEF Callers, AuthTypes
<1>91. ASSUME holder' = holder, NEW r \in callers, \A q \in callers \ {r} : pc'[q] = pc[q],
              pc[r] \in {"exchange", "minted"} <=> pc'[r] \in {"exchange", "minted"}
       PROVE  MutexHeld'
  BY <1>90, <1>91 DEF MutexHeld
<1> USE <1>90 DEF MutexHeld, Go, auth, proc
<1>1. ASSUME NEW r \in callers, Begin(r) PROVE MutexHeld'
  BY <1>1, <1>91 DEF Begin
<1>2. ASSUME NEW r \in callers, Cookie(r) PROVE MutexHeld'
  BY <1>2 DEF Cookie
<1>3. ASSUME NEW r \in callers, Exchanged(r) PROVE MutexHeld'
  BY <1>3, <1>91 DEF Exchanged
<1>4. ASSUME NEW r \in callers, Minted(r) PROVE MutexHeld'
  BY <1>4 DEF Minted
<1>5. ASSUME NEW r \in callers, MintFails(r) PROVE MutexHeld'
  BY <1>5 DEF MintFails
<1>6. ASSUME NEW r \in callers, Accepted(r) PROVE MutexHeld'
  <2>1. pc'[r] \in {"answer", "joined", "idle"} /\ \A q \in callers \ {r} : pc'[q] = pc[q]
    BY <1>6 DEF Accepted
  <2> QED BY <1>6, <1>91, <2>1 DEF Accepted
<1>7. ASSUME NEW r \in callers, Broken(r) PROVE MutexHeld'
  <2>1. pc'[r] \in {"lock", "idle"} /\ \A q \in callers \ {r} : pc'[q] = pc[q]
    BY <1>7, AgainGives DEF Broken
  <2> QED BY <1>7, <1>91, <2>1 DEF Broken
<1>8. ASSUME NEW r \in callers, Refused(r) PROVE MutexHeld'
  BY <1>8, <1>91 DEF Refused
<1>9. ASSUME NEW r \in callers, Invalidate(r) PROVE MutexHeld'
  <2>1. pc'[r] \in {"lock", "idle"} /\ \A q \in callers \ {r} : pc'[q] = pc[q]
    BY <1>9, AgainGives DEF Invalidate, Drop
  <2> QED BY <1>9, <1>91, <2>1 DEF Invalidate, Drop
<1>10. ASSUME NEW s \in Sessions, Touch(s) PROVE MutexHeld'
  BY <1>10 DEF Touch
<1>11. ASSUME NEW s \in Sessions, ForeignWrites(s) PROVE MutexHeld'
  BY <1>11 DEF ForeignWrites
<1>12. ASSUME NEW s \in Sessions, FreshEnds(s) PROVE MutexHeld'
  BY <1>12 DEF FreshEnds
<1>13. ASSUME NEW s \in Sessions, OwnExpires(s) PROVE MutexHeld'
  BY <1>13 DEF OwnExpires
<1>14. CASE Hangup
  BY <1>14, <1>91 DEF Hangup
<1>15. CASE Tick
  BY <1>15 DEF Tick
<1>16. CASE Expire
  BY <1>16 DEF Expire
<1>17. CASE Rotate
  BY <1>17 DEF Rotate
<1>18. CASE Drained
  BY <1>18, <1>91 DEF Drained
<1>19. CASE Undrained
  BY <1>19, <1>91 DEF Undrained
<1>20. CASE AddWorkspace
  BY <1>20 DEF AddWorkspace
<1>21. CASE PoolGone
  BY <1>21 DEF PoolGone
<1>22. CASE ScanReads
  BY <1>22 DEF ScanReads
<1>23. CASE ScanPublishes
  BY <1>23 DEF ScanPublishes
<1>24. CASE UNCHANGED vars
  BY <1>24 DEF vars
<1> QED BY <1>1, <1>2, <1>3, <1>4, <1>5, <1>6, <1>7, <1>8, <1>9, <1>10, <1>11, <1>12,
   <1>13, <1>14, <1>15, <1>16, <1>17, <1>18, <1>19, <1>20, <1>21, <1>22, <1>23, <1>24
   DEF Next, Step

(* A cookie that a caller has dropped never comes back: dropping takes the *)
(* mutex, so no exchange of an older generation is under way.              *)
LEMMA DroppedStep ==
  callers \in Scenes /\ AuthTypes /\ MutexHeld /\ DroppedGone /\ [Next]_vars => DroppedGone'
<1> SUFFICES ASSUME callers \in Scenes, AuthTypes, MutexHeld, DroppedGone, [Next]_vars
             PROVE  DroppedGone'
  OBVIOUS
<1>90. /\ callers' = callers /\ "none" \notin callers /\ MaxGen \in Nat
       /\ gen \in 1..MaxGen /\ cookie \in 0..MaxGen /\ pc \in [callers -> Places]
       /\ ck \in [callers -> 0..MaxGen] /\ note \in [callers -> 0..MaxGen]
  BY SameCallers, RelayParams DEF Callers, AuthTypes
<1>91. ASSUME UNCHANGED <<gen, cookie, note>>, NEW r \in callers,
              \A q \in callers \ {r} : pc'[q] = pc[q] /\ ck'[q] = ck[q],
              pc'[r] \notin {"minted", "send"}, ck'[r] \in {0, ck[r]}
       PROVE  DroppedGone'
  BY <1>90, <1>91 DEF DroppedGone, RetryIsFresh
<1> USE <1>90 DEF DroppedGone, RetryIsFresh, Go, auth, proc
<1>1. ASSUME NEW r \in callers, Begin(r) PROVE DroppedGone'
  BY <1>1 DEF Begin
<1>2. ASSUME NEW r \in callers, Cookie(r) PROVE DroppedGone'
  BY <1>2 DEF Cookie
<1>3. ASSUME NEW r \in callers, Exchanged(r) PROVE DroppedGone'
  BY <1>3 DEF Exchanged
<1>4. ASSUME NEW r \in callers, Minted(r) PROVE DroppedGone'
  BY <1>4 DEF Minted
<1>5. ASSUME NEW r \in callers, MintFails(r) PROVE DroppedGone'
  BY <1>5 DEF MintFails
<1>6. ASSUME NEW r \in callers, Accepted(r) PROVE DroppedGone'
  <2>1. pc'[r] \in {"answer", "joined", "idle"} /\ \A q \in callers \ {r} : pc'[q] = pc[q]
    BY <1>6 DEF Accepted
  <2> QED BY <1>6, <1>91, <2>1 DEF Accepted
<1>7. ASSUME NEW r \in callers, Broken(r) PROVE DroppedGone'
  <2>1. pc'[r] \in {"lock", "idle"} /\ \A q \in callers \ {r} : pc'[q] = pc[q]
    BY <1>7, AgainGives DEF Broken
  <2> QED BY <1>7, <1>91, <2>1 DEF Broken
<1>8. ASSUME NEW r \in callers, Refused(r) PROVE DroppedGone'
  BY <1>8 DEF Refused
<1>9. ASSUME NEW r \in callers, Invalidate(r) PROVE DroppedGone'
  <2>1. pc'[r] \in {"lock", "idle"} /\ \A q \in callers \ {r} : pc'[q] = pc[q]
    BY <1>9, AgainGives DEF Invalidate, Drop
  <2>2. \A q \in callers : pc[q] # "minted"
    BY <1>9 DEF Invalidate, MutexHeld
  <2>3. \A q \in callers \ {r} : note'[q] = note[q]
    BY <1>9 DEF Invalidate, Drop
  <2>4. note'[r] = (IF throttle = 0 THEN gen ELSE 0) /\ cookie' = IF throttle = 0 THEN 0 ELSE cookie
    BY <1>9 DEF Invalidate, Drop
  <2>5. UNCHANGED <<gen, ck>>
    BY <1>9 DEF Invalidate, Drop
  <2> QED BY <2>1, <2>2, <2>3, <2>4, <2>5
<1>10. ASSUME NEW s \in Sessions, Touch(s) PROVE DroppedGone'
  BY <1>10 DEF Touch
<1>11. ASSUME NEW s \in Sessions, ForeignWrites(s) PROVE DroppedGone'
  BY <1>11 DEF ForeignWrites
<1>12. ASSUME NEW s \in Sessions, FreshEnds(s) PROVE DroppedGone'
  BY <1>12 DEF FreshEnds
<1>13. ASSUME NEW s \in Sessions, OwnExpires(s) PROVE DroppedGone'
  BY <1>13 DEF OwnExpires
<1>14. CASE Hangup
  BY <1>14, <1>91 DEF Hangup
<1>15. CASE Tick
  BY <1>15 DEF Tick
<1>16. CASE Expire
  BY <1>16 DEF Expire
<1>17. CASE Rotate
  BY <1>17 DEF Rotate
<1>18. CASE Drained
  BY <1>18, <1>91 DEF Drained
<1>19. CASE Undrained
  BY <1>19, <1>91 DEF Undrained
<1>20. CASE AddWorkspace
  BY <1>20 DEF AddWorkspace
<1>21. CASE PoolGone
  BY <1>21 DEF PoolGone
<1>22. CASE ScanReads
  BY <1>22 DEF ScanReads
<1>23. CASE ScanPublishes
  BY <1>23 DEF ScanPublishes
<1>24. CASE UNCHANGED vars
  BY <1>24 DEF vars
<1> QED BY <1>1, <1>2, <1>3, <1>4, <1>5, <1>6, <1>7, <1>8, <1>9, <1>10, <1>11, <1>12,
   <1>13, <1>14, <1>15, <1>16, <1>17, <1>18, <1>19, <1>20, <1>21, <1>22, <1>23, <1>24
   DEF Next, Step

(* The mark of a prompt.                                                   *)
LEMMA PromptStep ==
  callers \in Scenes /\ AuthTypes /\ PromptMarked /\ [Next]_vars => PromptMarked'
<1> SUFFICES ASSUME callers \in Scenes, AuthTypes, PromptMarked, [Next]_vars PROVE PromptMarked'
  OBVIOUS
<1>90. callers' = callers /\ pc \in [callers -> Places]
  BY SameCallers DEF AuthTypes
<1>91. ASSUME own \subseteq own', NEW r \in callers, pc[r] # "idle",
              \A q \in callers \ {r} : pc'[q] = pc[q]
       PROVE  PromptMarked'
  BY <1>90, <1>91 DEF PromptMarked
<1> USE <1>90 DEF PromptMarked, MarkOwn, Go, auth, proc, watch
<1>1. ASSUME NEW r \in callers, Begin(r) PROVE PromptMarked'
  BY <1>1 DEF Begin, Observe, MarkOwn
<1>2. ASSUME NEW r \in callers, Cookie(r) PROVE PromptMarked'
  BY <1>2 DEF Cookie
<1>3. ASSUME NEW r \in callers, Exchanged(r) PROVE PromptMarked'
  BY <1>3 DEF Exchanged
<1>4. ASSUME NEW r \in callers, Minted(r) PROVE PromptMarked'
  BY <1>4 DEF Minted
<1>5. ASSUME NEW r \in callers, MintFails(r) PROVE PromptMarked'
  BY <1>5 DEF MintFails
<1>6. ASSUME NEW r \in callers, Accepted(r) PROVE PromptMarked'
  BY <1>6, <1>91 DEF Accepted
<1>7. ASSUME NEW r \in callers, Broken(r) PROVE PromptMarked'
  <2>1. \A q \in callers \ {r} : pc'[q] = pc[q]
    BY <1>7, AgainGives DEF Broken
  <2> QED BY <1>7, <1>91, <2>1 DEF Broken
<1>8. ASSUME NEW r \in callers, Refused(r) PROVE PromptMarked'
  BY <1>8 DEF Refused
<1>9. ASSUME NEW r \in callers, Invalidate(r) PROVE PromptMarked'
  <2>1. \A q \in callers \ {r} : pc'[q] = pc[q]
    BY <1>9, AgainGives DEF Invalidate, Drop
  <2> QED BY <1>9, <1>91, <2>1 DEF Invalidate, Drop
<1>10. ASSUME NEW s \in Sessions, Touch(s) PROVE PromptMarked'
  BY <1>10 DEF Touch
<1>11. ASSUME NEW s \in Sessions, ForeignWrites(s) PROVE PromptMarked'
  BY <1>11 DEF ForeignWrites
<1>12. ASSUME NEW s \in Sessions, FreshEnds(s) PROVE PromptMarked'
  BY <1>12 DEF FreshEnds
<1>13. ASSUME NEW s \in Sessions, OwnExpires(s) PROVE PromptMarked'
  BY <1>13 DEF OwnExpires
<1>14. CASE Hangup
  BY <1>14 DEF Hangup
<1>15. CASE Tick
  BY <1>15 DEF Tick
<1>16. CASE Expire
  BY <1>16 DEF Expire
<1>17. CASE Rotate
  BY <1>17 DEF Rotate
<1>18. CASE Drained
  BY <1>18 DEF Drained
<1>19. CASE Undrained
  BY <1>19 DEF Undrained
<1>20. CASE AddWorkspace
  BY <1>20 DEF AddWorkspace
<1>21. CASE PoolGone
  BY <1>21 DEF PoolGone
<1>22. CASE ScanReads
  BY <1>22 DEF ScanReads
<1>23. CASE ScanPublishes
  BY <1>23 DEF ScanPublishes
<1>24. CASE UNCHANGED vars
  BY <1>24 DEF vars
<1> QED BY <1>1, <1>2, <1>3, <1>4, <1>5, <1>6, <1>7, <1>8, <1>9, <1>10, <1>11, <1>12,
   <1>13, <1>14, <1>15, <1>16, <1>17, <1>18, <1>19, <1>20, <1>21, <1>22, <1>23, <1>24
   DEF Next, Step

(* Whoever wrote a session is known.                                       *)
LEMMA WritersStep == PromptMarked /\ WritersKnown /\ [Next]_vars => WritersKnown'
<1> SUFFICES ASSUME PromptMarked, WritersKnown, [Next]_vars PROVE WritersKnown'
  OBVIOUS
<1> USE DEF WritersKnown, OwnNotForeign, watch
<1>1. ASSUME NEW r \in callers, Begin(r) PROVE WritersKnown'
  BY <1>1 DEF Begin, Observe, MarkOwn
<1>2. ASSUME NEW r \in callers, Cookie(r) PROVE WritersKnown'
  BY <1>2 DEF Cookie
<1>3. ASSUME NEW r \in callers, Exchanged(r) PROVE WritersKnown'
  BY <1>3 DEF Exchanged
<1>4. ASSUME NEW r \in callers, Minted(r) PROVE WritersKnown'
  BY <1>4 DEF Minted
<1>5. ASSUME NEW r \in callers, MintFails(r) PROVE WritersKnown'
  BY <1>5 DEF MintFails
<1>6. ASSUME NEW r \in callers, Accepted(r) PROVE WritersKnown'
  <2>1. CASE r = "call" /\ pool
    <3>1. "old" \in own
      BY <1>6, <2>1 DEF Accepted, PromptMarked
    <3> QED BY <1>6, <2>1, <3>1 DEF Accepted, Written
  <2>2. CASE r = "create" /\ pool
    BY <1>6, <2>2 DEF Accepted, Written
  <2>3. CASE r \notin {"call", "create"} \/ ~pool
    BY <1>6, <2>3 DEF Accepted
  <2> QED BY <2>1, <2>2, <2>3
<1>7. ASSUME NEW r \in callers, Broken(r) PROVE WritersKnown'
  BY <1>7 DEF Broken
<1>8. ASSUME NEW r \in callers, Refused(r) PROVE WritersKnown'
  BY <1>8 DEF Refused
<1>9. ASSUME NEW r \in callers, Invalidate(r) PROVE WritersKnown'
  BY <1>9 DEF Invalidate, Drop
<1>10. ASSUME NEW s \in Sessions, Touch(s) PROVE WritersKnown'
  BY <1>10 DEF Touch
<1>11. ASSUME NEW s \in Sessions, ForeignWrites(s) PROVE WritersKnown'
  BY <1>11 DEF ForeignWrites
<1>12. ASSUME NEW s \in Sessions, FreshEnds(s) PROVE WritersKnown'
  BY <1>12 DEF FreshEnds
<1>13. ASSUME NEW s \in Sessions, OwnExpires(s) PROVE WritersKnown'
  BY <1>13 DEF OwnExpires
<1>14. CASE Hangup
  BY <1>14 DEF Hangup
<1>15. CASE Tick
  BY <1>15 DEF Tick
<1>16. CASE Expire
  BY <1>16 DEF Expire
<1>17. CASE Rotate
  BY <1>17 DEF Rotate
<1>18. CASE Drained
  BY <1>18 DEF Drained, MarkOwn
<1>19. CASE Undrained
  BY <1>19 DEF Undrained
<1>20. CASE AddWorkspace
  BY <1>20 DEF AddWorkspace
<1>21. CASE PoolGone
  BY <1>21 DEF PoolGone
<1>22. CASE ScanReads
  BY <1>22 DEF ScanReads
<1>23. CASE ScanPublishes
  BY <1>23 DEF ScanPublishes
<1>24. CASE UNCHANGED vars
  BY <1>24 DEF vars
<1> QED BY <1>1, <1>2, <1>3, <1>4, <1>5, <1>6, <1>7, <1>8, <1>9, <1>10, <1>11, <1>12,
   <1>13, <1>14, <1>15, <1>16, <1>17, <1>18, <1>19, <1>20, <1>21, <1>22, <1>23, <1>24
   DEF Next, Step

(* The place of the last session.                                          *)
LEMMA PlaceStep == WarnTypes /\ PlaceKnown /\ [Next]_vars => PlaceKnown'
<1> SUFFICES ASSUME WarnTypes, PlaceKnown, [Next]_vars PROVE PlaceKnown'
  OBVIOUS
<1> USE DEF PlaceKnown, Reported, warn
<1>1. ASSUME NEW r \in callers, Begin(r) PROVE PlaceKnown'
  <2>1. CASE r = "create"
    <3>1. PICK t \in Targets : /\ Record(t) /\ want' = t[2]
                              /\ gap' = {"unsent"} \cup (IF Comparable(t) THEN {} ELSE {"unknown"})
      BY <1>1, <2>1 DEF Begin, Observe, Place
    <3>2. t[2] \in {"in", "out"}
      BY DEF Targets
    <3> QED BY <3>1, <3>2 DEF Record
  <2>2. CASE r # "create"
    BY <1>1, <2>2 DEF Begin, Observe, Place
  <2> QED BY <2>1, <2>2
<1>2. ASSUME NEW r \in callers, Cookie(r) PROVE PlaceKnown'
  BY <1>2 DEF Cookie
<1>3. ASSUME NEW r \in callers, Exchanged(r) PROVE PlaceKnown'
  BY <1>3 DEF Exchanged
<1>4. ASSUME NEW r \in callers, Minted(r) PROVE PlaceKnown'
  BY <1>4 DEF Minted
<1>5. ASSUME NEW r \in callers, MintFails(r) PROVE PlaceKnown'
  BY <1>5 DEF MintFails
<1>6. ASSUME NEW r \in callers, Accepted(r) PROVE PlaceKnown'
  BY <1>6 DEF Accepted
<1>7. ASSUME NEW r \in callers, Broken(r) PROVE PlaceKnown'
  BY <1>7 DEF Broken
<1>8. ASSUME NEW r \in callers, Refused(r) PROVE PlaceKnown'
  BY <1>8 DEF Refused
<1>9. ASSUME NEW r \in callers, Invalidate(r) PROVE PlaceKnown'
  BY <1>9 DEF Invalidate, Drop
<1>10. ASSUME NEW s \in Sessions, Touch(s) PROVE PlaceKnown'
  BY <1>10 DEF Touch
<1>11. ASSUME NEW s \in Sessions, ForeignWrites(s) PROVE PlaceKnown'
  BY <1>11 DEF ForeignWrites
<1>12. ASSUME NEW s \in Sessions, FreshEnds(s) PROVE PlaceKnown'
  BY <1>12 DEF FreshEnds
<1>13. ASSUME NEW s \in Sessions, OwnExpires(s) PROVE PlaceKnown'
  BY <1>13 DEF OwnExpires
<1>14. CASE Hangup
  BY <1>14 DEF Hangup
<1>15. CASE Tick
  BY <1>15 DEF Tick
<1>16. CASE Expire
  BY <1>16 DEF Expire
<1>17. CASE Rotate
  BY <1>17 DEF Rotate
<1>18. CASE Drained
  BY <1>18 DEF Drained
<1>19. CASE Undrained
  BY <1>19 DEF Undrained
<1>20. CASE AddWorkspace
  BY <1>20 DEF AddWorkspace
<1>21. CASE PoolGone
  BY <1>21 DEF PoolGone
<1>22. CASE ScanReads
  BY <1>22 DEF ScanReads
<1>23. CASE ScanPublishes
  BY <1>23 DEF ScanPublishes
<1>24. CASE UNCHANGED vars
  BY <1>24 DEF vars
<1> QED BY <1>1, <1>2, <1>3, <1>4, <1>5, <1>6, <1>7, <1>8, <1>9, <1>10, <1>11, <1>12,
   <1>13, <1>14, <1>15, <1>16, <1>17, <1>18, <1>19, <1>20, <1>21, <1>22, <1>23, <1>24
   DEF Next, Step

LEMMA InvStep == Inv /\ [Next]_vars => Inv'
<1> SUFFICES ASSUME Inv, [Next]_vars PROVE Inv'
  OBVIOUS
<1>1. Typed
  BY TypedIsTypeOK DEF Inv
<1>2. Typed'
  BY <1>1, SameCallers, AuthStep, PoolStep, MutexStep DEF Typed
<1>3. RelayTypeOK'
  BY <1>2, TypedIsTypeOK, PTL
<1> QED BY <1>1, <1>3, DroppedStep, PromptStep, WritersStep, PlaceStep DEF Typed, Inv

----------------------------------------------------------------------------
(* What dial and callRPC retry for (auth.go, proxy.go): however many       *)
(* callers share the cookie and however often dsh rotates its secret, a    *)
(* caller whose own 401 dropped the cookie never carries an older one in   *)
(* the attempts that follow; and the page is told where the last session   *)
(* was made (scope.go), but for the two cases the code cannot know.        *)
THEOREM RelayAlways == Spec => []RelayInv
<1>1. Inv => RelayInv
  BY InvGives
<1> QED BY InvInit, InvStep, <1>1, PTL DEF Spec

(* The advisory of sessionwatch.go, for every interleaving of prompts,     *)
(* scans, expiring marks and other processes' writes: it names no session  *)
(* that only managed dsh processes wrote, except one nothing can mark.     *)
THEOREM NeverBlamesOwn == Spec => []OwnNotForeign
<1>1. Inv => OwnNotForeign
  BY InvGives
<1> QED BY InvInit, InvStep, <1>1, PTL DEF Spec

----------------------------------------------------------------------------
(***************************************************************************)
(* The bridged socket.                                                     *)
(***************************************************************************)
(* The GET handler has made the connection known once.                     *)
Reg == "registered" \in obs

(* How far the GET handler is, whether the bridge knows the connection and *)
(* what dsh's side is.                                                     *)
ServerOK ==
  /\ srv \in {"none", "dial"} => up = "none"
  /\ srv = "none" => tcp = "none"
  /\ srv = "register" => up = "open"
  /\ srv \in {"none", "dial", "register"} => ~Reg
  /\ srv \in {"open", "pump"} => Reg
  /\ srv = "end" /\ ~Reg => up = "none"
  /\ Reg => (known <=> up = "open") /\ up # "none"
  /\ known => Reg
  /\ tcp = "shut" => up = "closed" \/ srv = "end"

(* What the gate stands for, and what went through it.                     *)
GateOK ==
  /\ mode = "trying" => ~gate
  /\ mode = "bridge" /\ gate => rs = "closed" \/ Reg
  /\ mode # "bridge" => queue = <<>> /\ cur = None /\ posts = {} /\ es = "none"
  /\ \A p \in posts : /\ p[1] # Close => gate
                      /\ p[2] = "found" => Reg
  /\ \A i \in DOMAIN down : down[i] = OpenF => Reg

(* The stream's frames: after the open frame what dsh has sent and the page*)
(* has not received, then the end.                                         *)
Carried(frames, o, n, at) ==
  /\ o + n <= Len(frames) /\ Len(frames) <= o + n + 1
  /\ o = 1 => frames[1] = OpenF
  /\ \A i \in 1..Len(frames) :
       /\ o < i /\ i <= o + n => frames[i] \in 1..MaxDown
       /\ i = o + n + 1 => frames[i] \in {CloseF, ErrorF} /\ at = "end"
Carries(o) == Carried(down, o, upSent - got, srv)

DownCarries == es = "live" /\ tcp \in {"up", "shut"} => Carries(0) \/ Carries(1)

(* Nothing is under way before the open frame, nor on a stream that is cut.*)
DownOK ==
  /\ got <= upSent
  /\ srv \in {"none", "dial", "register", "open"} => down = <<>> /\ upSent = 0
  /\ es = "live" => tcp # "none" /\ (tcp = "cut" => down = <<>>)
  /\ DownCarries

(* A clean close has taken everything, and nothing moves after it.         *)
CleanOK == "clean" \in obs => got = upSent /\ srv = "end" /\ es = "closed"

(* The messages dsh has received or is about to.                           *)
Base == Len(upGot) + (IF cur \in 1..MaxUp THEN 1 ELSE 0)

(* One POST at a time.                                                     *)
OnePost ==
  IF cur = None THEN posts = {}
  ELSE posts = {<<cur, "sent">>} \/ posts = {<<cur, "found">>}

(* The messages after b, up to n, are in q and in order.                   *)
Lined(q, b, n) ==
  /\ b <= n
  /\ \A i \in 1..Len(q) : q[i] # Close => b < q[i] /\ q[i] <= n
  /\ \A i, j \in 1..Len(q) : i < j /\ q[i] # Close /\ q[j] # Close => q[i] < q[j]
  /\ \A m \in 1..MaxUp : b < m /\ m <= n => \E i \in 1..Len(q) : q[i] = m

Waiting == (cur \in 1..MaxUp => cur = Base) /\ Lined(queue, Base, sent)

(* Until a POST failed: one POST at a time, and while the connection is not*)
(* gone, dsh has received a prefix and the rest waits in order.            *)
UpOK ==
  "failed" \notin obs =>
    /\ \A i \in DOMAIN upGot : upGot[i] = i
    /\ OnePost
    /\ ~(Reg /\ ~known) => Waiting

(* The inductive invariant of the bridge.                                  *)
BridgeIInv ==
  BridgeTypeOK /\ ServerOK /\ GateOK /\ SendsFindConn /\ DownOK /\ CleanOK /\ UpOK

(* What FinishClose and Settle do, case by case.                           *)
LEMMA Finished ==
  FinishClose => /\ rs' = "closed" /\ gate' = TRUE /\ es' = "closed"
                 /\ rs = "closed" => closes' = closes
                 /\ rs # "closed" => closes' = closes + 1
  BY Zenon DEF FinishClose, CloseEvent

LEMMA Settled ==
  Settle => /\ tcp # "up" => tcp' = tcp
            /\ tcp = "up" =>
                 \/ es' = "closed" /\ tcp' = "cut"
                 \/ es' # "closed" /\ (up' = "closed" \/ srv' = "end") /\ tcp' = "shut"
                 \/ es' # "closed" /\ up' # "closed" /\ srv' # "end" /\ tcp' = "up"
  BY Zenon DEF Settle

(* What a sequence is after its head is taken, ...                         *)
LEMMA TailIs ==
  ASSUME NEW S, NEW s \in Seq(S), s # <<>>
  PROVE  /\ Len(s) \in Nat \ {0} /\ Head(s) = s[1] /\ s[1] \in S
         /\ Tail(s) \in Seq(S) /\ Len(Tail(s)) = Len(s) - 1
         /\ \A i \in 1..(Len(s) - 1) : Tail(s)[i] = s[i + 1]
<1>1. Head(s) \in S /\ Tail(s) \in Seq(S) /\ Len(Tail(s)) = Len(s) - 1
      /\ \A i \in 1..Len(Tail(s)) : Tail(s)[i] = s[i + 1]
  BY HeadTailProperties
<1>2. Len(s) \in Nat /\ Len(s) # 0
  BY EmptySeq
<1> QED BY <1>1, <1>2

(* ... and after an element is put at its end.                             *)
LEMMA AppendIs ==
  ASSUME NEW S, NEW s \in Seq(S), NEW e \in S
  PROVE  /\ Append(s, e) \in Seq(S) /\ Len(Append(s, e)) = Len(s) + 1 /\ Len(s) \in Nat
         /\ \A i \in 1..Len(s) : Append(s, e)[i] = s[i]
         /\ Append(s, e)[Len(s) + 1] = e
  BY AppendProperties

(* Every step keeps what holds of the server.                              *)
LEMMA ServerStep ==
  ASSUME BridgeTypeOK, ServerOK, GateOK, [BridgeNext]_bridgeVars
  PROVE  ServerOK'
<1> USE DEF BridgeTypeOK, ServerOK, GateOK, Reg
<1>1. ASSUME NativeOpens PROVE ServerOK'
  BY <1>1 DEF NativeOpens, pageVars, srvVars
<1>2. ASSUME NativeCloses PROVE ServerOK'
  BY <1>2 DEF NativeCloses, pageVars, srvVars
<1>3. ASSUME Fallback PROVE ServerOK'
  BY <1>3 DEF Fallback, pageVars, srvVars
<1>4. ASSUME Send PROVE ServerOK'
  BY <1>4 DEF Send, pageVars, srvVars
<1>5. ASSUME PageCloses PROVE ServerOK'
  BY <1>5 DEF PageCloses, pageVars, srvVars
<1>6. ASSUME NextTask PROVE ServerOK'
  BY <1>6 DEF NextTask, pageVars, srvVars
<1>7. ASSUME FetchFails PROVE ServerOK'
  BY <1>7, Finished, Settled DEF FetchFails, Saw, pageVars, srvVars
<1>8. ASSUME OpenFrame PROVE ServerOK'
  BY <1>8 DEF OpenFrame, Frame, pageVars, srvVars
<1>9. ASSUME DataFrame PROVE ServerOK'
  BY <1>9 DEF DataFrame, pageVars, srvVars
<1>10. ASSUME CloseFrame PROVE ServerOK'
  BY <1>10, Finished, Settled DEF CloseFrame, Frame, Saw, pageVars, srvVars
<1>11. ASSUME EsError PROVE ServerOK'
  BY <1>11, Finished, Settled DEF EsError, Frame, pageVars, srvVars
<1>12. ASSUME StreamLost PROVE ServerOK'
  BY <1>12 DEF StreamLost, pageVars, srvVars
<1>13. ASSUME GetArrives PROVE ServerOK'
  BY <1>13 DEF GetArrives, pageVars, srvVars
<1>14. ASSUME DialFails PROVE ServerOK'
  BY <1>14, Settled DEF DialFails, Write, pageVars, srvVars
<1>15. ASSUME Dialed PROVE ServerOK'
  BY <1>15 DEF Dialed, pageVars, srvVars
<1>16. ASSUME RegisterConn PROVE ServerOK'
  BY <1>16 DEF RegisterConn, Saw, pageVars, srvVars
<1>17. ASSUME OpenSent PROVE ServerOK'
  BY <1>17 DEF OpenSent, Write, pageVars, srvVars
<1>18. ASSUME PumpData PROVE ServerOK'
  BY <1>18 DEF PumpData, Write, pageVars, srvVars
<1>19. ASSUME PumpClose PROVE ServerOK'
  BY <1>19, Settled DEF PumpClose, Write, ConnClose, pageVars, srvVars
<1>20. ASSUME PumpEnds PROVE ServerOK'
  BY <1>20, Settled DEF PumpEnds, ConnClose, pageVars, srvVars
<1>21. ASSUME DownGone PROVE ServerOK'
  BY <1>21 DEF DownGone, ConnClose, pageVars, srvVars
<1>22. ASSUME NEW p \in posts, NotFound(p) PROVE ServerOK'
  BY <1>22, Finished, Settled DEF NotFound, Answer, pageVars, srvVars
<1>23. ASSUME NEW p \in posts, Found(p) PROVE ServerOK'
  BY <1>23 DEF Found, pageVars, srvVars
<1>24. ASSUME NEW p \in posts, Rejected(p) PROVE ServerOK'
  BY <1>24, Finished, Settled DEF Rejected, Answer, Saw, pageVars, srvVars
<1>25. ASSUME NEW p \in posts, Relayed(p) PROVE ServerOK'
  BY <1>25, Finished, Settled DEF Relayed, Answer, pageVars, srvVars
<1>26. ASSUME NEW p \in posts, Torn(p) PROVE ServerOK'
  BY <1>26, Finished, Settled DEF Torn, ConnClose, Answer, pageVars, srvVars
<1>27. CASE UNCHANGED bridgeVars
  BY <1>27 DEF bridgeVars, pageVars, srvVars
<1> QED BY <1>1, <1>2, <1>3, <1>4, <1>5, <1>6, <1>7, <1>8, <1>9, <1>10, <1>11,
       <1>12, <1>13, <1>14, <1>15, <1>16, <1>17, <1>18, <1>19, <1>20, <1>21,
       <1>22, <1>23, <1>24, <1>25, <1>26, <1>27 DEF BridgeNext, Shim, Bridge,
       PostStep

(* Every step keeps what holds of the gate.                                *)
LEMMA GateStep ==
  ASSUME BridgeTypeOK, ServerOK, GateOK, [BridgeNext]_bridgeVars
  PROVE  GateOK'
<1> USE DEF BridgeTypeOK, ServerOK, GateOK, Reg
<1>1. ASSUME NativeOpens PROVE GateOK'
  BY <1>1 DEF NativeOpens, pageVars, srvVars
<1>2. ASSUME NativeCloses PROVE GateOK'
  BY <1>2 DEF NativeCloses, pageVars, srvVars
<1>3. ASSUME Fallback PROVE GateOK'
  BY <1>3 DEF Fallback, pageVars, srvVars
<1>4. ASSUME Send PROVE GateOK'
  BY <1>4 DEF Send, pageVars, srvVars
<1>5. ASSUME PageCloses PROVE GateOK'
  BY <1>5 DEF PageCloses, pageVars, srvVars
<1>6. ASSUME NextTask PROVE GateOK'
  BY <1>6 DEF NextTask, pageVars, srvVars
<1>7. ASSUME FetchFails PROVE GateOK'
  BY <1>7, Finished, Settled DEF FetchFails, Saw, pageVars, srvVars
<1>8. ASSUME OpenFrame PROVE GateOK'
  BY <1>8 DEF OpenFrame, Frame, pageVars, srvVars
<1>9. ASSUME DataFrame PROVE GateOK'
  BY <1>9 DEF DataFrame, pageVars, srvVars
<1>10. ASSUME CloseFrame PROVE GateOK'
  BY <1>10, Finished, Settled DEF CloseFrame, Frame, Saw, pageVars, srvVars
<1>11. ASSUME EsError PROVE GateOK'
  <2>1. \A i \in DOMAIN down' : down'[i] = OpenF => Reg
    <3>1. CASE down' = down
      BY <3>1
    <3>2. CASE down # <<>> /\ down' = Tail(down)
      BY <3>2, TailIs
    <3> QED BY <1>11, <3>1, <3>2 DEF EsError, Frame
  <2>2. obs' = obs
    BY <1>11 DEF EsError
  <2>3. /\ mode' = "trying" => ~gate'
        /\ mode' = "bridge" /\ gate' => rs' = "closed"
        /\ mode' # "bridge" => queue' = <<>> /\ cur' = None /\ posts' = {} /\ es' = "none"
        /\ posts' = posts /\ gate' = TRUE
    BY <1>11, Finished DEF EsError, Frame
  <2> QED BY <2>1, <2>2, <2>3
<1>12. ASSUME StreamLost PROVE GateOK'
  BY <1>12 DEF StreamLost, pageVars, srvVars
<1>13. ASSUME GetArrives PROVE GateOK'
  BY <1>13 DEF GetArrives, pageVars, srvVars
<1>14. ASSUME DialFails PROVE GateOK'
  <2>1. \A i \in DOMAIN down' : down'[i] = OpenF => Reg
    <3>1. CASE down' = down
      BY <3>1
    <3>2. CASE down' = Append(down, ErrorF)
      BY <3>2, AppendIs, BridgeBounds DEF OpenF, ErrorF
    <3> QED BY <1>14, <3>1, <3>2 DEF DialFails, Write
  <2>2. UNCHANGED <<pageVars, posts, obs>>
    BY <1>14 DEF DialFails
  <2> QED BY <2>1, <2>2 DEF pageVars
<1>15. ASSUME Dialed PROVE GateOK'
  BY <1>15 DEF Dialed, pageVars, srvVars
<1>16. ASSUME RegisterConn PROVE GateOK'
  BY <1>16 DEF RegisterConn, Saw, pageVars, srvVars
<1>17. ASSUME OpenSent PROVE GateOK'
  BY <1>17 DEF OpenSent, Write, pageVars, srvVars
<1>18. ASSUME PumpData PROVE GateOK'
  BY <1>18 DEF PumpData, Write, pageVars, srvVars
<1>19. ASSUME PumpClose PROVE GateOK'
  BY <1>19, Settled DEF PumpClose, Write, ConnClose, pageVars, srvVars
<1>20. ASSUME PumpEnds PROVE GateOK'
  BY <1>20, Settled DEF PumpEnds, ConnClose, pageVars, srvVars
<1>21. ASSUME DownGone PROVE GateOK'
  BY <1>21 DEF DownGone, ConnClose, pageVars, srvVars
<1>22. ASSUME NEW p \in posts, NotFound(p) PROVE GateOK'
  BY <1>22, Finished, Settled DEF NotFound, Answer, pageVars, srvVars
<1>23. ASSUME NEW p \in posts, Found(p) PROVE GateOK'
  BY <1>23 DEF Found, pageVars, srvVars
<1>24. ASSUME NEW p \in posts, Rejected(p) PROVE GateOK'
  BY <1>24, Finished, Settled DEF Rejected, Answer, Saw, pageVars, srvVars
<1>25. ASSUME NEW p \in posts, Relayed(p) PROVE GateOK'
  BY <1>25, Finished, Settled DEF Relayed, Answer, pageVars, srvVars
<1>26. ASSUME NEW p \in posts, Torn(p) PROVE GateOK'
  BY <1>26, Finished, Settled DEF Torn, ConnClose, Answer, pageVars, srvVars
<1>27. CASE UNCHANGED bridgeVars
  BY <1>27 DEF bridgeVars, pageVars, srvVars
<1> QED BY <1>1, <1>2, <1>3, <1>4, <1>5, <1>6, <1>7, <1>8, <1>9, <1>10, <1>11,
       <1>12, <1>13, <1>14, <1>15, <1>16, <1>17, <1>18, <1>19, <1>20, <1>21,
       <1>22, <1>23, <1>24, <1>25, <1>26, <1>27 DEF BridgeNext, Shim, Bridge,
       PostStep

(* What the stream may carry.                                              *)
Frames == 1..MaxDown \cup {OpenF, CloseF, ErrorF}

(* Taking a frame off the stream: an open frame leaves what dsh has sent,  *)
(* ...                                                                     *)
LEMMA TakeOpen ==
  ASSUME NEW s \in Seq(Frames), NEW o \in {0, 1}, NEW n \in Nat, NEW at,
         Carried(s, o, n, at), s # <<>>, s[1] = OpenF
  PROVE  Carried(Tail(s), 0, n, at)
<1>1. o = 1
  BY BridgeBounds, TailIs DEF Carried, OpenF, CloseF, ErrorF
<1>2. /\ Len(s) \in Nat \ {0} /\ Len(Tail(s)) = Len(s) - 1
      /\ \A i \in 1..(Len(s) - 1) : Tail(s)[i] = s[i + 1]
  BY TailIs
<1> QED BY <1>1, <1>2 DEF Carried

(* ... a message was the next one owed, ...                                *)
LEMMA TakeData ==
  ASSUME NEW s \in Seq(Frames), NEW o \in {0, 1}, NEW n \in Nat, NEW at,
         Carried(s, o, n, at), s # <<>>, s[1] \in 1..MaxDown
  PROVE  n >= 1 /\ Carried(Tail(s), 0, n - 1, at)
<1>1. o = 0
  BY BridgeBounds, TailIs DEF Carried, OpenF, CloseF, ErrorF
<1>2. /\ Len(s) \in Nat \ {0} /\ Len(Tail(s)) = Len(s) - 1
      /\ \A i \in 1..(Len(s) - 1) : Tail(s)[i] = s[i + 1]
  BY TailIs
<1>3. n >= 1
  BY BridgeBounds, <1>1, <1>2 DEF Carried, CloseF, ErrorF
<1> QED BY <1>1, <1>2, <1>3 DEF Carried

(* ... and an end comes when nothing is owed.                              *)
LEMMA TakeEnd ==
  ASSUME NEW s \in Seq(Frames), NEW o \in {0, 1}, NEW n \in Nat, NEW at,
         Carried(s, o, n, at), s # <<>>, s[1] \in {CloseF, ErrorF}
  PROVE  n = 0 /\ at = "end"
<1>1. Len(s) \in Nat \ {0}
  BY TailIs
<1>2. o = 0 /\ n = 0
  BY BridgeBounds, <1>1 DEF Carried, OpenF, CloseF, ErrorF
<1> QED BY <1>1, <1>2 DEF Carried

(* Putting a message on a stream that has not ended ...                    *)
LEMMA PutData ==
  ASSUME NEW s \in Seq(Frames), NEW o \in {0, 1}, NEW n \in Nat, NEW at, at # "end",
         Carried(s, o, n, at), NEW m \in 1..MaxDown
  PROVE  Carried(Append(s, m), o, n + 1, at)
<1>1. m \in Frames
  BY DEF Frames
<1>2. /\ Len(Append(s, m)) = Len(s) + 1 /\ Len(s) \in Nat
      /\ \A i \in 1..Len(s) : Append(s, m)[i] = s[i]
      /\ Append(s, m)[Len(s) + 1] = m
  BY <1>1, AppendIs
<1>3. Len(s) = o + n
  BY <1>2 DEF Carried
<1> QED BY <1>2, <1>3 DEF Carried

(* ... or the end.                                                         *)
LEMMA PutEnd ==
  ASSUME NEW s \in Seq(Frames), NEW o \in {0, 1}, NEW n \in Nat, NEW at, at # "end",
         Carried(s, o, n, at), NEW f \in {CloseF, ErrorF}
  PROVE  Carried(Append(s, f), o, n, "end")
<1>1. f \in Frames
  BY DEF Frames
<1>2. /\ Len(Append(s, f)) = Len(s) + 1 /\ Len(s) \in Nat
      /\ \A i \in 1..Len(s) : Append(s, f)[i] = s[i]
      /\ Append(s, f)[Len(s) + 1] = f
  BY <1>1, AppendIs
<1>3. Len(s) = o + n
  BY <1>2 DEF Carried
<1> QED BY <1>2, <1>3 DEF Carried

(* The frame at the head of a stream the page reads.                       *)
LEMMA HeadIs ==
  ASSUME BridgeTypeOK, DownOK, es = "live", down # <<>>
  PROVE  /\ down \in Seq(Frames) /\ Head(down) = down[1] /\ upSent - got \in Nat
         /\ tcp \in {"up", "shut"}
         /\ \E o \in {0, 1} : Carried(down, o, upSent - got, srv)
         /\ down[1] \in 1..MaxDown => got + 1 <= upSent
         /\ down[1] = CloseF => got = upSent /\ srv = "end"
<1>1. down \in Seq(Frames) /\ upSent \in Nat /\ got \in Nat /\ got <= upSent
  BY DEF BridgeTypeOK, DownOK, Frames
<1>2. Head(down) = down[1]
  BY <1>1, TailIs
<1>3. tcp \in {"up", "shut"}
  BY DEF BridgeTypeOK, DownOK
<1>4. \E o \in {0, 1} : Carried(down, o, upSent - got, srv)
  BY <1>3 DEF DownOK, DownCarries, Carries
<1> DEFINE n == upSent - got
<1>5. n \in Nat
  BY <1>1
<1>6. PICK o \in {0, 1} : Carried(down, o, n, srv)
  BY <1>4
<1>7. ASSUME down[1] \in 1..MaxDown PROVE n >= 1
  <2> HIDE DEF n
  <2> QED BY <1>1, <1>5, <1>6, <1>7, TakeData
<1>8. ASSUME down[1] = CloseF PROVE n = 0 /\ srv = "end"
  <2> HIDE DEF n
  <2> QED BY <1>1, <1>5, <1>6, <1>8, TakeEnd
<1> QED BY <1>1, <1>2, <1>3, <1>4, <1>7, <1>8

(* Every step keeps the types.                                             *)
LEMMA BridgeTypeStep ==
  ASSUME BridgeTypeOK, ServerOK, GateOK, DownOK, [BridgeNext]_bridgeVars
  PROVE  BridgeTypeOK'
<1> USE DEF BridgeTypeOK, Tasks, None, Close, OpenF, CloseF, ErrorF
<1>1. ASSUME NativeOpens PROVE BridgeTypeOK'
  BY <1>1 DEF NativeOpens, pageVars, srvVars
<1>2. ASSUME NativeCloses PROVE BridgeTypeOK'
  BY <1>2 DEF NativeCloses, pageVars, srvVars
<1>3. ASSUME Fallback PROVE BridgeTypeOK'
  BY <1>3 DEF Fallback, pageVars, srvVars
<1>4. ASSUME Send PROVE BridgeTypeOK'
  <2>1. rs' \in {"connecting", "open", "closing", "closed"} /\ gate' \in BOOLEAN
        /\ es' \in {"none", "connecting", "live", "closed"}
    BY <1>4 DEF Send, pageVars, srvVars
  <2>2. closes' = IF rs' = "closed" THEN 1 ELSE 0
    BY <1>4 DEF Send, pageVars, srvVars
  <2>3. queue' \in Seq(Tasks) /\ cur' \in Tasks \cup {None} /\ sent' \in Tasks
    <3>1. sent + 1 \in Tasks
      BY BridgeBounds, <1>4 DEF Send
    <3>2. Append(queue, sent + 1) \in Seq(Tasks)
      BY <3>1, AppendIs
    <3> QED BY <1>4, <3>1, <3>2 DEF Send
  <2>4. down' \in Seq(1..MaxDown \cup {OpenF, CloseF, ErrorF}) /\ upSent' \in 0..MaxDown
        /\ got' \in 0..MaxDown
    BY <1>4 DEF Send, pageVars, srvVars
  <2>5. upGot' \in Seq(1..MaxUp) /\ posts' \subseteq Tasks \X {"sent", "found"}
    BY <1>4 DEF Send, pageVars, srvVars
  <2>6. known' \in BOOLEAN /\ srv' \in {"none", "dial", "register", "open", "pump", "end"}
        /\ up' \in {"none", "open", "closed"} /\ tcp' \in {"none", "up", "shut", "cut"}
        /\ mode' \in {"trying", "native", "bridge"}
        /\ obs' \subseteq {"early", "failed", "clean", "registered", "refused"}
    BY <1>4 DEF Send, pageVars, srvVars
  <2> QED BY <2>1, <2>2, <2>3, <2>4, <2>5, <2>6, Zenon
<1>5. ASSUME PageCloses PROVE BridgeTypeOK'
  <2>1. rs' \in {"connecting", "open", "closing", "closed"} /\ gate' \in BOOLEAN
        /\ es' \in {"none", "connecting", "live", "closed"}
    BY <1>5 DEF PageCloses, pageVars, srvVars
  <2>2. closes' = IF rs' = "closed" THEN 1 ELSE 0
    BY <1>5 DEF PageCloses, pageVars, srvVars
  <2>3. queue' \in Seq(Tasks) /\ cur' \in Tasks \cup {None} /\ sent' \in Tasks
    <3>1. 0 \in Tasks
      BY BridgeBounds
    <3>2. Append(queue, 0) \in Seq(Tasks)
      BY <3>1, AppendIs
    <3>3. queue' \in Seq(Tasks)
      BY <1>5, <3>2 DEF PageCloses
    <3> QED BY <1>5, <3>3 DEF PageCloses
  <2>4. down' \in Seq(1..MaxDown \cup {OpenF, CloseF, ErrorF}) /\ upSent' \in 0..MaxDown
        /\ got' \in 0..MaxDown
    BY <1>5 DEF PageCloses, pageVars, srvVars
  <2>5. upGot' \in Seq(1..MaxUp) /\ posts' \subseteq Tasks \X {"sent", "found"}
    BY <1>5 DEF PageCloses, pageVars, srvVars
  <2>6. known' \in BOOLEAN /\ srv' \in {"none", "dial", "register", "open", "pump", "end"}
        /\ up' \in {"none", "open", "closed"} /\ tcp' \in {"none", "up", "shut", "cut"}
        /\ mode' \in {"trying", "native", "bridge"}
        /\ obs' \subseteq {"early", "failed", "clean", "registered", "refused"}
    BY <1>5 DEF PageCloses, pageVars, srvVars
  <2> QED BY <2>1, <2>2, <2>3, <2>4, <2>5, <2>6, Zenon
<1>6. ASSUME NextTask PROVE BridgeTypeOK'
  <2>0. Head(queue) \in Tasks /\ Tail(queue) \in Seq(Tasks)
    <3>1. queue # <<>> /\ queue \in Seq(Tasks)
      BY <1>6 DEF NextTask
    <3> HIDE DEF Tasks
    <3> QED BY <3>1, TailIs
  <2>1. rs' \in {"connecting", "open", "closing", "closed"} /\ gate' \in BOOLEAN
        /\ es' \in {"none", "connecting", "live", "closed"}
    BY <1>6 DEF NextTask, pageVars, srvVars
  <2>2. closes' = IF rs' = "closed" THEN 1 ELSE 0
    BY <1>6 DEF NextTask, pageVars, srvVars
  <2>3. queue' \in Seq(Tasks) /\ cur' \in Tasks \cup {None} /\ sent' \in Tasks
    <3> QED BY <2>0, <1>6 DEF NextTask
  <2>4. down' \in Seq(1..MaxDown \cup {OpenF, CloseF, ErrorF}) /\ upSent' \in 0..MaxDown
        /\ got' \in 0..MaxDown
    BY <1>6 DEF NextTask, pageVars, srvVars
  <2>5. upGot' \in Seq(1..MaxUp) /\ posts' \subseteq Tasks \X {"sent", "found"}
    <3>1. posts' = posts \cup {<<Head(queue), "sent">>}
      BY <1>6 DEF NextTask
    <3> QED BY <2>0, <3>1, <1>6 DEF NextTask, srvVars
  <2>6. known' \in BOOLEAN /\ srv' \in {"none", "dial", "register", "open", "pump", "end"}
        /\ up' \in {"none", "open", "closed"} /\ tcp' \in {"none", "up", "shut", "cut"}
        /\ mode' \in {"trying", "native", "bridge"}
        /\ obs' \subseteq {"early", "failed", "clean", "registered", "refused"}
    BY <1>6 DEF NextTask, pageVars, srvVars
  <2> QED BY <2>1, <2>2, <2>3, <2>4, <2>5, <2>6, Zenon
<1>7. ASSUME FetchFails PROVE BridgeTypeOK'
  <2>1. rs' \in {"connecting", "open", "closing", "closed"} /\ gate' \in BOOLEAN
        /\ es' \in {"none", "connecting", "live", "closed"}
    BY <1>7, Finished, Settled DEF FetchFails, Saw, pageVars, srvVars
  <2>2. closes' = IF rs' = "closed" THEN 1 ELSE 0
    BY <1>7, Finished, Settled DEF FetchFails, Saw, pageVars, srvVars
  <2>3. queue' \in Seq(Tasks) /\ cur' \in Tasks \cup {None} /\ sent' \in Tasks
    BY <1>7, Finished, Settled DEF FetchFails, Saw, pageVars, srvVars
  <2>4. down' \in Seq(1..MaxDown \cup {OpenF, CloseF, ErrorF}) /\ upSent' \in 0..MaxDown
        /\ got' \in 0..MaxDown
    BY <1>7, Finished, Settled DEF FetchFails, Saw, pageVars, srvVars
  <2>5. upGot' \in Seq(1..MaxUp) /\ posts' \subseteq Tasks \X {"sent", "found"}
    BY <1>7, Finished, Settled DEF FetchFails, Saw, pageVars, srvVars
  <2>6. known' \in BOOLEAN /\ srv' \in {"none", "dial", "register", "open", "pump", "end"}
        /\ up' \in {"none", "open", "closed"} /\ tcp' \in {"none", "up", "shut", "cut"}
        /\ mode' \in {"trying", "native", "bridge"}
        /\ obs' \subseteq {"early", "failed", "clean", "registered", "refused"}
    BY <1>7, Finished, Settled DEF FetchFails, Saw, pageVars, srvVars
  <2> QED BY <2>1, <2>2, <2>3, <2>4, <2>5, <2>6, Zenon
<1>8. ASSUME OpenFrame PROVE BridgeTypeOK'
  <2>1. rs' \in {"connecting", "open", "closing", "closed"} /\ gate' \in BOOLEAN
        /\ es' \in {"none", "connecting", "live", "closed"}
    BY <1>8 DEF OpenFrame, Frame, pageVars, srvVars
  <2>2. closes' = IF rs' = "closed" THEN 1 ELSE 0
    BY <1>8 DEF OpenFrame, Frame, pageVars, srvVars
  <2>3. queue' \in Seq(Tasks) /\ cur' \in Tasks \cup {None} /\ sent' \in Tasks
    BY <1>8 DEF OpenFrame, Frame, pageVars, srvVars
  <2>4. down' \in Seq(1..MaxDown \cup {OpenF, CloseF, ErrorF}) /\ upSent' \in 0..MaxDown
        /\ got' \in 0..MaxDown
    BY <1>8 DEF OpenFrame, Frame, pageVars, srvVars
  <2>5. upGot' \in Seq(1..MaxUp) /\ posts' \subseteq Tasks \X {"sent", "found"}
    BY <1>8 DEF OpenFrame, Frame, pageVars, srvVars
  <2>6. known' \in BOOLEAN /\ srv' \in {"none", "dial", "register", "open", "pump", "end"}
        /\ up' \in {"none", "open", "closed"} /\ tcp' \in {"none", "up", "shut", "cut"}
        /\ mode' \in {"trying", "native", "bridge"}
        /\ obs' \subseteq {"early", "failed", "clean", "registered", "refused"}
    BY <1>8 DEF OpenFrame, Frame, pageVars, srvVars
  <2> QED BY <2>1, <2>2, <2>3, <2>4, <2>5, <2>6, Zenon
<1>9. ASSUME DataFrame PROVE BridgeTypeOK'
  <2>1. rs' \in {"connecting", "open", "closing", "closed"} /\ gate' \in BOOLEAN
        /\ es' \in {"none", "connecting", "live", "closed"}
    BY <1>9 DEF DataFrame, pageVars, srvVars
  <2>2. closes' = IF rs' = "closed" THEN 1 ELSE 0
    BY <1>9 DEF DataFrame, pageVars, srvVars
  <2>3. queue' \in Seq(Tasks) /\ cur' \in Tasks \cup {None} /\ sent' \in Tasks
    BY <1>9 DEF DataFrame, pageVars, srvVars
  <2>4. down' \in Seq(1..MaxDown \cup {OpenF, CloseF, ErrorF}) /\ upSent' \in 0..MaxDown
        /\ got' \in 0..MaxDown
    <3> DEFINE D == 1..MaxDown \cup {OpenF, CloseF, ErrorF}
    <3>1. down \in Seq(D)
      OBVIOUS
    <3>2. down # <<>> => Tail(down) \in Seq(D)
      <4> HIDE DEF D
      <4> QED BY <3>1, TailIs
    <3> HIDE DEF D
    <3>3. down' \in Seq(D)
      BY <1>9, <3>1, <3>2 DEF DataFrame, pageVars, srvVars
    <3> USE DEF D
    <3>5. got + 1 <= MaxDown
      <4>1. es = "live" /\ down # <<>> /\ Head(down) \in 1..MaxDown
        BY <1>9 DEF DataFrame
      <4>2. down[1] \in 1..MaxDown => got + 1 <= upSent
        BY <4>1, HeadIs
      <4>3. Head(down) = down[1]
        BY <4>1, HeadIs
      <4> QED BY <4>1, <4>2, <4>3, BridgeBounds
    <3>4. upSent' \in 0..MaxDown /\ got' \in 0..MaxDown
      BY <1>9, <3>5 DEF DataFrame, pageVars, srvVars
    <3> QED BY <3>3, <3>4
  <2>5. upGot' \in Seq(1..MaxUp) /\ posts' \subseteq Tasks \X {"sent", "found"}
    BY <1>9 DEF DataFrame, pageVars, srvVars
  <2>6. known' \in BOOLEAN /\ srv' \in {"none", "dial", "register", "open", "pump", "end"}
        /\ up' \in {"none", "open", "closed"} /\ tcp' \in {"none", "up", "shut", "cut"}
        /\ mode' \in {"trying", "native", "bridge"}
        /\ obs' \subseteq {"early", "failed", "clean", "registered", "refused"}
    BY <1>9 DEF DataFrame, pageVars, srvVars
  <2> QED BY <2>1, <2>2, <2>3, <2>4, <2>5, <2>6, Zenon
<1>10. ASSUME CloseFrame PROVE BridgeTypeOK'
  BY <1>10, Finished, Settled DEF CloseFrame, Frame, Saw, pageVars, srvVars
<1>11. ASSUME EsError PROVE BridgeTypeOK'
  <2>1. rs' \in {"connecting", "open", "closing", "closed"} /\ gate' \in BOOLEAN
        /\ es' \in {"none", "connecting", "live", "closed"}
    BY <1>11, Finished, Settled DEF EsError, Frame, pageVars, srvVars
  <2>2. closes' = IF rs' = "closed" THEN 1 ELSE 0
    BY <1>11, Finished, Settled DEF EsError, Frame, pageVars, srvVars
  <2>3. queue' \in Seq(Tasks) /\ cur' \in Tasks \cup {None} /\ sent' \in Tasks
    BY <1>11, Finished, Settled DEF EsError, Frame, pageVars, srvVars
  <2>4. down' \in Seq(1..MaxDown \cup {OpenF, CloseF, ErrorF}) /\ upSent' \in 0..MaxDown
        /\ got' \in 0..MaxDown
    <3> DEFINE D == 1..MaxDown \cup {OpenF, CloseF, ErrorF}
    <3>1. down \in Seq(D)
      OBVIOUS
    <3>2. down # <<>> => Tail(down) \in Seq(D)
      <4> HIDE DEF D
      <4> QED BY <3>1, TailIs
    <3> HIDE DEF D
    <3>3. down' \in Seq(D)
      BY <1>11, <3>1, <3>2 DEF EsError, Frame, pageVars, srvVars
    <3> USE DEF D
    <3>4. upSent' \in 0..MaxDown /\ got' = got
      BY <1>11, Finished, Settled DEF EsError, Frame, pageVars, srvVars
    <3> QED BY <3>3, <3>4
  <2>5. upGot' \in Seq(1..MaxUp) /\ posts' \subseteq Tasks \X {"sent", "found"}
    BY <1>11, Finished, Settled DEF EsError, Frame, pageVars, srvVars
  <2>6. known' \in BOOLEAN /\ srv' \in {"none", "dial", "register", "open", "pump", "end"}
        /\ up' \in {"none", "open", "closed"} /\ tcp' \in {"none", "up", "shut", "cut"}
        /\ mode' \in {"trying", "native", "bridge"}
        /\ obs' \subseteq {"early", "failed", "clean", "registered", "refused"}
    BY <1>11, Finished, Settled DEF EsError, Frame, pageVars, srvVars
  <2> QED BY <2>1, <2>2, <2>3, <2>4, <2>5, <2>6, Zenon
<1>12. ASSUME StreamLost PROVE BridgeTypeOK'
  BY <1>12 DEF StreamLost, pageVars, srvVars
<1>13. ASSUME GetArrives PROVE BridgeTypeOK'
  BY <1>13 DEF GetArrives, pageVars, srvVars
<1>14. ASSUME DialFails PROVE BridgeTypeOK'
  BY <1>14, Settled DEF DialFails, Write, pageVars, srvVars
<1>15. ASSUME Dialed PROVE BridgeTypeOK'
  BY <1>15 DEF Dialed, pageVars, srvVars
<1>16. ASSUME RegisterConn PROVE BridgeTypeOK'
  BY <1>16 DEF RegisterConn, Saw, pageVars, srvVars
<1>17. ASSUME OpenSent PROVE BridgeTypeOK'
  BY <1>17 DEF OpenSent, Write, pageVars, srvVars
<1>18. ASSUME PumpData PROVE BridgeTypeOK'
  <2>1. rs' \in {"connecting", "open", "closing", "closed"} /\ gate' \in BOOLEAN
        /\ es' \in {"none", "connecting", "live", "closed"}
    BY <1>18 DEF PumpData, Write, pageVars, srvVars
  <2>2. closes' = IF rs' = "closed" THEN 1 ELSE 0
    BY <1>18 DEF PumpData, Write, pageVars, srvVars
  <2>3. queue' \in Seq(Tasks) /\ cur' \in Tasks \cup {None} /\ sent' \in Tasks
    BY <1>18 DEF PumpData, Write, pageVars, srvVars
  <2>4. down' \in Seq(1..MaxDown \cup {OpenF, CloseF, ErrorF}) /\ upSent' \in 0..MaxDown
        /\ got' \in 0..MaxDown
    <3> DEFINE D == 1..MaxDown \cup {OpenF, CloseF, ErrorF}
    <3>1. down \in Seq(D) /\ upSent + 1 \in D /\ upSent + 1 \in 0..MaxDown
      BY BridgeBounds, <1>18 DEF PumpData
    <3>2. Append(down, upSent + 1) \in Seq(D)
      <4> HIDE DEF D
      <4> QED BY <3>1, AppendIs
    <3> HIDE DEF D
    <3>3. down' \in Seq(D)
      BY <1>18, <3>1, <3>2 DEF PumpData, Write, pageVars, srvVars
    <3> USE DEF D
    <3>4. upSent' \in 0..MaxDown /\ got' = got
      BY <1>18, <3>1 DEF PumpData, Write, pageVars, srvVars
    <3> QED BY <3>3, <3>4
  <2>5. upGot' \in Seq(1..MaxUp) /\ posts' \subseteq Tasks \X {"sent", "found"}
    BY <1>18 DEF PumpData, Write, pageVars, srvVars
  <2>6. known' \in BOOLEAN /\ srv' \in {"none", "dial", "register", "open", "pump", "end"}
        /\ up' \in {"none", "open", "closed"} /\ tcp' \in {"none", "up", "shut", "cut"}
        /\ mode' \in {"trying", "native", "bridge"}
        /\ obs' \subseteq {"early", "failed", "clean", "registered", "refused"}
    BY <1>18 DEF PumpData, Write, pageVars, srvVars
  <2> QED BY <2>1, <2>2, <2>3, <2>4, <2>5, <2>6, Zenon
<1>19. ASSUME PumpClose PROVE BridgeTypeOK'
  <2>1. rs' \in {"connecting", "open", "closing", "closed"} /\ gate' \in BOOLEAN
        /\ es' \in {"none", "connecting", "live", "closed"}
    BY <1>19, Settled DEF PumpClose, Write, ConnClose, pageVars, srvVars
  <2>2. closes' = IF rs' = "closed" THEN 1 ELSE 0
    BY <1>19, Settled DEF PumpClose, Write, ConnClose, pageVars, srvVars
  <2>3. queue' \in Seq(Tasks) /\ cur' \in Tasks \cup {None} /\ sent' \in Tasks
    BY <1>19, Settled DEF PumpClose, Write, ConnClose, pageVars, srvVars
  <2>4. down' \in Seq(1..MaxDown \cup {OpenF, CloseF, ErrorF}) /\ upSent' \in 0..MaxDown
        /\ got' \in 0..MaxDown
    BY <1>19, Settled DEF PumpClose, Write, ConnClose, pageVars, srvVars
  <2>5. upGot' \in Seq(1..MaxUp) /\ posts' \subseteq Tasks \X {"sent", "found"}
    BY <1>19, Settled DEF PumpClose, Write, ConnClose, pageVars, srvVars
  <2>6. known' \in BOOLEAN /\ srv' \in {"none", "dial", "register", "open", "pump", "end"}
        /\ up' \in {"none", "open", "closed"} /\ tcp' \in {"none", "up", "shut", "cut"}
        /\ mode' \in {"trying", "native", "bridge"}
        /\ obs' \subseteq {"early", "failed", "clean", "registered", "refused"}
    BY <1>19, Settled DEF PumpClose, Write, ConnClose, pageVars, srvVars
  <2> QED BY <2>1, <2>2, <2>3, <2>4, <2>5, <2>6, Zenon
<1>20. ASSUME PumpEnds PROVE BridgeTypeOK'
  BY <1>20, Settled DEF PumpEnds, ConnClose, pageVars, srvVars
<1>21. ASSUME DownGone PROVE BridgeTypeOK'
  BY <1>21 DEF DownGone, ConnClose, pageVars, srvVars
<1>22. ASSUME NEW p \in posts, NotFound(p) PROVE BridgeTypeOK'
  <2>1. rs' \in {"connecting", "open", "closing", "closed"} /\ gate' \in BOOLEAN
        /\ es' \in {"none", "connecting", "live", "closed"}
    BY <1>22, Finished, Settled DEF NotFound, Answer, pageVars, srvVars
  <2>2. closes' = IF rs' = "closed" THEN 1 ELSE 0
    BY <1>22, Finished, Settled DEF NotFound, Answer, pageVars, srvVars
  <2>3. queue' \in Seq(Tasks) /\ cur' \in Tasks \cup {None} /\ sent' \in Tasks
    BY <1>22, Finished, Settled DEF NotFound, Answer, pageVars, srvVars
  <2>4. down' \in Seq(1..MaxDown \cup {OpenF, CloseF, ErrorF}) /\ upSent' \in 0..MaxDown
        /\ got' \in 0..MaxDown
    BY <1>22, Finished, Settled DEF NotFound, Answer, pageVars, srvVars
  <2>5. upGot' \in Seq(1..MaxUp) /\ posts' \subseteq Tasks \X {"sent", "found"}
    BY <1>22, Finished, Settled DEF NotFound, Answer, pageVars, srvVars
  <2>6. known' \in BOOLEAN /\ srv' \in {"none", "dial", "register", "open", "pump", "end"}
        /\ up' \in {"none", "open", "closed"} /\ tcp' \in {"none", "up", "shut", "cut"}
        /\ mode' \in {"trying", "native", "bridge"}
        /\ obs' \subseteq {"early", "failed", "clean", "registered", "refused"}
    BY <1>22, Finished, Settled DEF NotFound, Answer, pageVars, srvVars
  <2> QED BY <2>1, <2>2, <2>3, <2>4, <2>5, <2>6, Zenon
<1>23. ASSUME NEW p \in posts, Found(p) PROVE BridgeTypeOK'
  BY <1>23 DEF Found, pageVars, srvVars
<1>24. ASSUME NEW p \in posts, Rejected(p) PROVE BridgeTypeOK'
  BY <1>24, Finished, Settled DEF Rejected, Answer, Saw, pageVars, srvVars
<1>25. ASSUME NEW p \in posts, Relayed(p) PROVE BridgeTypeOK'
  <2>1. rs' \in {"connecting", "open", "closing", "closed"} /\ gate' \in BOOLEAN
        /\ es' \in {"none", "connecting", "live", "closed"}
    BY <1>25, Finished, Settled DEF Relayed, Answer, pageVars, srvVars
  <2>2. closes' = IF rs' = "closed" THEN 1 ELSE 0
    BY <1>25, Finished, Settled DEF Relayed, Answer, pageVars, srvVars
  <2>3. queue' \in Seq(Tasks) /\ cur' \in Tasks \cup {None} /\ sent' \in Tasks
    BY <1>25, Finished, Settled DEF Relayed, Answer, pageVars, srvVars
  <2>4. down' \in Seq(1..MaxDown \cup {OpenF, CloseF, ErrorF}) /\ upSent' \in 0..MaxDown
        /\ got' \in 0..MaxDown
    BY <1>25, Finished, Settled DEF Relayed, Answer, pageVars, srvVars
  <2>5. upGot' \in Seq(1..MaxUp) /\ posts' \subseteq Tasks \X {"sent", "found"}
    BY <1>25, Finished, Settled DEF Relayed, Answer, pageVars, srvVars
  <2>6. known' \in BOOLEAN /\ srv' \in {"none", "dial", "register", "open", "pump", "end"}
        /\ up' \in {"none", "open", "closed"} /\ tcp' \in {"none", "up", "shut", "cut"}
        /\ mode' \in {"trying", "native", "bridge"}
        /\ obs' \subseteq {"early", "failed", "clean", "registered", "refused"}
    BY <1>25, Finished, Settled DEF Relayed, Answer, pageVars, srvVars
  <2> QED BY <2>1, <2>2, <2>3, <2>4, <2>5, <2>6, Zenon
<1>26. ASSUME NEW p \in posts, Torn(p) PROVE BridgeTypeOK'
  <2>1. rs' \in {"connecting", "open", "closing", "closed"} /\ gate' \in BOOLEAN
        /\ es' \in {"none", "connecting", "live", "closed"}
    BY <1>26, Finished, Settled DEF Torn, ConnClose, Answer, pageVars, srvVars
  <2>2. closes' = IF rs' = "closed" THEN 1 ELSE 0
    BY <1>26, Finished, Settled DEF Torn, ConnClose, Answer, pageVars, srvVars
  <2>3. queue' \in Seq(Tasks) /\ cur' \in Tasks \cup {None} /\ sent' \in Tasks
    BY <1>26, Finished, Settled DEF Torn, ConnClose, Answer, pageVars, srvVars
  <2>4. down' \in Seq(1..MaxDown \cup {OpenF, CloseF, ErrorF}) /\ upSent' \in 0..MaxDown
        /\ got' \in 0..MaxDown
    BY <1>26, Finished, Settled DEF Torn, ConnClose, Answer, pageVars, srvVars
  <2>5. upGot' \in Seq(1..MaxUp) /\ posts' \subseteq Tasks \X {"sent", "found"}
    BY <1>26, Finished, Settled DEF Torn, ConnClose, Answer, pageVars, srvVars
  <2>6. known' \in BOOLEAN /\ srv' \in {"none", "dial", "register", "open", "pump", "end"}
        /\ up' \in {"none", "open", "closed"} /\ tcp' \in {"none", "up", "shut", "cut"}
        /\ mode' \in {"trying", "native", "bridge"}
        /\ obs' \subseteq {"early", "failed", "clean", "registered", "refused"}
    BY <1>26, Finished, Settled DEF Torn, ConnClose, Answer, pageVars, srvVars
  <2> QED BY <2>1, <2>2, <2>3, <2>4, <2>5, <2>6, Zenon
<1>27. CASE UNCHANGED bridgeVars
  BY <1>27 DEF bridgeVars, pageVars, srvVars
<1> QED BY <1>1, <1>2, <1>3, <1>4, <1>5, <1>6, <1>7, <1>8, <1>9, <1>10, <1>11,
       <1>12, <1>13, <1>14, <1>15, <1>16, <1>17, <1>18, <1>19, <1>20, <1>21,
       <1>22, <1>23, <1>24, <1>25, <1>26, <1>27 DEF BridgeNext, Shim, Bridge,
       PostStep

(* Every step keeps a clean close complete.                                *)
LEMMA CleanStep ==
  ASSUME BridgeTypeOK, ServerOK, GateOK, DownOK, CleanOK,
         [BridgeNext]_bridgeVars
  PROVE  CleanOK'
<1> USE DEF BridgeTypeOK, ServerOK, GateOK, DownOK, Reg, CleanOK, OpenF,
       CloseF, ErrorF
<1>1. ASSUME NativeOpens PROVE CleanOK'
  BY <1>1 DEF NativeOpens, pageVars, srvVars
<1>2. ASSUME NativeCloses PROVE CleanOK'
  BY <1>2 DEF NativeCloses, pageVars, srvVars
<1>3. ASSUME Fallback PROVE CleanOK'
  BY <1>3 DEF Fallback, pageVars, srvVars
<1>4. ASSUME Send PROVE CleanOK'
  BY <1>4 DEF Send, pageVars, srvVars
<1>5. ASSUME PageCloses PROVE CleanOK'
  BY <1>5 DEF PageCloses, pageVars, srvVars
<1>6. ASSUME NextTask PROVE CleanOK'
  BY <1>6 DEF NextTask, pageVars, srvVars
<1>7. ASSUME FetchFails PROVE CleanOK'
  BY <1>7, Finished, Settled DEF FetchFails, Saw, pageVars, srvVars
<1>8. ASSUME OpenFrame PROVE CleanOK'
  BY <1>8 DEF OpenFrame, Frame, pageVars, srvVars
<1>9. ASSUME DataFrame PROVE CleanOK'
  BY <1>9 DEF DataFrame, pageVars, srvVars
<1>10. ASSUME CloseFrame PROVE CleanOK'
  BY <1>10, HeadIs, Finished DEF CloseFrame, Frame, Saw
<1>11. ASSUME EsError PROVE CleanOK'
  BY <1>11, Finished, Settled DEF EsError, Frame, pageVars, srvVars
<1>12. ASSUME StreamLost PROVE CleanOK'
  BY <1>12 DEF StreamLost, pageVars, srvVars
<1>13. ASSUME GetArrives PROVE CleanOK'
  BY <1>13 DEF GetArrives, pageVars, srvVars
<1>14. ASSUME DialFails PROVE CleanOK'
  BY <1>14, Settled DEF DialFails, Write, pageVars, srvVars
<1>15. ASSUME Dialed PROVE CleanOK'
  BY <1>15 DEF Dialed, pageVars, srvVars
<1>16. ASSUME RegisterConn PROVE CleanOK'
  BY <1>16 DEF RegisterConn, Saw, pageVars, srvVars
<1>17. ASSUME OpenSent PROVE CleanOK'
  BY <1>17 DEF OpenSent, Write, pageVars, srvVars
<1>18. ASSUME PumpData PROVE CleanOK'
  BY <1>18 DEF PumpData, Write, pageVars, srvVars
<1>19. ASSUME PumpClose PROVE CleanOK'
  BY <1>19, Settled DEF PumpClose, Write, ConnClose, pageVars, srvVars
<1>20. ASSUME PumpEnds PROVE CleanOK'
  BY <1>20, Settled DEF PumpEnds, ConnClose, pageVars, srvVars
<1>21. ASSUME DownGone PROVE CleanOK'
  BY <1>21 DEF DownGone, ConnClose, pageVars, srvVars
<1>22. ASSUME NEW p \in posts, NotFound(p) PROVE CleanOK'
  BY <1>22, Finished, Settled DEF NotFound, Answer, pageVars, srvVars
<1>23. ASSUME NEW p \in posts, Found(p) PROVE CleanOK'
  BY <1>23 DEF Found, pageVars, srvVars
<1>24. ASSUME NEW p \in posts, Rejected(p) PROVE CleanOK'
  BY <1>24, Finished, Settled DEF Rejected, Answer, Saw, pageVars, srvVars
<1>25. ASSUME NEW p \in posts, Relayed(p) PROVE CleanOK'
  BY <1>25, Finished, Settled DEF Relayed, Answer, pageVars, srvVars
<1>26. ASSUME NEW p \in posts, Torn(p) PROVE CleanOK'
  BY <1>26, Finished, Settled DEF Torn, ConnClose, Answer, pageVars, srvVars
<1>27. CASE UNCHANGED bridgeVars
  BY <1>27 DEF bridgeVars, pageVars, srvVars
<1> QED BY <1>1, <1>2, <1>3, <1>4, <1>5, <1>6, <1>7, <1>8, <1>9, <1>10, <1>11,
       <1>12, <1>13, <1>14, <1>15, <1>16, <1>17, <1>18, <1>19, <1>20, <1>21,
       <1>22, <1>23, <1>24, <1>25, <1>26, <1>27 DEF BridgeNext, Shim, Bridge,
       PostStep

(* No step refuses a message for want of the connection.                   *)
LEMMA RefusedStep ==
  ASSUME BridgeTypeOK, ServerOK, GateOK, DownOK, SendsFindConn,
         [BridgeNext]_bridgeVars
  PROVE  SendsFindConn'
<1> USE DEF BridgeTypeOK, ServerOK, GateOK, DownOK, Reg, SendsFindConn
<1>1. ASSUME NativeOpens PROVE SendsFindConn'
  BY <1>1 DEF NativeOpens, pageVars, srvVars
<1>2. ASSUME NativeCloses PROVE SendsFindConn'
  BY <1>2 DEF NativeCloses, pageVars, srvVars
<1>3. ASSUME Fallback PROVE SendsFindConn'
  BY <1>3 DEF Fallback, pageVars, srvVars
<1>4. ASSUME Send PROVE SendsFindConn'
  BY <1>4 DEF Send, pageVars, srvVars
<1>5. ASSUME PageCloses PROVE SendsFindConn'
  BY <1>5 DEF PageCloses, pageVars, srvVars
<1>6. ASSUME NextTask PROVE SendsFindConn'
  BY <1>6 DEF NextTask, pageVars, srvVars
<1>7. ASSUME FetchFails PROVE SendsFindConn'
  BY <1>7, Finished, Settled DEF FetchFails, Saw, pageVars, srvVars
<1>8. ASSUME OpenFrame PROVE SendsFindConn'
  BY <1>8 DEF OpenFrame, Frame, pageVars, srvVars
<1>9. ASSUME DataFrame PROVE SendsFindConn'
  BY <1>9 DEF DataFrame, pageVars, srvVars
<1>10. ASSUME CloseFrame PROVE SendsFindConn'
  BY <1>10, Finished, Settled DEF CloseFrame, Frame, Saw, pageVars, srvVars
<1>11. ASSUME EsError PROVE SendsFindConn'
  BY <1>11, Finished, Settled DEF EsError, Frame, pageVars, srvVars
<1>12. ASSUME StreamLost PROVE SendsFindConn'
  BY <1>12 DEF StreamLost, pageVars, srvVars
<1>13. ASSUME GetArrives PROVE SendsFindConn'
  BY <1>13 DEF GetArrives, pageVars, srvVars
<1>14. ASSUME DialFails PROVE SendsFindConn'
  BY <1>14, Settled DEF DialFails, Write, pageVars, srvVars
<1>15. ASSUME Dialed PROVE SendsFindConn'
  BY <1>15 DEF Dialed, pageVars, srvVars
<1>16. ASSUME RegisterConn PROVE SendsFindConn'
  BY <1>16 DEF RegisterConn, Saw, pageVars, srvVars
<1>17. ASSUME OpenSent PROVE SendsFindConn'
  BY <1>17 DEF OpenSent, Write, pageVars, srvVars
<1>18. ASSUME PumpData PROVE SendsFindConn'
  BY <1>18 DEF PumpData, Write, pageVars, srvVars
<1>19. ASSUME PumpClose PROVE SendsFindConn'
  BY <1>19, Settled DEF PumpClose, Write, ConnClose, pageVars, srvVars
<1>20. ASSUME PumpEnds PROVE SendsFindConn'
  BY <1>20, Settled DEF PumpEnds, ConnClose, pageVars, srvVars
<1>21. ASSUME DownGone PROVE SendsFindConn'
  BY <1>21 DEF DownGone, ConnClose, pageVars, srvVars
<1>22. ASSUME NEW p \in posts, NotFound(p) PROVE SendsFindConn'
  BY <1>22, Finished, Settled DEF NotFound, Answer, pageVars, srvVars
<1>23. ASSUME NEW p \in posts, Found(p) PROVE SendsFindConn'
  BY <1>23 DEF Found, pageVars, srvVars
<1>24. ASSUME NEW p \in posts, Rejected(p) PROVE SendsFindConn'
  BY <1>24, Finished, Settled DEF Rejected, Answer, Saw, pageVars, srvVars
<1>25. ASSUME NEW p \in posts, Relayed(p) PROVE SendsFindConn'
  BY <1>25, Finished, Settled DEF Relayed, Answer, pageVars, srvVars
<1>26. ASSUME NEW p \in posts, Torn(p) PROVE SendsFindConn'
  BY <1>26, Finished, Settled DEF Torn, ConnClose, Answer, pageVars, srvVars
<1>27. CASE UNCHANGED bridgeVars
  BY <1>27 DEF bridgeVars, pageVars, srvVars
<1> QED BY <1>1, <1>2, <1>3, <1>4, <1>5, <1>6, <1>7, <1>8, <1>9, <1>10, <1>11,
       <1>12, <1>13, <1>14, <1>15, <1>16, <1>17, <1>18, <1>19, <1>20, <1>21,
       <1>22, <1>23, <1>24, <1>25, <1>26, <1>27 DEF BridgeNext, Shim, Bridge,
       PostStep

(* A step that leaves the stream alone, but for its ends, keeps DownOK.    *)
Quiet ==
  /\ UNCHANGED <<got, upSent, down, srv>>
  /\ es' = "live" => es = "live"
  /\ es' = "live" => tcp' = tcp \/ (tcp = "up" /\ tcp' = "shut")

LEMMA QuietDown ==
  ASSUME DownOK, Quiet
  PROVE  DownOK'
<1>1. UNCHANGED <<got, upSent, down, srv>>
  BY DEF Quiet
<1>2. Carries(0)' <=> Carries(0)
  BY <1>1 DEF Carries, Carried
<1>3. Carries(1)' <=> Carries(1)
  BY <1>1 DEF Carries, Carried
<1>4. DownCarries'
  BY <1>2, <1>3 DEF DownOK, DownCarries, Quiet
<1> QED BY <1>1, <1>4 DEF DownOK, Quiet

(* Every step keeps what the stream carries.                               *)
LEMMA DownStep ==
  ASSUME BridgeTypeOK, ServerOK, GateOK, DownOK, [BridgeNext]_bridgeVars
  PROVE  DownOK'
<1>1. ASSUME NativeOpens \/ NativeCloses \/ Fallback \/ Send \/ PageCloses \/
            NextTask \/ UNCHANGED bridgeVars
     PROVE  DownOK'
  <2>1. UNCHANGED <<got, upSent, down, srv>>
    BY <1>1 DEF NativeOpens, NativeCloses, Fallback, Send, PageCloses,
       NextTask, bridgeVars, pageVars, srvVars
  <2>2. es' = "live" => es = "live"
    BY <1>1 DEF NativeOpens, NativeCloses, Fallback, Send, PageCloses,
       NextTask, bridgeVars, pageVars, srvVars
  <2>3. es' = "live" => tcp' = tcp \/ (tcp = "up" /\ tcp' = "shut")
    BY <1>1, <2>2 DEF NativeOpens, NativeCloses, Fallback, Send, PageCloses,
       NextTask, bridgeVars, pageVars, srvVars
  <2> QED BY <2>1, <2>2, <2>3, QuietDown DEF Quiet
<1>2. ASSUME FetchFails \/ DownGone PROVE DownOK'
  <2>1. UNCHANGED <<got, upSent, down, srv>>
    BY <1>2, Finished, Settled DEF FetchFails, DownGone, Saw, ConnClose,
       pageVars, srvVars
  <2>2. es' = "live" => es = "live"
    BY <1>2, Finished, Settled DEF FetchFails, DownGone, Saw, ConnClose,
       pageVars, srvVars
  <2>3. es' = "live" => tcp' = tcp \/ (tcp = "up" /\ tcp' = "shut")
    BY <1>2, <2>2, Finished, Settled DEF FetchFails, DownGone, Saw, ConnClose,
       pageVars, srvVars
  <2> QED BY <2>1, <2>2, <2>3, QuietDown DEF Quiet
<1>3. ASSUME OpenFrame PROVE DownOK'
  <2>1. /\ es = "live" /\ down # <<>> /\ down' = Tail(down) /\ got' = got
        /\ Head(down) = OpenF /\ UNCHANGED <<upSent, srv, es, tcp>>
    BY <1>3 DEF OpenFrame, Frame, pageVars, srvVars
  <2>2. /\ down \in Seq(Frames) /\ Head(down) = down[1] /\ upSent - got \in Nat
        /\ tcp \in {"up", "shut"}
    BY <2>1, HeadIs
  <2>3. PICK o \in {0, 1} : Carried(down, o, upSent - got, srv)
    BY <2>1, HeadIs
  <2> DEFINE n == upSent - got
  <2>4. Carried(Tail(down), 0, n, srv)
    <3>1. n \in Nat /\ Carried(down, o, n, srv) /\ down[1] = OpenF
      BY <2>1, <2>2, <2>3
    <3> HIDE DEF n
    <3> QED BY <2>1, <2>2, <3>1, TakeOpen
  <2>5. srv \notin {"none", "dial", "register", "open"}
    BY <2>1 DEF DownOK
  <2>6. got \in Nat /\ upSent \in Nat
    BY DEF BridgeTypeOK
  <2>7. got' <= upSent' /\ upSent' - got' = n
    BY <2>1, <2>2, <2>4, <2>6
  <2>8. Carries(0)'
    BY <2>1, <2>4, <2>7 DEF Carries
  <2> QED BY <2>1, <2>2, <2>5, <2>7, <2>8 DEF DownOK, DownCarries
<1>4. ASSUME DataFrame PROVE DownOK'
  <2>1. /\ es = "live" /\ down # <<>> /\ down' = Tail(down) /\ got' = got + 1
        /\ Head(down) \in 1..MaxDown /\ UNCHANGED <<upSent, srv, es, tcp>>
    BY <1>4 DEF DataFrame, pageVars, srvVars
  <2>2. /\ down \in Seq(Frames) /\ Head(down) = down[1] /\ upSent - got \in Nat
        /\ tcp \in {"up", "shut"}
    BY <2>1, HeadIs
  <2>3. PICK o \in {0, 1} : Carried(down, o, upSent - got, srv)
    BY <2>1, HeadIs
  <2> DEFINE n == upSent - got
  <2>4. n >= 1 /\ Carried(Tail(down), 0, n - 1, srv)
    <3>1. n \in Nat /\ Carried(down, o, n, srv) /\ down[1] \in 1..MaxDown
      BY <2>1, <2>2, <2>3
    <3> HIDE DEF n
    <3> QED BY <2>1, <2>2, <3>1, TakeData
  <2>5. srv \notin {"none", "dial", "register", "open"}
    BY <2>1 DEF DownOK
  <2>6. got \in Nat /\ upSent \in Nat
    BY DEF BridgeTypeOK
  <2>7. got' <= upSent' /\ upSent' - got' = n - 1
    BY <2>1, <2>2, <2>4, <2>6
  <2>8. Carries(0)'
    BY <2>1, <2>4, <2>7 DEF Carries
  <2> QED BY <2>1, <2>2, <2>5, <2>7, <2>8 DEF DownOK, DownCarries
<1>5. ASSUME CloseFrame PROVE DownOK'
  <2>1. es' = "closed" /\ UNCHANGED <<got, upSent, srv>>
    BY <1>5, Finished, Settled DEF CloseFrame, Frame, Saw, pageVars, srvVars
  <2>2. srv \in {"none", "dial", "register", "open"} => down' = <<>>
    BY <1>5 DEF DownOK, GateOK, ServerOK, BridgeTypeOK, CloseFrame, Frame,
       Saw, pageVars, srvVars
  <2> QED BY <2>1, <2>2 DEF DownOK, DownCarries
<1>6. ASSUME EsError PROVE DownOK'
  <2>1. es' = "closed" /\ UNCHANGED <<got, upSent, srv>>
    BY <1>6, Finished, Settled DEF EsError, Frame, pageVars, srvVars
  <2>2. srv \in {"none", "dial", "register", "open"} => down' = <<>>
    BY <1>6 DEF DownOK, GateOK, ServerOK, BridgeTypeOK, EsError, Frame,
       pageVars, srvVars
  <2> QED BY <2>1, <2>2 DEF DownOK, DownCarries
<1>7. ASSUME StreamLost PROVE DownOK'
  BY <1>7 DEF StreamLost, pageVars, DownOK, DownCarries
<1>8. ASSUME GetArrives PROVE DownOK'
  <2>1. srv = "none" /\ srv' = "dial" /\ down = <<>> /\ upSent = 0 /\ got = 0
    BY <1>8 DEF GetArrives, DownOK, BridgeTypeOK
  <2>2. UNCHANGED <<down, upSent, got>>
    BY <1>8 DEF GetArrives
  <2>3. es' = "live" => tcp' = "up"
    BY <1>8 DEF GetArrives
  <2>4. Carries(0)'
    BY <2>1, <2>2 DEF Carries, Carried
  <2> QED BY <2>1, <2>2, <2>3, <2>4 DEF DownOK, DownCarries
<1>9. ASSUME DialFails PROVE DownOK'
  <2>1. /\ srv = "dial" /\ srv' = "end" /\ down = <<>> /\ upSent = 0 /\ got = 0
        /\ UNCHANGED <<upSent, got, es>>
    BY <1>9, Settled DEF DialFails, Write, pageVars, srvVars, DownOK,
       BridgeTypeOK
  <2>2. tcp # "shut"
    BY <2>1 DEF ServerOK
  <2>3. /\ tcp = "up" => down' = <<ErrorF>>
        /\ tcp # "up" => down' = <<>>
    BY <1>9, <2>1 DEF DialFails, Write
  <2>4. /\ tcp # "up" => tcp' = tcp
        /\ tcp = "up" => es' = "closed" \/ tcp' \in {"up", "shut"}
    BY <1>9, Settled DEF DialFails
  <2>5. Carried(<<ErrorF>>, 0, 0, "end")
    BY DEF Carried
  <2>6. upSent' - got' = 0
    BY <2>1
  <2>7. tcp = "up" => Carries(0)'
    BY <2>1, <2>3, <2>5, <2>6 DEF Carries
  <2> QED BY <2>1, <2>2, <2>3, <2>4, <2>7 DEF DownOK, DownCarries, BridgeTypeOK
<1>10. ASSUME Dialed PROVE DownOK'
  <2>1. down = <<>> /\ upSent = 0 /\ got = 0
    BY <1>10 DEF Dialed, pageVars, srvVars, DownOK, BridgeTypeOK
  <2>2. UNCHANGED <<down, upSent, got, es, tcp>> /\ srv' \in {"register", "open"}
    BY <1>10 DEF Dialed, pageVars, srvVars
  <2>3. Carries(0)'
    BY <2>1, <2>2 DEF Carries, Carried
  <2> QED BY <2>1, <2>2, <2>3 DEF DownOK, DownCarries
<1>11. ASSUME RegisterConn PROVE DownOK'
  <2>1. down = <<>> /\ upSent = 0 /\ got = 0
    BY <1>11 DEF RegisterConn, Saw, pageVars, srvVars, DownOK, BridgeTypeOK
  <2>2. UNCHANGED <<down, upSent, got, es, tcp>> /\ srv' \in {"register", "open"}
    BY <1>11 DEF RegisterConn, Saw, pageVars, srvVars
  <2>3. Carries(0)'
    BY <2>1, <2>2 DEF Carries, Carried
  <2> QED BY <2>1, <2>2, <2>3 DEF DownOK, DownCarries
<1>12. ASSUME OpenSent PROVE DownOK'
  <2>1. /\ srv' = "pump" /\ down = <<>> /\ upSent = 0 /\ got = 0
        /\ UNCHANGED <<upSent, got, es, tcp>>
    BY <1>12 DEF OpenSent, Write, pageVars, srvVars, DownOK, BridgeTypeOK
  <2>3. /\ tcp = "up" => down' = <<OpenF>>
        /\ tcp # "up" => down' = <<>>
    BY <1>12, <2>1 DEF OpenSent, Write
  <2>4. down' = <<OpenF>> => Carries(1)'
    BY <2>1 DEF Carries, Carried
  <2>5. down' = <<>> => Carries(0)'
    BY <2>1 DEF Carries, Carried
  <2> QED BY <2>1, <2>3, <2>4, <2>5 DEF DownOK, DownCarries, BridgeTypeOK
<1>13. ASSUME PumpData PROVE DownOK'
  <2>1. /\ srv = "pump" /\ up = "open" /\ UNCHANGED <<got, es>>
        /\ down' = IF tcp = "up" THEN Append(down, upSent + 1) ELSE down
        /\ upSent' = upSent + 1 /\ upSent < MaxDown /\ UNCHANGED <<srv, tcp>>
    BY <1>13 DEF PumpData, Write, pageVars, srvVars
  <2>2. tcp # "shut"
    BY <2>1 DEF ServerOK
  <2>3. es' = "live" => tcp' = tcp \/ (tcp = "up" /\ tcp' = "shut")
    BY <1>13, <2>1 DEF PumpData, Write, pageVars, srvVars
  <2>4. /\ got \in Nat /\ upSent \in Nat /\ upSent - got \in Nat
        /\ down \in Seq(Frames)
    BY DEF BridgeTypeOK, DownOK, Frames
  <2> DEFINE n == upSent - got
  <2>5. ASSUME es = "live", tcp = "up"
        PROVE  \E o \in {0, 1} : Carried(down', o, upSent' - got', srv')
    <3>1. PICK o \in {0, 1} : Carried(down, o, n, srv)
      BY <2>5 DEF DownOK, DownCarries, Carries
    <3>2. n \in Nat /\ srv # "end"
      BY <2>1, <2>4
    <3>3. upSent' - got' = n + 1
      BY <2>1, <2>4
    <3> HIDE DEF n
    <3>4. Carried(Append(down, upSent + 1), o, n + 1, srv')
      <4>1. upSent + 1 \in 1..MaxDown
        BY <2>1, <2>4, BridgeBounds
      <4> QED BY <2>1, <2>4, <3>1, <3>2, <4>1, PutData
    <3> QED BY <2>1, <2>5, <3>3, <3>4
  <2>6. DownCarries'
    BY <2>1, <2>2, <2>3, <2>5 DEF DownCarries, Carries, BridgeTypeOK
  <2>7. got' <= upSent' /\ srv' \in {"pump", "end"}
    BY <2>1, <2>4 DEF DownOK
  <2> QED BY <2>1, <2>2, <2>3, <2>6, <2>7 DEF DownOK
<1>14. ASSUME PumpClose PROVE DownOK'
  <2>1. /\ srv = "pump" /\ up = "open" /\ UNCHANGED <<got, es>>
        /\ down' = IF tcp = "up" THEN Append(down, CloseF) ELSE down
        /\ UNCHANGED upSent /\ srv' = "end"
    BY <1>14, Settled DEF PumpClose, Write, ConnClose, pageVars, srvVars
  <2>2. tcp # "shut"
    BY <2>1 DEF ServerOK
  <2>3. es' = "live" => tcp' = tcp \/ (tcp = "up" /\ tcp' = "shut")
    BY <1>14, <2>1, Settled DEF PumpClose, Write, ConnClose, pageVars, srvVars
  <2>4. /\ got \in Nat /\ upSent \in Nat /\ upSent - got \in Nat
        /\ down \in Seq(Frames)
    BY DEF BridgeTypeOK, DownOK, Frames
  <2> DEFINE n == upSent - got
  <2>5. ASSUME es = "live", tcp = "up"
        PROVE  \E o \in {0, 1} : Carried(down', o, upSent' - got', srv')
    <3>1. PICK o \in {0, 1} : Carried(down, o, n, srv)
      BY <2>5 DEF DownOK, DownCarries, Carries
    <3>2. n \in Nat /\ srv # "end"
      BY <2>1, <2>4
    <3>3. upSent' - got' = n
      BY <2>1, <2>4
    <3> HIDE DEF n
    <3>4. Carried(Append(down, CloseF), o, n, srv')
      BY <2>1, <2>4, <3>1, <3>2, PutEnd
    <3> QED BY <2>1, <2>5, <3>3, <3>4
  <2>6. DownCarries'
    BY <2>1, <2>2, <2>3, <2>5 DEF DownCarries, Carries, BridgeTypeOK
  <2>7. got' <= upSent' /\ srv' \in {"pump", "end"}
    BY <2>1, <2>4 DEF DownOK
  <2> QED BY <2>1, <2>2, <2>3, <2>6, <2>7 DEF DownOK
<1>15. ASSUME PumpEnds PROVE DownOK'
  <2>1. srv' = "end" /\ UNCHANGED <<down, upSent, got, es>>
    BY <1>15, Settled DEF PumpEnds, ConnClose, pageVars, srvVars
  <2>2. es' = "live" => tcp' = tcp \/ (tcp = "up" /\ tcp' = "shut")
    BY <1>15, <2>1, Settled DEF PumpEnds
  <2>3. ASSUME NEW o, Carries(o) PROVE Carries(o)'
    BY <2>1, <2>3 DEF Carries, Carried
  <2>4. DownCarries'
    BY <2>1, <2>2, <2>3 DEF DownCarries, DownOK
  <2> QED BY <2>1, <2>2, <2>4 DEF DownOK
<1>16. ASSUME NEW p \in posts, NotFound(p) \/ Found(p) \/ Rejected(p) \/
            Relayed(p) \/ Torn(p)
     PROVE  DownOK'
  <2>1. UNCHANGED <<got, upSent, down, srv>>
    BY <1>16, Finished, Settled DEF NotFound, Found, Rejected, Relayed, Torn,
       Answer, Saw, ConnClose, pageVars, srvVars
  <2>2. es' = "live" => es = "live"
    BY <1>16, Finished, Settled DEF NotFound, Found, Rejected, Relayed, Torn,
       Answer, Saw, ConnClose, pageVars, srvVars
  <2>3. es' = "live" => tcp' = tcp \/ (tcp = "up" /\ tcp' = "shut")
    BY <1>16, <2>2, Finished, Settled DEF NotFound, Found, Rejected, Relayed,
       Torn, Answer, Saw, ConnClose, pageVars, srvVars
  <2> QED BY <2>1, <2>2, <2>3, QuietDown DEF Quiet
<1> QED BY <1>1, <1>2, <1>3, <1>4, <1>5, <1>6, <1>7, <1>8, <1>9, <1>10, <1>11,
       <1>12, <1>13, <1>14, <1>15, <1>16 DEF BridgeNext, Shim, Bridge,
       PostStep

(* The next message in line is the next one owed, ...                      *)
LEMMA LineMoves ==
  ASSUME NEW q \in Seq(Tasks), q # <<>>, NEW b \in Nat, NEW n \in Tasks, Lined(q, b, n)
  PROVE  IF q[1] = Close THEN Lined(Tail(q), b, n)
         ELSE q[1] = b + 1 /\ Lined(Tail(q), b + 1, n)
<1>0. MaxUp \in Nat /\ n \in Nat /\ n <= MaxUp
  BY BridgeBounds DEF Tasks
<1>1. /\ Len(q) \in Nat \ {0} /\ Len(Tail(q)) = Len(q) - 1 /\ q[1] \in Tasks
      /\ \A i \in 1..(Len(q) - 1) : Tail(q)[i] = q[i + 1]
  <2> HIDE DEF Tasks
  <2> QED BY TailIs
<1>2. \A i \in 1..Len(q) : q[i] \in Nat
  <2>1. \A i \in 1..Len(q) : q[i] \in Tasks
    BY ElementOfSeq
  <2> QED BY <2>1 DEF Tasks
<1>3. \A i \in 1..Len(Tail(q)) : i + 1 \in 1..Len(q) /\ Tail(q)[i] = q[i + 1]
  BY <1>1
<1>4. \A i \in 2..Len(q) : i - 1 \in 1..Len(Tail(q)) /\ Tail(q)[i - 1] = q[i]
  BY <1>1
<1>5. ASSUME q[1] = Close PROVE Lined(Tail(q), b, n)
  <2>1. \A i \in 1..Len(Tail(q)) : Tail(q)[i] # Close => b < Tail(q)[i] /\ Tail(q)[i] <= n
    BY <1>3 DEF Lined
  <2>2. \A i, j \in 1..Len(Tail(q)) :
           i < j /\ Tail(q)[i] # Close /\ Tail(q)[j] # Close => Tail(q)[i] < Tail(q)[j]
    BY <1>1, <1>3 DEF Lined
  <2>3. ASSUME NEW m \in 1..MaxUp, b < m, m <= n
        PROVE  \E i \in 1..Len(Tail(q)) : Tail(q)[i] = m
    <3>1. PICK i \in 1..Len(q) : q[i] = m
      BY <2>3 DEF Lined
    <3>2. i \in 2..Len(q)
      BY <1>1, <1>5, <3>1 DEF Close
    <3> QED BY <1>4, <3>1, <3>2
  <2> QED BY <2>1, <2>2, <2>3 DEF Lined
<1>6. ASSUME q[1] # Close PROVE q[1] = b + 1 /\ Lined(Tail(q), b + 1, n)
  <2>1. b < q[1] /\ q[1] <= n /\ q[1] \in Nat /\ 1 \in 1..Len(q)
    BY <1>1, <1>2, <1>6 DEF Lined
  <2>2. b + 1 \in 1..MaxUp /\ b < b + 1 /\ b + 1 <= n
    BY <1>0, <2>1
  <2>3. PICK k \in 1..Len(q) : q[k] = b + 1
    BY <2>2 DEF Lined
  <2>4. q[k] # Close
    BY <2>3 DEF Close
  <2>5. k = 1 => q[1] = b + 1
    BY <2>3
  <2>6. ASSUME k # 1 PROVE FALSE
    <3>1. 1 < k
      BY <2>6, <1>1
    <3>2. q[1] < q[k]
      BY <1>6, <2>1, <2>4, <3>1 DEF Lined
    <3> QED BY <2>1, <2>3, <3>2
  <2>7. q[1] = b + 1
    BY <2>5, <2>6
  <2>8. \A i \in 1..Len(Tail(q)) : Tail(q)[i] # Close => b + 1 < Tail(q)[i] /\ Tail(q)[i] <= n
    <3> SUFFICES ASSUME NEW i \in 1..Len(Tail(q)), Tail(q)[i] # Close
                 PROVE  b + 1 < Tail(q)[i] /\ Tail(q)[i] <= n
      OBVIOUS
    <3>1. i + 1 \in 1..Len(q) /\ Tail(q)[i] = q[i + 1] /\ 1 < i + 1
      BY <1>1, <1>3
    <3>2. q[1] < q[i + 1] /\ q[i + 1] <= n
      BY <1>6, <2>1, <3>1 DEF Lined
    <3> QED BY <2>7, <3>1, <3>2
  <2>9. \A i, j \in 1..Len(Tail(q)) :
           i < j /\ Tail(q)[i] # Close /\ Tail(q)[j] # Close => Tail(q)[i] < Tail(q)[j]
    BY <1>1, <1>3 DEF Lined
  <2>10. ASSUME NEW m \in 1..MaxUp, b + 1 < m, m <= n
        PROVE  \E i \in 1..Len(Tail(q)) : Tail(q)[i] = m
    <3>0. b < m
      BY <2>10
    <3>1. PICK i \in 1..Len(q) : q[i] = m
      BY <2>10, <3>0 DEF Lined
    <3>2. i \in 2..Len(q)
      BY <1>1, <2>7, <2>10, <3>1
    <3> QED BY <1>4, <3>1, <3>2
  <2> QED BY <2>2, <2>7, <2>8, <2>9, <2>10 DEF Lined
<1> QED BY <1>5, <1>6

(* ... and who joins the line keeps its order.                             *)
LEMMA LineGrows ==
  ASSUME NEW q \in Seq(Tasks), NEW b \in Nat, NEW n \in Tasks, Lined(q, b, n)
  PROVE  /\ Lined(Append(q, Close), b, n)
         /\ n < MaxUp => Lined(Append(q, n + 1), b, n + 1)
<1>0. MaxUp \in Nat /\ n \in Nat /\ n <= MaxUp
  BY BridgeBounds DEF Tasks
<1>1. ASSUME NEW e \in Tasks
      PROVE  /\ Len(Append(q, e)) = Len(q) + 1 /\ Len(q) \in Nat
             /\ \A i \in 1..Len(q) : Append(q, e)[i] = q[i]
             /\ Append(q, e)[Len(q) + 1] = e
  <2> HIDE DEF Tasks
  <2> QED BY AppendIs
<1>2. Lined(Append(q, Close), b, n)
  <2>1. Close \in Tasks
    BY BridgeBounds DEF Close, Tasks
  <2> QED BY <1>1, <2>1 DEF Lined
<1>3. ASSUME n < MaxUp PROVE Lined(Append(q, n + 1), b, n + 1)
  <2>1. n + 1 \in Tasks /\ n + 1 # Close
    BY <1>0, <1>3 DEF Tasks, Close
  <2> DEFINE a == Append(q, n + 1)
  <2>2. /\ Len(a) = Len(q) + 1 /\ Len(q) \in Nat
        /\ \A i \in 1..Len(q) : a[i] = q[i]
        /\ a[Len(q) + 1] = n + 1
    BY <1>1, <2>1
  <2> HIDE DEF a
  <2>3. \A i \in 1..Len(q) : q[i] \in Nat
    <3>1. \A i \in 1..Len(q) : q[i] \in Tasks
      BY ElementOfSeq
    <3> QED BY <3>1 DEF Tasks
  <2>4. b <= n + 1
    BY <1>0 DEF Lined
  <2>5. \A i \in 1..Len(a) : a[i] # Close => b < a[i] /\ a[i] <= n + 1
    BY <1>0, <2>2, <2>3 DEF Lined
  <2>6. \A i, j \in 1..Len(a) : i < j /\ a[i] # Close /\ a[j] # Close => a[i] < a[j]
    BY <1>0, <2>2, <2>3 DEF Lined
  <2>7. \A m \in 1..MaxUp : b < m /\ m <= n + 1 => \E i \in 1..Len(a) : a[i] = m
    <3> SUFFICES ASSUME NEW m \in 1..MaxUp, b < m, m <= n + 1
                 PROVE  \E i \in 1..Len(a) : a[i] = m
      OBVIOUS
    <3>1. CASE m = n + 1
      <4>1. Len(q) + 1 \in 1..Len(a)
        BY <2>2
      <4> QED BY <2>2, <3>1, <4>1
    <3>2. CASE m <= n
      <4>1. PICK i \in 1..Len(q) : q[i] = m
        BY <3>2 DEF Lined
      <4>2. i \in 1..Len(a)
        BY <2>2
      <4> QED BY <2>2, <4>1, <4>2
    <3> QED BY <1>0, <3>1, <3>2
  <2> QED BY <2>4, <2>5, <2>6, <2>7 DEF Lined, a
<1> QED BY <1>2, <1>3

(* A step that leaves the line, the POSTs and what dsh received alone and  *)
(* brings no connection back keeps UpOK.                                   *)
Undisturbed ==
  /\ UNCHANGED <<queue, cur, sent, upGot, posts>>
  /\ "failed" \notin obs' => "failed" \notin obs
  /\ Reg /\ ~known => Reg' /\ ~known'

LEMMA UndisturbedUp ==
  ASSUME UpOK, Undisturbed
  PROVE  UpOK'
<1>1. UNCHANGED <<queue, cur, sent, upGot, posts>>
  BY DEF Undisturbed
<1>2. Waiting' <=> Waiting
  BY <1>1 DEF Waiting, Lined, Base
<1>3. OnePost' <=> OnePost
  BY <1>1 DEF OnePost
<1> QED BY <1>1, <1>2, <1>3 DEF UpOK, Undisturbed

(* Every step keeps what dsh received a prefix, and the rest in line.      *)
LEMMA UpStep ==
  ASSUME BridgeTypeOK, ServerOK, GateOK, UpOK, [BridgeNext]_bridgeVars
  PROVE  UpOK'
<1>1. ASSUME NativeOpens \/ NativeCloses \/ Fallback \/ OpenFrame \/ DataFrame
            \/ CloseFrame \/ EsError \/ UNCHANGED bridgeVars
     PROVE  UpOK'
  <2>1. UNCHANGED <<queue, cur, sent, upGot, posts>>
    BY <1>1, Finished, Settled DEF NativeOpens, NativeCloses, Fallback,
       OpenFrame, DataFrame, CloseFrame, EsError, bridgeVars, Frame, Saw,
       pageVars, srvVars
  <2>2. "failed" \notin obs' => "failed" \notin obs
    BY <1>1, Finished, Settled DEF NativeOpens, NativeCloses, Fallback,
       OpenFrame, DataFrame, CloseFrame, EsError, bridgeVars, Frame, Saw,
       pageVars, srvVars
  <2>3. Reg /\ ~known => Reg' /\ ~known'
    BY <1>1, Finished, Settled DEF NativeOpens, NativeCloses, Fallback,
       OpenFrame, DataFrame, CloseFrame, EsError, bridgeVars, Frame, Saw,
       pageVars, srvVars, Reg, ServerOK, BridgeTypeOK
  <2> QED BY <2>1, <2>2, <2>3, UndisturbedUp DEF Undisturbed
<1>2. ASSUME Send PROVE UpOK'
  <2> SUFFICES ASSUME "failed" \notin obs'
               PROVE  /\ \A i \in DOMAIN upGot' : upGot'[i] = i
                      /\ OnePost'
                      /\ ~(Reg /\ ~known)' => Waiting'
    BY DEF UpOK
  <2>0. /\ \A i \in DOMAIN upGot : upGot[i] = i
        /\ OnePost
        /\ ~(Reg /\ ~known) => Waiting
        /\ queue \in Seq(Tasks) /\ sent \in Tasks /\ Len(upGot) \in Nat
        /\ Base \in Nat /\ cur \in Tasks \cup {None} /\ MaxUp \in Nat
    <3>1. "failed" \notin obs
      BY <1>2 DEF Send, pageVars, srvVars
    <3>2. upGot \in Seq(1..MaxUp) /\ queue \in Seq(Tasks) /\ sent \in Tasks
          /\ cur \in Tasks \cup {None} /\ MaxUp \in Nat
      BY BridgeBounds DEF BridgeTypeOK
    <3>3. Len(upGot) \in Nat
      BY <3>2
    <3>4. Base \in Nat
      BY <3>3 DEF Base
    <3> QED BY <3>1, <3>2, <3>3, <3>4 DEF UpOK
  <2>1. /\ UNCHANGED <<cur, upGot, posts, known, obs>>
        /\ queue' = Append(queue, sent + 1) /\ sent' = sent + 1 /\ sent < MaxUp
    BY <1>2 DEF Send, pageVars, srvVars
  <2>2. Base' = Base
    BY <2>1 DEF Base
  <2>3. ASSUME Waiting PROVE Waiting'
    <3>1. Lined(Append(queue, sent + 1), Base, sent + 1)
      BY <2>0, <2>1, <2>3, LineGrows DEF Waiting
    <3> QED BY <2>1, <2>2, <2>3, <3>1 DEF Waiting
  <2> QED BY <2>0, <2>1, <2>3 DEF OnePost, Reg
<1>3. ASSUME PageCloses PROVE UpOK'
  <2> SUFFICES ASSUME "failed" \notin obs'
               PROVE  /\ \A i \in DOMAIN upGot' : upGot'[i] = i
                      /\ OnePost'
                      /\ ~(Reg /\ ~known)' => Waiting'
    BY DEF UpOK
  <2>0. /\ \A i \in DOMAIN upGot : upGot[i] = i
        /\ OnePost
        /\ ~(Reg /\ ~known) => Waiting
        /\ queue \in Seq(Tasks) /\ sent \in Tasks /\ Len(upGot) \in Nat
        /\ Base \in Nat /\ cur \in Tasks \cup {None} /\ MaxUp \in Nat
    <3>1. "failed" \notin obs
      BY <1>3 DEF PageCloses, pageVars, srvVars
    <3>2. upGot \in Seq(1..MaxUp) /\ queue \in Seq(Tasks) /\ sent \in Tasks
          /\ cur \in Tasks \cup {None} /\ MaxUp \in Nat
      BY BridgeBounds DEF BridgeTypeOK
    <3>3. Len(upGot) \in Nat
      BY <3>2
    <3>4. Base \in Nat
      BY <3>3 DEF Base
    <3> QED BY <3>1, <3>2, <3>3, <3>4 DEF UpOK
  <2>1. /\ UNCHANGED <<cur, upGot, posts, known, sent>> /\ Reg' = Reg
        /\ queue' = queue \/ queue' = Append(queue, Close)
    BY <1>3 DEF PageCloses, pageVars, srvVars, Reg
  <2>2. Base' = Base
    BY <2>1 DEF Base
  <2>3. ASSUME Waiting PROVE Waiting'
    <3>1. Lined(Append(queue, Close), Base, sent) /\ Lined(queue, Base, sent)
      BY <2>0, <2>3, LineGrows DEF Waiting
    <3>2. Lined(queue', Base, sent)
      BY <2>1, <3>1
    <3> QED BY <2>1, <2>2, <2>3, <3>2 DEF Waiting
  <2> QED BY <2>0, <2>1, <2>3 DEF OnePost
<1>4. ASSUME NextTask PROVE UpOK'
  <2> SUFFICES ASSUME "failed" \notin obs'
               PROVE  /\ \A i \in DOMAIN upGot' : upGot'[i] = i
                      /\ OnePost'
                      /\ ~(Reg /\ ~known)' => Waiting'
    BY DEF UpOK
  <2>0. /\ \A i \in DOMAIN upGot : upGot[i] = i
        /\ OnePost
        /\ ~(Reg /\ ~known) => Waiting
        /\ queue \in Seq(Tasks) /\ sent \in Tasks /\ Len(upGot) \in Nat
        /\ Base \in Nat /\ cur \in Tasks \cup {None} /\ MaxUp \in Nat
    <3>1. "failed" \notin obs
      BY <1>4 DEF NextTask, pageVars, srvVars
    <3>2. upGot \in Seq(1..MaxUp) /\ queue \in Seq(Tasks) /\ sent \in Tasks
          /\ cur \in Tasks \cup {None} /\ MaxUp \in Nat
      BY BridgeBounds DEF BridgeTypeOK
    <3>3. Len(upGot) \in Nat
      BY <3>2
    <3>4. Base \in Nat
      BY <3>3 DEF Base
    <3> QED BY <3>1, <3>2, <3>3, <3>4 DEF UpOK
  <2>1. /\ UNCHANGED <<upGot, known, sent, obs>> /\ cur = None /\ queue # <<>>
        /\ cur' = Head(queue) /\ queue' = Tail(queue)
        /\ posts' = posts \cup {<<Head(queue), "sent">>}
    BY <1>4 DEF NextTask, pageVars, srvVars
  <2>2. Head(queue) = queue[1] /\ queue[1] \in Tasks
    BY <2>0, <2>1, TailIs
  <2>3. Base = Len(upGot)
    BY <2>0, <2>1 DEF Base, None
  <2>4. cur' # None
    BY <2>0, <2>1, <2>2 DEF Tasks, None
  <2>5. OnePost'
    BY <2>0, <2>1, <2>4 DEF OnePost
  <2>6. ASSUME Waiting PROVE Waiting'
    <3>1. IF queue[1] = Close THEN Lined(Tail(queue), Base, sent)
          ELSE queue[1] = Base + 1 /\ Lined(Tail(queue), Base + 1, sent)
      BY <2>0, <2>1, <2>6, LineMoves DEF Waiting
    <3>2. CASE queue[1] = Close
      <4>1. cur' \notin 1..MaxUp
        BY <2>1, <2>2, <3>2 DEF Close
      <4>2. Base' = Base
        BY <2>0, <2>1, <2>3, <4>1 DEF Base
      <4> QED BY <2>1, <3>1, <3>2, <4>1, <4>2 DEF Waiting
    <3>3. CASE queue[1] # Close
      <4>1. cur' \in 1..MaxUp
        BY <2>0, <2>1, <2>2, <3>3 DEF Close, Tasks
      <4>2. Base' = Base + 1
        BY <2>0, <2>1, <2>3, <4>1 DEF Base
      <4> QED BY <2>1, <2>2, <3>1, <3>3, <4>1, <4>2 DEF Waiting
    <3> QED BY <3>2, <3>3
  <2> QED BY <2>0, <2>1, <2>5, <2>6 DEF Reg
<1>5. ASSUME FetchFails PROVE UpOK'
  <2>1. "failed" \in obs'
    BY <1>5, Finished, Settled DEF FetchFails, Saw, pageVars, srvVars
  <2> QED BY <2>1 DEF UpOK
<1>6. ASSUME StreamLost \/ GetArrives \/ DialFails \/ Dialed \/ RegisterConn
            \/ OpenSent \/ PumpData \/ PumpClose \/ PumpEnds \/ DownGone
     PROVE  UpOK'
  <2>1. UNCHANGED <<queue, cur, sent, upGot, posts>>
    BY <1>6, Settled DEF StreamLost, GetArrives, DialFails, Dialed,
       RegisterConn, OpenSent, PumpData, PumpClose, PumpEnds, DownGone, Write,
       Saw, ConnClose, pageVars, srvVars
  <2>2. "failed" \notin obs' => "failed" \notin obs
    BY <1>6, Settled DEF StreamLost, GetArrives, DialFails, Dialed,
       RegisterConn, OpenSent, PumpData, PumpClose, PumpEnds, DownGone, Write,
       Saw, ConnClose, pageVars, srvVars
  <2>3. Reg /\ ~known => Reg' /\ ~known'
    BY <1>6, Settled DEF StreamLost, GetArrives, DialFails, Dialed,
       RegisterConn, OpenSent, PumpData, PumpClose, PumpEnds, DownGone, Write,
       Saw, ConnClose, pageVars, srvVars, Reg, ServerOK, BridgeTypeOK
  <2> QED BY <2>1, <2>2, <2>3, UndisturbedUp DEF Undisturbed
<1>7. ASSUME NEW p \in posts, NotFound(p) PROVE UpOK'
  <2> SUFFICES ASSUME "failed" \notin obs'
               PROVE  /\ \A i \in DOMAIN upGot' : upGot'[i] = i
                      /\ OnePost'
                      /\ ~(Reg /\ ~known)' => Waiting'
    BY DEF UpOK
  <2>0. /\ \A i \in DOMAIN upGot : upGot[i] = i
        /\ OnePost
        /\ ~(Reg /\ ~known) => Waiting
        /\ queue \in Seq(Tasks) /\ sent \in Tasks /\ Len(upGot) \in Nat
        /\ Base \in Nat /\ cur \in Tasks \cup {None} /\ MaxUp \in Nat
    <3>1. "failed" \notin obs
      BY <1>7, Finished, Settled DEF NotFound, Answer, pageVars, srvVars
    <3>2. upGot \in Seq(1..MaxUp) /\ queue \in Seq(Tasks) /\ sent \in Tasks
          /\ cur \in Tasks \cup {None} /\ MaxUp \in Nat
      BY BridgeBounds DEF BridgeTypeOK
    <3>3. Len(upGot) \in Nat
      BY <3>2
    <3>4. Base \in Nat
      BY <3>3 DEF Base
    <3> QED BY <3>1, <3>2, <3>3, <3>4 DEF UpOK
  <2>1. cur # None /\ posts = {p} /\ p[1] = cur
    BY <2>0 DEF OnePost
  <2>2. /\ cur' = None /\ posts' = {} /\ UNCHANGED <<queue, sent, upGot, known>>
        /\ Reg' <=> Reg
    BY <1>7, <2>1 DEF NotFound, Answer, pageVars, srvVars, Reg
  <2>3. ~Reg => cur = Close
    <3>1. ASSUME ~Reg, cur # Close PROVE FALSE
      <4>1. gate /\ mode = "bridge"
        BY <2>1, <3>1 DEF GateOK
      <4>2. rs = "closed"
        BY <3>1, <4>1 DEF GateOK
      <4>3. "failed" \in obs'
        BY <1>7, <2>1, <3>1, <4>2 DEF NotFound, Reg
      <4> QED BY <4>3
    <3> QED BY <3>1
  <2>4. ASSUME ~Reg, Waiting PROVE Waiting'
    <3>1. cur \notin 1..MaxUp /\ cur' \notin 1..MaxUp
      BY <2>0, <2>2, <2>3, <2>4 DEF Close, None
    <3>2. Base' = Base
      BY <2>2, <3>1 DEF Base
    <3> QED BY <2>2, <2>4, <3>1, <3>2 DEF Waiting
  <2>5. ~known
    BY <1>7 DEF NotFound
  <2> QED BY <2>0, <2>2, <2>4, <2>5 DEF OnePost
<1>8. ASSUME NEW p \in posts, Found(p) PROVE UpOK'
  <2> SUFFICES ASSUME "failed" \notin obs'
               PROVE  /\ \A i \in DOMAIN upGot' : upGot'[i] = i
                      /\ OnePost'
                      /\ ~(Reg /\ ~known)' => Waiting'
    BY DEF UpOK
  <2>0. /\ \A i \in DOMAIN upGot : upGot[i] = i
        /\ OnePost
        /\ ~(Reg /\ ~known) => Waiting
        /\ queue \in Seq(Tasks) /\ sent \in Tasks /\ Len(upGot) \in Nat
        /\ Base \in Nat /\ cur \in Tasks \cup {None} /\ MaxUp \in Nat
    <3>1. "failed" \notin obs
      BY <1>8 DEF Found, pageVars, srvVars
    <3>2. upGot \in Seq(1..MaxUp) /\ queue \in Seq(Tasks) /\ sent \in Tasks
          /\ cur \in Tasks \cup {None} /\ MaxUp \in Nat
      BY BridgeBounds DEF BridgeTypeOK
    <3>3. Len(upGot) \in Nat
      BY <3>2
    <3>4. Base \in Nat
      BY <3>3 DEF Base
    <3> QED BY <3>1, <3>2, <3>3, <3>4 DEF UpOK
  <2>1. cur # None /\ posts = {p} /\ p[1] = cur
    BY <2>0 DEF OnePost
  <2>2. UNCHANGED <<queue, cur, sent, upGot, known, obs>> /\ posts' = {<<cur, "found">>}
    BY <1>8, <2>1 DEF Found, pageVars, srvVars
  <2>3. Waiting' <=> Waiting
    BY <2>2 DEF Waiting, Lined, Base
  <2> QED BY <2>0, <2>1, <2>2, <2>3 DEF OnePost, Reg
<1>9. ASSUME NEW p \in posts, Rejected(p) PROVE UpOK'
  <2>1. "failed" \in obs'
    BY <1>9, Finished, Settled DEF Rejected, Answer, Saw, pageVars, srvVars
  <2> QED BY <2>1 DEF UpOK
<1>10. ASSUME NEW p \in posts, Relayed(p) PROVE UpOK'
  <2> SUFFICES ASSUME "failed" \notin obs'
               PROVE  /\ \A i \in DOMAIN upGot' : upGot'[i] = i
                      /\ OnePost'
                      /\ ~(Reg /\ ~known)' => Waiting'
    BY DEF UpOK
  <2>0. /\ \A i \in DOMAIN upGot : upGot[i] = i
        /\ OnePost
        /\ ~(Reg /\ ~known) => Waiting
        /\ queue \in Seq(Tasks) /\ sent \in Tasks /\ Len(upGot) \in Nat
        /\ Base \in Nat /\ cur \in Tasks \cup {None} /\ MaxUp \in Nat
    <3>1. "failed" \notin obs
      BY <1>10, Finished, Settled DEF Relayed, Answer, pageVars, srvVars
    <3>2. upGot \in Seq(1..MaxUp) /\ queue \in Seq(Tasks) /\ sent \in Tasks
          /\ cur \in Tasks \cup {None} /\ MaxUp \in Nat
      BY BridgeBounds DEF BridgeTypeOK
    <3>3. Len(upGot) \in Nat
      BY <3>2
    <3>4. Base \in Nat
      BY <3>3 DEF Base
    <3> QED BY <3>1, <3>2, <3>3, <3>4 DEF UpOK
  <2>1. cur # None /\ posts = {p} /\ p[1] = cur
    BY <2>0 DEF OnePost
  <2>2. /\ cur' = None /\ posts' = {} /\ UNCHANGED <<queue, sent, obs, known>> /\ p[2] = "found"
        /\ upGot' = Append(upGot, cur) /\ cur # Close /\ up = "open"
    BY <1>10, <2>1 DEF Relayed, Answer, pageVars, srvVars
  <2>3. Reg /\ known
    BY <2>2 DEF GateOK, ServerOK
  <2>4. Waiting
    BY <2>0, <2>3
  <2>5. cur \in 1..MaxUp
    BY <2>0, <2>1, <2>2 DEF Tasks, Close
  <2>6. cur = Len(upGot) + 1 /\ Base = Len(upGot) + 1
    BY <2>4, <2>5 DEF Waiting, Base
  <2>7. /\ Len(upGot') = Len(upGot) + 1 /\ \A i \in 1..Len(upGot) : upGot'[i] = upGot[i]
        /\ upGot'[Len(upGot) + 1] = cur /\ upGot' \in Seq(1..MaxUp)
    <3>1. upGot \in Seq(1..MaxUp)
      BY DEF BridgeTypeOK
    <3> QED BY <2>2, <2>5, <3>1, AppendIs
  <2>8. DOMAIN upGot = 1..Len(upGot) /\ DOMAIN upGot' = 1..Len(upGot')
    BY <2>7 DEF BridgeTypeOK
  <2>9. \A i \in DOMAIN upGot' : upGot'[i] = i
    BY <2>0, <2>6, <2>7, <2>8
  <2>10. cur' \notin 1..MaxUp /\ Base' = Base
    <3>1. cur' \notin 1..MaxUp
      BY <2>0, <2>2 DEF None
    <3>2. Base' = Len(upGot')
      BY <2>0, <2>7, <3>1 DEF Base
    <3> QED BY <2>6, <2>7, <3>1, <3>2
  <2>11. Waiting'
    BY <2>2, <2>4, <2>10 DEF Waiting
  <2> QED BY <2>2, <2>9, <2>11 DEF OnePost
<1>11. ASSUME NEW p \in posts, Torn(p) PROVE UpOK'
  <2> SUFFICES ASSUME "failed" \notin obs'
               PROVE  /\ \A i \in DOMAIN upGot' : upGot'[i] = i
                      /\ OnePost'
                      /\ ~(Reg /\ ~known)' => Waiting'
    BY DEF UpOK
  <2>0. /\ \A i \in DOMAIN upGot : upGot[i] = i
        /\ OnePost
        /\ ~(Reg /\ ~known) => Waiting
        /\ queue \in Seq(Tasks) /\ sent \in Tasks /\ Len(upGot) \in Nat
        /\ Base \in Nat /\ cur \in Tasks \cup {None} /\ MaxUp \in Nat
    <3>1. "failed" \notin obs
      BY <1>11, Finished, Settled DEF Torn, ConnClose, Answer, pageVars, srvVars
    <3>2. upGot \in Seq(1..MaxUp) /\ queue \in Seq(Tasks) /\ sent \in Tasks
          /\ cur \in Tasks \cup {None} /\ MaxUp \in Nat
      BY BridgeBounds DEF BridgeTypeOK
    <3>3. Len(upGot) \in Nat
      BY <3>2
    <3>4. Base \in Nat
      BY <3>3 DEF Base
    <3> QED BY <3>1, <3>2, <3>3, <3>4 DEF UpOK
  <2>1. cur # None /\ posts = {p} /\ p[1] = cur
    BY <2>0 DEF OnePost
  <2>2. cur' = None /\ posts' = {} /\ UNCHANGED <<upGot, obs>> /\ known' = FALSE /\ p[2] = "found"
    BY <1>11, <2>1 DEF Torn, ConnClose, Answer, pageVars, srvVars
  <2>3. Reg
    BY <2>2 DEF GateOK
  <2> QED BY <2>0, <2>2, <2>3 DEF OnePost, Reg
<1> QED BY <1>1, <1>2, <1>3, <1>4, <1>5, <1>6, <1>7, <1>8, <1>9, <1>10, <1>11
       DEF BridgeNext, Shim, Bridge, PostStep

(* The invariant holds at the start, ...                                   *)
LEMMA BridgeInitially == BridgeInit => BridgeIInv
<1> SUFFICES ASSUME BridgeInit PROVE BridgeIInv
  OBVIOUS
<1>0. MaxUp \in Nat /\ MaxDown \in Nat
  BY BridgeBounds
<1>1. BridgeTypeOK
  <2>1. queue \in Seq(Tasks) /\ sent \in Tasks
    BY <1>0 DEF BridgeInit, Tasks
  <2>2. down \in Seq(1..MaxDown \cup {OpenF, CloseF, ErrorF}) /\ upGot \in Seq(1..MaxUp)
    BY DEF BridgeInit
  <2>3. got \in 0..MaxDown /\ upSent \in 0..MaxDown
    BY <1>0 DEF BridgeInit
  <2> QED BY <2>1, <2>2, <2>3 DEF BridgeInit, BridgeTypeOK
<1>2. ServerOK
  BY DEF BridgeInit, ServerOK, Reg
<1>3. GateOK /\ SendsFindConn /\ CleanOK
  BY DEF BridgeInit, GateOK, SendsFindConn, CleanOK
<1>4. DownOK
  BY DEF BridgeInit, DownOK, DownCarries
<1>5. UpOK
  <2>1. cur \notin 1..MaxUp
    BY <1>0 DEF BridgeInit, None
  <2>2. Base = 0
    BY <2>1 DEF Base, BridgeInit
  <2>3. Waiting
    BY <2>1, <2>2 DEF Waiting, Lined, BridgeInit
  <2> QED BY <2>3 DEF UpOK, OnePost, BridgeInit
<1> QED BY <1>1, <1>2, <1>3, <1>4, <1>5 DEF BridgeIInv

(* ... every step keeps it, ...                                            *)
LEMMA BridgeStep == BridgeIInv /\ [BridgeNext]_bridgeVars => BridgeIInv'
<1> SUFFICES ASSUME BridgeIInv, [BridgeNext]_bridgeVars PROVE BridgeIInv'
  OBVIOUS
<1>1. /\ BridgeTypeOK /\ ServerOK /\ GateOK /\ SendsFindConn
      /\ DownOK /\ CleanOK /\ UpOK
  BY Zenon DEF BridgeIInv
<1>2. BridgeTypeOK' /\ ServerOK' /\ GateOK' /\ SendsFindConn'
  BY <1>1, BridgeTypeStep, ServerStep, GateStep, RefusedStep, Zenon
<1>3. DownOK' /\ CleanOK' /\ UpOK'
  BY <1>1, DownStep, CleanStep, UpStep, Zenon
<1> QED BY <1>2, <1>3, Zenon DEF BridgeIInv

(* ... and it implies what the runs check.                                 *)
LEMMA BridgeGives == BridgeIInv => BridgeInv
BY DEF BridgeIInv, BridgeInv, UpOK, UplinkPrefix, CleanOK, CleanCloseComplete

(* However the stream, the POSTs, the dial and the network interleave: no  *)
(* message of an open socket is refused for want of the connection, dsh    *)
(* receives a prefix of what the page sent unless a POST failed, and a     *)
(* page that sees a regular close has missed nothing (dsh-bridge.js, and   *)
(* serveDownlink and serveUplink of bridge.go).                            *)
THEOREM BridgeAlways == BridgeSpec => []BridgeInv
<1>1. BridgeIInv => BridgeInv
  BY BridgeGives
<1> QED BY BridgeInitially, BridgeStep, <1>1, PTL DEF BridgeSpec
=============================================================================
