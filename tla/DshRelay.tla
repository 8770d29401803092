------------------------------ MODULE DshRelay ------------------------------
(***************************************************************************)
(* What the dsh-web proxy keeps between requests: the cookie it exchanges  *)
(* for dsh's launch token (auth.go), the watch over the session pool that  *)
(* all dsh processes share (sessionwatch.go), and the place of the last    *)
(* session asked for, which the page is warned of when it is not the       *)
(* instance's worktree (scope.go).                                         *)
(*                                                                         *)
(* The callers are a proxied session/prompt on an old session ("call"), a  *)
(* proxied session/create ("create"), the bridge's dial, which tries twice *)
(* ("dial"), the bootstrap's RPC, which tries Attempts times ("boot"), and *)
(* the exchange at start ("prime").  dsh may rotate its secret, refuse,    *)
(* answer late or not at all; other dsh processes write sessions of their  *)
(* own.  A behaviour has the callers of one of Scenes: with a session call *)
(* among them dsh keeps its secret, and unless the bootstrap is there too  *)
(* the session pool is watched; elsewhere the other way round.             *)
(*                                                                         *)
(* The four durations of the code are actions: Tick (half of the 5-second  *)
(* throttle), Expire (12 hours), FreshEnds (90 seconds) and OwnExpires (30 *)
(* minutes).                                                               *)
(***************************************************************************)
EXTENDS Naturals, FiniteSets

CONSTANTS Scenes, MaxGen, Attempts

Callers == {"call", "create", "dial", "boot", "prime"}

ASSUME RelayParams ==
  /\ Scenes \subseteq SUBSET Callers
  /\ MaxGen \in Nat \ {0} /\ Attempts \in Nat \ {0}

VARIABLES
  callers,   \* the callers of this behaviour
  gen,       \* dsh's secret: cookies of an older generation are refused
  cookie,    \* upstreamAuth.cookie: its generation, or 0
  expired,   \* the cookie is older than 12 hours
  throttle,  \* what is left of the throttle
  holder,    \* the caller that exchanges under upstreamAuth.mu, or "none"
  pc, ck,    \* per caller: where it is, the cookie it carries
  try,       \* its attempt
  note,      \* observer: the generation at which it dropped the cookie itself
  fresh,     \* sessions whose log was written in the last 90 seconds
  busy,      \* sessions a managed dsh is writing
  own,       \* SessionWatch.own
  foreign,   \* SessionWatch.foreign
  scan,      \* ScanNow's active set, <<>> before it has one
  pool,      \* the directory of the sessions exists
  alien,     \* observer: sessions another dsh has written
  excuse,    \* observer: sessions of ours that nothing marks
  home,      \* the bootstrap has learnt the worktree's own workspace id (kept
             \* where a session/create compares it)
  scope,     \* ScopeTracker: "in" or "out", or "none" before a record
  want,      \* observer: where the last session/create wants its session
  where,     \* observer: where dsh made the last one
  gap        \* observer: why scope may differ from where

auth  == <<cookie, expired, throttle, holder>>
watch == <<fresh, busy, own, foreign, scan, pool, alien, excuse>>
proc  == <<pc, ck, try, note>>
warn  == <<home, scope, want, where, gap>>
vars  == <<callers, gen, auth, proc, watch, warn>>

(* The session a prompt is for, and the one session/create makes.          *)
Sessions == {s \in {"old", "new"} : (IF s = "old" THEN "call" ELSE "create") \in callers}

Steady  == callers \cap {"call", "create"} # {}
Watched == Steady /\ "boot" \notin callers

Init ==
  /\ callers \in Scenes
  /\ gen = 1 /\ cookie = 0 /\ expired = FALSE /\ throttle = 0 /\ holder = "none"
  /\ pc = [r \in callers |-> "idle"] /\ ck = [r \in callers |-> 0]
  /\ try = [r \in callers |-> 1] /\ note = [r \in callers |-> 0]
  /\ fresh = {} /\ busy = {} /\ own = {} /\ foreign = {} /\ scan = <<>>
  /\ pool = Watched /\ alien = {} /\ excuse = {}
  /\ home = FALSE /\ scope = "none" /\ want = "in" /\ where = "in" /\ gap = {}

Go(r, at) == pc' = [pc EXCEPT ![r] = at]

----------------------------------------------------------------------------
(***************************************************************************)
(* A request: ServeHTTP and the Director, dial and callRPC.                *)
(***************************************************************************)
MarkOwn(s) == own' = own \cup {s}

(* A session/create names a directory, a workspace or neither, which is    *)
(* the worktree's or is not.                                               *)
Targets == {"directory", "workspace", "neither"} \X {"in", "out"}

(* A directory is compared with the worktree; a workspace id can be only   *)
(* when the bootstrap has told the worktree's own.                         *)
Comparable(t) == t[1] = "directory" \/ (t[1] = "workspace" /\ home)

Record(t) == scope' = IF Comparable(t) THEN t[2] ELSE scope

Place(r) ==
  IF r = "create"
    THEN \E t \in Targets :
           /\ Record(t) /\ want' = t[2]
           /\ gap' = {"unsent"} \cup (IF Comparable(t) THEN {} ELSE {"unknown"})
    ELSE UNCHANGED <<scope, want, gap>>

Unlisted(r) ==               \* mutant of Observe: session/prompt is not in ownSessionWriteMethods
  Place(r) /\ UNCHANGED own

(* observeBody marks the session of a prompt and records the place of a    *)
(* creation, before the request is forwarded.                              *)
Observe(r) ==
  /\ IF r = "call" THEN MarkOwn("old") ELSE UNCHANGED own
  /\ Place(r)

(* An admitted request.                                                    *)
Begin(r) ==
  /\ pc[r] = "idle" /\ ~(r = "create" /\ "new" \in excuse \cup own)
  /\ Go(r, "lock")
  /\ try' = [try EXCEPT ![r] = 1] /\ note' = [note EXCEPT ![r] = 0]
  /\ Observe(r)
  /\ UNCHANGED <<callers, gen, auth, ck, fresh, busy, foreign, scan, pool, alien, excuse,
                 home, where>>

(* A workspace/create is recorded too, and makes no session.               *)
AddWorkspace ==
  /\ "create" \in callers
  /\ scope' \in {"in", "out"} /\ gap' = gap \cup {"workspace"}
  /\ UNCHANGED <<callers, gen, auth, proc, watch, home, want, where>>

(* Whoever gets upstreamAuth.mu looks again, and exchanges while it has it. *)
Cookie(r) ==
  /\ pc[r] = "lock" /\ holder = "none"
  /\ IF cookie # 0 /\ ~expired
       THEN /\ Go(r, IF r = "prime" THEN "idle" ELSE "send")
            /\ ck' = [ck EXCEPT ![r] = IF r = "prime" THEN 0 ELSE cookie]
            /\ UNCHANGED holder
       ELSE Go(r, "exchange") /\ holder' = r /\ UNCHANGED ck
  /\ UNCHANGED <<callers, gen, cookie, expired, throttle, try, note, watch, warn>>

(* dsh answers the exchange; it may rotate before the answer is stored.    *)
Exchanged(r) ==
  /\ pc[r] = "exchange"
  /\ Go(r, "minted") /\ ck' = [ck EXCEPT ![r] = gen]
  /\ UNCHANGED <<callers, gen, auth, try, note, watch, warn>>

Minted(r) ==
  /\ pc[r] = "minted"
  /\ cookie' = ck[r] /\ expired' = FALSE /\ holder' = "none"
  /\ IF r = "prime" THEN Go(r, "idle") /\ ck' = [ck EXCEPT ![r] = 0]
                    ELSE Go(r, "send") /\ UNCHANGED ck
  /\ UNCHANGED <<callers, gen, throttle, try, note, watch, warn>>

(* A refusal, a timeout or a cancelled request: all but the dial go on     *)
(* without a cookie.                                                       *)
MintFails(r) ==
  /\ pc[r] = "exchange"
  /\ holder' = "none" /\ ck' = [ck EXCEPT ![r] = 0]
  /\ Go(r, IF r \in {"dial", "prime"} THEN "idle" ELSE "send")
  /\ UNCHANGED <<callers, gen, cookie, expired, throttle, try, note, watch, warn>>

(* The next attempt of one that has attempts left.                         *)
Again(r) ==
  IF try[r] < (IF r = "boot" THEN Attempts ELSE IF r = "dial" THEN 2 ELSE 1)
    THEN Go(r, "lock") /\ try' = [try EXCEPT ![r] = @ + 1]
    ELSE Go(r, "idle") /\ UNCHANGED try

Written(s) == fresh' = fresh \cup {s} /\ busy' = busy \cup {s}

(* dsh does what it is asked: a prompt writes the old session, session/    *)
(* create a new one, which nothing marks until its answer is read.         *)
Accepted(r) ==
  /\ pc[r] = "send" /\ ck[r] = gen
  /\ ck' = [ck EXCEPT ![r] = 0]
  /\ Go(r, CASE r = "create" -> "answer" [] r = "dial" -> "joined" [] OTHER -> "idle")
  /\ CASE r = "call" /\ pool -> Written("old") /\ UNCHANGED excuse
       [] r = "create" /\ pool -> Written("new") /\ excuse' = excuse \cup {"new"}
       [] OTHER -> UNCHANGED <<fresh, busy, excuse>>
  /\ where' = IF r = "create" THEN want ELSE where
  /\ gap' = IF r = "create" THEN gap \ {"unsent"} ELSE gap
  /\ home' = (home \/ (r = "boot" /\ "create" \in callers))
  /\ UNCHANGED <<callers, gen, auth, try, note, own, foreign, scan, pool, alien, scope, want>>

Hangup ==
  /\ "dial" \in callers /\ pc["dial"] = "joined" /\ Go("dial", "idle")
  /\ UNCHANGED <<callers, gen, auth, ck, try, note, watch, warn>>

(* Any failure but a 401.  The bridge dials again only after a 401.        *)
Broken(r) ==
  /\ pc[r] = "send"
  /\ ck' = [ck EXCEPT ![r] = 0]
  /\ IF r = "boot" THEN Again(r) ELSE Go(r, "idle") /\ UNCHANGED try
  /\ UNCHANGED <<callers, gen, auth, note, watch, warn>>

Refused(r) ==
  /\ pc[r] = "send" /\ ck[r] # gen
  /\ ck' = [ck EXCEPT ![r] = 0]
  /\ Go(r, IF r = "dial" /\ try[r] = 2 THEN "idle" ELSE "refused")
  /\ UNCHANGED <<callers, gen, auth, try, note, watch, warn>>

----------------------------------------------------------------------------
(***************************************************************************)
(* Invalidate, in modifyResponse, dial and callRPC.                        *)
(***************************************************************************)
Drop(r) ==
  /\ cookie' = IF throttle = 0 THEN 0 ELSE cookie
  /\ note' = [note EXCEPT ![r] = IF throttle = 0 THEN gen ELSE 0]
  /\ Again(r)
  /\ UNCHANGED <<callers, gen, expired, holder, ck, watch, warn>>

Sliding(r) ==                \* mutant of Invalidate: every call starts the throttle anew
  /\ pc[r] = "refused" /\ holder = "none"
  /\ throttle' = 2
  /\ Drop(r)

NoLock(r) ==                 \* mutant of Invalidate: not under upstreamAuth.mu
  /\ pc[r] = "refused"
  /\ throttle' = IF throttle = 0 THEN 2 ELSE throttle
  /\ Drop(r)

Invalidate(r) ==
  /\ pc[r] = "refused" /\ holder = "none"
  /\ throttle' = IF throttle = 0 THEN 2 ELSE throttle
  /\ Drop(r)

Tick ==
  /\ throttle > 0 /\ throttle' = throttle - 1
  /\ UNCHANGED <<callers, gen, cookie, expired, holder, proc, watch, warn>>

Expire ==
  /\ ~Steady /\ cookie # 0 /\ ~expired /\ expired' = TRUE
  /\ UNCHANGED <<callers, gen, cookie, throttle, holder, proc, watch, warn>>

Rotate ==
  /\ ~Steady /\ gen < MaxGen /\ gen' = gen + 1
  /\ UNCHANGED <<callers, auth, proc, watch, warn>>

----------------------------------------------------------------------------
(***************************************************************************)
(* The answer of session/create, which sessionCreateBody reads along.      *)
(***************************************************************************)
Drained ==
  /\ "create" \in callers /\ pc["create"] = "answer" /\ Go("create", "idle")
  /\ MarkOwn("new")
  /\ UNCHANGED <<callers, gen, auth, ck, try, note, fresh, busy, foreign, scan, pool, alien, excuse, warn>>

(* The browser leaves before the end of the answer: it is never parsed.    *)
Undrained ==
  /\ "create" \in callers /\ pc["create"] = "answer" /\ Go("create", "idle")
  /\ UNCHANGED <<callers, gen, auth, ck, try, note, watch, warn>>

----------------------------------------------------------------------------
(***************************************************************************)
(* The session pool and ScanNow.                                           *)
(***************************************************************************)
Touch(s) ==                  \* a managed dsh goes on writing, or stops
  /\ s \in busy /\ pool
  /\ fresh' = fresh \cup {s}
  /\ busy' \in {busy, busy \ {s}}
  /\ UNCHANGED <<callers, gen, auth, proc, own, foreign, scan, pool, alien, excuse, warn>>

ForeignWrites(s) ==
  /\ pool /\ fresh' = fresh \cup {s} /\ alien' = alien \cup {s}
  /\ UNCHANGED <<callers, gen, auth, proc, busy, own, foreign, scan, pool, excuse, warn>>

FreshEnds(s) ==
  /\ s \in fresh /\ fresh' = fresh \ {s}
  /\ UNCHANGED <<callers, gen, auth, proc, busy, own, foreign, scan, pool, alien, excuse, warn>>

(* A turn of more than 30 minutes outlives the mark of its prompt; no      *)
(* request does.  A scan takes its time when it starts.                    *)
OwnExpires(s) ==
  /\ s \in own /\ own' = own \ {s}
  /\ scan = <<>> /\ (s = "old" /\ "call" \in callers => pc["call"] = "idle")
  /\ excuse' = IF s \in fresh \cup busy THEN excuse \cup {s} ELSE excuse
  /\ UNCHANGED <<callers, gen, auth, proc, fresh, busy, foreign, scan, pool, alien, warn>>

PoolGone ==
  /\ Watched /\ pool' = ~pool
  /\ fresh' = {} /\ busy' = {}
  /\ UNCHANGED <<callers, gen, auth, proc, own, foreign, scan, alien, excuse, warn>>

(* Without the directory ScanNow returns, and leaves foreign as it is.     *)
ScanReads ==
  /\ pool /\ scan = <<>> /\ scan' = <<fresh>>
  /\ UNCHANGED <<callers, gen, auth, proc, fresh, busy, own, foreign, pool, alien, excuse, warn>>

Merge ==                     \* mutant of ScanPublishes: the new set is added to the old one
  /\ scan # <<>> /\ scan' = <<>>
  /\ foreign' = foreign \cup (scan[1] \ own)
  /\ excuse' = excuse \ own
  /\ UNCHANGED <<callers, gen, auth, proc, fresh, busy, own, pool, alien, warn>>

ScanPublishes ==
  /\ scan # <<>> /\ scan' = <<>>
  /\ foreign' = scan[1] \ own
  /\ excuse' = excuse \ own
  /\ UNCHANGED <<callers, gen, auth, proc, fresh, busy, own, pool, alien, warn>>

----------------------------------------------------------------------------
Step(r) ==
  \/ Begin(r) \/ Cookie(r) \/ Exchanged(r) \/ Minted(r) \/ MintFails(r)
  \/ Accepted(r) \/ Broken(r) \/ Refused(r) \/ Invalidate(r)

Next ==
  \/ \E r \in callers : Step(r)
  \/ Hangup \/ Tick \/ Expire \/ Rotate
  \/ Drained \/ Undrained \/ AddWorkspace
  \/ \E s \in Sessions : Touch(s) \/ ForeignWrites(s) \/ FreshEnds(s) \/ OwnExpires(s)
  \/ PoolGone \/ ScanReads \/ ScanPublishes

(* The page dials again and again; a mutex lets every waiter in; an        *)
(* exchange ends; dsh does not refuse every exchange and connection of the *)
(* dial; time passes; the scan loop runs.  No other caller need make a     *)
(* request.                                                                *)
DialStep == "dial" \in callers /\ (Begin("dial") \/ Minted("dial"))
Release  == \E r \in callers : holder = r /\ (Minted(r) \/ MintFails(r))

Fairness ==
  /\ WF_vars(DialStep)
  /\ SF_vars("dial" \in callers /\ Cookie("dial"))
  /\ SF_vars("dial" \in callers /\ Exchanged("dial"))
  /\ SF_vars("dial" \in callers /\ (Accepted("dial") \/ Refused("dial")))
  /\ SF_vars("dial" \in callers /\ Invalidate("dial"))
  /\ WF_vars(Release)
  /\ WF_vars(Tick)
  /\ SF_vars(OwnExpires("old"))
  /\ WF_vars(ScanReads \/ ScanPublishes)

Spec == Init /\ [][Next]_vars /\ Fairness

----------------------------------------------------------------------------
(* The variables' types; the mutex is held exactly during an exchange.     *)
RelayTypeOK ==
  /\ callers \in Scenes /\ gen \in 1..MaxGen /\ cookie \in 0..MaxGen
  /\ expired \in BOOLEAN /\ throttle \in 0..2
  /\ pc \in [callers -> {"idle", "lock", "exchange", "minted", "send", "refused",
                         "answer", "joined"}]
  /\ ck \in [callers -> 0..MaxGen] /\ note \in [callers -> 0..MaxGen]
  /\ try \in [callers -> 1..(IF Attempts > 2 THEN Attempts ELSE 2)]
  /\ {r \in callers : pc[r] \in {"exchange", "minted"}}
       = IF holder = "none" THEN {} ELSE {holder}
  /\ fresh \subseteq Sessions /\ busy \subseteq Sessions /\ own \subseteq Sessions
  /\ foreign \subseteq Sessions /\ alien \subseteq Sessions /\ excuse \subseteq Sessions
  /\ scan = <<>> \/ scan[1] \subseteq Sessions
  /\ home \in BOOLEAN /\ scope \in {"none", "in", "out"} /\ want \in {"in", "out"}
  /\ where \in {"in", "out"} /\ gap \subseteq {"unsent", "unknown", "workspace"}

(* A caller whose own invalidation dropped the cookie never carries an     *)
(* older one in the attempts that follow: what dial and callRPC retry for. *)
RetryIsFresh ==
  \A r \in callers : pc[r] = "send" /\ ck[r] # 0 => ck[r] >= note[r]

(* Once dsh stops rotating its secret, the bridge gets through: no late    *)
(* 401 and no throttled one keeps a refused cookie for good.               *)
Recovers ==
  ("dial" \in callers /\ gen = MaxGen) ~> ("dial" \in callers /\ pc["dial"] = "joined")

(* The advisory names no session that only managed dsh processes wrote,    *)
(* but one whose creation nobody has read the answer of, one whose turn    *)
(* outlived its mark, and both until the scan that follows their mark.     *)
OwnNotForeign == foreign \subseteq alien \cup excuse

(* A session another process keeps writing, and that the page leaves       *)
(* alone, is reported; when nothing is written any more, nothing is.  Both *)
(* only while the directory exists.                                        *)
AdvisoryFollows ==
  /\ (<>[](pool /\ "old" \in fresh /\ "call" \in callers /\ pc["call"] = "idle")) => <>[]("old" \in foreign)
  /\ (<>[](pool /\ fresh = {})) => <>[](foreign = {})

(* What the page is told; an instance nothing was recorded of is in scope. *)
Reported == IF scope = "none" THEN "in" ELSE scope

(* The page is told where dsh made the last session, unless a later        *)
(* request has not become a session or was a workspace/create, or the last *)
(* one named its place by a workspace id before the bootstrap had learnt   *)
(* the worktree's, or named none: the record is made before the request is *)
(* sent.                                                                   *)
ScopeTold == gap = {} => Reported = where

(* What the callers share, and what they carry on.                         *)
RelayInv == RelayTypeOK /\ RetryIsFresh /\ ScopeTold
=============================================================================
