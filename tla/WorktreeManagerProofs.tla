----------------------- MODULE WorktreeManagerProofs -----------------------
(***************************************************************************)
(* What the unversioned writers of state.json preserve, for any number of  *)
(* worktree operations, manager goroutines, branches and crashes.          *)
(*                                                                         *)
(* Every state an operation writes back is one that was on disk, with one  *)
(* record more or less; so what holds of every content of the file has to  *)
(* be known of every copy too, which is what Inv adds.                     *)
(***************************************************************************)
EXTENDS WorktreeManager, WellFoundedInduction, TLAPS

Actors   == Ops \cup Writers
Copying  == {"save", "stat", "prune", "status", "remove", "dsave"}
Deleting == Copying \ {"save"}

(* What any content of state.json satisfies.                               *)
Good(f) ==
  /\ \A r \in f.wts : r.path \in branches
  /\ \A r, s \in f.wts : r.path = s.path /\ r # s => r.path \in crossed
  /\ Present(f.tab) \subseteq TabIds(f.tab.tabs)

(* No content has a record of the path, unless an Import crossed.          *)
NoneOf(f, n) == \A r \in f.wts : r.path = n => n \in crossed

FilesGood == Good(file) /\ \A g \in Actors : copy[g] # NoCopy => Good(copy[g])

(* An operation about to write has a copy and an entry to write; one that  *)
(* made its branch will meet no other record of it, and one that removed   *)
(* its worktree will never see the directory come back: git makes a        *)
(* directory only together with a branch, and branches stay.               *)
OpGood(o) ==
  /\ pc[o] \in Copying => copy[o] # NoCopy
  /\ pc[o] # "idle" => arg[o] \in Entries
  /\ pc[o] \in Deleting \cup {"iload", "load", "save"} => arg[o].path \in branches
  /\ pc[o] = "load" =>
       /\ NoneOf(file, arg[o].path)
       /\ \A g \in Actors : copy[g] # NoCopy => NoneOf(copy[g], arg[o].path)
  /\ pc[o] = "save" => NoneOf(copy[o], arg[o].path)
  /\ pc[o] \in {"prune", "dsave"} => arg[o].path \notin dirs

OpsGood == \A o \in Ops : OpGood(o)

FileTypeOK == file \in Files /\ copy \in [Actors -> Files \cup {NoCopy}]
CallTypeOK == /\ pc \in [Ops -> Labels] /\ arg \in [Ops -> Entries \cup {NoEntry}]
              /\ force \subseteq Ops /\ issued \in 0..MaxIds
GitTypeOK  == /\ branches \subseteq Names /\ listed \subseteq branches
              /\ dirs \subseteq branches /\ dirty \subseteq dirs /\ crossed \subseteq Names

Inv == FileTypeOK /\ CallTypeOK /\ GitTypeOK /\ FilesGood /\ OpsGood

LEMMA InvGivesRecordsMatch == Inv => RecordsMatch
<1> SUFFICES ASSUME Inv PROVE RecordsMatch
  OBVIOUS
<1>1. WorktreeTypeOK
  <2>1. \A r \in file.wts : r.path \in branches
    BY DEF Inv, FilesGood, Good
  <2>2. \A o \in Ops : pc[o] \in {"load", "save"} => arg[o].path \in branches
    BY DEF Inv, OpsGood, OpGood
  <2> QED BY <2>1, <2>2 DEF Inv, FileTypeOK, CallTypeOK, GitTypeOK, WorktreeTypeOK, Actors
<1>2. OneRecordPerPath /\ TabCovers
  BY DEF Inv, FilesGood, Good, OneRecordPerPath, TabCovers
<1> QED BY <1>1, <1>2 DEF RecordsMatch

----------------------------------------------------------------------------
(***************************************************************************)
(* Operators.                                                              *)
(***************************************************************************)
(* A set of numbers that is not empty has a least one.                     *)
LEMMA LeastNat ==
  ASSUME NEW S \in SUBSET Nat, S # {}
  PROVE  \E n \in S : \A m \in S : n <= m
<1> DEFINE R == OpToRel(<, Nat)
<1>1. \A m, n \in Nat : m < n => <<m, n>> \in R
  BY DEF OpToRel
<1>2. IsWellFoundedOn(R, Nat)
  BY NatLessThanWellFounded
<1> HIDE DEF R
<1>3. PICK n \in S : \A m \in S : ~(<<m, n>> \in R)
  BY <1>2, WFMin
<1>4. ASSUME NEW m \in S PROVE n <= m
  <2>1. n \in Nat /\ m \in Nat /\ ~(m < n)
    BY <1>1, <1>3
  <2> QED BY <2>1
<1> QED BY <1>4

LEMMA FirstFreeIsFree ==
  ASSUME Names \ branches # {}
  PROVE  FirstFree \in Names /\ FirstFree \notin branches
<1>1. Names \ branches \in SUBSET Nat
  BY BoundsAssumption DEF Names
<1>2. \E n \in Names \ branches : \A m \in Names \ branches : n <= m
  BY <1>1, LeastNat
<1>3. \E n \in Names : ~BranchExists(n) /\ \A m \in Names : ~BranchExists(m) => n <= m
  BY <1>2 DEF BranchExists
<1> QED BY <1>3 DEF FirstFree, BranchExists

(* The manager's edits keep the type of a table, and the tabs.             *)
LEMMA EditsCover ==
  ASSUME NEW tab \in Tables, Present(tab) \subseteq TabIds(tab.tabs), NEW t \in Edits(tab)
  PROVE  t \in Tables /\ Present(t) \subseteq TabIds(t.tabs)
<1>1. /\ tab.version \in Nat /\ tab.rec \in [Ids -> Records] /\ tab.tabs \in Seq(Ids)
      /\ tab.version + 1 \in Nat
  BY DEF Tables
<1>2. ASSUME NEW i \in Ids \ Present(tab), t = AddRec(tab, i)
      PROVE  t \in Tables /\ Present(t) \subseteq TabIds(t.tabs)
  <2>1. [status |-> "starting", from |-> NoId] \in Records
    BY DEF Records, Statuses, Live
  <2>2. /\ t.rec = [tab.rec EXCEPT ![i] = [status |-> "starting", from |-> NoId]]
        /\ t.tabs = Append(tab.tabs, i) /\ t.version = tab.version + 1
        /\ t = [version |-> t.version, rec |-> t.rec, tabs |-> t.tabs]
    BY <1>2 DEF AddRec, Write
  <2>3. t \in Tables
    <3>1. t.rec \in [Ids -> Records] /\ t.tabs \in Seq(Ids) /\ t.version \in Nat
      BY <1>1, <2>1, <2>2
    <3> QED BY <2>2, <3>1 DEF Tables
  <2>4. TabIds(tab.tabs) \cup {i} \subseteq TabIds(t.tabs)
    <3>1. \A k \in DOMAIN tab.tabs : k \in DOMAIN t.tabs /\ t.tabs[k] = tab.tabs[k]
      BY <1>1, <2>2
    <3>2. Len(tab.tabs) + 1 \in DOMAIN t.tabs /\ t.tabs[Len(tab.tabs) + 1] = i
      BY <1>1, <2>2
    <3> QED BY <3>1, <3>2 DEF TabIds
  <2>5. Present(t) \subseteq Present(tab) \cup {i}
    BY <1>1, <2>2 DEF Present
  <2> QED BY <2>3, <2>4, <2>5
<1>3. ASSUME NEW i \in Present(tab), t = DropRec(tab, i)
      PROVE  t \in Tables /\ Present(t) \subseteq TabIds(t.tabs)
  <2>1. /\ t.rec = [tab.rec EXCEPT ![i] = NoRec] /\ t.tabs = tab.tabs
        /\ t.version = tab.version + 1
        /\ t = [version |-> t.version, rec |-> t.rec, tabs |-> t.tabs]
    BY <1>3 DEF DropRec, Write
  <2>2. t \in Tables
    BY <1>1, <2>1 DEF Tables, Records
  <2>3. Present(t) \subseteq Present(tab)
    BY <1>1, <2>1 DEF Present, NoRec
  <2> QED BY <2>1, <2>2, <2>3
<1>4. ASSUME NEW i \in Present(tab), t = SetStatus(tab, i, "running")
      PROVE  t \in Tables /\ Present(t) \subseteq TabIds(t.tabs)
  <2>1. /\ t.rec = [tab.rec EXCEPT ![i].status = "running"] /\ t.tabs = tab.tabs
        /\ t.version = tab.version + 1
        /\ t = [version |-> t.version, rec |-> t.rec, tabs |-> t.tabs]
    BY <1>4 DEF SetStatus, Write
  <2>2. i \in Ids /\ tab.rec[i] \in [status : Statuses, from : Ids \cup {NoId}]
    BY <1>1, <1>4 DEF Present, Records, NoRec
  <2>3. [tab.rec[i] EXCEPT !.status = "running"] \in Records
    BY <2>2 DEF Records, Statuses, Live
  <2>4. t \in Tables
    BY <1>1, <2>1, <2>2, <2>3 DEF Tables
  <2>5. Present(t) \subseteq Present(tab)
    BY <1>1, <1>4, <2>1, <2>2 DEF Present
  <2> QED BY <2>1, <2>4, <2>5
<1> QED BY <1>2, <1>3, <1>4 DEF Edits

(* What git and its users do: branches stay, and no directory of a branch  *)
(* that is there comes back.                                               *)
GitMoves == branches \subseteq branches' /\ dirs' \cap branches \subseteq dirs

LEMMA GitKeepsTypes ==
  ASSUME GitTypeOK, crossed' = crossed,
         \/ \E n \in Names : GitAdds(n)
         \/ \E o \in Ops : GitRemoves(o)
         \/ UNCHANGED gitVars
  PROVE  GitTypeOK' /\ GitMoves
<1>1. CASE \E n \in Names : GitAdds(n)
  BY <1>1 DEF GitTypeOK, GitMoves, GitAdds
<1>2. CASE \E o \in Ops : GitRemoves(o)
  BY <1>2 DEF GitTypeOK, GitMoves, GitRemoves
<1>3. CASE UNCHANGED gitVars
  BY <1>3 DEF GitTypeOK, GitMoves, gitVars
<1> QED BY <1>1, <1>2, <1>3

----------------------------------------------------------------------------
(***************************************************************************)
(* Steps that leave state.json alone.                                      *)
(***************************************************************************)
(* Actor g moves; its copy is the one it had, the file, or none.           *)
LEMMA Move ==
  ASSUME Inv, NEW g \in Actors,
         file' = file, crossed' = crossed, CallTypeOK', GitTypeOK', GitMoves,
         \E c \in {copy[g], file, NoCopy} : copy' = [copy EXCEPT ![g] = c],
         \A p \in Ops \ {g} : pc'[p] = pc[p] /\ arg'[p] = arg[p],
         g \in Ops => OpGood(g)'
  PROVE  Inv'
<1>1. PICK c \in {copy[g], file, NoCopy} : copy' = [copy EXCEPT ![g] = c]
  OBVIOUS
<1>2. FileTypeOK /\ FilesGood /\ OpsGood
  BY DEF Inv
<1>3. FileTypeOK'
  BY <1>1, <1>2 DEF FileTypeOK
<1>4. \A a \in Actors : copy'[a] # NoCopy => copy'[a] = copy[a] \/ copy'[a] = file
  BY <1>1, <1>2 DEF FileTypeOK
<1>5. \A f : (Good(f) => Good(f)') /\ \A n : NoneOf(f, n) => NoneOf(f, n)'
  BY DEF Good, NoneOf, GitMoves
<1>6. FilesGood'
  BY <1>2, <1>4, <1>5 DEF FilesGood
<1>7. ASSUME NEW p \in Ops \ {g} PROVE OpGood(p)'
  <2>1. OpGood(p) /\ copy'[p] = copy[p] /\ p \in Actors
    BY <1>1, <1>2 DEF OpsGood, Actors, FileTypeOK
  <2>2. pc'[p] = pc[p] /\ arg'[p] = arg[p]
    OBVIOUS
  <2>3. pc[p] = "load" => \A a \in Actors : copy'[a] # NoCopy => NoneOf(copy'[a], arg[p].path)
    BY <1>4, <2>1 DEF OpGood
  <2>4. pc[p] \in {"prune", "dsave"} => arg[p].path \notin dirs'
    BY <2>1 DEF OpGood, GitMoves, Deleting, Copying
  <2> QED BY <2>1, <2>2, <2>3, <2>4 DEF OpGood, GitMoves, NoneOf
<1>8. OpsGood'
  BY <1>7 DEF OpsGood
<1> QED BY <1>3, <1>6, <1>8 DEF Inv

(* The user moves, or nobody.                                              *)
LEMMA OutsideMove ==
  ASSUME Inv, UNCHANGED <<file, copy, callVars, crossed>>, GitTypeOK', GitMoves
  PROVE  Inv'
<1>1. CallTypeOK' /\ FileTypeOK'
  BY DEF Inv, CallTypeOK, FileTypeOK, callVars
<1>2. FilesGood'
  BY DEF Inv, FilesGood, Good, GitMoves
<1>3. ASSUME NEW p \in Ops PROVE OpGood(p)'
  <2>1. OpGood(p) /\ pc' = pc /\ arg' = arg
    BY DEF Inv, OpsGood, callVars
  <2>2. pc[p] \in {"prune", "dsave"} => arg[p].path \notin dirs'
    BY <2>1 DEF OpGood, GitMoves, Deleting, Copying
  <2> QED BY <2>1, <2>2 DEF OpGood, GitMoves, NoneOf
<1> QED BY <1>1, <1>2, <1>3 DEF Inv, OpsGood

(* An operation that returns.                                              *)
LEMMA Returns ==
  ASSUME Inv, NEW o \in Ops, Return(o), issued' = issued,
         file' = file, crossed' = crossed, GitTypeOK', GitMoves
  PROVE  Inv'
<1>1. o \in Actors /\ copy' = [copy EXCEPT ![o] = NoCopy] /\ pc' = [pc EXCEPT ![o] = "idle"]
      /\ arg' = [arg EXCEPT ![o] = NoEntry] /\ force' = force \ {o}
  BY DEF Return, Goto, Actors
<1>2. CallTypeOK
  BY DEF Inv
<1>3. CallTypeOK' /\ pc'[o] = "idle" /\ \A p \in Ops \ {o} : pc'[p] = pc[p] /\ arg'[p] = arg[p]
  BY <1>1, <1>2 DEF CallTypeOK, Labels
<1>4. OpGood(o)'
  BY <1>3 DEF OpGood, Copying, Deleting
<1> QED BY <1>1, <1>3, <1>4, Move

----------------------------------------------------------------------------
LEMMA CreateSteps ==
  ASSUME Inv, NEW o \in Ops,
         CreateCall(o) \/ CreateAdd(o) \/ CreateAddFails(o) \/ CreateLoad(o)
  PROVE  Inv'
<1>1. /\ FileTypeOK /\ CallTypeOK /\ GitTypeOK /\ FilesGood /\ OpGood(o)
      /\ o \in Actors /\ copy = [copy EXCEPT ![o] = copy[o]]
  BY DEF Inv, OpsGood, Actors, FileTypeOK
<1>2. CASE CreateCall(o)
  <2>1. /\ file' = file /\ crossed' = crossed /\ copy' = copy /\ UNCHANGED gitVars
        /\ force' = force /\ issued < MaxIds /\ issued' = issued + 1
        /\ Names \ branches # {}
    BY <1>2 DEF CreateCall, NewId
  <2>2. GitTypeOK' /\ GitMoves
    BY <1>1, <2>1, GitKeepsTypes
  <2>3. PICK n \in Names : /\ arg' = [arg EXCEPT ![o] = [id |-> issued + 1, path |-> n]]
                           /\ \/ pc' = [pc EXCEPT ![o] = "add"]
                              \/ pc' = [pc EXCEPT ![o] = "iload"] /\ n \in branches
    BY <1>1, <1>2, <2>1, FirstFreeIsFree DEF CreateCall, Goto, BranchExists, GitTypeOK
  <2>4. [id |-> issued + 1, path |-> n] \in Entries
    BY <1>1, <2>1, BoundsAssumption DEF Entries, CallTypeOK
  <2>5. CallTypeOK'
    <3>1. arg' \in [Ops -> Entries \cup {NoEntry}]
      BY <1>1, <2>3, <2>4 DEF CallTypeOK
    <3>2. pc' \in [Ops -> Labels]
      BY <1>1, <2>3 DEF CallTypeOK, Labels
    <3>3. issued' \in 0..MaxIds
      BY <1>1, <2>1, BoundsAssumption DEF CallTypeOK
    <3> QED BY <1>1, <2>1, <3>1, <3>2, <3>3 DEF CallTypeOK
  <2>6. OpGood(o)'
    <3>1. pc'[o] \in {"add", "iload"} /\ arg'[o] = [id |-> issued + 1, path |-> n]
          /\ (pc'[o] = "iload" => n \in branches)
      BY <1>1, <2>3 DEF CallTypeOK
    <3> QED BY <2>1, <2>4, <3>1 DEF OpGood, Copying, Deleting, gitVars
  <2>7. \A p \in Ops \ {o} : pc'[p] = pc[p] /\ arg'[p] = arg[p]
    BY <1>1, <2>3 DEF CallTypeOK
  <2> QED BY <1>1, <2>1, <2>2, <2>5, <2>6, <2>7, Move
<1>3. CASE CreateAdd(o)
  <2>1. /\ file' = file /\ crossed' = crossed /\ copy' = copy /\ arg' = arg
        /\ force' = force /\ issued' = issued /\ pc[o] = "add"
        /\ pc' = [pc EXCEPT ![o] = "load"] /\ GitAdds(arg[o].path)
    BY <1>3 DEF CreateAdd, Goto
  <2>2. arg[o] \in Entries /\ arg[o].path \in Names
    BY <1>1, <2>1 DEF OpGood, Entries
  <2>3. GitTypeOK' /\ GitMoves
    BY <1>1, <2>1, <2>2, GitKeepsTypes
  <2>4. CallTypeOK' /\ pc'[o] = "load" /\ \A p \in Ops \ {o} : pc'[p] = pc[p] /\ arg'[p] = arg[p]
    BY <1>1, <2>1 DEF CallTypeOK, Labels
  <2>5. OpGood(o)'
    <3>1. arg[o].path \notin branches /\ arg[o].path \in branches'
      BY <2>1 DEF GitAdds
    <3>2. NoneOf(file, arg[o].path) /\ \A g \in Actors : copy[g] # NoCopy => NoneOf(copy[g], arg[o].path)
      BY <1>1, <3>1 DEF FilesGood, Good, NoneOf
    <3> QED BY <2>1, <2>2, <2>4, <3>1, <3>2 DEF OpGood, NoneOf, Copying, Deleting
  <2> QED BY <1>1, <2>1, <2>3, <2>4, <2>5, Move
<1>4. CASE CreateAddFails(o)
  <2>1. /\ Return(o) /\ file' = file /\ issued' = issued /\ crossed' = crossed /\ pc[o] = "add"
        /\ UNCHANGED gitVars \/ GitAdds(arg[o].path)
    BY <1>4 DEF CreateAddFails
  <2>2. arg[o].path \in Names
    BY <1>1, <2>1 DEF OpGood, Entries
  <2>3. GitTypeOK' /\ GitMoves
    BY <1>1, <2>1, <2>2, GitKeepsTypes
  <2> QED BY <2>1, <2>3, Returns
<1>5. CASE CreateLoad(o)
  <2>1. /\ file' = file /\ crossed' = crossed /\ copy' = [copy EXCEPT ![o] = file] /\ arg' = arg
        /\ force' = force /\ issued' = issued /\ pc[o] = "load" /\ UNCHANGED gitVars
        /\ pc' = [pc EXCEPT ![o] = "save"]
    BY <1>5 DEF CreateLoad, Goto
  <2>2. GitTypeOK' /\ GitMoves
    BY <1>1, <2>1, GitKeepsTypes
  <2>3. CallTypeOK' /\ pc'[o] = "save" /\ \A p \in Ops \ {o} : pc'[p] = pc[p] /\ arg'[p] = arg[p]
    BY <1>1, <2>1 DEF CallTypeOK, Labels
  <2>4. copy'[o] = file /\ file # NoCopy
    BY <1>1, <2>1, NoCopyAssumption DEF FileTypeOK
  <2>5. OpGood(o)'
    BY <1>1, <2>1, <2>3, <2>4 DEF OpGood, NoneOf, Copying, Deleting, gitVars
  <2> QED BY <1>1, <2>1, <2>2, <2>3, <2>5, Move
<1> QED BY <1>2, <1>3, <1>4, <1>5

LEMMA ImportSteps ==
  ASSUME Inv, NEW o \in Ops, ImportLoad(o) \/ \E n \in Names : ImportCall(o, n)
  PROVE  Inv'
<1>1. /\ FileTypeOK /\ CallTypeOK /\ GitTypeOK /\ FilesGood /\ OpGood(o)
      /\ o \in Actors /\ copy = [copy EXCEPT ![o] = copy[o]]
  BY DEF Inv, OpsGood, Actors, FileTypeOK
<1>2. ASSUME NEW n \in Names, ImportCall(o, n) PROVE Inv'
  <2>1. /\ file' = file /\ crossed' = crossed /\ copy' = copy /\ UNCHANGED gitVars
        /\ force' = force /\ issued < MaxIds /\ issued' = issued + 1 /\ n \in branches
        /\ arg' = [arg EXCEPT ![o] = [id |-> issued + 1, path |-> n]]
        /\ pc' = [pc EXCEPT ![o] = "iload"]
    BY <1>1, <1>2 DEF ImportCall, NewId, Goto, GitList, GitTypeOK
  <2>2. GitTypeOK' /\ GitMoves
    BY <1>1, <2>1, GitKeepsTypes
  <2>3. [id |-> issued + 1, path |-> n] \in Entries /\ issued' \in 0..MaxIds
    BY <1>1, <2>1, BoundsAssumption DEF Entries, CallTypeOK
  <2>4. CallTypeOK' /\ \A p \in Ops \ {o} : pc'[p] = pc[p] /\ arg'[p] = arg[p]
    BY <1>1, <2>1, <2>3 DEF CallTypeOK, Labels
  <2>5. pc'[o] = "iload" /\ arg'[o] = [id |-> issued + 1, path |-> n]
    BY <1>1, <2>1 DEF CallTypeOK
  <2>6. OpGood(o)'
    BY <2>1, <2>3, <2>5 DEF OpGood, Copying, Deleting, gitVars
  <2> QED BY <1>1, <2>1, <2>2, <2>4, <2>6, Move
<1>3. CASE ImportLoad(o)
  <2>1. /\ file' = file /\ crossed' = crossed /\ issued' = issued /\ UNCHANGED gitVars
        /\ pc[o] = "iload"
    BY <1>3 DEF ImportLoad
  <2>2. GitTypeOK' /\ GitMoves
    BY <1>1, <2>1, GitKeepsTypes
  <2>3. CASE Return(o)
    BY <2>1, <2>2, <2>3, Returns
  <2>4. CASE ~Return(o)
    <3>1. /\ ~\E r \in file.wts : r.path = arg[o].path
          /\ copy' = [copy EXCEPT ![o] = file] /\ pc' = [pc EXCEPT ![o] = "save"]
          /\ arg' = arg /\ force' = force
      BY <1>3, <2>4 DEF ImportLoad, Goto
    <3>2. CallTypeOK' /\ pc'[o] = "save" /\ \A p \in Ops \ {o} : pc'[p] = pc[p] /\ arg'[p] = arg[p]
      BY <1>1, <2>1, <3>1 DEF CallTypeOK, Labels
    <3>3. copy'[o] = file /\ file # NoCopy
      BY <1>1, <3>1, NoCopyAssumption DEF FileTypeOK
    <3>4. OpGood(o)'
      BY <1>1, <2>1, <3>1, <3>2, <3>3 DEF OpGood, NoneOf, Copying, Deleting, gitVars
    <3> QED BY <1>1, <2>1, <2>2, <3>1, <3>2, <3>4, Move
  <2> QED BY <2>3, <2>4
<1> QED BY <1>2, <1>3

(* Delete, up to the save.                                                 *)
LEMMA DeleteSteps ==
  ASSUME Inv, NEW o \in Ops,
         \/ \E r \in file.wts, f \in BOOLEAN : DeleteCall(o, r, f)
         \/ DeleteStat(o) \/ DeletePrune(o) \/ DeleteStatus(o)
         \/ DeleteRemove(o) \/ DeleteFails(o)
  PROVE  Inv'
<1>1. /\ FileTypeOK /\ CallTypeOK /\ GitTypeOK /\ FilesGood /\ OpGood(o)
      /\ o \in Actors /\ copy = [copy EXCEPT ![o] = copy[o]]
  BY DEF Inv, OpsGood, Actors, FileTypeOK
<1>2. ASSUME NEW l \in {"remove", "status", "prune", "dsave"}, pc[o] \in Deleting,
             pc' = [pc EXCEPT ![o] = l], UNCHANGED <<file, copy, arg, force, issued, crossed>>,
             GitTypeOK', GitMoves, l \in {"prune", "dsave"} => arg[o].path \notin dirs'
      PROVE  Inv'
  <2>1. CallTypeOK' /\ pc'[o] = l /\ \A p \in Ops \ {o} : pc'[p] = pc[p] /\ arg'[p] = arg[p]
    BY <1>1, <1>2 DEF CallTypeOK, Labels
  <2>2. OpGood(o)'
    BY <1>1, <1>2, <2>1 DEF OpGood, GitMoves, Copying, Deleting
  <2> QED BY <1>1, <1>2, <2>1, <2>2, Move
<1>3. ASSUME NEW r \in file.wts, NEW f \in BOOLEAN, DeleteCall(o, r, f) PROVE Inv'
  <2>1. /\ file' = file /\ crossed' = crossed /\ issued' = issued /\ UNCHANGED gitVars
        /\ copy' = [copy EXCEPT ![o] = file] /\ arg' = [arg EXCEPT ![o] = r]
        /\ pc' = [pc EXCEPT ![o] = "stat"] /\ force' \subseteq force \cup {o}
    BY <1>3 DEF DeleteCall, Goto
  <2>2. GitTypeOK' /\ GitMoves
    BY <1>1, <2>1, GitKeepsTypes
  <2>3. r \in Entries /\ r.path \in branches
    BY <1>1 DEF FileTypeOK, Files, FilesGood, Good
  <2>4. /\ CallTypeOK' /\ pc'[o] = "stat" /\ arg'[o] = r
        /\ \A p \in Ops \ {o} : pc'[p] = pc[p] /\ arg'[p] = arg[p]
    BY <1>1, <2>1, <2>3 DEF CallTypeOK, Labels
  <2>5. copy'[o] = file /\ file # NoCopy
    BY <1>1, <2>1, NoCopyAssumption DEF FileTypeOK
  <2>6. OpGood(o)'
    BY <2>1, <2>3, <2>4, <2>5 DEF OpGood, Copying, Deleting, gitVars
  <2> QED BY <1>1, <2>1, <2>2, <2>4, <2>6, Move
<1>4. CASE DeleteStat(o)
  <2>1. PICK l \in {"remove", "status", "prune"} :
          pc' = [pc EXCEPT ![o] = l] /\ (l = "prune" => arg[o].path \notin dirs)
    BY <1>4 DEF DeleteStat, Goto
  <2>2. /\ UNCHANGED <<file, copy, arg, force, issued, crossed>> /\ UNCHANGED gitVars
        /\ pc[o] = "stat"
    BY <1>4 DEF DeleteStat
  <2>3. GitTypeOK' /\ GitMoves
    BY <1>1, <2>2, GitKeepsTypes
  <2> QED BY <1>2, <2>1, <2>2, <2>3 DEF Deleting, Copying, gitVars
<1>5. CASE DeletePrune(o)
  <2>1. /\ UNCHANGED <<file, copy, arg, force, issued, crossed>> /\ pc[o] = "prune"
        /\ pc' = [pc EXCEPT ![o] = "dsave"] /\ branches' = branches /\ dirs' = dirs
        /\ dirty' = dirty /\ listed' = listed \cap dirs
    BY <1>5 DEF DeletePrune, Goto
  <2>2. GitTypeOK' /\ GitMoves
    BY <1>1, <2>1 DEF GitTypeOK, GitMoves
  <2>3. arg[o].path \notin dirs'
    BY <1>1, <2>1 DEF OpGood
  <2> QED BY <1>2, <2>1, <2>2, <2>3 DEF Deleting, Copying
<1>6. CASE DeleteStatus(o)
  <2>1. /\ file' = file /\ issued' = issued /\ crossed' = crossed /\ UNCHANGED gitVars
        /\ pc[o] = "status"
    BY <1>6 DEF DeleteStatus
  <2>2. GitTypeOK' /\ GitMoves
    BY <1>1, <2>1, GitKeepsTypes
  <2>3. CASE Return(o)
    BY <2>1, <2>2, <2>3, Returns
  <2>4. CASE ~Return(o)
    <3>1. pc' = [pc EXCEPT ![o] = "remove"] /\ UNCHANGED <<copy, arg, force>>
      BY <1>6, <2>4 DEF DeleteStatus, Goto
    <3> QED BY <1>2, <2>1, <2>2, <3>1 DEF Deleting, Copying
  <2> QED BY <2>3, <2>4
<1>7. CASE DeleteRemove(o)
  <2>1. /\ UNCHANGED <<file, copy, arg, force, issued, crossed>> /\ pc[o] = "remove"
        /\ pc' = [pc EXCEPT ![o] = "dsave"] /\ GitRemoves(o)
    BY <1>7 DEF DeleteRemove, Goto
  <2>2. GitTypeOK' /\ GitMoves
    BY <1>1, <2>1, GitKeepsTypes
  <2>3. arg[o].path \notin dirs'
    BY <2>1 DEF GitRemoves
  <2> QED BY <1>2, <2>1, <2>2, <2>3 DEF Deleting, Copying
<1>8. CASE DeleteFails(o)
  <2>1. /\ Return(o) /\ file' = file /\ issued' = issued /\ crossed' = crossed
        /\ UNCHANGED gitVars \/ GitRemoves(o)
    BY <1>8 DEF DeleteFails
  <2>2. GitTypeOK' /\ GitMoves
    BY <1>1, <2>1, GitKeepsTypes
  <2> QED BY <2>1, <2>2, Returns
<1> QED BY <1>3, <1>4, <1>5, <1>6, <1>7, <1>8

----------------------------------------------------------------------------
(***************************************************************************)
(* Steps that write state.json.                                            *)
(***************************************************************************)
LEMMA Commit ==
  ASSUME Inv, NEW g \in Actors,
         file' \in Files, Good(file)', crossed \subseteq crossed', GitTypeOK',
         UNCHANGED gitVars, CallTypeOK', copy' = [copy EXCEPT ![g] = NoCopy],
         g \in Ops => pc'[g] = "idle",
         \A p \in Ops \ {g} : pc'[p] = pc[p] /\ arg'[p] = arg[p],
         \A p \in Ops \ {g} : pc[p] = "load" => NoneOf(file, arg[p].path)'
  PROVE  Inv'
<1>1. FileTypeOK /\ FilesGood /\ OpsGood
  BY DEF Inv
<1>2. FileTypeOK'
  BY <1>1 DEF FileTypeOK
<1>3. \A a \in Actors : copy'[a] # NoCopy => copy'[a] = copy[a]
  BY <1>1 DEF FileTypeOK
<1>5. FilesGood'
  <2>1. ASSUME NEW a \in Actors, copy'[a] # NoCopy PROVE Good(copy[a])'
    <3>1. copy'[a] = copy[a] /\ Good(copy[a])
      BY <1>1, <1>3, <2>1 DEF FilesGood
    <3> QED BY <3>1 DEF Good, gitVars
  <2> QED BY <2>1 DEF FilesGood
<1>6. ASSUME NEW p \in Ops \ {g} PROVE OpGood(p)'
  <2>1. OpGood(p) /\ copy'[p] = copy[p] /\ p \in Actors
    BY <1>1 DEF OpsGood, Actors, FileTypeOK
  <2>2. pc'[p] = pc[p] /\ arg'[p] = arg[p]
    OBVIOUS
  <2>3. ASSUME pc[p] = "load", NEW a \in Actors, copy'[a] # NoCopy
        PROVE  NoneOf(copy[a], arg[p].path)'
    <3>1. copy'[a] = copy[a] /\ NoneOf(copy[a], arg[p].path)
      BY <1>3, <2>1, <2>3 DEF OpGood
    <3> QED BY <2>2, <3>1 DEF NoneOf
  <2>4. pc[p] = "load" => NoneOf(file, arg[p].path)'
    OBVIOUS
  <2>5. pc[p] = "save" => NoneOf(copy[p], arg[p].path)'
    BY <2>1, <2>2 DEF OpGood, NoneOf
  <2> QED BY <2>1, <2>2, <2>3, <2>4, <2>5 DEF OpGood, gitVars, Copying, Deleting
<1>7. OpsGood'
  BY <1>6 DEF OpsGood, OpGood, Copying, Deleting
<1> QED BY <1>2, <1>5, <1>7 DEF Inv

LEMMA SaveSteps ==
  ASSUME Inv, NEW o \in Ops, SaveNew(o) \/ DeleteSave(o)
  PROVE  Inv'
<1>1. /\ FileTypeOK /\ CallTypeOK /\ GitTypeOK /\ FilesGood /\ OpsGood /\ OpGood(o) /\ o \in Actors
  BY DEF Inv, OpsGood, Actors
<1>2. /\ Return(o) /\ issued' = issued /\ UNCHANGED gitVars /\ pc[o] \in {"save", "dsave"}
  BY DEF SaveNew, DeleteSave
<1>3. /\ copy[o] \in Files /\ Good(copy[o]) /\ arg[o] \in Entries /\ arg[o].path \in branches
      /\ arg[o].path \in Names
  <2>1. copy[o] # NoCopy /\ arg[o] \in Entries /\ arg[o].path \in branches
    BY <1>1, <1>2 DEF OpGood, Copying, Deleting
  <2> QED BY <1>1, <2>1 DEF FileTypeOK, FilesGood, Entries
<1>4. /\ copy' = [copy EXCEPT ![o] = NoCopy] /\ pc' = [pc EXCEPT ![o] = "idle"]
      /\ arg' = [arg EXCEPT ![o] = NoEntry] /\ force' = force \ {o}
  BY <1>2 DEF Return, Goto
<1>5. CallTypeOK' /\ pc'[o] = "idle" /\ \A p \in Ops \ {o} : pc'[p] = pc[p] /\ arg'[p] = arg[p]
  BY <1>1, <1>2, <1>4 DEF CallTypeOK, Labels
<1>6. CASE SaveNew(o)
  <2>1. /\ file' = [copy[o] EXCEPT !.wts = copy[o].wts \cup {arg[o]}] /\ pc[o] = "save"
        /\ crossed' = IF \E c \in Ops \ {o} : pc[c] = "load" /\ arg[c].path = arg[o].path
                        THEN crossed \cup {arg[o].path} ELSE crossed
    BY <1>6 DEF SaveNew, Overwrite
  <2>2. /\ file' \in Files /\ file'.tab = copy[o].tab /\ file'.wts = copy[o].wts \cup {arg[o]}
    BY <1>3, <2>1 DEF Files
  <2>3. crossed \subseteq crossed' /\ GitTypeOK'
    BY <1>1, <1>2, <1>3, <2>1 DEF GitTypeOK, gitVars
  <2>4. NoneOf(copy[o], arg[o].path)
    BY <1>1, <2>1 DEF OpGood
  <2>5. Good(file)'
    <3>1. \A r \in file'.wts : r.path \in branches'
      BY <1>2, <1>3, <2>2 DEF Good, gitVars
    <3>2. \A r, s \in file'.wts : r.path = s.path /\ r # s => r.path \in crossed'
      BY <1>3, <2>2, <2>3, <2>4 DEF Good, NoneOf
    <3> QED BY <1>3, <2>2, <3>1, <3>2 DEF Good
  <2>6. ASSUME NEW p \in Ops \ {o}, pc[p] = "load" PROVE NoneOf(file, arg[p].path)'
    <3>1. NoneOf(copy[o], arg[p].path) /\ arg'[p] = arg[p]
      <4>1. OpGood(p) /\ copy[o] # NoCopy
        BY <1>1, <1>3, NoCopyAssumption DEF OpsGood
      <4> QED BY <1>1, <1>5, <2>6, <4>1 DEF OpGood
    <3>2. arg[p].path = arg[o].path => arg[o].path \in crossed'
      BY <2>1, <2>6
    <3> QED BY <2>2, <2>3, <3>1, <3>2 DEF NoneOf
  <2> QED BY <1>1, <1>2, <1>4, <1>5, <2>2, <2>3, <2>5, <2>6, Commit
<1>7. CASE DeleteSave(o)
  <2>1. /\ file' = [copy[o] EXCEPT !.wts = copy[o].wts \ {arg[o]}] /\ crossed' = crossed
    BY <1>7 DEF DeleteSave, Overwrite
  <2>2. /\ file' \in Files /\ file'.tab = copy[o].tab /\ file'.wts \subseteq copy[o].wts
    BY <1>3, <2>1 DEF Files
  <2>3. Good(file)' /\ GitTypeOK'
    BY <1>1, <1>2, <1>3, <2>1, <2>2 DEF Good, GitTypeOK, gitVars
  <2>4. ASSUME NEW p \in Ops \ {o}, pc[p] = "load" PROVE NoneOf(file, arg[p].path)'
    <3>1. NoneOf(copy[o], arg[p].path) /\ arg'[p] = arg[p]
      <4>1. OpGood(p) /\ copy[o] # NoCopy
        BY <1>1, <1>3, NoCopyAssumption DEF OpsGood
      <4> QED BY <1>1, <1>5, <2>4, <4>1 DEF OpGood
    <3> QED BY <2>1, <2>2, <3>1 DEF NoneOf
  <2> QED BY <1>1, <1>2, <1>4, <1>5, <2>1, <2>2, <2>3, <2>4, Commit
<1> QED BY <1>6, <1>7

LEMMA WriterSteps ==
  ASSUME Inv, NEW g \in Writers, WriterLoad(g) \/ WriterSave(g)
  PROVE  Inv'
<1>1. /\ FileTypeOK /\ CallTypeOK /\ GitTypeOK /\ FilesGood /\ OpsGood /\ g \in Actors /\ g \notin Ops
  BY ActorsAssumption DEF Inv, Actors
<1>2. /\ UNCHANGED callVars /\ UNCHANGED gitVars /\ crossed' = crossed
      /\ pc' = pc /\ arg' = arg
  BY DEF WriterLoad, WriterSave, callVars
<1>3. CallTypeOK' /\ GitTypeOK' /\ GitMoves
  BY <1>1, <1>2, GitKeepsTypes DEF CallTypeOK, callVars
<1>4. CASE WriterLoad(g)
  BY <1>1, <1>2, <1>3, <1>4, Move DEF WriterLoad
<1>5. CASE WriterSave(g)
  <2>1. copy[g] # NoCopy /\ copy' = [copy EXCEPT ![g] = NoCopy]
    BY <1>5 DEF WriterSave
  <2>2. copy[g] \in Files /\ Good(copy[g]) /\ file \in Files /\ Good(file)
    BY <1>1, <2>1 DEF FileTypeOK, FilesGood
  <2>3. CASE file' = file
    BY <1>1, <1>2, <1>3, <2>1, <2>3, Move
  <2>4. CASE file' # file
    <3>1. PICK t \in Edits(copy[g].tab) : file' = [copy[g] EXCEPT !.tab = t]
      BY <1>5, <2>4 DEF WriterSave
    <3>2. copy[g].tab \in Tables /\ Present(copy[g].tab) \subseteq TabIds(copy[g].tab.tabs)
      BY <2>2 DEF Files, Good
    <3>3. t \in Tables /\ Present(t) \subseteq TabIds(t.tabs)
      BY <3>2, EditsCover
    <3>4. file' \in Files /\ file'.tab = t /\ file'.wts = copy[g].wts
      BY <2>2, <3>1, <3>3 DEF Files
    <3>5. Good(file)'
      BY <1>2, <2>2, <3>3, <3>4 DEF Good, gitVars
    <3>6. ASSUME NEW p \in Ops \ {g}, pc[p] = "load" PROVE NoneOf(file, arg[p].path)'
      <4>1. NoneOf(copy[g], arg[p].path)
        BY <1>1, <2>1, <3>6 DEF OpsGood, OpGood
      <4> QED BY <1>2, <3>4, <4>1 DEF NoneOf
    <3> QED BY <1>1, <1>2, <1>3, <2>1, <3>4, <3>5, <3>6, Commit
  <2> QED BY <2>3, <2>4
<1> QED BY <1>4, <1>5

LEMMA CrashStep == Inv /\ Crash => Inv'
<1> SUFFICES ASSUME Inv, Crash PROVE Inv'
  OBVIOUS
<1>1. /\ copy' = [g \in Actors |-> NoCopy] /\ pc' = [o \in Ops |-> "idle"]
      /\ arg' = [o \in Ops |-> NoEntry] /\ force' = {}
      /\ UNCHANGED <<file, issued, gitVars, crossed>>
  BY DEF Crash, Inv, FileTypeOK
<1>2. FileTypeOK' /\ CallTypeOK' /\ GitTypeOK'
  BY <1>1 DEF Inv, FileTypeOK, CallTypeOK, GitTypeOK, Labels, gitVars
<1>3. FilesGood'
  BY <1>1 DEF Inv, FilesGood, Good, gitVars
<1>4. OpsGood'
  BY <1>1 DEF OpsGood, OpGood, Copying, Deleting
<1> QED BY <1>2, <1>3, <1>4 DEF Inv

----------------------------------------------------------------------------
LEMMA InvInit == Init => Inv
<1> SUFFICES ASSUME Init PROVE Inv
  OBVIOUS
<1>1. EmptyTable \in Tables /\ Present(EmptyTable) = {}
  BY DEF EmptyTable, Tables, Records, NoRec, Present
<1>2. file \in Files /\ file.tab = EmptyTable /\ file.wts = {}
  BY <1>1 DEF Init, Files
<1>3. FileTypeOK /\ CallTypeOK /\ GitTypeOK
  BY <1>2, BoundsAssumption DEF Init, FileTypeOK, CallTypeOK, GitTypeOK, Labels, Actors
<1>4. FilesGood
  BY <1>1, <1>2 DEF Init, FilesGood, Good, Actors
<1>5. OpsGood
  BY DEF Init, OpsGood, OpGood, Copying, Deleting
<1> QED BY <1>3, <1>4, <1>5 DEF Inv

LEMMA InvNext == Inv /\ [Next]_vars => Inv'
<1> SUFFICES ASSUME Inv, [Next]_vars PROVE Inv'
  OBVIOUS
<1>1. ASSUME NEW o \in Ops, OpStep(o) PROVE Inv'
  BY <1>1, CreateSteps, ImportSteps, DeleteSteps, SaveSteps DEF OpStep
<1>2. ASSUME NEW g \in Writers, WriterLoad(g) \/ WriterSave(g) PROVE Inv'
  BY <1>2, WriterSteps
<1>3. ASSUME NEW n \in Names, UserEdits(n) \/ UserRemoves(n) PROVE Inv'
  <2>1. UNCHANGED <<file, copy, callVars, crossed>>
    BY <1>3 DEF UserEdits, UserRemoves
  <2>2. GitTypeOK' /\ GitMoves
    BY <1>3 DEF Inv, GitTypeOK, GitMoves, UserEdits, UserRemoves
  <2> QED BY <2>1, <2>2, OutsideMove
<1>4. CASE UNCHANGED vars
  <2>1. UNCHANGED <<file, copy, callVars, crossed>> /\ UNCHANGED gitVars
    BY <1>4 DEF vars
  <2>2. GitTypeOK' /\ GitMoves
    BY <2>1, GitKeepsTypes DEF Inv
  <2> QED BY <2>1, <2>2, OutsideMove
<1> QED BY <1>1, <1>2, <1>3, <1>4, CrashStep DEF Next

(* Whatever the operations, the manager's goroutines and crashes do to     *)
(* state.json, and however old the copies that Save writes back, it names  *)
(* worktrees git has made, no path twice but for an Import that met the    *)
(* path's own Create, and every instance record has its tab.               *)
THEOREM WorktreeRecords == Spec => []RecordsMatch
<1>1. Spec => []Inv
  BY InvInit, InvNext, PTL DEF Spec
<1> QED BY <1>1, InvGivesRecordsMatch, PTL

(* A record disappears while its directory exists only when somebody       *)
(* writes back a copy older than the file: Delete itself has seen the      *)
(* directory gone, and a directory never comes back without its branch.    *)
THEOREM RecordsKept == Spec => RecordKept
<1> DEFINE A == \A r \in file.wts \ file'.wts :
                  r.path \in dirs => \E g \in Actors : Lapped(g) /\ copy'[g] = NoCopy
<1>1. ASSUME Inv, NEW g \in Actors, copy[g] # NoCopy, copy' = [copy EXCEPT ![g] = NoCopy],
             copy[g] = file => A
      PROVE  A
  BY <1>1 DEF Inv, FileTypeOK, Lapped
<1>2. ASSUME Inv, NEW o \in Ops, SaveNew(o) \/ DeleteSave(o) PROVE A
  <2>1. /\ o \in Actors /\ copy[o] # NoCopy /\ copy' = [copy EXCEPT ![o] = NoCopy]
        /\ file \in Files
    BY <1>2 DEF Inv, OpsGood, OpGood, Copying, SaveNew, DeleteSave, Return, Actors, FileTypeOK
  <2>2. ASSUME copy[o] = file, SaveNew(o) PROVE A
    <3>1. file.wts \subseteq file'.wts
      BY <2>1, <2>2 DEF SaveNew, Overwrite, Files
    <3> QED BY <3>1
  <2>3. ASSUME copy[o] = file, DeleteSave(o) PROVE A
    <3>1. file.wts \ file'.wts \subseteq {arg[o]}
      BY <2>1, <2>3 DEF DeleteSave, Overwrite, Files
    <3>2. arg[o].path \notin dirs
      BY <1>2, <2>3 DEF Inv, OpsGood, OpGood, DeleteSave
    <3> QED BY <3>1, <3>2
  <2> QED BY <1>1, <1>2, <2>1, <2>2, <2>3
<1>3. ASSUME Inv, NEW g \in Writers, WriterSave(g) PROVE A
  <2>1. g \in Actors /\ copy[g] # NoCopy /\ copy' = [copy EXCEPT ![g] = NoCopy] /\ file \in Files
    BY <1>3 DEF Inv, WriterSave, Actors, FileTypeOK
  <2>2. ASSUME copy[g] = file PROVE A
    <3>1. file'.wts = file.wts
      BY <1>3, <2>1, <2>2 DEF WriterSave, Files
    <3> QED BY <3>1
  <2> QED BY <1>1, <1>3, <2>1, <2>2
<1>4. Inv /\ [Next]_vars => A
  <2> SUFFICES ASSUME Inv, [Next]_vars PROVE A
    OBVIOUS
  <2>1. file' = file => A
    OBVIOUS
  <2>2. ASSUME NEW o \in Ops, OpStep(o) PROVE file' = file \/ SaveNew(o) \/ DeleteSave(o)
    BY <2>2 DEF OpStep, CreateCall, ImportCall, CreateAdd, CreateAddFails, CreateLoad, ImportLoad,
                DeleteCall, DeleteStat, DeletePrune, DeleteStatus, DeleteRemove, DeleteFails
  <2>3. ASSUME NEW g \in Writers, WriterLoad(g) PROVE file' = file
    BY <2>3 DEF WriterLoad
  <2>4. (\E n \in Names : UserEdits(n) \/ UserRemoves(n)) \/ Crash \/ UNCHANGED vars => file' = file
    BY DEF UserEdits, UserRemoves, Crash, vars
  <2> HIDE DEF A
  <2> QED BY <1>2, <1>3, <2>1, <2>2, <2>3, <2>4 DEF Next
<1>5. Spec => []Inv
  BY InvInit, InvNext, PTL DEF Spec
<1> QED BY <1>4, <1>5, PTL DEF Spec, RecordKept, Actors

(* No Delete without force ends with uncommitted work gone, whatever was   *)
(* written after its git status and whatever other operations do           *)
(* meanwhile: of an operation's own steps only the removal takes a         *)
(* directory away, and git looks again.                                    *)
THEOREM DirtyWorkKept == Spec => DirtyKept
<1> DEFINE A == \A o \in Ops : pc[o] = "remove" /\ pc'[o] # "remove" /\ o \notin force
                                 => dirty \subseteq dirs'
<1>1. ASSUME Inv, NEW p \in Ops, OpStep(p), NEW o \in Ops \ {p} PROVE pc'[o] = pc[o]
  <2>1. pc \in [Ops -> Labels]
    BY <1>1 DEF Inv, CallTypeOK
  <2> QED BY <1>1, <2>1 DEF OpStep, CreateCall, ImportCall, CreateAdd, CreateAddFails, CreateLoad,
        ImportLoad, SaveNew, DeleteCall, DeleteStat, DeletePrune, DeleteStatus, DeleteRemove,
        DeleteFails, DeleteSave, Return, Goto
<1>2. ASSUME Inv, NEW o \in Ops, OpStep(o), pc[o] = "remove", o \notin force
      PROVE  dirty \subseteq dirs'
  <2>1. DeleteRemove(o) \/ DeleteFails(o)
    BY <1>2 DEF OpStep, CreateCall, ImportCall, CreateAdd, CreateAddFails, CreateLoad,
        ImportLoad, SaveNew, DeleteCall, DeleteStat, DeletePrune, DeleteStatus, DeleteSave
  <2>2. GitRemoves(o) \/ UNCHANGED gitVars
    BY <2>1 DEF DeleteRemove, DeleteFails
  <2> QED BY <1>2, <2>2 DEF GitRemoves, gitVars, Inv, GitTypeOK
<1>3. Inv /\ [Next]_vars => A
  <2> SUFFICES ASSUME Inv, [Next]_vars, NEW o \in Ops, pc[o] = "remove", pc'[o] # "remove",
                      o \notin force
               PROVE  dirty \subseteq dirs'
    OBVIOUS
  <2>1. ASSUME NEW p \in Ops, OpStep(p) PROVE dirty \subseteq dirs'
    BY <1>1, <1>2, <2>1
  <2>2. ASSUME NEW g \in Writers, WriterLoad(g) \/ WriterSave(g) PROVE pc' = pc
    BY <2>2 DEF WriterLoad, WriterSave, callVars
  <2>3. ASSUME NEW n \in Names, UserEdits(n) \/ UserRemoves(n) PROVE pc' = pc
    BY <2>3 DEF UserEdits, UserRemoves, callVars
  <2>4. Crash => dirty \subseteq dirs'
    BY DEF Crash, gitVars, Inv, GitTypeOK
  <2>5. UNCHANGED vars => pc' = pc
    BY DEF vars, callVars
  <2> QED BY <2>1, <2>2, <2>3, <2>4, <2>5 DEF Next
<1>4. Spec => []Inv
  BY InvInit, InvNext, PTL DEF Spec
<1> QED BY <1>3, <1>4, PTL DEF Spec, DirtyKept
=============================================================================
