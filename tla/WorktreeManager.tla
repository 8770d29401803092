-------------------------- MODULE WorktreeManager --------------------------
(***************************************************************************)
(* internal/worktree over internal/store and git: Create, Import and       *)
(* Delete of worktrees, next to the instance manager's goroutines that     *)
(* write the same state.json.                                              *)
(*                                                                         *)
(* A worktree operation loads the file, works on its copy and writes it    *)
(* back with FileStore.Save, which looks at no version and writes the      *)
(* copy's own; Delete runs git between the two.  The instance manager uses *)
(* SaveWithVersion (InstanceManager); a Writer here is any of its loops.   *)
(*                                                                         *)
(* The model has one task description.  Its branch is number 1, and the    *)
(* branches <task>-2, <task>-3 that Create falls back to are 2, 3; the     *)
(* path of a worktree is its branch's name, so one number stands for both. *)
(***************************************************************************)
EXTENDS StateFile, FiniteSets

CONSTANTS Ops,         \* HTTP handlers in a worktree operation
          Writers,     \* goroutines of the instance manager
          MaxIds,      \* bound on the worktree ids handed out
          MaxSuffix,   \* bound on the branch suffixes
          MaxVersion,  \* bound on the version the writers reach
          NoCopy

ASSUME BoundsAssumption == MaxSuffix \in Nat \ {0} /\ MaxIds \in Nat
ASSUME ActorsAssumption    == Ops \cap Writers = {}

Names   == 1..MaxSuffix
Entries == [id : 1..MaxIds, path : Names]
Files   == [tab : Tables, wts : SUBSET Entries]

ASSUME NoCopyAssumption == NoCopy \notin Files

VARIABLES
  file,      \* state.json: tab is the part of StateFile, wts the worktrees
  copy,      \* [Ops \cup Writers -> the State loaded, or NoCopy]
  pc, arg,   \* [Ops -> control point], [Ops -> the entry the call is about]
  force,     \* ops whose Delete carries force
  issued,    \* how many ids shortID has handed out: 1, 2, ...
  branches,  \* git: branches that exist
  listed,    \* git: registered worktrees
  dirs,      \* directories that exist
  dirty,     \* worktrees with uncommitted or untracked changes
  crossed    \* observer: paths imported in the middle of their own Create

gitVars  == <<branches, listed, dirs, dirty>>
callVars == <<pc, arg, force, issued>>
vars     == <<file, copy, callVars, gitVars, crossed>>

NoEntry == [id |-> 0, path |-> 0]

Init ==
  /\ file = [tab |-> EmptyTable, wts |-> {}]
  /\ copy = [g \in Ops \cup Writers |-> NoCopy]
  /\ pc = [o \in Ops |-> "idle"] /\ arg = [o \in Ops |-> NoEntry]
  /\ force = {} /\ issued = 0
  /\ branches = {} /\ listed = {} /\ dirs = {} /\ dirty = {}
  /\ crossed = {}

Goto(o, l) == pc' = [pc EXCEPT ![o] = l]

(* Back to the client, with or without an error.                           *)
Return(o) ==
  /\ Goto(o, "idle")
  /\ arg' = [arg EXCEPT ![o] = NoEntry]
  /\ force' = force \ {o}
  /\ copy' = [copy EXCEPT ![o] = NoCopy]

----------------------------------------------------------------------------
(***************************************************************************)
(* Create.                                                                 *)
(***************************************************************************)
NewId == issued < MaxIds /\ issued' = issued + 1

GitList         == listed            \* listGitWorktrees
BranchExists(n) == n \in branches    \* git show-ref

FirstFree == CHOOSE n \in Names : ~BranchExists(n)
                                  /\ \A m \in Names : ~BranchExists(m) => n <= m

(* AdoptIfExists goes the way of Import if git has a worktree of the       *)
(* branch; otherwise, and if that Import fails, the first free suffix.     *)
CreateCall(o) ==
  /\ pc[o] = "idle" /\ Names \ branches # {}
  /\ NewId
  /\ \/ /\ Goto(o, "add")
        /\ arg' = [arg EXCEPT ![o] = [id |-> issued + 1, path |-> FirstFree]]
     \/ /\ BranchExists(1) /\ 1 \in GitList
        /\ Goto(o, "iload")
        /\ arg' = [arg EXCEPT ![o] = [id |-> issued + 1, path |-> 1]]
  /\ UNCHANGED <<file, copy, force, gitVars, crossed>>

(* git worktree add -b: refuses a branch or a directory that exists.       *)
GitAdds(n) ==
  /\ n \notin branches /\ n \notin dirs
  /\ branches' = branches \cup {n} /\ listed' = listed \cup {n}
  /\ dirs' = dirs \cup {n}
  /\ UNCHANGED dirty

CreateAdd(o) ==
  /\ pc[o] = "add"
  /\ GitAdds(arg[o].path)
  /\ Goto(o, "load")
  /\ UNCHANGED <<file, copy, arg, force, issued, crossed>>

(* It failed, or the 10 s of gitx.GitCommand ended it after its work.      *)
CreateAddFails(o) ==
  /\ pc[o] = "add"
  /\ UNCHANGED gitVars \/ GitAdds(arg[o].path)
  /\ Return(o)
  /\ UNCHANGED <<file, issued, crossed>>

CreateLoad(o) ==
  /\ pc[o] = "load"
  /\ copy' = [copy EXCEPT ![o] = file]
  /\ Goto(o, "save")
  /\ UNCHANGED <<file, arg, force, issued, gitVars, crossed>>

----------------------------------------------------------------------------
(***************************************************************************)
(* Import of a worktree git knows.                                         *)
(***************************************************************************)
ImportCall(o, n) ==
  /\ pc[o] = "idle" /\ n \in GitList
  /\ NewId
  /\ arg' = [arg EXCEPT ![o] = [id |-> issued + 1, path |-> n]]
  /\ Goto(o, "iload")
  /\ UNCHANGED <<file, copy, force, gitVars, crossed>>

ImportAlways(o) ==           \* mutant of ImportLoad: no look for the path
  /\ pc[o] = "iload"
  /\ copy' = [copy EXCEPT ![o] = file]
  /\ Goto(o, "save")
  /\ UNCHANGED <<file, arg, force, issued, gitVars, crossed>>

(* A record of that path is returned as it is.                             *)
ImportLoad(o) ==
  /\ pc[o] = "iload"
  /\ IF \E r \in file.wts : r.path = arg[o].path
       THEN Return(o)
       ELSE /\ copy' = [copy EXCEPT ![o] = file]
            /\ Goto(o, "save")
            /\ UNCHANGED <<arg, force>>
  /\ UNCHANGED <<file, issued, gitVars, crossed>>

(* FileStore.Save: the copy as it is, with the version it was loaded with. *)
Overwrite(o, wts) == file' = [copy[o] EXCEPT !.wts = wts]

(* The end of Create and of Import.                                        *)
SaveNew(o) ==
  /\ pc[o] = "save"
  /\ Overwrite(o, copy[o].wts \cup {arg[o]})
  /\ crossed' = IF \E c \in Ops \ {o} : pc[c] = "load" /\ arg[c].path = arg[o].path
                  THEN crossed \cup {arg[o].path} ELSE crossed
  /\ Return(o)
  /\ UNCHANGED <<issued, gitVars>>

----------------------------------------------------------------------------
(***************************************************************************)
(* Delete.                                                                 *)
(***************************************************************************)
DeleteCall(o, r, f) ==
  /\ pc[o] = "idle" /\ r \in file.wts
  /\ copy' = [copy EXCEPT ![o] = file]
  /\ arg' = [arg EXCEPT ![o] = r]
  /\ force' = IF f THEN force \cup {o} ELSE force
  /\ Goto(o, "stat")
  /\ UNCHANGED <<file, issued, gitVars, crossed>>

(* os.Stat of the path.                                                    *)
DeleteStat(o) ==
  /\ pc[o] = "stat"
  /\ Goto(o, IF arg[o].path \notin dirs THEN "prune"
             ELSE IF o \in force THEN "remove" ELSE "status")
  /\ UNCHANGED <<file, copy, arg, force, issued, gitVars, crossed>>

(* git worktree prune forgets every worktree whose directory is gone.      *)
DeletePrune(o) ==
  /\ pc[o] = "prune"
  /\ listed' = listed \cap dirs
  /\ Goto(o, "dsave")
  /\ UNCHANGED <<file, copy, arg, force, issued, branches, dirs, dirty, crossed>>

(* git status: a dirty worktree is refused with a DirtyWorktreeError.      *)
DeleteStatus(o) ==
  /\ pc[o] = "status" /\ arg[o].path \in dirs
  /\ IF arg[o].path \in dirty
       THEN Return(o)
       ELSE Goto(o, "remove") /\ UNCHANGED <<copy, arg, force>>
  /\ UNCHANGED <<file, issued, gitVars, crossed>>

AlwaysForce(o) ==            \* mutant of GitRemoves: --force whatever the caller said
  LET n == arg[o].path IN
  /\ n \in listed
  /\ dirs' = dirs \ {n} /\ dirty' = dirty \ {n} /\ listed' = listed \ {n}
  /\ UNCHANGED branches

(* git worktree remove: without --force it looks again and refuses a dirty *)
(* worktree itself.                                                        *)
GitRemoves(o) ==
  LET n == arg[o].path IN
  /\ n \in listed
  /\ n \in dirty => o \in force
  /\ dirs' = dirs \ {n} /\ dirty' = dirty \ {n} /\ listed' = listed \ {n}
  /\ UNCHANGED branches

DeleteRemove(o) ==
  /\ pc[o] = "remove"
  /\ GitRemoves(o)
  /\ Goto(o, "dsave")
  /\ UNCHANGED <<file, copy, arg, force, issued, crossed>>

SaveAnyway(o) ==             \* mutant of DeleteFails: the error of git is dropped
  /\ pc[o] \in {"prune", "status", "remove"}
  /\ Goto(o, "dsave")
  /\ UNCHANGED <<file, copy, arg, force, issued, gitVars, crossed>>

(* A git command fails, or is ended by its timeout: removal may have       *)
(* happened all the same, and the record stays.                            *)
DeleteFails(o) ==
  /\ pc[o] \in {"prune", "status", "remove"}
  /\ UNCHANGED gitVars \/ (pc[o] = "remove" /\ GitRemoves(o))
  /\ Return(o)
  /\ UNCHANGED <<file, issued, crossed>>

(* The copy loaded before git ran, without the record.                     *)
DeleteSave(o) ==
  /\ pc[o] = "dsave"
  /\ Overwrite(o, copy[o].wts \ {arg[o]})
  /\ Return(o)
  /\ UNCHANGED <<issued, gitVars, crossed>>

----------------------------------------------------------------------------
(***************************************************************************)
(* The instance manager, the user, and the end of the daemon.              *)
(***************************************************************************)
WriterLoad(g) ==
  /\ copy[g] = NoCopy /\ file.tab.version < MaxVersion
  /\ copy' = [copy EXCEPT ![g] = file]
  /\ UNCHANGED <<file, callVars, gitVars, crossed>>

Edits(t) == {AddRec(t, i) : i \in Ids \ Present(t)} \cup {DropRec(t, i) : i \in Present(t)}
            \cup {SetStatus(t, i, "running") : i \in Present(t)}

(* SaveWithVersion with the loaded version; a conflict loads again.        *)
WriterSave(g) ==
  /\ copy[g] # NoCopy
  /\ IF file.tab.version = copy[g].tab.version
       THEN \E t \in Edits(copy[g].tab) : file' = [copy[g] EXCEPT !.tab = t]
       ELSE UNCHANGED file
  /\ copy' = [copy EXCEPT ![g] = NoCopy]
  /\ UNCHANGED <<callVars, gitVars, crossed>>

(* Somebody works in a worktree, or removes its directory by hand.         *)
UserEdits(n) ==
  /\ n \in dirs /\ dirty' = dirty \cup {n}
  /\ UNCHANGED <<file, copy, callVars, branches, listed, dirs, crossed>>

UserRemoves(n) ==
  /\ n \in dirs /\ dirs' = dirs \ {n} /\ dirty' = dirty \ {n}
  /\ UNCHANGED <<file, copy, callVars, branches, listed, crossed>>

(* The daemon ends in the middle of its operations, and starts again.      *)
Crash ==
  /\ copy' = [g \in DOMAIN copy |-> NoCopy]
  /\ pc' = [o \in Ops |-> "idle"] /\ arg' = [o \in Ops |-> NoEntry] /\ force' = {}
  /\ UNCHANGED <<file, issued, gitVars, crossed>>

----------------------------------------------------------------------------
OpStep(o) ==
  \/ CreateCall(o) \/ \E n \in Names : ImportCall(o, n)
  \/ CreateAdd(o) \/ CreateAddFails(o) \/ CreateLoad(o)
  \/ ImportLoad(o) \/ SaveNew(o)
  \/ \E r \in file.wts, f \in BOOLEAN : DeleteCall(o, r, f)
  \/ DeleteStat(o) \/ DeletePrune(o) \/ DeleteStatus(o) \/ DeleteRemove(o)
  \/ DeleteFails(o) \/ DeleteSave(o)

Next ==
  \/ \E o \in Ops : OpStep(o)
  \/ \E g \in Writers : WriterLoad(g) \/ WriterSave(g)
  \/ \E n \in Names : UserEdits(n) \/ UserRemoves(n)
  \/ Crash

Spec == Init /\ [][Next]_vars

----------------------------------------------------------------------------
Labels == {"idle", "add", "load", "iload", "save", "stat", "prune", "status", "remove", "dsave"}

(* Types; and what a record or an operation about to write one names is a  *)
(* worktree git has made.                                                  *)
WorktreeTypeOK ==
  /\ \A r \in file.wts : r.path \in branches
  /\ \A o \in Ops : pc[o] \in {"load", "save"} => arg[o].path \in branches
  /\ file \in Files
  /\ copy \in [Ops \cup Writers -> Files \cup {NoCopy}]
  /\ pc \in [Ops -> Labels] /\ arg \in [Ops -> Entries \cup {NoEntry}]
  /\ force \subseteq Ops /\ issued \in 0..MaxIds
  /\ branches \subseteq Names /\ listed \subseteq branches
  /\ dirs \subseteq branches /\ dirty \subseteq dirs /\ crossed \subseteq Names

(* A Delete without force destroys no uncommitted work: not even what was  *)
(* written after git status found the worktree clean.                      *)
DirtyKept ==
  [][\A o \in Ops : pc[o] = "remove" /\ pc'[o] # "remove" /\ o \notin force
        => dirty \subseteq dirs']_vars

(* The record of a worktree that is still on disk only disappears when an  *)
(* operation writes back a copy older than the file.                       *)
Lapped(g)    == copy[g] # NoCopy /\ copy[g] # file
RecordKept ==
  [][\A r \in file.wts \ file'.wts :
        r.path \in dirs => \E g \in Ops \cup Writers : Lapped(g) /\ copy'[g] = NoCopy]_vars

(* One record for each worktree: only an Import of the path in the middle  *)
(* of the Create that makes it leads to two.                               *)
OneRecordPerPath ==
  \A r, s \in file.wts : r.path = s.path /\ r # s => r.path \in crossed

(* Whoever writes back an old copy writes back all of it: an instance     *)
(* record never comes without its tab.                                     *)
TabCovers == Present(file.tab) \subseteq TabIds(file.tab.tabs)

(* state.json describes worktrees that exist, once each, and every         *)
(* instance record in it has its tab.                                      *)
RecordsMatch == WorktreeTypeOK /\ OneRecordPerPath /\ TabCovers
=============================================================================
