----------------------------- MODULE StateFile -----------------------------
(***************************************************************************)
(* The content of state.json (store.State) as far as instances go, and the *)
(* edits the daemon makes to it.                                           *)
(*                                                                         *)
(* A table is a record [version, rec, tabs]: rec maps every instance id to *)
(* its record (NoRec for an id the array does not hold), tabs is the tab   *)
(* order of the one worktree the model has.  The order of the instances    *)
(* array itself is left out: only ReorderInstances permutes it, to the     *)
(* order it also writes to tabs.                                           *)
(***************************************************************************)
EXTENDS Integers, Sequences

CONSTANTS Ids,   \* instance ids (newID: random, never reused)
          NoId   \* "no instance": an empty restarted_from

ASSUME NoIdAssumption == NoId \notin Ids

Terminal == {"stopped", "failed", "exited"}
Live     == {"starting", "running"}
Statuses == Live \cup Terminal

NoRec   == [status |-> "none", from |-> NoId]
Records == [status : Statuses, from : Ids \cup {NoId}] \cup {NoRec}
Tables  == [version : Nat, rec : [Ids -> Records], tabs : Seq(Ids)]

EmptyTable == [version |-> 0, rec |-> [i \in Ids |-> NoRec], tabs |-> <<>>]

Present(st) == {i \in Ids : st.rec[i].status # "none"}
TabIds(s)   == {s[k] : k \in DOMAIN s}

(***************************************************************************)
(* The edits, as functions from a table to a table.                        *)
(***************************************************************************)
Write(st, rec, tabs) == [version |-> st.version + 1, rec |-> rec, tabs |-> tabs]

AddNoTab(st, i) ==              \* mutant of AddRec: the tab is left to the next reorder
  Write(st, [st.rec EXCEPT ![i] = [status |-> "starting", from |-> NoId]], st.tabs)

AddRec(st, i) ==
  Write(st, [st.rec EXCEPT ![i] = [status |-> "starting", from |-> NoId]],
        Append(st.tabs, i))
SetStatus(st, i, s) == Write(st, [st.rec EXCEPT ![i].status = s], st.tabs)
Touch(st)           == Write(st, st.rec, st.tabs)
DropRec(st, i)      == Write(st, [st.rec EXCEPT ![i] = NoRec], st.tabs)
Replace(st, old, new) ==
  Write(st, [i \in Ids |-> IF i = old THEN NoRec
                           ELSE IF i = new THEN [st.rec[i] EXCEPT !.from = old]
                           ELSE st.rec[i]],
        st.tabs)
SetTabs(st, order)  == Write(st, st.rec, order)
=============================================================================
