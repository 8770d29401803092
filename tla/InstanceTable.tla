--------------------------- MODULE InstanceTable ---------------------------
(***************************************************************************)
(* What state.json promises its users: a table of instance records and a   *)
(* tab order that every operation changes in one indivisible step, each    *)
(* step taking the version from v to v + 1.  The daemon has no such        *)
(* operation: internal/store offers Load and SaveWithVersion, and every    *)
(* caller reads, edits a private copy and writes it back.  InstanceManager *)
(* models those callers and is checked, and proved, to implement this.     *)
(***************************************************************************)
EXTENDS StateFile

VARIABLE table

TableInit == table = EmptyTable

(* A new record enters together with its tab.                              *)
Add == \E i \in Ids : i \notin Present(table) /\ table' = AddRec(table, i)

(* The status of a record that is there changes, and nothing else.         *)
Mark == \E i \in Present(table), s \in Statuses : table' = SetStatus(table, i, s)

(* Fields the table does not show (pid, kind_blob, name) are rewritten.    *)
Rewrite == table' = Touch(table)

Drop == \E i \in Present(table) : table' = DropRec(table, i)

(* A restart swaps the old record for the link on the new one: the old     *)
(* record never goes without the new one being there.                      *)
Migrate ==
  \E new \in Present(table) : \E old \in Ids \ {new} :
     table' = Replace(table, old, new)

(* A new tab order names exactly the records of the table it replaces.     *)
Reorder ==
  /\ table'.tabs \in Seq(Ids)
  /\ TabIds(table'.tabs) = Present(table)
  /\ table' = SetTabs(table, table'.tabs)

TableNext == Add \/ Mark \/ Rewrite \/ Drop \/ Migrate \/ Reorder
TableSpec == TableInit /\ [][TableNext]_table
=============================================================================
