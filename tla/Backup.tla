------------------------------- MODULE Backup -------------------------------
(***************************************************************************)
(* The selective JSON backup: export, validation and the two ways of       *)
(* restoring it, over the real graph of foreign keys.                      *)
(*                                                                         *)
(* A table has no row or one that stands for its rows; required            *)
(* references are to the row of the other table, optional ones are there   *)
(* or null.  The optional reference of cards to cards is that of a card to *)
(* one with a higher id.  A restore is one transaction under the lock      *)
(* backup_restore; collisions of unique columns and the ids that sequences *)
(* hand out next are left out.                                             *)
(***************************************************************************)
EXTENDS BackupTables

CONSTANTS Flags,     \* the sets of optional tables that are asked for
          Contents   \* what a database may be found with

\* The database's own constraints: no reference leads nowhere.
Consistent(content) ==
  /\ content = [rows |-> content.rows, refs |-> content.refs]
  /\ content.rows \subseteq Tables /\ content.refs \subseteq Nullable
  /\ \A e \in content.refs : e[1] \in content.rows
  /\ \A e \in content.refs \union {d \in Required : d[1] \in content.rows} : e[2] \in content.rows

BackupAssumption ==
  /\ \A f \in Flags : f \subseteq OptionalTables
  /\ \A content \in Contents : Consistent(content)

VARIABLES
  db,      \* the database's content
  backup,  \* a backup that was made: its tables and their content
  meddled, \* bound: the file, or the database since, was changed once
  result   \* the last restore: how it ended, what it started from

vars == <<db, backup, meddled, result>>

NoBackup == [tables |-> {}, rows |-> {}, refs |-> {}]
NoResult == [mode |-> "none", ok |-> FALSE, valid |-> FALSE, warned |-> {}, before |-> {}]

TypeOK ==
  /\ Consistent(db)
  /\ backup.tables \subseteq Known /\ backup.rows \subseteq backup.tables /\ backup.refs \subseteq Nullable
  /\ result.mode \in {"none", "merge", "replace"}

Init == db \in Contents /\ backup = NoBackup /\ meddled = FALSE /\ result = NoResult

-----------------------------------------------------------------------------
Export(flags) ==
  LET tables == RequiredTables \union flags IN
  /\ backup = NoBackup
  /\ backup' = [tables |-> tables, rows |-> db.rows \intersect tables,
                refs |-> {e \in db.refs : e[1] \in tables}]
  /\ UNCHANGED <<db, meddled, result>>

\* Someone edits the file and takes a row out.
Edit(t) ==
  /\ t \in backup.rows /\ ~meddled /\ result = NoResult
  /\ meddled' = TRUE
  /\ backup' = [backup EXCEPT !.rows = @ \ {t}, !.refs = {e \in @ : e[1] # t}]
  /\ UNCHANGED <<db, result>>

\* Tables and those that cannot be without one of them: no table is more than
\* two required references away from another.
Cascade(ts) ==
  LET near == ts \union {e[1] : e \in {d \in Required : d[2] \in ts}} IN
  near \union {e[1] : e \in {d \in Required : d[2] \in near}}

\* The rows of some tables go, with all that cannot be without them.
Deleted(content, ts) ==
  [rows |-> content.rows \ Cascade(ts),
   refs |-> {e \in content.refs : {e[1], e[2]} \intersect Cascade(ts) = {}}]

\* The database changes after the backup: a table is emptied, or it is another one.
Change ==
  /\ backup # NoBackup /\ ~meddled /\ result = NoResult
  /\ meddled' = TRUE
  /\ db' \in Contents \union {Deleted(db, {t}) : t \in db.rows}
  /\ UNCHANGED <<backup, result>>

Valid(b) ==
  /\ RequiredTables \subseteq b.tables
  /\ \A e \in Checked : /\ e \in Required /\ e[1] \in b.rows => e[2] \in b.rows
                        /\ e \in b.refs => e[2] \in b.rows

\* Mutant: rows are inserted as they are.
Deferred_None(t) == FALSE

\* Self-references are patched in once all rows of the table are there.
Deferred(t) == t = "cards"

\* The tables that the rows of table t refer to.
Parents(b, t) == {e[2] : e \in {d \in Required : d[1] = t /\ t \in b.rows} \union {d \in b.refs : d[1] = t}}

\* No reference leads nowhere when table t is written.
Accepted(content, b, t) ==
  /\ Parents(b, t) \ {t} \subseteq content.rows \union (b.rows \intersect Earlier[t])
  /\ t \in Parents(b, t) => Deferred(t) \/ t \in content.rows

\* The backup's tables, one after the other: its rows replace those there are.
Filled(content, b) ==
  [rows |-> content.rows \union b.rows,
   refs |-> {e \in content.refs : e[1] \notin b.rows} \union b.refs]

\* In replace mode all tables of the backup are emptied before.  Children go
\* first, which makes no difference, as all foreign keys cascade or set NULL.
Start(mode) == IF mode = "replace" THEN Deleted(db, backup.tables) ELSE db

Restore(mode) ==
  LET valid == Valid(backup)
      done == valid /\ \A t \in backup.tables : Accepted(Start(mode), backup, t) IN
  /\ backup # NoBackup /\ result = NoResult
  /\ result' = [mode |-> mode, ok |-> done, valid |-> valid, before |-> db.rows,
                warned |-> IF mode = "replace" THEN CascadeRisk \ backup.tables ELSE {}]
  /\ db' = IF done THEN Filled(Start(mode), backup) ELSE db
  /\ UNCHANGED <<backup, meddled>>

Next ==
  \/ \E f \in Flags : Export(f)
  \/ \E t \in Known : Edit(t)
  \/ Change
  \/ \E mode \in {"merge", "replace"} : Restore(mode)

Spec == Init /\ [][Next]_vars

-----------------------------------------------------------------------------
(***************************************************************************)
(* Properties                                                              *)
(***************************************************************************)

\* The backup's references lead to rows of the backup.
Closed(b) ==
  \A e \in b.refs \union {d \in Required : d[1] \in b.rows} : e[2] \in b.rows

\* A backup whose references lead to its own rows is restored, into any
\* database and in both modes, and then is what the database has: the order
\* of the tables suits all foreign keys, deferred ones included.
ClosedBackupRestores ==
  result.mode # "none" /\ RequiredTables \subseteq backup.tables /\ Closed(backup) =>
    /\ result.ok
    /\ backup.rows \subseteq db.rows
    /\ {e \in db.refs : e[1] \in backup.rows} = backup.refs
    /\ result.mode = "replace" => db.rows \intersect backup.tables = backup.rows

\* Tables that a restore has emptied although they are not in the backup are
\* those that the warning names ("may be cascade-deleted").
LossIsWarned ==
  result.ok => \A t \in result.before : t \in db.rows \/ t \in backup.tables \/ t \in result.warned
=============================================================================
