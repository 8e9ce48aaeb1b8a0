-------------------------------- MODULE Backup --------------------------------
(***************************************************************************)
(* export_db_backup.py and restore_db_backup.py --truncate.                *)
(* Each statement of the scripts is a transaction of its own.  A row is    *)
(* named by the thing that it is about: where one table refers to another, *)
(* row k refers to row k.                                                  *)
(***************************************************************************)
EXTENDS Naturals, Sequences

CONSTANTS
  Tables,   \* the tables of the schema in the order of the export, the alphabet
  Manifest, \* the same in the order of the restore: that of the export, unless
            \* somebody has edited the manifest
  Refs,     \* <<t, u>> when t has a foreign key to u
  Things    \* what rows are about

Names == {Tables[i] : i \in DOMAIN Tables}

ASSUME TablesType ==
  /\ Tables \in Seq(Names) \ {<<>>}
  /\ \A i, j \in DOMAIN Tables : Tables[i] = Tables[j] => i = j
ASSUME ManifestType ==
  /\ Manifest \in Seq(Names) \ {<<>>}
  /\ Names \subseteq {Manifest[i] : i \in DOMAIN Manifest}
  /\ \A i, j \in DOMAIN Manifest : Manifest[i] = Manifest[j] => i = j

VARIABLES
  db,      \* the rows of each table
  file,    \* those of its CSV file
  errors,  \* the tables with an error in the manifest
  phase,   \* what the scripts are doing, or how they ended
  next     \* the position of the table that comes next

vars == <<db, file, errors, phase, next>>

Phases == {"live", "export", "backed_up", "truncate", "copy", "restored", "failed"}

Parents(t)  == {u \in Names : <<t, u>> \in Refs}
Children(t) == {u \in Names : <<u, t>> \in Refs}
Consistent(t, rows, tables) == \A u \in Parents(t) : rows \subseteq tables[u]

(* The tables that TRUNCATE ... CASCADE empties. *)
Closed(S) == \A t \in S : Children(t) \subseteq S
Cascade(t) == {u \in Names : \A S \in SUBSET Names : t \in S /\ Closed(S) => u \in S}

Init ==
  /\ db = [t \in Names |-> {}]
  /\ file = [t \in Names |-> {}]
  /\ errors = {}
  /\ phase = "live"
  /\ next = 1

(* After the last table, p; else the next one is dealt with by q. *)
Advance(order, q, p) ==
  IF next = Len(order)
  THEN next' = next /\ phase' = p
  ELSE next' = next + 1 /\ phase' = q

-----------------------------------------------------------------------------
(* Faulty variants of what is below, not part of Spec: with one of them in *)
(* place of the original, a property fails.                                *)

(* The error of an export is caught and forgotten. *)
ExportTableSilently ==
  /\ phase = "export"
  /\ \E rows \in SUBSET db[Tables[next]] : file' = [file EXCEPT ![Tables[next]] = rows]
  /\ Advance(Tables, "export", "backed_up")
  /\ UNCHANGED <<db, errors>>

(* TRUNCATE without CASCADE. *)
TruncateTableAlone ==
  /\ phase = "truncate"
  /\ db' = [db EXCEPT ![Manifest[next]] = {}]
  /\ phase' = "copy"
  /\ UNCHANGED <<file, errors, next>>

(* No TRUNCATE. *)
TruncateNothing ==
  /\ phase = "truncate"
  /\ phase' = "copy"
  /\ UNCHANGED <<db, file, errors, next>>

-----------------------------------------------------------------------------
InUse == phase \in {"live", "export", "backed_up"}

(* The application inserts rows, also during the export, and it deletes    *)
(* rows of tables that no other refers to (app_user_role,                  *)
(* review_request_discipline).                                             *)
Write(t, k) ==
  /\ InUse
  /\ k \notin db[t] /\ Consistent(t, {k}, db)
  /\ db' = [db EXCEPT ![t] = @ \cup {k}]
  /\ UNCHANGED <<file, errors, phase, next>>

Delete(t, k) ==
  /\ InUse
  /\ Children(t) = {}
  /\ db' = [db EXCEPT ![t] = @ \ {k}]
  /\ UNCHANGED <<file, errors, phase, next>>

(* A new database, made with the schema. *)
Recreate ==
  /\ phase = "backed_up"
  /\ db' = [t \in Names |-> {}]
  /\ UNCHANGED <<file, errors, phase, next>>

Begin(from, to) ==
  /\ phase = from
  /\ phase' = to
  /\ next' = 1
  /\ UNCHANGED <<db, file, errors>>

(* The rows that are committed when the statement starts. *)
ExportTable ==
  /\ phase = "export"
  /\ file' = [file EXCEPT ![Tables[next]] = db[Tables[next]]]
  /\ Advance(Tables, "export", "backed_up")
  /\ UNCHANGED <<db, errors>>

(* It fails, and leaves part of the rows in the file; the error is written *)
(* to the manifest, and the export goes on.                                *)
ExportFails ==
  /\ phase = "export"
  /\ \E rows \in SUBSET db[Tables[next]] : file' = [file EXCEPT ![Tables[next]] = rows]
  /\ errors' = errors \cup {Tables[next]}
  /\ Advance(Tables, "export", "backed_up")
  /\ db' = db

TruncateTable ==
  /\ phase = "truncate"
  /\ db' = [t \in Names |-> IF t \in Cascade(Manifest[next]) THEN {} ELSE db[t]]
  /\ phase' = "copy"
  /\ UNCHANGED <<file, errors, next>>

(* COPY checks the keys; nothing catches its error. *)
Loads(t) == Consistent(t, file[t], db) /\ file[t] \cap db[t] = {}

CopyTable ==
  /\ phase = "copy"
  /\ Loads(Manifest[next])
  /\ db' = [db EXCEPT ![Manifest[next]] = @ \cup file[Manifest[next]]]
  /\ Advance(Manifest, "truncate", "restored")
  /\ UNCHANGED <<file, errors>>

CopyFails ==
  /\ phase = "copy"
  /\ ~Loads(Manifest[next])
  /\ phase' = "failed"
  /\ UNCHANGED <<db, file, errors, next>>

Next ==
  \/ \E t \in Names, k \in Things : Write(t, k) \/ Delete(t, k)
  \/ Recreate
  \/ Begin("live", "export")
  \/ Begin("backed_up", "truncate")
  \/ ExportTable \/ ExportFails \/ TruncateTable \/ CopyTable \/ CopyFails

Spec == Init /\ [][Next]_vars

-----------------------------------------------------------------------------
(* Properties. *)

TypeOK ==
  /\ db \in [Names -> SUBSET Things]
  /\ file \in [Names -> SUBSET Things]
  /\ errors \subseteq Names
  /\ phase \in Phases
  /\ next \in Nat \ {0}
  /\ phase = "export" => next \in DOMAIN Tables
  /\ phase \in {"truncate", "copy"} => next \in DOMAIN Manifest

(* No file refers to a row that the backup does not have. *)
BackupConsistent == \A t \in Names : Consistent(t, file[t], file)

(* "Restores CSV backups into a schema": when the script ends without an   *)
(* error, every table has the rows of its file, at least if the backup is  *)
(* consistent.                                                             *)
RestoresTheBackup == phase = "restored" /\ BackupConsistent => db = file

(* What --truncate does to a backup: the tables whose rows are there in    *)
(* the end are those that no later TRUNCATE ... CASCADE reaches, the       *)
(* others are empty.                                                       *)
Emptied(i, last) ==
  \E j \in DOMAIN Manifest : i < j /\ j <= last /\ Manifest[i] \in Cascade(Manifest[j])
RestoredExactly ==
  phase = "restored" =>
    \A i \in DOMAIN Manifest :
      db[Manifest[i]] = IF Emptied(i, Len(Manifest)) THEN {} ELSE file[Manifest[i]]

(* A consistent backup stops the restore only for the order of its tables: *)
(* at one that refers to a later one, or to one that has been emptied      *)
(* again.                                                                  *)
StopsForOrder ==
  phase = "failed" /\ BackupConsistent =>
    \E j \in DOMAIN Manifest :
      /\ Manifest[j] \in Parents(Manifest[next])
      /\ next <= j \/ Emptied(j, next)

(* The tables are exported one by one while rows are written.  Where a     *)
(* table comes before one that it refers to, no reference is lost, unless  *)
(* the export of that one failed: what a row refers to is still there      *)
(* later.                                                                  *)
ExportConsistent ==
  \A i, j \in DOMAIN Tables :
    (/\ i < j /\ <<Tables[i], Tables[j]>> \in Refs
     /\ Tables[j] \notin errors /\ phase \notin {"live", "export"})
    => file[Tables[i]] \subseteq file[Tables[j]]
=============================================================================
