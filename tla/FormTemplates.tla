---------------------------- MODULE FormTemplates ----------------------------
(***************************************************************************)
(* FormTemplateService.create_new_version, run by several administrators   *)
(* at once, each in a READ COMMITTED transaction of PostgreSQL.            *)
(*                                                                         *)
(* A step is a statement.  A statement sees what is committed when it      *)
(* starts; what a transaction writes becomes visible at its commit.  The   *)
(* row of form_template is locked by the statement that updates it, the    *)
(* key by the statement that inserts it, until the transaction ends.       *)
(***************************************************************************)
EXTENDS Naturals

CONSTANTS
  Saves,      \* POST .../versions and POST /import requests
  Keys,       \* template_key values
  KeyOf,      \* the key a request saves under
  Seed,       \* author of the version that the schema file seeds
  Nobody      \* holder of a free lock

ASSUME KeyOfType == KeyOf \in [Saves -> Keys]
ASSUME SeedFresh == Seed \notin Saves
ASSUME NobodyFresh == Nobody \notin Saves

VARIABLES
  pc,         \* the next statement of each request
  found,      \* what GET_TEMPLATE_BY_KEY told it
  next,       \* next_version
  off,        \* versions its DEACTIVATE_VERSIONS switched off, uncommitted
  lock,       \* who holds the form_template row (or the key) of each key
  template,   \* keys with a committed form_template row
  rows,       \* committed form_template_version rows: version and author
  active      \* versions committed with is_active = true

local == <<pc, found, next, off>>
vars  == <<local, lock, template, rows, active>>

Versions(k) == {r.version : r \in rows[k]}

(* Points of a request: the statement it runs next, or how it ended. *)
Open   == {"select", "save", "max", "deactivate", "insert"}
Ends   == {"saved", "conflict", "refused", "aborted"}
Locked == {"max", "deactivate", "insert"}

(* A key has no template, or the version 1 that the schema file seeds. *)
Init ==
  /\ pc = [c \in Saves |-> "select"]
  /\ found = [c \in Saves |-> FALSE]
  /\ next = [c \in Saves |-> 0]
  /\ off = [c \in Saves |-> {}]
  /\ lock = [k \in Keys |-> Nobody]
  /\ template \in [Keys -> BOOLEAN]
  /\ rows = [k \in Keys |-> IF template[k] THEN {[version |-> 1, by |-> Seed]} ELSE {}]
  /\ active = [k \in Keys |-> IF template[k] THEN {1} ELSE {}]

-----------------------------------------------------------------------------
Goto(c, p) == pc' = [pc EXCEPT ![c] = p]

TakeLock(c) ==
  /\ lock[KeyOf[c]] = Nobody
  /\ lock' = [lock EXCEPT ![KeyOf[c]] = c]

(* The end of a transaction gives up the lock it holds. *)
DropLock(c) == lock' = [k \in Keys |-> IF lock[k] = c THEN Nobody ELSE lock[k]]

(* COALESCE(MAX(version), 0) over the committed rows of a key. *)
MaxVersion(k) == CHOOSE n \in Versions(k) \cup {0} : \A m \in Versions(k) : m <= n

-----------------------------------------------------------------------------
(* Faulty variants of steps below, not part of Spec: with one of them in   *)
(* place of the step, a property fails.                                    *)

(* The update of the metadata, and its lock, is left out. *)
UpdateTemplateUnlocked(c) ==
  /\ pc[c] = "save" /\ found[c]
  /\ Goto(c, "max")
  /\ UNCHANGED <<found, next, off, lock, template, rows, active>>

(* The older versions are not switched off. *)
DeactivateNothing(c) ==
  /\ pc[c] = "deactivate"
  /\ Goto(c, "insert")
  /\ UNCHANGED <<found, next, off, lock, template, rows, active>>

(* GET_MAX_VERSION without its WHERE clause. *)
ReadMaxOfAll(c) ==
  /\ pc[c] = "max"
  /\ next' = [next EXCEPT ![c] = CHOOSE n \in {MaxVersion(k) + 1 : k \in Keys} :
                                   \A k \in Keys : MaxVersion(k) < n]
  /\ Goto(c, "deactivate")
  /\ UNCHANGED <<found, off, lock, template, rows, active>>

(* The request is answered and the transaction never commits. *)
InsertUncommitted(c) ==
  /\ pc[c] = "insert"
  /\ DropLock(c)
  /\ Goto(c, "saved")
  /\ UNCHANGED <<found, next, off, template, rows, active>>

(* The transaction of a request that broke off stays open. *)
AbortKeepsLock(c) ==
  /\ pc[c] \in Open
  /\ Goto(c, "aborted")
  /\ UNCHANGED <<found, next, off, lock, template, rows, active>>

-----------------------------------------------------------------------------
(* The key in the body is not the key in the URL: 400. *)
Refuse(c) ==
  /\ pc[c] = "select"
  /\ Goto(c, "refused")
  /\ UNCHANGED <<found, next, off, lock, template, rows, active>>

(* GET_TEMPLATE_BY_KEY: takes no lock. *)
SelectTemplate(c) ==
  /\ pc[c] = "select"
  /\ found' = [found EXCEPT ![c] = template[KeyOf[c]]]
  /\ Goto(c, "save")
  /\ UNCHANGED <<next, off, lock, template, rows, active>>

(* CREATE_TEMPLATE: waits for a transaction that inserted the same key,    *)
(* and fails on uq_form_template_key if that one committed.                *)
CreateTemplate(c) ==
  /\ pc[c] = "save" /\ ~found[c]
  /\ \/ /\ ~template[KeyOf[c]]
        /\ TakeLock(c)
        /\ Goto(c, "max")
     \/ /\ template[KeyOf[c]] /\ lock[KeyOf[c]] = Nobody
        /\ Goto(c, "conflict")
        /\ UNCHANGED lock
  /\ UNCHANGED <<found, next, off, template, rows, active>>

(* UPDATE_TEMPLATE_METADATA: waits for the row and locks it. *)
UpdateTemplate(c) ==
  /\ pc[c] = "save" /\ found[c]
  /\ TakeLock(c)
  /\ Goto(c, "max")
  /\ UNCHANGED <<found, next, off, template, rows, active>>

(* GET_MAX_VERSION. *)
ReadMax(c) ==
  /\ pc[c] = "max"
  /\ next' = [next EXCEPT ![c] = MaxVersion(KeyOf[c]) + 1]
  /\ Goto(c, "deactivate")
  /\ UNCHANGED <<found, off, lock, template, rows, active>>

(* DEACTIVATE_VERSIONS. *)
Deactivate(c) ==
  /\ pc[c] = "deactivate"
  /\ off' = [off EXCEPT ![c] = active[KeyOf[c]]]
  /\ Goto(c, "insert")
  /\ UNCHANGED <<found, next, lock, template, rows, active>>

(* INSERT_TEMPLATE_VERSION and the commit, or uq_form_template_version     *)
(* and the rollback.                                                       *)
Insert(c) ==
  LET k == KeyOf[c] IN
  /\ pc[c] = "insert"
  /\ DropLock(c)
  /\ IF next[c] \in Versions(k)
     THEN Goto(c, "conflict") /\ UNCHANGED <<template, rows, active>>
     ELSE /\ Goto(c, "saved")
          /\ template' = [template EXCEPT ![k] = TRUE]
          /\ rows' = [rows EXCEPT ![k] = @ \cup {[version |-> next[c], by |-> c]}]
          /\ active' = [active EXCEPT ![k] = (@ \ off[c]) \cup {next[c]}]
  /\ UNCHANGED <<found, next, off>>

(* A statement or the connection fails, or the process dies: rollback. *)
Abort(c) ==
  /\ pc[c] \in Open
  /\ Goto(c, "aborted")
  /\ DropLock(c)
  /\ UNCHANGED <<found, next, off, template, rows, active>>

-----------------------------------------------------------------------------
Step(c) ==
  \/ SelectTemplate(c) \/ CreateTemplate(c) \/ UpdateTemplate(c)
  \/ ReadMax(c) \/ Deactivate(c) \/ Insert(c)

Next == \E c \in Saves : Refuse(c) \/ Step(c) \/ Abort(c)

Spec == Init /\ [][Next]_vars

(* A request goes on as long as PostgreSQL answers. *)
FairSpec == Spec /\ \A c \in Saves : WF_vars(Step(c))

-----------------------------------------------------------------------------
(* The seed at the end of the schema file, run again for its key k on a    *)
(* live database while nobody saves: version 1 is written as active, then  *)
(* every other version is switched off.                                    *)
Reseed(k) ==
  /\ \A c \in Saves : pc[c] \in Ends
  /\ template' = [template EXCEPT ![k] = TRUE]
  /\ rows' = [rows EXCEPT ![k] = {r \in @ : r.version # 1} \cup {[version |-> 1, by |-> Seed]}]
  /\ active' = [active EXCEPT ![k] = {1}]
  /\ UNCHANGED <<local, lock>>

SeedSpec == Init /\ [][Next \/ \E k \in Keys : Reseed(k)]_vars

-----------------------------------------------------------------------------
(* Properties. *)

TypeOK ==
  /\ pc \in [Saves -> Open \cup Ends]
  /\ found \in [Saves -> BOOLEAN]
  /\ next \in [Saves -> Nat]
  /\ off \in [Saves -> SUBSET Nat]
  /\ lock \in [Keys -> Saves \cup {Nobody}]
  /\ template \in [Keys -> BOOLEAN]
  /\ rows \in [Keys -> SUBSET [version : Nat, by : Saves \cup {Seed}]]
  /\ active \in [Keys -> SUBSET Nat]

(* The versions of a key are 1, 2, ..., n without a gap or a duplicate,    *)
(* and the newest, and only it, is active: ingest always finds exactly one *)
(* template to expect, and never none.                                     *)
NewestIsActive ==
  \A k \in Keys :
    /\ Versions(k) = 1..MaxVersion(k)
    /\ active[k] = IF template[k] THEN {MaxVersion(k)} ELSE {}
    /\ template[k] <=> MaxVersion(k) > 0

(* Every save that was answered is kept under the version it was told, and *)
(* no other save has that version.                                         *)
SavesAreKept ==
  \A c \in Saves : pc[c] = "saved" =>
    {r \in rows[KeyOf[c]] : r.version = next[c] \/ r.by = c}
      = {[version |-> next[c], by |-> c]}

(* Administrators who save at the same time are serialised, not refused:   *)
(* a unique violation can only hit a request that found no template, when  *)
(* another created the template meanwhile.                                 *)
OnlyCreatorsConflict == \A c \in Saves : pc[c] = "conflict" => ~found[c]

(* Every request ends: nobody waits for a lock for ever. *)
EverySaveEnds == \A c \in Saves : <>(pc[c] \in Ends)

(* The promise made to the rest of the system (TemplateVersions). *)
Abstract == INSTANCE TemplateVersions WITH latest <- [k \in Keys |-> MaxVersion(k)]
PublishesVersions == Abstract!Spec

(* "Safe to re-run": seeding again does not switch off the version that    *)
(* the administrators published last.                                      *)
SafeToRerun == [][\A k \in Keys : Reseed(k) => active[k] \subseteq active'[k]]_vars
=============================================================================
