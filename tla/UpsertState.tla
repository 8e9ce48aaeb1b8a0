----------------------------- MODULE UpsertState -----------------------------
(***************************************************************************)
(* The inside of the transaction that Ingest takes for one step:           *)
(* IngestService._upsert_state, statement by statement, in several         *)
(* transactions at once.                                                   *)
(*                                                                         *)
(* PostgreSQL runs them under READ COMMITTED.  An upsert or an update      *)
(* locks its row until the transaction ends, also the row that it is       *)
(* about to insert; a SELECT waits for nobody and sees what is committed.  *)
(* Writes become visible at the commit.  A retry by the ERP is another     *)
(* transaction.  Only ingests change requests here: submissions, which are *)
(* never cancelled, and reassignments are the subject of ReviewRequests.   *)
(***************************************************************************)
EXTENDS Naturals, Sequences

CONSTANTS
  Txs,          \* transactions; a coversheet row is named after its creator
  Qcs,          \* qcUdicID values
  Peps,         \* pep_udic_id values
  Wbs,          \* project_wbs values
  Contacts,     \* erp_contact_id values: ids, and "EMAIL:..." for the others
  Disciplines,  \* discipline codes
  None,         \* a missing value
  Payloads,     \* what the ERP may answer
  Order         \* some order of the contacts and disciplines

Persons == [id : Contacts \cup {None}, email : Contacts \cup {None}]
PayloadType ==
  [qc : Qcs, pep : Peps \cup {None}, wbs : Wbs \cup {None}, pm : Persons, pp : Persons,
   reviewers : Seq(Persons), codes : Seq(Disciplines), complete : BOOLEAN]

ListRows == ({"contact"} \X Contacts) \cup ({"discipline"} \X Disciplines)

ASSUME NoneFresh == None \notin Txs \cup Peps \cup Wbs \cup Contacts
ASSUME PayloadsType == Payloads \subseteq PayloadType
ASSUME OrderType ==
  /\ Order \in [ListRows -> Nat]
  /\ \A r, s \in ListRows : Order[r] = Order[s] => r = s
  /\ \E r \in ListRows : \A s \in ListRows : Order[s] <= Order[r]

VARIABLES
  pc,        \* the next statement of each transaction
  payload,   \* the ERP's answer that it stores
  next,      \* how far it is in its lists of contacts and disciplines
  row,       \* the coversheet it writes: one it found, or its own, new one
  cancel,    \* the reviewers whose requests it cancels
  held,      \* the rows it has locked
  cover,     \* committed coversheets: who wrote them last (None: no row)
  requests,  \* committed review requests of each: the reviewers
  cancelled  \* those of them with the status cancelled

tables == <<cover, requests, cancelled>>
vars   == <<pc, payload, next, row, cancel, held, tables>>

(***************************************************************************)
(*   execution  UPSERT_PROJECT_EXECUTION     cover  UPDATE_COVERSHEET      *)
(*   project    UPSERT_PROJECT               write  its unique key         *)
(*   list       contacts, then disciplines   sync   the review requests    *)
(*              then the lookup of the coversheet                          *)
(***************************************************************************)
Ends   == {"done", "failed"}
Points == {"execution", "project", "list", "cover", "write", "sync", "commit"} \cup Ends

(* The key of a contact: the ERP's id, or else the email. *)
Key(x) == IF x.id # None THEN x.id ELSE x.email
HasEmail(x) == x.email # None

(* reviewer_groups: the reviewers with an email, one for each key, in the  *)
(* order in which the keys come first.                                     *)
Groups(p) ==
  {i \in DOMAIN p.reviewers :
     /\ HasEmail(p.reviewers[i])
     /\ \A j \in DOMAIN p.reviewers :
          j < i /\ HasEmail(p.reviewers[j]) => Key(p.reviewers[j]) # Key(p.reviewers[i])}
Reviewers(p) == {Key(p.reviewers[i]) : i \in Groups(p)}

(* The upserts that follow, by their positions: the manager and the        *)
(* principal if there is an id or an email, the reviewers, and then the    *)
(* disciplines of the payload.                                             *)
People(p) == <<p.pm, p.pp>> \o p.reviewers
Counts(p, i) == IF i <= 2 THEN Key(People(p)[i]) # None ELSE i - 2 \in Groups(p)
Upserts(p) ==
  [i \in {i \in 1..(Len(People(p)) + Len(p.codes)) : i <= Len(People(p)) => Counts(p, i)} |->
     IF i <= Len(People(p))
     THEN [row |-> <<"contact", Key(People(p)[i])>>, ok |-> HasEmail(People(p)[i])]
     ELSE [row |-> <<"discipline", p.codes[i - Len(People(p))]>>, ok |-> TRUE]]

(* Both for every payload, so that TLC computes them once. *)
Lists == [p \in Payloads |-> Upserts(p)]
Teams == [p \in Payloads |-> Reviewers(p)]

List(t) == Lists[payload[t]]
Team(t) == Teams[payload[t]]

(* The first of the upserts from position next on. *)
Coming(t) ==
  {i \in DOMAIN List(t) :
     next[t] <= i /\ \A j \in DOMAIN List(t) : next[t] <= j => i <= j}
Position(t) == CHOOSE i \in Coming(t) : TRUE
Listing(t)  == pc[t] = "list" /\ Coming(t) # {}
Listed(t)   == pc[t] = "list" /\ Coming(t) = {}

(* A faulty variant of Entry, not part of Spec: the manager comes last. *)
EntryManagerLast(t) ==
  LET later == {i \in DOMAIN List(t) : Position(t) < i} IN
  IF 1 \notin DOMAIN List(t) THEN List(t)[Position(t)]
  ELSE IF later = {} THEN List(t)[1]
  ELSE List(t)[CHOOSE i \in later : \A j \in later : i <= j]

Entry(t) == List(t)[Position(t)]

(* Committed coversheets with the qcUdicID of t's payload, and those whose *)
(* unique key, with the execution record, is the one t is writing.         *)
Found(t) == {r \in Txs : cover[r] # None /\ payload[r].qc = payload[t].qc}
Clashes(t) == {r \in Found(t) \ {row[t]} : payload[cover[r]].pep = payload[t].pep}

(* The rows whose locks the next statement of t needs. *)
Needs(t) ==
  CASE pc[t] = "execution" -> {<<"execution", payload[t].pep>>}
    [] pc[t] = "project"   -> {<<"project", payload[t].wbs>>}
    [] Listing(t)          -> {Entry(t).row}
    [] pc[t] = "cover"     -> {<<"coversheet", row[t]>>}
    [] pc[t] = "write"     -> {<<"coversheet", r>> : r \in Clashes(t)}
    [] OTHER               -> {}

(* t waits for u; everybody in S waits for somebody in S; S is a cycle. *)
Waits(t, u) == t # u /\ Needs(t) \cap held[u] # {}
Stuck(S) == S # {} /\ \A t \in S : \E u \in S : Waits(t, u)
Cycle(S) == Stuck(S) /\ \A T \in SUBSET S : Stuck(T) => T = S

Init ==
  /\ pc = [t \in Txs |-> "execution"]
  /\ payload \in [Txs -> Payloads]
  /\ next = [t \in Txs |-> 1]
  /\ row = [t \in Txs |-> None]
  /\ cancel = [t \in Txs |-> {}]
  /\ held = [t \in Txs |-> {}]
  /\ cover = [t \in Txs |-> None]
  /\ requests = [t \in Txs |-> {}]
  /\ cancelled = [t \in Txs |-> {}]

Goto(t, p) == pc' = [pc EXCEPT ![t] = p]

(* The rows are free, and locked until the transaction ends. *)
Lock(t) ==
  /\ \A u \in Txs : ~Waits(t, u)
  /\ held' = [held EXCEPT ![t] = @ \cup Needs(t)]

(* COMMIT and ROLLBACK release the locks. *)
Unlock(t) == held' = [held EXCEPT ![t] = {}]

-----------------------------------------------------------------------------
(* Faulty variants of what is below, not part of Spec: with one of them in *)
(* place of the original, a property fails.                                *)

(* The execution record is updated outside the transaction. *)
UpsertExecutionUnlocked(t) ==
  /\ pc[t] = "execution"
  /\ payload[t].pep # None /\ payload[t].wbs # None
  /\ Goto(t, "project")
  /\ UNCHANGED <<payload, next, row, cancel, held, tables>>

(* The coversheet is compared with the record, and not locked. *)
LockCoversheetUnlocked(t) ==
  /\ pc[t] = "cover"
  /\ Goto(t, "write")
  /\ UNCHANGED <<payload, next, row, cancel, held, tables>>

(* The table lacks its unique key. *)
WriteCoversheetUnchecked(t) ==
  /\ pc[t] = "write"
  /\ Goto(t, "sync")
  /\ UNCHANGED <<payload, next, row, cancel, held, tables>>

(* A rollback to a savepoint, which keeps the locks. *)
RollbackKeepsLocks(t) ==
  /\ Goto(t, "failed")
  /\ UNCHANGED <<payload, next, row, cancel, held, tables>>

-----------------------------------------------------------------------------
(* Both ids are in the payload. *)
UpsertExecution(t) ==
  /\ pc[t] = "execution"
  /\ payload[t].pep # None /\ payload[t].wbs # None
  /\ Lock(t)
  /\ Goto(t, "project")
  /\ UNCHANGED <<payload, next, row, cancel, tables>>

UpsertProject(t) ==
  /\ pc[t] = "project"
  /\ Lock(t)
  /\ Goto(t, "list")
  /\ UNCHANGED <<payload, next, row, cancel, tables>>

(* contact.email may not be null, also when the contact exists. *)
UpsertContact(t) ==
  /\ Listing(t) /\ Entry(t).row[1] = "contact" /\ Entry(t).ok
  /\ Lock(t)
  /\ next' = [next EXCEPT ![t] = Position(t) + 1]
  /\ UNCHANGED <<pc, payload, row, cancel, tables>>

UpsertDiscipline(t) ==
  /\ Listing(t) /\ Entry(t).row[1] = "discipline"
  /\ Lock(t)
  /\ next' = [next EXCEPT ![t] = Position(t) + 1]
  /\ UNCHANGED <<pc, payload, row, cancel, tables>>

(* The dates parse and the submittal has a name; then                      *)
(* SELECT_COVERSHEET_BY_QC_UDIC: the latest of the rows there are.         *)
SelectCoversheet(t) ==
  /\ Listed(t) /\ payload[t].complete
  /\ \E r \in Found(t) : row' = [row EXCEPT ![t] = r]
  /\ Goto(t, "cover")
  /\ UNCHANGED <<payload, next, cancel, held, tables>>

SelectNothing(t) ==
  /\ Listed(t) /\ payload[t].complete
  /\ Found(t) = {}
  /\ row' = [row EXCEPT ![t] = t]
  /\ Goto(t, "write")
  /\ UNCHANGED <<payload, next, cancel, held, tables>>

LockCoversheet(t) ==
  /\ pc[t] = "cover"
  /\ Lock(t)
  /\ Goto(t, "write")
  /\ UNCHANGED <<payload, next, row, cancel, tables>>

(* UPDATE_COVERSHEET or INSERT_COVERSHEET, once nobody else is changing a  *)
(* row with the same key and there is none.                                *)
WriteCoversheet(t) ==
  /\ pc[t] = "write"
  /\ Clashes(t) = {}
  /\ Goto(t, "sync")
  /\ UNCHANGED <<payload, next, row, cancel, held, tables>>

(* UPSERT_REVIEW_REQUEST for each group, which leaves the status of a      *)
(* request that is there; CANCEL_REMOVED_REVIEWERS for those not cancelled *)
(* yet.                                                                    *)
SyncRequests(t) ==
  /\ pc[t] = "sync"
  /\ cancel' = [cancel EXCEPT ![t] = (requests[row[t]] \ cancelled[row[t]]) \ Team(t)]
  /\ Goto(t, "commit")
  /\ UNCHANGED <<payload, next, row, held, tables>>

Commit(t) ==
  /\ pc[t] = "commit"
  /\ cover' = [cover EXCEPT ![row[t]] = t]
  /\ requests' = [requests EXCEPT ![row[t]] = @ \cup Team(t)]
  /\ cancelled' = [cancelled EXCEPT ![row[t]] = @ \cup cancel[t]]
  /\ Unlock(t)
  /\ Goto(t, "done")
  /\ UNCHANGED <<payload, next, row, cancel>>

Rollback(t) ==
  /\ Goto(t, "failed")
  /\ Unlock(t)
  /\ UNCHANGED <<payload, next, row, cancel, tables>>

(* What the code or the database refuses: an id is missing (422), a        *)
(* contact has no email, a date does not parse (422) or the submittal has  *)
(* no name, the coversheet's key is taken.                                 *)
Refuse(t) ==
  /\ \/ pc[t] = "execution" /\ None \in {payload[t].pep, payload[t].wbs}
     \/ Listing(t) /\ ~Entry(t).ok
     \/ Listed(t) /\ ~payload[t].complete
     \/ pc[t] = "write" /\ Clashes(t) # {} /\ \A u \in Txs : ~Waits(t, u)
  /\ Rollback(t)

(* No active template, a lost connection, a cancellation. *)
Break(t) == pc[t] \notin Ends /\ Rollback(t)

(* PostgreSQL finds a cycle and ends one of its transactions. *)
Victim(t) == (\E S \in SUBSET Txs : t \in S /\ Cycle(S)) /\ Rollback(t)

Step(t) ==
  \/ UpsertExecution(t) \/ UpsertProject(t) \/ UpsertContact(t) \/ UpsertDiscipline(t)
  \/ SelectCoversheet(t) \/ SelectNothing(t) \/ LockCoversheet(t) \/ WriteCoversheet(t)
  \/ SyncRequests(t) \/ Commit(t) \/ Refuse(t)

Next == \E t \in Txs : Step(t) \/ Break(t) \/ Victim(t)

Spec == Init /\ [][Next]_vars

(* Statements that wait for no lock are executed, and PostgreSQL checks    *)
(* for deadlocks after deadlock_timeout.                                   *)
Fairness ==
  /\ \A t \in Txs : WF_vars(Step(t))
  /\ WF_vars(\E t \in Txs : Victim(t))
FairSpec == Spec /\ Fairness

-----------------------------------------------------------------------------
(* Properties. *)

Rows == (({"execution"} \X Peps) \cup ({"project"} \X Wbs) \cup ListRows
         \cup ({"coversheet"} \X Txs))

TypeOK ==
  /\ pc \in [Txs -> Points]
  /\ payload \in [Txs -> Payloads]
  /\ next \in [Txs -> Nat \ {0}]
  /\ row \in [Txs -> Txs \cup {None}]
  /\ cancel \in [Txs -> SUBSET Contacts]
  /\ held \in [Txs -> SUBSET Rows]
  /\ cover \in [Txs -> Txs \cup {None}]
  /\ requests \in [Txs -> SUBSET Contacts]
  /\ cancelled \in [Txs -> SUBSET Contacts]

(* A coversheet is looked up and inserted if missing, and the unique key   *)
(* has the execution record in it.  Still there are two rows for one       *)
(* qcUdicID only if they were created from payloads that name different    *)
(* execution records and different projects: the locks on these two rows   *)
(* serialise everything else.                                              *)
TwinsDiffer ==
  \A r, s \in Txs :
    (/\ r # s /\ cover[r] # None /\ cover[s] # None
     /\ payload[r].qc = payload[s].qc)
    => payload[r].pep # payload[s].pep /\ payload[r].wbs # payload[s].wbs

(* The requests of a coversheet come from whole payloads, never from a     *)
(* mixture of two concurrent ingests: whoever is on the list written last  *)
(* has a request, whoever is not has no active one, and a cancelled        *)
(* reviewer was on the list of one committed ingest and missing on that of *)
(* another.                                                                *)
WritersOf(r) == {t \in Txs : pc[t] = "done" /\ row[t] = r}
OnePayload ==
  \A r \in Txs : cover[r] # None =>
    /\ Team(cover[r]) \subseteq requests[r]
    /\ requests[r] \ cancelled[r] \subseteq Team(cover[r])
    /\ \A c \in cancelled[r] : \E t, u \in WritersOf(r) : c \in Team(t) \ Team(u)

(* Ingests of coversheets wait for each other in a cycle only if one of    *)
(* them lists contacts or disciplines against the order of the others, or  *)
(* a coversheet has two rows: execution record, project and coversheet     *)
(* alone never deadlock.                                                   *)
InOrder ==
  {p \in Payloads :
    \A i, j \in DOMAIN Lists[p] : i < j => Order[Lists[p][i].row] <= Order[Lists[p][j].row]}
DeadlockNeedsDisorder ==
  \A S \in SUBSET Txs :
    Stuck(S) => \/ \E t \in S : pc[t] = "write"
                \/ \E t, u \in S : pc[t] = "list" /\ payload[u] \notin InOrder

(* Ingest takes the whole transaction for one step.  It may: what is       *)
(* committed changes as if every transaction that commits did so at once,  *)
(* on the rows that are there at that moment.                              *)
Atomic == INSTANCE AtomicUpserts WITH stored <- {t \in Txs : pc[t] = "done"}
UpsertsAreAtomic == Atomic!Spec

(* Every transaction commits or fails: a deadlock does not last. *)
EveryUpsertEnds == \A t \in Txs : pc[t] \notin Ends ~> pc[t] \in Ends
=============================================================================
