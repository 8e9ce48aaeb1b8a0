-------------------------- MODULE UpsertStateProofs --------------------------
(* Proofs about UpsertState for any number of transactions and any answers *)
(* of the ERP: rows are locked by one transaction at a time, and what the  *)
(* locks of a transaction protect stays as it saw it.                      *)
EXTENDS UpsertState, SequenceTheorems, WellFoundedInduction, TLAPS

USE NoneFresh

-----------------------------------------------------------------------------
(* The inductive invariant. *)

AfterLookup    == {"cover", "write", "sync", "commit"}
Writing        == {"write", "sync", "commit"}
AfterProject   == {"list"} \cup AfterLookup
AfterExecution == {"project"} \cup AfterProject

Exclusive == \A t, u \in Txs : t # u => held[t] \cap held[u] = {}

(* What a transaction has locked by now... *)
HasLocks ==
  \A t \in Txs :
    /\ pc[t] \in AfterExecution => <<"execution", payload[t].pep>> \in held[t]
    /\ pc[t] \in AfterExecution => payload[t].pep \in Peps /\ payload[t].wbs \in Wbs
    /\ pc[t] \in AfterProject => <<"project", payload[t].wbs>> \in held[t]
    /\ pc[t] \in Writing /\ row[t] # t => <<"coversheet", row[t]>> \in held[t]

(* ... and nothing else: a contact or a discipline comes from its list,    *)
(* before the position that it has reached.                                *)
Passed(t, e) == \E i \in DOMAIN List(t) : i < next[t] /\ e = List(t)[i].row
HoldsOnly ==
  \A t \in Txs : \A e \in held[t] :
    \/ e \in {"execution"} \X Peps /\ pc[t] \in AfterExecution
    \/ e \in {"project"} \X Wbs /\ pc[t] \in AfterProject
    \/ e \in ListRows /\ pc[t] \in AfterProject /\ (pc[t] = "list" => Passed(t, e))
    \/ e \in {"coversheet"} \X Txs /\ pc[t] \in Writing

LockInv == TypeOK /\ Exclusive /\ HasLocks /\ HoldsOnly

(* A row exists once its creator is done, and a transaction writes one of  *)
(* these or its own.                                                       *)
RowOf ==
  /\ \A r \in Txs : cover[r] # None => pc[r] = "done"
  /\ \A t \in Txs :
       pc[t] \in AfterLookup =>
         /\ row[t] \in Txs
         /\ row[t] = t => pc[t] # "cover"
         /\ row[t] # t => cover[row[t]] # None /\ payload[row[t]].qc = payload[t].qc

(* What a transaction that found no coversheet may rely on. *)
NewDiffers ==
  \A t, r \in Txs :
    (/\ pc[t] \in Writing /\ row[t] = t
     /\ cover[r] # None /\ payload[r].qc = payload[t].qc)
    => payload[r].pep # payload[t].pep /\ payload[r].wbs # payload[t].wbs

(* The requests have not changed since the removed reviewers were chosen. *)
CancelOf ==
  \A t \in Txs :
    pc[t] = "commit" => cancel[t] = (requests[row[t]] \ cancelled[row[t]]) \ Team(t)

(* Requests are of coversheets, and of reviewers whom some writer listed. *)
Written ==
  \A r \in Txs :
    /\ cover[r] = None => cancelled[r] = {}
    /\ cover[r] # None => cover[r] \in WritersOf(r)
    /\ \A c \in requests[r] : \E t \in WritersOf(r) : c \in Team(t)

IInv == LockInv /\ RowOf /\ NewDiffers /\ CancelOf /\ Written /\ TwinsDiffer /\ OnePayload

-----------------------------------------------------------------------------
(* What a payload makes the transaction upsert are contacts and disciplines. *)
LEMMA UpsertsType ==
  ASSUME NEW p \in Payloads
  PROVE  /\ DOMAIN Upserts(p) \subseteq Nat \ {0}
         /\ \A i \in DOMAIN Upserts(p) : Upserts(p)[i].row \in ListRows
         /\ Reviewers(p) \subseteq Contacts
<1> DEFINE n == Len(People(p))
           m == Len(p.codes)
<1>1. /\ p.pm \in Persons /\ p.pp \in Persons
      /\ p.reviewers \in Seq(Persons) /\ p.codes \in Seq(Disciplines)
  BY PayloadsType DEF PayloadType
<1>2. \A i \in DOMAIN p.reviewers : p.reviewers[i] \in Persons
  <2> HIDE DEF Persons
  <2> QED
    BY <1>1, ElementOfSeq
<1>3. \A i \in DOMAIN p.codes : p.codes[i] \in Disciplines
  BY <1>1, ElementOfSeq
<1>4. /\ People(p) \in Seq(Persons) /\ n = 2 + Len(p.reviewers)
      /\ People(p)[1] = p.pm /\ People(p)[2] = p.pp
      /\ \A i \in 3..n : People(p)[i] = p.reviewers[i - 2]
  <2> HIDE DEF Persons
  <2>1. <<p.pm, p.pp>> \in Seq(Persons)
    BY <1>1
  <2> QED
    BY <1>1, <2>1, ConcatProperties DEF People
<1>5. n \in Nat /\ m \in Nat /\ 2 <= n
  BY <1>1, <1>4, LenProperties
<1>6. \A x \in Persons : HasEmail(x) => Key(x) \in Contacts
  BY DEF Persons, HasEmail, Key
<1>7. \A x \in Persons : Key(x) # None => Key(x) \in Contacts
  BY DEF Persons, Key
<1>8. Reviewers(p) \subseteq Contacts
  BY <1>2, <1>6 DEF Reviewers, Groups
<1>9. ASSUME NEW i \in 1..n, Counts(p, i) PROVE Key(People(p)[i]) \in Contacts
  <2>1. CASE i <= 2
    <3>1. i = 1 \/ i = 2
      BY <1>5, <2>1
    <3>2. People(p)[i] \in Persons
      BY <1>1, <1>4, <3>1
    <3> QED
      BY <1>7, <1>9, <2>1, <3>2 DEF Counts
  <2>2. CASE ~(i <= 2)
    <3>1. i - 2 \in Groups(p) /\ People(p)[i] = p.reviewers[i - 2]
      BY <1>4, <1>5, <1>9, <2>2 DEF Counts
    <3> QED
      BY <1>2, <1>6, <3>1 DEF Groups
  <2> QED
    BY <2>1, <2>2
<1>10. ASSUME NEW i \in DOMAIN Upserts(p) PROVE Upserts(p)[i].row \in ListRows
  <2>1. i \in 1..(n + m) /\ (i <= n => Counts(p, i))
    BY DEF Upserts
  <2>2. CASE i <= n
    <3>1. i \in 1..n
      BY <1>5, <2>1, <2>2
    <3>2. Upserts(p)[i].row = <<"contact", Key(People(p)[i])>>
      BY <2>1, <2>2 DEF Upserts
    <3> QED
      BY <1>9, <2>1, <2>2, <3>1, <3>2 DEF ListRows
  <2>3. CASE ~(i <= n)
    <3>1. i - n \in 1..m
      BY <1>5, <2>1, <2>3
    <3>2. Upserts(p)[i].row = <<"discipline", p.codes[i - n]>>
      BY <2>1, <2>3 DEF Upserts
    <3> QED
      BY <1>1, <1>3, <3>1, <3>2 DEF ListRows
  <2> QED
    BY <2>2, <2>3
<1>11. DOMAIN Upserts(p) \subseteq Nat \ {0}
  BY <1>5 DEF Upserts
<1> QED
  BY <1>8, <1>10, <1>11

(* The same of the transaction that stores it. *)
LEMMA ListType ==
  ASSUME TypeOK, NEW t \in Txs
  PROVE  /\ DOMAIN List(t) \subseteq Nat \ {0}
         /\ \A i \in DOMAIN List(t) : List(t)[i].row \in ListRows
         /\ Listing(t) => Position(t) \in DOMAIN List(t) /\ next[t] <= Position(t)
                          /\ Entry(t).row \in ListRows
         /\ Team(t) \subseteq Contacts
<1>1. payload[t] \in Payloads
  BY DEF TypeOK
<1>2. List(t) = Upserts(payload[t]) /\ Team(t) = Reviewers(payload[t])
  BY <1>1 DEF List, Lists, Team, Teams
<1>3. Listing(t) => Position(t) \in Coming(t)
  BY DEF Listing, Position
<1> QED
  BY <1>1, <1>2, <1>3, UpsertsType DEF Coming, Entry

(* What the locks that a statement takes are. *)
LEMMA NeedsType ==
  ASSUME TypeOK, NEW t \in Txs
  PROVE  /\ pc[t] = "execution" => Needs(t) = {<<"execution", payload[t].pep>>}
         /\ pc[t] = "project" => Needs(t) = {<<"project", payload[t].wbs>>}
         /\ Listing(t) => Needs(t) = {Entry(t).row} /\ pc[t] = "list"
         /\ pc[t] = "cover" => Needs(t) = {<<"coversheet", row[t]>>}
         /\ pc[t] \in {"sync", "commit"} \cup Ends => Needs(t) = {}
         /\ pc[t] = "list" /\ ~Listing(t) => Needs(t) = {}
BY DEF Needs, Listing, Ends

(* A rollback, for whatever reason. *)
Abort(t) == pc[t] \notin Ends /\ Rollback(t)

(* What a step is: a statement, a rollback, or none. *)
LEMMA Cases ==
  ASSUME TypeOK, [Next]_vars
  PROVE  \/ UNCHANGED vars
         \/ \E t \in Txs :
              \/ UpsertExecution(t) \/ UpsertProject(t) \/ UpsertContact(t)
              \/ UpsertDiscipline(t) \/ SelectCoversheet(t) \/ SelectNothing(t)
              \/ LockCoversheet(t) \/ WriteCoversheet(t) \/ SyncRequests(t)
              \/ Commit(t) \/ Abort(t)
<1>1. ASSUME NEW t \in Txs, Victim(t) PROVE Abort(t)
  BY <1>1, NeedsType DEF Victim, Cycle, Stuck, Waits, Abort
<1>2. ASSUME NEW t \in Txs, Refuse(t) \/ Break(t) PROVE Abort(t)
  BY <1>2 DEF Refuse, Break, Listing, Listed, Ends, Abort
<1> QED
  BY <1>1, <1>2 DEF Next, Step

(* Nothing is locked or written at the start. *)
LEMMA InitInv == Init => IInv
BY DEF Init, IInv, LockInv, TypeOK, Exclusive, HasLocks, HoldsOnly, RowOf, NewDiffers, CancelOf,
       Written, TwinsDiffer, OnePayload, Points, AfterExecution, AfterProject, AfterLookup, Writing

(* Each statement locks rows that there are. *)
LEMMA LocksRows ==
  ASSUME LockInv, RowOf, NEW t \in Txs,
         \/ UpsertExecution(t) \/ UpsertProject(t) \/ UpsertContact(t) \/ UpsertDiscipline(t)
         \/ LockCoversheet(t)
  PROVE  Needs(t) \subseteq Rows
<1> USE DEF LockInv, Rows
<1>1. CASE UpsertExecution(t)
  BY <1>1, NeedsType, PayloadsType DEF UpsertExecution, TypeOK, PayloadType
<1>2. CASE UpsertProject(t)
  <2>1. pc[t] = "project" /\ payload[t].wbs \in Wbs
    BY <1>2 DEF UpsertProject, HasLocks, AfterExecution
  <2> QED
    BY <2>1, NeedsType
<1>3. CASE UpsertContact(t) \/ UpsertDiscipline(t)
  BY <1>3, NeedsType, ListType DEF UpsertContact, UpsertDiscipline
<1>4. CASE LockCoversheet(t)
  BY <1>4, NeedsType DEF LockCoversheet, RowOf, AfterLookup
<1> QED
  BY <1>1, <1>2, <1>3, <1>4

(* Each statement keeps the types. *)
LEMMA StepType == LockInv /\ RowOf /\ [Next]_vars => TypeOK'
<1> SUFFICES ASSUME LockInv, RowOf, [Next]_vars PROVE TypeOK'
  OBVIOUS
<1> USE DEF LockInv, TypeOK, Points, Ends, Goto, Lock, Unlock, tables
<1>1. CASE UNCHANGED vars
  BY <1>1 DEF vars, tables
<1>2. ASSUME NEW t \in Txs,
             \/ UpsertExecution(t) \/ UpsertProject(t) \/ UpsertContact(t)
             \/ UpsertDiscipline(t) \/ LockCoversheet(t)
      PROVE  TypeOK'
  <2>1. Needs(t) \subseteq Rows
    BY <1>2, LocksRows
  <2>2. CASE UpsertExecution(t) \/ UpsertProject(t) \/ LockCoversheet(t)
    BY <2>1, <2>2 DEF UpsertExecution, UpsertProject, LockCoversheet
  <2>3. CASE UpsertContact(t) \/ UpsertDiscipline(t)
    <3>1. Position(t) \in Nat
      BY <2>3, ListType DEF UpsertContact, UpsertDiscipline
    <3> QED
      BY <2>1, <2>3, <3>1 DEF UpsertContact, UpsertDiscipline
  <2> QED
    BY <1>2, <2>2, <2>3
<1>3. ASSUME NEW t \in Txs, SelectCoversheet(t) \/ SelectNothing(t) PROVE TypeOK'
  BY <1>3 DEF SelectCoversheet, SelectNothing, Found
<1>4. ASSUME NEW t \in Txs, WriteCoversheet(t) \/ Abort(t) PROVE TypeOK'
  BY <1>4 DEF WriteCoversheet, Abort, Rollback
<1>5. ASSUME NEW t \in Txs, SyncRequests(t) PROVE TypeOK'
  <2>1. row[t] \in Txs /\ requests[row[t]] \subseteq Contacts
    BY <1>5 DEF SyncRequests, RowOf, AfterLookup
  <2> QED
    BY <1>5, <2>1 DEF SyncRequests
<1>6. ASSUME NEW t \in Txs, Commit(t) PROVE TypeOK'
  <2>1. /\ row[t] \in Txs /\ requests[row[t]] \cup Team(t) \subseteq Contacts
        /\ cancelled[row[t]] \cup cancel[t] \subseteq Contacts
    BY <1>6, ListType DEF Commit, RowOf, AfterLookup
  <2> QED
    BY <1>6, <2>1 DEF Commit
<1> QED
  BY <1>1, <1>2, <1>3, <1>4, <1>5, <1>6, Cases

(* A row is locked by one transaction: it waits for the others first. *)
LEMMA StepExclusive == LockInv /\ [Next]_vars => Exclusive'
<1> SUFFICES ASSUME LockInv, [Next]_vars PROVE Exclusive'
  OBVIOUS
<1> USE DEF LockInv, TypeOK, Exclusive
<1>1. CASE held' = held
  BY <1>1
<1>2. ASSUME NEW t \in Txs, Lock(t) PROVE Exclusive'
  <2>1. \A u \in Txs : u # t => held'[u] = held[u] /\ Needs(t) \cap held[u] = {}
    BY <1>2 DEF Lock, Waits
  <2>2. held'[t] = held[t] \cup Needs(t)
    BY <1>2 DEF Lock
  <2> QED
    BY <2>1, <2>2
<1>3. ASSUME NEW t \in Txs, Unlock(t) PROVE Exclusive'
  BY <1>3 DEF Unlock
<1> QED
  BY <1>1, <1>2, <1>3, Cases
  DEF vars, UpsertExecution, UpsertProject, UpsertContact, UpsertDiscipline, SelectCoversheet,
      SelectNothing, LockCoversheet, WriteCoversheet, SyncRequests, Commit, Abort, Rollback

(* What is locked stays locked until the end. *)
LEMMA StepHasLocks == LockInv /\ RowOf /\ [Next]_vars => HasLocks'
<1> SUFFICES ASSUME LockInv, RowOf, [Next]_vars PROVE HasLocks'
  OBVIOUS
<1> USE DEF LockInv, TypeOK, HasLocks, AfterExecution, AfterProject, AfterLookup, Writing, Goto,
            Lock, Unlock
<1>1. CASE UNCHANGED vars
  BY <1>1 DEF vars, tables
<1>2. ASSUME NEW t \in Txs, UpsertExecution(t) PROVE HasLocks'
  <2>1. payload[t].pep \in Peps /\ payload[t].wbs \in Wbs
    BY <1>2, PayloadsType DEF UpsertExecution, PayloadType
  <2>2. held' = [held EXCEPT ![t] = @ \cup {<<"execution", payload[t].pep>>}]
    BY <1>2, NeedsType DEF UpsertExecution
  <2> QED
    BY <1>2, <2>1, <2>2 DEF UpsertExecution
<1>3. ASSUME NEW t \in Txs, UpsertProject(t) PROVE HasLocks'
  BY <1>3, NeedsType DEF UpsertProject
<1>4. ASSUME NEW t \in Txs, UpsertContact(t) \/ UpsertDiscipline(t) PROVE HasLocks'
  <2>1. UNCHANGED <<pc, payload, row>> /\ \A u \in Txs : held[u] \subseteq held'[u]
    BY <1>4 DEF UpsertContact, UpsertDiscipline
  <2> QED
    BY <2>1
<1>5. ASSUME NEW t \in Txs, SelectCoversheet(t) \/ SelectNothing(t) PROVE HasLocks'
  <2>1. CASE SelectCoversheet(t)
    BY <1>5, <2>1 DEF SelectCoversheet, Listed
  <2>2. CASE SelectNothing(t)
    BY <1>5, <2>2 DEF SelectNothing, Listed
  <2> QED
    BY <1>5, <2>1, <2>2
<1>6. ASSUME NEW t \in Txs, LockCoversheet(t) PROVE HasLocks'
  BY <1>6, NeedsType DEF LockCoversheet
<1>7. ASSUME NEW t \in Txs, WriteCoversheet(t) \/ SyncRequests(t) PROVE HasLocks'
  BY <1>7 DEF WriteCoversheet, SyncRequests
<1>8. ASSUME NEW t \in Txs, Commit(t) \/ Abort(t) PROVE HasLocks'
  BY <1>8 DEF Commit, Abort, Rollback
<1> QED
  BY <1>1, <1>2, <1>3, <1>4, <1>5, <1>6, <1>7, <1>8, Cases

(* A statement locks no other rows than those that it needs. *)
LEMMA StepHoldsOnly == LockInv /\ RowOf /\ [Next]_vars => HoldsOnly'
<1> SUFFICES ASSUME LockInv, RowOf, [Next]_vars PROVE HoldsOnly'
  OBVIOUS
<1> USE DEF LockInv, TypeOK, HoldsOnly, AfterExecution, AfterProject, AfterLookup, Writing, Goto,
            Lock, Unlock
<1>1. CASE UNCHANGED vars
  BY <1>1 DEF vars, tables, Passed, List
<1>2. ASSUME NEW t \in Txs, UpsertExecution(t) PROVE HoldsOnly'
  BY <1>2, NeedsType, PayloadsType DEF UpsertExecution, PayloadType, Passed, List
<1>3. ASSUME NEW t \in Txs, UpsertProject(t) PROVE HoldsOnly'
  <2>1. pc[t] = "project" /\ payload[t].wbs \in Wbs
    BY <1>3 DEF UpsertProject, HasLocks
  <2>2. held' = [held EXCEPT ![t] = @ \cup {<<"project", payload[t].wbs>>}]
    BY <1>3, <2>1, NeedsType DEF UpsertProject
  <2>3. \A e \in held[t] : e \notin ListRows
    BY <1>3, <2>1 DEF ListRows, UpsertProject
  <2> QED
    BY <1>3, <2>1, <2>2, <2>3 DEF UpsertProject, Passed, List
<1>4. ASSUME NEW t \in Txs, UpsertContact(t) \/ UpsertDiscipline(t) PROVE HoldsOnly'
  <2>1. /\ next' = [next EXCEPT ![t] = Position(t) + 1] /\ UNCHANGED <<pc, payload>>
        /\ held' = [held EXCEPT ![t] = @ \cup {Entry(t).row}]
        /\ pc[t] = "list" /\ Entry(t).row \in ListRows
        /\ Position(t) \in DOMAIN List(t) /\ next[t] <= Position(t)
    BY <1>4, NeedsType, ListType DEF UpsertContact, UpsertDiscipline
  <2>2. \A u \in Txs : List(u)' = List(u)
    BY <2>1 DEF List
  <2>3. ASSUME NEW u \in Txs, NEW e \in held[u], pc[u] = "list" => Passed(u, e)
        PROVE  pc[u] = "list" => Passed(u, e)'
    <3>1. \A v \in Txs : \A i \in DOMAIN List(v) : i \in Nat
      BY ListType
    <3> QED
      BY <2>1, <2>2, <2>3, <3>1 DEF Passed
  <2>4. ASSUME NEW e, e = Entry(t).row PROVE Passed(t, e)'
    <3>1. Position(t) \in Nat
      BY <2>1, ListType
    <3> QED
      BY <2>1, <2>2, <2>4, <3>1 DEF Passed, Entry
  <2>5. ASSUME NEW u \in Txs, NEW e \in held'[u]
        PROVE  \/ e \in held[u]
               \/ u = t /\ e = Entry(t).row
    BY <2>1, <2>5
  <2> QED
    BY <2>1, <2>3, <2>4, <2>5
<1>5. ASSUME NEW t \in Txs, SelectCoversheet(t) \/ SelectNothing(t) PROVE HoldsOnly'
  BY <1>5 DEF SelectCoversheet, SelectNothing, Listed, Passed, List
<1>6. ASSUME NEW t \in Txs, LockCoversheet(t) PROVE HoldsOnly'
  BY <1>6, NeedsType DEF LockCoversheet, RowOf, Passed, List
<1>7. ASSUME NEW t \in Txs, WriteCoversheet(t) \/ SyncRequests(t) PROVE HoldsOnly'
  BY <1>7 DEF WriteCoversheet, SyncRequests, Passed, List
<1>8. ASSUME NEW t \in Txs, Commit(t) \/ Abort(t) PROVE HoldsOnly'
  BY <1>8 DEF Commit, Abort, Rollback, Passed, List
<1> QED
  BY <1>1, <1>2, <1>3, <1>4, <1>5, <1>6, <1>7, <1>8, Cases

(* Every step keeps the locks where the statements left them. *)
LEMMA StepLocks == LockInv /\ RowOf /\ [Next]_vars => LockInv'
BY StepType, StepExclusive, StepHasLocks, StepHoldsOnly DEF LockInv

(* A row appears when its creator commits, and does not go away. *)
LEMMA StepRowOf == LockInv /\ RowOf /\ [Next]_vars => RowOf'
<1> SUFFICES ASSUME LockInv, RowOf, [Next]_vars PROVE RowOf'
  OBVIOUS
<1> USE DEF LockInv, TypeOK, RowOf, AfterLookup, Goto, Ends, tables
<1>1. CASE UNCHANGED vars
  BY <1>1 DEF vars, tables
<1>2. ASSUME NEW t \in Txs, UpsertExecution(t) \/ UpsertProject(t) PROVE RowOf'
  BY <1>2 DEF UpsertExecution, UpsertProject
<1>3. ASSUME NEW t \in Txs, UpsertContact(t) \/ UpsertDiscipline(t) PROVE RowOf'
  BY <1>3 DEF UpsertContact, UpsertDiscipline
<1>4. ASSUME NEW t \in Txs, SelectCoversheet(t) PROVE RowOf'
  BY <1>4 DEF SelectCoversheet, Listed, Found
<1>5. ASSUME NEW t \in Txs, SelectNothing(t) PROVE RowOf'
  BY <1>5 DEF SelectNothing, Listed
<1>6. ASSUME NEW t \in Txs, LockCoversheet(t) \/ WriteCoversheet(t) \/ SyncRequests(t)
      PROVE  RowOf'
  BY <1>6 DEF LockCoversheet, WriteCoversheet, SyncRequests
<1>7. ASSUME NEW t \in Txs, Abort(t) PROVE RowOf'
  BY <1>7 DEF Abort, Rollback
<1>8. ASSUME NEW t \in Txs, Commit(t) PROVE RowOf'
  BY <1>8 DEF Commit
<1> QED
  BY <1>1, <1>2, <1>3, <1>4, <1>5, <1>6, <1>7, <1>8, Cases

(* What no commit does: the coversheets stay as they are. *)
LEMMA NoCommit ==
  ASSUME NEW t \in Txs,
         \/ UpsertExecution(t) \/ UpsertProject(t) \/ UpsertContact(t)
         \/ UpsertDiscipline(t) \/ SelectCoversheet(t) \/ SelectNothing(t)
         \/ LockCoversheet(t) \/ WriteCoversheet(t) \/ SyncRequests(t) \/ Abort(t)
  PROVE  UNCHANGED <<payload, tables>>
BY DEF UpsertExecution, UpsertProject, UpsertContact, UpsertDiscipline, SelectCoversheet,
       SelectNothing, LockCoversheet, WriteCoversheet, SyncRequests, Abort, Rollback

(* Nor does it make another transaction done. *)
LEMMA NobodyDone ==
  ASSUME TypeOK, NEW t \in Txs,
         \/ UpsertExecution(t) \/ UpsertProject(t) \/ UpsertContact(t)
         \/ UpsertDiscipline(t) \/ SelectCoversheet(t) \/ SelectNothing(t)
         \/ LockCoversheet(t) \/ WriteCoversheet(t) \/ SyncRequests(t) \/ Abort(t)
  PROVE  /\ {u \in Txs : pc'[u] = "done"} = {u \in Txs : pc[u] = "done"}
         /\ \A r \in Txs : WritersOf(r)' = WritersOf(r)
BY DEF UpsertExecution, UpsertProject, UpsertContact, UpsertDiscipline, SelectCoversheet,
       SelectNothing, LockCoversheet, WriteCoversheet, SyncRequests, Abort, Rollback,
       TypeOK, Goto, Listing, Listed, Ends, WritersOf

(* A commit adds to the writers of its coversheet. *)
LEMMA CommitWrites ==
  ASSUME TypeOK, NEW t \in Txs, Commit(t)
  PROVE  /\ t \in WritersOf(row[t])'
         /\ \A r \in Txs : WritersOf(r) \subseteq WritersOf(r)'
BY DEF Commit, WritersOf, TypeOK, Goto

(* A transaction that found no coversheet holds its execution record and   *)
(* its project: another that commits a coversheet meanwhile has others.    *)
LEMMA StepNewDiffers == IInv /\ [Next]_vars => NewDiffers'
<1> SUFFICES ASSUME IInv, [Next]_vars PROVE NewDiffers'
  OBVIOUS
<1> USE DEF IInv, LockInv, TypeOK, NewDiffers, Writing, Goto, tables
<1>1. CASE UNCHANGED vars
  BY <1>1 DEF vars, tables
<1>2. ASSUME NEW t \in Txs, UpsertExecution(t) \/ UpsertProject(t) PROVE NewDiffers'
  BY <1>2 DEF UpsertExecution, UpsertProject
<1>3. ASSUME NEW t \in Txs, UpsertContact(t) \/ UpsertDiscipline(t) PROVE NewDiffers'
  BY <1>3 DEF UpsertContact, UpsertDiscipline
<1>4. ASSUME NEW t \in Txs, SelectCoversheet(t) PROVE NewDiffers'
  BY <1>4 DEF SelectCoversheet
<1>5. ASSUME NEW t \in Txs, SelectNothing(t) PROVE NewDiffers'
  BY <1>5 DEF SelectNothing, Found
<1>6. ASSUME NEW t \in Txs, LockCoversheet(t) PROVE NewDiffers'
  BY <1>6 DEF LockCoversheet, RowOf, AfterLookup
<1>7. ASSUME NEW t \in Txs, WriteCoversheet(t) \/ SyncRequests(t) \/ Abort(t) PROVE NewDiffers'
  BY <1>7 DEF WriteCoversheet, SyncRequests, Abort, Rollback, Ends
<1>8. ASSUME NEW u \in Txs, Commit(u) PROVE NewDiffers'
  <2>1. SUFFICES ASSUME NEW t \in Txs, NEW r \in Txs, pc[t] \in Writing, row[t] = t, t # u,
                        cover'[r] # None, payload[r].qc = payload[t].qc
                 PROVE  payload[r].pep # payload[t].pep /\ payload[r].wbs # payload[t].wbs
    BY <1>8 DEF Commit
  <2>2. CASE r # row[u] \/ row[u] # u
    BY <1>8, <2>1, <2>2 DEF Commit, RowOf, AfterLookup
  <2>3. CASE r = u
    <3>1. /\ <<"execution", payload[u].pep>> \in held[u]
          /\ <<"project", payload[u].wbs>> \in held[u]
      BY <1>8 DEF Commit, HasLocks, AfterExecution, AfterProject, AfterLookup
    <3>2. /\ <<"execution", payload[t].pep>> \in held[t]
          /\ <<"project", payload[t].wbs>> \in held[t]
      BY <2>1 DEF HasLocks, AfterExecution, AfterProject, AfterLookup
    <3>3. held[t] \cap held[u] = {}
      BY <2>1 DEF Exclusive
    <3> QED
      BY <2>3, <3>1, <3>2, <3>3
  <2> QED
    BY <2>2, <2>3
<1> QED
  BY <1>1, <1>2, <1>3, <1>4, <1>5, <1>6, <1>7, <1>8, Cases

(* A new coversheet differs from those it would be the twin of. *)
LEMMA StepTwins == IInv /\ [Next]_vars => TwinsDiffer'
<1> SUFFICES ASSUME IInv, [Next]_vars PROVE TwinsDiffer'
  OBVIOUS
<1> USE DEF IInv, LockInv, TypeOK, TwinsDiffer
<1>1. CASE UNCHANGED <<payload, cover>>
  BY <1>1
<1>2. ASSUME NEW t \in Txs, Commit(t) PROVE TwinsDiffer'
  <2>1. \A r \in Txs : cover'[r] # None => cover[r] # None \/ r = row[t]
    BY <1>2 DEF Commit
  <2>2. CASE row[t] # t
    BY <1>2, <2>1, <2>2 DEF Commit, RowOf, AfterLookup
  <2>3. CASE row[t] = t
    BY <1>2, <2>1, <2>3 DEF Commit, NewDiffers, Writing
  <2> QED
    BY <2>2, <2>3
<1> QED
  BY <1>1, <1>2, NoCommit, Cases DEF vars, tables

(* Only the transaction that holds a coversheet changes its requests. *)
LEMMA OneWriter ==
  ASSUME IInv, NEW t \in Txs, NEW u \in Txs, t # u, pc[t] = "commit", pc[u] = "commit"
  PROVE  row[t] # row[u]
<1>1. CASE row[t] # t /\ row[u] # u
  BY <1>1 DEF IInv, LockInv, HasLocks, Exclusive, Writing
<1>2. CASE row[t] = t \/ row[u] = u
  BY <1>2 DEF IInv, RowOf, AfterLookup
<1> QED
  BY <1>1, <1>2

(* The removed reviewers are chosen from the requests that are there. *)
LEMMA StepCancelOf == IInv /\ [Next]_vars => CancelOf'
<1> SUFFICES ASSUME IInv, [Next]_vars PROVE CancelOf'
  OBVIOUS
<1> USE DEF IInv, LockInv, TypeOK, CancelOf, Goto, Team, tables
<1>1. CASE UNCHANGED vars
  BY <1>1 DEF vars, tables
<1>2. ASSUME NEW t \in Txs, UpsertExecution(t) \/ UpsertProject(t) PROVE CancelOf'
  BY <1>2 DEF UpsertExecution, UpsertProject
<1>3. ASSUME NEW t \in Txs, UpsertContact(t) \/ UpsertDiscipline(t) PROVE CancelOf'
  BY <1>3 DEF UpsertContact, UpsertDiscipline, Listing
<1>4. ASSUME NEW t \in Txs, SelectCoversheet(t) \/ SelectNothing(t) PROVE CancelOf'
  BY <1>4 DEF SelectCoversheet, SelectNothing
<1>5. ASSUME NEW t \in Txs, LockCoversheet(t) \/ WriteCoversheet(t) \/ Abort(t) PROVE CancelOf'
  BY <1>5 DEF LockCoversheet, WriteCoversheet, Abort, Rollback
<1>6. ASSUME NEW t \in Txs, SyncRequests(t) PROVE CancelOf'
  BY <1>6 DEF SyncRequests
<1>7. ASSUME NEW u \in Txs, Commit(u) PROVE CancelOf'
  <2>1. ASSUME NEW t \in Txs, t # u, pc[t] = "commit"
        PROVE  /\ requests'[row[t]] = requests[row[t]]
               /\ cancelled'[row[t]] = cancelled[row[t]]
    BY <1>7, <2>1, OneWriter DEF Commit
  <2> QED
    BY <1>7, <2>1 DEF Commit
<1> QED
  BY <1>1, <1>2, <1>3, <1>4, <1>5, <1>6, <1>7, Cases

(* Who is given a request is on the list of the one that gives it. *)
LEMMA StepWritten == IInv /\ [Next]_vars => Written'
<1> SUFFICES ASSUME IInv, [Next]_vars PROVE Written'
  OBVIOUS
<1> USE DEF IInv, LockInv, Written, Team
<1>1. CASE UNCHANGED vars
  BY <1>1 DEF vars, tables, WritersOf
<1>2. ASSUME UNCHANGED <<payload, tables>>,
             \A r \in Txs : WritersOf(r)' = WritersOf(r)
      PROVE  Written'
  BY <1>2 DEF tables
<1>3. ASSUME NEW t \in Txs, Commit(t) PROVE Written'
  <2>1. /\ row[t] \in Txs /\ row' = row /\ payload' = payload
        /\ cover' = [cover EXCEPT ![row[t]] = t]
        /\ requests' = [requests EXCEPT ![row[t]] = @ \cup Team(t)]
        /\ cancelled' = [cancelled EXCEPT ![row[t]] = @ \cup cancel[t]]
    BY <1>3 DEF Commit, RowOf, AfterLookup
  <2>2. /\ t \in WritersOf(row[t])'
        /\ \A r \in Txs : WritersOf(r) \subseteq WritersOf(r)'
    BY <1>3, CommitWrites
  <2> QED
    BY <2>1, <2>2 DEF TypeOK
<1> QED
  BY <1>1, <1>2, <1>3, NoCommit, NobodyDone, Cases

(* A commit leaves the requests of its own payload. *)
LEMMA StepOnePayload == IInv /\ [Next]_vars => OnePayload'
<1> SUFFICES ASSUME IInv, [Next]_vars PROVE OnePayload'
  OBVIOUS
<1> USE DEF IInv, LockInv, OnePayload, Team
<1>1. CASE UNCHANGED vars
  BY <1>1 DEF vars, tables, WritersOf
<1>2. ASSUME UNCHANGED <<payload, tables>>,
             \A r \in Txs : WritersOf(r)' = WritersOf(r)
      PROVE  OnePayload'
  BY <1>2 DEF tables
<1>3. ASSUME NEW t \in Txs, Commit(t) PROVE OnePayload'
  <2>1. /\ row[t] \in Txs /\ row' = row /\ payload' = payload
        /\ cover' = [cover EXCEPT ![row[t]] = t]
        /\ requests' = [requests EXCEPT ![row[t]] = @ \cup Team(t)]
        /\ cancelled' = [cancelled EXCEPT ![row[t]] =
                            @ \cup ((requests[row[t]] \ cancelled[row[t]]) \ Team(t))]
    BY <1>3 DEF Commit, RowOf, AfterLookup, CancelOf
  <2>2. /\ t \in WritersOf(row[t])'
        /\ \A r \in Txs : WritersOf(r) \subseteq WritersOf(r)'
    BY <1>3, CommitWrites
  <2>3. ASSUME NEW r \in Txs, r # row[t], cover'[r] # None
        PROVE  /\ cover'[r] = cover[r] /\ requests'[r] = requests[r]
               /\ cancelled'[r] = cancelled[r]
    BY <2>1, <2>3 DEF TypeOK
  <2>4. /\ cover'[row[t]] = t
        /\ requests'[row[t]] = requests[row[t]] \cup Team(t)
        /\ cancelled'[row[t]] = cancelled[row[t]]
                                \cup ((requests[row[t]] \ cancelled[row[t]]) \ Team(t))
    BY <2>1 DEF TypeOK
  <2>5. ASSUME NEW c \in cancelled'[row[t]]
        PROVE  \E v, u \in WritersOf(row[t])' : c \in Team(v) \ Team(u)
    <3>1. CASE c \in cancelled[row[t]]
      <4>1. \E v, u \in WritersOf(row[t]) : c \in Team(v) \ Team(u)
        BY <2>1, <3>1 DEF Written
      <4> QED
        BY <2>1, <2>2, <4>1
    <3>2. CASE c \in requests[row[t]] \ Team(t)
      <4>1. \E v \in WritersOf(row[t]) : c \in Team(v)
        BY <2>1, <3>2 DEF Written
      <4> QED
        BY <2>1, <2>2, <3>2, <4>1
    <3> QED
      BY <2>4, <2>5, <3>1, <3>2
  <2>6. SUFFICES ASSUME NEW r \in Txs, cover'[r] # None
                 PROVE  /\ Teams[payload[cover'[r]]] \subseteq requests'[r]
                        /\ requests'[r] \ cancelled'[r] \subseteq Teams[payload[cover'[r]]]
                        /\ \A c \in cancelled'[r] :
                             \E v, u \in WritersOf(r)' : c \in Team(v) \ Team(u)
    BY <2>1
  <2>7. CASE r # row[t]
    BY <2>2, <2>3, <2>6, <2>7
  <2>8. CASE r = row[t]
    BY <2>1, <2>4, <2>5, <2>6, <2>8
  <2> QED
    BY <2>7, <2>8
<1> QED
  BY <1>1, <1>2, <1>3, NoCommit, NobodyDone, Cases

(* The invariant holds of every behaviour. *)
THEOREM Invariant == Spec => []IInv
<1>1. IInv /\ [Next]_vars => IInv'
  BY StepLocks, StepRowOf, StepNewDiffers, StepTwins, StepCancelOf, StepWritten,
     StepOnePayload DEF IInv
<1> QED
  BY <1>1, InitInv, PTL DEF Spec

(* The state stays within its types. *)
THEOREM TypeCorrect == Spec => []TypeOK
BY Invariant, PTL DEF IInv, LockInv

(* Two rows of one qcUdicID have nothing else in common. *)
THEOREM TwinsAlwaysDiffer == Spec => []TwinsDiffer
BY Invariant, PTL DEF IInv

(* The requests of a coversheet come from one payload. *)
THEOREM RequestsOfOnePayload == Spec => []OnePayload
BY Invariant, PTL DEF IInv

-----------------------------------------------------------------------------
(* No cycle without disorder: a transaction waits only for one that is     *)
(* further on, and within the lists for one that has a later row to lock.  *)

(* The order is bounded, so that of a set of rows one is the last. *)
LEMMA LastRow ==
  ASSUME NEW R, R \subseteq ListRows, R # {}
  PROVE  \E r \in R : \A s \in R : Order[s] <= Order[r]
<1>1. PICK m \in ListRows : \A s \in ListRows : Order[s] <= Order[m]
  BY OrderType
<1> DEFINE T == {Order[m] - Order[r] : r \in R}
           Less == OpToRel(<, Nat)
<1>2. T \subseteq Nat /\ T # {}
  BY <1>1, OrderType
<1>3. IsWellFoundedOn(Less, Nat)
  BY NatLessThanWellFounded
<1>4. \A i, j \in Nat : i < j => <<i, j>> \in Less
  BY DEF OpToRel
<1> HIDE DEF T, Less
<1>5. PICK x \in T : \A y \in T : ~ (<<y, x>> \in Less)
  BY <1>2, <1>3, WFMin
<1>6. ASSUME NEW y \in T PROVE x <= y
  <2>1. x \in Nat /\ y \in Nat
    BY <1>2
  <2>2. ~ (y < x)
    BY <2>1, <1>4, <1>5
  <2> QED
    BY <2>1, <2>2
<1>7. PICK r \in R : x = Order[m] - Order[r]
  BY DEF T
<1>8. ASSUME NEW s \in R PROVE Order[s] <= Order[r]
  <2>1. x <= Order[m] - Order[s]
    BY <1>6 DEF T
  <2>2. Order[m] \in Nat /\ Order[r] \in Nat /\ Order[s] \in Nat
    BY OrderType
  <2> QED
    BY <1>7, <2>1, <2>2
<1> QED
  BY <1>8

(* Who waits within the lists of payloads in order waits for a transaction *)
(* at a later row, or for one that is past its lists.                      *)
LEMMA WaitsForLater ==
  ASSUME LockInv, NEW t \in Txs, NEW u \in Txs, NEW v \in Txs,
         Listing(t), Waits(t, u), Waits(u, v), payload[u] \in InOrder
  PROVE  \/ pc[u] \in {"cover", "write"}
         \/ Listing(u) /\ Order[Entry(t).row] < Order[Entry(u).row]
<1> USE DEF LockInv
<1>1. Needs(t) = {Entry(t).row} /\ Entry(t).row \in ListRows /\ Entry(t).row \in held[u]
  BY NeedsType, ListType DEF Waits
<1>2. SUFFICES ASSUME Listing(u)
               PROVE  Order[Entry(t).row] < Order[Entry(u).row]
  <2>1. pc[u] \in AfterProject
    BY <1>1 DEF HoldsOnly, ListRows
  <2>2. pc[u] \notin {"sync", "commit"} /\ (pc[u] = "list" => Listing(u))
    BY NeedsType DEF Waits
  <2> QED
    BY <1>2, <2>1, <2>2 DEF AfterProject, AfterLookup
<1>3. PICK i \in DOMAIN List(u) : i < next[u] /\ Entry(t).row = List(u)[i].row
  BY <1>1, <1>2 DEF HoldsOnly, ListRows, Passed, Listing
<1>4. Position(u) \in DOMAIN List(u) /\ i < Position(u) /\ Entry(u).row \in ListRows
  <2>1. i \in Nat /\ next[u] \in Nat
    BY ListType DEF TypeOK
  <2> QED
    BY <1>2, <1>3, <2>1, ListType
<1>5. Order[Entry(t).row] <= Order[Entry(u).row]
  BY <1>3, <1>4 DEF InOrder, List, Entry
<1>6. Entry(u).row \in held[v] /\ u # v
  BY <1>2, NeedsType DEF Waits
<1>7. Entry(t).row # Entry(u).row
  BY <1>1, <1>6 DEF Exclusive
<1> QED
  BY <1>1, <1>4, <1>5, <1>7, OrderType

(* Nobody in a cycle waits within the lists if all the lists are in order. *)
LEMMA NobodyListing ==
  ASSUME LockInv, NEW S \in SUBSET Txs, Stuck(S),
         \A t \in S : pc[t] \notin {"cover", "write"},
         \A u \in S : payload[u] \in InOrder
  PROVE  \A t \in S : ~Listing(t)
<1> SUFFICES ASSUME \E t \in S : Listing(t) PROVE FALSE
  OBVIOUS
<1> DEFINE R == {Entry(t).row : t \in {u \in S : Listing(u)}}
<1>1. R \subseteq ListRows /\ R # {}
  BY ListType DEF LockInv
<1>2. PICK r \in R : \A s \in R : Order[s] <= Order[r]
  BY <1>1, LastRow
<1>3. PICK t \in S : Listing(t) /\ r = Entry(t).row
  OBVIOUS
<1>4. PICK u \in S : Waits(t, u)
  BY DEF Stuck
<1>5. PICK v \in S : Waits(u, v)
  BY DEF Stuck
<1>6. Listing(u) /\ Order[Entry(t).row] < Order[Entry(u).row]
  BY <1>3, <1>4, <1>5, WaitsForLater
<1>7. Entry(u).row \in R
  BY <1>6
<1>8. Order[Entry(u).row] <= Order[Entry(t).row]
  BY <1>2, <1>3, <1>7
<1>9. Order[Entry(u).row] \in Nat /\ Order[Entry(t).row] \in Nat
  BY <1>1, <1>3, <1>7, OrderType
<1> QED
  BY <1>6, <1>8, <1>9

(* Nobody in a cycle waits for a coversheet that it looked up, unless      *)
(* somebody is about to write to a key that is taken.                      *)
LEMMA NobodyAtCover ==
  ASSUME LockInv, NEW S \in SUBSET Txs, Stuck(S), \A t \in S : pc[t] # "write"
  PROVE  \A t \in S : pc[t] # "cover"
<1> USE DEF LockInv
<1> SUFFICES ASSUME NEW t \in S, pc[t] = "cover" PROVE FALSE
  OBVIOUS
<1>1. PICK u \in S : <<"coversheet", row[t]>> \in held[u]
  BY NeedsType DEF Stuck, Waits
<1>2. pc[u] \in Writing
  BY <1>1 DEF HoldsOnly, ListRows
<1>3. Needs(u) # {}
  BY DEF Stuck, Waits
<1> QED
  BY <1>2, <1>3, NeedsType DEF Writing

(* What DeadlockNeedsDisorder says follows from what the locks are. *)
LEMMA NoDisorderNoDeadlock == LockInv => DeadlockNeedsDisorder
<1> USE DEF LockInv
<1> SUFFICES ASSUME LockInv, NEW S \in SUBSET Txs, Stuck(S),
                    \A t \in S : pc[t] # "write",
                    ~ \E t, u \in S : pc[t] = "list" /\ payload[u] \notin InOrder
             PROVE  FALSE
  BY DEF DeadlockNeedsDisorder
<1>1. \A t \in S : pc[t] # "cover"
  BY NobodyAtCover
<1>2. \A t \in S : Needs(t) # {}
  BY DEF Stuck, Waits
<1>3. \A t \in S : pc[t] # "list"
  <2>1. CASE \E t \in S : pc[t] = "list"
    <3>1. \A t \in S : ~Listing(t)
      BY <1>1, <2>1, NobodyListing
    <3> QED
      BY <1>2, <3>1, NeedsType
  <2> QED
    BY <2>1
<1>4. \A t \in S : pc[t] \in {"execution", "project"}
  BY <1>1, <1>2, <1>3, NeedsType DEF TypeOK, Points, Ends
<1>5. \A t \in S : pc[t] # "project"
  <2> SUFFICES ASSUME NEW t \in S, pc[t] = "project" PROVE FALSE
    OBVIOUS
  <2>1. PICK u \in S : <<"project", payload[t].wbs>> \in held[u]
    BY NeedsType DEF Stuck, Waits
  <2>2. pc[u] \in AfterProject
    BY <2>1 DEF HoldsOnly, ListRows
  <2> QED
    BY <1>4, <2>2 DEF AfterProject, AfterLookup
<1>6. PICK t \in S : pc[t] = "execution"
  BY <1>4, <1>5 DEF Stuck
<1>7. PICK u \in S : <<"execution", payload[t].pep>> \in held[u]
  BY <1>6, NeedsType DEF Stuck, Waits
<1>8. pc[u] \in AfterExecution
  BY <1>7 DEF HoldsOnly, ListRows
<1> QED
  BY <1>4, <1>5, <1>8 DEF AfterExecution, AfterProject, AfterLookup

(* A deadlock takes lists in different orders, or a coversheet with a twin *)
(* in the way.                                                             *)
THEOREM DeadlockTakesDisorder == Spec => []DeadlockNeedsDisorder
BY Invariant, NoDisorderNoDeadlock, PTL DEF IInv

-----------------------------------------------------------------------------
(* The transaction as one step: what it checked before it committed still  *)
(* holds when it commits.                                                  *)

(* Nobody takes the key of a coversheet that is written: its execution     *)
(* record is locked.                                                       *)
KeyFree == \A t \in Txs : pc[t] \in {"sync", "commit"} => Clashes(t) = {}

(* The record stays locked until the commit. *)
LEMMA StepKeyFree == IInv /\ KeyFree /\ [Next]_vars => KeyFree'
<1> SUFFICES ASSUME IInv, KeyFree, [Next]_vars PROVE KeyFree'
  OBVIOUS
<1> USE DEF IInv, LockInv, TypeOK, KeyFree, Clashes, Found, Goto, tables
<1>1. CASE UNCHANGED vars
  BY <1>1 DEF vars, tables
<1>2. ASSUME NEW t \in Txs, UpsertExecution(t) \/ UpsertProject(t) PROVE KeyFree'
  BY <1>2 DEF UpsertExecution, UpsertProject
<1>3. ASSUME NEW t \in Txs, UpsertContact(t) \/ UpsertDiscipline(t) PROVE KeyFree'
  BY <1>3 DEF UpsertContact, UpsertDiscipline
<1>4. ASSUME NEW t \in Txs, SelectCoversheet(t) \/ SelectNothing(t) PROVE KeyFree'
  BY <1>4 DEF SelectCoversheet, SelectNothing
<1>5. ASSUME NEW t \in Txs, LockCoversheet(t) \/ Abort(t) PROVE KeyFree'
  BY <1>5 DEF LockCoversheet, Abort, Rollback
<1>6. ASSUME NEW t \in Txs, WriteCoversheet(t) \/ SyncRequests(t) PROVE KeyFree'
  BY <1>6 DEF WriteCoversheet, SyncRequests
<1>7. ASSUME NEW u \in Txs, Commit(u) PROVE KeyFree'
  <2>1. SUFFICES ASSUME NEW t \in Txs, t # u, pc[t] \in {"sync", "commit"}, NEW r \in Txs,
                        r # row[t], cover'[r] # None, payload[r].qc = payload[t].qc
                 PROVE  payload[cover'[r]].pep # payload[t].pep
    BY <1>7 DEF Commit
  <2>2. CASE r # row[u]
    BY <1>7, <2>1, <2>2 DEF Commit
  <2>3. CASE r = row[u]
    <3>1. /\ <<"execution", payload[u].pep>> \in held[u]
          /\ <<"execution", payload[t].pep>> \in held[t]
      BY <1>7, <2>1 DEF Commit, HasLocks, AfterExecution, AfterProject, AfterLookup
    <3>2. held[t] \cap held[u] = {}
      BY <2>1 DEF Exclusive
    <3>3. cover'[r] = u
      BY <1>7, <2>3 DEF Commit
    <3> QED
      BY <3>1, <3>2, <3>3
  <2> QED
    BY <2>2, <2>3
<1> QED
  BY <1>1, <1>2, <1>3, <1>4, <1>5, <1>6, <1>7, Cases

(* A commit does the whole upsert, on a row that it may write. *)
LEMMA CommitUpserts ==
  ASSUME IInv, KeyFree, NEW t \in Txs, Commit(t)
  PROVE  Atomic!Upsert(t, row[t])
<1> USE DEF IInv, LockInv, TypeOK, Commit, Goto
<1>1. row[t] \in Txs /\ cancel[t] = (requests[row[t]] \ cancelled[row[t]]) \ Team(t)
  BY DEF CancelOf, RowOf, AfterLookup
<1>2. /\ requests' = [requests EXCEPT ![row[t]] = @ \cup Teams[payload[t]]]
      /\ cancelled' = [cancelled EXCEPT ![row[t]] =
                          @ \cup (requests[row[t]] \ Teams[payload[t]])]
  <2>1. cancelled[row[t]] \cup cancel[t]
          = cancelled[row[t]] \cup (requests[row[t]] \ Team(t))
    BY <1>1
  <2> QED
    BY <1>1, <2>1 DEF Team
<1>3. Atomic!Rows(t) = Found(t)
  BY DEF Atomic!Rows, Found
<1>4. row[t] \in Found(t) \/ (row[t] = t /\ \A s \in Found(t) : /\ payload[s].pep # payload[t].pep
                                                               /\ payload[s].wbs # payload[t].wbs)
  BY DEF RowOf, AfterLookup, NewDiffers, Writing, Found
<1>5. \A s \in Found(t) \ {row[t]} : payload[cover[s]].pep # payload[t].pep
  BY DEF KeyFree, Clashes
<1>6. Atomic!MayWrite(t, row[t])
  BY <1>3, <1>4, <1>5 DEF Atomic!MayWrite
<1>7. {u \in Txs : pc'[u] = "done"} = {u \in Txs : pc[u] = "done"} \cup {t}
  OBVIOUS
<1>8. t \notin {u \in Txs : pc[u] = "done"}
  OBVIOUS
<1> QED
  BY <1>2, <1>6, <1>7, <1>8 DEF Atomic!Upsert

(* Every other step leaves what is committed as it was. *)
LEMMA OthersStutter ==
  ASSUME TypeOK, NEW t \in Txs,
         \/ UpsertExecution(t) \/ UpsertProject(t) \/ UpsertContact(t)
         \/ UpsertDiscipline(t) \/ SelectCoversheet(t) \/ SelectNothing(t)
         \/ LockCoversheet(t) \/ WriteCoversheet(t) \/ SyncRequests(t) \/ Abort(t)
  PROVE  UNCHANGED Atomic!vars
BY NoCommit, NobodyDone DEF Atomic!vars, tables

(* The transactions of the ingest service implement the atomic upserts.    *)
THEOREM Refinement == Spec => UpsertsAreAtomic
<1>1. Init => KeyFree
  BY DEF Init, KeyFree
<1>2. Init => Atomic!Init
  BY DEF Init, Atomic!Init
<1>3. IInv /\ KeyFree /\ [Next]_vars => [Atomic!Next]_(Atomic!vars)
  <2> SUFFICES ASSUME IInv, KeyFree, [Next]_vars PROVE [Atomic!Next]_(Atomic!vars)
    OBVIOUS
  <2>1. CASE UNCHANGED vars
    BY <2>1 DEF vars, tables, Atomic!vars
  <2>2. ASSUME NEW t \in Txs, Commit(t) PROVE Atomic!Next
    <3>1. row[t] \in Txs
      BY <2>2 DEF Commit, IInv, RowOf, AfterLookup
    <3>2. Atomic!Upsert(t, row[t])
      BY <2>2, CommitUpserts
    <3> QED
      BY <3>1, <3>2 DEF Atomic!Next, Atomic!Upsert
  <2> QED
    BY <2>1, <2>2, OthersStutter, Cases DEF IInv, LockInv
<1> QED
  BY <1>1, <1>2, <1>3, StepKeyFree, Invariant, PTL DEF Spec, UpsertsAreAtomic, Atomic!Spec
=============================================================================
