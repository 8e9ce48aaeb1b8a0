-------------------------- MODULE UserAccessProofs ---------------------------
(* Proofs about UserAccess for any number of requests, users and roles:    *)
(* who holds the row of a user decides on his roles, and who waits for     *)
(* whom.                                                                   *)
EXTENDS UserAccess, WellFoundedInduction, TLAPS

USE RolesType, NobodyFresh, JobsType, StartType

-----------------------------------------------------------------------------
(* The inductive invariant. *)

(* Which transaction has which statements. *)
Shape ==
  \A r \in Reqs :
    /\ pc[r] \in {"permissions", "target", "delete"} => tx[r] = "put"
    /\ pc[r] = "base" => tx[r] \in {"put", "bootstrap"}
    /\ pc[r] = "names" => tx[r] \in {"put", "sync"}
    /\ pc[r] = "grant" => turn[r] \in todo[r]
    /\ tx[r] = "put" => job[r].kind = "put"

(* The row of a user is locked by the transaction that changes it. *)
InTx == {"delete", "names", "grant", "commit"}
OwnerOf ==
  /\ \A r \in Reqs : pc[r] \in InTx /\ tx[r] # "sync" => owner[Target(r)] = r
  /\ \A u \in Users, r \in Reqs :
       owner[u] = r => u = Target(r) /\ pc[r] \in InTx /\ (tx[r] = "sync" => pc[r] = "commit")

(* Roles are deleted by a change of roles, and inserted by transactions    *)
(* that hold the row, or by a role sync. *)
KeysOf ==
  \A r \in Reqs :
    /\ removed[r] # {} => tx[r] = "put" /\ pc[r] \in {"names", "grant", "commit"}
    /\ added[r] # {} => pc[r] \in {"grant", "commit"} \/ (tx[r] = "sync" /\ pc[r] = "row")

(* What a change of roles has done so far. *)
PutSoFar ==
  \A r \in Reqs :
    tx[r] = "put" /\ pc[r] \in {"names", "grant", "commit"} =>
      /\ account[Target(r)].roles \ removed[r] \subseteq ensured[Target(r)]
      /\ added[r] \subseteq job[r].names
      /\ pc[r] = "grant" => /\ job[r].names \subseteq Visible(r) \cup todo[r]
                            /\ todo[r] \subseteq job[r].names
      /\ pc[r] = "commit" => job[r].names \subseteq Visible(r)

(* What was read of the caller is so until a change of roles commits. *)
CallerIsAdmin ==
  \A r \in Reqs :
    Checked(r) => /\ stale[r] \/ "admin" \in Caller(r).roles
                  /\ job[r].by = Target(r) => "admin" \in job[r].names

(* A role sync inserts the smaller names first. *)
SyncOrder ==
  \A r \in Reqs :
    tx[r] = "sync" /\ pc[r] = "grant" =>
      /\ \A n \in todo[r] : Rank[turn[r]] <= Rank[n]
      /\ \A m \in added[r], n \in todo[r] : Rank[m] < Rank[n]

IInv == /\ TypeOK /\ Shape /\ OwnerOf /\ KeysOf /\ PutSoFar /\ CallerIsAdmin /\ SyncOrder
        /\ RolesOfLastChange /\ AdminRemains

-----------------------------------------------------------------------------
(* A rollback, for whatever reason. *)
Abort(r) == pc[r] \notin Ends /\ \E p \in {"refused", "failed"} : Rollback(r, p)

(* What a step is: a statement, a rollback, or none. *)
LEMMA Cases ==
  ASSUME TypeOK, Shape, [Next]_vars
  PROVE  \/ UNCHANGED vars
         \/ \E r \in Reqs :
              \/ ReadBase(r) \/ ReadPermissions(r) \/ ReadTarget(r) \/ Upsert(r) \/ Update(r)
              \/ Approve(r) \/ Delete(r) \/ SelectRoles(r) \/ Ensure(r) \/ Commit(r) \/ Abort(r)
<1>1. ASSUME NEW r \in Reqs, Victim(r) PROVE Abort(r)
  BY <1>1 DEF Victim, Cycle, Stuck, Waits, Abort, Ends
<1>2. ASSUME NEW r \in Reqs, Refuse(r) \/ Break(r) PROVE Abort(r)
  BY <1>2 DEF Refuse, Break, Ends, Abort
<1> QED
  BY <1>1, <1>2 DEF Next, Step

(* What a job consists of. *)
LEMMA JobType ==
  ASSUME TypeOK, NEW r \in Reqs
  PROVE  /\ job[r] \in Job /\ job[r].kind \in {"login", "put", "bootstrap"}
         /\ job[r].by \in Users /\ Target(r) \in Users /\ job[r].names \subseteq Names
         /\ Found(r) \subseteq AppRoles /\ job[r].active \in Flags /\ job[r].approved \in Flags
         /\ account[Target(r)] \in Account
BY DEF TypeOK, Job, Target, Found

(* Each account has its fields. *)
LEMMA AccountType ==
  ASSUME TypeOK, NEW u \in Users
  PROVE  /\ account[u] \in Account /\ account[u].roles \subseteq AppRoles
         /\ account[u].known \in BOOLEAN /\ account[u].active \in BOOLEAN
         /\ account[u].approved \in BOOLEAN
BY DEF TypeOK, Account

(* Nothing is locked and nothing has been read at the start. *)
LEMMA InitInv == Init => IInv
<1> SUFFICES ASSUME Init PROVE IInv
  OBVIOUS
<1>1. ASSUME NEW r \in Reqs
      PROVE  job[r] \in Job /\ job[r].kind \in {"login", "put", "bootstrap"}
  <2>1. job[r] \in Job
    BY DEF Init
  <2> QED
    BY <2>1 DEF Job
<1>2. \A u \in Users : Start[u] \in Account /\ Start[u].roles \subseteq AppRoles
  BY DEF Account
<1>3. TypeOK
  BY <1>1, <1>2 DEF Init, TypeOK, Points, Kinds, Ends
<1>4. \A r \in Reqs : \/ pc[r] = "base" /\ tx[r] \in {"put", "bootstrap"}
                      \/ pc[r] = "row" /\ tx[r] = "login"
  <2> SUFFICES ASSUME NEW r \in Reqs
               PROVE  \/ pc[r] = "base" /\ tx[r] \in {"put", "bootstrap"}
                      \/ pc[r] = "row" /\ tx[r] = "login"
    OBVIOUS
  <2>1. tx[r] = job[r].kind /\ pc[r] = IF job[r].kind = "login" THEN "row" ELSE "base"
    BY DEF Init
  <2> QED
    BY <1>1, <2>1
<1>5. Shape /\ PutSoFar /\ CallerIsAdmin /\ SyncOrder
  BY <1>1, <1>4 DEF Init, Shape, PutSoFar, CallerIsAdmin, SyncOrder, Checked, Ends
<1>6. OwnerOf /\ KeysOf
  BY <1>4 DEF Init, OwnerOf, KeysOf, InTx
<1>7. RolesOfLastChange /\ AdminRemains
  BY DEF Init, RolesOfLastChange, AdminRemains
<1> QED
  BY <1>3, <1>5, <1>6, <1>7 DEF IInv

(* What Grant does to the roles to come. *)
LEMMA GrantTurn ==
  ASSUME TypeOK, NEW r \in Reqs, NEW S \in SUBSET AppRoles, Grant(r, S)
  PROVE  /\ todo' = [todo EXCEPT ![r] = S]
         /\ turn' \in [Reqs -> AppRoles \cup {Nobody}]
         /\ \A q \in Reqs \ {r} : turn'[q] = turn[q] /\ pc'[q] = pc[q]
         /\ pc' \in [Reqs -> Points]
         /\ pc'[r] \in {"grant", "commit"} \/ (tx[r] = "sync" /\ pc'[r] = "row")
         /\ pc'[r] = "grant" => /\ turn'[r] \in S
                                /\ tx[r] = "sync" => \A n \in S : Rank[turn'[r]] <= Rank[n]
         /\ pc'[r] # "grant" => S = {}
<1> USE DEF Grant, TypeOK, Goto, Points
<1>1. CASE S = {}
  BY <1>1 DEF AfterGrants
<1>2. CASE S # {}
  BY <1>2 DEF MayBeNext
<1> QED
  BY <1>1, <1>2

(* Each statement keeps the types. *)
LEMMA StepType == TypeOK /\ Shape /\ [Next]_vars => TypeOK'
<1> SUFFICES ASSUME TypeOK, Shape, [Next]_vars PROVE TypeOK'
  OBVIOUS
<1> USE DEF TypeOK, locks, done, Goto
<1>1. CASE UNCHANGED vars
  BY <1>1 DEF vars
<1>2. ASSUME NEW r \in Reqs, ReadBase(r) \/ ReadPermissions(r) \/ ReadTarget(r) PROVE TypeOK'
  BY <1>2 DEF ReadBase, ReadPermissions, ReadTarget, Points
<1>3. ASSUME NEW r \in Reqs, Upsert(r) PROVE TypeOK'
  <2> DEFINE S == IF tx[r] = "login" THEN {"user"} ELSE {"admin"}
  <2>1. Grant(r, S) /\ S \in SUBSET AppRoles
    BY <1>3 DEF Upsert
  <2> HIDE DEF S
  <2> QED
    BY <1>3, <2>1, GrantTurn, JobType DEF Upsert, LockRow
<1>4. ASSUME NEW r \in Reqs, Update(r) \/ Approve(r) PROVE TypeOK'
  BY <1>4, JobType DEF Update, Approve, LockRow, Points
<1>5. ASSUME NEW r \in Reqs, Delete(r) PROVE TypeOK'
  BY <1>5, JobType, AccountType DEF Delete, Points
<1>6. ASSUME NEW r \in Reqs, SelectRoles(r) PROVE TypeOK'
  BY <1>6, JobType, GrantTurn DEF SelectRoles
<1>7. ASSUME NEW r \in Reqs, Ensure(r) PROVE TypeOK'
  <2>1. turn[r] \in AppRoles /\ todo[r] \ {turn[r]} \in SUBSET AppRoles
    BY <1>7 DEF Ensure, Shape
  <2> QED
    BY <1>7, <2>1, GrantTurn DEF Ensure
<1>8. ASSUME NEW r \in Reqs, Commit(r) PROVE TypeOK'
  <2>1. Written(r) \in Account
    <3> DEFINE old == account[Target(r)]
               active == Written(r).active
               approved == Written(r).approved
    <3>1. active \in BOOLEAN
      BY JobType, AccountType DEF Written, Or, Flags
    <3>2. approved \in BOOLEAN
      BY JobType, AccountType DEF Written, Or, Flags
    <3>3. Written(r) = [known |-> old.known \/ tx[r] = "login", active |-> active,
                        approved |-> approved, roles |-> (old.roles \ removed[r]) \cup added[r]]
      BY DEF Written
    <3>4. /\ (old.known \/ tx[r] = "login") \in BOOLEAN
          /\ (old.roles \ removed[r]) \cup added[r] \subseteq AppRoles
      BY JobType, AccountType
    <3> HIDE DEF old, active, approved
    <3> QED
      BY <3>1, <3>2, <3>3, <3>4 DEF Account
  <2>2. pc' \in [Reqs -> Points] /\ tx' \in [Reqs -> Kinds]
    BY <1>8 DEF Commit, Points, Kinds, Ends
  <2>3. account' \in [Users -> Account]
    BY <1>8, <2>1 DEF Commit
  <2>4. lastPut' \in [Users -> SUBSET Names] /\ ensured' \in [Users -> SUBSET AppRoles]
    BY <1>8, JobType DEF Commit
  <2>5. stale' \in [Reqs -> BOOLEAN] /\ job' = job
    <3> DEFINE late(q) == stale[q] \/ (tx[r] = "put" /\ q # r /\ Checked(q))
    <3>1. stale' = [q \in Reqs |-> late(q)] /\ job' = job
      BY <1>8 DEF Commit
    <3>2. \A q \in Reqs : late(q) \in BOOLEAN
      BY DEF Checked
    <3> HIDE DEF late
    <3> QED
      BY <3>1, <3>2
  <2>6. /\ owner' \in [Users -> Reqs \cup {Nobody}]
        /\ removed' \in [Reqs -> SUBSET AppRoles] /\ added' \in [Reqs -> SUBSET AppRoles]
        /\ todo' \in [Reqs -> SUBSET AppRoles] /\ turn' \in [Reqs -> AppRoles \cup {Nobody}]
    BY <1>8 DEF Commit, Release
  <2> QED
    BY <2>2, <2>3, <2>4, <2>5, <2>6
<1>9. ASSUME NEW r \in Reqs, Abort(r) PROVE TypeOK'
  BY <1>9 DEF Abort, Rollback, Release, Points, Ends
<1> QED
  BY <1>1, <1>2, <1>3, <1>4, <1>5, <1>6, <1>7, <1>8, <1>9, Cases

(* The statements follow one another. *)
LEMMA StepShape == TypeOK /\ Shape /\ [Next]_vars => Shape'
<1> SUFFICES ASSUME TypeOK, Shape, [Next]_vars PROVE Shape'
  OBVIOUS
<1> USE DEF TypeOK, Shape, locks, done, Goto
<1>1. CASE UNCHANGED vars
  BY <1>1 DEF vars
<1>2. ASSUME NEW r \in Reqs, ReadBase(r) \/ ReadPermissions(r) \/ ReadTarget(r) PROVE Shape'
  BY <1>2 DEF ReadBase, ReadPermissions, ReadTarget
<1>3. ASSUME NEW r \in Reqs, NEW S \in SUBSET AppRoles, Grant(r, S), UNCHANGED <<tx, job>>
      PROVE  Shape'
  BY <1>3, GrantTurn
<1>4. ASSUME NEW r \in Reqs, Upsert(r) PROVE Shape'
  BY <1>3, <1>4 DEF Upsert
<1>5. ASSUME NEW r \in Reqs, Update(r) \/ Approve(r) PROVE Shape'
  BY <1>5 DEF Update, Approve
<1>6. ASSUME NEW r \in Reqs, Delete(r) PROVE Shape'
  BY <1>6 DEF Delete
<1>7. ASSUME NEW r \in Reqs, SelectRoles(r) \/ Ensure(r) PROVE Shape'
  BY <1>3, <1>7, JobType DEF SelectRoles, Ensure
<1>8. ASSUME NEW r \in Reqs, Commit(r) PROVE Shape'
  <2>1. \A q \in Reqs \ {r} : /\ pc'[q] = pc[q] /\ tx'[q] = tx[q]
                             /\ turn'[q] = turn[q] /\ todo'[q] = todo[q]
    BY <1>8 DEF Commit, Release
  <2>2. pc'[r] = "done" \/ (pc'[r] = "names" /\ tx'[r] = "sync")
    BY <1>8 DEF Commit
  <2>3. job' = job /\ (tx'[r] = tx[r] \/ tx'[r] = "sync")
    BY <1>8 DEF Commit
  <2> QED
    BY <2>1, <2>2, <2>3
<1>9. ASSUME NEW r \in Reqs, Abort(r) PROVE Shape'
  BY <1>9 DEF Abort, Rollback, Release
<1> QED
  BY <1>1, <1>2, <1>4, <1>5, <1>6, <1>7, <1>8, <1>9, Cases

(* The row is locked from the statement that writes it to the end. *)
LEMMA StepOwnerOf == TypeOK /\ Shape /\ OwnerOf /\ [Next]_vars => OwnerOf'
<1> SUFFICES ASSUME TypeOK, Shape, OwnerOf, [Next]_vars PROVE OwnerOf'
  OBVIOUS
<1> USE DEF TypeOK, OwnerOf, InTx, locks, done, Goto, Target
<1>1. CASE UNCHANGED vars
  BY <1>1 DEF vars
<1>2. ASSUME NEW r \in Reqs, ReadBase(r) \/ ReadPermissions(r) \/ ReadTarget(r) PROVE OwnerOf'
  BY <1>2 DEF ReadBase, ReadPermissions, ReadTarget
<1>4. ASSUME NEW r \in Reqs, Upsert(r) PROVE OwnerOf'
  <2>1. /\ \A q \in Reqs \ {r} : pc'[q] = pc[q]
        /\ pc'[r] \in {"grant", "commit"} /\ tx[r] # "sync"
    BY <1>4, GrantTurn DEF Upsert
  <2>2. Target(r) \in Users
    BY JobType
  <2> QED
    BY <1>4, <2>1, <2>2 DEF Upsert, LockRow
<1>5. ASSUME NEW r \in Reqs, Update(r) \/ Approve(r) PROVE OwnerOf'
  <2>1. /\ \A q \in Reqs \ {r} : pc'[q] = pc[q]
        /\ pc'[r] \in {"delete", "commit"} /\ (tx[r] = "sync" => pc'[r] = "commit")
        /\ UNCHANGED <<job, tx>>
    BY <1>5 DEF Update, Approve
  <2>2. /\ owner[Target(r)] = Nobody /\ Target(r) \in Users
        /\ owner' = [owner EXCEPT ![Target(r)] = r]
    BY <1>5, JobType DEF Update, Approve, LockRow
  <2> QED
    BY <2>1, <2>2
<1>6. ASSUME NEW r \in Reqs, Delete(r) PROVE OwnerOf'
  BY <1>6 DEF Delete, Shape
<1>7. ASSUME NEW r \in Reqs, SelectRoles(r) \/ Ensure(r) PROVE OwnerOf'
  <2>1. /\ \A q \in Reqs \ {r} : pc'[q] = pc[q]
        /\ pc'[r] \in {"grant", "commit"} \/ (tx[r] = "sync" /\ pc'[r] = "row")
        /\ UNCHANGED <<job, tx, owner>> /\ pc[r] \in {"names", "grant"}
    <3>1. PICK S \in SUBSET AppRoles : Grant(r, S)
      BY <1>7, JobType DEF SelectRoles, Ensure
    <3> QED
      BY <1>7, <3>1, GrantTurn DEF SelectRoles, Ensure
  <2> QED
    BY <2>1
<1>8. ASSUME NEW r \in Reqs, Commit(r) PROVE OwnerOf'
  <2>1. /\ \A q \in Reqs \ {r} : pc'[q] = pc[q] /\ tx'[q] = tx[q]
        /\ pc'[r] = "done" \/ (pc'[r] = "names" /\ tx'[r] = "sync")
        /\ owner' = [u \in Users |-> IF owner[u] = r THEN Nobody ELSE owner[u]] /\ job' = job
    BY <1>8 DEF Commit, Release
  <2> QED
    BY <2>1, JobType
<1>9. ASSUME NEW r \in Reqs, Abort(r) PROVE OwnerOf'
  BY <1>9, JobType DEF Abort, Rollback, Release
<1> QED
  BY <1>1, <1>2, <1>4, <1>5, <1>6, <1>7, <1>8, <1>9, Cases

(* What is not committed is undone or published at the end. *)
LEMMA StepKeysOf == TypeOK /\ Shape /\ KeysOf /\ [Next]_vars => KeysOf'
<1> SUFFICES ASSUME TypeOK, Shape, KeysOf, [Next]_vars PROVE KeysOf'
  OBVIOUS
<1> USE DEF TypeOK, KeysOf, locks, done, Goto
<1>1. CASE UNCHANGED vars
  BY <1>1 DEF vars
<1>2. ASSUME NEW r \in Reqs, ReadBase(r) \/ ReadPermissions(r) \/ ReadTarget(r) PROVE KeysOf'
  BY <1>2 DEF ReadBase, ReadPermissions, ReadTarget
<1>4. ASSUME NEW r \in Reqs, NEW S \in SUBSET AppRoles, Grant(r, S), UNCHANGED <<tx, removed>>,
             \A q \in Reqs \ {r} : added'[q] = added[q], removed[r] = {} \/ tx[r] # "sync"
      PROVE  KeysOf'
  BY <1>4, GrantTurn
<1>5. ASSUME NEW r \in Reqs, Upsert(r) PROVE KeysOf'
  BY <1>4, <1>5 DEF Upsert, LockRow
<1>6. ASSUME NEW r \in Reqs, Update(r) \/ Approve(r) PROVE KeysOf'
  BY <1>6 DEF Update, Approve, LockRow
<1>7. ASSUME NEW r \in Reqs, Delete(r) PROVE KeysOf'
  BY <1>7 DEF Delete, Shape
<1>8. ASSUME NEW r \in Reqs, SelectRoles(r) \/ Ensure(r) PROVE KeysOf'
  <2>1. CASE SelectRoles(r)
    BY <1>4, <2>1, JobType DEF SelectRoles
  <2>2. CASE Ensure(r)
    <3>1. \A q \in Reqs \ {r} : added'[q] = added[q]
      BY <2>2 DEF Ensure
    <3> QED
      BY <1>4, <2>2, <3>1 DEF Ensure
  <2> QED
    BY <1>8, <2>1, <2>2
<1>9. ASSUME NEW r \in Reqs, Commit(r) PROVE KeysOf'
  BY <1>9 DEF Commit, Release
<1>10. ASSUME NEW r \in Reqs, Abort(r) PROVE KeysOf'
  BY <1>10 DEF Abort, Rollback, Release
<1> QED
  BY <1>1, <1>2, <1>5, <1>6, <1>7, <1>8, <1>9, <1>10, Cases

(* A row has one owner. *)
LEMMA OneOwner ==
  ASSUME OwnerOf, NEW r \in Reqs, NEW q \in Reqs, Target(r) = Target(q),
         pc[r] \in InTx, pc[q] \in InTx, tx[r] # "sync", tx[q] # "sync"
  PROVE  r = q
BY DEF OwnerOf

(* What a commit that does not end r does to the user whose roles r        *)
(* changes: it is a role sync, which adds roles and ensures them.          *)
LEMMA CommitBeside ==
  ASSUME TypeOK, OwnerOf, KeysOf, NEW r \in Reqs, NEW q \in Reqs, q # r, Commit(q),
         tx[r] = "put", pc[r] \in InTx
  PROVE  \/ /\ account'[Target(r)].roles = account[Target(r)].roles
            /\ ensured'[Target(r)] = ensured[Target(r)]
         \/ \E S \in SUBSET AppRoles :
              /\ account'[Target(r)].roles = account[Target(r)].roles \cup S
              /\ ensured'[Target(r)] = ensured[Target(r)] \cup S
<1> USE DEF TypeOK
<1>1. CASE Target(q) # Target(r)
  BY <1>1, JobType DEF Commit
<1>2. CASE Target(q) = Target(r)
  <2>1. tx[q] = "sync"
    BY <1>2, OneOwner DEF Commit, InTx
  <2>2. removed[q] = {}
    BY <2>1 DEF KeysOf
  <2>3. account'[Target(r)].roles = account[Target(r)].roles \cup added[q]
    BY <1>2, <2>2, JobType DEF Commit, Written
  <2>4. ensured'[Target(r)] = ensured[Target(r)] \cup added[q]
    BY <1>2, <2>1, JobType DEF Commit
  <2> QED
    BY <2>3, <2>4
<1> QED
  BY <1>1, <1>2

(* What each statement leaves alone, but for a commit. *)
LEMMA NoCommit ==
  ASSUME NEW r \in Reqs,
         \/ ReadBase(r) \/ ReadPermissions(r) \/ ReadTarget(r) \/ Upsert(r) \/ Update(r)
         \/ Approve(r) \/ Delete(r) \/ SelectRoles(r) \/ Ensure(r) \/ Abort(r)
  PROVE  UNCHANGED <<job, tx, account, lastPut, ensured, stale>>
BY DEF ReadBase, ReadPermissions, ReadTarget, Upsert, Update, Approve, Delete, SelectRoles, Ensure,
       Abort, Rollback, done

(* A change of roles stays on its way while others work. *)
LEMMA StepPutSoFar == IInv /\ [Next]_vars => PutSoFar'
<1> SUFFICES ASSUME IInv, [Next]_vars,
                    NEW r \in Reqs, tx'[r] = "put", pc'[r] \in {"names", "grant", "commit"}
             PROVE  /\ account'[Target(r)'].roles \ removed'[r] \subseteq ensured'[Target(r)']
                    /\ added'[r] \subseteq job'[r].names
                    /\ pc'[r] = "grant" => /\ job'[r].names \subseteq Visible(r)' \cup todo'[r]
                                           /\ todo'[r] \subseteq job'[r].names
                    /\ pc'[r] = "commit" => job'[r].names \subseteq Visible(r)'
  BY DEF PutSoFar
<1> DEFINE Mine == /\ account[Target(r)].roles \ removed[r] \subseteq ensured[Target(r)]
                   /\ added[r] \subseteq job[r].names
                   /\ pc[r] = "grant" => /\ job[r].names \subseteq Visible(r) \cup todo[r]
                            /\ todo[r] \subseteq job[r].names
                   /\ pc[r] = "commit" => job[r].names \subseteq Visible(r)
<1> USE DEF IInv, TypeOK, locks, done, Goto
<1>1. CASE UNCHANGED vars
  BY <1>1 DEF vars, PutSoFar, Visible, Target
<1>2. ASSUME NEW q \in Reqs, q # r, UNCHANGED <<job, tx, account, ensured>>,
             pc'[r] = pc[r], removed'[r] = removed[r], added'[r] = added[r], todo'[r] = todo[r]
      PROVE  Mine'
  BY <1>2 DEF PutSoFar, Visible, Target
<1>3. ASSUME NEW q \in Reqs, q # r,
             \/ ReadBase(q) \/ ReadPermissions(q) \/ ReadTarget(q) \/ Update(q) \/ Approve(q)
             \/ Delete(q) \/ Abort(q)
      PROVE  Mine'
  <2>1. pc'[r] = pc[r] /\ removed'[r] = removed[r] /\ added'[r] = added[r] /\ todo'[r] = todo[r]
    BY <1>3 DEF ReadBase, ReadPermissions, ReadTarget, Update, Approve, Delete, Abort, Rollback,
                Release
  <2> QED
    BY <1>2, <1>3, <2>1, NoCommit
<1>4. ASSUME NEW q \in Reqs, q # r, Upsert(q) \/ SelectRoles(q) \/ Ensure(q) PROVE Mine'
  <2>1. PICK S \in SUBSET AppRoles : Grant(q, S)
    <3>1. CASE Upsert(q)
      BY <3>1 DEF Upsert
    <3>2. CASE SelectRoles(q)
      BY <3>2, JobType DEF SelectRoles
    <3>3. CASE Ensure(q)
      BY <3>3 DEF Ensure
    <3> QED
      BY <1>4, <3>1, <3>2, <3>3
  <2>2. pc'[r] = pc[r] /\ todo'[r] = todo[r]
    BY <1>4, <2>1, GrantTurn
  <2>3. removed'[r] = removed[r] /\ added'[r] = added[r]
    BY <1>4 DEF Upsert, SelectRoles, Ensure
  <2> QED
    BY <1>2, <1>4, <2>2, <2>3, NoCommit
<1>5. ASSUME NEW q \in Reqs, q # r, Commit(q) PROVE Mine'
  <2>1. /\ job' = job /\ tx'[r] = tx[r] /\ pc'[r] = pc[r] /\ removed'[r] = removed[r]
        /\ added'[r] = added[r] /\ todo'[r] = todo[r]
    BY <1>5 DEF Commit, Release
  <2>2. Mine
    BY <2>1 DEF PutSoFar
  <2>3. \/ /\ account'[Target(r)].roles = account[Target(r)].roles
           /\ ensured'[Target(r)] = ensured[Target(r)]
        \/ \E S \in SUBSET AppRoles :
             /\ account'[Target(r)].roles = account[Target(r)].roles \cup S
             /\ ensured'[Target(r)] = ensured[Target(r)] \cup S
    BY <1>5, <2>1, CommitBeside DEF InTx
  <2>4. Target(r)' = Target(r)
    BY <2>1 DEF Target
  <2> QED
    BY <2>1, <2>2, <2>3, <2>4 DEF Visible
<1>6. CASE Delete(r)
  BY <1>6, JobType DEF Delete, KeysOf, Visible, Target
<1>7. CASE SelectRoles(r)
  <2>1. /\ Found(r) = job[r].names /\ Grant(r, job[r].names) /\ job[r].names \in SUBSET AppRoles
        /\ UNCHANGED <<job, tx, locks, done>> /\ tx[r] = "put" /\ pc[r] = "names"
    <3>1. /\ Grant(r, Found(r)) /\ UNCHANGED <<job, tx, locks, done>> /\ pc[r] = "names"
          /\ tx[r] = "put" => job[r].names \subseteq AppRoles
      BY <1>7 DEF SelectRoles
    <3>2. tx[r] = "put"
      BY <3>1
    <3>3. Found(r) = job[r].names
      BY <3>1, <3>2 DEF Found
    <3> QED
      BY <3>1, <3>2, <3>3
  <2>2. todo'[r] = job[r].names /\ (pc'[r] # "grant" => job[r].names = {})
    BY <2>1, GrantTurn
  <2> QED
    <3>1. /\ account[Target(r)].roles \ removed[r] \subseteq ensured[Target(r)]
          /\ added[r] \subseteq job[r].names
      BY <2>1 DEF PutSoFar
    <3>2. Target(r)' = Target(r)
      BY <2>1 DEF Target
    <3> QED
      BY <2>1, <2>2, <3>1, <3>2
<1>8. CASE Ensure(r)
  <2> DEFINE n == turn[r]
  <2>1. /\ tx[r] = "put" /\ pc[r] = "grant" /\ n \in todo[r]
        /\ UNCHANGED <<job, tx, account, ensured, removed>>
        /\ added'[r] = IF n \in Visible(r) THEN added[r] ELSE added[r] \cup {n}
        /\ Grant(r, todo[r] \ {n}) /\ todo[r] \ {n} \in SUBSET AppRoles
    BY <1>8 DEF Ensure, Shape
  <2>2. /\ todo'[r] = todo[r] \ {n} /\ (pc'[r] # "grant" => todo[r] \ {n} = {})
    <3> DEFINE S == todo[r] \ {n}
    <3>1. Grant(r, S) /\ S \in SUBSET AppRoles
      BY <2>1
    <3> HIDE DEF S
    <3>2. todo' = [todo EXCEPT ![r] = S] /\ (pc'[r] # "grant" => S = {})
      BY <3>1, GrantTurn
    <3>3. todo'[r] = S
      BY <3>2
    <3> QED
      BY <3>2, <3>3 DEF S
  <2>3. Mine
    BY <2>1 DEF PutSoFar
  <2>4. Target(r)' = Target(r)
    BY <2>1 DEF Target
  <2>5. Visible(r)' = Visible(r) \cup {n}
    BY <2>1, <2>4 DEF Visible
  <2> QED
    BY <2>1, <2>2, <2>3, <2>4, <2>5
<1>9. CASE ReadBase(r) \/ ReadPermissions(r) \/ ReadTarget(r) \/ Update(r) \/ Approve(r)
           \/ Abort(r) \/ Commit(r)
  BY <1>9 DEF ReadBase, ReadPermissions, ReadTarget, Update, Approve, Abort, Rollback, Commit
<1>10. CASE Upsert(r)
  BY <1>10, NoCommit DEF Upsert
<1> QED
  BY <1>1, <1>3, <1>4, <1>5, <1>6, <1>7, <1>8, <1>9, <1>10, Cases

(* Only a change of roles takes the role admin from anyone, and marks the  *)
(* other changes that have read the permissions of their callers.          *)
LEMMA StepCallerIsAdmin == IInv /\ [Next]_vars => CallerIsAdmin'
<1> SUFFICES ASSUME IInv, [Next]_vars, NEW q \in Reqs, Checked(q)'
             PROVE  /\ stale'[q] \/ "admin" \in account'[job'[q].by].roles
                    /\ job'[q].by = Target(q)' => "admin" \in job'[q].names
  BY DEF CallerIsAdmin, Caller
<1> USE DEF IInv, TypeOK, locks, done, Goto
<1>1. ASSUME UNCHANGED <<job, account, stale>>, Checked(q) \/ ("admin" \in Caller(q).roles /\ Permitted(q))
      PROVE  /\ stale'[q] \/ "admin" \in account'[job'[q].by].roles
             /\ job'[q].by = Target(q)' => "admin" \in job'[q].names
  BY <1>1 DEF CallerIsAdmin, Caller, Target, Permitted
<1>2. CASE UNCHANGED vars
  BY <1>1, <1>2 DEF vars, Checked
<1>3. ASSUME NEW r \in Reqs,
             \/ ReadBase(r) \/ ReadTarget(r) \/ Update(r) \/ Approve(r) \/ Delete(r) \/ Abort(r)
      PROVE  Checked(q)
  BY <1>3 DEF ReadBase, ReadTarget, Update, Approve, Delete, Abort, Rollback, Checked, Shape,
              LockRow, Ends
<1>4. ASSUME NEW r \in Reqs, ReadPermissions(r)
      PROVE  Checked(q) \/ ("admin" \in Caller(q).roles /\ Permitted(q))
  BY <1>4 DEF ReadPermissions, Permitted, Checked
<1>5. ASSUME NEW r \in Reqs, Upsert(r) \/ SelectRoles(r) \/ Ensure(r) PROVE Checked(q)
  <2>1. PICK S \in SUBSET AppRoles : Grant(r, S)
    <3>1. CASE Upsert(r)
      BY <3>1 DEF Upsert
    <3>2. CASE SelectRoles(r)
      BY <3>2, JobType DEF SelectRoles
    <3>3. CASE Ensure(r)
      BY <3>3 DEF Ensure
    <3> QED
      BY <1>5, <3>1, <3>2, <3>3
  <2>2. q # r => pc'[q] = pc[q]
    BY <2>1, GrantTurn
  <2>3. tx' = tx /\ pc[r] \in {"row", "names", "grant"}
    BY <1>5 DEF Upsert, LockRow, SelectRoles, Ensure
  <2> QED
    BY <2>2, <2>3 DEF Checked, Ends
<1>6. ASSUME NEW r \in Reqs, Commit(r)
      PROVE  /\ stale'[q] \/ "admin" \in account'[job'[q].by].roles
             /\ job'[q].by = Target(q)' => "admin" \in job'[q].names
  <2>1. q # r /\ Checked(q) /\ job' = job
    BY <1>6 DEF Commit, Checked, Ends
  <2>2. /\ stale[q] \/ "admin" \in account[job[q].by].roles
        /\ job[q].by = Target(q) => "admin" \in job[q].names
    BY <2>1 DEF CallerIsAdmin, Caller
  <2>3. stale'[q] = (stale[q] \/ (tx[r] = "put" /\ q # r /\ Checked(q)))
    BY <1>6 DEF Commit
  <2>4. CASE tx[r] = "put"
    BY <2>1, <2>2, <2>3, <2>4 DEF Target
  <2>5. CASE tx[r] # "put"
    <3>1. removed[r] = {}
      BY <2>5 DEF KeysOf
    <3>2. \A u \in Users : account[u].roles \subseteq account'[u].roles
      BY <1>6, <3>1, JobType DEF Commit, Written
    <3> QED
      BY <2>1, <2>2, <2>3, <3>2, JobType DEF Target
  <2> QED
    BY <2>4, <2>5
<1> QED
  BY <1>1, <1>2, <1>3, <1>4, <1>5, <1>6, NoCommit, Cases

(* The names come in order. *)
LEMMA StepSyncOrder == IInv /\ [Next]_vars => SyncOrder'
<1> SUFFICES ASSUME IInv, [Next]_vars,
                    NEW r \in Reqs, tx'[r] = "sync", pc'[r] = "grant"
             PROVE  /\ \A n \in todo'[r] : Rank[turn'[r]] <= Rank[n]
                    /\ \A m \in added'[r], n \in todo'[r] : Rank[m] < Rank[n]
  BY DEF SyncOrder
<1> DEFINE Mine == /\ \A n \in todo[r] : Rank[turn[r]] <= Rank[n]
                   /\ \A m \in added[r], n \in todo[r] : Rank[m] < Rank[n]
<1> USE DEF IInv, TypeOK, locks, done, Goto
<1>1. ASSUME todo'[r] = todo[r], turn'[r] = turn[r], added'[r] = added[r], tx[r] = "sync",
             pc[r] = "grant"
      PROVE  Mine'
  BY <1>1 DEF SyncOrder
<1>2. CASE UNCHANGED vars
  BY <1>1, <1>2 DEF vars
<1>3. ASSUME NEW q \in Reqs,
             \/ ReadBase(q) \/ ReadPermissions(q) \/ ReadTarget(q) \/ Update(q) \/ Approve(q)
             \/ Delete(q) \/ Abort(q) \/ Commit(q)
      PROVE  Mine'
  <2>1. q # r /\ pc'[r] = pc[r] /\ tx'[r] = tx[r] /\ todo'[r] = todo[r] /\ turn'[r] = turn[r]
        /\ added'[r] = added[r]
    BY <1>3 DEF ReadBase, ReadPermissions, ReadTarget, Update, Approve, Delete, Abort, Rollback,
                Commit, Release
  <2> QED
    BY <1>1, <2>1
<1>4. ASSUME NEW q \in Reqs, NEW S \in SUBSET AppRoles, Grant(q, S), q # r,
             UNCHANGED tx, added'[r] = added[r]
      PROVE  Mine'
  BY <1>1, <1>4, GrantTurn
<1>5. ASSUME NEW q \in Reqs, q # r, Upsert(q) \/ SelectRoles(q) \/ Ensure(q) PROVE Mine'
  <2>1. CASE Upsert(q)
    BY <1>4, <1>5, <2>1 DEF Upsert
  <2>2. CASE SelectRoles(q)
    BY <1>4, <1>5, <2>2, JobType DEF SelectRoles
  <2>3. CASE Ensure(q)
    <3>1. added'[r] = added[r]
      BY <1>5, <2>3 DEF Ensure
    <3> QED
      BY <1>4, <1>5, <2>3, <3>1 DEF Ensure
  <2> QED
    BY <1>5, <2>1, <2>2, <2>3
<1>6. CASE Upsert(r)
  BY <1>6, NoCommit DEF Upsert
<1>7. CASE SelectRoles(r)
  <2>1. added'[r] = {} /\ tx[r] = "sync"
    BY <1>7 DEF SelectRoles, KeysOf
  <2>2. todo'[r] = Found(r) /\ \A n \in Found(r) : Rank[turn'[r]] <= Rank[n]
    BY <1>7, <2>1, JobType, GrantTurn DEF SelectRoles
  <2> QED
    BY <2>1, <2>2
<1>8. CASE Ensure(r)
  <2> DEFINE S == todo[r] \ {turn[r]}
  <2>1. /\ tx[r] = "sync" /\ pc[r] = "grant" /\ turn[r] \in todo[r] /\ todo[r] \subseteq AppRoles
        /\ added'[r] \subseteq added[r] \cup {turn[r]} /\ Grant(r, S) /\ S \in SUBSET AppRoles
        /\ added[r] \subseteq AppRoles
    BY <1>8 DEF Ensure, Shape
  <2>2. Mine
    BY <2>1 DEF SyncOrder
  <2>3. \A n \in S : Rank[turn[r]] < Rank[n]
    BY <2>1, <2>2, RankType
  <2> HIDE DEF S
  <2>4. todo'[r] = S /\ \A n \in S : Rank[turn'[r]] <= Rank[n]
    BY <2>1, GrantTurn
  <2>5. S \subseteq todo[r]
    BY DEF S
  <2> QED
    BY <2>1, <2>2, <2>3, <2>4, <2>5
<1> QED
  BY <1>2, <1>3, <1>5, <1>6, <1>7, <1>8, Cases

(* A change of roles leaves the roles that it names, and those that have   *)
(* been ensured since it deleted the others.                               *)
LEMMA StepRoles == IInv /\ [Next]_vars => RolesOfLastChange'
<1> SUFFICES ASSUME IInv, [Next]_vars PROVE RolesOfLastChange'
  OBVIOUS
<1> USE DEF IInv, TypeOK, RolesOfLastChange
<1>1. CASE UNCHANGED <<account, lastPut, ensured>>
  BY <1>1
<1>2. ASSUME NEW r \in Reqs, Commit(r) PROVE RolesOfLastChange'
  <2> DEFINE t == Target(r)
  <2>1. /\ t \in Users /\ \A u \in Users \ {t} : /\ account'[u] = account[u]
                                                 /\ lastPut'[u] = lastPut[u]
                                                 /\ ensured'[u] = ensured[u]
        /\ account'[t].roles = Visible(r)
    BY <1>2, JobType DEF Commit, Written, Visible
  <2>2. CASE tx[r] = "put"
    <3>1. lastPut'[t] = job[r].names /\ ensured'[t] = ensured[t]
      BY <1>2, <2>1, <2>2 DEF Commit
    <3>2. /\ job[r].names \subseteq Visible(r) /\ added[r] \subseteq job[r].names
          /\ account[t].roles \ removed[r] \subseteq ensured[t]
      BY <1>2, <2>2 DEF Commit, PutSoFar
    <3> QED
      BY <2>1, <3>1, <3>2 DEF Visible
  <2>3. CASE tx[r] # "put"
    <3>1. lastPut'[t] = lastPut[t] /\ ensured'[t] = ensured[t] \cup added[r]
      BY <1>2, <2>1, <2>3 DEF Commit
    <3>2. removed[r] = {}
      BY <2>3 DEF KeysOf
    <3> QED
      BY <2>1, <3>1, <3>2 DEF Visible
  <2> QED
    BY <2>2, <2>3
<1> QED
  BY <1>1, <1>2, NoCommit, Cases DEF vars

(* Who is done stays so. *)
LEMMA DoneStays ==
  ASSUME IInv, [Next]_vars, NEW r \in Reqs, pc[r] = "done"
  PROVE  pc'[r] = "done" /\ tx'[r] = tx[r]
<1> USE DEF IInv, TypeOK, Goto
<1>1. CASE UNCHANGED vars
  BY <1>1 DEF vars
<1>2. ASSUME NEW q \in Reqs,
             \/ ReadBase(q) \/ ReadPermissions(q) \/ ReadTarget(q) \/ Update(q) \/ Approve(q)
             \/ Delete(q) \/ Abort(q) \/ Commit(q)
      PROVE  pc'[r] = "done" /\ tx'[r] = tx[r]
  BY <1>2 DEF ReadBase, ReadPermissions, ReadTarget, Update, Approve, Delete, Abort, Rollback,
              Commit, LockRow, Ends
<1>3. ASSUME NEW q \in Reqs, Upsert(q) \/ SelectRoles(q) \/ Ensure(q)
      PROVE  pc'[r] = "done" /\ tx'[r] = tx[r]
  <2>1. PICK S \in SUBSET AppRoles : Grant(q, S)
    <3>1. CASE Upsert(q)
      BY <3>1 DEF Upsert
    <3>2. CASE SelectRoles(q)
      BY <3>2, JobType DEF SelectRoles
    <3>3. CASE Ensure(q)
      BY <3>3 DEF Ensure
    <3> QED
      BY <1>3, <3>1, <3>2, <3>3
  <2>2. q # r
    BY <1>3 DEF Upsert, SelectRoles, Ensure, LockRow
  <2> QED
    BY <1>3, <2>1, <2>2, GrantTurn, NoCommit
<1> QED
  BY <1>1, <1>2, <1>3, Cases

(* A change of roles that is not stale leaves its caller the role admin. *)
LEMMA StepAdmin == IInv /\ [Next]_vars => AdminRemains'
<1> SUFFICES ASSUME IInv, [Next]_vars PROVE AdminRemains'
  OBVIOUS
<1> USE DEF IInv, TypeOK
<1>1. ASSUME NEW r \in Reqs, tx[r] = "put", pc[r] = "done", stale[r] PROVE AdminRemains'
  <2>1. tx'[r] = "put" /\ pc'[r] = "done"
    BY <1>1, DoneStays
  <2>2. stale'[r]
    BY <1>1, NoCommit, Cases DEF Commit, vars
  <2> QED
    BY <2>1, <2>2 DEF AdminRemains
<1>2. ASSUME UNCHANGED account, NEW u \in Users, "admin" \in account[u].roles PROVE AdminRemains'
  BY <1>2 DEF AdminRemains
<1>3. ASSUME NEW r \in Reqs, Commit(r), NEW u \in Users, "admin" \in account[u].roles
      PROVE  AdminRemains'
  <2>1. CASE tx[r] # "put"
    <3>1. removed[r] = {}
      BY <2>1 DEF KeysOf
    <3>2. account[u].roles \subseteq account'[u].roles
      BY <1>3, <3>1, JobType DEF Commit, Written
    <3> QED
      BY <1>3, <3>2 DEF AdminRemains
  <2>2. CASE tx[r] = "put" /\ stale[r]
    <3>1. tx'[r] = "put" /\ pc'[r] = "done" /\ stale'[r]
      BY <1>3, <2>2 DEF Commit, Goto
    <3> QED
      BY <3>1 DEF AdminRemains
  <2>3. CASE tx[r] = "put" /\ ~stale[r]
    <3>1. Checked(r)
      BY <1>3, <2>3 DEF Checked, Commit, Ends
    <3>2. /\ "admin" \in account[job[r].by].roles /\ job[r].by \in Users
          /\ job[r].by = Target(r) => "admin" \in job[r].names
      BY <2>3, <3>1, JobType DEF CallerIsAdmin, Caller
    <3>3. CASE job[r].by = Target(r)
      <4>1. "admin" \in Visible(r)
        BY <1>3, <2>3, <3>2, <3>3 DEF PutSoFar, Commit
      <4>2. account'[Target(r)].roles = Visible(r)
        BY <1>3, JobType DEF Commit, Written, Visible
      <4> QED
        BY <3>2, <3>3, <4>1, <4>2 DEF AdminRemains
    <3>4. CASE job[r].by # Target(r)
      <4>1. account'[job[r].by] = account[job[r].by]
        BY <1>3, <3>2, <3>4 DEF Commit
      <4> QED
        BY <3>2, <4>1 DEF AdminRemains
    <3> QED
      BY <3>3, <3>4
  <2> QED
    BY <2>1, <2>2, <2>3
<1> QED
  BY <1>1, <1>2, <1>3, NoCommit, Cases DEF AdminRemains, vars

(* The invariant holds of every behaviour. *)
THEOREM Invariant == Spec => []IInv
<1>1. IInv /\ [Next]_vars => IInv'
  <2> SUFFICES ASSUME IInv, [Next]_vars PROVE IInv'
    OBVIOUS
  <2>1. TypeOK' /\ Shape' /\ OwnerOf' /\ KeysOf'
    BY StepType, StepShape, StepOwnerOf, StepKeysOf DEF IInv
  <2>2. PutSoFar' /\ CallerIsAdmin' /\ SyncOrder' /\ RolesOfLastChange' /\ AdminRemains'
    BY StepPutSoFar, StepCallerIsAdmin, StepSyncOrder, StepRoles, StepAdmin
  <2> QED
    BY <2>1, <2>2 DEF IInv
<1> QED
  BY <1>1, InitInv, PTL DEF Spec

(* The state stays within its types. *)
THEOREM TypeCorrect == Spec => []TypeOK
BY Invariant, PTL DEF IInv

(* Two changes of the roles of a user never mix. *)
THEOREM ChangesDoNotMix == Spec => []RolesOfLastChange
BY Invariant, PTL DEF IInv

(* There is an administrator but for changes that overlap. *)
THEOREM AdminStays == Spec => []AdminRemains
BY Invariant, PTL DEF IInv

-----------------------------------------------------------------------------
(* Deadlocks.  Who waits for a row waits for its owner; who waits for a    *)
(* role waits for one that changes the roles of the same user.             *)

(* The alphabet has an end, so that of a set of names one is the last. *)
LEMMA LastRole ==
  ASSUME NEW R, R \subseteq AppRoles, R # {}
  PROVE  \E m \in R : \A n \in R : Rank[n] <= Rank[m]
<1>1. PICK z \in AppRoles : \A n \in AppRoles : Rank[n] <= Rank[z]
  BY RankType
<1> DEFINE T == {Rank[z] - Rank[n] : n \in R}
           Less == OpToRel(<, Nat)
<1>2. T \subseteq Nat /\ T # {}
  BY <1>1, RankType
<1>3. IsWellFoundedOn(Less, Nat)
  BY NatLessThanWellFounded
<1>4. \A i, j \in Nat : i < j => <<i, j>> \in Less
  BY DEF OpToRel
<1> HIDE DEF T, Less
<1>5. PICK x \in T : \A y \in T : ~ (<<y, x>> \in Less)
  BY <1>2, <1>3, WFMin
<1>6. ASSUME NEW y \in T PROVE x <= y
  <2>1. x \in Nat /\ y \in Nat
    BY <1>2
  <2>2. ~ (y < x)
    BY <2>1, <1>4, <1>5
  <2> QED
    BY <2>1, <2>2
<1>7. PICK m \in R : x = Rank[z] - Rank[m]
  BY DEF T
<1>8. ASSUME NEW n \in R PROVE Rank[n] <= Rank[m]
  <2>1. x <= Rank[z] - Rank[n]
    BY <1>6 DEF T
  <2>2. Rank[z] \in Nat /\ Rank[m] \in Nat /\ Rank[n] \in Nat
    BY RankType
  <2> QED
    BY <1>7, <2>1, <2>2
<1> QED
  BY <1>8

(* Without a role sync, whoever has changed a role owns the row: nobody    *)
(* else can be waiting for a role of that user.                            *)
LEMMA SyncInvolved ==
  ASSUME IInv, NEW S \in SUBSET Reqs, Stuck(S), \A r \in S : tx[r] # "sync"
  PROVE  FALSE
<1> USE DEF IInv
<1>1. ASSUME NEW r \in S, NEW q \in S, pc[r] = "grant", Waits(r, q) PROVE FALSE
  <2>1. Target(r) = Target(q) /\ r # q /\ Keys(q) # {} /\ tx[q] # "sync"
    BY <1>1 DEF Waits
  <2>2. pc[q] \in InTx
    BY <2>1 DEF Keys, KeysOf, InTx
  <2> QED
    BY <1>1, <2>1, <2>2, OneOwner DEF InTx
<1>2. PICK r \in S : \E q \in S : Waits(r, q)
  BY DEF Stuck
<1>3. PICK q \in S : Waits(r, q)
  BY <1>2
<1>4. pc[r] = "row" /\ owner[Target(r)] = q
  BY <1>1, <1>3 DEF Waits
<1>5. pc[q] \in InTx
  BY <1>4, JobType DEF OwnerOf
<1>6. PICK w \in S : Waits(q, w)
  BY DEF Stuck
<1>7. pc[q] = "grant"
  BY <1>5, <1>6 DEF Waits, InTx
<1> QED
  BY <1>1, <1>6, <1>7

(* Among role syncs alone, each waits for one that is at a later name. *)
LEMMA NotSyncAlone ==
  ASSUME IInv, NEW S \in SUBSET Reqs, Stuck(S), \A r \in S : tx[r] = "sync"
  PROVE  FALSE
<1> USE DEF IInv
<1>1. ASSUME NEW r \in S PROVE pc[r] = "grant"
  <2>1. PICK q \in S : Waits(r, q)
    BY DEF Stuck
  <2>2. CASE pc[r] = "row"
    <3>1. pc[q] = "commit"
      BY <2>1, <2>2, JobType DEF Waits, OwnerOf
    <3> QED
      BY <3>1 DEF Stuck, Waits
  <2> QED
    BY <2>1, <2>2 DEF Waits
<1> DEFINE R == {turn[r] : r \in S}
<1>2. R \subseteq AppRoles /\ R # {}
  BY <1>1 DEF Shape, TypeOK, Stuck
<1>3. PICK m \in R : \A n \in R : Rank[n] <= Rank[m]
  BY <1>2, LastRole
<1>4. PICK r \in S : turn[r] = m
  OBVIOUS
<1>5. PICK q \in S : Waits(r, q)
  BY DEF Stuck
<1>6. removed[q] = {} /\ turn[r] \in added[q]
  BY <1>1, <1>5 DEF Waits, Keys, KeysOf
<1>7. Rank[turn[r]] < Rank[turn[q]]
  BY <1>1, <1>6 DEF SyncOrder, Shape
<1>8. Rank[turn[q]] <= Rank[turn[r]] /\ Rank[turn[q]] \in Nat /\ Rank[turn[r]] \in Nat
  BY <1>2, <1>3, <1>4, RankType
<1> QED
  BY <1>7, <1>8

(* A deadlock takes a role sync and another transaction. *)
THEOREM DeadlockTakesSync == Spec => []DeadlockNeedsSync
<1>1. IInv => DeadlockNeedsSync
  BY SyncInvolved, NotSyncAlone DEF DeadlockNeedsSync
<1> QED
  BY <1>1, Invariant, PTL

-----------------------------------------------------------------------------
(* Who may no longer change roles. *)

(* A change of roles goes on only if its statement finds what it needs.    *)
PutEvolves(r) ==
  /\ job'[r] = job[r] /\ (tx'[r] = "put" <=> tx[r] = "put")
  /\ tx[r] = "put" =>
       /\ pc[r] \in Ends => pc'[r] = pc[r]
       /\ pc[r] = "base" => \/ pc'[r] \in {"base", "refused", "failed"}
                            \/ pc'[r] = "permissions" /\ Present(r)
       /\ pc[r] = "permissions" => \/ pc'[r] \in {"permissions", "refused", "failed"}
                                   \/ pc'[r] = "target" /\ Permitted(r)

(* Every step moves a change of roles like that. *)
LEMMA StepPuts ==
  ASSUME TypeOK, Shape, [Next]_vars, NEW q \in Reqs
  PROVE  PutEvolves(q)
<1> USE DEF TypeOK, Shape, PutEvolves, Goto, Ends
<1>1. CASE UNCHANGED vars
  BY <1>1 DEF vars
<1>2. ASSUME NEW r \in Reqs, ReadBase(r) PROVE PutEvolves(q)
  BY <1>2 DEF ReadBase
<1>3. ASSUME NEW r \in Reqs, ReadPermissions(r) \/ ReadTarget(r) PROVE PutEvolves(q)
  BY <1>3 DEF ReadPermissions, ReadTarget
<1>4. ASSUME NEW r \in Reqs, Update(r) \/ Approve(r) \/ Delete(r) PROVE PutEvolves(q)
  BY <1>4 DEF Update, Approve, Delete, LockRow
<1>5. ASSUME NEW r \in Reqs, Upsert(r) \/ SelectRoles(r) \/ Ensure(r) PROVE PutEvolves(q)
  <2>1. pc[r] \in {"row", "names", "grant"} /\ UNCHANGED <<job, tx>>
    BY <1>5 DEF Upsert, SelectRoles, Ensure, LockRow
  <2>2. q # r => pc'[q] = pc[q]
    <3>1. \E S : Grant(r, S)
      BY <1>5 DEF Upsert, SelectRoles, Ensure
    <3>2. \E p : pc' = [pc EXCEPT ![r] = p]
      BY <3>1 DEF Grant
    <3> QED
      BY <3>2
  <2> QED
    BY <2>1, <2>2
<1>6. ASSUME NEW r \in Reqs, Commit(r) PROVE PutEvolves(q)
  <2>1. /\ job' = job /\ pc[r] = "commit" /\ (q # r => tx'[q] = tx[q] /\ pc'[q] = pc[q])
        /\ tx'[r] = tx[r] \/ (tx[r] = "login" /\ tx'[r] = "sync")
    BY <1>6 DEF Commit
  <2> QED
    BY <2>1
<1>7. ASSUME NEW r \in Reqs, Abort(r) PROVE PutEvolves(q)
  BY <1>7 DEF Abort, Rollback
<1> QED
  BY <1>1, <1>2, <1>3, <1>4, <1>5, <1>6, <1>7, Cases

(* Whoever was refused by the flags or by the roles stays out. *)
THEOREM RevokedStayOut == Spec => RevokedStaysOut
<1>1. ASSUME IInv, IInv', [Next]_vars, NEW u \in Users
      PROVE  /\ Suspended(u) => /\ Completed(u)' = Completed(u)
                                /\ Suspended(u)' \/ MayAct(u)'
             /\ Demoted(u) => /\ Completed(u)' = Completed(u)
                              /\ Demoted(u)' \/ "admin" \in account'[u].roles
  <2>1. \A r \in Reqs : PutEvolves(r)
    BY <1>1, StepPuts DEF IInv
  <2>2. Puts(u)' = Puts(u)
    BY <2>1 DEF Puts, PutEvolves
  <2>3. ASSUME Suspended(u)
        PROVE  Completed(u)' = Completed(u) /\ (Suspended(u)' \/ MayAct(u)')
    <3>1. ~(\E r \in Puts(u) : Present(r))
      <4> SUFFICES ASSUME NEW r \in Puts(u), Present(r) PROVE FALSE
        OBVIOUS
      <4>1. job[r].by = u /\ (job[r].kind = "put" => MayAct(u))
        BY DEF Puts, Present, Caller, MayAct
      <4> QED
        BY <1>1, <2>3, <4>1 DEF Suspended, Puts, IInv, Shape
    <3>2. \A r \in Puts(u) : /\ pc'[r] \in {"base"} \cup Ends
                             /\ pc[r] = "done" <=> pc'[r] = "done"
      BY <2>1, <2>3, <3>1 DEF Suspended, Puts, PutEvolves, Ends
    <3>3. Completed(u)' = Completed(u)
      BY <2>2, <3>2 DEF Completed
    <3> QED
      BY <2>2, <2>3, <3>2, <3>3 DEF Suspended
  <2>4. ASSUME Demoted(u)
        PROVE  Completed(u)' = Completed(u) /\ (Demoted(u)' \/ "admin" \in account'[u].roles)
    <3>1. \A r \in Puts(u) : ~Permitted(r)
      BY <2>4 DEF Demoted, Puts, Permitted, Caller
    <3>2. \A r \in Puts(u) : /\ pc'[r] \in {"base", "permissions"} \cup Ends
                             /\ pc[r] = "done" <=> pc'[r] = "done"
      BY <2>1, <2>4, <3>1 DEF Demoted, Puts, Checked, PutEvolves, Ends
    <3>3. Completed(u)' = Completed(u)
      BY <2>2, <3>2 DEF Completed
    <3> QED
      BY <2>2, <2>4, <3>2, <3>3 DEF Demoted, Checked, Puts
  <2> QED
    BY <2>3, <2>4
<1>2. IInv /\ IInv' /\ [Next]_vars =>
        \A u \in Users :
          /\ Suspended(u) => /\ Completed(u)' = Completed(u)
                             /\ Suspended(u)' \/ MayAct(u)'
          /\ Demoted(u) => /\ Completed(u)' = Completed(u)
                           /\ Demoted(u)' \/ "admin" \in account'[u].roles
  BY <1>1
<1> QED
  BY <1>2, Invariant, PTL DEF Spec, RevokedStaysOut
=============================================================================
