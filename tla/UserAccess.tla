----------------------------- MODULE UserAccess ------------------------------
(***************************************************************************)
(* Who may do what: AuthRepository, and the three requests that change it. *)
(*   login      GET /auth/callback: the user is upserted; in a second      *)
(*              transaction the roles that Entra names are added           *)
(*   put        PUT /admin/user-access/users/{id}/roles                    *)
(*   bootstrap  POST /auth/bootstrap-admin                                 *)
(*                                                                         *)
(* PostgreSQL runs the transactions under READ COMMITTED: an update locks  *)
(* the row of a user until the end, ON CONFLICT DO NOTHING waits for a     *)
(* transaction that is inserting or deleting the same role of the same     *)
(* user, and locks nothing if the role is there.                           *)
(***************************************************************************)
EXTENDS Naturals

CONSTANTS
  Reqs,      \* requests
  Users,     \* users, in the database or yet to log in
  External,  \* those whose email is outside the company
  Allowed,   \* those in the bootstrap allowlist
  Names,     \* names of roles, in requests and in tokens
  AppRoles,  \* the names that app_role has
  Rank,      \* the alphabetical order of these
  Start,     \* the users at the start
  Jobs,      \* what a request may ask for
  Keep,      \* is_active or is_approved is not in the payload
  Nobody     \* no request, no role

ExternalRoles == {"user", "reviewer"}
Flags == BOOLEAN \cup {Keep}
Job ==
  [kind : {"login", "put", "bootstrap"}, by : Users, user : Users, names : SUBSET Names,
   active : Flags, approved : Flags]
Account == [known : BOOLEAN, active : BOOLEAN, approved : BOOLEAN, roles : SUBSET AppRoles]

ASSUME RolesType == {"admin", "user"} \subseteq AppRoles /\ AppRoles \subseteq Names
ASSUME NobodyFresh == Nobody \notin Reqs \cup AppRoles
ASSUME JobsType == Jobs \subseteq Job
ASSUME StartType == Start \in [Users -> Account] /\ \E u \in Users : "admin" \in Start[u].roles
ASSUME RankType ==
  /\ Rank \in [AppRoles -> Nat]
  /\ \A m, n \in AppRoles : Rank[m] = Rank[n] => m = n
  /\ \E m \in AppRoles : \A n \in AppRoles : Rank[n] <= Rank[m]

VARIABLES
  job,      \* what each request asks for
  tx,       \* the transaction that it is in: its kind, or "sync"
  pc,       \* the next statement
  todo,     \* the roles that are still to be inserted
  turn,     \* the one that comes next
  removed,  \* the roles that the transaction has deleted
  added,    \* the roles that it has inserted
  owner,    \* who has locked the row of a user
  account,  \* committed: app_user and app_user_role
  lastPut,  \* for the properties: the roles of the last change by an administrator,
  ensured,  \* those that other requests have ensured,
  stale     \* and whether roles changed after the permissions of a request were read

vars == <<job, tx, pc, todo, turn, removed, added, owner, account, lastPut, ensured, stale>>
locks == <<removed, added, owner>>
done == <<account, lastPut, ensured, stale>>

Ends   == {"done", "refused", "failed"}
Points == {"base", "permissions", "target", "row", "delete", "names", "grant", "commit"} \cup Ends
Kinds  == {"login", "sync", "put", "bootstrap"}

Target(r) == job[r].user
Caller(r) == account[job[r].by]
Found(r)  == job[r].names \cap AppRoles

(* The roles of the target that r sees, and those that others must leave   *)
(* alone until r ends.                                                     *)
Visible(r) == (account[Target(r)].roles \ removed[r]) \cup added[r]
Keys(r) == removed[r] \cup added[r]

(* r waits for q; everybody in S waits for somebody in S; S is a cycle. *)
Waits(r, q) ==
  /\ r # q /\ Target(r) = Target(q)
  /\ \/ pc[r] = "row" /\ owner[Target(r)] = q
     \/ pc[r] = "grant" /\ turn[r] \in Keys(q)
Free(r) == \A q \in Reqs : ~Waits(r, q)
Stuck(S) == S # {} /\ \A r \in S : \E q \in S : Waits(r, q)
Cycle(S) == Stuck(S) /\ \A T \in SUBSET S : Stuck(T) => T = S

Init ==
  /\ job \in [Reqs -> Jobs]
  /\ tx = [r \in Reqs |-> job[r].kind]
  /\ pc = [r \in Reqs |-> IF job[r].kind = "login" THEN "row" ELSE "base"]
  /\ todo = [r \in Reqs |-> {}]
  /\ turn = [r \in Reqs |-> Nobody]
  /\ removed = [r \in Reqs |-> {}]
  /\ added = [r \in Reqs |-> {}]
  /\ owner = [u \in Users |-> Nobody]
  /\ account = Start
  /\ lastPut = [u \in Users |-> Start[u].roles]
  /\ ensured = [u \in Users |-> {}]
  /\ stale = [r \in Reqs |-> FALSE]

Goto(r, p) == pc' = [pc EXCEPT ![r] = p]

(* Faulty variants of MayBeNext and Release, not part of Spec: the roles of *)
(* a token are inserted as they come; a connection goes back to the pool   *)
(* in the middle of a transaction.                                         *)
MayBeNextUnsorted(r, S, n) == n \in S
ReleaseNothing(r) ==
  /\ todo' = [todo EXCEPT ![r] = {}]
  /\ turn' = [turn EXCEPT ![r] = Nobody]
  /\ UNCHANGED locks

(* A role sync inserts the names in alphabetical order, a role change in   *)
(* the order in which the database returns them.                           *)
MayBeNext(r, S, n) == n \in S /\ (tx[r] = "sync" => \A m \in S : Rank[n] <= Rank[m])

(* A role sync approves the user in the end if a role other than "user" is *)
(* among those it found.                                                   *)
AfterGrants(r) == IF tx[r] = "sync" /\ ~(Found(r) \subseteq {"user"}) THEN "row" ELSE "commit"

Grant(r, S) ==
  /\ todo' = [todo EXCEPT ![r] = S]
  /\ IF S = {}
     THEN turn' = [turn EXCEPT ![r] = Nobody] /\ Goto(r, AfterGrants(r))
     ELSE /\ \E n \in S : MayBeNext(r, S, n) /\ turn' = [turn EXCEPT ![r] = n]
          /\ Goto(r, "grant")

LockRow(r) ==
  /\ pc[r] = "row"
  /\ owner[Target(r)] = Nobody
  /\ owner' = [owner EXCEPT ![Target(r)] = r]

(* COMMIT and ROLLBACK release the locks. *)
Release(r) ==
  /\ owner' = [u \in Users |-> IF owner[u] = r THEN Nobody ELSE owner[u]]
  /\ removed' = [removed EXCEPT ![r] = {}]
  /\ added' = [added EXCEPT ![r] = {}]
  /\ todo' = [todo EXCEPT ![r] = {}]
  /\ turn' = [turn EXCEPT ![r] = Nobody]

-----------------------------------------------------------------------------
(* Faulty variants of what is below, not part of Spec: with one of them in *)
(* place of the original, a property fails.                                *)

(* An administrator may give up the role. *)
ReadPermissionsSelf(r) ==
  /\ pc[r] = "permissions"
  /\ "admin" \in Caller(r).roles
  /\ Goto(r, "target")
  /\ UNCHANGED <<job, tx, todo, turn, locks, done>>

(* The flags are changed last, and so the row is locked last. *)
UpdateUnlocked(r) ==
  /\ tx[r] = "put" /\ pc[r] = "row"
  /\ Goto(r, "delete")
  /\ UNCHANGED <<job, tx, todo, turn, locks, done>>

(* Whoever is logged in may change roles. *)
PermittedToAll(r) == job[r].by = Target(r) => "admin" \in job[r].names

-----------------------------------------------------------------------------
(* GET_USER_BASE of the caller, who has to be active and approved for a    *)
(* change of roles.                                                        *)
Present(r) == /\ Caller(r).known
              /\ job[r].kind = "put" => Caller(r).active /\ Caller(r).approved
              /\ job[r].kind = "bootstrap" => job[r].by \in Allowed
ReadBase(r) ==
  /\ pc[r] = "base"
  /\ Present(r)
  /\ Goto(r, IF tx[r] = "put" THEN "permissions" ELSE "row")
  /\ UNCHANGED <<job, tx, todo, turn, locks, done>>

(* GET_USER_PERMISSIONS: only the role admin has admin.access.  Nobody may *)
(* remove the role from himself.                                           *)
Permitted(r) == /\ "admin" \in Caller(r).roles
                /\ job[r].by = Target(r) => "admin" \in job[r].names
ReadPermissions(r) ==
  /\ pc[r] = "permissions"
  /\ Permitted(r)
  /\ Goto(r, "target")
  /\ UNCHANGED <<job, tx, todo, turn, locks, done>>

(* get_app_user_email of the user whose roles change. *)
Eligible(r) == /\ account[Target(r)].known
               /\ Target(r) \in External => job[r].names \subseteq ExternalRoles
ReadTarget(r) ==
  /\ pc[r] = "target"
  /\ Eligible(r)
  /\ Goto(r, "row")
  /\ UNCHANGED <<job, tx, todo, turn, locks, done>>

(* UPSERT_APP_USER, then the role "user"; APPROVE_USER, then "admin". *)
Upsert(r) ==
  /\ tx[r] \in {"login", "bootstrap"}
  /\ LockRow(r)
  /\ Grant(r, IF tx[r] = "login" THEN {"user"} ELSE {"admin"})
  /\ UNCHANGED <<job, tx, removed, added, done>>

(* UPDATE_USER_APPROVAL, then DELETE_USER_ROLES. *)
Update(r) ==
  /\ tx[r] = "put"
  /\ LockRow(r)
  /\ Goto(r, "delete")
  /\ UNCHANGED <<job, tx, todo, turn, removed, added, done>>

(* APPROVE_USER at the end of a role sync. *)
Approve(r) ==
  /\ tx[r] = "sync"
  /\ LockRow(r)
  /\ Goto(r, "commit")
  /\ UNCHANGED <<job, tx, todo, turn, removed, added, done>>

Delete(r) ==
  /\ pc[r] = "delete"
  /\ removed' = [removed EXCEPT ![r] = account[Target(r)].roles]
  /\ Goto(r, IF job[r].names = {} THEN "commit" ELSE "names")
  /\ UNCHANGED <<job, tx, todo, turn, added, owner, done>>

(* GET_ROLE_IDS_BY_NAME: a change of roles names none that is unknown. *)
SelectRoles(r) ==
  /\ pc[r] = "names"
  /\ tx[r] = "put" => job[r].names \subseteq AppRoles
  /\ Grant(r, Found(r))
  /\ UNCHANGED <<job, tx, locks, done>>

(* ENSURE_ROLE, INSERT_USER_ROLE: nothing happens if the role is there. *)
Ensure(r) ==
  /\ pc[r] = "grant"
  /\ Free(r)
  /\ added' = [added EXCEPT ![r] = IF turn[r] \in Visible(r) THEN @ ELSE @ \cup {turn[r]}]
  /\ Grant(r, todo[r] \ {turn[r]})
  /\ UNCHANGED <<job, tx, removed, owner, done>>

(* The target after r's transaction. *)
Or(flag, old) == IF flag = Keep THEN old ELSE flag
Written(r) ==
  LET old  == account[Target(r)]
      mine == owner[Target(r)] = r
  IN [known    |-> old.known \/ tx[r] = "login",
      active   |-> IF tx[r] = "put" THEN Or(job[r].active, old.active) ELSE old.active \/ mine,
      approved |-> IF tx[r] = "put" THEN Or(job[r].approved, old.approved)
                   ELSE old.approved \/ (mine /\ tx[r] # "login"),
      roles    |-> (old.roles \ removed[r]) \cup added[r]]

(* Those whose permissions have been read. *)
Checked(r) == tx[r] = "put" /\ pc[r] \notin Ends \cup {"base", "permissions"}

(* After a login, if the token has roles, their sync. *)
Commit(r) ==
  /\ pc[r] = "commit"
  /\ account' = [account EXCEPT ![Target(r)] = Written(r)]
  /\ Release(r)
  /\ IF tx[r] = "login" /\ job[r].names # {}
     THEN tx' = [tx EXCEPT ![r] = "sync"] /\ Goto(r, "names")
     ELSE tx' = tx /\ Goto(r, "done")
  /\ lastPut' = [lastPut EXCEPT ![Target(r)] = IF tx[r] = "put" THEN job[r].names ELSE @]
  /\ ensured' = [ensured EXCEPT ![Target(r)] = IF tx[r] = "put" THEN @ ELSE @ \cup added[r]]
  /\ stale' = [q \in Reqs |-> stale[q] \/ (tx[r] = "put" /\ q # r /\ Checked(q))]
  /\ UNCHANGED job

Rollback(r, p) ==
  /\ Goto(r, p)
  /\ Release(r)
  /\ UNCHANGED <<job, tx, done>>

(* 401, 403, 404 or 400. *)
Refuse(r) ==
  /\ \/ pc[r] = "base" /\ ~Present(r)
     \/ pc[r] = "permissions" /\ ~Permitted(r)
     \/ pc[r] = "target" /\ ~Eligible(r)
     \/ pc[r] = "names" /\ tx[r] = "put" /\ ~(job[r].names \subseteq AppRoles)
  /\ Rollback(r, "refused")

(* A lost connection, a cancellation. *)
Break(r) == pc[r] \notin Ends /\ Rollback(r, "failed")

(* PostgreSQL finds a cycle and ends one of its transactions. *)
Victim(r) == (\E S \in SUBSET Reqs : r \in S /\ Cycle(S)) /\ Rollback(r, "failed")

Step(r) ==
  \/ ReadBase(r) \/ ReadPermissions(r) \/ ReadTarget(r) \/ Upsert(r) \/ Update(r)
  \/ Approve(r) \/ Delete(r) \/ SelectRoles(r) \/ Ensure(r) \/ Commit(r) \/ Refuse(r)

Next == \E r \in Reqs : Step(r) \/ Break(r) \/ Victim(r)

Spec == Init /\ [][Next]_vars

(* Statements that wait for no lock are executed, and PostgreSQL checks    *)
(* for deadlocks after deadlock_timeout.                                   *)
Fairness ==
  /\ \A r \in Reqs : WF_vars(Step(r))
  /\ WF_vars(\E r \in Reqs : Victim(r))
FairSpec == Spec /\ Fairness

-----------------------------------------------------------------------------
(* Properties. *)

TypeOK ==
  /\ job \in [Reqs -> Jobs]
  /\ tx \in [Reqs -> Kinds]
  /\ pc \in [Reqs -> Points]
  /\ todo \in [Reqs -> SUBSET AppRoles]
  /\ turn \in [Reqs -> AppRoles \cup {Nobody}]
  /\ removed \in [Reqs -> SUBSET AppRoles]
  /\ added \in [Reqs -> SUBSET AppRoles]
  /\ owner \in [Users -> Reqs \cup {Nobody}]
  /\ account \in [Users -> Account]
  /\ lastPut \in [Users -> SUBSET Names]
  /\ ensured \in [Users -> SUBSET AppRoles]
  /\ stale \in [Reqs -> BOOLEAN]

(* set_user_roles deletes all the roles of a user and inserts those of the *)
(* request.  Two such changes of one user never mix: he has the roles of   *)
(* the last, and beyond them only what logins or a bootstrap have ensured. *)
RolesOfLastChange ==
  \A u \in Users : /\ lastPut[u] \subseteq account[u].roles
                   /\ account[u].roles \subseteq lastPut[u] \cup ensured[u]

(* "Cannot remove your own admin role" keeps one administrator, but for    *)
(* changes that overlap: one commits after the permissions of the other    *)
(* were read.                                                              *)
AdminRemains ==
  \/ \E u \in Users : "admin" \in account[u].roles
  \/ \E r \in Reqs : tx[r] = "put" /\ pc[r] = "done" /\ stale[r]

(* The flags of a caller and his roles are read in two statements before   *)
(* the transaction.  Who is deactivated or has lost the role admin, and    *)
(* has no change past the statement that reads it, completes no change     *)
(* until he has it back.                                                   *)
Puts(u) == {r \in Reqs : tx[r] = "put" /\ job[r].by = u}
Completed(u) == {r \in Puts(u) : pc[r] = "done"}
MayAct(u) == account[u].active /\ account[u].approved
Suspended(u) == ~MayAct(u) /\ \A r \in Puts(u) : pc[r] \in {"base"} \cup Ends
Demoted(u) == "admin" \notin account[u].roles /\ \A r \in Puts(u) : ~Checked(r)
RevokedStaysOut ==
  [][\A u \in Users :
       /\ Suspended(u) => /\ Completed(u)' = Completed(u)
                          /\ Suspended(u)' \/ MayAct(u)'
       /\ Demoted(u) => /\ Completed(u)' = Completed(u)
                        /\ Demoted(u)' \/ "admin" \in account'[u].roles]_vars

(* A deadlock takes a role sync, which locks roles first and the user      *)
(* last, and another transaction, which does the reverse.                  *)
DeadlockNeedsSync ==
  \A S \in SUBSET Reqs :
    Stuck(S) => (\E r \in S : tx[r] = "sync") /\ (\E r \in S : tx[r] # "sync")

(* Every request is answered: a deadlock does not last. *)
EveryRequestEnds == \A r \in Reqs : pc[r] \notin Ends ~> pc[r] \in Ends
=============================================================================
