------------------------- MODULE FormTemplatesProofs -------------------------
(* Theorems about FormTemplates, for any number of administrators and      *)
(* keys.  The argument: the lock on the template row is held from the      *)
(* update of the metadata to the commit, so what its holder reads between  *)
(* (the newest version, the active versions) is still true when it commits.*)
EXTENDS FormTemplates, TLAPS

USE KeyOfType, SeedFresh, NobodyFresh

-----------------------------------------------------------------------------
(* Types. *)

(* The initial values have their types. *)
LEMMA InitType == Init => TypeOK
BY DEF Init, TypeOK, Open, Ends

(* MaxVersion is the number of versions when they are 1..n. *)
LEMMA MaxOfInterval ==
  ASSUME NEW k \in Keys, NEW n \in Nat, Versions(k) = 1..n
  PROVE  MaxVersion(k) = n
<1> DEFINE P(x) == x \in (1..n) \cup {0} /\ \A m \in 1..n : m <= x
<1>1. P(n)
  OBVIOUS
<1>2. \A x : P(x) => x = n
  OBVIOUS
<1>3. MaxVersion(k) = CHOOSE x : P(x)
  BY DEF MaxVersion
<1> HIDE DEF P
<1> QED
  BY <1>1, <1>2, <1>3

(* The versions of every key are an interval, and the newest is active. *)
Intervals ==
  \A k \in Keys : \E n \in Nat :
    /\ Versions(k) = 1..n
    /\ active[k] = IF n > 0 THEN {n} ELSE {}
    /\ template[k] <=> n > 0

(* Under Intervals the newest version is the length of the interval. *)
LEMMA IntervalsMax ==
  ASSUME Intervals
  PROVE  NewestIsActive /\ \A k \in Keys : MaxVersion(k) \in Nat
<1> SUFFICES ASSUME NEW k \in Keys
             PROVE  /\ Versions(k) = 1..MaxVersion(k)
                    /\ active[k] = IF template[k] THEN {MaxVersion(k)} ELSE {}
                    /\ template[k] <=> MaxVersion(k) > 0
                    /\ MaxVersion(k) \in Nat
  BY DEF NewestIsActive
<1>1. PICK n \in Nat : /\ Versions(k) = 1..n
                       /\ active[k] = IF n > 0 THEN {n} ELSE {}
                       /\ template[k] <=> n > 0
  BY DEF Intervals
<1>2. MaxVersion(k) = n
  BY <1>1, MaxOfInterval
<1> QED
  BY <1>1, <1>2

(* Each statement keeps the types; ReadMax needs Intervals for a number. *)
LEMMA StepType == TypeOK /\ Intervals /\ [Next]_vars => TypeOK'
<1> SUFFICES ASSUME TypeOK, Intervals, [Next]_vars PROVE TypeOK'
  OBVIOUS
<1> USE DEF TypeOK, Goto, TakeLock, DropLock, Open, Ends
<1>1. ASSUME NEW c \in Saves, Refuse(c) \/ Step(c) \/ Abort(c) PROVE TypeOK'
  <2>1. CASE Refuse(c) \/ Abort(c)
    BY <2>1 DEF Refuse, Abort
  <2>2. CASE SelectTemplate(c)
    BY <2>2 DEF SelectTemplate
  <2>3. CASE CreateTemplate(c) \/ UpdateTemplate(c)
    BY <2>3 DEF CreateTemplate, UpdateTemplate
  <2>4. CASE ReadMax(c)
    BY <2>4, IntervalsMax DEF ReadMax
  <2>5. CASE Deactivate(c)
    BY <2>5 DEF Deactivate
  <2>6. CASE Insert(c)
    <3>1. KeyOf[c] \in Keys /\ next[c] \in Nat /\ pc' \in [Saves -> Open \cup Ends]
      BY <2>6 DEF Insert
    <3>2. [version |-> next[c], by |-> c] \in [version : Nat, by : Saves \cup {Seed}]
      BY <3>1
    <3>3. rows' \in [Keys -> SUBSET [version : Nat, by : Saves \cup {Seed}]]
      BY <2>6, <3>1, <3>2 DEF Insert
    <3>4. active' \in [Keys -> SUBSET Nat]
      BY <2>6, <3>1 DEF Insert
    <3> QED
      BY <2>6, <3>1, <3>3, <3>4 DEF Insert
  <2> QED
    BY <1>1, <2>1, <2>2, <2>3, <2>4, <2>5, <2>6 DEF Step
<1>2. CASE UNCHANGED vars
  BY <1>2 DEF vars, local
<1> QED
  BY <1>1, <1>2 DEF Next

-----------------------------------------------------------------------------
(* The inductive invariant. *)

(* A request holds the lock of its key exactly from the statement that     *)
(* takes it to the end of its transaction.                                 *)
LockHeld ==
  /\ \A c \in Saves : pc[c] \in Locked => lock[KeyOf[c]] = c
  /\ \A k \in Keys : lock[k] # Nobody => KeyOf[lock[k]] = k /\ pc[lock[k]] \in Locked

(* What the holder of the lock has read is still so. *)
ReadsHold ==
  \A c \in Saves :
    /\ pc[c] \in {"deactivate", "insert"} => next[c] = MaxVersion(KeyOf[c]) + 1
    /\ pc[c] = "insert" => off[c] = active[KeyOf[c]]

(* Rows and saved requests correspond. *)
Authors ==
  /\ \A k \in Keys : \A r \in rows[k] :
       r.by \in Saves => pc[r.by] = "saved" /\ KeyOf[r.by] = k /\ next[r.by] = r.version
  /\ \A k \in Keys : \A r, s \in rows[k] : r.version = s.version => r = s
  /\ \A c \in Saves : pc[c] = "saved" => [version |-> next[c], by |-> c] \in rows[KeyOf[c]]

IInv == Intervals /\ LockHeld /\ ReadsHold /\ Authors /\ OnlyCreatorsConflict

(* The seeded, or empty, tables satisfy the invariant. *)
LEMMA InitInv == Init => IInv
<1> SUFFICES ASSUME Init PROVE IInv
  OBVIOUS
<1>1. Intervals
  <2> SUFFICES ASSUME NEW k \in Keys
               PROVE \E n \in Nat : /\ Versions(k) = 1..n
                                    /\ active[k] = IF n > 0 THEN {n} ELSE {}
                                    /\ template[k] <=> n > 0
    BY DEF Intervals
  <2>1. CASE template[k]
    <3>1. rows[k] = {[version |-> 1, by |-> Seed]} /\ active[k] = {1}
      BY <2>1 DEF Init
    <3>2. Versions(k) = {1}
      BY <3>1 DEF Versions
    <3>3. 1..1 = {1}
      OBVIOUS
    <3> QED
      BY <2>1, <3>1, <3>2, <3>3
  <2>2. CASE ~template[k]
    <3>1. Versions(k) = 1..0 /\ active[k] = {}
      BY <2>2 DEF Init, Versions
    <3> QED
      BY <2>2, <3>1
  <2>3. template[k] \in BOOLEAN
    BY DEF Init
  <2> QED
    BY <2>1, <2>2, <2>3
<1>2. LockHeld /\ ReadsHold /\ OnlyCreatorsConflict
  BY DEF Init, LockHeld, ReadsHold, OnlyCreatorsConflict, Locked
<1>3. Authors
  BY DEF Init, Authors
<1> QED
  BY <1>1, <1>2, <1>3 DEF IInv

(* A statement that commits nothing: versions and activity stay. *)
LEMMA NothingCommitted ==
  ASSUME UNCHANGED <<template, rows, active>>
  PROVE  /\ Intervals => Intervals'
         /\ \A k \in Keys : MaxVersion(k)' = MaxVersion(k)
BY DEF Intervals, MaxVersion, Versions

(* The commit adds the next version of its key and activates only it. *)
LEMMA InsertCommits ==
  ASSUME TypeOK, IInv, NEW c \in Saves, Insert(c)
  PROVE  LET k == KeyOf[c] IN
         /\ next[c] = MaxVersion(k) + 1 /\ next[c] \notin Versions(k)
         /\ pc' = [pc EXCEPT ![c] = "saved"]
         /\ rows' = [rows EXCEPT ![k] = @ \cup {[version |-> next[c], by |-> c]}]
         /\ template' = [template EXCEPT ![k] = TRUE]
         /\ active' = [active EXCEPT ![k] = {next[c]}]
<1> DEFINE k == KeyOf[c]
<1>1. pc[c] = "insert" /\ k \in Keys
  BY DEF Insert
<1>2. next[c] = MaxVersion(k) + 1 /\ off[c] = active[k]
  BY <1>1 DEF IInv, ReadsHold
<1>3. Versions(k) = 1..MaxVersion(k) /\ MaxVersion(k) \in Nat
  BY <1>1, IntervalsMax DEF IInv, NewestIsActive
<1>4. next[c] \notin Versions(k)
  BY <1>2, <1>3
<1>5. (active[k] \ off[c]) \cup {next[c]} = {next[c]}
  BY <1>2
<1> QED
  BY <1>1, <1>2, <1>4, <1>5 DEF Insert, Goto

(* Only Insert commits rows, and it adds the next version of its key. *)
LEMMA StepIntervals == TypeOK /\ IInv /\ [Next]_vars => Intervals'
<1> SUFFICES ASSUME TypeOK, IInv, [Next]_vars PROVE Intervals'
  OBVIOUS
<1>1. CASE UNCHANGED <<template, rows, active>>
  BY <1>1, NothingCommitted DEF IInv
<1>2. ASSUME NEW c \in Saves, Insert(c) PROVE Intervals'
  <2> DEFINE k == KeyOf[c]
  <2>1. /\ next[c] = MaxVersion(k) + 1
        /\ rows' = [rows EXCEPT ![k] = @ \cup {[version |-> next[c], by |-> c]}]
        /\ template' = [template EXCEPT ![k] = TRUE]
        /\ active' = [active EXCEPT ![k] = {next[c]}]
    BY <1>2, InsertCommits
  <2>2. Versions(k) = 1..MaxVersion(k) /\ MaxVersion(k) \in Nat
    BY IntervalsMax DEF IInv, NewestIsActive
  <2> SUFFICES ASSUME NEW j \in Keys
               PROVE  \E n \in Nat : /\ Versions(j)' = 1..n
                                     /\ active'[j] = IF n > 0 THEN {n} ELSE {}
                                     /\ template'[j] <=> n > 0
    BY DEF Intervals
  <2>3. CASE j = k
    <3>1. Versions(k)' = Versions(k) \cup {next[c]}
      <4>1. rows'[k] = rows[k] \cup {[version |-> next[c], by |-> c]}
        BY <2>1 DEF TypeOK
      <4>2. Versions(k)' = {r.version : r \in rows'[k]}
        BY DEF Versions
      <4>3. [version |-> next[c], by |-> c].version = next[c]
        OBVIOUS
      <4> QED
        BY <4>1, <4>2, <4>3 DEF Versions
    <3>2. Versions(k)' = 1..next[c]
      BY <2>1, <2>2, <3>1
    <3>3. active'[k] = {next[c]} /\ template'[k] = TRUE /\ next[c] \in Nat /\ next[c] > 0
      BY <2>1, <2>2 DEF TypeOK
    <3> QED
      BY <2>3, <3>2, <3>3
  <2>4. CASE j # k
    <3>1. rows'[j] = rows[j] /\ active'[j] = active[j] /\ template'[j] = template[j]
      BY <2>1, <2>4 DEF TypeOK
    <3>2. Versions(j)' = Versions(j)
      BY <3>1 DEF Versions
    <3> QED
      BY <3>1, <3>2 DEF IInv, Intervals
  <2> QED
    BY <2>3, <2>4
<1>3. ASSUME NEW c \in Saves, Refuse(c) \/ Step(c) \/ Abort(c), ~Insert(c)
      PROVE  UNCHANGED <<template, rows, active>>
  BY <1>3 DEF Refuse, Step, Abort, SelectTemplate, CreateTemplate, UpdateTemplate, ReadMax,
              Deactivate
<1> QED
  BY <1>1, <1>2, <1>3 DEF Next, vars

(* A statement takes or drops the lock exactly where Locked says. *)
LEMMA StepLock == TypeOK /\ IInv /\ [Next]_vars => LockHeld'
<1> SUFFICES ASSUME TypeOK, LockHeld, [Next]_vars PROVE LockHeld'
  BY DEF IInv
<1> USE DEF TypeOK, LockHeld, Goto, TakeLock, DropLock, Locked, Open, Ends
<1>1. ASSUME NEW c \in Saves, Refuse(c) \/ Step(c) \/ Abort(c) PROVE LockHeld'
  <2>1. CASE Refuse(c) \/ SelectTemplate(c)
    BY <2>1 DEF Refuse, SelectTemplate
  <2>2. CASE CreateTemplate(c)
    BY <2>2 DEF CreateTemplate
  <2>3. CASE UpdateTemplate(c)
    BY <2>3 DEF UpdateTemplate
  <2>4. CASE ReadMax(c) \/ Deactivate(c)
    BY <2>4 DEF ReadMax, Deactivate
  <2>5. CASE Insert(c)
    BY <2>5 DEF Insert
  <2>6. CASE Abort(c)
    BY <2>6 DEF Abort
  <2> QED
    BY <1>1, <2>1, <2>2, <2>3, <2>4, <2>5, <2>6 DEF Step
<1>2. CASE UNCHANGED vars
  BY <1>2 DEF vars, local
<1> QED
  BY <1>1, <1>2 DEF Next

(* Only the holder of the lock of a key commits under it, so nobody else's *)
(* reads become stale.                                                     *)
LEMMA StepReads == TypeOK /\ IInv /\ [Next]_vars => ReadsHold'
<1> SUFFICES ASSUME TypeOK, IInv, [Next]_vars,
                    NEW x \in Saves, pc'[x] \in {"deactivate", "insert"}
             PROVE  /\ next'[x] = MaxVersion(KeyOf[x])' + 1
                    /\ pc'[x] = "insert" => off'[x] = active'[KeyOf[x]]
  BY DEF ReadsHold
<1>0. KeyOf[x] \in Keys
  OBVIOUS
<1>1. CASE UNCHANGED <<template, rows, active>>
  <2>0. MaxVersion(KeyOf[x])' = MaxVersion(KeyOf[x])
    BY <1>0, <1>1, NothingCommitted
  <2>1. ASSUME NEW c \in Saves, Refuse(c) \/ Step(c) \/ Abort(c) PROVE
                 /\ next'[x] = MaxVersion(KeyOf[x]) + 1
                 /\ pc'[x] = "insert" => off'[x] = active[KeyOf[x]]
    <3> USE DEF TypeOK, IInv, ReadsHold, Goto, Open, Ends
    <3>1. CASE Refuse(c) \/ SelectTemplate(c) \/ CreateTemplate(c) \/ UpdateTemplate(c)
      BY <3>1 DEF Refuse, SelectTemplate, CreateTemplate, UpdateTemplate
    <3>2. CASE ReadMax(c)
      BY <3>2 DEF ReadMax
    <3>3. CASE Deactivate(c)
      BY <3>3 DEF Deactivate
    <3>4. CASE Insert(c) \/ Abort(c)
      BY <3>4 DEF Insert, Abort
    <3> QED
      BY <2>1, <3>1, <3>2, <3>3, <3>4 DEF Step
  <2>2. CASE UNCHANGED vars
    BY <2>0, <2>2 DEF vars, local, IInv, ReadsHold
  <2> QED
    BY <1>1, <2>0, <2>1, <2>2 DEF Next
<1>2. ASSUME NEW c \in Saves, Insert(c)
      PROVE  /\ next'[x] = MaxVersion(KeyOf[x])' + 1
             /\ pc'[x] = "insert" => off'[x] = active'[KeyOf[x]]
  <2>1. /\ pc' = [pc EXCEPT ![c] = "saved"]
        /\ rows' = [rows EXCEPT ![KeyOf[c]] = @ \cup {[version |-> next[c], by |-> c]}]
        /\ active' = [active EXCEPT ![KeyOf[c]] = {next[c]}]
    BY <1>2, InsertCommits
  <2>2. x # c /\ pc[x] = pc'[x]
    BY <2>1 DEF TypeOK
  <2>3. KeyOf[x] # KeyOf[c]
    <3>1. lock[KeyOf[c]] = c /\ lock[KeyOf[x]] = x
      BY <1>2, <2>2 DEF Insert, IInv, LockHeld, Locked
    <3> QED
      BY <2>2, <3>1
  <2>4. rows'[KeyOf[x]] = rows[KeyOf[x]] /\ active'[KeyOf[x]] = active[KeyOf[x]]
    BY <1>0, <2>1, <2>3 DEF TypeOK
  <2>5. MaxVersion(KeyOf[x])' = MaxVersion(KeyOf[x])
    BY <2>4 DEF MaxVersion, Versions
  <2> QED
    BY <1>2, <2>2, <2>4, <2>5 DEF Insert, IInv, ReadsHold
<1>3. ASSUME NEW c \in Saves, Refuse(c) \/ Step(c) \/ Abort(c), ~Insert(c)
      PROVE  UNCHANGED <<template, rows, active>>
  BY <1>3 DEF Refuse, Step, Abort, SelectTemplate, CreateTemplate, UpdateTemplate, ReadMax,
              Deactivate
<1> QED
  BY <1>1, <1>2, <1>3 DEF Next, vars

(* A committed row belongs to the request that was answered with it. *)
LEMMA StepAuthors == TypeOK /\ IInv /\ [Next]_vars => Authors'
<1> SUFFICES ASSUME TypeOK, IInv, [Next]_vars PROVE Authors'
  OBVIOUS
<1>1. ASSUME NEW c \in Saves, Insert(c) PROVE Authors'
  <2> DEFINE k == KeyOf[c]
             row == [version |-> next[c], by |-> c]
  <2>1. /\ next[c] \notin Versions(k)
        /\ pc' = [pc EXCEPT ![c] = "saved"]
        /\ rows' = [rows EXCEPT ![k] = @ \cup {row}]
    BY <1>1, InsertCommits
  <2>2. pc[c] = "insert" /\ next' = next
    BY <1>1 DEF Insert
  <2>3. /\ row.version = next[c] /\ row.by = c /\ k \in Keys
        /\ \A r \in rows[k] : r.version # next[c]
        /\ \A j \in Keys : rows'[j] = IF j = k THEN rows[k] \cup {row} ELSE rows[j]
    BY <2>1 DEF Versions, TypeOK
  <2>4. \A j \in Keys : \A r \in rows'[j] :
          r.by \in Saves => pc'[r.by] = "saved" /\ KeyOf[r.by] = j /\ next'[r.by] = r.version
    <3>1. \A j \in Keys : \A r \in rows[j] : r.by # c
      BY <2>2 DEF IInv, Authors
    <3> QED
      BY <2>1, <2>2, <2>3, <3>1 DEF IInv, Authors, TypeOK
  <2>5. \A j \in Keys : \A r, s \in rows'[j] : r.version = s.version => r = s
    BY <2>3 DEF IInv, Authors
  <2>6. \A x \in Saves : pc'[x] = "saved" => [version |-> next'[x], by |-> x] \in rows'[KeyOf[x]]
    BY <2>1, <2>2, <2>3 DEF IInv, Authors, TypeOK
  <2> QED
    BY <2>4, <2>5, <2>6 DEF Authors
<1>2. ASSUME NEW c \in Saves, Refuse(c) \/ Step(c) \/ Abort(c), ~Insert(c) PROVE Authors'
  <2>1. UNCHANGED rows
    BY <1>2 DEF Refuse, Step, Abort, SelectTemplate, CreateTemplate, UpdateTemplate, ReadMax,
                Deactivate
  <2>2. \A x \in Saves : (pc'[x] = "saved" <=> pc[x] = "saved")
                         /\ (pc[x] = "saved" => next'[x] = next[x])
    BY <1>2 DEF Refuse, Step, Abort, SelectTemplate, CreateTemplate, UpdateTemplate, ReadMax,
                Deactivate, Goto, TypeOK, Open
  <2> QED
    BY <2>1, <2>2 DEF IInv, Authors
<1>3. CASE UNCHANGED vars
  BY <1>3 DEF vars, local, IInv, Authors
<1> QED
  BY <1>1, <1>2, <1>3 DEF Next

(* Under the lock the next version is free: an Insert never conflicts. *)
LEMMA StepConflict == TypeOK /\ IInv /\ [Next]_vars => OnlyCreatorsConflict'
<1> SUFFICES ASSUME TypeOK, IInv, [Next]_vars PROVE OnlyCreatorsConflict'
  OBVIOUS
<1> USE DEF TypeOK, IInv, OnlyCreatorsConflict, Goto, Open, Ends
<1>1. ASSUME NEW c \in Saves, Insert(c) PROVE OnlyCreatorsConflict'
  <2>1. pc' = [pc EXCEPT ![c] = "saved"] /\ found' = found
    BY <1>1, InsertCommits DEF Insert
  <2> QED
    BY <2>1
<1>2. ASSUME NEW c \in Saves, Refuse(c) \/ Step(c) \/ Abort(c), ~Insert(c)
      PROVE  OnlyCreatorsConflict'
  BY <1>2 DEF Refuse, Step, Abort, SelectTemplate, CreateTemplate, UpdateTemplate, ReadMax,
              Deactivate
<1>3. CASE UNCHANGED vars
  BY <1>3 DEF vars, local
<1> QED
  BY <1>1, <1>2, <1>3 DEF Next

(* Everything an administrator relies on, for any number of them: types,   *)
(* the newest version is the only active one, saves are kept under the     *)
(* version they were told, and only creators of a template can conflict.   *)
LEMMA Inductive == Spec => [](TypeOK /\ IInv)
<1>1. Init => TypeOK /\ IInv
  BY InitType, InitInv
<1>2. TypeOK /\ IInv /\ [Next]_vars => TypeOK' /\ IInv'
  BY StepType, StepIntervals, StepLock, StepReads, StepAuthors, StepConflict DEF IInv
<1> QED
  BY <1>1, <1>2, PTL DEF Spec

(* The variables keep their types. *)
THEOREM TypeCorrect == Spec => []TypeOK
BY Inductive, PTL

(* Ingest always finds exactly one active version of a template, the       *)
(* newest, and the versions have no gap.                                   *)
THEOREM NewestAlwaysActive == Spec => []NewestIsActive
<1>1. IInv => NewestIsActive
  BY IntervalsMax DEF IInv
<1> QED
  BY <1>1, Inductive, PTL

(* No answered save is lost or overwritten. *)
THEOREM NoSaveLost == Spec => []SavesAreKept
<1>1. TypeOK /\ IInv => SavesAreKept
  <2> SUFFICES ASSUME TypeOK, IInv, NEW c \in Saves, pc[c] = "saved"
               PROVE  {r \in rows[KeyOf[c]] : r.version = next[c] \/ r.by = c}
                        = {[version |-> next[c], by |-> c]}
    BY DEF SavesAreKept
  <2> DEFINE row == [version |-> next[c], by |-> c]
  <2>1. row \in rows[KeyOf[c]] /\ row.version = next[c] /\ row.by = c /\ KeyOf[c] \in Keys
    BY DEF IInv, Authors
  <2>2. ASSUME NEW r \in rows[KeyOf[c]], r.version = next[c] \/ r.by = c PROVE r = row
    <3>1. r.version = next[c]
      BY <2>1, <2>2 DEF IInv, Authors
    <3> QED
      BY <2>1, <3>1 DEF IInv, Authors
  <2> QED
    BY <2>1, <2>2
<1> QED
  BY <1>1, Inductive, PTL

(* Saving under an existing template never fails on a unique constraint.   *)
THEOREM SavesSerialised == Spec => []OnlyCreatorsConflict
<1>1. IInv => OnlyCreatorsConflict
  BY DEF IInv
<1> QED
  BY <1>1, Inductive, PTL

-----------------------------------------------------------------------------
(* Refinement: to the rest of the system, a commit publishes one version   *)
(* and every other statement changes nothing.                              *)

Latest == [k \in Keys |-> MaxVersion(k)]

(* A key starts at version 0 or 1 of the abstract specification. *)
LEMMA InitRefines == Init => Abstract!Init
<1> SUFFICES ASSUME Init PROVE Latest \in [Keys -> {0, 1}]
  BY DEF Abstract!Init, Latest
<1> SUFFICES ASSUME NEW k \in Keys PROVE MaxVersion(k) \in {0, 1}
  BY DEF Latest
<1>1. CASE template[k]
  <2>1. rows[k] = {[version |-> 1, by |-> Seed]}
    BY <1>1 DEF Init
  <2>2. Versions(k) = {1}
    BY <2>1 DEF Versions
  <2>3. {1} = 1..1
    OBVIOUS
  <2> QED
    BY <2>2, <2>3, MaxOfInterval
<1>2. CASE ~template[k]
  <2>1. Versions(k) = {}
    BY <1>2 DEF Init, Versions
  <2>2. 1..0 = {}
    OBVIOUS
  <2> QED
    BY <2>1, <2>2, MaxOfInterval
<1> QED
  BY <1>1, <1>2

(* A committing Insert publishes a version; other statements stutter. *)
LEMMA StepRefines == TypeOK /\ IInv /\ IInv' /\ [Next]_vars => [Abstract!Next]_Latest
<1> SUFFICES ASSUME TypeOK, IInv, IInv', [Next]_vars PROVE [Abstract!Next]_Latest
  OBVIOUS
<1>1. CASE UNCHANGED <<template, rows, active>>
  <2>1. \A k \in Keys : MaxVersion(k)' = MaxVersion(k)
    BY <1>1, NothingCommitted
  <2>2. Latest' = Latest
    BY <2>1 DEF Latest
  <2> QED
    BY <2>2
<1>2. ASSUME NEW c \in Saves, Insert(c) PROVE Abstract!Next
  <2> DEFINE k == KeyOf[c]
  <2>1. /\ next[c] = MaxVersion(k) + 1
        /\ rows' = [rows EXCEPT ![k] = @ \cup {[version |-> next[c], by |-> c]}]
        /\ active' = [active EXCEPT ![k] = {next[c]}]
        /\ template' = [template EXCEPT ![k] = TRUE]
    BY <1>2, InsertCommits
  <2>2. MaxVersion(k)' = MaxVersion(k) + 1
    <3>1. active'[k] = {next[c]} /\ template'[k] = TRUE
      BY <2>1 DEF TypeOK
    <3>2. NewestIsActive'
      BY IntervalsMax, PTL DEF IInv
    <3>3. active'[k] = {MaxVersion(k)'}
      BY <3>1, <3>2 DEF NewestIsActive
    <3> QED
      BY <2>1, <3>1, <3>3
  <2>3. ASSUME NEW j \in Keys, j # k PROVE MaxVersion(j)' = MaxVersion(j)
    <3>1. rows'[j] = rows[j]
      BY <2>1, <2>3 DEF TypeOK
    <3> QED
      BY <3>1 DEF MaxVersion, Versions
  <2>4. Latest' = [Latest EXCEPT ![k] = @ + 1]
    BY <2>2, <2>3 DEF Latest
  <2> QED
    BY <2>4 DEF Abstract!Next, Abstract!Publish, Latest
<1>3. ASSUME NEW c \in Saves, Refuse(c) \/ Step(c) \/ Abort(c), ~Insert(c)
      PROVE  UNCHANGED <<template, rows, active>>
  BY <1>3 DEF Refuse, Step, Abort, SelectTemplate, CreateTemplate, UpdateTemplate, ReadMax,
              Deactivate
<1> QED
  BY <1>1, <1>2, <1>3 DEF Next, vars

(* Concurrent saving implements the one-version-at-a-time publication that *)
(* the review requests are modelled with.                                  *)
THEOREM Refinement == Spec => PublishesVersions
<1>1. TypeOK /\ IInv /\ IInv' /\ [Next]_vars => [Abstract!Next]_Latest
  BY StepRefines
<1> QED
  BY <1>1, InitRefines, Inductive, PTL DEF Spec, PublishesVersions, Abstract!Spec, Latest
=============================================================================
