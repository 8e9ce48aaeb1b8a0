----------------------------- MODULE BackupProofs -----------------------------
(***************************************************************************)
(* Which backups are consistent and which are restored whole, for every    *)
(* schema, every order of the tables and every content.                    *)
(***************************************************************************)
EXTENDS Backup, SequenceTheorems, TLAPS

(* Positions in the two orders. *)
LEMMA OrderTypes ==
  /\ Len(Tables) \in Nat \ {0} /\ DOMAIN Tables = 1..Len(Tables)
  /\ Len(Manifest) \in Nat \ {0} /\ DOMAIN Manifest = 1..Len(Manifest)
  /\ \A i \in DOMAIN Tables : Tables[i] \in Names
  /\ \A i \in DOMAIN Manifest : Manifest[i] \in Names
<1>1. Tables \in Seq(Names) /\ Tables # <<>>
  BY TablesType
<1>2. Manifest \in Seq(Names) /\ Manifest # <<>>
  BY ManifestType
<1> QED
  BY <1>1, <1>2, EmptySeq, LenProperties, ElementOfSeq

(* The next position is one, unless this was the last.                     *)
LEMMA OrderSteps ==
  /\ \A i \in DOMAIN Tables : Tables[i] \in Names
  /\ \A i \in DOMAIN Manifest : Manifest[i] \in Names
  /\ 1 \in DOMAIN Tables /\ 1 \in DOMAIN Manifest
  /\ \A i \in DOMAIN Tables : i # Len(Tables) => i + 1 \in DOMAIN Tables
  /\ \A i \in DOMAIN Manifest : i # Len(Manifest) => i + 1 \in DOMAIN Manifest
BY OrderTypes

(* Backup keeps its types. *)
THEOREM TypeCorrect == Spec => []TypeOK
<1>1. Init => TypeOK
  BY DEF Init, TypeOK, Phases
<1>2. TypeOK /\ [Next]_vars => TypeOK'
  <2> SUFFICES ASSUME TypeOK, [Next]_vars PROVE TypeOK'
    OBVIOUS
  <2> USE OrderSteps DEF TypeOK, Phases
  <2>1. ASSUME NEW t \in Names, NEW k \in Things, Write(t, k) PROVE TypeOK'
    BY <2>1 DEF Write
  <2>2. ASSUME NEW t \in Names, NEW k \in Things, Delete(t, k) PROVE TypeOK'
    BY <2>2 DEF Delete
  <2>3. CASE Recreate
    BY <2>3 DEF Recreate
  <2>4. CASE Begin("live", "export")
    BY <2>4 DEF Begin
  <2>5. CASE Begin("backed_up", "truncate")
    BY <2>5 DEF Begin
  <2>6. CASE ExportTable
    <3>1. next' \in Nat \ {0} /\ (phase' = "export" => next' \in DOMAIN Tables)
      BY <2>6 DEF ExportTable, Advance
    <3>2. Tables[next] \in Names
      BY <2>6 DEF ExportTable
    <3>3. phase' \in {"export", "backed_up"} /\ db' = db
      BY <2>6 DEF ExportTable, Advance
    <3>4. errors' \subseteq Names /\ file' \in [Names -> SUBSET Things]
      BY <2>6, <3>2 DEF ExportTable
    <3> QED
      BY <3>1, <3>3, <3>4
  <2>7. CASE ExportFails
    <3>1. next' \in Nat \ {0} /\ (phase' = "export" => next' \in DOMAIN Tables)
      BY <2>7 DEF ExportFails, Advance
    <3>2. Tables[next] \in Names
      BY <2>7 DEF ExportFails
    <3>3. phase' \in {"export", "backed_up"} /\ db' = db
      BY <2>7 DEF ExportFails, Advance
    <3>4. errors' \subseteq Names /\ file' \in [Names -> SUBSET Things]
      BY <2>7, <3>2 DEF ExportFails
    <3> QED
      BY <3>1, <3>3, <3>4
  <2>8. CASE TruncateTable
    BY <2>8 DEF TruncateTable
  <2>9. CASE CopyTable
    BY <2>9 DEF CopyTable, Advance
  <2>10. CASE CopyFails
    BY <2>10 DEF CopyFails
  <2>11. CASE UNCHANGED vars
    BY <2>11 DEF vars
  <2> QED
    BY <2>1, <2>2, <2>3, <2>4, <2>5, <2>6, <2>7, <2>8, <2>9, <2>10, <2>11 DEF Next
<1> QED
  BY <1>1, <1>2, PTL DEF Spec

-----------------------------------------------------------------------------
(* What is restored.                                                       *)

(* TRUNCATE empties the table that it names.                               *)
LEMMA CascadeSelf == \A t \in Names : t \in Cascade(t)
BY DEF Cascade

(* Each table after those that it refers to, or before them.               *)
ParentsFirst == \A i, j \in DOMAIN Manifest : <<Manifest[i], Manifest[j]>> \in Refs => j < i
ChildrenFirst == \A i, j \in DOMAIN Tables : <<Tables[i], Tables[j]>> \in Refs => i < j

(* If parents come first, no TRUNCATE reaches back.                        *)
LEMMA CascadeOnward ==
  ASSUME ParentsFirst, NEW i \in DOMAIN Manifest, NEW j \in DOMAIN Manifest, i < j
  PROVE  Manifest[i] \notin Cascade(Manifest[j])
<1> DEFINE S == {Manifest[k] : k \in {k \in DOMAIN Manifest : j <= k}}
<1>1. S \in SUBSET Names /\ Manifest[j] \in S
  BY OrderTypes
<1>2. Closed(S)
  <2> SUFFICES ASSUME NEW t \in S, NEW u \in Children(t) PROVE u \in S
    BY DEF Closed
  <2>1. PICK k \in DOMAIN Manifest : t = Manifest[k] /\ j <= k
    OBVIOUS
  <2>2. PICK m \in DOMAIN Manifest : u = Manifest[m]
    BY ManifestType DEF Children
  <2>3. k < m
    BY <2>1, <2>2 DEF Children, ParentsFirst
  <2> QED
    BY <2>1, <2>2, <2>3, OrderTypes
<1>3. Manifest[i] \notin S
  BY ManifestType, OrderTypes
<1> QED
  BY <1>1, <1>2, <1>3 DEF Cascade

(* The tables that have been loaded, and emptied, so far. *)
Loaded(i) == phase = "restored" \/ (phase \in {"truncate", "copy"} /\ i < next)
Cut(j) == phase = "restored" \/ (phase = "truncate" /\ j < next) \/ (phase = "copy" /\ j <= next)
CutSince(i) == \E j \in DOMAIN Manifest : i < j /\ Cut(j) /\ Manifest[i] \in Cascade(Manifest[j])

RestoreInv ==
  /\ \A i \in DOMAIN Manifest :
       Loaded(i) => db[Manifest[i]] = IF CutSince(i) THEN {} ELSE file[Manifest[i]]
  /\ phase = "copy" => db[Manifest[next]] = {}
  /\ StopsForOrder

(* A restore keeps it: each table is emptied just before it is loaded.     *)
LEMMA RestoreInvHolds == Spec => []RestoreInv
<1>1. Init => RestoreInv
  BY DEF Init, RestoreInv, Loaded, StopsForOrder
<1>2. TypeOK /\ RestoreInv /\ [Next]_vars => RestoreInv'
  <2> SUFFICES ASSUME TypeOK, RestoreInv, [Next]_vars PROVE RestoreInv'
    OBVIOUS
  <2>0. DOMAIN Manifest \subseteq Nat \ {0} /\ \A i \in DOMAIN Manifest : Manifest[i] \in Names
    BY OrderTypes
  <2>1. ASSUME NEW t \in Names, NEW k \in Things, Write(t, k) PROVE RestoreInv'
    BY <2>1 DEF Write, InUse, RestoreInv, Loaded, StopsForOrder
  <2>2. ASSUME NEW t \in Names, NEW k \in Things, Delete(t, k) PROVE RestoreInv'
    BY <2>2 DEF Delete, InUse, RestoreInv, Loaded, StopsForOrder
  <2>3. CASE Recreate
    BY <2>3 DEF Recreate, RestoreInv, Loaded, StopsForOrder
  <2>4. CASE Begin("live", "export")
    BY <2>4 DEF Begin, RestoreInv, Loaded, StopsForOrder
  <2>5. CASE Begin("backed_up", "truncate")
    BY <2>5, <2>0 DEF Begin, RestoreInv, Loaded, StopsForOrder
  <2>6. CASE ExportTable
    BY <2>6 DEF ExportTable, Advance, RestoreInv, Loaded, StopsForOrder
  <2>7. CASE ExportFails
    BY <2>7 DEF ExportFails, Advance, RestoreInv, Loaded, StopsForOrder
  <2>8. CASE TruncateTable
    <3>1. /\ phase = "truncate" /\ phase' = "copy" /\ next' = next /\ file' = file
          /\ \A t \in Names : db'[t] = IF t \in Cascade(Manifest[next]) THEN {} ELSE db[t]
      BY <2>8 DEF TruncateTable
    <3>2. next \in DOMAIN Manifest
      BY <3>1 DEF TypeOK
    <3>3. ASSUME NEW i \in DOMAIN Manifest, Loaded(i)'
          PROVE  db'[Manifest[i]] = IF CutSince(i)' THEN {} ELSE file'[Manifest[i]]
      <4>1. Loaded(i) /\ i < next
        BY <3>1, <3>3 DEF Loaded
      <4>2. CutSince(i)' <=> CutSince(i) \/ Manifest[i] \in Cascade(Manifest[next])
        BY <2>0, <3>1, <3>2, <4>1 DEF CutSince, Cut
      <4> QED
        BY <2>0, <3>1, <4>1, <4>2 DEF RestoreInv
    <3>4. db'[Manifest[next]] = {}
      BY <2>0, <3>1, <3>2, CascadeSelf
    <3> QED
      BY <3>1, <3>3, <3>4 DEF RestoreInv, StopsForOrder
  <2>9. CASE CopyTable
    <3>1. /\ phase = "copy" /\ file' = file
          /\ db' = [db EXCEPT ![Manifest[next]] = @ \cup file[Manifest[next]]]
          /\ \/ next = Len(Manifest) /\ phase' = "restored"
             \/ next # Len(Manifest) /\ next' = next + 1 /\ phase' = "truncate"
      BY <2>9 DEF CopyTable, Advance
    <3>2. next \in DOMAIN Manifest
      BY <3>1 DEF TypeOK
    <3>3. ASSUME NEW i \in DOMAIN Manifest, Loaded(i)'
          PROVE  db'[Manifest[i]] = IF CutSince(i)' THEN {} ELSE file'[Manifest[i]]
      <4>1. i <= next
        BY <3>1, <3>2, <3>3, OrderTypes DEF Loaded
      <4>2. \A j \in DOMAIN Manifest : Cut(j)' <=> Cut(j)
        BY <3>1, <3>2, OrderTypes DEF Cut
      <4>3. CutSince(i)' <=> CutSince(i)
        BY <4>2 DEF CutSince
      <4>4. CASE i < next
        <5>1. Manifest[i] # Manifest[next] /\ Loaded(i)
          BY <2>0, <3>1, <3>2, <4>4, ManifestType DEF Loaded
        <5>2. db'[Manifest[i]] = db[Manifest[i]]
          BY <2>0, <3>1, <5>1 DEF TypeOK
        <5> QED
          BY <3>1, <4>3, <5>1, <5>2 DEF RestoreInv
      <4>5. CASE i = next
        <5>1. ~CutSince(i)
          BY <2>0, <3>1, <3>2, <4>5 DEF CutSince, Cut
        <5>2. db'[Manifest[i]] = file[Manifest[i]]
          BY <2>0, <3>1, <3>2, <4>5 DEF RestoreInv, TypeOK
        <5> QED
          BY <3>1, <4>3, <5>1, <5>2
      <4> QED
        BY <2>0, <3>2, <4>1, <4>4, <4>5
    <3> QED
      BY <3>1, <3>3 DEF RestoreInv, StopsForOrder
  <2>10. CASE CopyFails
    <3>1. phase = "copy" /\ phase' = "failed" /\ ~Loads(Manifest[next])
          /\ UNCHANGED <<db, file, next>>
      BY <2>10 DEF CopyFails
    <3>2. next \in DOMAIN Manifest
      BY <3>1 DEF TypeOK
    <3>3. ASSUME BackupConsistent
          PROVE  \E j \in DOMAIN Manifest :
                   /\ Manifest[j] \in Parents(Manifest[next])
                   /\ next <= j \/ Emptied(j, next)
      <4>1. PICK u \in Parents(Manifest[next]) : ~(file[Manifest[next]] \subseteq db[u])
        BY <3>1 DEF Loads, Consistent, RestoreInv
      <4>2. PICK j \in DOMAIN Manifest : u = Manifest[j]
        BY ManifestType DEF Parents
      <4>3. file[Manifest[next]] \subseteq file[u]
        BY <2>0, <3>2, <3>3, <4>1 DEF BackupConsistent, Consistent
      <4>4. ASSUME j < next PROVE Emptied(j, next)
        <5>1. db[u] # file[u] /\ Loaded(j)
          BY <3>1, <4>1, <4>3, <4>4 DEF Loaded
        <5>2. CutSince(j)
          BY <4>2, <5>1 DEF RestoreInv
        <5> QED
          BY <3>1, <5>2 DEF CutSince, Cut, Emptied
      <4> QED
        BY <2>0, <3>2, <4>1, <4>2, <4>4
    <3>4. StopsForOrder'
      BY <3>1, <3>3 DEF StopsForOrder, BackupConsistent, Consistent, Emptied
    <3> QED
      BY <3>1, <3>4 DEF RestoreInv, Loaded
  <2>11. CASE UNCHANGED vars
    BY <2>11 DEF vars, RestoreInv, Loaded, CutSince, Cut, StopsForOrder, BackupConsistent,
                 Consistent, Emptied
  <2> QED
    BY <2>1, <2>2, <2>3, <2>4, <2>5, <2>6, <2>7, <2>8, <2>9, <2>10, <2>11 DEF Next
<1> QED
  BY <1>1, <1>2, TypeCorrect, PTL DEF Spec

(* In whatever order: what is restored are the tables that no later        *)
(* TRUNCATE ... CASCADE reaches.                                           *)
THEOREM CascadeDecides == Spec => []RestoredExactly
<1>1. RestoreInv => RestoredExactly
  <2> SUFFICES ASSUME RestoreInv, phase = "restored", NEW i \in DOMAIN Manifest
               PROVE  db[Manifest[i]] =
                        IF Emptied(i, Len(Manifest)) THEN {} ELSE file[Manifest[i]]
    BY DEF RestoredExactly
  <2>1. CutSince(i) <=> Emptied(i, Len(Manifest))
    BY OrderTypes DEF CutSince, Cut, Emptied
  <2> QED
    BY <2>1 DEF RestoreInv, Loaded
<1> QED
  BY <1>1, RestoreInvHolds, PTL

(* And a consistent backup fails only where the order of the tables is to  *)
(* blame.                                                                  *)
THEOREM StopsOnlyForOrder == Spec => []StopsForOrder
<1>1. RestoreInv => StopsForOrder
  BY DEF RestoreInv
<1> QED
  BY <1>1, RestoreInvHolds, PTL

(* With parents first, a consistent backup is restored without an error,   *)
(* and whole.                                                              *)
THEOREM ParentsFirstRestores ==
  ASSUME ParentsFirst
  PROVE  Spec => [](BackupConsistent => phase # "failed" /\ (phase = "restored" => db = file))
<1> DEFINE Whole == BackupConsistent => phase # "failed" /\ (phase = "restored" => db = file)
<1>1. ASSUME NEW i \in DOMAIN Manifest, NEW n PROVE ~Emptied(i, n)
  BY <1>1, CascadeOnward DEF Emptied
<1>2. ASSUME TypeOK, RestoredExactly, phase = "restored" PROVE db = file
  <2>1. ASSUME NEW t \in Names PROVE db[t] = file[t]
    <3>1. PICK i \in DOMAIN Manifest : t = Manifest[i]
      BY ManifestType
    <3> QED
      BY <1>1, <1>2, <3>1 DEF RestoredExactly
  <2> QED
    BY <1>2, <2>1 DEF TypeOK
<1>3. ASSUME TypeOK, StopsForOrder, BackupConsistent PROVE phase # "failed"
  <2> SUFFICES ASSUME phase = "failed" PROVE FALSE
    OBVIOUS
  <2>1. PICK j \in DOMAIN Manifest : Manifest[j] \in Parents(Manifest[next]) /\ next <= j
    BY <1>1, <1>3 DEF StopsForOrder
  <2>2. next \in DOMAIN Manifest
    BY <1>3, <2>1, OrderTypes DEF TypeOK
  <2>3. j < next
    BY <2>1, <2>2 DEF ParentsFirst, Parents
  <2>4. j \in Nat /\ next \in Nat
    BY <2>2, OrderTypes
  <2> QED
    BY <2>1, <2>3, <2>4
<1>4. TypeOK /\ RestoredExactly /\ StopsForOrder => Whole
  BY <1>2, <1>3
<1>5. Spec => []Whole
  BY <1>4, TypeCorrect, CascadeDecides, StopsOnlyForOrder, PTL
<1> QED
  BY <1>5

-----------------------------------------------------------------------------
(* What is exported.                                                       *)

(* The tables that have been exported so far. *)
Exported(i) == (phase = "export" /\ i < next) \/ phase \notin {"live", "export"}

Refers(i, j) == <<Tables[i], Tables[j]>> \in Refs

(* The foreign keys hold as long as the application runs; what a file      *)
(* refers to is in the file of a table exported since, or still there.     *)
ExportInv ==
  /\ InUse => \A t \in Names : Consistent(t, db[t], db)
  /\ \A i, j \in DOMAIN Tables :
       i < j /\ Refers(i, j) /\ Exported(i) =>
         IF Exported(j)
         THEN Tables[j] \notin errors => file[Tables[i]] \subseteq file[Tables[j]]
         ELSE file[Tables[i]] \subseteq db[Tables[j]]

(* Rows of a table that others refer to are not deleted.                   *)
LEMMA WriteKeeps ==
  ASSUME TypeOK, ExportInv, NEW t \in Names, NEW k \in Things, Write(t, k) \/ Delete(t, k)
  PROVE  /\ \A u \in Names : Consistent(u, db'[u], db')
         /\ \A i, j \in DOMAIN Tables : Refers(i, j) => db[Tables[j]] \subseteq db'[Tables[j]]
<1>0. \A i \in DOMAIN Tables : Tables[i] \in Names
  BY OrderTypes
<1>1. CASE Write(t, k)
  <2>1. \A u \in Names : db'[u] = IF u = t THEN db[u] \cup {k} ELSE db[u]
    BY <1>1 DEF Write, TypeOK
  <2>2. ASSUME NEW u \in Names, NEW v \in Parents(u) PROVE db'[u] \subseteq db'[v]
    BY <1>1, <2>1 DEF Write, ExportInv, Consistent, Parents
  <2> QED
    BY <1>0, <2>1, <2>2 DEF Consistent
<1>2. CASE Delete(t, k)
  <2>1. \A u \in Names : db'[u] = IF u = t THEN db[u] \ {k} ELSE db[u]
    BY <1>2 DEF Delete, TypeOK
  <2>2. ASSUME NEW u \in Names, NEW v \in Parents(u) PROVE db'[u] \subseteq db'[v]
    <3>1. v # t
      BY <1>2 DEF Delete, Children, Parents
    <3> QED
      BY <1>2, <2>1, <3>1 DEF Delete, ExportInv, Consistent, Parents
  <2>3. ASSUME NEW i \in DOMAIN Tables, NEW j \in DOMAIN Tables, Refers(i, j)
        PROVE  Tables[j] # t
    BY <1>0, <1>2, <2>3 DEF Delete, Children, Refers
  <2> QED
    BY <1>0, <2>1, <2>2, <2>3 DEF Consistent
<1> QED
  BY <1>1, <1>2

(* An export keeps it, and the rows that come and go meanwhile.            *)
LEMMA ExportInvHolds == Spec => []ExportInv
<1>1. Init => ExportInv
  BY DEF Init, ExportInv, Exported, Consistent, Parents
<1>2. TypeOK /\ ExportInv /\ [Next]_vars => ExportInv'
  <2> SUFFICES ASSUME TypeOK, ExportInv, [Next]_vars PROVE ExportInv'
    OBVIOUS
  <2>0. DOMAIN Tables \subseteq Nat \ {0} /\ \A i \in DOMAIN Tables : Tables[i] \in Names
    BY OrderTypes
  <2>1. ASSUME NEW t \in Names, NEW k \in Things, Write(t, k) \/ Delete(t, k)
        PROVE  ExportInv'
    <3>1. UNCHANGED <<file, errors, phase, next>>
      BY <2>1 DEF Write, Delete
    <3>2. \A i \in DOMAIN Tables : Exported(i)' <=> Exported(i)
      BY <3>1 DEF Exported
    <3>3. /\ \A u \in Names : Consistent(u, db'[u], db')
          /\ \A i, j \in DOMAIN Tables : Refers(i, j) => db[Tables[j]] \subseteq db'[Tables[j]]
      BY <2>1, WriteKeeps
    <3>4. (\A u \in Names : Consistent(u, db[u], db))'
      BY <3>3 DEF Consistent
    <3> QED
      BY <3>1, <3>2, <3>3, <3>4 DEF ExportInv, Refers
  <2>2. CASE Recreate
    BY <2>2 DEF Recreate, ExportInv, Exported, Consistent, Parents, InUse
  <2>3. CASE Begin("live", "export")
    BY <2>0, <2>3 DEF Begin, ExportInv, Exported, Consistent, InUse
  <2>4. CASE Begin("backed_up", "truncate")
    BY <2>4 DEF Begin, ExportInv, Exported, InUse
  <2>5. CASE ExportTable \/ ExportFails
    <3>1. /\ phase = "export" /\ db' = db /\ errors \subseteq errors'
          /\ \E rows \in SUBSET db[Tables[next]] : file' = [file EXCEPT ![Tables[next]] = rows]
          /\ Tables[next] \notin errors' => file' = [file EXCEPT ![Tables[next]] = db[Tables[next]]]
          /\ \/ next = Len(Tables) /\ phase' = "backed_up"
             \/ next # Len(Tables) /\ next' = next + 1 /\ phase' = "export"
      BY <2>5 DEF ExportTable, ExportFails, Advance
    <3>2. next \in DOMAIN Tables
      BY <3>1 DEF TypeOK
    <3>3. ASSUME NEW i \in DOMAIN Tables PROVE Exported(i)' <=> i <= next
      BY <3>1, <3>2, OrderTypes DEF Exported
    <3>4. ASSUME NEW i \in DOMAIN Tables PROVE Exported(i) <=> i < next
      BY <3>1 DEF Exported
    <3>5. /\ \A i \in DOMAIN Tables : i # next => file'[Tables[i]] = file[Tables[i]]
          /\ file'[Tables[next]] \subseteq db[Tables[next]]
          /\ Tables[next] \notin errors' => file'[Tables[next]] = db[Tables[next]]
      BY <2>0, <3>1, <3>2, TablesType DEF TypeOK
    <3>6. ASSUME NEW i \in DOMAIN Tables, NEW j \in DOMAIN Tables,
                 i < j, Refers(i, j), Exported(i)'
          PROVE  IF Exported(j)'
                 THEN Tables[j] \notin errors' => file'[Tables[i]] \subseteq file'[Tables[j]]
                 ELSE file'[Tables[i]] \subseteq db'[Tables[j]]
      <4>1. CASE i = next
        <5>1. ~Exported(j)'
          BY <2>0, <3>2, <3>3, <3>6, <4>1
        <5>2. db[Tables[i]] \subseteq db[Tables[j]]
          BY <2>0, <3>1, <3>6 DEF ExportInv, InUse, Consistent, Parents, Refers
        <5> QED
          BY <3>1, <3>5, <4>1, <5>1, <5>2
      <4>2. CASE i # next
        <5>1. i < next /\ file'[Tables[i]] = file[Tables[i]]
          BY <2>0, <3>2, <3>3, <3>5, <3>6, <4>2
        <5>2. IF Exported(j)
              THEN Tables[j] \notin errors => file[Tables[i]] \subseteq file[Tables[j]]
              ELSE file[Tables[i]] \subseteq db[Tables[j]]
          BY <3>4, <3>6, <5>1 DEF ExportInv
        <5>3. CASE j = next
          BY <2>0, <3>1, <3>2, <3>3, <3>4, <3>5, <5>1, <5>2, <5>3
        <5>4. CASE j # next
          BY <2>0, <3>1, <3>2, <3>3, <3>4, <3>5, <5>1, <5>2, <5>4
        <5> QED
          BY <5>3, <5>4
      <4> QED
        BY <4>1, <4>2
    <3>7. (InUse => \A t \in Names : Consistent(t, db[t], db))'
      BY <3>1 DEF ExportInv, InUse, Consistent
    <3> QED
      BY <3>6, <3>7 DEF ExportInv, Refers
  <2>6. CASE TruncateTable
    BY <2>6 DEF TruncateTable, ExportInv, Exported, InUse
  <2>7. CASE CopyTable
    BY <2>7 DEF CopyTable, Advance, ExportInv, Exported, InUse
  <2>8. CASE CopyFails
    BY <2>8 DEF CopyFails, ExportInv, Exported, InUse
  <2>9. CASE UNCHANGED vars
    BY <2>9 DEF vars, ExportInv, Exported, InUse, Consistent
  <2> QED
    BY <2>1, <2>2, <2>3, <2>4, <2>5, <2>6, <2>7, <2>8, <2>9 DEF Next
<1> QED
  BY <1>1, <1>2, TypeCorrect, PTL DEF Spec

(* Where a table comes before one that it refers to, no reference is lost, *)
(* whatever the application writes during the export.                      *)
THEOREM ReferencesKept == Spec => []ExportConsistent
<1>1. ExportInv => ExportConsistent
  BY DEF ExportInv, ExportConsistent, Exported, Refers
<1> QED
  BY <1>1, ExportInvHolds, PTL

(* With children first, a backup without errors is consistent.             *)
THEOREM ChildrenFirstConsistent ==
  ASSUME ChildrenFirst
  PROVE  Spec => [](errors = {} /\ phase \notin {"live", "export"} => BackupConsistent)
<1> DEFINE Sound == errors = {} /\ phase \notin {"live", "export"} => BackupConsistent
<1>1. ASSUME ExportConsistent, errors = {}, phase \notin {"live", "export"}
      PROVE  BackupConsistent
  <2> SUFFICES ASSUME NEW t \in Names, NEW u \in Parents(t) PROVE file[t] \subseteq file[u]
    BY DEF BackupConsistent, Consistent
  <2>1. PICK i \in DOMAIN Tables, j \in DOMAIN Tables : t = Tables[i] /\ u = Tables[j]
    BY DEF Names, Parents
  <2> QED
    BY <1>1, <2>1 DEF ExportConsistent, ChildrenFirst, Parents
<1>2. ExportConsistent => Sound
  BY <1>1
<1>3. Spec => []Sound
  BY <1>2, ReferencesKept, PTL
<1> QED
  BY <1>3

(* With both orders, every backup without errors is restored whole ...     *)
THEOREM RoundTrip ==
  ASSUME ChildrenFirst, ParentsFirst
  PROVE  Spec => [](errors = {} => phase # "failed" /\ (phase = "restored" => db = file))
<1> DEFINE Whole == errors = {} => phase # "failed" /\ (phase = "restored" => db = file)
<1> DEFINE Sound == errors = {} /\ phase \notin {"live", "export"} => BackupConsistent
<1> DEFINE Kept == BackupConsistent => phase # "failed" /\ (phase = "restored" => db = file)
<1>1. Sound /\ Kept => Whole
  OBVIOUS
<1>2. Spec => []Sound
  BY ChildrenFirstConsistent
<1>3. Spec => []Kept
  BY ParentsFirstRestores
<1>4. Spec => []Whole
  BY <1>1, <1>2, <1>3, PTL
<1> QED
  BY <1>4

(* ... but the scripts use one order for both, and if any table refers to  *)
(* another there is none that serves both.                                 *)
THEOREM OneOrderFailsOne ==
  ASSUME Manifest = Tables, NEW t \in Names, NEW u \in Names, <<t, u>> \in Refs
  PROVE  ~(ChildrenFirst /\ ParentsFirst)
<1>1. PICK i \in DOMAIN Tables, j \in DOMAIN Tables : t = Tables[i] /\ u = Tables[j]
  BY DEF Names
<1>2. i \in Nat /\ j \in Nat
  BY OrderTypes
<1>3. ChildrenFirst => i < j
  BY <1>1 DEF ChildrenFirst
<1>4. ParentsFirst => j < i
  <2>1. i \in DOMAIN Manifest /\ j \in DOMAIN Manifest /\ <<Manifest[i], Manifest[j]>> \in Refs
    BY <1>1
  <2> QED
    BY <2>1 DEF ParentsFirst
<1> QED
  BY <1>2, <1>3, <1>4
=============================================================================
