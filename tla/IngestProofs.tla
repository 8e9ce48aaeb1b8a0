---------------------------- MODULE IngestProofs ----------------------------
(* Theorems about Ingest, for every set of deliveries, events and          *)
(* coversheets, every limit, pool size and ingest mode.                    *)
EXTENDS Ingest, FiniteSetTheorems, TLAPS

USE EventOfType, QcOfType

(* The event of a delivery is an event, its coversheet a coversheet. *)
LEMMA Subjects ==
  ASSUME NEW d \in Deliveries
  PROVE  Ev(d) \in Events /\ Qc(d) \in Qcs
BY DEF Ev, Qc

-----------------------------------------------------------------------------
(* Types. *)

(* The initial values have their types. *)
LEMMA InitType == Init => TypeOK
BY PoolSizeType, ModesType
   DEF Init, TypeOK, Points, Answers, Statuses, InTry, HoldsConn, Ended

(* Each action keeps the types. *)
LEMMA StepType == TypeOK /\ [Next]_vars => TypeOK'
<1> SUFFICES ASSUME TypeOK, [Next]_vars PROVE TypeOK'
  OBVIOUS
<1> USE DEF TypeOK, Goto, Reply, SetStatus, Acquire, Return, MarkProcessing, database,
            Points, Answers, Statuses, InTry, HoldsConn, Ended
<1>1. ASSUME NEW d \in Deliveries, Reject(d) \/ Receive(d) PROVE TypeOK'
  BY <1>1 DEF Reject, Receive
<1>2. ASSUME NEW d \in Deliveries, Step(d) PROVE TypeOK'
  <2>0. Ev(d) \in Events /\ Qc(d) \in Qcs
    BY Subjects
  <2>1. CASE RecordEvent(d) \/ ShortCircuit(d)
    BY <2>0, <2>1 DEF RecordEvent, UpsertEvent, ShortCircuit
  <2>2. CASE StartProcessing(d)
    BY <2>0, <2>2 DEF StartProcessing
  <2>3. CASE StartQueueing(d)
    BY <2>0, <2>3 DEF StartQueueing
  <2>4. CASE UpsertJob(d)
    BY <2>0, <2>4 DEF UpsertJob
  <2>5. CASE FinishQueueing(d)
    BY <2>0, <2>5 DEF FinishQueueing
  <2>6. CASE TakeSlot(d) \/ NoSlot(d) \/ AnswerBusy(d)
    BY <2>0, <2>6 DEF TakeSlot, NoSlot, AnswerBusy
  <2>7. CASE FetchOk(d) \/ FetchFailed(d)
    BY <2>0, <2>7 DEF FetchOk, FetchFailed
  <2>8. CASE BeginTx(d)
    BY <2>0, <2>8 DEF BeginTx
  <2>9. CASE Commit(d)
    BY <2>0, <2>9 DEF Commit, Store
  <2>10. CASE CommitUnacknowledged(d)
    BY <2>0, <2>10 DEF CommitUnacknowledged, Store
  <2>11. CASE StoreFailed(d)
    BY <2>0, <2>11 DEF StoreFailed
  <2>12. CASE RecordFailure(d)
    BY <2>0, <2>12 DEF RecordFailure
  <2>13. CASE Release(d)
    BY <2>0, <2>13 DEF Release, LimiterRelease
  <2> QED
    BY <1>2, <2>1, <2>2, <2>3, <2>4, <2>5, <2>6, <2>7, <2>8, <2>9, <2>10, <2>11, <2>12,
       <2>13 DEF Step
<1>3. ASSUME NEW d \in Deliveries, Abort(d) PROVE TypeOK'
  BY <1>3 DEF Abort
<1>4. CASE Crash
  BY <1>4, PoolSizeType DEF Crash
<1>5. ASSUME NEW q \in Qcs, Edit(q) PROVE TypeOK'
  BY <1>5 DEF Edit, memory
<1>6. CASE UNCHANGED vars
  BY <1>6 DEF vars, memory
<1> QED
  BY <1>1, <1>2, <1>3, <1>4, <1>5, <1>6 DEF Next

(* Every variable of the handlers and the tables keeps its type. *)
THEOREM TypeCorrect == Spec => []TypeOK
BY InitType, StepType, PTL DEF Spec

-----------------------------------------------------------------------------
(* Slots and connections. *)

Count(S) == Cardinality({d \in Deliveries : pc[d] \in S})

(* One delivery moves from its point to p: a count changes by what leaves  *)
(* and what enters.                                                        *)
LEMMA CountMove ==
  ASSUME TypeOK, NEW d \in Deliveries, NEW p \in Points, Goto(d, p), NEW S
  PROVE  /\ Count(S) \in Nat
         /\ pc[d] \in S => Count(S) > 0
         /\ pc[d] \in S /\ p \notin S => Count(S)' = Count(S) - 1
         /\ pc[d] \notin S /\ p \in S => Count(S)' = Count(S) + 1
         /\ (pc[d] \in S <=> p \in S) => Count(S)' = Count(S)
<1> DEFINE T == {x \in Deliveries : pc[x] \in S}
           U == {x \in Deliveries : pc'[x] \in S}
<1>1. IsFiniteSet(T) /\ Cardinality(T) \in Nat
  BY DeliveriesFinite, FS_Subset, FS_CardinalityType
<1>2. pc' = [pc EXCEPT ![d] = p] /\ pc \in [Deliveries -> Points]
  BY DEF Goto, TypeOK
<1>3. Count(S) = Cardinality(T) /\ Count(S)' = Cardinality(U)
  BY DEF Count
<1>4. CASE pc[d] \in S /\ p \notin S
  <2>1. d \in T /\ U = T \ {d}
    BY <1>2, <1>4
  <2>2. Cardinality(U) = Cardinality(T) - 1 /\ Cardinality(U) \in Nat
    <3> HIDE DEF T, U
    <3> QED
      BY <1>1, <2>1, FS_RemoveElement, FS_CardinalityType
  <2> HIDE DEF T, U
  <2> QED
    BY <1>1, <1>3, <1>4, <2>2
<1>5. CASE pc[d] \notin S /\ p \in S
  <2>1. d \notin T /\ U = T \cup {d}
    BY <1>2, <1>5
  <2>2. Cardinality(U) = Cardinality(T) + 1
    <3> HIDE DEF T, U
    <3> QED
      BY <1>1, <2>1, FS_AddElement
  <2> HIDE DEF T, U
  <2> QED
    BY <1>1, <1>3, <1>5, <2>2
<1>6. CASE pc[d] \in S <=> p \in S
  <2>1. U = T
    BY <1>2, <1>6
  <2>2. pc[d] \in S => Cardinality(T) # 0
    BY <1>1, FS_EmptySet
  <2> HIDE DEF T, U
  <2> QED
    BY <1>1, <1>3, <1>6, <2>1, <2>2
<1> QED
  BY <1>4, <1>5, <1>6

(* The counters say how many deliveries are inside the try and how many    *)
(* hold a connection.                                                      *)
Counters ==
  /\ inFlight = Count(InTry) /\ inFlight <= Limit
  /\ free + Count(HoldsConn) = PoolSize

(* Nobody holds a slot or a connection at the start. *)
LEMMA InitCounters == Init => Counters
<1> SUFFICES ASSUME Init PROVE Counters
  OBVIOUS
<1>1. /\ {d \in Deliveries : pc[d] \in InTry} = {}
      /\ {d \in Deliveries : pc[d] \in HoldsConn} = {}
  BY DEF Init, InTry, HoldsConn
<1> QED
  <2>1. Count(InTry) = 0 /\ Count(HoldsConn) = 0
    BY <1>1, FS_EmptySet DEF Count
  <2>2. inFlight = 0 /\ free = PoolSize
    BY DEF Init
  <2> QED
    BY <2>1, <2>2, LimitType, PoolSizeType DEF Counters

(* Each action keeps both counters exact; Counters needs only the types.   *)
LEMMA StepCounters == TypeOK /\ Counters /\ [Next]_vars => Counters'
<1> SUFFICES ASSUME TypeOK, Counters, [Next]_vars PROVE Counters'
  OBVIOUS
<1> DEFINE Moves(d, p) ==
      /\ Goto(d, p) /\ p \in Points
      /\ inFlight' = inFlight + (IF p \in InTry THEN 1 ELSE 0)
                              - (IF pc[d] \in InTry THEN 1 ELSE 0)
      /\ inFlight' > inFlight => inFlight < Limit
      /\ free' = free + (IF pc[d] \in HoldsConn THEN 1 ELSE 0)
                      - (IF p \in HoldsConn THEN 1 ELSE 0)
<1>0. ASSUME NEW d \in Deliveries, NEW p, Moves(d, p) PROVE Counters'
  <2>1. Count(InTry)' = Count(InTry) + (IF p \in InTry THEN 1 ELSE 0)
                                     - (IF pc[d] \in InTry THEN 1 ELSE 0)
        /\ Count(InTry) \in Nat
    BY <1>0, CountMove
  <2>2. Count(HoldsConn)' = Count(HoldsConn) + (IF p \in HoldsConn THEN 1 ELSE 0)
                                             - (IF pc[d] \in HoldsConn THEN 1 ELSE 0)
        /\ Count(HoldsConn) \in Nat
    BY <1>0, CountMove
  <2> QED
    BY <1>0, <2>1, <2>2, LimitType, PoolSizeType DEF Counters, TypeOK
<1> USE DEF Goto, Reply, SetStatus, Acquire, Return, MarkProcessing,
            Points, InTry, HoldsConn, Ended, TypeOK
<1>1. ASSUME NEW d \in Deliveries, Reject(d) \/ Receive(d) PROVE Counters'
  <2>1. Moves(d, "done") \/ Moves(d, "event")
    BY <1>1 DEF Reject, Receive
  <2> QED
    BY <2>1, <1>0
<1>2. ASSUME NEW d \in Deliveries, Step(d) PROVE Counters'
  <2>1. CASE RecordEvent(d) \/ ShortCircuit(d)
    BY <2>1, <1>0 DEF RecordEvent, UpsertEvent, ShortCircuit
  <2>2. CASE StartProcessing(d) \/ StartQueueing(d)
    BY <2>2, <1>0 DEF StartProcessing, StartQueueing
  <2>3. CASE UpsertJob(d) \/ FinishQueueing(d)
    <3>1. Moves(d, "requeue") \/ Moves(d, "done")
      BY <2>3 DEF UpsertJob, FinishQueueing
    <3> QED
      BY <3>1, <1>0
  <2>4. CASE TakeSlot(d)
    <3>1. Moves(d, "fetch")
      BY <2>4, LimitType DEF TakeSlot
    <3> QED
      BY <3>1, <1>0
  <2>5. CASE NoSlot(d) \/ AnswerBusy(d)
    BY <2>5, <1>0 DEF NoSlot, AnswerBusy
  <2>6. CASE FetchOk(d) \/ FetchFailed(d)
    <3>1. Moves(d, "store") \/ Moves(d, "failing")
      BY <2>6 DEF FetchOk, FetchFailed
    <3> QED
      BY <3>1, <1>0
  <2>7. CASE BeginTx(d)
    <3>1. Moves(d, "tx")
      BY <2>7 DEF BeginTx
    <3> QED
      BY <3>1, <1>0
  <2>8. CASE Commit(d) \/ CommitUnacknowledged(d)
    <3>1. Moves(d, "release") \/ Moves(d, "failing")
      BY <2>8 DEF Commit, CommitUnacknowledged, Store
    <3> QED
      BY <3>1, <1>0
  <2>9. CASE StoreFailed(d)
    <3>1. Moves(d, "failing")
      BY <2>9 DEF StoreFailed
    <3> QED
      BY <3>1, <1>0
  <2>10. CASE RecordFailure(d)
    <3>1. Moves(d, "release")
      BY <2>10 DEF RecordFailure
    <3> QED
      BY <3>1, <1>0
  <2>11. CASE Release(d)
    <3>1. pc[d] = "release" /\ Goto(d, "done") /\ "done" \in Points
      BY <2>11 DEF Release
    <3>2. inFlight > 0
      BY <3>1, CountMove DEF Counters
    <3>3. Moves(d, "done")
      BY <2>11, <3>1, <3>2 DEF Release, LimiterRelease
    <3> QED
      BY <3>3, <1>0
  <2> QED
    BY <1>2, <2>1, <2>2, <2>3, <2>4, <2>5, <2>6, <2>7, <2>8, <2>9, <2>10, <2>11 DEF Step
<1>3. ASSUME NEW d \in Deliveries, Abort(d) PROVE Counters'
  <2>1. CASE pc[d] \in InTry
    <3>1. Moves(d, "release")
      BY <1>3, <2>1 DEF Abort
    <3> QED
      BY <3>1, <1>0
  <2>2. CASE pc[d] \notin InTry
    <3>1. Moves(d, "done")
      BY <1>3, <2>2 DEF Abort
    <3> QED
      BY <3>1, <1>0
  <2> QED
    BY <2>1, <2>2
<1>4. CASE Crash
  <2>1. /\ {d \in Deliveries : pc'[d] \in InTry} = {}
        /\ {d \in Deliveries : pc'[d] \in HoldsConn} = {}
    BY <1>4 DEF Crash
  <2>2. Count(InTry)' = 0 /\ Count(HoldsConn)' = 0
    BY <2>1, FS_EmptySet DEF Count
  <2> QED
    BY <1>4, <2>2, LimitType, PoolSizeType DEF Crash, Counters
<1>5. CASE UNCHANGED memory
  BY <1>5 DEF memory, Counters, Count
<1> QED
  BY <1>1, <1>2, <1>3, <1>4, <1>5 DEF Next, Edit, vars

(* The limiter is exact: no path through handle_ingest, no exception,      *)
(* cancellation or crash leaks a slot, and the limit is never exceeded.    *)
THEOREM SlotsExact == Spec => []LimiterExact
<1>1. Counters => LimiterExact
  BY DEF Counters, Count, LimiterExact, InTrySet
<1> QED
  BY <1>1, InitType, StepType, InitCounters, StepCounters, PTL DEF Spec

(* The pool is exact: no such path leaks a connection.                     *)
THEOREM ConnectionsExact == Spec => []PoolExact
<1>1. Counters => PoolExact
  BY DEF Counters, Count, PoolExact, Holders
<1> QED
  BY <1>1, InitType, StepType, InitCounters, StepCounters, PTL DEF Spec
-----------------------------------------------------------------------------
(* Freshness: a payload about to be stored exists and is not older than    *)
(* the recording of its event.                                             *)

Fresh ==
  /\ \A q \in Qcs : erp[q] >= 1
  /\ \A d \in Deliveries :
       /\ since[d] <= erp[Qc(d)]
       /\ pc[d] \in {"store", "tx"} => payload[d] >= 1 /\ payload[d] >= since[d]

(* Nothing has been fetched at the start. *)
LEMMA InitFresh == Init => Fresh
BY Subjects DEF Init, Fresh

(* A fetched payload is a real version, not older than the event record. *)
LEMMA StepFresh == TypeOK /\ Fresh /\ [Next]_vars => Fresh'
<1> SUFFICES ASSUME TypeOK, Fresh, [Next]_vars PROVE Fresh'
  OBVIOUS
<1>0. \A d \in Deliveries : Qc(d) \in Qcs /\ Qc(d)' = Qc(d)
  BY Subjects DEF Qc
<1> USE DEF Goto, Reply, Points, InTry, HoldsConn, Ended, TypeOK, Fresh
(* Steps that leave since, payload and erp alone and enter no store or tx. *)
<1>1. ASSUME NEW d \in Deliveries, NEW p \in Points, Goto(d, p), p \notin {"store", "tx"},
             UNCHANGED <<since, payload, erp>>
      PROVE  Fresh'
  BY <1>0, <1>1
<1>2. ASSUME NEW d \in Deliveries, Reject(d) \/ Receive(d) PROVE Fresh'
  BY <1>1, <1>2 DEF Reject, Receive
<1>3. ASSUME NEW d \in Deliveries, Step(d) PROVE Fresh'
  <2>1. CASE RecordEvent(d)
    BY <1>0, <2>1 DEF RecordEvent, UpsertEvent
  <2>2. CASE \/ ShortCircuit(d) \/ StartProcessing(d) \/ StartQueueing(d) \/ UpsertJob(d)
             \/ FinishQueueing(d) \/ TakeSlot(d) \/ NoSlot(d) \/ AnswerBusy(d)
    BY <1>1, <2>2 DEF ShortCircuit, StartProcessing, StartQueueing, UpsertJob, FinishQueueing,
                      TakeSlot, NoSlot, AnswerBusy
  <2>3. CASE FetchOk(d)
    BY <1>0, <2>3 DEF FetchOk
  <2>4. CASE FetchFailed(d)
    BY <1>1, <2>4 DEF FetchFailed
  <2>5. CASE BeginTx(d)
    BY <1>0, <2>5 DEF BeginTx
  <2>6. CASE Commit(d) \/ CommitUnacknowledged(d) \/ StoreFailed(d)
    BY <1>1, <2>6 DEF Commit, CommitUnacknowledged, StoreFailed
  <2>7. CASE RecordFailure(d) \/ Release(d)
    BY <1>1, <2>7 DEF RecordFailure, Release
  <2> QED
    BY <1>3, <2>1, <2>2, <2>3, <2>4, <2>5, <2>6, <2>7 DEF Step
<1>4. ASSUME NEW d \in Deliveries, Abort(d) PROVE Fresh'
  BY <1>0, <1>4 DEF Abort
<1>5. CASE Crash
  BY <1>0, <1>5 DEF Crash
<1>6. ASSUME NEW q \in Qcs, Edit(q) PROVE Fresh'
  BY <1>0, <1>6 DEF Edit, memory
<1>7. CASE UNCHANGED vars
  BY <1>0, <1>7 DEF vars, memory
<1> QED
  BY <1>2, <1>3, <1>4, <1>5, <1>6, <1>7 DEF Next

-----------------------------------------------------------------------------
(* Answers. *)

(* An answer is only there when the work is over, so it is not replaced.   *)
AnswersAtEnd == \A d \in Deliveries : answer[d] # "none" => pc[d] \in {"release", "done"}

(* An answer is given on the way to the end and never withdrawn there. *)
LEMMA StepAnswers == TypeOK /\ AnswersAtEnd /\ [Next]_vars => AnswersAtEnd'
<1> SUFFICES ASSUME TypeOK, AnswersAtEnd, [Next]_vars PROVE AnswersAtEnd'
  OBVIOUS
<1> USE DEF Goto, Reply, TypeOK, AnswersAtEnd, InTry, HoldsConn, Ended
<1>1. ASSUME NEW d \in Deliveries, Reject(d) \/ Receive(d) \/ Step(d) \/ Abort(d)
      PROVE  AnswersAtEnd'
  <2>1. CASE Reject(d) \/ Receive(d) \/ Abort(d)
    BY <2>1 DEF Reject, Receive, Abort
  <2>2. CASE \/ RecordEvent(d) \/ ShortCircuit(d) \/ StartProcessing(d) \/ StartQueueing(d)
             \/ UpsertJob(d) \/ FinishQueueing(d) \/ TakeSlot(d) \/ NoSlot(d) \/ AnswerBusy(d)
    BY <2>2 DEF RecordEvent, UpsertEvent, ShortCircuit, StartProcessing, StartQueueing, UpsertJob,
                FinishQueueing, TakeSlot, NoSlot, AnswerBusy
  <2>3. CASE \/ FetchOk(d) \/ FetchFailed(d) \/ BeginTx(d) \/ Commit(d)
             \/ CommitUnacknowledged(d) \/ StoreFailed(d) \/ RecordFailure(d) \/ Release(d)
    BY <2>3 DEF FetchOk, FetchFailed, BeginTx, Commit, CommitUnacknowledged, StoreFailed,
                RecordFailure, Release
  <2> QED
    BY <1>1, <2>1, <2>2, <2>3 DEF Step
<1>2. CASE Crash
  BY <1>2 DEF Crash
<1>3. CASE UNCHANGED memory
  BY <1>3 DEF memory
<1> QED
  BY <1>1, <1>2, <1>3 DEF Next, Edit, vars

-----------------------------------------------------------------------------
(* Acknowledged work is stored. *)

(* Who fetches and who stores. *)
LEMMA Writers ==
  ASSUME [Next]_vars
  PROVE  \/ UNCHANGED <<payload, stored>>
         \/ \E d \in Deliveries : FetchOk(d)
         \/ \E d \in Deliveries : Commit(d) \/ CommitUnacknowledged(d)
BY DEF Next, Step, vars, memory, database, Reject, Receive, RecordEvent, UpsertEvent,
       ShortCircuit, StartProcessing, StartQueueing, UpsertJob, FinishQueueing, TakeSlot,
       NoSlot, AnswerBusy, FetchFailed, BeginTx, StoreFailed, RecordFailure, Release,
       Abort, Crash, Edit

(* What is fetched and stored is real, so that what is kept stays. *)
LEMMA KeptStays ==
  ASSUME TypeOK, Fresh, [Next]_vars, NEW e \in Events, Kept(e)
  PROVE  Kept(e)'
<1>0. PICK d \in Deliveries : Ev(d) = e /\ payload[d] > 0 /\ stored[Qc(d)] > 0
  BY DEF Kept
<1>1. Qc(d) \in Qcs /\ Ev(d)' = Ev(d) /\ Qc(d)' = Qc(d)
  BY Subjects DEF Ev, Qc
<1>2. SUFFICES payload'[d] > 0 /\ stored'[Qc(d)] > 0
  BY <1>0, <1>1 DEF Kept
<1>3. CASE UNCHANGED <<payload, stored>>
  BY <1>0, <1>3
<1>4. ASSUME NEW x \in Deliveries, FetchOk(x) PROVE payload'[d] > 0 /\ stored'[Qc(d)] > 0
  <2>1. erp[Qc(x)] \in Nat /\ erp[Qc(x)] >= 1
    BY Subjects DEF TypeOK, Fresh
  <2> QED
    BY <1>0, <1>4, <2>1 DEF FetchOk, TypeOK, database
<1>5. ASSUME NEW x \in Deliveries, Commit(x) \/ CommitUnacknowledged(x)
      PROVE  payload'[d] > 0 /\ stored'[Qc(d)] > 0
  <2>1. payload[x] \in Nat /\ payload[x] >= 1
    BY <1>5 DEF Commit, CommitUnacknowledged, TypeOK, Fresh
  <2> QED
    BY <1>0, <1>1, <1>5, <2>1 DEF Commit, CommitUnacknowledged, Store, TypeOK
<1> QED
  BY <1>3, <1>4, <1>5, Writers

(* The short circuit is taken by a delivery that has fetched nothing, when *)
(* the event stands for something kept.                                    *)
Early == {"new", "event", "known"}
Known ==
  \A d \in Deliveries :
    /\ pc[d] = "known" => Kept(Ev(d))
    /\ pc[d] \in Early => payload[d] = 0
AckedInv == AckedIsStored /\ Known

(* Only a commit makes an event processed, and it stores a real version. *)
LEMMA StepAcked == TypeOK /\ Fresh /\ AnswersAtEnd /\ AckedInv /\ [Next]_vars => AckedInv'
<1> SUFFICES ASSUME TypeOK, Fresh, AnswersAtEnd, AckedInv, [Next]_vars PROVE AckedInv'
  OBVIOUS
<1>0. \A d \in Deliveries : /\ Ev(d) \in Events /\ Qc(d) \in Qcs
                            /\ Ev(d)' = Ev(d) /\ Qc(d)' = Qc(d)
  BY Subjects DEF Ev, Qc
<1>K. \A e \in Events : Kept(e) => Kept(e)'
  BY KeptStays
<1> USE DEF Goto, Reply, SetStatus, MarkProcessing, TypeOK, AckedInv, AckedIsStored, Known, Early
(* Steps that mark nothing processed and answer nothing processed. *)
<1>1. ASSUME UNCHANGED <<stored, payload>>,
             \A e \in Events : status'[e] = "processed" => status[e] = "processed",
             \A d \in Deliveries : answer'[d] = "processed" => answer[d] = "processed",
             \A d \in Deliveries : pc'[d] = "known" => pc[d] = "known",
             \A d \in Deliveries : pc'[d] \in Early => pc[d] \in Early
      PROVE  AckedInv'
  BY <1>0, <1>1, <1>K
<1>2. ASSUME NEW d \in Deliveries, Reject(d) \/ Receive(d) PROVE AckedInv'
  BY <1>1, <1>2 DEF Reject, Receive, database
<1>3. ASSUME NEW d \in Deliveries, Step(d) PROVE AckedInv'
  <2>1. CASE RecordEvent(d)
    <3>1. \A e \in Events : status'[e] = "processed" => status[e] = "processed"
      BY <2>1 DEF RecordEvent, UpsertEvent
    <3>2. \A x \in Deliveries : pc'[x] = "known" => Kept(Ev(x))
      BY <1>0, <2>1 DEF RecordEvent
    <3> QED
      BY <1>0, <1>K, <2>1, <3>1, <3>2 DEF RecordEvent
  <2>2. CASE ShortCircuit(d)
    BY <1>0, <1>K, <2>2 DEF ShortCircuit, database
  <2>3. CASE StartProcessing(d) \/ StartQueueing(d)
    BY <1>0, <1>1, <2>3 DEF StartProcessing, StartQueueing
  <2>4. CASE UpsertJob(d) \/ FinishQueueing(d)
    BY <1>0, <1>1, <2>4 DEF UpsertJob, FinishQueueing
  <2>5. CASE TakeSlot(d) \/ NoSlot(d) \/ AnswerBusy(d)
    BY <1>0, <1>1, <2>5 DEF TakeSlot, NoSlot, AnswerBusy, database
  <2>6. CASE FetchOk(d)
    BY <1>0, <1>K, <2>6 DEF FetchOk, AnswersAtEnd, database
  <2>7. CASE FetchFailed(d) \/ BeginTx(d) \/ StoreFailed(d) \/ Release(d)
    BY <1>1, <2>7 DEF FetchFailed, BeginTx, StoreFailed, Release, database
  <2>8. CASE Commit(d) \/ CommitUnacknowledged(d)
    <3>1. payload[d] > 0 /\ payload[d] \in Nat
      BY <2>8 DEF Commit, CommitUnacknowledged, Fresh
    <3>2. stored' = [stored EXCEPT ![Qc(d)] = payload[d]] /\ payload' = payload
      BY <2>8 DEF Commit, CommitUnacknowledged, Store
    <3>3. Kept(Ev(d))'
      BY <1>0, <3>1, <3>2 DEF Kept
    <3>4. \A q \in Qcs : stored[q] > 0 => stored'[q] > 0
      BY <1>0, <3>1, <3>2
    <3>5. stored'[Qc(d)] > 0
      BY <1>0, <3>1, <3>2
    <3>6. \A x \in Deliveries : /\ pc'[x] \in Early => pc[x] \in Early /\ pc'[x] = pc[x]
                                /\ x # d => answer'[x] = answer[x]
      BY <2>8 DEF Commit, CommitUnacknowledged
    <3>7. \A e \in Events : e # Ev(d) => status'[e] = status[e]
      BY <1>0, <2>8 DEF Commit, CommitUnacknowledged, Store
    <3>8. answer'[d] = "processed" => payload'[d] > 0
      BY <3>1, <3>2
    <3>9. AckedIsStored'
      <4>1. \A e \in Events : status'[e] = "processed" => Kept(e)'
        BY <1>K, <3>3, <3>7
      <4>2. ASSUME NEW x \in Deliveries, answer'[x] = "processed"
            PROVE  IF payload'[x] > 0 THEN stored'[Qc(x)] > 0 ELSE Kept(Ev(x))'
        BY <1>0, <1>K, <3>2, <3>4, <3>5, <3>6, <3>8, <4>2
      <4> QED
        BY <1>0, <4>1, <4>2
    <3> QED
      BY <1>0, <1>K, <3>2, <3>6, <3>9
  <2>9. CASE RecordFailure(d)
    BY <1>0, <1>1, <2>9 DEF RecordFailure
  <2> QED
    BY <1>3, <2>1, <2>2, <2>3, <2>4, <2>5, <2>6, <2>7, <2>8, <2>9 DEF Step
<1>4. ASSUME NEW d \in Deliveries, Abort(d) PROVE AckedInv'
  BY <1>1, <1>4 DEF Abort, database
<1>5. CASE Crash
  BY <1>1, <1>5 DEF Crash, database
<1>6. ASSUME NEW q \in Qcs, Edit(q) PROVE AckedInv'
  BY <1>1, <1>6 DEF Edit, memory, database
<1>7. CASE UNCHANGED vars
  BY <1>1, <1>7 DEF vars, memory, database
<1> QED
  BY <1>2, <1>3, <1>4, <1>5, <1>6, <1>7 DEF Next

(* AckedInv with what it needs, in every state. *)
LEMMA AckedAlways == Spec => []AckedInv
<1>1. Init => AnswersAtEnd /\ AckedInv
  BY DEF Init, AnswersAtEnd, AckedInv, AckedIsStored, Known, Early
<1> QED
  BY <1>1, InitType, StepType, InitFresh, StepFresh, StepAnswers, StepAcked, PTL DEF Spec

(* A processed event stands for a stored coversheet of one of its          *)
(* deliveries, and a 200 for work done stands for the delivery's own, over *)
(* any number of duplicates, failures and crashes.                         *)
THEOREM AckedImpliesStored == Spec => []AckedIsStored
BY AckedAlways, PTL DEF AckedInv

(* If the ERP never sends an event with two coversheets, every delivery    *)
(* answered 200 has its own coversheet in the database.                    *)
OwnStored == \A d \in Deliveries : answer[d] = "processed" => stored[Qc(d)] > 0
THEOREM OneCoversheetPerEvent ==
  ASSUME \A d, x \in Deliveries : Ev(d) = Ev(x) => Qc(d) = Qc(x)
  PROVE  Spec => []OwnStored
<1>1. AckedIsStored => OwnStored
  BY Subjects DEF AckedIsStored, Kept, OwnStored
<1> QED
  BY <1>1, AckedImpliesStored, PTL

-----------------------------------------------------------------------------
(* Action properties. *)

(* A settled event stays settled: by cases on the action, a delivery that  *)
(* writes the status is past the check, and the only one that gets past it *)
(* saw the event unprocessed.                                              *)
LEMMA StepSettled ==
  ASSUME TypeOK, [Next]_vars, NEW e \in Events, Settled(e)
  PROVE  Settled(e)'
<1>0. \A d \in Deliveries : Ev(d) \in Events /\ Ev(d)' = Ev(d)
  BY Subjects DEF Ev
<1> USE DEF Goto, Reply, SetStatus, MarkProcessing, TypeOK, Settled,
            PastCheck, Points, InTry, HoldsConn, Ended
(* Steps of a delivery that is past the check are of another event. *)
<1>1. ASSUME NEW d \in Deliveries, NEW p, Goto(d, p), Ev(d) # e,
             UNCHANGED status \/ \E s : SetStatus(d, s)
      PROVE  Settled(e)'
  BY <1>0, <1>1
<1>2. ASSUME NEW d \in Deliveries, Reject(d) \/ Receive(d) \/ ShortCircuit(d)
      PROVE Settled(e)'
  BY <1>0, <1>2 DEF Reject, Receive, ShortCircuit, database
<1>3. ASSUME NEW d \in Deliveries, RecordEvent(d) PROVE Settled(e)'
  BY <1>0, <1>3 DEF RecordEvent, UpsertEvent
<1>4. ASSUME NEW d \in Deliveries, Step(d), ~ShortCircuit(d), ~RecordEvent(d)
      PROVE  Settled(e)'
  <2>1. pc[d] \in PastCheck
    BY <1>4 DEF Step, StartProcessing, StartQueueing, UpsertJob, FinishQueueing, TakeSlot,
                NoSlot, AnswerBusy, FetchOk, FetchFailed, BeginTx, Commit,
                CommitUnacknowledged, StoreFailed, RecordFailure, Release
  <2>2. Ev(d) # e
    BY <2>1
  <2>3. UNCHANGED status \/ \E s : SetStatus(d, s)
    BY <1>4 DEF Step, StartProcessing, StartQueueing, UpsertJob, FinishQueueing, TakeSlot,
                NoSlot, AnswerBusy, FetchOk, FetchFailed, BeginTx, Commit, Store,
                CommitUnacknowledged, StoreFailed, RecordFailure, Release, database
  <2>4. \E p : Goto(d, p)
    BY <1>4 DEF Step, StartProcessing, StartQueueing, UpsertJob, FinishQueueing, TakeSlot,
                NoSlot, AnswerBusy, FetchOk, FetchFailed, BeginTx, Commit,
                CommitUnacknowledged, StoreFailed, RecordFailure, Release
  <2> QED
    BY <1>1, <2>2, <2>3, <2>4
<1>5. ASSUME NEW d \in Deliveries, Abort(d) PROVE Settled(e)'
  BY <1>0, <1>5 DEF Abort, database
<1>6. CASE Crash
  BY <1>0, <1>6 DEF Crash, database
<1>7. CASE UNCHANGED <<memory, database>>
  BY <1>0, <1>7 DEF memory, database
<1> QED
  BY <1>2, <1>3, <1>4, <1>5, <1>6, <1>7 DEF Next, Edit, vars, database

(* Once an event is processed and no delivery of it is past the check, no  *)
(* later delivery of it is ever processed again.                           *)
THEOREM ProcessedOnceSettled == Spec => SettledStays
<1>1. TypeOK /\ [Next]_vars => [\A e \in Events : Settled(e) => Settled(e)']_vars
  BY StepSettled
<1> QED
  BY <1>1, InitType, StepType, PTL DEF Spec, SettledStays

(* No step brings an older payload back when every open delivery about the *)
(* coversheet is at least as fresh as version v.                           *)
LEMMA StepNoneOlder ==
  ASSUME TypeOK, Fresh, [Next]_vars, NEW q \in Qcs, NEW v \in Nat, NoneOlder(q, v)
  PROVE  NoneOlder(q, v)'
<1>0. \A d \in Deliveries : Qc(d) \in Qcs /\ Qc(d)' = Qc(d)
  BY Subjects DEF Qc
<1> USE DEF Goto, Reply, TypeOK, NoneOlder, PastCheck, Points, InTry, HoldsConn, Ended
(* Steps that get nobody past the check and store nothing. *)
<1>1. ASSUME UNCHANGED <<since, stored, erp>>,
             \A d \in Deliveries : pc'[d] \in PastCheck => pc[d] \in PastCheck
      PROVE  NoneOlder(q, v)'
  BY <1>0, <1>1
<1>2. ASSUME NEW d \in Deliveries, Reject(d) \/ Receive(d) PROVE NoneOlder(q, v)'
  BY <1>1, <1>2 DEF Reject, Receive, database
<1>3. ASSUME NEW d \in Deliveries, Step(d) PROVE NoneOlder(q, v)'
  <2>1. CASE RecordEvent(d)
    BY <1>0, <2>1 DEF RecordEvent, UpsertEvent
  <2>2. CASE Commit(d) \/ CommitUnacknowledged(d)
    <3>1. payload[d] >= since[d] /\ payload[d] \in Nat /\ since[d] \in Nat /\ pc[d] \in PastCheck
      BY <2>2 DEF Commit, CommitUnacknowledged, Fresh
    <3> QED
      BY <1>0, <2>2, <3>1 DEF Commit, CommitUnacknowledged, Store
  <2>3. CASE \/ ShortCircuit(d) \/ StartProcessing(d) \/ StartQueueing(d) \/ UpsertJob(d)
             \/ FinishQueueing(d) \/ TakeSlot(d) \/ NoSlot(d) \/ AnswerBusy(d)
    BY <1>1, <2>3 DEF ShortCircuit, StartProcessing, StartQueueing, UpsertJob, FinishQueueing,
                      TakeSlot, NoSlot, AnswerBusy, database
  <2>4. CASE \/ FetchOk(d) \/ FetchFailed(d) \/ BeginTx(d) \/ StoreFailed(d)
             \/ RecordFailure(d) \/ Release(d)
    BY <1>1, <2>4 DEF FetchOk, FetchFailed, BeginTx, StoreFailed, RecordFailure, Release, database
  <2> QED
    BY <1>3, <2>1, <2>2, <2>3, <2>4 DEF Step
<1>4. ASSUME NEW d \in Deliveries, Abort(d) PROVE NoneOlder(q, v)'
  BY <1>1, <1>4 DEF Abort, database
<1>5. CASE Crash
  BY <1>1, <1>5 DEF Crash, database
<1>6. ASSUME NEW x \in Qcs, Edit(x) PROVE NoneOlder(q, v)'
  BY <1>0, <1>6 DEF Edit, memory, database
<1>7. CASE UNCHANGED vars
  BY <1>1, <1>7 DEF vars, memory, database
<1> QED
  BY <1>2, <1>3, <1>4, <1>5, <1>6, <1>7 DEF Next

(* An older payload replaces a newer one only while deliveries overlap. *)
THEOREM RegressionNeedsOverlap == Spec => NoRegression
<1>1. TypeOK /\ Fresh /\ [Next]_vars =>
        [\A q \in Qcs : \A v \in 1..(MaxEdits[q] + 1) : NoneOlder(q, v) => NoneOlder(q, v)']_vars
  <2>1. \A q \in Qcs : \A v \in 1..(MaxEdits[q] + 1) : v \in Nat
    BY MaxEditsType
  <2> QED
    BY <2>1, StepNoneOlder
<1> QED
  BY <1>1, InitType, StepType, InitFresh, StepFresh, PTL DEF Spec, NoRegression

-----------------------------------------------------------------------------
(* An event in processing has an owner. *)

(* A delivery that owns the processing status of its event. *)
Owns(d) ==
  \/ pc[d] \in (InTry \ {"release"}) \cup {"limit", "busy", "enqueue", "requeue"}
  \/ pc[d] = "lost"
  \/ answer[d] = "error"

(* An owner stays one, or its step settles the status of the event. *)
LEMMA StepOwned ==
  TypeOK /\ AnswersAtEnd /\ ProcessingIsOwned /\ [Next]_vars => ProcessingIsOwned'
<1> SUFFICES ASSUME TypeOK, AnswersAtEnd, ProcessingIsOwned, [Next]_vars,
                    NEW e \in Events, status'[e] = "processing"
             PROVE  Working(e)'
  BY DEF ProcessingIsOwned
<1>0. \A d \in Deliveries : Ev(d) \in Events /\ Ev(d)' = Ev(d)
  BY Subjects DEF Ev
<1>W. ASSUME \E d \in Deliveries : Ev(d) = e /\ Owns(d)' PROVE Working(e)'
  BY <1>0, <1>W DEF Working, Owns
<1>O. ASSUME status[e] = "processing" PROVE \E d \in Deliveries : Ev(d) = e /\ Owns(d)
  BY <1>O DEF ProcessingIsOwned, Working, Owns
(* Only d moves, and if it owned e it still does. *)
<1>K. ASSUME NEW d \in Deliveries, NEW p, Goto(d, p), status[e] = "processing",
             \A x \in Deliveries \ {d} : answer'[x] = answer[x],
             Ev(d) = e /\ Owns(d) => Owns(d)'
      PROVE  Working(e)'
  <2>1. PICK x \in Deliveries : Ev(x) = e /\ Owns(x)
    BY <1>K, <1>O
  <2>2. Owns(x)'
    BY <1>K, <2>1 DEF Owns, Goto, TypeOK
  <2> QED
    BY <1>W, <2>1, <2>2
<1> USE DEF Goto, Reply, SetStatus, MarkProcessing, TypeOK, AnswersAtEnd, InTry, HoldsConn, Ended
<1>1. ASSUME NEW d \in Deliveries, Reject(d) \/ Receive(d) PROVE Working(e)'
  BY <1>1, <1>K DEF Reject, Receive, Owns, database
<1>2. ASSUME NEW d \in Deliveries, Step(d) PROVE Working(e)'
  <2>1. CASE RecordEvent(d)
    BY <2>1, <1>0, <1>K DEF RecordEvent, UpsertEvent, Owns
  <2>2. CASE ShortCircuit(d)
    BY <2>2, <1>K DEF ShortCircuit, Owns, database
  <2>3. CASE StartProcessing(d) \/ StartQueueing(d)
    <3>1. Owns(d)'
      BY <2>3 DEF StartProcessing, StartQueueing, Owns
    <3>2. CASE Ev(d) = e
      BY <1>W, <3>1, <3>2
    <3>3. CASE Ev(d) # e
      <4>1. status[e] = "processing"
        BY <1>0, <2>3, <3>3 DEF StartProcessing, StartQueueing
      <4> QED
        BY <1>K, <2>3, <3>1, <4>1 DEF StartProcessing, StartQueueing
    <3> QED
      BY <3>2, <3>3
  <2>4. CASE UpsertJob(d)
    BY <2>4, <1>K DEF UpsertJob, Owns
  <2>5. CASE FinishQueueing(d)
    BY <2>5, <1>0, <1>K DEF FinishQueueing
  <2>6. CASE TakeSlot(d) \/ NoSlot(d)
    BY <2>6, <1>K DEF TakeSlot, NoSlot, Owns, database
  <2>7. CASE AnswerBusy(d)
    BY <2>7, <1>0, <1>K DEF AnswerBusy
  <2>8. CASE FetchOk(d) \/ FetchFailed(d) \/ BeginTx(d) \/ StoreFailed(d)
    BY <2>8, <1>K DEF FetchOk, FetchFailed, BeginTx, StoreFailed, Owns, database
  <2>9. CASE Commit(d) \/ CommitUnacknowledged(d)
    BY <2>9, <1>0, <1>K DEF Commit, CommitUnacknowledged, Store
  <2>10. CASE RecordFailure(d)
    BY <2>10, <1>0, <1>K DEF RecordFailure
  <2>11. CASE Release(d)
    BY <2>11, <1>K DEF Release, Owns, database
  <2> QED
    BY <1>2, <2>1, <2>2, <2>3, <2>4, <2>5, <2>6, <2>7, <2>8, <2>9, <2>10, <2>11 DEF Step
<1>3. ASSUME NEW d \in Deliveries, Abort(d) PROVE Working(e)'
  <2>1. Owns(d)'
    BY <1>3 DEF Abort, Owns
  <2> QED
    BY <1>3, <1>K, <2>1 DEF Abort, database
<1>4. CASE Crash
  <2>1. PICK x \in Deliveries : Ev(x) = e /\ Owns(x)
    BY <1>4, <1>O DEF Crash, database
  <2>2. Owns(x)'
    BY <1>4, <2>1 DEF Crash, Owns
  <2> QED
    BY <1>W, <2>1, <2>2
<1>5. CASE UNCHANGED <<memory, database>>
  <2>1. PICK x \in Deliveries : Ev(x) = e /\ Owns(x)
    BY <1>5, <1>O DEF database
  <2>2. Owns(x)'
    BY <1>5, <2>1 DEF memory, Owns
  <2> QED
    BY <1>W, <2>1, <2>2
<1> QED
  BY <1>1, <1>2, <1>3, <1>4, <1>5 DEF Next, Edit, vars

(* An event is in processing only while a delivery of it works on it, or   *)
(* because one was aborted or lost with the process.                       *)
THEOREM ProcessingHasAnOwner == Spec => []ProcessingIsOwned
<1>1. Init => AnswersAtEnd /\ ProcessingIsOwned
  BY DEF Init, AnswersAtEnd, ProcessingIsOwned
<1> QED
  BY <1>1, InitType, StepType, StepAnswers, StepOwned, PTL DEF Spec

-----------------------------------------------------------------------------
(* Queue mode. *)

(* Every job points at an event that is recorded and was delivered about   *)
(* its coversheet; a recorded event is about a coversheet that it was      *)
(* delivered about; a delivery past UPSERT_INGEST_JOB has a job.           *)
Jobs ==
  /\ \A d \in Deliveries : pc[d] \in PastCheck => status[Ev(d)] # "absent" /\ since[d] > 0
  /\ \A e \in Events : status[e] # "absent" => about[e] \in Recorded(e)
  /\ \A q \in Qcs : job[q] # NoEvent => q \in Recorded(job[q]) /\ status[job[q]] # "absent"
  /\ \A d \in Deliveries : pc[d] = "requeue" \/ answer[d] = "queued" => job[Qc(d)] # NoEvent

(* Once a delivery has recorded its event, it has. *)
LEMMA RecordedStays ==
  ASSUME TypeOK, Fresh, [Next]_vars, NEW e \in Events
  PROVE  Recorded(e) \subseteq Recorded(e)'
<1>1. since' = since \/ \E d \in Deliveries : since' = [since EXCEPT ![d] = erp[Qc(d)]]
  BY DEF Next, Step, vars, memory, Reject, Receive, RecordEvent, UpsertEvent,
         ShortCircuit, StartProcessing, StartQueueing, UpsertJob, FinishQueueing, TakeSlot,
         NoSlot, AnswerBusy, FetchOk, FetchFailed, BeginTx, Commit, CommitUnacknowledged,
         StoreFailed, RecordFailure, Release, Abort, Crash, Edit
<1>2. \A d \in Deliveries : erp[Qc(d)] \in Nat /\ erp[Qc(d)] >= 1
  BY Subjects DEF TypeOK, Fresh
<1>3. \A x \in Deliveries : since[x] > 0 => since'[x] > 0
  BY <1>1, <1>2 DEF TypeOK
<1> QED
  BY <1>3 DEF Recorded, Ev, Qc

(* No step takes a job or the record of an event away. *)
LEMMA StepJobs == TypeOK /\ Fresh /\ Jobs /\ [Next]_vars => Jobs'
<1> SUFFICES ASSUME TypeOK, Fresh, Jobs, [Next]_vars PROVE Jobs'
  OBVIOUS
<1>0. \A d \in Deliveries : /\ Ev(d) \in Events /\ Qc(d) \in Qcs
                            /\ Ev(d)' = Ev(d) /\ Qc(d)' = Qc(d)
  BY Subjects DEF Ev, Qc
<1>R. \A e \in Events : Recorded(e) \subseteq Recorded(e)'
  BY RecordedStays
<1>J. \A q \in Qcs : job[q] # NoEvent => job[q] \in Events
  BY DEF TypeOK
<1> USE DEF Goto, Reply, SetStatus, MarkProcessing, TypeOK, Jobs, PastCheck, Points,
            InTry, HoldsConn, Ended
(* Steps that create no job and no event, and let nobody past the check or *)
(* the upsert.                                                             *)
<1>1. ASSUME UNCHANGED <<job, about, since>>,
             \A e \in Events : status[e] # "absent" <=> status'[e] # "absent",
             \A d \in Deliveries : pc'[d] \in PastCheck => pc[d] \in PastCheck,
             \A d \in Deliveries : pc'[d] = "requeue" \/ answer'[d] = "queued" =>
                                   pc[d] = "requeue" \/ answer[d] = "queued"
      PROVE  Jobs'
  BY <1>0, <1>R, <1>J, <1>1
<1>2. ASSUME NEW d \in Deliveries, Reject(d) \/ Receive(d) \/ Abort(d) PROVE Jobs'
  BY <1>1, <1>2 DEF Reject, Receive, Abort, database
<1>3. ASSUME NEW d \in Deliveries, Step(d) PROVE Jobs'
  <2>1. CASE RecordEvent(d)
    <3>1. since'[d] > 0 /\ Qc(d) \in Recorded(Ev(d))'
      <4>1. erp[Qc(d)] \in Nat /\ erp[Qc(d)] >= 1
        BY <1>0 DEF Fresh
      <4>2. since'[d] = erp[Qc(d)]
        BY <2>1 DEF RecordEvent, UpsertEvent
      <4> QED
        BY <1>0, <4>1, <4>2 DEF Recorded
    <3>2. /\ \A e \in Events : status[e] # "absent" => status'[e] # "absent"
          /\ \A e \in Events \ {Ev(d)} : status'[e] = status[e] /\ about'[e] = about[e]
          /\ about'[Ev(d)] = Qc(d) /\ status'[Ev(d)] # "absent"
      BY <1>0, <2>1 DEF RecordEvent, UpsertEvent
    <3>3. \A x \in Deliveries : x # d => since'[x] = since[x] /\ pc'[x] = pc[x]
      BY <2>1 DEF RecordEvent, UpsertEvent
    <3>4. UNCHANGED <<job, answer>> /\ pc'[d] \in {"known", "mark"}
      BY <2>1 DEF RecordEvent
    <3>5. \A x \in Deliveries : pc'[x] \in PastCheck => status'[Ev(x)] # "absent" /\ since'[x] > 0
      BY <1>0, <3>1, <3>2, <3>3
    <3>6. \A e \in Events : status'[e] # "absent" => about'[e] \in Recorded(e)'
      BY <1>R, <3>1, <3>2
    <3>7. \A q \in Qcs : job'[q] # NoEvent => q \in Recorded(job[q])' /\ status'[job'[q]] # "absent"
      BY <1>R, <1>J, <3>2, <3>4
    <3>8. \A x \in Deliveries : pc'[x] = "requeue" \/ answer'[x] = "queued" => job'[Qc(x)] # NoEvent
      BY <3>3, <3>4
    <3> QED
      BY <1>0, <3>4, <3>5, <3>6, <3>7, <3>8
  <2>2. CASE ShortCircuit(d) \/ TakeSlot(d) \/ NoSlot(d)
    BY <2>2, <1>1 DEF ShortCircuit, TakeSlot, NoSlot, database
  <2>3. CASE StartProcessing(d) \/ StartQueueing(d) \/ AnswerBusy(d)
    BY <2>3, <1>0, <1>1 DEF StartProcessing, StartQueueing, AnswerBusy
  <2>4. CASE UpsertJob(d)
    <3>1. Ev(d) # NoEvent /\ status[Ev(d)] # "absent" /\ Qc(d) \in Recorded(Ev(d))
      BY <2>4, <1>0, NoEventFresh DEF UpsertJob, Recorded
    <3>2. UNCHANGED <<status, about, answer, since>> /\ job' = [job EXCEPT ![Qc(d)] = Ev(d)]
      BY <2>4 DEF UpsertJob
    <3>3. \A x \in Deliveries : /\ pc'[x] \in PastCheck => pc[x] \in PastCheck
                                /\ pc'[x] = "requeue" => pc[x] = "requeue" \/ x = d
      BY <2>4 DEF UpsertJob
    <3>4. ASSUME NEW q \in Qcs, job'[q] # NoEvent
          PROVE  q \in Recorded(job[q])' /\ status'[job'[q]] # "absent"
      <4>1. CASE q = Qc(d)
        BY <1>0, <1>R, <3>1, <3>2, <4>1
      <4>2. CASE q # Qc(d)
        BY <1>R, <1>J, <3>2, <3>4, <4>2
      <4> QED
        BY <4>1, <4>2
    <3>5. \A x \in Deliveries : pc'[x] = "requeue" \/ answer'[x] = "queued" => job'[Qc(x)] # NoEvent
      BY <1>0, <3>1, <3>2, <3>3
    <3>6. \A e \in Events : status'[e] # "absent" => about'[e] \in Recorded(e)'
      BY <1>R, <3>2
    <3> QED
      BY <1>0, <3>2, <3>3, <3>4, <3>5, <3>6
  <2>5. CASE FinishQueueing(d)
    BY <2>5, <1>0, <1>1 DEF FinishQueueing
  <2>6. CASE FetchOk(d) \/ FetchFailed(d) \/ BeginTx(d) \/ StoreFailed(d) \/ Release(d)
    BY <2>6, <1>1 DEF FetchOk, FetchFailed, BeginTx, StoreFailed, Release, database
  <2>7. CASE Commit(d) \/ CommitUnacknowledged(d)
    BY <2>7, <1>0, <1>1 DEF Commit, CommitUnacknowledged, Store
  <2>8. CASE RecordFailure(d)
    BY <2>8, <1>0, <1>1 DEF RecordFailure
  <2> QED
    BY <1>3, <2>1, <2>2, <2>3, <2>4, <2>5, <2>6, <2>7, <2>8 DEF Step
<1>4. CASE Crash
  BY <1>1, <1>4 DEF Crash, database
<1>5. CASE UNCHANGED <<memory, database>>
  BY <1>1, <1>5 DEF memory, database
<1> QED
  BY <1>2, <1>3, <1>4, <1>5 DEF Next, Edit, vars

(* A 202 is never given without a job that a later consumer can find, for  *)
(* an event that was delivered about the coversheet of the job.            *)
THEOREM QueuedNotLost == Spec => []QueuedHasJob
<1>1. Init => Jobs
  BY Subjects DEF Init, Jobs, PastCheck, Points, InTry, HoldsConn, Ended
<1>2. TypeOK /\ Jobs => QueuedHasJob
  <2> SUFFICES ASSUME TypeOK, Jobs, NEW d \in Deliveries, answer[d] = "queued"
               PROVE  /\ job[Qc(d)] \in Events /\ status[job[Qc(d)]] # "absent"
                      /\ {Qc(d), about[job[Qc(d)]]} \subseteq Recorded(job[Qc(d)])
    BY DEF QueuedHasJob
  <2>1. Qc(d) \in Qcs /\ job[Qc(d)] # NoEvent
    BY Subjects DEF Jobs
  <2>2. job[Qc(d)] \in Events
    BY <2>1 DEF TypeOK
  <2> QED
    BY <2>1, <2>2 DEF Jobs
<1> QED
  BY <1>1, <1>2, InitType, StepType, InitFresh, StepFresh, StepJobs, PTL DEF Spec

-----------------------------------------------------------------------------
(* The abstract specification. *)

(* What a delivery is about to store, the ERP has had. *)
PayloadIsReal == \A d \in Deliveries : pc[d] \in {"store", "tx"} => payload[d] <= erp[Qc(d)]

(* The ERP's version only grows. *)
LEMMA StepReal == TypeOK /\ PayloadIsReal /\ [Next]_vars => PayloadIsReal'
<1> SUFFICES ASSUME TypeOK, PayloadIsReal, [Next]_vars PROVE PayloadIsReal'
  OBVIOUS
<1>0. \A d \in Deliveries : Qc(d) \in Qcs /\ Qc(d)' = Qc(d)
  BY Subjects DEF Qc
<1> USE DEF Goto, Reply, PayloadIsReal, TypeOK, InTry, HoldsConn, Ended
<1>1. ASSUME NEW d \in Deliveries, Reject(d) \/ Receive(d) \/ Abort(d) PROVE PayloadIsReal'
  BY <1>0, <1>1 DEF Reject, Receive, Abort
<1>2. ASSUME NEW d \in Deliveries, Step(d) PROVE PayloadIsReal'
  <2>1. CASE \/ RecordEvent(d) \/ ShortCircuit(d) \/ StartProcessing(d) \/ StartQueueing(d)
             \/ UpsertJob(d) \/ FinishQueueing(d) \/ TakeSlot(d) \/ NoSlot(d) \/ AnswerBusy(d)
    BY <1>0, <2>1 DEF RecordEvent, UpsertEvent, ShortCircuit, StartProcessing, StartQueueing, UpsertJob,
                      FinishQueueing, TakeSlot, NoSlot, AnswerBusy
  <2>2. CASE FetchOk(d)
    BY <1>0, <2>2 DEF FetchOk
  <2>3. CASE \/ FetchFailed(d) \/ BeginTx(d) \/ Commit(d) \/ CommitUnacknowledged(d)
             \/ StoreFailed(d) \/ RecordFailure(d) \/ Release(d)
    BY <1>0, <2>3 DEF FetchFailed, BeginTx, Commit, CommitUnacknowledged, StoreFailed,
                      RecordFailure, Release
  <2> QED
    BY <1>2, <2>1, <2>2, <2>3 DEF Step
<1>3. CASE Crash
  BY <1>0, <1>3 DEF Crash
<1>4. ASSUME NEW q \in Qcs, Edit(q) PROVE PayloadIsReal'
  BY <1>0, <1>4 DEF Edit, memory
<1>5. CASE UNCHANGED vars
  BY <1>0, <1>5 DEF vars, memory
<1> QED
  BY <1>1, <1>2, <1>3, <1>4, <1>5 DEF Next

(* What the abstract specification sees of the state. *)
Phases == [d \in Deliveries |-> Phase(d)]
Processed == {e \in Events : status[e] = "processed"}
Acked == {d \in Deliveries : pc[d] = "done" /\ answer[d] = "processed"}

(* A step of d alone moves d alone. *)
LEMMA MoveOne ==
  ASSUME TypeOK, NEW d \in Deliveries, NEW p, Goto(d, p),
         \/ UNCHANGED answer \/ \E a : answer' = [answer EXCEPT ![d] = a]
  PROVE  /\ Phases' = [Phases EXCEPT ![d] = Phase(d)']
         /\ pc'[d] = p
         /\ \A x \in Deliveries \ {d} : x \in Acked' <=> x \in Acked
<1>1. \A x \in Deliveries \ {d} : pc'[x] = pc[x] /\ answer'[x] = answer[x]
  BY DEF Goto, TypeOK
<1>2. \A x \in Deliveries \ {d} : Phase(x)' = Phase(x)
  BY <1>1 DEF Phase
<1>3. pc'[d] = p
  BY DEF Goto, TypeOK
<1> QED
  BY <1>1, <1>2, <1>3 DEF Phases, Acked

(* What happens to the status of its event alone. *)
LEMMA MarkOne ==
  ASSUME TypeOK, NEW d \in Deliveries, NEW s, SetStatus(d, s)
  PROVE  Processed' = IF s = "processed" THEN Processed \cup {Ev(d)} ELSE Processed \ {Ev(d)}
BY Subjects DEF SetStatus, Processed, TypeOK

(* A delivery that stores stores what the ERP had since it was recorded. *)
LEMMA StoreMirrors ==
  ASSUME TypeOK, Fresh, PayloadIsReal, AnswersAtEnd, NEW d \in Deliveries,
         Commit(d) \/ CommitUnacknowledged(d)
  PROVE  Abstract!Mirror(d)
<1> USE DEF Commit, CommitUnacknowledged, Store
<1>1. pc[d] = "tx" /\ answer[d] = "none"
  BY DEF AnswersAtEnd
<1>2. Phases[d] = "open"
  BY <1>1 DEF Phases, Phase
<1>3. payload[d] \in since[d]..erp[Qc(d)]
  BY <1>1, Subjects DEF TypeOK, Fresh, PayloadIsReal
<1>4. \E p \in {"stored", "closing"} : Phases' = [Phases EXCEPT ![d] = p]
  <2>1. CASE Commit(d)
    <3>1. pc'[d] = "release" /\ answer'[d] = "processed"
      BY <2>1 DEF Reply, Goto, TypeOK
    <3>2. Phase(d)' = "stored"
      BY <3>1 DEF Phase
    <3>3. Phases' = [Phases EXCEPT ![d] = Phase(d)']
      BY <2>1, MoveOne DEF Reply
    <3> QED
      BY <3>2, <3>3
  <2>2. CASE CommitUnacknowledged(d)
    <3>1. pc'[d] = "failing"
      BY <2>2 DEF Goto, TypeOK
    <3>2. Phase(d)' = "closing"
      BY <3>1 DEF Phase
    <3>3. Phases' = [Phases EXCEPT ![d] = Phase(d)']
      BY <2>2, MoveOne
    <3> QED
      BY <3>2, <3>3
  <2> QED
    BY <2>1, <2>2
<1>5. Processed' = Processed \cup {Ev(d)}
  BY MarkOne
<1>6. Acked' = Acked
  BY <1>1 DEF Reply, Goto, TypeOK, Acked
<1>7. stored' = [stored EXCEPT ![Qc(d)] = payload[d]] /\ UNCHANGED <<since, erp>>
  OBVIOUS
<1> QED
  BY <1>2, <1>3, <1>4, <1>5, <1>6, <1>7
  DEF Abstract!Mirror, Abstract!Goto, Abstract!Ev, Abstract!Qc, Ev, Qc, Phases, Processed, Acked

(* A delivery is recorded with the version that the ERP has. *)
LEMMA RecordBegins ==
  ASSUME TypeOK, AnswersAtEnd, NEW d \in Deliveries, RecordEvent(d)
  PROVE  Abstract!Begin(d)
<1> USE DEF RecordEvent, UpsertEvent
<1>1. Phases[d] = "new" /\ (Ev(d) \in Processed <=> status[Ev(d)] = "processed")
  BY Subjects DEF Phases, Phase, Processed
<1>2. /\ pc'[d] = IF Ev(d) \in Processed THEN "known" ELSE "mark"
      /\ Phases' = [Phases EXCEPT ![d] = Phase(d)']
  BY <1>1, MoveOne DEF Goto, TypeOK
<1>3. Phases' = [Phases EXCEPT ![d] = IF Ev(d) \in Processed THEN "known" ELSE "open"]
  BY <1>2 DEF Phase
<1>4. Processed' = Processed /\ Acked' = Acked
  BY Subjects DEF Processed, Acked, Goto, TypeOK
<1> QED
  BY <1>1, <1>3, <1>4
  DEF Abstract!Begin, Abstract!Goto, Abstract!Ev, Abstract!Qc, Ev, Qc, Phases, Processed, Acked

(* A delivery may take the mark of its event away until it is over. *)
LEMMA MarkUnmarks ==
  ASSUME TypeOK, AnswersAtEnd, NEW d \in Deliveries,
         \/ StartProcessing(d) \/ StartQueueing(d) \/ FinishQueueing(d) \/ AnswerBusy(d)
         \/ RecordFailure(d)
  PROVE  Abstract!Unmark(d)
<1> USE DEF StartProcessing, StartQueueing, FinishQueueing, AnswerBusy, RecordFailure,
            MarkProcessing, Reply
<1>1. Phases[d] = Phase(d) /\ answer[d] = "none"
  BY DEF Phases, AnswersAtEnd
<1>2. Phases' = [Phases EXCEPT ![d] = Phase(d)']
  BY MoveOne
<1>3. \/ Phase(d) = "open" /\ Phase(d)' \in {"open", "closing"}
      \/ Phase(d) = "closing" /\ Phase(d)' = "over"
  BY <1>1 DEF Phase, Goto, TypeOK
<1>4. Processed' = Processed \ {Ev(d)}
  BY MarkOne
<1>5. Acked' = Acked
  BY DEF Acked, Goto, TypeOK
<1>6. UNCHANGED <<since, stored, erp>>
  OBVIOUS
<1> QED
  BY <1>1, <1>2, <1>3, <1>4, <1>5, <1>6
  DEF Abstract!Unmark, Abstract!Goto, Abstract!Ev, Ev, Phases, Processed, Acked

(* A 200 is for a delivery that stored, or found its event processed. *)
LEMMA AnswerAcknowledges ==
  ASSUME TypeOK, AnswersAtEnd, NEW d \in Deliveries,
         ShortCircuit(d) \/ (Release(d) /\ answer[d] = "processed")
  PROVE  Abstract!Acknowledge(d)
<1> USE DEF ShortCircuit, Release, Reply, database
<1>1. Phases[d] = Phase(d) /\ Phase(d) \in {"stored", "known"}
  BY DEF Phases, Phase
<1>2. pc'[d] = "done" /\ answer'[d] = "processed" /\ Phases' = [Phases EXCEPT ![d] = Phase(d)']
  BY MoveOne DEF TypeOK
<1>3. Phases' = [Phases EXCEPT ![d] = "over"]
  BY <1>2 DEF Phase
<1>4. Processed' = Processed
  BY DEF Processed
<1>5. Acked' = Acked \cup {d}
  BY <1>2 DEF Acked, Goto, TypeOK
<1>6. UNCHANGED <<since, stored, erp>>
  OBVIOUS
<1> QED
  BY <1>1, <1>3, <1>4, <1>5, <1>6
  DEF Abstract!Acknowledge, Abstract!Goto, Abstract!Ev, Ev, Phases, Processed, Acked

(* No slot, no answer of the ERP, no commit. *)
LEMMA FailureGivesUp ==
  ASSUME TypeOK, AnswersAtEnd, NEW d \in Deliveries,
         NoSlot(d) \/ FetchFailed(d) \/ StoreFailed(d)
  PROVE  Abstract!GiveUp(d)
<1> USE DEF NoSlot, FetchFailed, StoreFailed, database
<1>1. Phases[d] = "open" /\ answer[d] = "none"
  BY DEF Phases, Phase, AnswersAtEnd
<1>2. pc'[d] \in {"busy", "failing"} /\ Phases' = [Phases EXCEPT ![d] = Phase(d)']
  BY MoveOne
<1>3. Phases' = [Phases EXCEPT ![d] = "closing"]
  BY <1>2 DEF Phase
<1>4. Processed' = Processed /\ Acked' = Acked
  BY DEF Processed, Acked, Goto, TypeOK
<1> QED
  BY <1>1, <1>3, <1>4 DEF Abstract!GiveUp, Abstract!Goto, Phases, Processed, Acked

(* A refusal, a cancellation and a crash end deliveries. *)
LEMMA AbortDrops ==
  ASSUME TypeOK, AnswersAtEnd, NEW d \in Deliveries, Reject(d) \/ Abort(d)
  PROVE  Abstract!Drop({d})
<1> USE DEF Reject, Abort, Reply, database
<1>1. /\ pc'[d] \in {"done", "release"} /\ answer'[d] \in {"unauthorized", "error"}
      /\ Phases' = [Phases EXCEPT ![d] = Phase(d)']
  BY MoveOne DEF TypeOK
<1>2. Phases' = [Phases EXCEPT ![d] = "over"]
  BY <1>1 DEF Phase
<1>3. Phases' = [x \in Deliveries |-> IF x \in {d} THEN "over" ELSE Phases[x]]
  BY <1>2 DEF Phases
<1>4. Processed' = Processed
  BY DEF Processed
<1>5. Acked' = Acked
  BY <1>1 DEF Acked, Goto, TypeOK, Ended
<1>6. UNCHANGED <<since, stored, erp>>
  OBVIOUS
<1> QED
  BY <1>3, <1>4, <1>5, <1>6 DEF Abstract!Drop, Phases, Processed, Acked

(* A crash ends those that are open, before they are recorded or after. *)
LEMMA CrashDrops ==
  ASSUME TypeOK, AnswersAtEnd, Crash
  PROVE  Abstract!Drop({d \in Deliveries : pc[d] \notin Ended \cup {"new"}})
<1> USE DEF Crash, database
<1>1. ASSUME NEW d \in Deliveries
      PROVE  Phase(d)' = IF pc[d] \notin Ended \cup {"new"} THEN "over" ELSE Phase(d)
  BY DEF Phase, Ended, AnswersAtEnd
<1>2. Processed' = Processed
  BY DEF Processed
<1>3. Acked' = Acked
  BY DEF Acked, Ended
<1>4. UNCHANGED <<since, stored, erp>>
  OBVIOUS
<1> QED
  BY <1>1, <1>2, <1>3, <1>4 DEF Abstract!Drop, Phases, Processed, Acked

(* The steps of which the abstract specification sees nothing. *)
LEMMA OthersStutter ==
  ASSUME TypeOK, AnswersAtEnd, NEW d \in Deliveries,
         \/ Receive(d) \/ UpsertJob(d) \/ TakeSlot(d) \/ FetchOk(d) \/ BeginTx(d)
         \/ Release(d) /\ answer[d] # "processed"
  PROVE  UNCHANGED Abstract!vars
<1> USE DEF Receive, UpsertJob, TakeSlot, FetchOk, BeginTx, Release, database
<1>1. Phases' = [Phases EXCEPT ![d] = Phase(d)']
  BY MoveOne
<1>2. Phase(d)' = Phase(d)
  BY DEF Phase, Goto, TypeOK
<1>3. Phases' = Phases
  BY <1>1, <1>2 DEF Phases
<1>4. Processed' = Processed
  BY DEF Processed
<1>5. Acked' = Acked
  BY DEF Acked, Goto, TypeOK
<1>6. UNCHANGED <<since, stored, erp>>
  OBVIOUS
<1> QED
  BY <1>3, <1>4, <1>5, <1>6 DEF Abstract!vars, Phases, Processed, Acked

(* The ingest service implements the mirror. *)
THEOREM Refinement == Spec => MirrorsErp
<1> DEFINE Inv == TypeOK /\ Fresh /\ PayloadIsReal /\ AnswersAtEnd
<1>1. Init => Inv
  BY InitType, InitFresh DEF Init, PayloadIsReal, AnswersAtEnd
<1>2. Init => Abstract!Init
  BY DEF Init, Abstract!Init, Phase
<1>3. Inv /\ [Next]_vars => Inv'
  BY StepType, StepFresh, StepReal, StepAnswers
<1>4. Inv /\ [Next]_vars => [Abstract!Next]_(Abstract!vars)
  <2> SUFFICES ASSUME Inv, [Next]_vars PROVE [Abstract!Next]_(Abstract!vars)
    OBVIOUS
  <2>1. ASSUME NEW d \in Deliveries, Step(d) PROVE Abstract!Next \/ UNCHANGED Abstract!vars
    BY <2>1, StoreMirrors, RecordBegins, MarkUnmarks, AnswerAcknowledges, FailureGivesUp,
       OthersStutter
    DEF Step, Abstract!Next
  <2>2. ASSUME NEW d \in Deliveries, Reject(d) \/ Abort(d) PROVE Abstract!Next
    BY <2>2, AbortDrops DEF Abstract!Next
  <2>3. CASE Crash
    BY <2>3, CrashDrops DEF Abstract!Next
  <2>4. ASSUME NEW q \in Qcs, Edit(q) PROVE Abstract!Next
    <3>1. Abstract!Edit(q)
      BY <2>4 DEF Edit, memory, database, Abstract!Edit, Phase
    <3> QED
      BY <3>1 DEF Abstract!Next
  <2>5. ASSUME NEW d \in Deliveries, Receive(d) PROVE UNCHANGED Abstract!vars
    BY <2>5, OthersStutter
  <2>6. CASE UNCHANGED vars
    BY <2>6 DEF vars, memory, database, Abstract!vars, Phase
  <2> QED
    BY <2>1, <2>2, <2>3, <2>4, <2>5, <2>6 DEF Next
<1> QED
  BY <1>1, <1>2, <1>3, <1>4, PTL DEF Spec, MirrorsErp, Abstract!Spec
=============================================================================
