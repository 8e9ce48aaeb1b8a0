------------------------------- MODULE Ingest -------------------------------
(***************************************************************************)
(* IngestService.handle_ingest as it runs for several deliveries at once.  *)
(*                                                                         *)
(* The ERP posts an event; every POST is a delivery, and a retry by the    *)
(* ERP is another delivery of the same event.  The request carries the     *)
(* event_id and the qcUdicID side by side, and nothing ties the two: the   *)
(* same event may come with another coversheet.  The deliveries are        *)
(* coroutines of one process: they share the ConcurrencyLimiter and the    *)
(* asyncpg pool (both lost when the process dies), the tables of the       *)
(* database (which survive), and the ERP record, which users edit          *)
(* meanwhile.  A step runs from one await that can suspend to the next.    *)
(* The upsert transaction is one step here: what is inside it, and the row *)
(* locks it takes, is the subject of other modules.                        *)
(***************************************************************************)
EXTENDS Naturals, FiniteSets

CONSTANTS
  Deliveries,   \* POST /ingest requests
  Events,       \* event_id values
  Qcs,          \* qcUdicID values
  EventOf,      \* the event a delivery carries
  QcOf,         \* the coversheet a delivery is about
  NoEvent,      \* latest_event_id of a missing ingest_job row
  NoQc,         \* qc_udic_id of a missing ingest_event row
  Limit,        \* settings.ingest_concurrency_limit
  PoolSize,     \* max_size of the asyncpg pool
  Modes,        \* the values settings.ingest_mode may have: "sync", "queue"
  MaxEdits      \* bound on the edits of each ERP record, for TLC

ASSUME EventOfType == EventOf \in [Deliveries -> Events]
ASSUME QcOfType == QcOf \in [Deliveries -> Qcs]
ASSUME NoEventFresh == NoEvent \notin Events /\ NoQc \notin Qcs
ASSUME DeliveriesFinite == IsFiniteSet(Deliveries)
ASSUME LimitType == Limit \in Nat
ASSUME PoolSizeType == PoolSize \in Nat \ {0}
ASSUME ModesType == Modes \subseteq {"sync", "queue"} /\ Modes # {}
ASSUME MaxEditsType == MaxEdits \in [Qcs -> Nat]

VARIABLES
  pc,        \* where each delivery's handler is
  answer,    \* the response it sends, or is about to send
  payload,   \* the ERP version it fetched
  since,     \* history: the ERP version when it recorded its event
  inFlight,  \* ConcurrencyLimiter._in_flight
  free,      \* connections idle in the pool
  mode,      \* settings.ingest_mode, read when the process starts
  status,    \* ingest_event.status ("absent": no row)
  about,     \* ingest_event.qc_udic_id
  attempts,  \* ingest_event.attempt_count
  job,       \* ingest_job.latest_event_id per coversheet
  stored,    \* ERP version held by the coversheet's rows (0: no row)
  erp        \* version of the ERP record

memory   == <<pc, answer, payload, since, inFlight, free, mode>>
database == <<status, about, attempts, job, stored>>
vars     == <<memory, database, erp>>

(* The event_id and the qcUdicID of a request. *)
Ev(d) == EventOf[d]
Qc(d) == QcOf[d]

(***************************************************************************)
(* The points where a handler can be suspended.                            *)
(*   new      the request has not been received                            *)
(*   event    waiting for a connection, then for UPSERT_INGEST_EVENT       *)
(*   known    the event is processed already                               *)
(*   mark     it is not; MARK_PROCESSING is next                           *)
(*   enqueue  queue mode: UPSERT_INGEST_JOB is next                        *)
(*   requeue  queue mode: the reset of the event to received is next       *)
(*   limit    MARK_PROCESSING done, connection returned                    *)
(*   busy     limiter full: the event must be marked failed                *)
(*   fetch    slot taken, fetching from the ERP                            *)
(*   store    waiting for a connection for the transaction                 *)
(*   tx       in the transaction                                           *)
(*   failing  in the except clause, marking the event failed               *)
(*   release  in the finally clause                                        *)
(*   done     answered;  lost: the process died under it                   *)
(***************************************************************************)
HoldsConn == {"known", "mark", "enqueue", "requeue", "tx"}
InTry     == {"fetch", "store", "tx", "failing", "release"}
Ended     == {"done", "lost"}
Points    == {"new", "event", "limit", "busy"} \cup HoldsConn \cup InTry \cup Ended
Statuses  == {"absent", "received", "processing", "processed", "failed"}
Answers   == {"none", "unauthorized", "processed", "queued", "busy", "failed", "error"}

Init ==
  /\ pc = [d \in Deliveries |-> "new"]
  /\ answer = [d \in Deliveries |-> "none"]
  /\ payload = [d \in Deliveries |-> 0]
  /\ since = [d \in Deliveries |-> 0]
  /\ inFlight = 0
  /\ free = PoolSize
  /\ mode \in Modes
  /\ status = [e \in Events |-> "absent"]
  /\ about = [e \in Events |-> NoQc]
  /\ attempts = [e \in Events |-> 0]
  /\ job = [q \in Qcs |-> NoEvent]
  /\ stored = [q \in Qcs |-> 0]
  /\ erp = [q \in Qcs |-> 1]

-----------------------------------------------------------------------------
(* Shared pieces of the steps. *)

Goto(d, p) == pc' = [pc EXCEPT ![d] = p]

Reply(d, p, a) == Goto(d, p) /\ answer' = [answer EXCEPT ![d] = a]

SetStatus(d, s) == status' = [status EXCEPT ![Ev(d)] = s]

(* pool.acquire() and the release at the end of the async with. *)
Acquire == free > 0 /\ free' = free - 1
Return  == free' = free + 1

(* UPSERT_INGEST_EVENT_SQL: inserts the row as received, or leaves the     *)
(* status of the row that is there; in both cases it is now about the      *)
(* coversheet of this request.                                             *)
UpsertEvent(d) ==
  /\ status' = [status EXCEPT ![Ev(d)] = IF @ = "absent" THEN "received" ELSE @]
  /\ about' = [about EXCEPT ![Ev(d)] = Qc(d)]
  /\ since' = [since EXCEPT ![d] = erp[Qc(d)]]

(* MARK_PROCESSING_SQL, whatever the status of the event has become. *)
MarkProcessing(d) ==
  /\ SetStatus(d, "processing")
  /\ attempts' = [attempts EXCEPT ![Ev(d)] = @ + 1]

(* ConcurrencyLimiter.release. *)
LimiterRelease == inFlight' = IF inFlight > 0 THEN inFlight - 1 ELSE 0

-----------------------------------------------------------------------------
(* Faulty variants of steps below, each with one plausible mistake.  They  *)
(* are not part of Spec: exchanging a step for its variant must make a     *)
(* property fail, which shows that the property constrains the step.       *)

(* The status that the statement returns is not looked at. *)
RecordEventUnchecked(d) ==
  /\ pc[d] = "event"
  /\ Acquire
  /\ UpsertEvent(d)
  /\ Goto(d, "mark")
  /\ UNCHANGED <<answer, payload, inFlight, attempts, job, stored, erp, mode>>

(* The connection is kept during the ERP call. *)
StartProcessingKeepsConn(d) ==
  /\ pc[d] = "mark" /\ mode = "sync"
  /\ MarkProcessing(d)
  /\ Goto(d, "limit")
  /\ UNCHANGED <<answer, payload, since, inFlight, free, about, job, stored, erp, mode>>

(* The job is left out. *)
StartQueueingNoJob(d) ==
  /\ pc[d] = "mark" /\ mode = "queue"
  /\ MarkProcessing(d)
  /\ Goto(d, "requeue")
  /\ UNCHANGED <<answer, payload, since, inFlight, free, about, job, stored, erp, mode>>

(* > where >= is meant. *)
TakeSlotOffByOne(d) ==
  /\ pc[d] = "limit"
  /\ inFlight <= Limit
  /\ inFlight' = inFlight + 1
  /\ Goto(d, "fetch")
  /\ UNCHANGED <<answer, payload, since, free, mode, database, erp>>

(* 429 without _mark_failed. *)
AnswerBusyUnmarked(d) ==
  /\ pc[d] = "busy"
  /\ free > 0
  /\ Reply(d, "done", "busy")
  /\ UNCHANGED <<payload, since, inFlight, free, mode, database, erp>>

(* The ERP answer comes from a cache. *)
FetchOkCached(d) ==
  /\ pc[d] = "fetch"
  /\ \E v \in 1..erp[Qc(d)] : payload' = [payload EXCEPT ![d] = v]
  /\ Goto(d, "store")
  /\ UNCHANGED <<answer, since, inFlight, free, mode, database, erp>>

(* MARK_PROCESSED outside the transaction that rolls back. *)
StoreFailedAfterMark(d) ==
  /\ pc[d] = "tx"
  /\ SetStatus(d, "processed")
  /\ Return
  /\ Goto(d, "failing")
  /\ UNCHANGED <<answer, payload, since, inFlight, about, attempts, job, stored, erp, mode>>

(* The transaction is run again if its commit is not acknowledged. *)
CommitRetried(d) ==
  /\ pc[d] = "tx"
  /\ stored' = [stored EXCEPT ![Qc(d)] = payload[d]]
  /\ SetStatus(d, "processed")
  /\ Return
  /\ Goto(d, "store")
  /\ UNCHANGED <<answer, payload, since, inFlight, about, attempts, job, erp, mode>>

(* A connection that broke is not given back to the pool. *)
AbortKeepsConn(d) ==
  /\ pc[d] \notin Ended \cup {"new"}
  /\ Reply(d, IF pc[d] \in InTry THEN "release" ELSE "done", "error")
  /\ UNCHANGED <<payload, since, inFlight, free, mode, database, erp>>

-----------------------------------------------------------------------------
(* The endpoint: the HMAC headers are missing or do not verify (401), or   *)
(* the request goes to handle_ingest.                                      *)
Reject(d) ==
  /\ pc[d] = "new"
  /\ Reply(d, "done", "unauthorized")
  /\ UNCHANGED <<payload, since, inFlight, free, mode, database, erp>>

Receive(d) ==
  /\ pc[d] = "new"
  /\ Goto(d, "event")
  /\ UNCHANGED <<answer, payload, since, inFlight, free, mode, database, erp>>

(* The connection that the delivery got executes the statement. *)
RecordEvent(d) ==
  /\ pc[d] = "event"
  /\ Acquire
  /\ UpsertEvent(d)
  /\ Goto(d, IF status[Ev(d)] = "processed" THEN "known" ELSE "mark")
  /\ UNCHANGED <<answer, payload, inFlight, attempts, job, stored, erp, mode>>

(* The event was processed: answered without work, whichever coversheet    *)
(* it was processed for.                                                   *)
ShortCircuit(d) ==
  /\ pc[d] = "known"
  /\ Return
  /\ Reply(d, "done", "processed")
  /\ UNCHANGED <<payload, since, inFlight, database, erp, mode>>

(* Sync mode: MARK_PROCESSING, and the connection goes back. *)
StartProcessing(d) ==
  /\ pc[d] = "mark" /\ mode = "sync"
  /\ MarkProcessing(d)
  /\ Return
  /\ Goto(d, "limit")
  /\ UNCHANGED <<answer, payload, since, inFlight, about, job, stored, erp, mode>>

(* Queue mode: three statements, each its own transaction. *)
StartQueueing(d) ==
  /\ pc[d] = "mark" /\ mode = "queue"
  /\ MarkProcessing(d)
  /\ Goto(d, "enqueue")
  /\ UNCHANGED <<answer, payload, since, inFlight, free, about, job, stored, erp, mode>>

UpsertJob(d) ==
  /\ pc[d] = "enqueue"
  /\ job' = [job EXCEPT ![Qc(d)] = Ev(d)]
  /\ Goto(d, "requeue")
  /\ UNCHANGED <<answer, payload, since, inFlight, free, mode>>
  /\ UNCHANGED <<status, about, attempts, stored, erp>>

FinishQueueing(d) ==
  /\ pc[d] = "requeue"
  /\ SetStatus(d, "received")
  /\ Return
  /\ Reply(d, "done", "queued")
  /\ UNCHANGED <<payload, since, inFlight, about, attempts, job, stored, erp, mode>>

(* ConcurrencyLimiter.try_acquire: nothing awaits under its lock. *)
TakeSlot(d) ==
  /\ pc[d] = "limit"
  /\ inFlight < Limit
  /\ inFlight' = inFlight + 1
  /\ Goto(d, "fetch")
  /\ UNCHANGED <<answer, payload, since, free, database, erp, mode>>

NoSlot(d) ==
  /\ pc[d] = "limit"
  /\ inFlight >= Limit
  /\ Goto(d, "busy")
  /\ UNCHANGED <<answer, payload, since, inFlight, free, mode, database, erp>>

(* _mark_failed on a connection of its own, then 429. *)
AnswerBusy(d) ==
  /\ pc[d] = "busy"
  /\ free > 0
  /\ SetStatus(d, "failed")
  /\ Reply(d, "done", "busy")
  /\ UNCHANGED <<payload, since, inFlight, free, about, attempts, job, stored, erp, mode>>

(* fetch_qc_payload: the ERP answers with the record as it is. *)
FetchOk(d) ==
  /\ pc[d] = "fetch"
  /\ payload' = [payload EXCEPT ![d] = erp[Qc(d)]]
  /\ Goto(d, "store")
  /\ UNCHANGED <<answer, since, inFlight, free, mode, database, erp>>

FetchFailed(d) ==
  /\ pc[d] = "fetch"
  /\ Goto(d, "failing")
  /\ UNCHANGED <<answer, payload, since, inFlight, free, mode, database, erp>>

BeginTx(d) ==
  /\ pc[d] = "store"
  /\ Acquire
  /\ Goto(d, "tx")
  /\ UNCHANGED <<answer, payload, since, inFlight, database, erp, mode>>

(* _upsert_state, the audit row and MARK_PROCESSED commit together. *)
Store(d) ==
  /\ stored' = [stored EXCEPT ![Qc(d)] = payload[d]]
  /\ SetStatus(d, "processed")
  /\ UNCHANGED <<about, attempts, job>>

Commit(d) ==
  /\ pc[d] = "tx"
  /\ Store(d)
  /\ Return
  /\ Reply(d, "release", "processed")
  /\ UNCHANGED <<payload, since, inFlight, erp, mode>>

(* The commit takes effect but the connection breaks before the reply: the *)
(* handler sees an exception.                                              *)
CommitUnacknowledged(d) ==
  /\ pc[d] = "tx"
  /\ Store(d)
  /\ Return
  /\ Goto(d, "failing")
  /\ UNCHANGED <<answer, payload, since, inFlight, erp, mode>>

(* No connection can be opened, the payload is rejected (422), there is no *)
(* active template (500), or a statement fails: rolled back.               *)
StoreFailed(d) ==
  /\ \/ pc[d] = "store" /\ UNCHANGED free
     \/ pc[d] = "tx" /\ Return
  /\ Goto(d, "failing")
  /\ UNCHANGED <<answer, payload, since, inFlight, database, erp, mode>>

(* The except clause: _mark_failed, then the HTTPException or a 503. *)
RecordFailure(d) ==
  /\ pc[d] = "failing"
  /\ free > 0
  /\ SetStatus(d, "failed")
  /\ Reply(d, "release", "failed")
  /\ UNCHANGED <<payload, since, inFlight, free, about, attempts, job, stored, erp, mode>>

(* The finally clause, then the response. *)
Release(d) ==
  /\ pc[d] = "release"
  /\ LimiterRelease
  /\ Goto(d, "done")
  /\ UNCHANGED <<answer, payload, since, free, database, erp, mode>>

(* A database error outside the try or in the except clause, or the        *)
(* cancellation of the coroutine at an await (also of the await that gives *)
(* a connection back): nothing is marked failed; async with returns the    *)
(* connection and finally releases the slot.                               *)
Abort(d) ==
  /\ pc[d] \notin Ended \cup {"new"}
  /\ Reply(d, IF pc[d] \in InTry THEN "release" ELSE "done", "error")
  /\ free' = IF pc[d] \in HoldsConn THEN free + 1 ELSE free
  /\ UNCHANGED <<payload, since, inFlight, database, erp, mode>>

(* The process dies and starts again: every open delivery is lost without  *)
(* an answer, open transactions roll back, limiter and pool start afresh.  *)
Crash ==
  /\ \E d \in Deliveries : pc[d] \notin Ended \cup {"new"}
  /\ pc' = [d \in Deliveries |-> IF pc[d] \in Ended \cup {"new"} THEN pc[d] ELSE "lost"]
  /\ answer' = [d \in Deliveries |-> IF pc[d] \in Ended THEN answer[d] ELSE "none"]
  /\ inFlight' = 0
  /\ free' = PoolSize
  /\ mode' \in Modes
  /\ UNCHANGED <<payload, since, database, erp>>

(* A user changes the record in the ERP. *)
Edit(q) ==
  /\ erp[q] <= MaxEdits[q]
  /\ erp' = [erp EXCEPT ![q] = @ + 1]
  /\ UNCHANGED <<memory, database>>

-----------------------------------------------------------------------------
(* What the handler of a received delivery does by itself. *)
Step(d) ==
  \/ RecordEvent(d) \/ ShortCircuit(d)
  \/ StartProcessing(d) \/ StartQueueing(d) \/ UpsertJob(d) \/ FinishQueueing(d)
  \/ TakeSlot(d) \/ NoSlot(d) \/ AnswerBusy(d)
  \/ FetchOk(d) \/ FetchFailed(d)
  \/ BeginTx(d) \/ Commit(d) \/ CommitUnacknowledged(d) \/ StoreFailed(d)
  \/ RecordFailure(d) \/ Release(d)

Next ==
  \/ \E d \in Deliveries : Reject(d) \/ Receive(d) \/ Step(d) \/ Abort(d)
  \/ Crash
  \/ \E q \in Qcs : Edit(q)

Spec == Init /\ [][Next]_vars

(* The event loop and the ERP client's timeouts let every coroutine go on; *)
(* the ERP has no duty to send, nor the process to crash.                  *)
FairSpec == Spec /\ \A d \in Deliveries : WF_vars(Step(d))

-----------------------------------------------------------------------------
(* Properties. *)

TypeOK ==
  /\ pc \in [Deliveries -> Points]
  /\ answer \in [Deliveries -> Answers]
  /\ payload \in [Deliveries -> Nat]
  /\ since \in [Deliveries -> Nat]
  /\ inFlight \in Nat
  /\ free \in Nat
  /\ mode \in Modes
  /\ status \in [Events -> Statuses]
  /\ about \in [Events -> Qcs \cup {NoQc}]
  /\ attempts \in [Events -> Nat]
  /\ job \in [Qcs -> Events \cup {NoEvent}]
  /\ stored \in [Qcs -> Nat]
  /\ erp \in [Qcs -> Nat]

(* The limiter counts exactly the deliveries between try_acquire and the   *)
(* finally clause, whatever raises or is cancelled in between, and never   *)
(* more of them than the configured limit.                                 *)
InTrySet == {d \in Deliveries : pc[d] \in InTry}
LimiterExact ==
  /\ inFlight = Cardinality(InTrySet)
  /\ inFlight <= Limit

(* No connection is leaked or handed out twice: what is not idle in the    *)
(* pool is held by a delivery inside an async with.                        *)
Holders == {d \in Deliveries : pc[d] \in HoldsConn}
PoolExact == free + Cardinality(Holders) = PoolSize

(* An event marked processed stands for a committed upsert: a delivery of  *)
(* it fetched its coversheet, and this is in the database; crashes do not  *)
(* take it away.  A delivery answered 200 that did the work stands for its *)
(* own coversheet; one that took the short circuit only for that of such a *)
(* delivery, which may be another one.                                     *)
Kept(e) == \E d \in Deliveries : Ev(d) = e /\ payload[d] > 0 /\ stored[Qc(d)] > 0
AckedIsStored ==
  /\ \A e \in Events : status[e] = "processed" => Kept(e)
  /\ \A d \in Deliveries :
       answer[d] = "processed" =>
         IF payload[d] > 0 THEN stored[Qc(d)] > 0 ELSE Kept(Ev(d))

(* A delivery answered 202 has left a job for its coversheet.  The job's   *)
(* latest_event_id is a recorded event (the foreign key holds) that was    *)
(* delivered about that coversheet.  Its row in ingest_event may name      *)
(* another one by now, but only if the event was delivered about that too. *)
Recorded(e) == {Qc(d) : d \in {x \in Deliveries : Ev(x) = e /\ since[x] > 0}}
QueuedHasJob ==
  \A d \in Deliveries :
    answer[d] = "queued" =>
      /\ job[Qc(d)] \in Events /\ status[job[Qc(d)]] # "absent"
      /\ {Qc(d), about[job[Qc(d)]]} \subseteq Recorded(job[Qc(d)])

(* An event is left in processing only while some delivery of it is still  *)
(* at work, or because one was aborted or lost: every other way out of     *)
(* handle_ingest (429, 4xx, 503, 202, 200) settles the status.             *)
Working(e) ==
  \E d \in Deliveries :
    /\ Ev(d) = e
    /\ \/ pc[d] \in (InTry \ {"release"}) \cup {"limit", "busy", "enqueue", "requeue"}
       \/ pc[d] = "lost"
       \/ answer[d] = "error"
ProcessingIsOwned == \A e \in Events : status[e] = "processing" => Working(e)

(* Once an event is processed and no delivery of it is past the check of   *)
(* the status, the event stays processed: later deliveries, however many   *)
(* and however they interleave, change nothing.                            *)
PastCheck == Points \ ({"new", "event", "known"} \cup Ended)
Settled(e) ==
  /\ status[e] = "processed"
  /\ \A d \in Deliveries : Ev(d) = e => pc[d] \notin PastCheck
SettledStays == [][\A e \in Events : Settled(e) => Settled(e)']_vars

(* The stored payload is not replaced by an older one unless deliveries    *)
(* overlap: once version v is stored and every open delivery about the     *)
(* coversheet recorded its event at version v or later, the database never *)
(* goes back before v.                                                     *)
NoneOlder(q, v) ==
  /\ erp[q] >= v
  /\ stored[q] >= v
  /\ \A d \in Deliveries : (Qc(d) = q /\ pc[d] \in PastCheck) => since[d] >= v
NoRegression ==
  [][\A q \in Qcs : \A v \in 1..(MaxEdits[q] + 1) : NoneOlder(q, v) => NoneOlder(q, v)']_vars

(* Duplicates, retries, failures and crashes included, the database is a   *)
(* mirror of the ERP: each delivery stores at most once, and then a        *)
(* version that the ERP had since the delivery was recorded; a 200 is for  *)
(* a delivery that stored, or that found its event processed.              *)
Phase(d) ==
  CASE pc[d] \in {"new", "event"}                            -> "new"
    [] pc[d] = "known"                                       -> "known"
    [] pc[d] \in {"mark", "limit", "fetch", "store", "tx"}   -> "open"
    [] pc[d] = "release" /\ answer[d] = "processed"          -> "stored"
    [] pc[d] \in {"enqueue", "requeue", "busy", "failing"}   -> "closing"
    [] OTHER                                                 -> "over"
Abstract == INSTANCE ErpMirror WITH
  phase     <- [d \in Deliveries |-> Phase(d)],
  processed <- {e \in Events : status[e] = "processed"},
  acked     <- {d \in Deliveries : pc[d] = "done" /\ answer[d] = "processed"}
MirrorsErp == Abstract!Spec

(* Every received delivery is answered, or lost with the process, with as  *)
(* little as one connection: no delivery keeps a connection while it waits *)
(* for another, for the ERP or for a slot.                                 *)
EveryDeliveryAnswered == \A d \in Deliveries : pc[d] = "event" ~> pc[d] \in Ended
=============================================================================
