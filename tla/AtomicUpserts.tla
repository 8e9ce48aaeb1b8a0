---------------------------- MODULE AtomicUpserts ----------------------------
(***************************************************************************)
(* What the upsert transaction of the ingest service promises: although it *)
(* is a dozen statements, and others run in between, every transaction     *)
(* that commits does so as if it were one step, that writes the whole of   *)
(* its payload to one coversheet and to the review requests of this, none  *)
(* of them submitted.  A reviewer whom a payload leaves out is cancelled,  *)
(* and remains so when a later payload lists the reviewer again.           *)
(***************************************************************************)
CONSTANTS
  Txs,       \* transactions; a coversheet row is named after its creator
  Payloads,  \* the ERP's answers, each with the fields qc, pep and wbs
  Teams,     \* the reviewers of each
  None       \* a missing value

VARIABLES
  payload,   \* what each transaction stores
  stored,    \* the transactions that have
  cover,     \* the coversheets: who wrote them last (None: no row)
  requests,  \* the reviewers who have a review request for each
  cancelled  \* those of them whose request is cancelled

vars == <<payload, stored, cover, requests, cancelled>>

Init ==
  /\ payload \in [Txs -> Payloads]
  /\ stored = {}
  /\ cover = [t \in Txs |-> None]
  /\ requests = [t \in Txs |-> {}]
  /\ cancelled = [t \in Txs |-> {}]

(* The rows for the qcUdicID of t. *)
Rows(t) == {r \in Txs : cover[r] # None /\ payload[r].qc = payload[t].qc}

(* A row that there is, or a new one beside rows that were made for other  *)
(* execution records and projects; in any case no other row has the        *)
(* qcUdicID and the execution record of t.                                 *)
MayWrite(t, r) ==
  /\ \/ r \in Rows(t)
     \/ r = t /\ \A s \in Rows(t) : /\ payload[s].pep # payload[t].pep
                                    /\ payload[s].wbs # payload[t].wbs
  /\ \A s \in Rows(t) \ {r} : payload[cover[s]].pep # payload[t].pep

Upsert(t, r) ==
  /\ t \notin stored
  /\ MayWrite(t, r)
  /\ stored' = stored \cup {t}
  /\ cover' = [cover EXCEPT ![r] = t]
  /\ requests' = [requests EXCEPT ![r] = @ \cup Teams[payload[t]]]
  /\ cancelled' = [cancelled EXCEPT ![r] = @ \cup (requests[r] \ Teams[payload[t]])]
  /\ payload' = payload

Next == \E t, r \in Txs : Upsert(t, r)

Spec == Init /\ [][Next]_vars
=============================================================================
