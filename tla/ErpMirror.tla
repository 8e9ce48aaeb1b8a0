------------------------------ MODULE ErpMirror ------------------------------
(***************************************************************************)
(* What the ingest service promises to the ERP: the database mirrors its   *)
(* records.  A delivery of an event stores the record at most once, as it  *)
(* was at some moment after the delivery was recorded, and marks its event *)
(* processed in the same step.  A delivery is answered 200 if it has       *)
(* stored, or if its event was processed when it came: then nothing is     *)
(* promised about the coversheet that this delivery names.  Anything may   *)
(* fail, and be retried.                                                   *)
(***************************************************************************)
EXTENDS Naturals

CONSTANTS
  Deliveries,  \* POST /ingest requests
  Qcs,         \* coversheets
  EventOf,     \* the event a delivery carries
  QcOf         \* the coversheet a delivery is about

VARIABLES
  phase,      \* how far each delivery is
  since,      \* the ERP version when its event was recorded
  processed,  \* the events marked processed
  acked,      \* the deliveries answered 200
  stored,     \* the ERP version that the database has (0: none)
  erp         \* the ERP version

vars == <<phase, since, processed, acked, stored, erp>>

Ev(d) == EventOf[d]
Qc(d) == QcOf[d]
Goto(d, p) == phase' = [phase EXCEPT ![d] = p]

(***************************************************************************)
(*   new      its event is not recorded                                    *)
(*   known    it has found its event processed                             *)
(*   open     it may store                                                 *)
(*   stored   it has, and is about to answer                               *)
(*   closing  it may only mark its event as not processed                  *)
(*   over     it does nothing more                                         *)
(***************************************************************************)
Init ==
  /\ phase = [d \in Deliveries |-> "new"]
  /\ since = [d \in Deliveries |-> 0]
  /\ processed = {} /\ acked = {}
  /\ stored = [q \in Qcs |-> 0]
  /\ erp = [q \in Qcs |-> 1]

Begin(d) ==
  /\ phase[d] = "new"
  /\ Goto(d, IF Ev(d) \in processed THEN "known" ELSE "open")
  /\ since' = [since EXCEPT ![d] = erp[Qc(d)]]
  /\ UNCHANGED <<processed, acked, stored, erp>>

(* Whether or not the handler hears of the commit. *)
Mirror(d) ==
  /\ phase[d] = "open"
  /\ \E p \in {"stored", "closing"} : Goto(d, p)
  /\ \E v \in since[d]..erp[Qc(d)] : stored' = [stored EXCEPT ![Qc(d)] = v]
  /\ processed' = processed \cup {Ev(d)}
  /\ UNCHANGED <<since, acked, erp>>

(* Another delivery may have had the event processed in the meantime. *)
Unmark(d) ==
  /\ \/ phase[d] = "open" /\ \E p \in {"open", "closing"} : Goto(d, p)
     \/ phase[d] = "closing" /\ Goto(d, "over")
  /\ processed' = processed \ {Ev(d)}
  /\ UNCHANGED <<since, acked, stored, erp>>

Acknowledge(d) ==
  /\ phase[d] \in {"stored", "known"}
  /\ Goto(d, "over")
  /\ acked' = acked \cup {d}
  /\ UNCHANGED <<since, processed, stored, erp>>

GiveUp(d) ==
  /\ phase[d] = "open" /\ Goto(d, "closing")
  /\ UNCHANGED <<since, processed, acked, stored, erp>>

(* Refused, cancelled, or lost with the process. *)
Drop(D) ==
  /\ phase' = [d \in Deliveries |-> IF d \in D THEN "over" ELSE phase[d]]
  /\ UNCHANGED <<since, processed, acked, stored, erp>>

Edit(q) ==
  /\ erp' = [erp EXCEPT ![q] = @ + 1]
  /\ UNCHANGED <<phase, since, processed, acked, stored>>

Next ==
  \/ \E d \in Deliveries : Begin(d) \/ Mirror(d) \/ Unmark(d) \/ Acknowledge(d) \/ GiveUp(d)
  \/ \E D \in SUBSET Deliveries : Drop(D)
  \/ \E q \in Qcs : Edit(q)

Spec == Init /\ [][Next]_vars
=============================================================================
