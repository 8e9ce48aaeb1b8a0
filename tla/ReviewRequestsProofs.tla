------------------------ MODULE ReviewRequestsProofs ------------------------
(* Theorems about ReviewRequests, for any number of reviewers, requests,   *)
(* submits and template versions.                                          *)
EXTENDS ReviewRequests, TLAPS

USE UserOfType, QcKeyType, NoRequestFresh, MaxVersionType

-----------------------------------------------------------------------------
(* What the operations make of a row. *)

(* An ERP record maps reviewers to their disciplines. *)
LEMMA PayloadShape ==
  ASSUME NEW p \in Payloads
  PROVE  DOMAIN p \subseteq Reviewers /\ \A c \in DOMAIN p : p[c] \in SUBSET Disciplines
BY DEF Payloads

(* The active version is a template version. *)
LEMMA ActiveFormType ==
  ASSUME TypeOK
  PROVE  ActiveForm \in Forms
BY DEF TypeOK, ActiveForm, Forms

(* An ingest keeps the reviewer of a row, and a submitted row submitted; a *)
(* row that stays a draft is for a reviewer of the record.                 *)
LEMMA SyncedRow ==
  ASSUME TypeOK, NEW p \in Payloads, NEW x \in Requests
  PROVE  /\ Synced(x, p) \in Requests
         /\ Synced(x, p).reviewer = x.reviewer
         /\ Synced(x, p).status = "submitted" <=> x.status = "submitted"
         /\ Synced(x, p).status = "draft" => x.reviewer \in DOMAIN p
         /\ x.reviewer \in DOMAIN p => Synced(x, p).discs = p[x.reviewer]
<1>1. CASE x.reviewer \in DOMAIN p
  BY <1>1, PayloadShape, ActiveFormType DEF Synced, Requests
<1>2. CASE x.reviewer \notin DOMAIN p
  BY <1>2 DEF Synced, CancelledIfActive, Requests, Statuses
<1> QED
  BY <1>1, <1>2

(* A new row is an open request of its reviewer, as the record says. *)
LEMMA FreshRow ==
  ASSUME TypeOK, NEW p \in Payloads, NEW c \in DOMAIN p
  PROVE  /\ NewRow(c, p) \in Requests
         /\ NewRow(c, p).reviewer = c
         /\ NewRow(c, p).status = "draft"
         /\ NewRow(c, p).discs = p[c]
BY PayloadShape, ActiveFormType DEF NewRow, Requests, Statuses

(* The rows after an ingest: those that were there are synchronised, each  *)
(* reviewer that had none gets one row.                                    *)
IngestRows(p) ==
  /\ req' \in [RequestIds -> Requests \cup {NoRequest}]
  /\ \A r \in Used : req'[r] = Synced(req[r], p) /\ req'[r] # NoRequest
  /\ \A r \in RequestIds \ Used : req'[r] # NoRequest =>
       /\ req'[r].reviewer \in DOMAIN p \ Assigned
       /\ req'[r] = NewRow(req'[r].reviewer, p)
  /\ \A r, t \in RequestIds \ Used :
       (req'[r] # NoRequest /\ req'[t] # NoRequest /\ req'[r].reviewer = req'[t].reviewer)
         => r = t
  /\ \A c \in DOMAIN p : \E r \in RequestIds : req'[r] # NoRequest /\ req'[r].reviewer = c

(* An ingest makes exactly those rows. *)
LEMMA IngestEffect ==
  ASSUME TypeOK, NEW p \in Payloads, Ingest(p)
  PROVE  IngestRows(p)
<1>1. PICK id \in [DOMAIN p \ Assigned -> RequestIds \ Used] :
        /\ \A c, d \in DOMAIN id : id[c] = id[d] => c = d
        /\ req' = [r \in RequestIds |->
             IF r \in Used THEN Synced(req[r], p)
             ELSE IF \E c \in DOMAIN id : id[c] = r
             THEN NewRow(CHOOSE c \in DOMAIN id : id[c] = r, p)
             ELSE NoRequest]
  BY DEF Ingest
<1>2. ASSUME NEW r \in Used
      PROVE  /\ req'[r] = Synced(req[r], p)
             /\ req'[r] \in Requests
             /\ req'[r].reviewer = req[r].reviewer
  <2>1. req[r] \in Requests /\ r \in RequestIds
    BY DEF Used, TypeOK
  <2>2. req'[r] = Synced(req[r], p)
    BY <1>1, <2>1
  <2> QED
    BY <2>1, <2>2, SyncedRow
<1>3. ASSUME NEW c \in DOMAIN p \ Assigned
      PROVE  /\ id[c] \in RequestIds \ Used
             /\ req'[id[c]] = NewRow(c, p)
             /\ req'[id[c]] \in Requests
             /\ req'[id[c]].reviewer = c
  <2>1. id[c] \in RequestIds \ Used /\ c \in DOMAIN id
    BY <1>1
  <2>2. (CHOOSE d \in DOMAIN id : id[d] = id[c]) = c
    BY <1>1, <2>1
  <2>3. req'[id[c]] = NewRow(c, p)
    BY <1>1, <2>1, <2>2
  <2> QED
    BY <2>1, <2>3, FreshRow
<1>4. ASSUME NEW r \in RequestIds \ Used
      PROVE  req'[r] = NoRequest \/ \E c \in DOMAIN p \ Assigned : id[c] = r
  BY <1>1
<1>5. \A x \in Requests : x # NoRequest
  OBVIOUS
<1>6. req' \in [RequestIds -> Requests \cup {NoRequest}]
  <2>1. \A r \in RequestIds : req'[r] \in Requests \cup {NoRequest}
    BY <1>2, <1>3, <1>4
  <2> QED
    BY <1>1, <2>1
<1>7. ASSUME NEW c \in DOMAIN p
      PROVE  \E r \in RequestIds : req'[r] # NoRequest /\ req'[r].reviewer = c
  <2>1. CASE c \in Assigned
    <3>1. PICK r \in Used : req[r].reviewer = c
      BY <2>1 DEF Assigned
    <3> QED
      BY <3>1, <1>2, <1>5 DEF Used
  <2>2. CASE c \notin Assigned
    BY <2>2, <1>3, <1>5
  <2> QED
    BY <2>1, <2>2
<1> QED
  BY <1>2, <1>3, <1>4, <1>5, <1>6, <1>7 DEF IngestRows

-----------------------------------------------------------------------------
(* Types. *)

(* A submit past the access check is for a request that exists. *)
Reading == {"context", "disciplines", "insert", "update"}
TargetsExist ==
  \A s \in Submits : pc[s] \in Reading \/ s \in saved => target[s] \in Used

(* The initial values have their types. *)
LEMMA InitType == Init => TypeOK /\ TargetsExist
<1> SUFFICES ASSUME Init PROVE TypeOK /\ TargetsExist
  OBVIOUS
<1>1. roster \in Payloads
  <2>1. roster = [c \in {} |-> {}]
    BY DEF Init
  <2>2. [c \in {} |-> {}] \in [{} -> SUBSET Disciplines]
    BY Zenon
  <2>3. {} \in SUBSET Reviewers
    OBVIOUS
  <2> QED
    BY <2>1, <2>2, <2>3, Zenon DEF Payloads
<1>2. seen \in [Submits -> Seen]
  BY DEF Init, Seen, Statuses, Forms
<1>3. latest \in [Keys -> Nat]
  BY DEF Init, Templates!Init
<1> QED
  BY <1>1, <1>2, <1>3 DEF Init, TypeOK, TargetsExist, Reading, Points, Answers

(* Each statement and transaction keeps the types. *)
LEMMA StepType == TypeOK /\ TargetsExist /\ [Next]_vars => TypeOK'
<1> SUFFICES ASSUME TypeOK, TargetsExist, [Next]_vars PROVE TypeOK'
  OBVIOUS
<1> USE DEF TypeOK, Goto, Reply, Points, Answers
<1>1. ASSUME NEW s \in Submits, pc[s] \in Reading
      PROVE  target[s] \in RequestIds /\ req[target[s]] \in Requests
  BY <1>1 DEF TargetsExist, Used
<1>2. ASSUME NEW s \in Submits, Submit(s) PROVE TypeOK'
  <2>1. CASE \E r \in RequestIds : CheckAccess(s, r)
    BY <2>1 DEF CheckAccess
  <2>2. CASE ReadContext(s)
    <3>1. req[target[s]] \in Requests
      BY <2>2, <1>1 DEF ReadContext, Reading
    <3>2. [status |-> req[target[s]].status, form |-> req[target[s]].form, discs |-> {}] \in Seen
      BY <3>1 DEF Requests, Seen
    <3> QED
      BY <2>2, <3>2 DEF ReadContext
  <2>3. CASE CheckForm(s)
    <3>1. req[target[s]].discs \in SUBSET Disciplines
      BY <2>3, <1>1 DEF CheckForm, Reading, Requests
    <3>2. [seen[s] EXCEPT !.discs = req[target[s]].discs] \in Seen
      BY <3>1 DEF Seen
    <3> QED
      BY <2>3, <3>2 DEF CheckForm
  <2>4. CASE RefuseForm(s) \/ Insert(s) \/ Abort(s)
    BY <2>4 DEF RefuseForm, Insert, Abort
  <2>5. CASE Update(s)
    <3>1. target[s] \in RequestIds /\ req[target[s]] \in Requests
      BY <2>5, <1>1 DEF Update, Reading
    <3>2. SubmittedRow(req[target[s]]) \in Requests
      BY <3>1 DEF SubmittedRow, Requests, Statuses
    <3> QED
      BY <2>5, <3>1, <3>2 DEF Update
  <2> QED
    BY <1>2, <2>1, <2>2, <2>3, <2>4, <2>5 DEF Submit
<1>3. ASSUME NEW p \in Payloads, Ingest(p) PROVE TypeOK'
  <2>1. req' \in [RequestIds -> Requests \cup {NoRequest}]
    BY <1>3, IngestEffect DEF IngestRows
  <2>2. \A r \in RequestIds : req'[r] # NoRequest => req'[r].reviewer \in Reviewers
    BY <2>1 DEF Requests
  <2>3. was' \in [RequestIds -> Reviewers \cup {NoRequest}]
    BY <1>3, <2>2 DEF Ingest
  <2> QED
    BY <1>3, <2>1, <2>3 DEF Ingest, submits
<1>4. ASSUME NEW r \in RequestIds, NEW k \in Keys, NEW v \in 1..MaxVersion,
             ReassignTemplate(r, [key |-> k, version |-> v])
      PROVE  TypeOK'
  <2>1. req[r] \in Requests /\ [key |-> k, version |-> v] \in Forms
    BY <1>4 DEF ReassignTemplate, Used, Forms
  <2>2. [req[r] EXCEPT !.form = [key |-> k, version |-> v]] \in Requests
    BY <2>1 DEF Requests
  <2> QED
    BY <1>4, <2>2 DEF ReassignTemplate, submits
<1>5. ASSUME NEW r \in RequestIds, NEW c \in Reviewers, ReassignReviewer(r, c) PROVE TypeOK'
  <2>1. req[r] \in Requests
    BY <1>5 DEF ReassignReviewer, Used
  <2>2. [req[r] EXCEPT !.reviewer = c] \in Requests
    BY <2>1 DEF Requests
  <2> QED
    BY <1>5, <2>2 DEF ReassignReviewer, submits
<1>6. ASSUME NEW k \in Keys, PublishVersion(k) PROVE TypeOK'
  BY <1>6 DEF PublishVersion, Templates!Publish, submits
<1>7. CASE UNCHANGED vars
  BY <1>7 DEF vars, submits
<1> QED
  BY <1>2, <1>3, <1>4, <1>5, <1>6, <1>7 DEF Next

-----------------------------------------------------------------------------
(* How a step changes the rows: none disappears, a submitted one stays     *)
(* submitted and a new one is a draft; only a submit that commits makes a  *)
(* row submitted, and only its own.                                        *)
RowsEvolve ==
  \A r \in RequestIds :
    /\ r \in Used => r \in Used'
    /\ Submitted(r) => Submitted(r)'
    /\ Submitted(r)' => Submitted(r) \/ \E s \in Submits : Update(s) /\ target[s] = r

(* Rows only change in the ways RowsEvolve lists, by cases on the action. *)
LEMMA StepRows ==
  ASSUME TypeOK, TargetsExist, [Next]_vars
  PROVE  RowsEvolve
<1> USE DEF TypeOK, Used, Submitted
<1>0. CASE UNCHANGED req
  BY <1>0 DEF RowsEvolve
<1>1. ASSUME NEW s \in Submits, Submit(s) PROVE RowsEvolve
  <2>1. CASE Update(s)
    <3>1. target[s] \in RequestIds /\ req[target[s]] \in Requests
      BY <2>1 DEF Update, TargetsExist, Reading
    <3>2. /\ req'[target[s]] \in Requests
          /\ \A r \in RequestIds \ {target[s]} : req'[r] = req[r]
      BY <2>1, <3>1 DEF Update, SubmittedRow, Requests, Statuses
    <3>3. req'[target[s]].status = "submitted"
      BY <2>1, <3>1 DEF Update, SubmittedRow, Requests
    <3> QED
      BY <2>1, <3>1, <3>2, <3>3 DEF RowsEvolve
  <2>2. CASE ~Update(s)
    BY <1>0, <1>1, <2>2 DEF Submit, CheckAccess, ReadContext, CheckForm, RefuseForm, Insert, Abort
  <2> QED
    BY <2>1, <2>2
<1>2. ASSUME NEW p \in Payloads, Ingest(p) PROVE RowsEvolve
  <2>1. IngestRows(p)
    BY <1>2, IngestEffect
  <2>2. ASSUME NEW r \in RequestIds, r \in Used
        PROVE  r \in Used' /\ (Submitted(r) <=> Submitted(r)')
    BY <2>1, <2>2, SyncedRow DEF IngestRows
  <2>3. ASSUME NEW r \in RequestIds, r \notin Used PROVE ~Submitted(r)'
    BY <2>1, <2>3, FreshRow DEF IngestRows
  <2> QED
    BY <2>2, <2>3 DEF RowsEvolve
<1>3. ASSUME NEW r \in RequestIds, NEW f \in Forms, ReassignTemplate(r, f) PROVE RowsEvolve
  <2>1. req[r] \in Requests
    BY <1>3 DEF ReassignTemplate
  <2>2. /\ req'[r] \in Requests /\ req'[r].status = req[r].status
        /\ \A t \in RequestIds \ {r} : req'[t] = req[t]
    BY <1>3, <2>1 DEF ReassignTemplate, Requests
  <2> QED
    BY <2>1, <2>2 DEF RowsEvolve
<1>4. ASSUME NEW r \in RequestIds, NEW c \in Reviewers, ReassignReviewer(r, c) PROVE RowsEvolve
  <2>1. req[r] \in Requests
    BY <1>4 DEF ReassignReviewer
  <2>2. /\ req'[r] \in Requests /\ req'[r].status = req[r].status
        /\ \A t \in RequestIds \ {r} : req'[t] = req[t]
    BY <1>4, <2>1 DEF ReassignReviewer, Requests
  <2> QED
    BY <2>1, <2>2 DEF RowsEvolve
<1>5. ASSUME NEW k \in Keys, PublishVersion(k) PROVE RowsEvolve
  BY <1>0, <1>5 DEF PublishVersion
<1>6. CASE UNCHANGED vars
  BY <1>0, <1>6 DEF vars
<1>7. \A k \in Keys, v \in 1..MaxVersion : [key |-> k, version |-> v] \in Forms
  BY DEF Forms
<1> QED
  BY <1>1, <1>2, <1>3, <1>4, <1>5, <1>6, <1>7 DEF Next

(* A submit that is not under way keeps its target; only commits save.     *)
SubmitEvolves(s) ==
  /\ target'[s] # target[s] => pc[s] = "access" /\ pc'[s] \in {"context", "done"}
  /\ pc[s] = "access" /\ pc'[s] \in Reading => target'[s] \in Used /\ MaySubmit(s, target'[s])
  /\ pc[s] = "done" => pc'[s] = "done" /\ answer'[s] = answer[s]
  /\ s \in saved' <=> s \in saved \/ Update(s)
  /\ Update(s) => pc[s] = "update" /\ pc'[s] = "done"
  /\ answer'[s] = "submitted" => answer[s] = "submitted" \/ Update(s)

(* A submit only changes as SubmitEvolves says. *)
LEMMA StepSubmits ==
  ASSUME TypeOK, [Next]_vars, NEW s \in Submits
  PROVE  SubmitEvolves(s)
<1> USE DEF TypeOK, Goto, Reply, Reading, SubmitEvolves
<1>1. ASSUME NEW t \in Submits, Submit(t) PROVE SubmitEvolves(s)
  <2>1. CASE \E r \in RequestIds : CheckAccess(t, r)
    BY <2>1 DEF CheckAccess, Update, Used
  <2>2. CASE ReadContext(t) \/ CheckForm(t) \/ RefuseForm(t) \/ Insert(t) \/ Abort(t)
    BY <2>2 DEF ReadContext, CheckForm, RefuseForm, Insert, Abort, Update
  <2>3. CASE Update(t)
    BY <2>3 DEF Update
  <2> QED
    BY <1>1, <2>1, <2>2, <2>3 DEF Submit
<1>2. CASE UNCHANGED <<submits, saved>>
  BY <1>2 DEF submits, Update
<1> QED
  BY <1>1, <1>2 DEF Next, Ingest, ReassignTemplate, ReassignReviewer, PublishVersion, vars

-----------------------------------------------------------------------------
(* The inductive invariant. *)

(* A submit is saved at its end. *)
SavedEnded == \A s \in saved : pc[s] = "done"

IInv == TypeOK /\ TargetsExist /\ SavedEnded /\ SubmittedIffSaved /\ OneRequestEach
          /\ RosterSynced

(* A coversheet without requests satisfies the invariant. *)
LEMMA InitInv == Init => IInv
<1> SUFFICES ASSUME Init PROVE IInv
  OBVIOUS
<1>1. TypeOK /\ TargetsExist
  BY InitType
<1>2. Used = {} /\ saved = {} /\ \A s \in Submits : answer[s] = "none"
  BY DEF Init, Used
<1>3. DOMAIN roster = {}
  <2>1. roster = [c \in {} |-> {}]
    BY DEF Init
  <2> QED
    BY <2>1, Zenon
<1> QED
  BY <1>1, <1>2, <1>3 DEF IInv, SavedEnded, SubmittedIffSaved, SavedFor, Submitted,
     OneRequestEach, RosterSynced

(* The request of an open submit is there, and a saved submit has ended. *)
LEMMA StepTargets ==
  ASSUME IInv, [Next]_vars
  PROVE  TargetsExist' /\ SavedEnded'
<1>1. TypeOK' /\ RowsEvolve /\ \A s \in Submits : SubmitEvolves(s)
  BY StepType, StepRows, StepSubmits DEF IInv
<1>2. ASSUME NEW s \in Submits, pc'[s] \in Reading \/ s \in saved'
      PROVE  target'[s] \in Used' /\ (s \in saved' => pc'[s] = "done")
  <2>1. CASE s \in saved
    <3>1. pc[s] = "done" /\ target[s] \in Used
      BY <2>1 DEF IInv, SavedEnded, TargetsExist
    <3> QED
      BY <1>1, <3>1 DEF SubmitEvolves, RowsEvolve, Used
  <2>2. CASE Update(s)
    <3>1. pc[s] = "update" /\ target[s] \in Used /\ target'[s] = target[s]
      BY <2>2 DEF Update, IInv, TargetsExist, Reading
    <3> QED
      BY <1>1, <2>2, <3>1 DEF SubmitEvolves, RowsEvolve, Used
  <2>3. CASE s \notin saved /\ ~Update(s)
    <3>1. s \notin saved' /\ pc'[s] \in Reading
      BY <1>1, <1>2, <2>3 DEF SubmitEvolves
    <3>2. CASE pc[s] \in Reading
      BY <1>1, <3>1, <3>2 DEF SubmitEvolves, RowsEvolve, IInv, TargetsExist, Reading, Used
    <3>3. CASE pc[s] = "access"
      BY <1>1, <3>1, <3>3 DEF SubmitEvolves, RowsEvolve, Used
    <3>4. pc[s] # "done"
      BY <1>1, <3>1 DEF SubmitEvolves, Reading
    <3> QED
      BY <3>2, <3>3, <3>4 DEF IInv, TypeOK, Points, Reading
  <2> QED
    BY <2>1, <2>2, <2>3
<1> QED
  BY <1>1, <1>2 DEF TargetsExist, SavedEnded, TypeOK

(* The submissions of a request: none goes, and one comes by an Update.    *)
LEMMA StepSaved ==
  ASSUME IInv, [Next]_vars, NEW r \in RequestIds
  PROVE  SavedFor(r)' = SavedFor(r) \cup {s \in Submits : Update(s) /\ target[s] = r}
<1>1. TypeOK' /\ \A s \in Submits : SubmitEvolves(s)
  BY StepType, StepSubmits DEF IInv
<1>2. ASSUME NEW s \in saved PROVE s \in Submits /\ s \in saved' /\ target'[s] = target[s]
  <2>1. s \in Submits /\ pc[s] = "done"
    BY DEF IInv, TypeOK, SavedEnded
  <2> QED
    BY <1>1, <2>1 DEF SubmitEvolves
<1>3. ASSUME NEW s \in Submits, Update(s) PROVE s \in saved' /\ target'[s] = target[s]
  BY <1>3 DEF Update
<1>4. ASSUME NEW s \in saved' PROVE s \in Submits /\ (s \in saved \/ Update(s))
  BY <1>1 DEF SubmitEvolves, TypeOK
<1> QED
  BY <1>2, <1>3, <1>4 DEF SavedFor

(* Update is the only step that submits, and it saves; none undoes it. *)
LEMMA StepIffSaved ==
  ASSUME IInv, [Next]_vars
  PROVE  SubmittedIffSaved'
<1>1. RowsEvolve /\ \A s \in Submits : SubmitEvolves(s)
  BY StepRows, StepSubmits DEF IInv
<1>2. ASSUME NEW r \in RequestIds PROVE Submitted(r)' <=> SavedFor(r)' # {}
  <2>1. Submitted(r) <=> SavedFor(r) # {}
    BY DEF IInv, SubmittedIffSaved
  <2>2. ASSUME NEW s \in Submits, Update(s), target[s] = r PROVE Submitted(r)'
    <3>1. r \in Used /\ req[r] \in Requests
      BY <2>2 DEF Update, IInv, TypeOK, TargetsExist, Reading, Used
    <3>2. req'[r] = [req[r] EXCEPT !.status = "submitted"]
      BY <2>2, <3>1 DEF Update, SubmittedRow, IInv, TypeOK
    <3>3. r \in Used'
      BY <1>1, <3>1 DEF RowsEvolve
    <3> QED
      BY <3>1, <3>2, <3>3 DEF Submitted, Requests
  <2> QED
    BY <1>1, <2>1, <2>2, StepSaved DEF RowsEvolve
<1>3. ASSUME NEW s \in Submits, answer'[s] = "submitted" PROVE s \in saved'
  BY <1>1, <1>3 DEF SubmitEvolves, IInv, SubmittedIffSaved
<1> QED
  BY <1>2, <1>3 DEF SubmittedIffSaved

(* Steps that leave what the last two invariants are about alone.          *)
LEMMA SameRoster ==
  ASSUME IInv, UNCHANGED <<roster, was>>, req' \in [RequestIds -> Requests \cup {NoRequest}],
         \A r \in RequestIds : r \in Used' <=> r \in Used,
         \A r \in Used : req'[r].discs = req[r].discs
                         /\ (req'[r].status = "draft" => req[r].status = "draft")
  PROVE  RosterSynced'
<1>1. Used' = Used
  BY DEF Used
<1> QED
  BY <1>1 DEF IInv, RosterSynced

(* An ingest makes the requests follow its record, the others keep them so. *)
LEMMA StepRoster ==
  ASSUME IInv, [Next]_vars
  PROVE  OneRequestEach' /\ RosterSynced'
<1> USE DEF IInv, TypeOK, Used
<1>0. TypeOK'
  BY StepType
<1>1. CASE UNCHANGED <<req, roster, was>>
  BY <1>1 DEF OneRequestEach, RosterSynced
<1>2. ASSUME NEW s \in Submits, Submit(s) PROVE OneRequestEach' /\ RosterSynced'
  <2>1. CASE Update(s)
    <3>1. target[s] \in RequestIds /\ req[target[s]] \in Requests
      BY <2>1 DEF Update, TargetsExist, Reading
    <3>2. /\ req'[target[s]] \in Requests
          /\ req'[target[s]] = [req[target[s]] EXCEPT !.status = "submitted"]
          /\ \A r \in RequestIds \ {target[s]} : req'[r] = req[r]
          /\ UNCHANGED <<roster, was>>
      BY <2>1, <3>1 DEF Update, SubmittedRow, Requests, Statuses
    <3>3. /\ req'[target[s]].reviewer = req[target[s]].reviewer
          /\ req'[target[s]].discs = req[target[s]].discs
          /\ req'[target[s]].status = "submitted"
      BY <3>1, <3>2 DEF Requests
    <3>4. \A r \in RequestIds :
            /\ req'[r].reviewer = req[r].reviewer
            /\ req'[r] # NoRequest <=> req[r] # NoRequest
      BY <3>1, <3>2, <3>3
    <3>5. OneRequestEach'
      BY <3>4 DEF OneRequestEach
    <3>6. RosterSynced'
      BY <1>0, <3>1, <3>2, <3>3, SameRoster
    <3> QED
      BY <3>5, <3>6
  <2>2. CASE ~Update(s)
    BY <1>1, <1>2, <2>2 DEF Submit, CheckAccess, ReadContext, CheckForm, RefuseForm, Insert, Abort
  <2> QED
    BY <2>1, <2>2
<1>3. ASSUME NEW p \in Payloads, Ingest(p) PROVE OneRequestEach' /\ RosterSynced'
  <2>1. IngestRows(p)
    BY <1>3, IngestEffect
  <2>2. ASSUME NEW r \in Used
        PROVE  /\ req'[r].reviewer = req[r].reviewer
               /\ req'[r].reviewer \in Assigned
               /\ req'[r].status = "draft" => req'[r].reviewer \in DOMAIN p
               /\ req'[r].reviewer \in DOMAIN p => req'[r].discs = p[req'[r].reviewer]
    BY <2>1, SyncedRow DEF IngestRows, Assigned
  <2>3. ASSUME NEW r \in RequestIds \ Used, req'[r] # NoRequest
        PROVE  /\ req'[r].reviewer \notin Assigned
               /\ req'[r].reviewer \in DOMAIN p
               /\ req'[r].discs = p[req'[r].reviewer]
    BY <2>1, <2>3, FreshRow DEF IngestRows
  <2>4. OneRequestEach'
    <3> SUFFICES ASSUME NEW r \in RequestIds, NEW t \in RequestIds,
                        req'[r] # NoRequest, req'[t] # NoRequest,
                        req'[r].reviewer = req'[t].reviewer
                 PROVE  r = t
      BY DEF OneRequestEach
    <3>1. CASE r \in Used /\ t \in Used
      BY <3>1, <2>2 DEF OneRequestEach
    <3>2. CASE r \notin Used /\ t \notin Used
      BY <3>2, <2>1 DEF IngestRows
    <3> QED
      BY <3>1, <3>2, <2>2, <2>3
  <2>5. RosterSynced'
    <3>1. roster' = p /\ \A r \in Used' : was'[r] = req'[r].reviewer
      BY <1>3 DEF Ingest
    <3>2. ASSUME NEW c \in DOMAIN p PROVE \E r \in Used' : was'[r] = c
      <4>1. PICK r \in RequestIds : req'[r] # NoRequest /\ req'[r].reviewer = c
        BY <2>1 DEF IngestRows
      <4> QED
        BY <3>1, <4>1
    <3>3. ASSUME NEW r \in Used'
          PROVE  /\ was'[r] \in DOMAIN p => req'[r].discs = p[was'[r]]
                 /\ req'[r].status = "draft" => was'[r] \in DOMAIN p
      BY <3>1, <2>2, <2>3
    <3> QED
      BY <3>1, <3>2, <3>3 DEF RosterSynced
  <2> QED
    BY <2>4, <2>5
<1>4. ASSUME NEW r \in RequestIds, NEW f \in Forms, ReassignTemplate(r, f)
      PROVE  OneRequestEach' /\ RosterSynced'
  <2>1. req[r] \in Requests
    BY <1>4 DEF ReassignTemplate
  <2>2. /\ req'[r] \in Requests /\ req'[r].status = req[r].status
        /\ req'[r].reviewer = req[r].reviewer /\ req'[r].discs = req[r].discs
        /\ \A t \in RequestIds \ {r} : req'[t] = req[t]
        /\ UNCHANGED <<roster, was>>
    BY <1>4, <2>1 DEF ReassignTemplate, Requests
  <2>3. OneRequestEach'
    BY <2>1, <2>2 DEF OneRequestEach
  <2>4. RosterSynced'
    BY <1>0, <2>1, <2>2, SameRoster
  <2> QED
    BY <2>3, <2>4
<1>5. ASSUME NEW r \in RequestIds, NEW c \in Reviewers, ReassignReviewer(r, c)
      PROVE  OneRequestEach' /\ RosterSynced'
  <2>1. req[r] \in Requests /\ \A t \in Used \ {r} : req[t].reviewer # c
    BY <1>5 DEF ReassignReviewer
  <2>2. /\ req'[r] \in Requests /\ req'[r].status = req[r].status
        /\ req'[r].reviewer = c /\ req'[r].discs = req[r].discs
        /\ \A t \in RequestIds \ {r} : req'[t] = req[t]
        /\ UNCHANGED <<roster, was>>
    BY <1>5, <2>1 DEF ReassignReviewer, Requests
  <2>3. OneRequestEach'
    BY <2>1, <2>2 DEF OneRequestEach
  <2>4. RosterSynced'
    BY <1>0, <2>1, <2>2, SameRoster
  <2> QED
    BY <2>3, <2>4
<1>6. ASSUME NEW k \in Keys, PublishVersion(k) PROVE OneRequestEach' /\ RosterSynced'
  BY <1>1, <1>6 DEF PublishVersion
<1>7. CASE UNCHANGED vars
  BY <1>1, <1>7 DEF vars
<1>8. \A k \in Keys, v \in 1..MaxVersion : [key |-> k, version |-> v] \in Forms
  BY DEF Forms
<1> QED
  BY <1>2, <1>3, <1>4, <1>5, <1>6, <1>7, <1>8 DEF Next

-----------------------------------------------------------------------------
(* The theorems. *)

(* IInv holds throughout: it holds at the start, and every step keeps it. *)
LEMMA Inductive == Spec => []IInv
<1>1. IInv /\ [Next]_vars => IInv'
  <2> SUFFICES ASSUME IInv, [Next]_vars PROVE IInv'
    OBVIOUS
  <2>1. TypeOK'
    BY StepType DEF IInv
  <2> QED
    BY <2>1, StepTargets, StepIffSaved, StepRoster DEF IInv
<1> QED
  BY <1>1, InitInv, PTL DEF Spec

(* Every variable keeps its type: no id is mixed up, no form is dangling.  *)
THEOREM TypeCorrect == Spec => []TypeOK
<1>1. IInv => TypeOK
  BY DEF IInv
<1> QED
  BY <1>1, Inductive, PTL

(* A request is submitted if and only if a submission of it is committed,  *)
(* and an answer "submitted" is never given for anything else.             *)
THEOREM SubmittedMeansSaved == Spec => []SubmittedIffSaved
<1>1. IInv => SubmittedIffSaved
  BY DEF IInv
<1> QED
  BY <1>1, Inductive, PTL

(* The unique constraint survives ingests and reassignments.               *)
THEOREM ReviewersDistinct == Spec => []OneRequestEach
<1>1. IInv => OneRequestEach
  BY DEF IInv
<1> QED
  BY <1>1, Inductive, PTL

(* The requests follow the ERP record applied last.                        *)
THEOREM RequestsFollowRoster == Spec => []RosterSynced
<1>1. IInv => RosterSynced
  BY DEF IInv
<1> QED
  BY <1>1, Inductive, PTL

(* No step takes the status or a submission from a submitted request.      *)
THEOREM SubmittedForGood == Spec => SubmittedIsFinal
<1>1. ASSUME IInv, [Next]_vars
      PROVE  \A r \in RequestIds :
               Submitted(r) => Submitted(r)' /\ SavedFor(r) \subseteq SavedFor(r)'
  BY <1>1, StepRows, StepSaved DEF IInv, RowsEvolve
<1> QED
  BY <1>1, Inductive, PTL DEF Spec, SubmittedIsFinal

(* A second submission of a request needs a call that overlaps the first.  *)
THEOREM SecondNeedsOverlap == Spec => ClosedStays
<1>1. ASSUME IInv, [Next]_vars, NEW r \in RequestIds, Closed(r)
      PROVE  Closed(r)' /\ SavedFor(r)' = SavedFor(r)
  <2> USE DEF Goto, Reply
  <2>1. TypeOK /\ TypeOK' /\ RowsEvolve /\ Submitted(r) /\ Submitted(r)'
    BY <1>1, StepType, StepRows DEF IInv, RowsEvolve, Closed
  <2>2. ASSUME NEW s \in Submits, Update(s) PROVE target[s] # r
    BY <1>1, <2>2 DEF Update, Closed
  <2>3. SavedFor(r)' = SavedFor(r)
    BY <1>1, <2>2, StepSaved
  <2>4. ASSUME NEW s \in Submits, target'[s] = r,
               pc'[s] \in {"disciplines", "insert", "update"}
        PROVE  seen'[s].status = "submitted" /\ pc'[s] = "disciplines"
    <3> USE DEF TypeOK
    <3>1. ASSUME NEW t \in Submits, Submit(t), t = s
          PROVE  seen'[s].status = "submitted" /\ pc'[s] = "disciplines"
      <4>1. CASE ReadContext(t)
        BY <2>1, <2>4, <3>1, <4>1 DEF ReadContext, Submitted
      <4>2. CASE \E x \in RequestIds : CheckAccess(t, x)
        BY <2>1, <2>4, <3>1, <4>2 DEF CheckAccess
      <4>3. CASE CheckForm(t) \/ Insert(t)
        BY <1>1, <2>1, <2>4, <3>1, <4>3 DEF CheckForm, Insert, Closed
      <4>4. CASE RefuseForm(t) \/ Update(t) \/ Abort(t)
        BY <2>1, <2>4, <3>1, <4>4 DEF RefuseForm, Update, Abort
      <4> QED
        BY <3>1, <4>1, <4>2, <4>3, <4>4 DEF Submit
    <3>2. ASSUME NEW t \in Submits, Submit(t), t # s PROVE
            pc'[s] = pc[s] /\ seen'[s] = seen[s] /\ target'[s] = target[s]
      BY <2>1, <3>2 DEF Submit, CheckAccess, ReadContext, CheckForm, RefuseForm, Insert,
         Update, Abort
    <3>3. CASE UNCHANGED submits
      BY <1>1, <2>4, <3>3 DEF Closed, submits
    <3>4. (\E t \in Submits : Submit(t)) \/ UNCHANGED submits
      BY <1>1 DEF Next, Ingest, ReassignTemplate, ReassignReviewer, PublishVersion, vars
    <3> QED
      BY <1>1, <2>4, <3>1, <3>2, <3>3, <3>4 DEF Closed
  <2> QED
    BY <2>1, <2>3, <2>4 DEF Closed
<1>2. ASSUME IInv, [Next]_vars
      PROVE  \A r \in RequestIds : Closed(r) => Closed(r)' /\ SavedFor(r)' = SavedFor(r)
  BY <1>1, <1>2
<1> QED
  BY <1>2, Inductive, PTL DEF Spec, ClosedStays

(* A reviewer without a call past the access check does not get past it    *)
(* for a request that is not his.                                          *)
THEOREM FormerReviewerOut == Spec => BarredStaysOut
<1>1. ASSUME IInv, [Next]_vars, NEW r \in RequestIds, NEW u \in Reviewers, Barred(r, u)
      PROVE  /\ SavedBy(r, u)' = SavedBy(r, u)
             /\ Barred(r, u)' \/ req'[r].reviewer = u
  <2>1. RowsEvolve /\ \A s \in Submits : SubmitEvolves(s)
    BY <1>1, StepRows, StepSubmits DEF IInv
  <2>2. ASSUME NEW s \in Submits, Update(s), target[s] = r PROVE UserOf[s] # u
    BY <1>1, <2>2 DEF Update, Barred
  <2>3. SavedBy(r, u)' = SavedBy(r, u)
    BY <1>1, <2>2, StepSaved DEF SavedBy
  <2>4. ASSUME NEW s \in Submits, UserOf[s] = u, target'[s] = r PROVE pc'[s] = "done"
    <3>1. CASE target[s] = r
      BY <1>1, <2>1, <2>4, <3>1 DEF SubmitEvolves, Barred
    <3>2. CASE target[s] # r
      <4>1. pc[s] = "access" /\ (pc'[s] = "context" \/ pc'[s] = "done")
        BY <2>1, <2>4, <3>2 DEF SubmitEvolves
      <4>2. pc'[s] # "context"
        BY <1>1, <2>1, <2>4, <4>1 DEF SubmitEvolves, Reading, MaySubmit, Barred
      <4> QED
        BY <4>1, <4>2
    <3> QED
      BY <3>1, <3>2
  <2>5. r \in Used'
    BY <1>1, <2>1 DEF RowsEvolve, Barred
  <2> QED
    BY <1>1, <2>3, <2>4, <2>5 DEF Barred
<1>2. ASSUME IInv, [Next]_vars
      PROVE  \A r \in RequestIds, u \in Reviewers :
               Barred(r, u) => /\ SavedBy(r, u)' = SavedBy(r, u)
                               /\ Barred(r, u)' \/ req'[r].reviewer = u
  BY <1>1, <1>2
<1> QED
  BY <1>2, Inductive, PTL DEF Spec, BarredStaysOut
=============================================================================
