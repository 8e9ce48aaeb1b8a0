--------------------------- MODULE ReviewRequests ---------------------------
(***************************************************************************)
(* The review requests of one coversheet: what IngestService._upsert_state *)
(* makes of them, what administrators do to them, and what becomes of them *)
(* when reviewers submit their forms.  No statement touches the requests   *)
(* of two coversheets, so one coversheet stands for all.                   *)
(*                                                                         *)
(* A submit is a sequence of statements, of which only the last two share  *)
(* a transaction.  The transactions of ingest and of the administrators    *)
(* are one step each: they lock every row they write, and two ingests of a *)
(* coversheet wait for each other on its project_execution_record.         *)
(***************************************************************************)
EXTENDS Naturals

CONSTANTS
  RequestIds,   \* ids of review_request rows
  NoRequest,    \* no row, no id, no reviewer
  Reviewers,    \* contacts, each with the user linked to it
  Disciplines,  \* rows of discipline
  Submits,      \* POST /review-forms/{id}/submit requests
  Admin,        \* a user who is an administrator
  UserOf,       \* the user of a submit
  Keys,         \* template_key values
  QcKey,        \* "qc_subconsultant_review"
  MaxVersion    \* bound on the versions of a key, for TLC

Forms    == [key : Keys, version : Nat]
(* The statuses that the code writes, of the nine that the table allows. *)
Statuses == {"draft", "submitted", "cancelled"}
Requests == [reviewer : Reviewers, status : Statuses, form : Forms,
             discs : SUBSET Disciplines]

ASSUME UserOfType == UserOf \in [Submits -> Reviewers \cup {Admin}]
ASSUME QcKeyType == QcKey \in Keys
ASSUME NoRequestFresh == NoRequest \notin Requests \cup RequestIds \cup Reviewers
ASSUME MaxVersionType == MaxVersion \in Nat

VARIABLES
  pc,       \* the next statement of each submit
  answer,   \* its response
  target,   \* the request it is for
  seen,     \* what it read of that request
  saved,    \* the submits whose review_submission row is committed
  req,      \* the review_request rows, with their disciplines
  roster,   \* reviewer_data of the ERP record applied last (source_payload)
  was,      \* history: the reviewer each row had when that was applied
  latest    \* newest version of each template key, the active one

submits == <<pc, answer, target, seen>>
vars    == <<submits, saved, req, roster, was, latest>>

(* Statements of a submit: the access check, the two reads of              *)
(* resolve_review_form, then the insert and the update of one transaction. *)
Points  == {"access", "context", "disciplines", "insert", "update", "done"}
Answers == {"none", "forbidden", "invalid", "conflict", "error", "submitted"}
Seen    == [status : Statuses, form : Forms, discs : SUBSET Disciplines]

(* reviewer_data: some reviewers, each with some disciplines. *)
Payloads == UNION {[R -> SUBSET Disciplines] : R \in SUBSET Reviewers}

Used     == {r \in RequestIds : req[r] # NoRequest}
Assigned == {req[r].reviewer : r \in Used}
Submitted(r) == r \in Used /\ req[r].status = "submitted"

(* The version that GET_ACTIVE_TEMPLATE_VERSION finds. *)
ActiveForm == [key |-> QcKey, version |-> latest[QcKey]]

Templates == INSTANCE TemplateVersions

Init ==
  /\ pc = [s \in Submits |-> "access"]
  /\ answer = [s \in Submits |-> "none"]
  /\ target = [s \in Submits |-> NoRequest]
  /\ seen = [s \in Submits |-> [status |-> "draft", discs |-> {},
                                form |-> [key |-> QcKey, version |-> 0]]]
  /\ saved = {}
  /\ req = [r \in RequestIds |-> NoRequest]
  /\ roster = [c \in {} |-> {}]
  /\ was = [r \in RequestIds |-> NoRequest]
  /\ Templates!Init

-----------------------------------------------------------------------------
Goto(s, p) == pc' = [pc EXCEPT ![s] = p]

Reply(s, a) == Goto(s, "done") /\ answer' = [answer EXCEPT ![s] = a]

-----------------------------------------------------------------------------
(* Faulty variants of what is below, not part of Spec: with one of them in *)
(* place of the original, a property fails.                                *)

(* The cancellation does not look at the status. *)
CancelledAnyway(x) == [x EXCEPT !.status = "cancelled"]

(* The cancellation is left out. *)
NotCancelled(x) == x

(* The two statements of the transaction commit one by one. *)
InsertAutocommitted(s) ==
  /\ pc[s] = "insert"
  /\ seen[s].form = req[target[s]].form
  /\ Goto(s, "update")
  /\ saved' = saved \cup {s}
  /\ UNCHANGED <<answer, target, seen, req, roster, was, latest>>

(* The status of the context is not looked at. *)
CheckFormOnly(s) ==
  LET D == req[target[s]].discs IN
  /\ pc[s] = "disciplines"
  /\ D # {}
  /\ seen' = [seen EXCEPT ![s].discs = D]
  /\ Goto(s, "insert")
  /\ UNCHANGED <<answer, target, saved, req, roster, was, latest>>

(* The table lacks its unique constraint. *)
ReassignReviewerUnchecked(r, c) ==
  /\ r \in Used
  /\ req' = [req EXCEPT ![r].reviewer = c]
  /\ UNCHANGED <<submits, saved, roster, was, latest>>

(* The access check finds any request of the coversheet for the user. *)
MaySubmitAny(s, r) == UserOf[s] \in {Admin} \cup Assigned

-----------------------------------------------------------------------------
(* require_review_form_submit_access, on a connection of its own: an       *)
(* administrator, or the user linked to the reviewer of the request.       *)
MaySubmit(s, r) == UserOf[s] \in {Admin, req[r].reviewer}

CheckAccess(s, r) ==
  /\ pc[s] = "access" /\ r \in Used
  /\ target' = [target EXCEPT ![s] = r]
  /\ IF MaySubmit(s, r)
     THEN Goto(s, "context") /\ UNCHANGED answer
     ELSE Reply(s, "forbidden")
  /\ UNCHANGED <<seen, saved, req, roster, was, latest>>

(* GET_REVIEW_FORM_CONTEXT. *)
ReadContext(s) ==
  LET x == req[target[s]] IN
  /\ pc[s] = "context"
  /\ seen' = [seen EXCEPT ![s] = [status |-> x.status, form |-> x.form, discs |-> {}]]
  /\ Goto(s, "disciplines")
  /\ UNCHANGED <<answer, target, saved, req, roster, was, latest>>

(* GET_REVIEW_FORM_DISCIPLINES, then the checks that need no database: the *)
(* request is not submitted, and the responses are for its disciplines.    *)
CheckForm(s) ==
  LET D == req[target[s]].discs IN
  /\ pc[s] = "disciplines"
  /\ D # {} /\ seen[s].status # "submitted"
  /\ seen' = [seen EXCEPT ![s].discs = D]
  /\ Goto(s, "insert")
  /\ UNCHANGED <<answer, target, saved, req, roster, was, latest>>

(* They fail: 422 without disciplines, 409 for a submitted request, 422    *)
(* for responses that are incomplete or for other disciplines.             *)
RefuseForm(s) ==
  /\ pc[s] = "disciplines"
  /\ Reply(s, IF req[target[s]].discs # {} /\ seen[s].status = "submitted"
              THEN "conflict" ELSE "invalid")
  /\ UNCHANGED <<target, seen, saved, req, roster, was, latest>>

(* INSERT_REVIEW_SUBMISSION opens the transaction; the trigger compares    *)
(* the form with the one that the committed request expects now.  The      *)
(* foreign key locks the key of the request until the end.                 *)
Insert(s) ==
  /\ pc[s] = "insert"
  /\ IF seen[s].form = req[target[s]].form
     THEN Goto(s, "update") /\ UNCHANGED answer
     ELSE Reply(s, "error")
  /\ UNCHANGED <<target, seen, saved, req, roster, was, latest>>

(* UPDATE_REVIEW_REQUEST_SUBMITTED, whatever the request has become, and   *)
(* the commit, of which the handler may not hear.                          *)
SubmittedRow(x) == [x EXCEPT !.status = "submitted"]

Update(s) ==
  /\ pc[s] = "update"
  /\ req' = [req EXCEPT ![target[s]] = SubmittedRow(@)]
  /\ saved' = saved \cup {s}
  /\ \E a \in {"submitted", "error"} : Reply(s, a)
  /\ UNCHANGED <<target, seen, roster, was, latest>>

(* A statement or the connection fails, or the process dies: rollback. *)
Abort(s) ==
  /\ pc[s] # "done"
  /\ Reply(s, "error")
  /\ UNCHANGED <<target, seen, saved, req, roster, was, latest>>

-----------------------------------------------------------------------------
(* What an ingest of record p makes of an existing row x: UPSERT_REVIEW_   *)
(* REQUEST, the discipline statements, CANCEL_REMOVED_REVIEWERS.           *)
CancelledIfActive(x) == IF x.status = "draft" THEN [x EXCEPT !.status = "cancelled"] ELSE x

Synced(x, p) ==
  IF x.reviewer \in DOMAIN p
  THEN [x EXCEPT !.form = ActiveForm, !.discs = p[x.reviewer]]
  ELSE CancelledIfActive(x)

NewRow(c, p) ==
  [reviewer |-> c, status |-> "draft", form |-> ActiveForm, discs |-> p[c]]

(* _upsert_state applies ERP record p: 500 if there are reviewers and no   *)
(* active template; otherwise every reviewer gets a row, unless there is   *)
(* one, and the rows of the others are cancelled.                          *)
Ingest(p) ==
  /\ DOMAIN p = {} \/ latest[QcKey] > 0
  /\ \E id \in [DOMAIN p \ Assigned -> RequestIds \ Used] :
       /\ \A c, d \in DOMAIN id : id[c] = id[d] => c = d
       /\ req' = [r \in RequestIds |->
            IF r \in Used THEN Synced(req[r], p)
            ELSE IF \E c \in DOMAIN id : id[c] = r
            THEN NewRow(CHOOSE c \in DOMAIN id : id[c] = r, p)
            ELSE NoRequest]
  /\ roster' = p
  /\ was' = [r \in RequestIds |-> IF req'[r] = NoRequest THEN NoRequest ELSE req'[r].reviewer]
  /\ UNCHANGED <<submits, saved, latest>>

(* reassign_review_request_template: any version there is, of any key. *)
ReassignTemplate(r, f) ==
  /\ r \in Used
  /\ f.version \in 1..latest[f.key]
  /\ req' = [req EXCEPT ![r].form = f]
  /\ UNCHANGED <<submits, saved, roster, was, latest>>

(* reassign_review_request_reviewer: 409 if another request has the        *)
(* reviewer; the key it changes is locked by an open submission.           *)
ReassignReviewer(r, c) ==
  /\ r \in Used
  /\ \A t \in Used \ {r} : req[t].reviewer # c
  /\ \A s \in Submits : ~(pc[s] = "update" /\ target[s] = r)
  /\ req' = [req EXCEPT ![r].reviewer = c]
  /\ UNCHANGED <<submits, saved, roster, was, latest>>

(* An administrator saves a new version of a template. *)
PublishVersion(k) ==
  /\ latest[k] < MaxVersion
  /\ Templates!Publish(k)
  /\ UNCHANGED <<submits, saved, req, roster, was>>

-----------------------------------------------------------------------------
Submit(s) ==
  \/ \E r \in RequestIds : CheckAccess(s, r)
  \/ ReadContext(s) \/ CheckForm(s) \/ RefuseForm(s)
  \/ Insert(s) \/ Update(s) \/ Abort(s)

Next ==
  \/ \E s \in Submits : Submit(s)
  \/ \E p \in Payloads : Ingest(p)
  \/ \E r \in RequestIds, k \in Keys, v \in 1..MaxVersion :
       ReassignTemplate(r, [key |-> k, version |-> v])
  \/ \E r \in RequestIds, c \in Reviewers : ReassignReviewer(r, c)
  \/ \E k \in Keys : PublishVersion(k)

Spec == Init /\ [][Next]_vars

-----------------------------------------------------------------------------
(* Properties. *)

TypeOK ==
  /\ pc \in [Submits -> Points]
  /\ answer \in [Submits -> Answers]
  /\ target \in [Submits -> RequestIds \cup {NoRequest}]
  /\ seen \in [Submits -> Seen]
  /\ saved \subseteq Submits
  /\ req \in [RequestIds -> Requests \cup {NoRequest}]
  /\ roster \in Payloads
  /\ was \in [RequestIds -> Reviewers \cup {NoRequest}]
  /\ latest \in [Keys -> Nat]

SavedFor(r) == {s \in saved : target[s] = r}

(* A request counts as submitted exactly when a submission of it is in the *)
(* database, and whoever was told "submitted" is among them: no failure    *)
(* between the two statements of submit_review_form separates them, and no *)
(* ingest or reassignment afterwards undoes it.                            *)
SubmittedIffSaved ==
  /\ \A r \in RequestIds : Submitted(r) <=> SavedFor(r) # {}
  /\ \A s \in Submits : answer[s] = "submitted" => s \in saved

(* Submitted is final: whatever the ERP record says later, the request is  *)
(* neither cancelled nor reopened, and keeps its submissions.              *)
SubmittedIsFinal ==
  [][\A r \in RequestIds :
       Submitted(r) => Submitted(r)' /\ SavedFor(r) \subseteq SavedFor(r)']_vars

(* Once a request is submitted and no call that read it before is still    *)
(* open, no second submission of it gets in: the 409 of the endpoint is    *)
(* enough when the calls do not overlap.                                   *)
Closed(r) ==
  /\ Submitted(r)
  /\ \A s \in Submits :
       (target[s] = r /\ pc[s] \in {"disciplines", "insert", "update"})
         => seen[s].status = "submitted" /\ pc[s] = "disciplines"
ClosedStays ==
  [][\A r \in RequestIds :
       Closed(r) => Closed(r)' /\ SavedFor(r)' = SavedFor(r)]_vars

(* The access check holds for the calls that come after it: once a request *)
(* has another reviewer, and no call by the former one is past the check,  *)
(* he submits nothing for it until it is given back to him.                *)
Barred(r, u) ==
  /\ r \in Used /\ u # Admin /\ req[r].reviewer # u
  /\ \A s \in Submits : UserOf[s] = u /\ target[s] = r => pc[s] = "done"
SavedBy(r, u) == {s \in SavedFor(r) : UserOf[s] = u}
BarredStaysOut ==
  [][\A r \in RequestIds, u \in Reviewers :
       Barred(r, u) =>
         /\ SavedBy(r, u)' = SavedBy(r, u)
         /\ Barred(r, u)' \/ req'[r].reviewer = u]_vars

(* No two requests of a coversheet are for the same reviewer, so that the  *)
(* conflict clause of ingest finds the one to update.                      *)
OneRequestEach ==
  \A r, t \in Used : req[r].reviewer = req[t].reviewer => r = t

(* The requests follow the ERP record that was applied last: each of its   *)
(* reviewers has one, with the disciplines of the record, and a request    *)
(* that is still open is for one of its reviewers.  Only an administrator  *)
(* may have given it to somebody else since.                               *)
RosterSynced ==
  /\ DOMAIN roster \subseteq {was[r] : r \in Used}
  /\ \A r \in Used :
       /\ was[r] \in DOMAIN roster => req[r].discs = roster[was[r]]
       /\ req[r].status = "draft" => was[r] \in DOMAIN roster

(* "Review request has already been submitted": a request has at most one  *)
(* submission.                                                             *)
AtMostOneSubmission == \A s, t \in saved : target[s] = target[t] => s = t

(* "Submitted forms are locked from additional changes": an ingest leaves  *)
(* a submitted request as it is.                                           *)
SubmittedLocked ==
  [][\A p \in Payloads : Ingest(p) =>
       \A r \in RequestIds : Submitted(r) => req'[r] = req[r]]_vars
=============================================================================
