# Verification of qc-coversheets

TLA+ models of the QC coversheet service (`src/app`, `src/postgresql`,
`src/scripts`), checked with TLC on small instances and proved with TLAPS for every
value of the constants.

The service is a FastAPI process with an asyncpg pool in front of PostgreSQL. An
ERP posts events; for each the service fetches the coversheet record from the
ERP and writes projects, contacts, disciplines, the coversheet and one review
request per reviewer. Reviewers log in and submit a form for their request;
administrators edit form templates, reassign requests and manage access.

Contents: [1 inventory](#1-inventory), [2 modules and code](#2-modules-and-code),
[3 runs and bounds](#3-runs-and-bounds), [4 fairness](#4-fairness),
[5 proofs](#5-proofs), [6 disagreements found](#6-disagreements-found),
[7 what is not modelled](#7-what-is-not-modelled), [8 plan](#8-plan).

## 1 Inventory

| component | state | operations | what is hard | what makes it correct |
|---|---|---|---|---|
| **Ingest service** `services/ingest_service.py`, `api/ingest.py`, `services/concurrency.py`, `db.py` | the rows of `ingest_event`, `ingest_job`, `audit_event`; limiter count; pool | `handle_ingest`: record the event, sync path (mark, limit, fetch, transaction) or queue path, failure path | duplicate and retried deliveries overlapping at every await; connection taken four times per delivery; failure inside the failure path; cancellation; crash | limiter and pool exact; acknowledged work is stored; settled events stay settled; no stale overwrite without overlap; the database mirrors the ERP; everybody answered |
| **HMAC verification** `security/hmac_verifier.py` | none | verify headers | none | pass or 401 |
| **ERP client** `services/erp_client.py` | cached token with expiry | token, fetch with three attempts, parse | several coroutines refreshing; revoked token; retries | a valid token is used if there is one; bounded attempts |
| **Upsert transaction** `IngestService._upsert_state` | project, contacts, disciplines, coversheet, review requests and their disciplines | one transaction per stored payload | row locks in payload order; lookups followed by inserts | rows follow the ERP record; as if in one step; deadlocks end |
| **Form templates** `services/form_template_service.py`, `api/form_templates.py` | `form_template`, `form_template_version` | save a new version, import; list, get, export | several administrators in READ COMMITTED transactions | versions without gap, exactly the newest active, no save lost |
| **Review requests** `services/ingest_service.py`, `services/review_admin_service.py` | `review_request`, `review_request_discipline` | ingest, reassign template, reassign reviewer; listings | a request changes while its reviewer submits | one request per reviewer, following the ERP record; submitted is final |
| **Review forms** `services/review_form_service.py`, `api/review_forms.py` | `review_submission` | get, validate, submit | check on autocommit, then a transaction; trigger without a row lock | submitted exactly when a submission is saved; a former reviewer stays out |
| **User access** `auth/repository.py`, `api/user_access_admin.py` | users, their roles and flags | login, role sync, role change, bootstrap | permissions read before the transaction; two administrators demoting each other; roles and users locked in two orders | somebody remains administrator; a demoted one stays out; changes do not mix; deadlocks end |
| **Login and session** `auth/session.py`, `auth/oidc.py`, `api/auth.py` | cookie session, `app_session_audit` | login, callback, logout, pages | the session travels with each request and answer: overlapping ones undo each other | a login that nothing disturbs completes; a logout stays; the audit follows the sessions |
| **Schema and seed** `postgresql/*.sql` | constraints, triggers, seed rows | run the file | run again on a live database | "Safe to re-run" |
| **Backup and restore** `scripts/*.py` | files, all tables | export, restore | export while the application writes; `TRUNCATE ... CASCADE` | a restored database is the exported one |
| **Pages, application shell** | none | HTML, wiring, logging | none | presentation |

Interactions. Deliveries share the limiter, the pool and the tables. Ingest reads
the active template version that administrators write, and rewrites the requests
that reviewers submit and administrators reassign. The submit endpoint runs its
access check on a connection of its own, then two reads on autocommit, then a
transaction, so that an ingest or a reassignment can commit between any two of
them.

`PROJECT.json` lists the same components with their status, and the hazards, each at
the line where it bites.

## 2 Modules and code

    TemplateVersions                      ErpMirror             AtomicUpserts     (abstract)
      ^ refined by   ^ INSTANCE             ^ refined by          ^ refined by
    FormTemplates  ReviewRequests         Ingest                UpsertState
                                            | its fetch, its transaction ^
                                          ErpClient
    UserAccess, Sessions                  Backup
      (a callback's users and roles, and its cookie)

`MCx` is the instance of `x` for TLC and `xProofs` has the theorems about `x`. The three
abstract modules say what a component promises; that the detailed one keeps the promise is a
property of its run and a theorem of its proofs.

Each detailed module has a section *Faulty variants*: operators with one plausible mistake,
never part of the specification. Putting one in place of the original must break the
property that `PROJECT.json` names with it.

### ErpMirror

What the ERP may rely on, in six variables and without a connection, a limiter, a queue or a
transaction: the database mirrors the ERP's records. A delivery stores at most once, and then
a version of the record that the ERP had since the delivery was recorded (`since`); in the same
step its event becomes processed; and a 200 goes only to a delivery that has stored or that
found its event processed. Such a delivery (`known`) may name another coversheet than the one its
event was processed for, and gets its 200 all the same. `phase` is how far the delivery is; `Unmark` is the allowance that
the code needs, as a duplicate may set the status of an event back that another delivery
is just having processed. `Ingest!MirrorsErp` is the refinement, with `Phase` for `phase`.

### Ingest

`IngestService.handle_ingest` run by several deliveries; a retry by the ERP is another
delivery of the same event. A request carries `event_id` and `qcUdicID` side by side (`EventOf`,
`QcOf`), and the code ties neither to the other: an event may come again with another
coversheet. `pc[d]` is the await at which the coroutine is suspended.

| TLA+ | code |
|---|---|
| `Reject`, `Receive` | `HmacVerifier.verify` in the endpoint: 401, or the handler |
| `RecordEvent` | `UPSERT_INGEST_EVENT_SQL` (`UpsertEvent`), which also overwrites the `qc_udic_id` of a row that is there (`about`), and the test of the status; takes a connection |
| `ShortCircuit` | 200 for a processed event |
| `StartProcessing` | `MARK_PROCESSING_SQL`, whatever the status has become; gives the connection back |
| `StartQueueing`, `UpsertJob`, `FinishQueueing` | the three autocommitted statements of queue mode |
| `TakeSlot`, `NoSlot`, `AnswerBusy` | `ConcurrencyLimiter.try_acquire`; `_mark_failed` and 429 |
| `FetchOk`, `FetchFailed` | `ErpClient.fetch_qc_payload` |
| `BeginTx`, `Commit`, `StoreFailed` | the transaction: `_upsert_state`, audit row, `MARK_PROCESSED_SQL` |
| `CommitUnacknowledged` | the commit took effect and the reply was lost |
| `RecordFailure`, `Release` | the `except` clause and the `finally` clause |
| `Abort` | an exception or a cancellation at an await that no clause turns into a status |
| `Crash` | the process dies: open deliveries lost, memory reset, tables kept |
| `Edit` | users change the ERP record |

Abstractions. A payload is the version number of the ERP record it was read from; an answer
about another record, which the parser would accept (`erp_client.py:246`), is not modelled. The
upsert transaction is one step: nothing in this module depends on its inside. The
attempt counter is kept but nothing reads it, as in the code. A connection is a unit of
`free`. `mode` is read when the process starts, so that a crash may change it.

### TemplateVersions and FormTemplates

`TemplateVersions` is the abstract specification: a key has a latest version, and the
only step publishes one more. `FormTemplates` is `create_new_version` statement by
statement under READ COMMITTED: a statement sees what is committed when it runs, writes
of an open transaction are in the request's own variables (`next`, `off`), and the row
lock that `UPDATE_TEMPLATE_METADATA` takes (or the key lock of `CREATE_TEMPLATE`) is
`lock`. `PublishesVersions` is the refinement, under the mapping
`latest[k] = MAX(version)` of `k`. `Reseed` is the seed at the end of the schema file.

### ReviewRequests

The requests of one coversheet (no statement touches those of two). Submits go
statement by statement:

| TLA+ | code |
|---|---|
| `CheckAccess` | `require_review_form_submit_access`, own connection |
| `ReadContext` | `GET_REVIEW_FORM_CONTEXT_SQL` |
| `CheckForm`, `RefuseForm` | `GET_REVIEW_FORM_DISCIPLINES_SQL`, then the status test, the payload rules: 409 or 422 |
| `Insert` | `INSERT_REVIEW_SUBMISSION` and the trigger `enforce_submission_matches_request` |
| `Update` | `UPDATE_REVIEW_REQUEST_SUBMITTED_SQL` and the commit |
| `Abort` | any failure: rollback |

`Ingest(p)` is the part of `_upsert_state` about review requests (upsert, discipline
statements, cancellation of removed reviewers), `ReassignTemplate` and
`ReassignReviewer` are the administrators' operations: each is one transaction, and one
step at its commit. That is sound here because they lock the rows they write, and two
ingests of a coversheet are serialised by its `project_execution_record`; what an open
submission locks (the key of its request, through the foreign key) is the guard of
`ReassignReviewer`. `PublishVersion` is the step of `TemplateVersions`, which the
refinement of `FormTemplates` justifies.

Abstractions. The payload rules of the form are pass or fail (a choice, since they
depend on what the reviewer typed), with the one fact that later steps use: the
responses are for the disciplines read. Statuses are the three the code writes. The
ERP record is a function from its reviewers to sets of disciplines, of which only
active ones have rows.

### ErpClient

`ErpClient.fetch_qc_payload` called by several coroutines that share the cached token.
It is the inside of what `Ingest` takes for one step, `FetchOk` or `FetchFailed`.

| TLA+ | code |
|---|---|
| `UseCached`, `RequestToken` | the start of `_get_access_token` |
| `IssueToken`, `TokenArrives`, `TokenFails` | the ERP's token endpoint, and the rest of `_get_access_token` |
| `PostFails`, `PostRefused`, `PostOk`, `Wake` | one attempt of the loop: transient failure, definite refusal (4xx or an answer the parser rejects), payload; the end of the backoff |
| `KeepUntil` | `now + max(60, expires_in - 30)` |
| `Cancel`, `Tick` | cancellation; time, which a token request cannot outlast its timeouts of |

Abstractions. A token is when it was issued and how long it lives. `failures` and
`verdict` record what the ERP answered, so that a property can compare it with what the
caller hears. Tokens have any life: the client keeps each for at least 60 s, so that one that
lives less may have ended when it is used, and `CacheSafe` says for which lives what holds. Assumed of
the ERP: tokens are not revoked, and the two clocks run alike. Assumed
of httpx: a token request ends within its four timeouts (connect, write, read, pool) of 10 s each, which is
less than the 60 s (`TimesType`). A restart of the process is the initial state.

### AtomicUpserts

What `Ingest` assumes when it takes the upsert transaction for one step: every transaction that
commits might as well have run alone at that moment. It writes the whole of its payload to a
coversheet that is there or to a new one (`MayWrite`), and to the requests of this. Reviewers whom
the payload leaves out are `cancelled`, and remain so when a later payload lists them again, since
the upsert of a request does not touch its status.
`UpsertState!UpsertsAreAtomic` is the refinement: the variables have the same names, and
`stored` are the transactions that are done.

### UpsertState

`IngestService._upsert_state`, which `Ingest` takes for one step and of which
`ReviewRequests` has the effect on one coversheet, here statement by statement in several
transactions. `held[t]` is the set of rows that `t` has locked; a statement is possible when
no other transaction holds what it `Needs`, and `Victim` is PostgreSQL's deadlock check,
which ends one transaction of a cycle (`Cycle`: a least set in which everybody waits for
somebody in it).

| TLA+ | code |
|---|---|
| `UpsertExecution`, `UpsertProject` | the first two upserts; 422 if an id is missing |
| `UpsertContact`, `UpsertDiscipline` | the loops: manager, principal, `reviewer_groups`, disciplines, in the order of the payload (`Lists`) |
| `SelectCoversheet`, `SelectNothing` | the lookup by `qcUdicID` |
| `LockCoversheet`, `WriteCoversheet` | `UPDATE_COVERSHEET`, `INSERT_COVERSHEET` and the unique key on execution record and `qcUdicID` |
| `SyncRequests`, `Commit` | the requests, whose status an upsert leaves as it is, and the cancellation of removed reviewers, chosen from what is committed then |
| `Refuse`, `Break`, `Victim` | what the code or a constraint refuses; failures; deadlock |

Abstractions. A payload is its ids, its people and its discipline codes, and whether the
dates parse and the submittal has a name (`complete`). Of the rows written only those that
another transaction can find are kept: coversheets (named after the transaction that
inserted them, with the one that wrote them last), their requests, and which of these are
cancelled. The rows of `review_request` are covered by the lock on the coversheet; nobody submits
here or reassigns, which is in `ReviewRequests`. The lookup takes any of several rows, not the latest.

### UserAccess

`AuthRepository` under READ COMMITTED, for the requests that change users: a login (the
user is upserted, and in a second transaction the roles of the token are added), an
administrator's change of roles, the bootstrap of an administrator. The caller's
permissions are read statement by statement before the transaction, on autocommit.
`removed` and `added` are the roles a transaction has deleted and inserted and not
committed; `owner` is who has locked the row of a user. `INSERT ... ON CONFLICT DO NOTHING`
waits for a transaction that is changing the same role of the same user (`Waits`).

Abstractions. Of the permissions only `admin.access` matters, which the seed gives to the
role `admin` alone. An account is its flags and roles. Contact links are read and never
written by the program. `External` are the users whose email is outside the company.

### Sessions

One browser, its cookie, and requests that overlap. The server keeps no session: a request
works on the session that came with it (`carried`), and its answer sends back all of it
(`Receive`), as Starlette's `SessionMiddleware` does. Whether a session that has not changed
is sent again depends on Starlette's version, which `requirements.txt` leaves open; both are
allowed. `Page` stands for every request that only reads the session, those answered 401,
403 or 400 included.

| TLA+ | code |
|---|---|
| `Login` | `/auth/login`: state, nonce and session id |
| `CheckState`, `Exchange`, `Upsert`, `Audit` | `/auth/callback`: `pop_auth_flow` and the 401, the two calls to `oidc`, the database, `log_session_event` and `store_user_session` |
| `Logout` | `/auth/logout` |
| `Page` | `resolve_optional_user` |
| `Lose` | an exception nothing catches (no cookie is sent), a lost answer |

`standing` and `out` are history: the login, or logout, that no answer has disturbed since
its own arrived; `req[r].standing` and `.out` are what they were when `r` was sent.
Abstractions. What is drawn at random is named by the request that draws it. State and nonce
come and go together, so that the nonce needs no variable. The checks of the token are one
choice. The user chooses the account at Entra, any of them.

### Backup

`export_db_backup.py` beside a writing application, then `restore_db_backup.py --truncate`,
on the same database or on a new one; each statement is its own transaction. `Tables` is the
order in which tables are exported, `Manifest` that in which they are restored. The scripts make
both alphabetical, as the runs do; with two constants the theorems can ask which orders would do.

| TLA+ | code |
|---|---|
| `Write`, `Delete` | the application, which goes on during the export; it deletes rows of link tables only |
| `ExportTable`, `ExportFails` | `_export_table`, which catches the failure of a table, leaves part of its rows in the file, and writes the error to the manifest (`errors`) |
| `TruncateTable`, `CopyTable`, `CopyFails` | `TRUNCATE ... CASCADE` and `COPY` of one table; nothing catches the error of a key |
| `Recreate` | a new database, made with the schema |

Row `k` of a table refers to row `k` of the tables it has a foreign key to; a row that is made
to refer to another one is not modelled, and no statement of the program deletes a row that
others refer to. No table of the schema refers to itself.

## 3 Runs and bounds

| run | instance | states | shows |
|---|---|---|---|
| `ingest` | 2 deliveries of one event about two coversheets, 1 of another event about the first of these; limit 1; pool 1; sync or queue mode; `MaxEdits` 1 and 0 | 532 084 | five invariants, two action properties, the refinement of `ErpMirror`, one liveness property |
| `form_templates` | 3 administrators on one key, 1 on another; keys seeded or not | 44 100 | gapless versions, saves kept, refinement, all requests end |
| `reseed` | as above, with `Reseed` | violation | `SafeToRerun` is false |
| `reviews` | 2 reviewers, 2 request ids, 2 submits (a reviewer, an administrator), 1 discipline, 1 key, `MaxVersion` 2 | 628 828 | submission and status agree, submitted is final, requests follow the record, a former reviewer stays out |
| `submit_twice`, `submitted_locked` | as `reviews` | violation | section 6 |
| `erp_client` | 2 calls, tokens of three lives, `MaxTime` 5 | 1 108 306 | the cached token is good unless its life is too short, answers are respected, every call ends |
| `upsert_state` | 3 transactions, any three of the payloads of `MCUpsertState` | 47 229 | which coversheets may have two rows, which ingests may deadlock, deadlocks end, the refinement of `AtomicUpserts` |
| `user_access` | 3 requests, any three of the 11 jobs of `MCUserAccess`, 3 users (2 administrators, 1 unknown and external) | 133 135 | role changes do not mix, an administrator remains, who is deactivated or demoted stays out, deadlocks take a role sync and end |
| `sessions` | 5 requests of one browser, 2 users | 892 735 | a login completes, a logout stays, the audit follows |
| `restore` | 4 tables with their foreign keys, 1 thing, both orders alphabetical | violation | section 6 |
| `backup` | the same | 7 416 | which references a backup keeps, where a restore stops, what it leaves |

The runs do not check the `TypeOK` of the modules: it is a theorem of each.

Why the bounds are enough to meet the interesting cases.

* `ingest`: two deliveries of an event are needed for a duplicate; that they name two
  coversheets is the general case, as everything about a coversheet is by name. The third is
  another event that competes for the first coversheet, the slot and the connection. With a
  limit and a pool of one, each resource is at its limit as soon as one delivery has
  it, and a delivery that held a connection while it waits for another would block
  for ever. One edit of the coversheet that two deliveries store (`MaxEdits`) gives an older
  and a newer payload; the other record is not edited. Crashes are not
  bounded: deliveries are.
* `form_templates`: three requests on a key let one hold the lock, one wait and one
  have read before both; the second key shows that locks are per key.
* `reviews`: a coversheet has at most one request per reviewer, so two ids are enough
  for two reviewers. Two submits are what an overlap needs. `MaxVersion` bounds
  `PublishVersion` only; two versions make an older and a newer expectation. Request
  ids are interchangeable (no operation compares them), hence the symmetry set; no
  liveness is checked with it. Submits and reviewers are not symmetric, as `UserOf`
  distinguishes them.

* `erp_client`: two calls are enough to refresh at once and overtake each other, or for
  one to use what the other cached. Times are scaled (margin 1, least life 2, longest
  request 1, lives 1, 2 and 4: too short, just long enough, and with the margin to spare) and keep the order of the real ones (30, 60, 40 s); 5 units
  are enough for a token to be cached, used, given up and replaced.

* `upsert_state` and `user_access`: two transactions make a cycle, the third lets somebody
  wait outside it, or a cycle be of three. The payloads and jobs are chosen so that any two
  differ in what matters: the same or another execution record, project and coversheet, lists
  in both orders, an email or a date missing; each administrator against the other and
  himself, roles that exist or not, a user yet to log in. Transactions differ in nothing but
  their payload, so `MCInit` gives these in one order only.
* `sessions`: login, callback and logout of one sign-in are three requests; two more overlap
  them, as a page and a second login, or a second sign-in. Requests and users are
  interchangeable, hence the symmetry set; no liveness is checked with it.
* `restore`, `backup`: in the alphabetical order there is a table before and
  one after the table they refer to, and one that refers to two. One row for each table is enough
  for it to be missing, to come too late for the export, or to be in the way of `COPY`.
* `BarredStaysOut` is tried on the submit of a reviewer that comes after his request was given
  away, `RevokedStaysOut` on two changes by one administrator, who is deactivated or demoted by
  himself or another in between.

`CHECK_DEADLOCK FALSE` in all runs but those of `ReviewRequests`: their requests are
finite in number, and when all have ended nothing is left to do; that nobody is stuck
before that is what `EveryDeliveryAnswered`, `EverySaveEnds`, `EveryFetchEnds`, `EveryUpsertEnds` and
`EveryRequestEnds` say (a request of `Sessions` waits for nobody). In the runs of `ReviewRequests`
deadlock is checked.

Named bounds: `MaxEdits` (edits of each ERP record), `MaxVersion` (template versions
in `ReviewRequests`), `MaxTime` (the clock of `ErpClient`); `failures` is counted up to 4. The other modules are bounded by their number of requests.

## 4 Fairness

`Ingest!FairSpec` has weak fairness of `Step(d)` for each delivery: a coroutine whose
next step is possible is resumed by the event loop, the ERP client's `httpx` timeout
turns silence into `FetchFailed`, and PostgreSQL answers or breaks the connection. Weak fairness
is enough for the waits on the pool because a delivery that ends never takes the
connection again. `Abort`, `Crash`, `Edit`, `Receive` and `Reject` have no fairness: nobody has to
fail, edit or send. A delivery may be `lost` with the process; the property says answered or lost.

`FormTemplates!FairSpec` has weak fairness of the statements of each request, for the
same reason, and `ErpClient!FairSpec` of the steps of each call: every await has a
timeout, after which `TokenFails` or `PostFails` is possible. `Tick` needs no fairness. `ReviewRequests`, `Sessions` and `Backup` have none and state no liveness.

`UpsertState!FairSpec` and `UserAccess!FairSpec` have weak fairness of the statements of each
transaction (one that waits for no lock is executed) and of `Victim`: PostgreSQL looks for a
cycle after `deadlock_timeout` and ends one of its transactions. It is stated for some victim,
not for a given one. `Break` has no fairness.

## 5 Proofs

Every theorem is for any sets of deliveries, events, administrators, reviewers,
tables and so on, and any limit, pool size, versions and orders of tables. Assumptions are
the named ASSUMEs of the modules: typing of the constants, values such as `NoEvent` outside the sets they
mark absence in, finiteness of `Deliveries` (their cardinality is counted), and that of `ErpClient` on the
timeouts named in section 2. `Backup!TablesType` and `ManifestType` say that
each table is exported, and restored, once. `OrderType` and `RankType` ask for some order of
rows, or of role names, that has a last one, as a finite set has.

| theorem | property | argument |
|---|---|---|
| `IngestProofs!TypeCorrect` | `TypeOK` | by itself |
| `IngestProofs!SlotsExact`, `ConnectionsExact` | `LimiterExact`, `PoolExact` | `Counters`; lemma `CountMove`: moving one delivery changes a count by what leaves and what enters |
| `IngestProofs!AckedImpliesStored` | `AckedIsStored` | with `Fresh`: what is about to be stored is a real ERP version; `AckedInv`: a delivery at `known` has found an event that somebody stored for |
| `IngestProofs!OneCoversheetPerEvent` | none | from `AckedIsStored`: if all deliveries of an event name one coversheet, a 200 means that this is stored |
| `IngestProofs!ProcessedOnceSettled` | `SettledStays` | step by step: who writes a status is past the check |
| `IngestProofs!RegressionNeedsOverlap` | `NoRegression` | with `Fresh`: a payload is at least as new as the event record |
| `IngestProofs!ProcessingHasAnOwner` | `ProcessingIsOwned` | with `AnswersAtEnd`: an owner stays one or settles the event |
| `IngestProofs!QueuedNotLost` | `QueuedHasJob` | `Jobs`: whoever is past the job statement has a job; `RecordedStays`: an event's row names a coversheet that the event was delivered about |
| `FormTemplatesProofs!NewestAlwaysActive`, `NoSaveLost`, `SavesSerialised` | `NewestIsActive`, `SavesAreKept`, `OnlyCreatorsConflict` | one inductive invariant `IInv` |
| `FormTemplatesProofs!Refinement` | `PublishesVersions` | `IInv`: a commit is a `Publish`, everything else a stutter |
| `ReviewRequestsProofs!SubmittedMeansSaved`, `ReviewersDistinct`, `RequestsFollowRoster` | `SubmittedIffSaved`, `OneRequestEach`, `RosterSynced` | one inductive invariant `IInv` |
| `ReviewRequestsProofs!SubmittedForGood`, `SecondNeedsOverlap` | `SubmittedIsFinal`, `ClosedStays` | from `IInv`, by cases on the action |
| `ErpClientProofs!CachedTokenAccepted`, `RefreshUseful` | `CacheSafe`, `RefreshHelps` | `KeptInTime`, `RequestsYoung`: the expiry is counted from before the token was issued, and a request is never older than the least life; `KeepUntilBounds`: what the floor makes of tokens of any life |
| `ErpClientProofs!OutcomeWarranted` | `AnswersRespected` | `Counted`: each attempt but the one at work has failed |
| `UpsertStateProofs!TwinsAlwaysDiffer`, `RequestsOfOnePayload` | `TwinsDiffer`, `OnePayload` | who is past a statement holds the row it locked: two ingests with an execution record or a project in common never overlap past it, so the second finds the first one's coversheet; what is going to be cancelled is still what is committed, as the coversheet is locked; `Written`: who has a request was on the list of a committed ingest of this coversheet |
| `UpsertStateProofs!DeadlockTakesDisorder` | `DeadlockNeedsDisorder` | along an order of rows, everybody who waits in order waits for somebody further on, and there is a last row |
| `UserAccessProofs!ChangesDoNotMix` | `RolesOfLastChange` | the row lock that the first statement takes; `PutSoFar`: what a change of roles has done so far, whatever syncs commit meanwhile |
| `UserAccessProofs!AdminStays` | `AdminRemains` | `CallerIsAdmin`: what was read of the caller is so until a change of roles commits |
| `UserAccessProofs!DeadlockTakesSync` | `DeadlockNeedsSync` | a sync inserts roles in alphabetical order, so syncs alone have a last one; the others lock the user first, so at most one of them has anything |
| `SessionsProofs!LoginsComplete`, `LogoutsStick` | `LoginCompletes`, `LogoutSticks` | `Carried`, `Changed`: what a request carried when it was sent, and how far it has changed it |
| `SessionsProofs!TrailComplete` | `AuditTrail` | `SessionsSound`, of every session there is, in the browser or under way |
| `IngestProofs!Refinement` | `MirrorsErp` | `Fresh` and `PayloadIsReal`: the payload under way is a version that the ERP has had since the delivery was recorded; then one lemma for each step of `ErpMirror`, and one for the actions that are stutters |
| `UpsertStateProofs!Refinement` | `UpsertsAreAtomic` | `KeyFree`: from the check of the unique key to the commit nobody else gets the key, as the execution record is locked; lemma `CommitUpserts` with the invariants of `TwinsDiffer` and `OnePayload` |
| `ReviewRequestsProofs!FormerReviewerOut` | `BarredStaysOut` | by cases: only `CheckAccess` lets a call in, and only with the reviewer the request has then |
| `UserAccessProofs!RevokedStayOut` | `RevokedStaysOut` | lemma `PutEvolves`: what a step makes of a change of roles, as seen from its caller |
| `BackupProofs!CascadeDecides`, `StopsOnlyForOrder` | `RestoredExactly`, `StopsForOrder` | `RestoreInv`: the first of what is restored so far; a row that is in the backup and not in its table has been emptied again |
| `BackupProofs!ReferencesKept` | `ExportConsistent` | `ExportInv`: what a file refers to is in a file, or still in its table, since rows that are referred to are not deleted |
| `BackupProofs!ParentsFirstRestores` | none | lemma `CascadeOnward`: if parents come first, the tables from a position on are closed under `CASCADE`, so that it reaches nothing before |
| `BackupProofs!ChildrenFirstConsistent`, `RoundTrip`, `OneOrderFailsOne` | none | children first keeps all references; the two together restore what was exported; one order cannot be both |

Each of these modules has its `TypeCorrect` too.

Three refinements are proved, of `TemplateVersions`, `ErpMirror` and `AtomicUpserts`. The second
and third are of one transaction seen from outside and from inside: `ErpMirror` allows the store to
be one step because `Ingest` takes it for one, and `AtomicUpserts` says that `Ingest` may.

Why the strengthenings are needed. `NewestIsActive` alone is not inductive: an insert
keeps it only if the `MAX(version)` read before is still the maximum and the versions switched
off are still the active ones. `ReadsHold` says so, and it holds because `LockHeld` gives the
row to one request between its update and its commit; `Authors` ties rows to the requests that
were answered. `TypeOK` itself needs `Intervals`, without which the maximum of a set of versions
is not known to be a number. For `SubmittedIffSaved` one has to know that the request a submit
was opened for still exists (`TargetsExist`) and that a saved submit never runs again (`SavedEnded`). Lemma
`IngestEffect` says once what an ingest makes of the rows, and `RowsEvolve` and
`SubmitEvolves` say what any step can make of a row and of a submit; the invariants are
proved from these three instead of from the actions.

Only model-checked: the liveness properties `EveryDeliveryAnswered`, `EverySaveEnds`, `EveryFetchEnds`,
`EveryUpsertEnds` and `EveryRequestEnds` (TLAPS does not do liveness under fairness), and the four violated
properties, for which the counterexample is the result.

## 6 Disagreements found

| run | the code | what is said of it |
|---|---|---|
| `submit_twice` | the status test (`api/review_forms.py:91`) reads a value fetched before the transaction, the update has no status condition, and `review_submission` no unique key on the request: two overlapping submits are both accepted | 409 "Review request has already been submitted", `api/review_forms.py:92` |
| `submitted_locked` | re-ingest rewrites template version, reviewer name and disciplines of a submitted request (`ingest_service.py:228`) | "Submitted forms are locked from additional changes", `SECURITY/order_of_app_operations.md:308` |
| `reseed` | the seed activates version 1 and switches all others off | "Safe to re-run", schema file `:882` |
| `restore` | with `--truncate`, `TRUNCATE app_user CASCADE` empties `app_session_audit`, which the alphabetical order has restored before it, and in the same way `contact` empties `app_user_contact_link` and `review_request` empties `review_form_validation_event`; exit code 0 | "Restores CSV backups into a schema", `scripts/README.md:45` |

What would mend the last one is proved: with a manifest that has tables after those they refer to,
a consistent backup is restored whole (`ParentsFirstRestores`); without it a restore stops
only where the order is to blame (`StopsForOrder`), and loses exactly the tables that a later
`TRUNCATE` reaches (`RestoredExactly`). The export, which takes tables one by one, wants the
opposite order to be consistent (`ChildrenFirstConsistent`), so that the single order that both
scripts use cannot be right for both, whatever it is (`OneOrderFailsOne`).

What does hold beside them is as useful: `ClosedStays` (a second submission needs a call
that overlaps the first), `SubmittedIsFinal` (the status of a submitted request is never
taken back), `NoRegression` (older ERP data needs overlapping deliveries), and that nobody acts on a
right that he has lost but with a call that was past the check (`BarredStaysOut`, `RevokedStaysOut`).

Consequences that nothing in the repository speaks against, and which the properties put a
limit to: an event that was processed and comes again with another `qcUdicID` is answered 200,
and nothing is stored for that coversheet (`AckedIsStored`; `OneCoversheetPerEvent` says what holds
if the ERP never does so); the row of the event names the new coversheet then, also where it is
the latest event of another one's job (`QueuedHasJob`); a reviewer who was removed from a
coversheet and is listed again keeps the cancelled request (`UpsertsAreAtomic`); a token that
lives less than 60 s is used beyond its end (`CacheSafe`); two administrators who remove each other's role at the same time leave none
(`AdminRemains`), and the last one may deactivate himself, which `AdminRemains` does not count, as
he keeps the role (and is active again after his next login, see below); a coversheet whose execution record *and* project changed between two
concurrent first ingests has two rows (`TwinsDiffer`), and giving one the key of the other then
fails each time; ingests that list the same reviewers in other orders deadlock, and one is
answered 500 (`DeadlockNeedsDisorder`); so may a login with roles beside a change of roles
(`DeadlockNeedsSync`); the late answer of a page may bring back the session that a logout cleared
(`LogoutSticks`), or lose the state of a login (`LoginCompletes`). The trigger of a submission reads
the expected template version without a lock, so that a change that commits before the submission
leaves one for another version. A user whom an administrator
deactivated is active again after his next login (`UPSERT_APP_USER`), which the model follows.

## 7 What is not modelled

* HMAC arithmetic, the validation of payload fields, formatting, logging: pure functions
  with unit tests; their outcome (pass or fail) is a choice in the models.
* The listings, get and export operations: they only read.
* A consumer of `ingest_job`: there is none in the repository. `QueuedHasJob` says that the job is
  there for one.
* The rows `validate_review_form` logs: nothing reads them.
* Pages and application shell: presentation and wiring.
* The fields the ERP parser extracts: a pure function with unit tests; that it accepts or
  rejects an answer is in `ErpClient`.
* The section rules of `validate_submission_payload`: pass or fail in `ReviewRequests`. What
  they compute is a pure function of the form, and has unit tests.
* The bypass of authentication in local development, and the permissions of reviewers and
  internal readers beside `MaySubmit` of `ReviewRequests`: single reads.
* The order of a coversheet's rows by `ingested_at`, once it has two: any of them is taken.
* `created_at` of template versions (the start of the transaction): it orders listings, and one
  version of a key is active whatever it is.
* Restore without `--truncate`, which stops at the first key that is there, and the filter on
  schema names.

## 8 Plan

In the order of how much a mistake would cost:

1. *done* `Ingest`, `FormTemplates` with `TemplateVersions`, `ReviewRequests` and
   `ErpClient`, with their proofs.
2. *done* `UpsertState`: the inside of the one-step transaction of `Ingest`.
3. *done* `UserAccess`, with what keeps an administrator in place and what does not.
4. *done* `Sessions`, and `Backup` for what restore promises.
5. *done* The promises `ErpMirror` and `AtomicUpserts`, refined; the orders of tables under which
   `Backup` keeps and restores everything, as theorems; who has lost a right stays out.
6. `SubmissionRules`: `validate_submission_payload` as operators, against a declarative
   definition of a complete form, over bounded forms.
7. Promises of their own for `ErpClient` (a fetch as one step) and for the life of a review
   request, which `ReviewRequests` would refine.
