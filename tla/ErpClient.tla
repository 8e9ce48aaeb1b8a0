------------------------------ MODULE ErpClient ------------------------------
(***************************************************************************)
(* ErpClient.fetch_qc_payload, called by several coroutines that share the *)
(* access token kept in the client.                                        *)
(*                                                                         *)
(* A step runs from one await that can suspend to the next, so that the    *)
(* token and its expiry are read together and written together.  Time is   *)
(* discrete, in units of a common divisor of the times of the code.        *)
(***************************************************************************)
EXTENDS Naturals

CONSTANTS
  Fetches,      \* calls of fetch_qc_payload
  Lives,        \* expires_in of the tokens the ERP issues
  Margin,       \* 30 s: how long before its end a token is given up
  MinLife,      \* 60 s: the least time a token is kept
  MaxWait,      \* longest token request: four httpx timeouts of 10 s
  NoToken,      \* None
  MaxTime       \* bound on the clock, for TLC

ASSUME TimesType ==
  /\ Margin \in Nat /\ MinLife \in Nat /\ MaxWait \in Nat /\ MaxTime \in Nat
  /\ MaxWait < MinLife
ASSUME LivesType == Lives \subseteq Nat
ASSUME NoTokenFresh == NoToken \notin [issued : Nat, life : Lives]

VARIABLES
  now,        \* the clock
  settings,   \* which settings are complete, fixed for the process
  pc,         \* where each call is
  start,      \* "now" in its _get_access_token
  held,       \* the token it got
  attempt,    \* its loop variable
  failures,   \* history: its transient failures, counted up to 4
  verdict,    \* history: the answer of the ERP that settled it
  token,      \* _access_token
  expires     \* _expires_at

loop  == <<attempt, failures, verdict>>
cache == <<token, expires>>
vars  == <<now, settings, pc, start, held, loop, cache>>

Tokens == [issued : Nat, life : Lives]
End(t) == t.issued + t.life

(* begin: not called yet;  request: the token request is on its way;       *)
(* issued: its answer is;  post: a POST is;  sleep: waiting to try again.  *)
AskingToken == {"request", "issued"}
Open        == AskingToken \cup {"post", "sleep"}
(* What the caller gets: the payload, a 503, a 502, or another failure.    *)
Ends        == {"payload", "unavailable", "refused", "error"}

Init ==
  /\ now = 0
  /\ settings \in SUBSET {"oauth", "procedure"}
  /\ pc = [f \in Fetches |-> "begin"]
  /\ start = [f \in Fetches |-> 0]
  /\ held = [f \in Fetches |-> NoToken]
  /\ attempt = [f \in Fetches |-> 0]
  /\ failures = [f \in Fetches |-> 0]
  /\ verdict = [f \in Fetches |-> "none"]
  /\ token = NoToken
  /\ expires = 0

-----------------------------------------------------------------------------
Goto(f, p) == pc' = [pc EXCEPT ![f] = p]

(* With a token, fetch_qc_payload goes on to its loop, or raises a 500.    *)
GotToken(f, t) ==
  /\ held' = [held EXCEPT ![f] = t]
  /\ Goto(f, IF "procedure" \in settings THEN "post" ELSE "error")

CacheValid == token # NoToken /\ now < expires

(* Faulty variant of the next one, not part of Spec: no least time. *)
KeepUntilMargin(from, life) == from + (IF life > Margin THEN life - Margin ELSE 0)

(* _expires_at, counted from the time before the request. *)
KeepUntil(from, life) == from + (IF life > MinLife + Margin THEN life - Margin ELSE MinLife)

-----------------------------------------------------------------------------
(* Faulty variants, not part of Spec: with one of them in place of the     *)
(* original, a property fails.                                             *)

(* The expiry is counted from the arrival of the answer. *)
ArriveCountedLate(f) ==
  /\ pc[f] = "issued"
  /\ token' = held[f]
  /\ expires' = KeepUntil(now, held[f].life)
  /\ GotToken(f, held[f])
  /\ UNCHANGED <<now, settings, start, loop>>

(* A definite refusal is tried again. *)
PostRefusedRetried(f) ==
  /\ pc[f] = "post"
  /\ verdict' = [verdict EXCEPT ![f] = "refused"]
  /\ Goto(f, IF attempt[f] = 2 THEN "refused" ELSE "sleep")
  /\ UNCHANGED <<now, settings, start, held, attempt, failures, cache>>

(* The loop does not count. *)
WakeUncounted(f) ==
  /\ pc[f] = "sleep"
  /\ Goto(f, "post")
  /\ UNCHANGED <<now, settings, start, held, loop, cache>>

-----------------------------------------------------------------------------
(* The beginning of _get_access_token. *)
UseCached(f) ==
  /\ pc[f] = "begin" /\ CacheValid
  /\ GotToken(f, token)
  /\ start' = [start EXCEPT ![f] = now]
  /\ UNCHANGED <<now, settings, loop, cache>>

RequestToken(f) ==
  /\ pc[f] = "begin" /\ ~CacheValid
  /\ Goto(f, IF "oauth" \in settings THEN "request" ELSE "error")
  /\ start' = [start EXCEPT ![f] = now]
  /\ UNCHANGED <<now, settings, held, loop, cache>>

(* The ERP issues a token, somewhere between request and answer. *)
IssueToken(f) ==
  /\ pc[f] = "request"
  /\ \E l \in Lives : held' = [held EXCEPT ![f] = [issued |-> now, life |-> l]]
  /\ Goto(f, "issued")
  /\ UNCHANGED <<now, settings, start, loop, cache>>

(* Its answer arrives and is kept, whatever others have kept meanwhile. *)
TokenArrives(f) ==
  /\ pc[f] = "issued"
  /\ token' = held[f]
  /\ expires' = KeepUntil(start[f], held[f].life)
  /\ GotToken(f, held[f])
  /\ UNCHANGED <<now, settings, start, loop>>

(* An answer of 4xx or 5xx, or without a token, or a network error, which  *)
(* is outside the try: nothing is tried again.                             *)
TokenFails(f) ==
  /\ pc[f] \in AskingToken
  /\ Goto(f, "error")
  /\ UNCHANGED <<now, settings, start, held, loop, cache>>

-----------------------------------------------------------------------------
(* The three attempts, all with the one token. *)

RetryOrGiveUp(f) == Goto(f, IF attempt[f] = 2 THEN "unavailable" ELSE "sleep")

(* 5xx, a timeout or another network error. *)
PostFails(f) ==
  /\ pc[f] = "post"
  /\ failures' = [failures EXCEPT ![f] = IF @ < 4 THEN @ + 1 ELSE @]
  /\ RetryOrGiveUp(f)
  /\ UNCHANGED <<now, settings, start, held, attempt, verdict, cache>>

(* 4xx, or an answer that _normalize_fetch_payload rejects. *)
PostRefused(f) ==
  /\ pc[f] = "post"
  /\ verdict' = [verdict EXCEPT ![f] = "refused"]
  /\ Goto(f, "refused")
  /\ UNCHANGED <<now, settings, start, held, attempt, failures, cache>>

(* The record, which the ERP gives for a token that has not ended. *)
PostOk(f) ==
  /\ pc[f] = "post"
  /\ now < End(held[f])
  /\ verdict' = [verdict EXCEPT ![f] = "payload"]
  /\ Goto(f, "payload")
  /\ UNCHANGED <<now, settings, start, held, attempt, failures, cache>>

(* The end of asyncio.sleep(backoff). *)
Wake(f) ==
  /\ pc[f] = "sleep"
  /\ attempt' = [attempt EXCEPT ![f] = @ + 1]
  /\ Goto(f, "post")
  /\ UNCHANGED <<now, settings, start, held, failures, verdict, cache>>

(* The coroutine is cancelled at an await. *)
Cancel(f) ==
  /\ pc[f] \in Open
  /\ Goto(f, "error")
  /\ UNCHANGED <<now, settings, start, held, loop, cache>>

(* Time goes on; a token request is given up by its timeouts. *)
Tick ==
  /\ now < MaxTime
  /\ \A f \in Fetches : pc[f] \in AskingToken => now < start[f] + MaxWait
  /\ now' = now + 1
  /\ UNCHANGED <<settings, pc, start, held, loop, cache>>

-----------------------------------------------------------------------------
(* What a call does by itself once it is made. *)
Step(f) ==
  \/ IssueToken(f) \/ TokenArrives(f) \/ TokenFails(f)
  \/ PostFails(f) \/ PostRefused(f) \/ PostOk(f) \/ Wake(f)

Next ==
  \/ \E f \in Fetches : UseCached(f) \/ RequestToken(f) \/ Step(f) \/ Cancel(f)
  \/ Tick

Spec == Init /\ [][Next]_vars

(* Timeouts end every await, also when nothing answers. *)
FairSpec == Spec /\ \A f \in Fetches : WF_vars(Step(f))

-----------------------------------------------------------------------------
(* Properties. *)

TypeOK ==
  /\ now \in Nat
  /\ settings \subseteq {"oauth", "procedure"}
  /\ pc \in [Fetches -> {"begin"} \cup Open \cup Ends]
  /\ start \in [Fetches -> Nat]
  /\ held \in [Fetches -> Tokens \cup {NoToken}]
  /\ attempt \in [Fetches -> 0..2]
  /\ failures \in [Fetches -> 0..4]
  /\ verdict \in [Fetches -> {"none", "payload", "refused"}]
  /\ token \in Tokens \cup {NoToken}
  /\ expires \in Nat

(* A token that lives MinLife is valid at the ERP as long as the client    *)
(* takes it for valid, and one that lives for the margin more has it left, *)
(* however many coroutines refreshed it at once and in whatever order the  *)
(* answers came.  A shorter one may have ended, and is used nevertheless   *)
(* until MinLife has passed since it was issued, and no longer.            *)
CacheSafe ==
  CacheValid =>
    /\ token.life >= MinLife => now < End(token)
    /\ token.life >= MinLife + Margin => now + Margin < End(token)
    /\ token.life < MinLife => now < token.issued + MinLife

(* A refresh helps: an answer, even one that overtook or was overtaken by  *)
(* others, leaves a token that the next call uses.  By CacheSafe the ERP   *)
(* accepts it if it lives MinLife.                                         *)
RefreshHelps ==
  [][cache' # cache => CacheValid']_vars

(* What the caller hears is what the answers of the ERP warrant: an        *)
(* unavailable ERP failed three times and never gave a definite answer,    *)
(* and a definite answer is passed on at once and never asked for again.   *)
AnswersRespected ==
  \A f \in Fetches :
    /\ pc[f] = "unavailable" => failures[f] = 3
    /\ pc[f] \in {"payload", "refused"} => verdict[f] = pc[f] /\ failures[f] <= 2
    /\ pc[f] \in Open \cup {"begin", "unavailable"} => verdict[f] = "none"
    /\ failures[f] <= 3

(* Every call ends, with or without an answer of the ERP. *)
EveryFetchEnds == \A f \in Fetches : pc[f] \in Open ~> pc[f] \in Ends
=============================================================================
