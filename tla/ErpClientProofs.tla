--------------------------- MODULE ErpClientProofs ---------------------------
(* Proofs about ErpClient for any number of calls and any clock: what is   *)
(* kept is good, and what the caller hears is what the ERP said.           *)
EXTENDS ErpClient, TLAPS

USE TimesType, LivesType, NoTokenFresh

-----------------------------------------------------------------------------
(* The inductive invariant. *)

(* A token request is as old as the timeouts allow at most, and its answer *)
(* holds a token that was issued since.                                    *)
RequestsYoung ==
  \A f \in Fetches :
    /\ pc[f] \in AskingToken => start[f] <= now /\ now <= start[f] + MaxWait
    /\ pc[f] = "issued" => held[f] \in Tokens /\ start[f] <= held[f].issued

(* The cached token is given up when it would be, had the request taken no *)
(* time, or earlier.                                                       *)
KeptInTime == token # NoToken => expires <= KeepUntil(token.issued, token.life)

(* Each attempt but the one at work has failed. *)
Counted ==
  \A f \in Fetches :
    /\ pc[f] \in {"begin"} \cup AskingToken => attempt[f] = 0
    /\ pc[f] \in {"begin", "post"} \cup AskingToken => failures[f] = attempt[f]
    /\ pc[f] = "sleep" => failures[f] = attempt[f] + 1 /\ attempt[f] < 2

IInv == TypeOK /\ RequestsYoung /\ KeptInTime /\ Counted /\ AnswersRespected

-----------------------------------------------------------------------------
(* How long a token is kept: at least MinLife; past its own life only if   *)
(* this is shorter, and then for MinLife; not into the margin of a token   *)
(* that lives longer than both.                                            *)
LEMMA KeepUntilBounds ==
  ASSUME NEW from \in Nat, NEW life \in Lives
  PROVE  /\ KeepUntil(from, life) \in Nat
         /\ KeepUntil(from, life) >= from + MinLife
         /\ life >= MinLife => KeepUntil(from, life) <= from + life
         /\ life < MinLife => KeepUntil(from, life) = from + MinLife
         /\ life >= MinLife + Margin => KeepUntil(from, life) + Margin <= from + life
BY DEF KeepUntil

(* Who asked earlier gives up earlier. *)
LEMMA KeepUntilMonotone ==
  ASSUME NEW i \in Nat, NEW j \in Nat, NEW life \in Lives, i <= j
  PROVE  KeepUntil(i, life) <= KeepUntil(j, life)
BY DEF KeepUntil

(* Nothing is kept and nothing has been tried at the start. *)
LEMMA InitInv == Init => IInv
BY DEF Init, IInv, TypeOK, RequestsYoung, KeptInTime, Counted, AnswersRespected, Open, Ends,
       AskingToken

(* Each action keeps the types; the attempts need Counted to end at 2. *)
LEMMA StepType == IInv /\ [Next]_vars => TypeOK'
<1> SUFFICES ASSUME IInv, [Next]_vars PROVE TypeOK'
  OBVIOUS
<1> USE DEF IInv, TypeOK, Open, Ends, AskingToken, Goto, GotToken, loop, cache
<1>1. CASE Tick
  BY <1>1 DEF Tick
<1>2. CASE UNCHANGED vars
  BY <1>2 DEF vars
<1>3. ASSUME NEW f \in Fetches, UseCached(f) PROVE TypeOK'
  BY <1>3 DEF UseCached
<1>0. ASSUME NEW f \in Fetches, TokenFails(f) \/ Cancel(f) PROVE TypeOK'
  BY <1>0 DEF TokenFails, Cancel
<1>8. ASSUME NEW f \in Fetches, RequestToken(f) PROVE TypeOK'
  BY <1>8 DEF RequestToken
<1>4. ASSUME NEW f \in Fetches, IssueToken(f) PROVE TypeOK'
  BY <1>4 DEF IssueToken, Tokens
<1>5. ASSUME NEW f \in Fetches, TokenArrives(f) PROVE TypeOK'
  <2>1. held[f] \in Tokens
    BY <1>5 DEF TokenArrives, RequestsYoung
  <2>2. KeepUntil(start[f], held[f].life) \in Nat
    BY <2>1, KeepUntilBounds DEF Tokens
  <2> QED
    BY <1>5, <2>1, <2>2 DEF TokenArrives
<1>6. ASSUME NEW f \in Fetches, PostFails(f) \/ PostRefused(f) \/ PostOk(f) PROVE TypeOK'
  <2>1. CASE PostFails(f)
    BY <2>1 DEF PostFails, RetryOrGiveUp
  <2>2. CASE PostRefused(f)
    BY <2>2 DEF PostRefused
  <2>3. CASE PostOk(f)
    BY <2>3 DEF PostOk
  <2> QED
    BY <1>6, <2>1, <2>2, <2>3
<1>7. ASSUME NEW f \in Fetches, Wake(f) PROVE TypeOK'
  <2>1. attempt[f] + 1 \in 0..2
    BY <1>7 DEF Wake, Counted
  <2> QED
    BY <1>7, <2>1 DEF Wake
<1> QED
  BY <1>0, <1>1, <1>2, <1>3, <1>4, <1>5, <1>6, <1>7, <1>8 DEF Next, Step

(* The clock stops for a token request that is as old as it may be. *)
LEMMA StepRequests == IInv /\ [Next]_vars => RequestsYoung'
<1> SUFFICES ASSUME IInv, [Next]_vars PROVE RequestsYoung'
  OBVIOUS
<1> USE DEF IInv, TypeOK, RequestsYoung, AskingToken, Goto, GotToken, loop, cache
<1>1. CASE Tick
  BY <1>1 DEF Tick
<1>2. CASE UNCHANGED vars
  BY <1>2 DEF vars
<1>3. ASSUME NEW f \in Fetches, UseCached(f) \/ RequestToken(f) PROVE RequestsYoung'
  BY <1>3 DEF UseCached, RequestToken
<1>4. ASSUME NEW f \in Fetches, IssueToken(f) PROVE RequestsYoung'
  BY <1>4 DEF IssueToken, Tokens
<1>5. ASSUME NEW f \in Fetches, TokenArrives(f) \/ TokenFails(f) \/ Cancel(f) PROVE RequestsYoung'
  BY <1>5 DEF TokenArrives, TokenFails, Cancel
<1>6. ASSUME NEW f \in Fetches, PostFails(f) \/ PostRefused(f) \/ PostOk(f) \/ Wake(f)
      PROVE RequestsYoung'
  BY <1>6 DEF PostFails, PostRefused, PostOk, Wake, RetryOrGiveUp
<1> QED
  BY <1>1, <1>2, <1>3, <1>4, <1>5, <1>6 DEF Next, Step

(* Only the arrival of a token writes the cache. *)
LEMMA CacheWritten ==
  ASSUME [Next]_vars
  PROVE  UNCHANGED cache \/ \E f \in Fetches : TokenArrives(f)
BY DEF Next, Step, vars, Tick, UseCached, RequestToken, IssueToken, TokenFails, PostFails,
       PostRefused, PostOk, Wake, Cancel, cache

(* The expiry is counted from before the token was issued. *)
LEMMA StepKept == IInv /\ [Next]_vars => KeptInTime'
<1> SUFFICES ASSUME IInv, [Next]_vars PROVE KeptInTime'
  OBVIOUS
<1>1. CASE UNCHANGED cache
  BY <1>1 DEF cache, IInv, KeptInTime
<1>2. ASSUME NEW f \in Fetches, TokenArrives(f) PROVE KeptInTime'
  <2>1. held[f] \in Tokens /\ start[f] <= held[f].issued /\ start[f] \in Nat
    BY <1>2 DEF TokenArrives, IInv, RequestsYoung, TypeOK
  <2>2. KeepUntil(start[f], held[f].life) <= KeepUntil(held[f].issued, held[f].life)
    BY <2>1, KeepUntilMonotone DEF Tokens
  <2> QED
    BY <1>2, <2>2 DEF TokenArrives, KeptInTime, KeepUntil
<1> QED
  BY <1>1, <1>2, CacheWritten

(* Attempts and failures go up together; a third failure ends the call. *)
LEMMA StepCounted == IInv /\ [Next]_vars => Counted' /\ AnswersRespected'
<1> SUFFICES ASSUME IInv, [Next]_vars PROVE Counted' /\ AnswersRespected'
  OBVIOUS
<1> USE DEF IInv, TypeOK, Counted, AnswersRespected, AskingToken, Open, Goto, GotToken, loop, cache
<1>1. CASE Tick \/ UNCHANGED vars
  BY <1>1 DEF Tick, vars
<1>2. ASSUME NEW f \in Fetches, UseCached(f) \/ RequestToken(f)
      PROVE Counted' /\ AnswersRespected'
  BY <1>2 DEF UseCached, RequestToken
<1>3. ASSUME NEW f \in Fetches, IssueToken(f) \/ TokenArrives(f) \/ TokenFails(f) \/ Cancel(f)
      PROVE Counted' /\ AnswersRespected'
  BY <1>3 DEF IssueToken, TokenArrives, TokenFails, Cancel
<1>4. ASSUME NEW f \in Fetches, PostFails(f) PROVE Counted' /\ AnswersRespected'
  BY <1>4 DEF PostFails, RetryOrGiveUp
<1>5. ASSUME NEW f \in Fetches, PostRefused(f) \/ PostOk(f) PROVE Counted' /\ AnswersRespected'
  BY <1>5 DEF PostRefused, PostOk
<1>6. ASSUME NEW f \in Fetches, Wake(f) PROVE Counted' /\ AnswersRespected'
  BY <1>6 DEF Wake
<1> QED
  BY <1>1, <1>2, <1>3, <1>4, <1>5, <1>6 DEF Next, Step

(* IInv holds throughout: it holds at the start, and every step keeps it. *)
LEMMA Inductive == Spec => []IInv
<1>1. IInv /\ [Next]_vars => IInv'
  BY StepType, StepRequests, StepKept, StepCounted DEF IInv
<1> QED
  BY <1>1, InitInv, PTL DEF Spec

-----------------------------------------------------------------------------
(* The variables keep their types; no call makes a fourth attempt. *)
THEOREM TypeCorrect == Spec => []TypeOK
<1>1. IInv => TypeOK
  BY DEF IInv
<1> QED
  BY <1>1, Inductive, PTL

(* No call is handed a cached token that the ERP no longer accepts, unless *)
(* the ERP gave it a shorter life than MinLife.                            *)
THEOREM CachedTokenAccepted == Spec => []CacheSafe
<1>1. ASSUME IInv PROVE CacheSafe
  <2> SUFFICES ASSUME CacheValid
               PROVE  /\ token.life >= MinLife => now < End(token)
                      /\ token.life >= MinLife + Margin => now + Margin < End(token)
                      /\ token.life < MinLife => now < token.issued + MinLife
    BY DEF CacheSafe
  <2> DEFINE until == KeepUntil(token.issued, token.life)
  <2>1. /\ token.issued \in Nat /\ token.life \in Lives /\ token.life \in Nat
        /\ now \in Nat /\ expires \in Nat
    BY <1>1 DEF CacheValid, IInv, TypeOK, Tokens
  <2>2. now < expires /\ expires <= until
    BY <1>1 DEF CacheValid, IInv, KeptInTime
  <2>3. /\ until \in Nat
        /\ token.life >= MinLife => until <= token.issued + token.life
        /\ token.life < MinLife => until = token.issued + MinLife
        /\ token.life >= MinLife + Margin => until + Margin <= token.issued + token.life
    BY <2>1, KeepUntilBounds
  <2> HIDE DEF until
  <2> QED
    BY <2>1, <2>2, <2>3 DEF End
<1> QED
  BY <1>1, Inductive, PTL

(* Whatever the order of the answers, a refresh leaves a usable token. *)
THEOREM RefreshUseful == Spec => RefreshHelps
<1>1. ASSUME IInv, [Next]_vars, cache' # cache PROVE CacheValid'
  <2>1. PICK f \in Fetches : TokenArrives(f)
    BY <1>1, CacheWritten
  <2>2. /\ held[f] \in Tokens /\ start[f] \in Nat /\ now \in Nat
        /\ now <= start[f] + MaxWait
    BY <1>1, <2>1 DEF TokenArrives, IInv, RequestsYoung, TypeOK, AskingToken
  <2>3. KeepUntil(start[f], held[f].life) >= start[f] + MinLife
        /\ KeepUntil(start[f], held[f].life) \in Nat
    BY <2>2, KeepUntilBounds DEF Tokens
  <2>4. now < KeepUntil(start[f], held[f].life)
    BY <2>2, <2>3
  <2>5. held[f] # NoToken
    BY <2>2 DEF Tokens
  <2> QED
    BY <2>1, <2>4, <2>5 DEF TokenArrives, CacheValid
<1> QED
  BY <1>1, Inductive, PTL DEF Spec, RefreshHelps

(* The caller hears of an unavailable ERP after three failures, and of a   *)
(* definite answer when there was one.                                     *)
THEOREM OutcomeWarranted == Spec => []AnswersRespected
<1>1. IInv => AnswersRespected
  BY DEF IInv
<1> QED
  BY <1>1, Inductive, PTL
=============================================================================
