---------------------------- MODULE SessionsProofs ----------------------------
(* Proofs about Sessions for any number of requests and users: what a      *)
(* request carries when it is sent decides on what its answer may undo.    *)
EXTENDS Sessions, TLAPS

USE NoneFresh

-----------------------------------------------------------------------------
(* The inductive invariant. *)

(* Whoever a session names is in the database, with a login_success. *)
Sound(s) == s.user # None => s.user \in known /\ s.id # None /\ Audited(s.id, s.user)
SessionsSound ==
  /\ Sound(cookie)
  /\ \A r \in Reqs : Sound(session[r]) /\ Sound(req[r].carried)
  /\ \A e \in audit : Audited(e.id, e.user)

(* What the browser was like when a request was sent, and is now. *)
Carried ==
  /\ standing # None => cookie.flow = standing
  /\ out => cookie.user = None
  /\ \A r \in Reqs : /\ req[r].standing # None => req[r].carried.flow = req[r].standing
                     /\ req[r].out => req[r].carried.user = None
                     /\ Kind(r) = "callback" => req[r].flow # None /\ req[r].who # None

(* How far a request has changed its session. *)
Changed ==
  \A r \in Reqs :
    /\ pc[r] = "sent" => session[r] = req[r].carried
    /\ pc[r] = "ok" /\ Kind(r) = "page" => session[r] = req[r].carried
    /\ pc[r] = "ok" /\ Kind(r) = "login" =>
         session[r].flow = r /\ session[r].user = req[r].carried.user
    /\ pc[r] = "ok" /\ Kind(r) = "logout" => session[r] = Empty
    /\ pc[r] \in {"exchange", "upsert", "audit", "refused", "denied"} =>
         Kind(r) = "callback" /\ session[r].user = req[r].carried.user
    /\ pc[r] = "audit" => req[r].who \in known
    /\ pc[r] = "refused" => req[r].standing # req[r].flow

IInv == TypeOK /\ SessionsSound /\ Carried /\ Changed

-----------------------------------------------------------------------------
(* What the helpers on sessions do. *)

(* A session gets an id if it has none. *)
LEMMA EnsureIdFacts ==
  ASSUME NEW r \in Reqs, NEW s \in Session
  PROVE  /\ EnsureId(r, s) \in Session
         /\ EnsureId(r, s).flow = s.flow /\ EnsureId(r, s).user = s.user
         /\ EnsureId(r, s).id # None
         /\ s.id # None => EnsureId(r, s).id = s.id
BY DEF EnsureId, Session

(* A request that has its user in the database keeps its session. *)
LEMMA ResolvedFacts ==
  ASSUME NEW s \in Session, Sound(s)
  PROVE  Resolved(s) = s
BY DEF Resolved, Sound

(* Nobody is signed in to an empty session. *)
LEMMA EmptyFacts == Empty \in Session /\ Empty.user = None /\ Sound(Empty)
BY DEF Empty, Session, Sound

-----------------------------------------------------------------------------
(* The initial states. *)
LEMMA Start == Init => IInv
<1> SUFFICES ASSUME Init PROVE IInv
  OBVIOUS
<1> USE DEF Init
<1>1. TypeOK
  <2>1. [kind |-> "page", flow |-> None, who |-> None, carried |-> Empty, standing |-> None,
         out |-> FALSE] \in Request
    BY EmptyFacts DEF Request, Kinds
  <2> QED BY <2>1, EmptyFacts DEF TypeOK, Places
<1>2. SessionsSound
  BY EmptyFacts DEF SessionsSound
<1>3. Carried /\ Changed
  BY DEF Carried, Changed, Kind
<1> QED BY <1>1, <1>2, <1>3 DEF IInv

(* A new request carries the session of the browser. *)
LEMMA SendStep ==
  ASSUME IInv, NEW r \in Reqs, NEW k \in Kinds, NEW f \in Reqs \cup {None},
         NEW u \in Users \cup {None}, k = "callback" => f # None /\ u # None,
         Send(r, k, f, u)
  PROVE  IInv'
<1> DEFINE new == [kind |-> k, flow |-> f, who |-> u, carried |-> cookie,
                   standing |-> standing, out |-> out]
<1> USE DEF IInv, TypeOK, tables
<1>1. /\ req' = [req EXCEPT ![r] = new] /\ session' = [session EXCEPT ![r] = cookie]
      /\ pc' = [pc EXCEPT ![r] = "sent"] /\ UNCHANGED <<cookie, known, audit, standing, out>>
  BY DEF Send
<1> HIDE DEF new
<1>2. new \in Request
  BY DEF new, Request
<1>3. /\ new.carried = cookie /\ new.standing = standing /\ new.out = out
      /\ new.kind = k /\ new.flow = f /\ new.who = u
  BY DEF new
<1>4. TypeOK'
  BY <1>1, <1>2 DEF Places, AtWork
<1>5. SessionsSound'
  BY <1>1, <1>3 DEF SessionsSound, Sound, Audited
<1>6. Carried'
  BY <1>1, <1>3 DEF Carried, Kind
<1>7. Changed'
  BY <1>1, <1>3 DEF Changed, Kind
<1> QED BY <1>4, <1>5, <1>6, <1>7

(* The server works on a request: it reaches p with the session s, which   *)
(* has changed as far as p allows; the tables grow, and s is sound.        *)
LEMMA ReachStep ==
  ASSUME IInv, NEW r \in Reqs, NEW p \in Places \ {"sent"}, NEW s \in Session,
         Reach(r, p, s),
         known \subseteq known', known' \subseteq Users,
         audit \subseteq audit', audit' \subseteq Event,
         \A e \in audit' : Audited(e.id, e.user)',
         Sound(s)',
         p = "ok" /\ Kind(r) = "page" => s = req[r].carried,
         p = "ok" /\ Kind(r) = "login" => s.flow = r /\ s.user = req[r].carried.user,
         p = "ok" /\ Kind(r) = "logout" => s = Empty,
         p \in {"exchange", "upsert", "audit", "refused", "denied"} =>
           Kind(r) = "callback" /\ s.user = req[r].carried.user,
         p = "audit" => req[r].who \in known',
         p = "refused" => req[r].standing # req[r].flow
  PROVE  IInv'
<1> USE DEF IInv, TypeOK
<1>1. /\ pc' = [pc EXCEPT ![r] = p] /\ session' = [session EXCEPT ![r] = s]
      /\ UNCHANGED <<req, cookie, standing, out>>
  BY DEF Reach, browser
<1>2. TypeOK'
  BY <1>1
<1>3. ASSUME NEW x, Sound(x) PROVE Sound(x)'
  BY <1>3 DEF Sound, Audited
<1>4. SessionsSound'
  <2>1. Sound(cookie)'
    BY <1>1, <1>3 DEF SessionsSound, Sound, Audited
  <2>2. ASSUME NEW q \in Reqs PROVE Sound(session[q])' /\ Sound(req[q].carried)'
    <3>1. Sound(req[q].carried)'
      BY <1>1, <1>3 DEF SessionsSound, Sound, Audited
    <3>2. CASE q = r
      BY <1>1, <3>1, <3>2 DEF Sound, Audited
    <3>3. CASE q # r
      BY <1>1, <3>1, <3>3 DEF SessionsSound, Sound, Audited
    <3> QED BY <3>2, <3>3
  <2> QED BY <2>1, <2>2 DEF SessionsSound
<1>5. Carried'
  BY <1>1 DEF Carried, Kind
<1>6. Changed'
  BY <1>1 DEF Changed, Kind
<1> QED BY <1>2, <1>4, <1>5, <1>6

(* An answer arrives: the browser has what the request carried, or what it *)
(* had already, unless the request may change it.                          *)
LEMMA ReceiveStep == ASSUME IInv, NEW r \in Reqs, Receive(r) PROVE IInv'
<1> USE DEF IInv, TypeOK
<1>1. /\ pc[r] \in Answers /\ pc' = [pc EXCEPT ![r] = "answered"]
      /\ cookie' = session[r] \/ (cookie' = cookie /\ ~Changes(r))
      /\ UNCHANGED <<req, session, known, audit>>
  BY DEF Receive, tables
<1>2. Kind(r) \in Kinds
  BY DEF Kind, Request
<1>3. TypeOK'
  BY <1>1 DEF Receive, Places, Answers
<1>4. SessionsSound'
  BY <1>1 DEF SessionsSound, Sound, Audited
<1>5. Changed'
  BY <1>1 DEF Changed, Kind
<1>6. standing' # None => cookie'.flow = standing'
  <2>1. CASE Kind(r) = "login"
    <3>1. pc[r] = "ok" /\ session[r].flow = r
      BY <1>1, <2>1 DEF Changed, Answers
    <3>2. standing' = r
      BY <2>1 DEF Receive
    <3>3. Changes(r)
      BY <2>1 DEF Changes
    <3> QED BY <1>1, <3>1, <3>2, <3>3
  <2>2. CASE Kind(r) = "page" /\ req[r].standing = standing
    <3>1. standing' = standing
      BY <2>2 DEF Receive, Disturbs
    <3>2. session[r] = req[r].carried
      BY <1>1, <2>2 DEF Changed, Answers
    <3> QED BY <1>1, <2>2, <3>1, <3>2 DEF Carried
  <2>3. CASE Kind(r) # "login" /\ ~(Kind(r) = "page" /\ req[r].standing = standing)
    BY <2>3 DEF Receive, Disturbs
  <2> QED BY <2>1, <2>2, <2>3
<1>7. out' => cookie'.user = None
  <2>1. CASE Kind(r) = "logout"
    BY <1>1, <2>1, EmptyFacts DEF Changed, Answers, Changes
  <2>2. CASE Kind(r) = "callback" /\ pc[r] = "ok"
    BY <2>2 DEF Receive, SignsIn
  <2>3. CASE Kind(r) # "logout" /\ ~(Kind(r) = "callback" /\ pc[r] = "ok")
    <3>1. out' = (out /\ req[r].out)
      BY <2>3 DEF Receive, SignsIn
    <3>2. session[r].user = req[r].carried.user
      BY <1>1, <1>2, <2>3 DEF Changed, Answers, Kinds
    <3> QED BY <1>1, <3>1, <3>2 DEF Carried
  <2> QED BY <2>1, <2>2, <2>3
<1>8. Carried'
  BY <1>1, <1>6, <1>7 DEF Carried, Kind
<1> QED BY <1>3, <1>4, <1>5, <1>8

(* Every action keeps the invariant. *)
THEOREM Invariant == Spec => []IInv
<1>1. ASSUME IInv, [Next]_vars PROVE IInv'
  <2> USE <1>1
  <2>1. CASE UNCHANGED vars
    BY <2>1 DEF vars, tables, IInv, TypeOK, SessionsSound, Sound, Audited, Carried, Changed,
                Kind
  <2>2. ASSUME NEW r \in Reqs, NEW k \in Kinds \ {"callback"}, Send(r, k, None, None)
        PROVE  IInv'
    BY <2>2, SendStep
  <2>3. ASSUME NEW r \in Reqs, NEW f \in Reqs, NEW u \in Users, SendCallback(r, f, u)
        PROVE  IInv'
    BY <2>3, SendStep DEF SendCallback, Kinds
  <2>4. ASSUME NEW r \in Reqs PROVE session[r] \in Session /\ Sound(session[r])
    BY <2>4 DEF IInv, TypeOK, SessionsSound
  <2>5. ASSUME NEW r \in Reqs, UNCHANGED tables
        PROVE  /\ known \subseteq known' /\ known' \subseteq Users
               /\ audit \subseteq audit' /\ audit' \subseteq Event
               /\ \A e \in audit' : Audited(e.id, e.user)'
               /\ \A s : Sound(s) => Sound(s)'
    BY <2>5 DEF IInv, TypeOK, SessionsSound, tables, Sound, Audited
  <2>6. ASSUME NEW r \in Reqs, Login(r) PROVE IInv'
    <3> DEFINE s == [session[r] EXCEPT !.flow = r]
    <3>1. /\ s \in Session /\ s.flow = r /\ s.user = session[r].user
          /\ s.id = session[r].id
      BY <2>4 DEF Session
    <3>2. session[r] = req[r].carried /\ Kind(r) = "login"
      BY <2>6 DEF Login, IInv, Changed
    <3>3. Sound(EnsureId(r, s))
      BY <2>4, <3>1, EnsureIdFacts DEF Sound
    <3>4. Reach(r, "ok", EnsureId(r, s)) /\ UNCHANGED tables /\ "ok" \in Places \ {"sent"}
      BY <2>6 DEF Login, Places, Answers
    <3>5. /\ EnsureId(r, s) \in Session /\ EnsureId(r, s).flow = r
          /\ EnsureId(r, s).user = req[r].carried.user
      BY <3>1, <3>2, EnsureIdFacts
    <3> HIDE DEF s
    <3> QED BY <3>2, <3>3, <3>4, <3>5, <2>5, ReachStep
  <2>7. ASSUME NEW r \in Reqs, CheckState(r) PROVE IInv'
    <3> DEFINE s == Popped(session[r])
               p == IF session[r].flow = req[r].flow THEN "exchange" ELSE "refused"
    <3>1. s \in Session /\ s.user = session[r].user /\ s.id = session[r].id
      BY <2>4 DEF Popped, Session
    <3>2. session[r] = req[r].carried /\ Kind(r) = "callback"
      BY <2>7 DEF CheckState, IInv, Changed
    <3>3. Sound(s)
      BY <2>4, <3>1 DEF Sound
    <3>4. Reach(r, p, s) /\ UNCHANGED tables
      BY <2>7 DEF CheckState
    <3>5. p \in Places \ {"sent"} /\ p \in {"exchange", "refused"}
      BY DEF Places, AtWork, Answers
    <3>6. p = "refused" => req[r].standing # req[r].flow
      BY <3>2 DEF IInv, Carried
    <3> HIDE DEF s, p
    <3> QED BY <3>1, <3>2, <3>3, <3>4, <3>5, <3>6, <2>5, ReachStep
  <2>8. ASSUME NEW r \in Reqs, Exchange(r) PROVE IInv'
    <3>1. PICK p \in {"upsert", "denied"} : Reach(r, p, session[r])
      BY <2>8 DEF Exchange
    <3>2. Kind(r) = "callback" /\ session[r].user = req[r].carried.user
      BY <2>8 DEF Exchange, IInv, Changed
    <3>3. p \in Places \ {"sent"} /\ UNCHANGED tables
      BY <2>8 DEF Exchange, Places, AtWork, Answers
    <3> QED BY <3>1, <3>2, <3>3, <2>4, <2>5, ReachStep
  <2>9. ASSUME NEW r \in Reqs, Upsert(r) PROVE IInv'
    <3>1. Kind(r) = "callback" /\ session[r].user = req[r].carried.user
      BY <2>9 DEF Upsert, IInv, Changed
    <3>2. req[r].who \in Users
      BY <3>1 DEF IInv, Carried, TypeOK, Request
    <3>3. /\ known \subseteq known' /\ known' \subseteq Users /\ req[r].who \in known'
          /\ audit' = audit /\ Reach(r, "audit", session[r])
          /\ "audit" \in Places \ {"sent"}
      BY <2>9, <3>2 DEF Upsert, IInv, TypeOK, Places, AtWork
    <3>4. /\ audit \subseteq audit' /\ audit' \subseteq Event
          /\ \A e \in audit' : Audited(e.id, e.user)'
          /\ \A s : Sound(s) => Sound(s)'
      BY <3>3 DEF IInv, TypeOK, SessionsSound, Sound, Audited
    <3> QED BY <3>1, <3>3, <3>4, <2>4, ReachStep
  <2>10. ASSUME NEW r \in Reqs, Audit(r) PROVE IInv'
    <3> DEFINE t == EnsureId(r, session[r])
               s == SignedIn(r, t)
               e0 == [type |-> "login_success", id |-> t.id, user |-> req[r].who]
    <3>1. Kind(r) = "callback" /\ req[r].who \in known
      BY <2>10 DEF Audit, IInv, Changed
    <3>2. req[r].who \in Users
      BY <3>1 DEF IInv, TypeOK
    <3>3. t \in Session /\ t.id # None
      BY <2>4, EnsureIdFacts
    <3>4. s \in Session /\ s.user = req[r].who /\ s.id = t.id
      BY <3>2, <3>3 DEF SignedIn, Session
    <3>5. e0 \in Event /\ e0.id = t.id /\ e0.user = req[r].who
      BY <3>2, <3>3 DEF Event, Session
    <3>6. /\ audit' = audit \cup {e0} /\ known' = known /\ Reach(r, "ok", s)
          /\ "ok" \in Places \ {"sent"}
      BY <2>10 DEF Audit, Places, Answers
    <3>7. \A i, u : i = t.id /\ u = req[r].who => Audited(i, u)'
      BY <3>6 DEF Audited
    <3>8. /\ audit \subseteq audit' /\ audit' \subseteq Event
          /\ known \subseteq known' /\ known' \subseteq Users
      BY <3>5, <3>6 DEF IInv, TypeOK
    <3>9. \A e \in audit' : Audited(e.id, e.user)'
      BY <3>5, <3>6 DEF IInv, SessionsSound, Audited
    <3>10. \A x : x = s => Sound(x)'
      BY <3>1, <3>3, <3>4, <3>6, <3>7 DEF Sound
    <3> HIDE DEF s
    <3> QED BY <3>1, <3>4, <3>6, <3>8, <3>9, <3>10, ReachStep
  <2>11. ASSUME NEW r \in Reqs, Logout(r) PROVE IInv'
    <3> DEFINE s == EnsureId(r, session[r])
               e0 == [type |-> "logout", id |-> s.id, user |-> s.user]
    <3>1. Resolved(session[r]) = session[r]
      BY <2>4, ResolvedFacts
    <3>2. /\ audit' = (IF s.user = None THEN audit ELSE audit \cup {e0}) /\ known' = known
          /\ Reach(r, "ok", Empty) /\ "ok" \in Places \ {"sent"} /\ Kind(r) = "logout"
      BY <2>11, <3>1 DEF Logout, Cleared, Places, Answers
    <3>3. s \in Session /\ s.user = session[r].user /\ (s.user # None => s.id = session[r].id)
      BY <2>4, EnsureIdFacts DEF Sound
    <3>4. e0 \in Event /\ e0.id = s.id /\ e0.user = s.user
      BY <3>3 DEF Event, Session
    <3>5. s.user # None => Audited(s.id, s.user)
      BY <2>4, <3>3 DEF Sound
    <3> HIDE DEF s, e0
    <3>6. /\ audit \subseteq audit' /\ audit' \subseteq Event
          /\ known \subseteq known' /\ known' \subseteq Users
      BY <3>2, <3>4 DEF IInv, TypeOK
    <3>7. \A e \in audit' : Audited(e.id, e.user)'
      BY <3>2, <3>4, <3>5 DEF IInv, SessionsSound, Audited
    <3>8. Sound(Empty)'
      BY EmptyFacts DEF Sound
    <3> QED BY <3>2, <3>6, <3>7, <3>8, EmptyFacts, ReachStep
  <2>12. ASSUME NEW r \in Reqs, Page(r) PROVE IInv'
    <3>1. Resolved(session[r]) = session[r]
      BY <2>4, ResolvedFacts
    <3>2. /\ Reach(r, "ok", session[r]) /\ "ok" \in Places \ {"sent"} /\ UNCHANGED tables
          /\ Kind(r) = "page" /\ session[r] = req[r].carried
      BY <2>12, <3>1 DEF Page, IInv, Changed, Places, Answers
    <3> QED BY <3>2, <2>4, <2>5, ReachStep
  <2>13. ASSUME NEW r \in Reqs, Lose(r) PROVE IInv'
    <3>1. pc' = [pc EXCEPT ![r] = "lost"] /\ UNCHANGED <<session, browser, tables>>
      BY <2>13 DEF Lose
    <3> QED BY <3>1 DEF browser, tables, IInv, TypeOK, Places, SessionsSound, Sound, Audited,
                        Carried, Changed, Kind
  <2>14. ASSUME NEW r \in Reqs, Receive(r) PROVE IInv'
    BY <2>14, ReceiveStep
  <2> QED BY <2>1, <2>2, <2>3, <2>6, <2>7, <2>8, <2>9, <2>10, <2>11, <2>12, <2>13, <2>14
          DEF Next
<1> QED BY <1>1, Start, PTL DEF Spec

-----------------------------------------------------------------------------
(* What follows. *)

(* Sessions keeps its types for any number of requests and users. *)
THEOREM TypeCorrect == Spec => []TypeOK
<1>1. IInv => TypeOK
  BY DEF IInv
<1> QED BY <1>1, Invariant, PTL

(* Nobody is refused for the state of a login that nothing disturbed. *)
THEOREM LoginsComplete == Spec => []LoginCompletes
<1>1. IInv => LoginCompletes
  BY DEF IInv, Changed, LoginCompletes
<1> QED BY <1>1, Invariant, PTL

(* A logout is undone by a callback, or by requests that overlapped it. *)
THEOREM LogoutsStick == Spec => []LogoutSticks
<1>1. IInv => LogoutSticks
  BY DEF IInv, Carried, LogoutSticks
<1> QED BY <1>1, Invariant, PTL

(* The audit knows every sign-in of a session, and every logout's. *)
THEOREM TrailComplete == Spec => []AuditTrail
<1>1. IInv => AuditTrail
  BY DEF IInv, SessionsSound, Sound, AuditTrail
<1> QED BY <1>1, Invariant, PTL
=============================================================================
