------------------------------- MODULE Sessions -------------------------------
(***************************************************************************)
(* The session of one browser: signing in through Entra and signing out.   *)
(* The server keeps no session.  SessionMiddleware gives each request the  *)
(* session that came with it, in a cookie, and sends it back whole with    *)
(* the answer, so that requests which overlap undo each other's changes.   *)
(*   login     GET /auth/login, which sends the browser to Entra           *)
(*   callback  GET /auth/callback, where Entra sends it back               *)
(*   logout    POST /auth/logout                                           *)
(*   page      any other request; it reads the session                     *)
(*                                                                         *)
(* A request is answered once, so it also names what is drawn at random on *)
(* its behalf: the state and nonce of a login, the id of a session.        *)
(***************************************************************************)
CONSTANTS
  Reqs,   \* requests
  Users,  \* users
  None    \* no request, no user

ASSUME NoneFresh == None \notin Reqs \cup Users

VARIABLES
  pc,        \* where each request is
  req,       \* what it is, and what the browser was like when it was sent
  session,   \* its session, while the server works on it
  cookie,    \* the session that the browser has
  known,     \* app_user
  audit,     \* app_session_audit
  standing,  \* the login that no answer has disturbed since its own arrived
  out        \* no answer has disturbed a logout since its own arrived

vars == <<pc, req, session, cookie, known, audit, standing, out>>
tables == <<known, audit>>
browser == <<req, cookie, standing, out>>

Kinds   == {"login", "callback", "logout", "page"}
AtWork  == {"sent", "exchange", "upsert", "audit"}
Answers == {"ok", "refused", "denied"}
Session == [flow : Reqs \cup {None}, user : Users \cup {None}, id : Reqs \cup {None}]
Request ==
  [kind : Kinds, flow : Reqs \cup {None}, who : Users \cup {None}, carried : Session,
   standing : Reqs \cup {None}, out : BOOLEAN]
Event == [type : {"login_success", "logout"}, id : Reqs \cup {None}, user : Users \cup {None}]

Empty == [flow |-> None, user |-> None, id |-> None]
Kind(r) == req[r].kind

Init ==
  /\ pc = [r \in Reqs |-> "unsent"]
  /\ req = [r \in Reqs |-> [kind |-> "page", flow |-> None, who |-> None, carried |-> Empty,
                            standing |-> None, out |-> FALSE]]
  /\ session = [r \in Reqs |-> Empty]
  /\ cookie = Empty
  /\ known = {}
  /\ audit = {}
  /\ standing = None
  /\ out = FALSE

(* The browser sends k; a callback is for the login f and for the account  *)
(* u, which the user chose at Entra.                                       *)
Send(r, k, f, u) ==
  /\ pc[r] = "unsent"
  /\ pc' = [pc EXCEPT ![r] = "sent"]
  /\ req' = [req EXCEPT ![r] = [kind |-> k, flow |-> f, who |-> u, carried |-> cookie,
                                standing |-> standing, out |-> out]]
  /\ session' = [session EXCEPT ![r] = cookie]
  /\ UNCHANGED <<cookie, tables, standing, out>>

SendCallback(r, f, u) ==
  /\ pc[f] = "answered" /\ Kind(f) = "login"
  /\ Send(r, "callback", f, u)

(* r reaches p with the session s. *)
Reach(r, p, s) ==
  /\ pc' = [pc EXCEPT ![r] = p]
  /\ session' = [session EXCEPT ![r] = s]
  /\ UNCHANGED browser

-----------------------------------------------------------------------------
(* Faulty variants of what is below, not part of Spec: with one of them in *)
(* place of the original, a property fails.                                *)

(* Every login starts a session of its own. *)
EnsureIdAlways(r, s) == [s EXCEPT !.id = r]

(* The session is cleared for whoever is not signed in. *)
ResolvedAnonymous(s) == IF s.user \in known THEN s ELSE Empty

(* Signing out forgets a pending login, and not the user. *)
ClearedFlow(s) == [s EXCEPT !.flow = None]

-----------------------------------------------------------------------------
(* ensure_session_id, resolve_optional_user, pop_auth_flow,                *)
(* clear_user_session, store_user_session.                                 *)
EnsureId(r, s) == IF s.id = None THEN [s EXCEPT !.id = r] ELSE s
Resolved(s) == IF s.user \in known \cup {None} THEN s ELSE Empty
Popped(s) == [s EXCEPT !.flow = None]
Cleared(s) == Empty
SignedIn(r, s) == [s EXCEPT !.user = req[r].who]

Login(r) ==
  /\ pc[r] = "sent" /\ Kind(r) = "login"
  /\ Reach(r, "ok", EnsureId(r, [session[r] EXCEPT !.flow = r]))
  /\ UNCHANGED tables

(* Another login's callback, or one whose login is forgotten, is refused;  *)
(* the state is forgotten either way.  The nonce comes and goes with it.   *)
CheckState(r) ==
  /\ pc[r] = "sent" /\ Kind(r) = "callback"
  /\ Reach(r, IF session[r].flow = req[r].flow THEN "exchange" ELSE "refused",
           Popped(session[r]))
  /\ UNCHANGED tables

(* exchange_code_for_id_token and validate_id_token_claims: the code may be *)
(* used or too old, the token expired, and that is a 401 too.              *)
Exchange(r) ==
  /\ pc[r] = "exchange"
  /\ \E p \in {"upsert", "denied"} : Reach(r, p, session[r])
  /\ UNCHANGED tables

(* upsert_app_user and sync_entra_roles, which UserAccess details. *)
Upsert(r) ==
  /\ pc[r] = "upsert"
  /\ Reach(r, "audit", session[r])
  /\ known' = known \cup {req[r].who}
  /\ audit' = audit

(* log_session_event, and store_user_session. *)
Audit(r) ==
  /\ pc[r] = "audit"
  /\ LET s == EnsureId(r, session[r])
     IN /\ audit' = audit \cup {[type |-> "login_success", id |-> s.id, user |-> req[r].who]}
        /\ Reach(r, "ok", SignedIn(r, s))
  /\ known' = known

Logout(r) ==
  /\ pc[r] = "sent" /\ Kind(r) = "logout"
  /\ LET s == EnsureId(r, Resolved(session[r]))
     IN audit' = IF s.user = None THEN audit
                 ELSE audit \cup {[type |-> "logout", id |-> s.id, user |-> s.user]}
  /\ Reach(r, "ok", Cleared(session[r]))
  /\ known' = known

Page(r) ==
  /\ pc[r] = "sent" /\ Kind(r) = "page"
  /\ Reach(r, "ok", Resolved(session[r]))
  /\ UNCHANGED tables

(* An exception that nothing catches is answered without a cookie; the     *)
(* browser gives up; the server stops.                                     *)
Lose(r) ==
  /\ pc[r] \in AtWork \cup Answers
  /\ pc' = [pc EXCEPT ![r] = "lost"]
  /\ UNCHANGED <<session, browser, tables>>

(* SessionMiddleware sends the session with the answer, or deletes the     *)
(* cookie if the session has become empty.  A session that has not changed *)
(* is sent again by some of its versions; an empty one is not.  Logout     *)
(* deletes the cookie in any case.                                         *)
Changes(r) == session[r] # req[r].carried \/ Kind(r) \in {"login", "logout"}
Sends(r) == session[r] # Empty \/ Changes(r)

Disturbs(r) == Kind(r) # "page" \/ req[r].standing # standing
SignsIn(r) == Kind(r) = "callback" /\ pc[r] = "ok"

Receive(r) ==
  /\ pc[r] \in Answers
  /\ pc' = [pc EXCEPT ![r] = "answered"]
  /\ \/ Sends(r) /\ cookie' = session[r]
     \/ ~Changes(r) /\ cookie' = cookie
  /\ standing' = IF Kind(r) = "login" THEN r ELSE IF Disturbs(r) THEN None ELSE standing
  /\ out' = (~SignsIn(r) /\ (Kind(r) = "logout" \/ (out /\ req[r].out)))
  /\ UNCHANGED <<req, session, tables>>

Next ==
  \E r \in Reqs :
    \/ \E k \in Kinds \ {"callback"} : Send(r, k, None, None)
    \/ \E f \in Reqs, u \in Users : SendCallback(r, f, u)
    \/ Login(r) \/ CheckState(r) \/ Exchange(r) \/ Upsert(r) \/ Audit(r)
    \/ Logout(r) \/ Page(r) \/ Lose(r) \/ Receive(r)

Spec == Init /\ [][Next]_vars

-----------------------------------------------------------------------------
(* Properties. *)

Places == AtWork \cup Answers \cup {"unsent", "lost", "answered"}

TypeOK ==
  /\ pc \in [Reqs -> Places]
  /\ req \in [Reqs -> Request]
  /\ session \in [Reqs -> Session]
  /\ cookie \in Session
  /\ known \subseteq Users
  /\ audit \subseteq Event
  /\ standing \in Reqs \cup {None}
  /\ out \in BOOLEAN

(* "Invalid auth state" is said to no one who finished the login that he    *)
(* began last, if since its answer arrived none has arrived but those of   *)
(* pages asked for after it.  (A second tab's login, or the late answer of *)
(* a page, may bring it about.)                                            *)
LoginCompletes == \A r \in Reqs : pc[r] = "refused" => req[r].standing # req[r].flow

(* After a logout the browser is signed out until a callback signs it in,  *)
(* but for requests that overlapped the logout.                            *)
LogoutSticks == out => cookie.user = None

(* app_session_audit follows the sessions: whoever is signed in, or signs  *)
(* out, has a login_success under the session's id, whatever requests have *)
(* overlapped.                                                             *)
Audited(i, u) == [type |-> "login_success", id |-> i, user |-> u] \in audit
AuditTrail ==
  /\ cookie.user # None => Audited(cookie.id, cookie.user)
  /\ \A e \in audit : Audited(e.id, e.user)
=============================================================================
