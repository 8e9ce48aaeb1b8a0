---------------------------- MODULE MCUserAccess -----------------------------
(* Three users, two of them administrators, one yet to log in, and three   *)
(* requests of one of the mixes below.                                     *)
EXTENDS UserAccess, Sequences, FiniteSets, TLC

CONSTANTS r1, r2, r3, ann, ben, eve

Login(u, ns)  == [kind |-> "login", by |-> u, user |-> u, names |-> ns, active |-> Keep,
                  approved |-> Keep]
Put(a, u, ns) == [kind |-> "put", by |-> a, user |-> u, names |-> ns, active |-> Keep,
                  approved |-> TRUE]
Bootstrap(u)  == [kind |-> "bootstrap", by |-> u, user |-> u, names |-> {}, active |-> Keep,
                  approved |-> Keep]

(* Any three of these. *)
MCSeq == <<Put(ann, ben, {"reviewer", "user"}), Put(ben, ann, {}), Put(ann, ann, {"user"}),
           [Put(ben, ben, {"admin"}) EXCEPT !.active = FALSE], Put(ann, eve, {"admin"}),
           Put(ann, ben, {"owner"}),
           [Put(ann, eve, {"reviewer", "user"}) EXCEPT !.active = FALSE],
           Login(ben, {"admin", "reviewer", "user"}), Login(eve, {"reviewer", "owner"}),
           Bootstrap(ben), Bootstrap(eve)>>
MCJobs == {MCSeq[i] : i \in DOMAIN MCSeq}
MCRank == ("admin" :> 1) @@ ("reviewer" :> 2) @@ ("user" :> 3)

Was(k, ns) == [known |-> k, active |-> k, approved |-> k, roles |-> ns]
MCStart == (ann :> Was(TRUE, {"admin"})) @@ (ben :> Was(TRUE, {"admin", "user"}))
           @@ (eve :> Was(FALSE, {}))

(* The requests differ in nothing but their job: it is enough to give them *)
(* the jobs in one order.                                                  *)
Before(p, q) == \E i, j \in DOMAIN MCSeq : i <= j /\ p = MCSeq[i] /\ q = MCSeq[j]
MCInit == Init /\ Before(job[r1], job[r2]) /\ Before(job[r2], job[r3])
MCSpec == MCInit /\ [][Next]_vars /\ Fairness
=============================================================================
