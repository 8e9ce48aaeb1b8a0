---------------------------- MODULE MCUpsertState ----------------------------
(* Three transactions, each with any of seven answers of the ERP: three    *)
(* about one coversheet (before and after it moved to another project, and *)
(* one listing the reviewers the other way round), one about another       *)
(* coversheet that shares their contacts, and three that are refused.      *)
EXTENDS UpsertState, SequencesExt, TLC

CONSTANTS t1, t2, t3, q1, q2, p1, p2, p3, w1, w2, w3, a, b, x

NoOne == [id |-> None, email |-> None]
Has(c) == [id |-> c, email |-> c]
Mail(c) == [id |-> None, email |-> c]

Answer(q, p, w, pm, rs, cs) ==
  [qc |-> q, pep |-> p, wbs |-> w, pm |-> pm, pp |-> NoOne, reviewers |-> rs,
   codes |-> cs, complete |-> TRUE]

First   == Answer(q1, p1, w1, NoOne, <<Has(a), Has(b), Mail(a)>>, <<x>>)
Moved   == Answer(q1, p2, w2, NoOne, <<>>, <<>>)
Renamed == Answer(q1, p2, w1, NoOne, <<Has(b), NoOne, Has(a)>>, <<>>)
Other   == Answer(q2, p3, w3, Mail(a), <<Has(b)>>, <<x>>)
NoMail  == Answer(q2, p3, w3, [id |-> b, email |-> None], <<>>, <<>>)
NoDate  == [Answer(q1, p1, w1, Has(a), <<>>, <<>>) EXCEPT !.complete = FALSE]
NoIds   == Answer(q1, None, w1, NoOne, <<>>, <<>>)

MCSeq == <<First, Moved, Renamed, Other, NoMail, NoDate, NoIds>>
MCPayloads == ToSet(MCSeq)
MCOrder == (<<"contact", a>> :> 1) @@ (<<"contact", b>> :> 2) @@ (<<"discipline", x>> :> 3)

(* The transactions differ in nothing but their payload: it is enough to   *)
(* give them the payloads in one order.                                    *)
Before(p, q) == \E i, j \in DOMAIN MCSeq : i <= j /\ p = MCSeq[i] /\ q = MCSeq[j]
MCInit == Init /\ Before(payload[t1], payload[t2]) /\ Before(payload[t2], payload[t3])
MCSpec == MCInit /\ [][Next]_vars /\ Fairness
=============================================================================
