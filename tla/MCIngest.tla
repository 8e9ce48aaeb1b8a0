------------------------------ MODULE MCIngest ------------------------------
(* A small instance of Ingest: two deliveries of one event, the second     *)
(* about another coversheet, and one delivery of another event about the   *)
(* coversheet of the first, whose record is edited once.                   *)
EXTENDS Ingest, TLC

CONSTANTS d1, d2, d3, e1, e2, q1, q2

MCEventOf == (d1 :> e1) @@ (d2 :> e1) @@ (d3 :> e2)
MCQcOf == (d1 :> q1) @@ (d2 :> q2) @@ (d3 :> q1)
MCMaxEdits == (q1 :> 1) @@ (q2 :> 0)
=============================================================================
