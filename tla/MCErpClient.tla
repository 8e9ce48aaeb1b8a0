----------------------------- MODULE MCErpClient -----------------------------
(* Two calls that share the token.  The ERP issues tokens that live for    *)
(* less than MinLife, for MinLife, and for the margin more and longer.     *)
EXTENDS ErpClient

CONSTANTS f1, f2
=============================================================================
