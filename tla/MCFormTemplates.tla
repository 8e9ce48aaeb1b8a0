-------------------------- MODULE MCFormTemplates --------------------------
(* Three administrators save under one key, a fourth under another; each   *)
(* key starts with the seeded template or without one.                     *)
EXTENDS FormTemplates, TLC

CONSTANTS c1, c2, c3, c4, k1, k2

MCKeyOf == (c1 :> k1) @@ (c2 :> k1) @@ (c3 :> k1) @@ (c4 :> k2)
=============================================================================
