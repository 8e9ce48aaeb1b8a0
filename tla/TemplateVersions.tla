-------------------------- MODULE TemplateVersions --------------------------
(***************************************************************************)
(* What the administration of form templates promises to the rest of the   *)
(* system: each template key has versions 1, 2, ..., latest, of which      *)
(* exactly the latest is active (version 0: the key has no template), and  *)
(* the only thing that happens to a key is that one more version becomes   *)
(* the latest.                                                             *)
(***************************************************************************)
EXTENDS Naturals

CONSTANT Keys       \* template_key values

VARIABLE latest     \* the newest version of each key, the active one

Init == latest \in [Keys -> {0, 1}]

Publish(k) == latest' = [latest EXCEPT ![k] = @ + 1]

Next == \E k \in Keys : Publish(k)

Spec == Init /\ [][Next]_latest
=============================================================================
