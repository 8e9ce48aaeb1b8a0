-------------------------- MODULE MCReviewRequests --------------------------
(* Two reviewers, hence at most two requests; two submits by a reviewer,   *)
(* or one of them by an administrator; one template key with two versions. *)
EXTENDS ReviewRequests, TLC

CONSTANTS s1, s2, a, b, r1, r2

MCUserOf == (s1 :> a) @@ (s2 :> Admin)
MCSymmetry == Permutations({r1, r2})
=============================================================================
