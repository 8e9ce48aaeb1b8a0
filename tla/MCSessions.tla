----------------------------- MODULE MCSessions ------------------------------
(* Five requests of one browser and two users.  Nothing must happen, so    *)
(* both are symmetric.                                                     *)
EXTENDS Sessions, TLC

CONSTANTS r1, r2, r3, r4, r5, ann, ben

MCSymmetry == Permutations({r1, r2, r3, r4, r5}) \cup Permutations({ann, ben})
=============================================================================
