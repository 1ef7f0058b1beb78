------------------------- MODULE MCSocialPublishing -------------------------
(* Small instances of SocialPublishing. *)
EXTENDS SocialPublishing, TLC

RequestSymmetry == Permutations(Requests)
=============================================================================
