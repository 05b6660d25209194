---------------------------- MODULE MCLinkRelink ----------------------------
(* Model checking LinkRelink.  One other domain and two links to a server   *)
(* are enough for a link that is lost while its successor is being stored.  *)
EXTENDS LinkRelink, TLC

Symmetry == Permutations(Callers)

=============================================================================
