---------------------------- MODULE MCRtspSession ----------------------------
(* Model checking RtspSession.  Three requests are enough for SETUP, PLAY    *)
(* and a call that meets what they left behind; two callers for every race   *)
(* of two calls on one handle.                                              *)
EXTENDS RtspSession, TLC

Symmetry == Permutations(Callers)

=============================================================================
