-------------------------- MODULE MCNetChannelMgr --------------------------
(* Model checking NetChannelMgr: two media objects over a pool of three     *)
(* ports (11, 13 and 15), so that two UDP streams, which want four, exhaust *)
(* it; another program may hold port 13; the multicast group uses ports     *)
(* outside the pool's range.                                                *)
EXTENDS NetChannelMgr, TLC

Symmetry == Permutations(Media)

=============================================================================
