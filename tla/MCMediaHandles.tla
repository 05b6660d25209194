--------------------------- MODULE MCMediaHandles ---------------------------
(* Model checking MediaHandles: two threads of the client and the event      *)
(* thread over two objects, so that each has an object of its own or they    *)
(* meet at one.                                                              *)
EXTENDS MediaHandles
=============================================================================
