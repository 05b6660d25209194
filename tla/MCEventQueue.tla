---------------------------- MODULE MCEventQueue ----------------------------
(* Model checking EventQueue.  With one session and two callbacks the event *)
(* thread meets a callback that was replaced, cancelled, or is the next      *)
(* login's; a queue of two is full while a third event is handled.           *)
EXTENDS EventQueue

===========================================================================
