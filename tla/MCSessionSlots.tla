---------------------------- MODULE MCSessionSlots ----------------------------
(* Model checking SessionSlots with two threads.  Two slots: a slot is taken *)
(* again while the other is in use, both are taken, and two logins meet; one *)
(* account logs in by password only, the other by ticket and as Windows user. *)
(* One slot for liveness, where every wait is for that slot.                  *)
EXTENDS SessionSlots

CONSTANTS a, b
AllLogins == {<<"pwd", a>>, <<"tkt", b>>, <<"win", b>>}

=============================================================================
