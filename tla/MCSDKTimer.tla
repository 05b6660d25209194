---------------------------- MODULE MCSDKTimer ----------------------------
(* Model checking SDKTimer: as many starts at a time as ids are given.  Two  *)
(* are enough for a logout and the next login, whose objects must not be    *)
(* mistaken for the old ones; a third is cheap.  With LoginFails two starts  *)
(* show a trigger that runs on after the next user's logout.                 *)
EXTENDS SDKTimer

===========================================================================
