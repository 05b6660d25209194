------------------------------ MODULE Trigger ------------------------------
(***************************************************************************)
(* What the owner of a trigger gets from a timer: the trigger is called     *)
(* while it is armed, one call at a time; a cancellation lets a call that   *)
(* has begun return and lets no other begin, and is over when none runs.    *)
(* SDKTimer implements it.                                                  *)
(***************************************************************************)
VARIABLES
    phase,    \* "off", "armed", or "cancelled" from the request to its return
    calling   \* the trigger is running

vars == <<phase, calling>>

Init == phase = "off" /\ calling = FALSE

Arm == phase = "off" /\ phase' = "armed" /\ UNCHANGED calling

Call == phase = "armed" /\ calling = FALSE /\ calling' = TRUE /\ UNCHANGED phase

Return == calling = TRUE /\ calling' = FALSE /\ UNCHANGED phase

Cancel == phase = "armed" /\ phase' = "cancelled" /\ UNCHANGED calling

CancelReturns == phase = "cancelled" /\ calling = FALSE /\ phase' = "off" /\ UNCHANGED calling

Next == Arm \/ Call \/ Return \/ Cancel \/ CancelReturns

Spec == Init /\ [][Next]_vars

=============================================================================
