----------------------------- MODULE PortLease -----------------------------
(***************************************************************************)
(* What the port pool promises the streams: a port is free or leased to one *)
(* stream, and goes from one stream to another only by being given back.    *)
(* A stream that has been set up gives back every port it was lent.  Before *)
(* that a start that fails forgets its ports, and a search may drop free    *)
(* ones: those are out of circulation for good.  NetChannelMgr implements   *)
(* it.                                                                      *)
(***************************************************************************)
CONSTANTS
    Ports,    \* the ports of the pool
    Streams   \* who may lease them

VARIABLES
    free,     \* the ports that can be leased
    lease,    \* the ports each stream has
    settled   \* the streams with ports whose set-up has succeeded

vars == <<free, lease, settled>>

AtMostOne(set) == \A p, q \in set : p = q

Init == free = Ports /\ lease = [s \in Streams |-> {}] /\ settled = {}

\* A search finds one port or none, for a stream that has one or none; what it drops is gone.
Search(s, found, dropped) ==
    /\ s \notin settled /\ AtMostOne(lease[s]) /\ AtMostOne(found)
    /\ found \subseteq free /\ dropped \subseteq free /\ found \intersect dropped = {}
    /\ free' = free \ (found \union dropped)
    /\ lease' = [lease EXCEPT ![s] = @ \union found]
    /\ settled' = settled

\* A start fails before it has been set up.
Forget(s) ==
    /\ s \notin settled
    /\ lease' = [lease EXCEPT ![s] = {}]
    /\ UNCHANGED <<free, settled>>

Settle(s) ==
    /\ lease[s] # {}
    /\ settled' = settled \union {s}
    /\ UNCHANGED <<free, lease>>

GiveBack(s, p) ==
    /\ s \in settled /\ p \in lease[s]
    /\ free' = free \union {p}
    /\ lease' = [lease EXCEPT ![s] = @ \ {p}]
    /\ settled' = IF lease[s] = {p} THEN settled \ {s} ELSE settled

Next ==
    \E s \in Streams :
        \/ \E found, dropped \in SUBSET free : Search(s, found, dropped)
        \/ Forget(s) \/ Settle(s)
        \/ \E p \in lease[s] : GiveBack(s, p)

Spec == Init /\ [][Next]_vars

=============================================================================
