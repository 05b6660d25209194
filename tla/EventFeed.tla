------------------------------ MODULE EventFeed ------------------------------
(***************************************************************************)
(* What the event queue promises the clients of the SDK: the events of a    *)
(* session are passed to the callback of that session in the order they     *)
(* were posted, one at a time and each at most once; only the oldest is     *)
(* lost, and only when Capacity events wait; and a client that has          *)
(* cancelled its callback is not called, from then on.                      *)
(***************************************************************************)
EXTENDS Naturals, Sequences

CONSTANTS
    Sessions,   \* the sessions
    Events,     \* the events
    SessionOf,  \* the session of an event
    Capacity,   \* how many events wait at most
    Null        \* no event

VARIABLES
    waiting,    \* the events that were posted and not looked at
    now,        \* the event that is looked at, or Null
    told,       \* it is being told to the client
    registered  \* the sessions with a callback

vars == <<waiting, now, told, registered>>

Init ==
    /\ waiting = << >> /\ now = Null /\ told = FALSE
    /\ registered = {}

Post(e) ==
    /\ waiting' = Append(IF Len(waiting) < Capacity THEN waiting ELSE Tail(waiting), e)
    /\ UNCHANGED <<now, told, registered>>

Take ==
    /\ now = Null /\ waiting # << >>
    /\ now' = Head(waiting) /\ waiting' = Tail(waiting)
    /\ UNCHANGED <<told, registered>>

Tell ==
    /\ now # Null /\ ~told /\ SessionOf[now] \in registered
    /\ told' = TRUE
    /\ UNCHANGED <<waiting, now, registered>>

\* The client has returned, or the event was not for it.
Finish ==
    /\ now # Null
    /\ now' = Null /\ told' = FALSE
    /\ UNCHANGED <<waiting, registered>>

\* An event that comes too early is posted once more, behind the others.
PutBack ==
    /\ now # Null /\ ~told
    /\ waiting' = Append(IF Len(waiting) < Capacity THEN waiting ELSE Tail(waiting), now)
    /\ now' = Null
    /\ UNCHANGED <<told, registered>>

\* A callback is set or cancelled, never while it is called.
Register(s) ==
    /\ told => SessionOf[now] # s
    /\ registered' \in {registered \union {s}, registered \ {s}}
    /\ UNCHANGED <<waiting, now, told>>

Next ==
    \/ Take \/ Tell \/ Finish \/ PutBack
    \/ \E e \in Events : Post(e)
    \/ \E s \in Sessions : Register(s)

Spec == Init /\ [][Next]_vars

=============================================================================
