---------------------------- MODULE MediaHandles ----------------------------
(***************************************************************************)
(* The stream handles of a user: CRealPlayMgr and CPlaybackMgr, whose        *)
(* objects start and stop a stream over the RTSP client and a net channel    *)
(* (CMediaBase), the thread that receives on the channel (CNetSource), and    *)
(* the event thread, which stops a live stream that has failed.  A handle is *)
(* the address of its object; live streams are deleted and allocated again,  *)
(* playbacks are kept and used again when they are free.                     *)
(***************************************************************************)
EXTENDS Integers

CONSTANTS
    Objects,        \* addresses of CRealPlay and CPlayback objects
    Clients,        \* threads of the client
    Event,          \* the event thread
    Null,
    Exceptions,     \* streams fail, and the RTSP client says so
    StartsRest      \* no stream is started on an object whose stop is not over

ASSUME HandleAssumption ==
    /\ Event \notin Clients
    /\ Null \notin Objects \union Clients \union {Event}
    /\ Exceptions \in BOOLEAN /\ StartsRest \in BOOLEAN

VARIABLES
    m_map,              \* the handles in m_HanleRealPlayMap and m_HanlePlayBackMap
    live,               \* the objects that are allocated
    kind,               \* CRealPlay or CPlayback
    m_RefCounter,
    busy,               \* MEDIA_STATUS_BUSY; the others are MEDIA_STATUS_FREE
    finished,           \* STATUS_FINISHED
    named,              \* m_ulHandle is the handle
    m_pMediaMutex,      \* who has it
    rtsp, net,          \* m_iRtspHandle, m_ulNetSourceChannel are not 0
    m_bRun,             \* the channel's receiving thread is to run
    receiver,           \* where it is
    opened,             \* the handles that a start has returned, and nobody has stopped
    events,             \* the handles in the events that wait
    pc                  \* where a thread is, and its object

vars == <<m_map, live, kind, m_RefCounter, busy, finished, named, m_pMediaMutex,
          rtsp, net, m_bRun, receiver, opened, events, pc>>

mapVars == <<m_map, live, kind, m_RefCounter>>
stateVars == <<busy, finished, named>>
streamVars == <<rtsp, net, m_bRun, receiver>>
useVars == <<opened, events>>

Kinds == {"realplay", "playback"}
Threads == Clients \union {Event}
Idle == [at |-> "idle", of |-> Null]

Init ==
    /\ m_map = {} /\ live = {}
    /\ kind = [o \in Objects |-> "realplay"]
    /\ m_RefCounter = [o \in Objects |-> 0]
    /\ busy = {} /\ finished = {} /\ named = {}
    /\ m_pMediaMutex = [o \in Objects |-> Null]
    /\ rtsp = {} /\ net = {} /\ m_bRun = {}
    /\ receiver = [o \in Objects |-> "none"]
    /\ opened = {} /\ events = {}
    /\ pc = [t \in Threads |-> Idle]

-----------------------------------------------------------------------------
(* Helpers *)

Goto(t, location, o) == pc' = [pc EXCEPT ![t] = [at |-> location, of |-> o]]
Return(t) == pc' = [pc EXCEPT ![t] = Idle]

\* A thread is about to use its object, which is there.
At(t, location, o) == pc[t] = [at |-> location, of |-> o] /\ o \in live

Lock(t, o) == m_pMediaMutex[o] = Null /\ m_pMediaMutex' = [m_pMediaMutex EXCEPT ![o] = t]
Unlock(o) == m_pMediaMutex' = [m_pMediaMutex EXCEPT ![o] = Null]

Rests(o) == \A t \in Threads : pc[t].of # o

\* The heap gives an address that no thread holds.  An object that is in no map, with
\* no stream and in nobody's hands is never seen again, so its name can be used again.
Fresh(o) ==
    /\ Rests(o)
    /\ o \in live => o \notin m_map \union opened \union rtsp \union net

FreeOnes(k) == {o \in m_map : kind[o] = k /\ o \notin busy}

-----------------------------------------------------------------------------
(* StartRealPlayCBRaw, StartPlatformPlayBackCB *)

\* GetFreeRealPlay and GetFreePlayback use a free object again ...
TakeFree(t, k) ==
    /\ pc[t].at = "idle"
    /\ \E o \in FreeOnes(k) :
         /\ StartsRest => Rests(o)
         /\ busy' = busy \union {o}
         /\ named' = named \union {o}
         /\ Goto(t, "lock", o)
    /\ UNCHANGED <<mapVars, finished, m_pMediaMutex, streamVars, useVars>>

\* ... or make one.
New(t, k) ==
    /\ pc[t].at = "idle" /\ FreeOnes(k) = {}
    /\ \E o \in Objects :
         /\ Fresh(o)
         /\ m_map' = m_map \union {o}
         /\ live' = live \union {o}
         /\ kind' = [kind EXCEPT ![o] = k]
         /\ m_RefCounter' = [m_RefCounter EXCEPT ![o] = 0]
         /\ busy' = busy \union {o}
         /\ finished' = finished \ {o}
         /\ named' = named \union {o}
         /\ Unlock(o)
         /\ Goto(t, "lock", o)
    /\ UNCHANGED <<streamVars, useVars>>

\* CMediaBase::StartPlay, after the server has named the stream.
StartPlay(t) == \E o \in Objects :
    /\ At(t, "lock", o)
    /\ \/ /\ Lock(t, o)
          /\ rtsp' = rtsp \union {o}
          /\ Goto(t, "setup", o)
       \/ /\ m_pMediaMutex[o] = Null
          /\ Goto(t, "failed", o)
          /\ UNCHANGED <<m_pMediaMutex, rtsp>>
    /\ UNCHANGED <<mapVars, stateVars, net, m_bRun, receiver, useVars>>

\* SETUP.  A stream over the RTSP connection has no channel.
Setup(t) == \E o \in Objects :
    /\ At(t, "setup", o)
    /\ \/ /\ net' = net \union {o}
          /\ m_bRun' = m_bRun \union {o}
          /\ receiver' = [receiver EXCEPT ![o] = "test"]
          /\ Goto(t, "play", o)
          /\ UNCHANGED <<m_pMediaMutex, rtsp>>
       \/ /\ Goto(t, "play", o)
          /\ UNCHANGED <<m_pMediaMutex, streamVars>>
       \/ /\ rtsp' = rtsp \ {o}
          /\ Unlock(o)
          /\ Goto(t, "failed", o)
          /\ UNCHANGED <<net, m_bRun, receiver>>
    /\ UNCHANGED <<mapVars, stateVars, useVars>>

\* PLAY: the client is given the handle, or the stream is closed.
Play(t) == \E o \in Objects :
    /\ At(t, "play", o)
    /\ \/ /\ Unlock(o)
          /\ opened' = opened \union {o}
          /\ Return(t)
          /\ UNCHANGED m_bRun
       \/ /\ m_bRun' = m_bRun \ {o}
          /\ Goto(t, "undo", o)
          /\ UNCHANGED <<m_pMediaMutex, opened>>
    /\ UNCHANGED <<mapVars, stateVars, rtsp, net, receiver, events>>

\* Mutant: the channel stays open.
UndoForgets(t) == \E o \in Objects :
    /\ At(t, "undo", o) /\ receiver[o] = "none"
    /\ rtsp' = rtsp \ {o}
    /\ Unlock(o)
    /\ Goto(t, "failed", o)
    /\ UNCHANGED <<mapVars, stateVars, net, m_bRun, receiver, useVars>>

Undo(t) == \E o \in Objects :
    /\ At(t, "undo", o) /\ receiver[o] = "none"
    /\ rtsp' = rtsp \ {o}
    /\ net' = net \ {o}
    /\ Unlock(o)
    /\ Goto(t, "failed", o)
    /\ UNCHANGED <<mapVars, stateVars, m_bRun, receiver, useVars>>

\* FreeRealPlay deletes the object, whatever its references; a playback is reset.
StartFails(t) == \E o \in Objects :
    /\ pc[t] = [at |-> "failed", of |-> o]
    /\ IF kind[o] = "realplay"
       THEN /\ live' = IF o \in m_map THEN live \ {o} ELSE live
            /\ m_map' = m_map \ {o}
            /\ UNCHANGED <<busy, named>>
       ELSE /\ busy' = busy \ {o}
            /\ named' = named \ {o}
            /\ UNCHANGED <<m_map, live>>
    /\ Return(t)
    /\ UNCHANGED <<kind, m_RefCounter, finished, m_pMediaMutex, streamVars, useVars>>

-----------------------------------------------------------------------------
(* StopRealPlay, StopPlatformPlayBack *)

\* The client stops a handle once.
Stop(t, o) ==
    /\ pc[t].at = "idle" /\ o \in opened
    /\ opened' = opened \ {o}
    /\ IF o \in m_map THEN Goto(t, "stop", o) ELSE Return(t)
    /\ UNCHANGED <<mapVars, stateVars, m_pMediaMutex, streamVars, events>>

StopPlay(t) == \E o \in Objects :
    /\ t # Event /\ At(t, "stop", o)
    /\ Lock(t, o)
    /\ Goto(t, "teardown", o)
    /\ UNCHANGED <<mapVars, stateVars, streamVars, useVars>>

\* StopPlay and StopStream of CMediaBase, by the client and the event thread: the RTSP
\* session is freed and the receiving thread told to end ...
Teardown(t) == \E o \in Objects :
    /\ At(t, "teardown", o)
    /\ rtsp' = rtsp \ {o}
    /\ m_bRun' = m_bRun \ {o}
    /\ Goto(t, "close", o)
    /\ UNCHANGED <<mapVars, stateVars, m_pMediaMutex, net, receiver, useVars>>

\* Mutant: nobody waits for the receiving thread.
CloseUnjoined(t) == \E o \in Objects :
    /\ At(t, "close", o)
    /\ net' = net \ {o}
    /\ IF t = Event
       THEN Unlock(o) /\ Return(t)
       ELSE Goto(t, "reset", o) /\ UNCHANGED m_pMediaMutex
    /\ UNCHANGED <<mapVars, stateVars, rtsp, m_bRun, receiver, useVars>>

\* Mutant: the event thread keeps the mutex.
CloseLocked(t) == \E o \in Objects :
    /\ At(t, "close", o) /\ receiver[o] = "none"
    /\ net' = net \ {o}
    /\ IF t = Event THEN Return(t) ELSE Goto(t, "reset", o)
    /\ UNCHANGED <<mapVars, stateVars, m_pMediaMutex, rtsp, m_bRun, receiver, useVars>>

\* ... and joined before the channel is freed.
CloseNetStream(t) == \E o \in Objects :
    /\ At(t, "close", o) /\ receiver[o] = "none"
    /\ net' = net \ {o}
    /\ IF t = Event
       THEN Unlock(o) /\ Return(t)
       ELSE Goto(t, "reset", o) /\ UNCHANGED m_pMediaMutex
    /\ UNCHANGED <<mapVars, stateVars, rtsp, m_bRun, receiver, useVars>>

\* RetSet frees the object first ...
RetSet(t) == \E o \in Objects :
    /\ At(t, "reset", o)
    /\ busy' = busy \ {o}
    /\ Goto(t, "rename", o)
    /\ UNCHANGED <<mapVars, finished, named, m_pMediaMutex, streamVars, useVars>>

\* ... and then takes its handle from it.
RetSetHandle(t) == \E o \in Objects :
    /\ At(t, "rename", o)
    /\ named' = named \ {o}
    /\ Unlock(o)
    /\ IF kind[o] = "realplay"
       THEN finished' = finished \union {o} /\ Goto(t, "erase", o)
       ELSE UNCHANGED finished /\ Return(t)
    /\ UNCHANGED <<mapVars, busy, streamVars, useVars>>

\* FreeRealPlayEx takes the object out of the map ...
Erase(t) == \E o \in Objects :
    /\ pc[t] = [at |-> "erase", of |-> o]
    /\ m_map' = m_map \ {o}
    /\ IF o \in m_map THEN Goto(t, "put", o) ELSE Return(t)
    /\ UNCHANGED <<live, kind, m_RefCounter, stateVars, m_pMediaMutex, streamVars, useVars>>

\* Mutant: the reference that the start has not taken is dropped too.
PutTwice(t) == \E o \in Objects :
    /\ At(t, "put", o)
    /\ m_RefCounter' = [m_RefCounter EXCEPT ![o] = @ - 2]
    /\ live' = IF m_RefCounter[o] = 2 THEN live \ {o} ELSE live
    /\ Return(t)
    /\ UNCHANGED <<m_map, kind, stateVars, m_pMediaMutex, streamVars, useVars>>

\* ... and deletes it if it drops the last reference.  StartRealPlayCBRaw has taken
\* none, so that without an event the count falls to -1 and the object is never deleted.
PutRef(t) == \E o \in Objects :
    /\ At(t, "put", o)
    /\ m_RefCounter' = [m_RefCounter EXCEPT ![o] = @ - 1]
    /\ live' = IF m_RefCounter[o] = 1 THEN live \ {o} ELSE live
    /\ Return(t)
    /\ UNCHANGED <<m_map, kind, stateVars, m_pMediaMutex, streamVars, useVars>>

-----------------------------------------------------------------------------
(* The event thread *)

\* RtspExceptionCallBack.
PostStream(o) ==
    /\ Exceptions /\ o \in m_map \intersect rtsp /\ kind[o] = "realplay"
    /\ events' = events \union {o}
    /\ UNCHANGED <<mapVars, stateVars, m_pMediaMutex, streamVars, opened, pc>>

\* HandleStreamMsg, GetServiceTypebyPlayHandle.
HandleStreamMsg(o) ==
    /\ pc[Event].at = "idle" /\ o \in events
    /\ events' = events \ {o}
    /\ IF o \in m_map /\ kind[o] = "realplay" THEN Goto(Event, "ref", o) ELSE Return(Event)
    /\ UNCHANGED <<mapVars, stateVars, m_pMediaMutex, streamVars, opened>>

\* No reference is dropped here, so more than two need no telling apart.
GetRealPlayEx == \E o \in Objects :
    /\ pc[Event] = [at |-> "ref", of |-> o]
    /\ IF o \in m_map
       THEN /\ m_RefCounter' = [m_RefCounter EXCEPT ![o] = IF @ = 2 THEN 2 ELSE @ + 1]
            /\ Goto(Event, "stop", o)
       ELSE /\ Return(Event)
            /\ UNCHANGED m_RefCounter
    /\ UNCHANGED <<m_map, live, kind, stateVars, m_pMediaMutex, streamVars, useVars>>

StopStream == \E o \in Objects :
    /\ At(Event, "stop", o)
    /\ IF o \in finished
       THEN m_pMediaMutex[o] = Null /\ Return(Event) /\ UNCHANGED m_pMediaMutex
       ELSE Lock(Event, o) /\ Goto(Event, "teardown", o)
    /\ UNCHANGED <<mapVars, stateVars, streamVars, useVars>>

-----------------------------------------------------------------------------
(* CNetSource::MainLoop, the receiving thread of the channel of object o *)

MainLoop(o) ==
    /\ receiver[o] = "test"
    /\ receiver' = [receiver EXCEPT ![o] = IF o \in m_bRun THEN "data" ELSE "none"]
    /\ UNCHANGED <<mapVars, stateVars, m_pMediaMutex, rtsp, net, m_bRun, useVars, pc>>

\* The data are handed to the object.
ProcMediaPacket(o) ==
    /\ receiver[o] = "data"
    /\ receiver' = [receiver EXCEPT ![o] = "test"]
    /\ UNCHANGED <<mapVars, stateVars, m_pMediaMutex, rtsp, net, m_bRun, useVars, pc>>

-----------------------------------------------------------------------------

UsePlaces == {"lock", "setup", "play", "undo", "stop", "teardown", "close", "reset", "rename", "put"}

\* A thread uses an object that was deleted.  What it writes is lost.
UseDeleted(t) ==
    /\ pc[t].at \in UsePlaces /\ pc[t].of \notin live
    /\ Return(t)
    /\ UNCHANGED <<mapVars, stateVars, m_pMediaMutex, streamVars, useVars>>

ClientStep(t) ==
    \/ StartPlay(t) \/ Setup(t) \/ Play(t) \/ Undo(t) \/ StartFails(t)
    \/ StopPlay(t) \/ RetSet(t) \/ RetSetHandle(t) \/ Erase(t) \/ PutRef(t)

ThreadStep(t) == Teardown(t) \/ CloseNetStream(t) \/ UseDeleted(t)

EventStep == GetRealPlayEx \/ StopStream \/ ThreadStep(Event)

Receive(o) == MainLoop(o) \/ ProcMediaPacket(o)

Next ==
    \/ \E t \in Clients, k \in Kinds : TakeFree(t, k) \/ New(t, k)
    \/ \E t \in Clients, o \in Objects : Stop(t, o)
    \/ \E t \in Clients : ClientStep(t) \/ ThreadStep(t)
    \/ \E o \in Objects : PostStream(o) \/ HandleStreamMsg(o) \/ Receive(o)
    \/ EventStep

Spec == Init /\ [][Next]_vars

FairSpec ==
    /\ Spec
    /\ \A t \in Clients : WF_vars(ClientStep(t) \/ ThreadStep(t))
    /\ WF_vars(EventStep)
    /\ \A o \in Objects : WF_vars(Receive(o))

-----------------------------------------------------------------------------
(* Properties *)

Places == UsePlaces \union {"idle", "failed", "erase", "ref"}

TypeOK ==
    /\ m_map \subseteq Objects /\ live \subseteq Objects
    /\ kind \in [Objects -> Kinds]
    /\ m_RefCounter \in [Objects -> -1..2]
    /\ busy \subseteq Objects /\ finished \subseteq Objects /\ named \subseteq Objects
    /\ m_pMediaMutex \in [Objects -> Threads \union {Null}]
    /\ rtsp \subseteq Objects /\ net \subseteq Objects /\ m_bRun \subseteq Objects
    /\ receiver \in [Objects -> {"none", "test", "data"}]
    /\ opened \subseteq Objects /\ events \subseteq Objects
    /\ pc \in [Threads -> [at : Places, of : Objects \union {Null}]]

\* The maps hold no deleted object, and a receiving thread, which is given the object
\* (RealPlay.cpp:78), runs only while the object and its channel are there: starts that
\* fail, stops and the event thread take an object out of the map before they delete it,
\* and join the thread before they free the channel.
ReachedIsLive ==
    /\ m_map \subseteq live
    /\ \A o \in Objects : receiver[o] # "none" => o \in live /\ o \in net

\* A stream, or what is left of it, is held: its handle is found, by a stop or by the event
\* thread, and its object is not free to be used again.  So is a stream that a start has
\* returned, and it gives its frames under its handle, although the last user of the object
\* freed it and reset that (RealPlayMgr.cpp:28, 177, 397, RealPlay.cpp:632,
\* MediaBase.cpp:438), and although the event thread may have stopped the stream.
StreamIsHeld ==
    /\ rtsp \union net \union opened \subseteq m_map \intersect busy
    /\ opened \subseteq named

\* Starts and stops return, although the event thread may hold the object's mutex.
CallReturns == \A t \in Clients : pc[t].at # "idle" ~> pc[t].at = "idle"

=============================================================================
