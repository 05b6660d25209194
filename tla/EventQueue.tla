------------------------------ MODULE EventQueue ------------------------------
(***************************************************************************)
(* The event queue of the SDK (service/Event): CEventCallBackJob's queue    *)
(* and thread, CEventMgr's table of callbacks, and the calls that meet      *)
(* them: notices of the server and exceptions of the RTSP client, which     *)
(* post events, the client, which sets its callback, logs out and cleans up *)
(* the SDK, and the dispatcher, which logs a user out that the server has   *)
(* put offline.                                                             *)
(***************************************************************************)
EXTENDS Naturals, Sequences

CONSTANTS
    Sessions,           \* session ids
    Callbacks,          \* event callbacks of the client
    Client, Dispatcher, \* the client's thread and the one of the server's notices
    Capacity,           \* MAX_EVENT_QUEUE_LEN
    Kinds,              \* what a stream is: "realplay", "playback"
    Null,
    CleansUpAlone       \* no offline notice comes while the SDK is cleaned up

ASSUME EventAssumption ==
    /\ Null \notin Callbacks \union Sessions
    /\ Client # Dispatcher
    /\ Capacity \in Nat \ {0}
    /\ Kinds \subseteq {"realplay", "playback"}
    /\ CleansUpAlone \in BOOLEAN

VARIABLES
    m_eventQueue,       \* the events that were posted
    m_bRun,             \* the event thread is to run
    job,                \* where the event thread is, its event, the callback it runs
    m_EventCallBack,    \* the callback of a session
    users,              \* the sessions in m_mapSessionIDToSingleSvrProxy
    stream,             \* the stream that a session plays
    m_pUser,            \* the session that the RTSP client's callback is given
    pc                  \* where a thread is, and for which session

vars == <<m_eventQueue, m_bRun, job, m_EventCallBack, users, stream, m_pUser, pc>>

Threads == {Client, Dispatcher}
NoEvent == [iEventType |-> "none", iSessionID |-> Null, of |-> Null]

\* "of" is the session that plays the stream of an exception.
Event == [iEventType : {"notice", "alarm", "offline"}, iSessionID : Sessions, of : {Null}]
         \union [iEventType : {"stream"}, iSessionID : Sessions, of : Sessions]

Init ==
    /\ m_eventQueue = << >>
    /\ m_bRun = TRUE
    /\ job = [at |-> "none", event |-> NoEvent, callback |-> Null]
    /\ m_EventCallBack = [s \in Sessions |-> Null]
    /\ users = {}
    /\ stream = [s \in Sessions |-> "none"]
    /\ m_pUser = Null
    /\ pc = [t \in Threads |-> [at |-> IF t = Client THEN "off" ELSE "idle", of |-> Null]]

-----------------------------------------------------------------------------
(* Helpers *)

Goto(t, location, s) == pc' = [pc EXCEPT ![t] = [at |-> location, of |-> s]]

JobAt(location) == job' = [at |-> location, event |-> job.event, callback |-> Null]

JobDone == job' = [at |-> "test", event |-> NoEvent, callback |-> Null]

\* m_pMutexEventCB is held for a whole callback.
Free == job.at # "call"

\* A link of the session is there until the logout has deleted it.
Linked(s) == s \in users \/ \E t \in Threads : pc[t] = [at |-> "links", of |-> s]

Cleaning == {"join", "size", "first", "clearFirst", "freeFirst"}

\* Mutant: nothing makes room.
PushKeepsAll(e) == m_eventQueue' = Append(m_eventQueue, e)

\* Mutant: the newest event makes room.
PushLosesNewest(e) ==
    m_eventQueue' = Append(IF Len(m_eventQueue) < Capacity THEN m_eventQueue
                           ELSE SubSeq(m_eventQueue, 1, Capacity - 1), e)

\* PostEvent: a full queue loses its oldest event.
Push(e) ==
    m_eventQueue' = Append(IF Len(m_eventQueue) < Capacity THEN m_eventQueue
                           ELSE Tail(m_eventQueue), e)

-----------------------------------------------------------------------------
(* The posts *)

\* A notice or an alarm of the server on a link of the session.
PostNotice(s, type) ==
    /\ Linked(s)
    /\ Push([iEventType |-> type, iSessionID |-> s, of |-> Null])
    /\ UNCHANGED <<m_bRun, job, m_EventCallBack, users, stream, m_pUser, pc>>

\* RtspExceptionCallBack: whoever plays the stream, the event goes to the
\* session that logged in last.
PostStream(s) ==
    /\ s \in users /\ stream[s] # "none"
    /\ Push([iEventType |-> "stream", iSessionID |-> m_pUser, of |-> s])
    /\ UNCHANGED <<m_bRun, job, m_EventCallBack, users, stream, m_pUser, pc>>

\* OnUserOffLineNotify posts the event ...
PostOffline(s) ==
    /\ pc[Dispatcher].at = "idle" /\ Linked(s)
    /\ CleansUpAlone => pc[Client].at \notin Cleaning
    /\ Push([iEventType |-> "offline", iSessionID |-> s, of |-> Null])
    /\ Goto(Dispatcher, "logout", s)
    /\ UNCHANGED <<m_bRun, job, m_EventCallBack, users, stream, m_pUser>>

-----------------------------------------------------------------------------
(* Logout *)

\* ... and logs the user out.  Logout of CSDKInterface finds the user, or fails.
LogoutFinds(t) ==
    /\ pc[t].at = "logout"
    /\ IF pc[t].of \in users
       THEN Goto(t, "clear", pc[t].of)
       ELSE Goto(t, "idle", Null)
    /\ UNCHANGED <<m_eventQueue, m_bRun, job, m_EventCallBack, users, stream, m_pUser>>

\* Mutant: CEventMgr::SetEventCallBack does not lock.
ClearAnyway(t) ==
    /\ pc[t].at \in {"clear", "clearFirst"}
    /\ m_EventCallBack' = [m_EventCallBack EXCEPT ![pc[t].of] = Null]
    /\ Goto(t, IF pc[t].at = "clear" THEN "free" ELSE "freeFirst", pc[t].of)
    /\ UNCHANGED <<m_eventQueue, m_bRun, job, users, stream, m_pUser>>

\* The callback is cancelled; "First" is the logout that Cleanup calls.
Clear(t) ==
    /\ pc[t].at \in {"clear", "clearFirst"} /\ Free
    /\ m_EventCallBack' = [m_EventCallBack EXCEPT ![pc[t].of] = Null]
    /\ Goto(t, IF pc[t].at = "clear" THEN "free" ELSE "freeFirst", pc[t].of)
    /\ UNCHANGED <<m_eventQueue, m_bRun, job, users, stream, m_pUser>>

FreeSessoinID(t) ==
    /\ pc[t].at \in {"free", "freeFirst"}
    /\ users' = users \ {pc[t].of}
    /\ Goto(t, IF pc[t].at = "free" THEN "links" ELSE "size", pc[t].of)
    /\ UNCHANGED <<m_eventQueue, m_bRun, job, m_EventCallBack, stream, m_pUser>>

\* CUserMgr::Logout, of which only the end of the links matters here.
LogoutEnds(t) ==
    /\ pc[t].at = "links"
    /\ Goto(t, "idle", Null)
    /\ UNCHANGED <<m_eventQueue, m_bRun, job, m_EventCallBack, users, stream, m_pUser>>

Logout(t) == LogoutFinds(t) \/ Clear(t) \/ FreeSessoinID(t) \/ LogoutEnds(t)

-----------------------------------------------------------------------------
(* The client *)

\* CEventMgr::Init: SetEventMgr, then the thread.
Start ==
    /\ pc[Client].at = "off"
    /\ m_bRun' = TRUE
    /\ JobDone
    /\ Goto(Client, "idle", Null)
    /\ UNCHANGED <<m_eventQueue, m_EventCallBack, users, stream, m_pUser>>

\* A login on a slot that is free, and the RTSP client's callback.
Login(s) ==
    /\ pc[Client].at = "idle" /\ s \notin users
    /\ users' = users \union {s}
    /\ m_pUser' = s
    /\ UNCHANGED <<m_eventQueue, m_bRun, job, m_EventCallBack, stream, pc>>

\* SetEventCallBack of CSDKInterface looks for the user, ...
SetFinds(s) ==
    /\ pc[Client].at = "idle" /\ s \in users
    /\ Goto(Client, "set", s)
    /\ UNCHANGED <<m_eventQueue, m_bRun, job, m_EventCallBack, users, stream, m_pUser>>

\* ... and CEventMgr's sets the callback.
SetEventCallBack ==
    /\ pc[Client].at = "set" /\ Free
    /\ \E f \in Callbacks :
          m_EventCallBack' = [m_EventCallBack EXCEPT ![pc[Client].of] = f]
    /\ Goto(Client, "idle", Null)
    /\ UNCHANGED <<m_eventQueue, m_bRun, job, users, stream, m_pUser>>

\* A stream is started, or stopped.  A logout does not stop it.
Play(s) ==
    /\ pc[Client].at = "idle" /\ s \in users
    /\ \E k \in IF stream[s] = "none" THEN Kinds ELSE {"none"} :
          stream' = [stream EXCEPT ![s] = k]
    /\ UNCHANGED <<m_eventQueue, m_bRun, job, m_EventCallBack, users, m_pUser, pc>>

ClientLogout(s) ==
    /\ pc[Client].at = "idle" /\ s \in users
    /\ Goto(Client, "logout", s)
    /\ UNCHANGED <<m_eventQueue, m_bRun, job, m_EventCallBack, users, stream, m_pUser>>

\* Mutant: kill does not end the loop.
CleanupForgets ==
    /\ pc[Client].at = "idle" /\ (CleansUpAlone => pc[Dispatcher].at = "idle")
    /\ m_bRun' = m_bRun
    /\ Goto(Client, "join", Null)
    /\ UNCHANGED <<m_eventQueue, job, m_EventCallBack, users, stream, m_pUser>>

\* Cleanup: UnInit deletes the thread object, whose destructor kills the job ...
Cleanup ==
    /\ pc[Client].at = "idle" /\ (CleansUpAlone => pc[Dispatcher].at = "idle")
    /\ m_bRun' = FALSE
    /\ Goto(Client, "join", Null)
    /\ UNCHANGED <<m_eventQueue, job, m_EventCallBack, users, stream, m_pUser>>

\* Mutant: the thread is not joined.
UnInitAnyway ==
    /\ pc[Client].at = "join"
    /\ Goto(Client, "size", Null)
    /\ UNCHANGED <<m_eventQueue, m_bRun, job, m_EventCallBack, users, stream, m_pUser>>

\* ... and joins its thread.
UnInit ==
    /\ pc[Client].at = "join" /\ job.at = "ended"
    /\ Goto(Client, "size", Null)
    /\ UNCHANGED <<m_eventQueue, m_bRun, job, m_EventCallBack, users, stream, m_pUser>>

\* The size of the map: while it is not 0, the user in front is logged out.
CleanupSize ==
    /\ pc[Client].at = "size"
    /\ Goto(Client, IF users = {} THEN "off" ELSE "first", Null)
    /\ UNCHANGED <<m_eventQueue, m_bRun, job, m_EventCallBack, users, stream, m_pUser>>

\* begin() of a map that another logout has emptied since is undefined.
CleanupFirst ==
    /\ pc[Client].at = "first" /\ users # {}
    /\ \E s \in users : Goto(Client, "clearFirst", s)
    /\ UNCHANGED <<m_eventQueue, m_bRun, job, m_EventCallBack, users, stream, m_pUser>>

-----------------------------------------------------------------------------
(* The event thread: CEventCallBackJob::MainLoop *)

\* The test of m_bRun ...
Test ==
    /\ job.at = "test"
    /\ JobAt(IF m_bRun THEN "pop" ELSE "ended")
    /\ UNCHANGED <<m_eventQueue, m_bRun, m_EventCallBack, users, stream, m_pUser, pc>>

\* Mutant: the loop ends when the queue is empty.
PopEnds ==
    /\ job.at = "pop"
    /\ IF m_eventQueue = << >>
       THEN JobAt("ended") /\ UNCHANGED m_eventQueue
       ELSE /\ job' = [at |-> "handle", event |-> Head(m_eventQueue), callback |-> Null]
            /\ m_eventQueue' = Tail(m_eventQueue)
    /\ UNCHANGED <<m_bRun, m_EventCallBack, users, stream, m_pUser, pc>>

\* ... and PopEvent; when the queue is empty the thread sleeps.
PopEvent ==
    /\ job.at = "pop"
    /\ IF m_eventQueue = << >>
       THEN JobDone /\ UNCHANGED m_eventQueue
       ELSE /\ job' = [at |-> "handle", event |-> Head(m_eventQueue), callback |-> Null]
            /\ m_eventQueue' = Tail(m_eventQueue)
    /\ UNCHANGED <<m_bRun, m_EventCallBack, users, stream, m_pUser, pc>>

\* OnEventCallBack of an event that is for the client; an OMU alarm is for a user
\* who is logged in and has not asked to get none.
OnEventCallBack ==
    /\ job.at = "handle" /\ job.event.iEventType # "stream"
    /\ \/ /\ job.event.iEventType = "alarm" => job.event.iSessionID \in users
          /\ JobAt("lock")
       \/ job.event.iEventType = "alarm" /\ JobDone
    /\ UNCHANGED <<m_eventQueue, m_bRun, m_EventCallBack, users, stream, m_pUser, pc>>

\* The stream of the event, looked for among those of the event's session.
Found ==
    IF job.event.iSessionID \in users /\ job.event.of = job.event.iSessionID
    THEN stream[job.event.of] ELSE "none"

\* HandleStreamMsg: a real play that has failed is stopped, and the client told;
\* of a playback an event may have to wait for the data that is left, or not
\* concern the client.
HandleStreamMsg ==
    /\ job.at = "handle" /\ job.event.iEventType = "stream"
    /\ \/ Found = "none" /\ JobDone
       \/ Found # "none" /\ JobAt("lock")
       \/ Found = "playback" /\ (JobDone \/ JobAt("repost"))
    /\ UNCHANGED <<m_eventQueue, m_bRun, m_EventCallBack, users, stream, m_pUser, pc>>

\* After a sleep the event is posted once more.
Repost ==
    /\ job.at = "repost"
    /\ Push(job.event)
    /\ JobDone
    /\ UNCHANGED <<m_bRun, m_EventCallBack, users, stream, m_pUser, pc>>

\* The mutex is taken and the callback called, if the session has one.
Call ==
    /\ job.at = "lock"
    /\ LET f == m_EventCallBack[job.event.iSessionID] IN
       IF f = Null THEN JobDone
                   ELSE job' = [at |-> "call", event |-> job.event, callback |-> f]
    /\ UNCHANGED <<m_eventQueue, m_bRun, m_EventCallBack, users, stream, m_pUser, pc>>

Return ==
    /\ job.at = "call"
    /\ JobDone
    /\ UNCHANGED <<m_eventQueue, m_bRun, m_EventCallBack, users, stream, m_pUser, pc>>

Job == Test \/ PopEvent \/ OnEventCallBack \/ HandleStreamMsg \/ Repost \/ Call \/ Return

Posts ==
    \E s \in Sessions :
        \/ PostNotice(s, "notice") \/ PostNotice(s, "alarm")
        \/ PostStream(s) \/ PostOffline(s)

Clients ==
    \/ Start \/ SetEventCallBack \/ Cleanup \/ UnInit \/ CleanupSize \/ CleanupFirst
    \/ \E s \in Sessions : Login(s) \/ SetFinds(s) \/ Play(s) \/ ClientLogout(s)

Next == Job \/ Posts \/ Clients \/ \E t \in Threads : Logout(t)

Spec == Init /\ [][Next]_vars

\* The event thread runs, and callbacks return; a call that has begun goes on.
FairSpec ==
    /\ Spec
    /\ WF_vars(Job)
    /\ \A t \in Threads : SF_vars(Logout(t))
    /\ WF_vars(UnInit) /\ WF_vars(CleanupSize) /\ WF_vars(CleanupFirst)

-----------------------------------------------------------------------------
(* Properties *)

Jobs ==
    [at : {"none", "test", "pop", "ended"}, event : {NoEvent}, callback : {Null}]
    \union [at : {"handle", "lock", "repost"}, event : Event, callback : {Null}]
    \union [at : {"call"}, event : Event, callback : Callbacks]

Places ==
    [at : {"off", "idle", "join", "size", "first"}, of : Sessions \union {Null}]
    \union [at : {"logout", "clear", "clearFirst", "free", "freeFirst", "links", "set"},
            of : Sessions]

\* Type invariant: the event thread has an event in hand exactly while it looks at one.
TypeOK ==
    /\ m_eventQueue \in Seq(Event) /\ Len(m_eventQueue) <= Capacity
    /\ m_bRun \in BOOLEAN
    /\ job \in Jobs
    /\ m_EventCallBack \in [Sessions -> Callbacks \union {Null}]
    /\ users \subseteq Sessions
    /\ stream \in [Sessions -> Kinds \union {"none"}]
    /\ m_pUser \in Sessions \union {Null}
    /\ pc \in [Threads -> Places]

\* A client that has replaced or cancelled its callback, or has logged out, is not
\* called on the old one any more (the comment at SDKInterface.cpp:867): the
\* callback that runs is the one in the table, from its first to its last moment
\* (EventMgr.cpp:648, 704).
CalledIsRegistered ==
    job.at = "call" => job.callback = m_EventCallBack[job.event.iSessionID]

\* Once UnInit has returned no event is looked at, and at the end of Cleanup no user
\* is logged in (SDKInterface.cpp:315, 321-333).
CleanedUpIsQuiet ==
    /\ pc[Client].at \in (Cleaning \ {"join"}) \union {"off"} => job.at \in {"none", "ended"}
    /\ pc[Client].at = "off" => users = {}

\* The clients see a queue that keeps the order and loses only its oldest event,
\* only when it is full (EventCallBackJob.cpp:96), whatever the threads do.
Feed == INSTANCE EventFeed WITH
    Events <- Event,
    Null <- NoEvent,
    SessionOf <- [e \in Event |-> e.iSessionID],
    waiting <- m_eventQueue,
    now <- job.event,
    told <- job.at = "call",
    registered <- {s \in Sessions : m_EventCallBack[s] # Null}
ImplementsFeed == Feed!Spec

\* An event that is posted is taken, or dropped, however fast others are posted,
\* unless the SDK is cleaned up.
PostedIsTaken ==
    \A e \in Event :
        m_eventQueue # << >> /\ Head(m_eventQueue) = e ~>
            m_eventQueue = << >> \/ Head(m_eventQueue) # e \/ job.event = e \/ ~m_bRun

\* Cleanup returns: the event thread ends although events keep coming and some are
\* posted again, and every user is logged out.
CleanupReturns == pc[Client].at = "join" ~> pc[Client].at = "off"

=============================================================================
