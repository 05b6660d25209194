-------------------------- MODULE EventQueueProofs --------------------------
(* Theorems about EventQueue, for any number of sessions and callbacks and   *)
(* any capacity of the queue.                                                *)
EXTENDS EventQueue, SequenceTheorems, TLAPS

-----------------------------------------------------------------------------
(* Type correctness *)

\* What an event that is posted, or taken, makes of the queue.
LEMMA PushType ==
    ASSUME TypeOK, NEW e \in Event, Push(e)
    PROVE  m_eventQueue' \in Seq(Event) /\ Len(m_eventQueue') <= Capacity
<1>. DEFINE q == IF Len(m_eventQueue) < Capacity THEN m_eventQueue ELSE Tail(m_eventQueue)
<1>1. m_eventQueue \in Seq(Event) /\ Len(m_eventQueue) \in Nat /\ Capacity \in Nat \ {0}
  BY EventAssumption, LenProperties DEF TypeOK
<1>2. q \in Seq(Event) /\ Len(q) \in Nat /\ Len(q) < Capacity
  <2>1. CASE Len(m_eventQueue) < Capacity
    BY <1>1, <2>1
  <2>2. CASE ~(Len(m_eventQueue) < Capacity)
    <3>1. m_eventQueue # << >> /\ Len(m_eventQueue) = Capacity
      BY <1>1, <2>2 DEF TypeOK
    <3>2. Tail(m_eventQueue) \in Seq(Event) /\ Len(Tail(m_eventQueue)) = Len(m_eventQueue) - 1
      BY <1>1, <3>1, HeadTailProperties
    <3>. QED
      BY <1>1, <2>2, <3>1, <3>2
  <2>. QED
    BY <2>1, <2>2
<1>3. Append(q, e) \in Seq(Event) /\ Len(Append(q, e)) = Len(q) + 1
  BY <1>2, AppendProperties
<1>. QED
  BY <1>1, <1>2, <1>3 DEF Push

\* Someone has logged in when a user is there.
LastIsKnown == users # {} => m_pUser \in Sessions

LEMMA PostType ==
    ASSUME TypeOK, LastIsKnown, Posts
    PROVE  TypeOK'
<1>1. PICK s \in Sessions : PostNotice(s, "notice") \/ PostNotice(s, "alarm")
                            \/ PostStream(s) \/ PostOffline(s)
  BY DEF Posts
<1>2. CASE \E type \in {"notice", "alarm"} : PostNotice(s, type)
  <2>1. PICK type \in {"notice", "alarm"} : PostNotice(s, type)
    BY <1>2
  <2>2. [iEventType |-> type, iSessionID |-> s, of |-> Null] \in Event
    BY DEF Event
  <2>. QED
    BY <2>1, <2>2, PushType DEF PostNotice, TypeOK
<1>3. CASE PostStream(s)
  <2>1. m_pUser \in Sessions
    BY <1>3 DEF PostStream, LastIsKnown
  <2>2. [iEventType |-> "stream", iSessionID |-> m_pUser, of |-> s] \in Event
    BY <2>1 DEF Event
  <2>. QED
    BY <1>3, <2>2, PushType DEF PostStream, TypeOK
<1>4. CASE PostOffline(s)
  <2>1. [iEventType |-> "offline", iSessionID |-> s, of |-> Null] \in Event
    BY DEF Event
  <2>2. [at |-> "logout", of |-> s] \in Places
    BY DEF Places
  <2>3. pc' \in [Threads -> Places]
    BY <1>4, <2>2 DEF PostOffline, Goto, TypeOK
  <2>. QED
    BY <1>4, <2>1, <2>3, PushType DEF PostOffline, TypeOK
<1>. QED
  BY <1>1, <1>2, <1>3, <1>4

\* A thread that goes to a place of Places leaves pc a function to Places.
LEMMA GotoType ==
    ASSUME TypeOK, NEW t \in Threads, NEW at, NEW s, Goto(t, at, s),
           [at |-> at, of |-> s] \in Places
    PROVE  pc' \in [Threads -> Places]
BY DEF TypeOK, Goto

LEMMA LogoutType ==
    ASSUME TypeOK, NEW t \in Threads, Logout(t)
    PROVE  TypeOK'
<1>1. pc[t] \in Places
  BY DEF TypeOK
<1>2. pc[t].at \in {"logout", "clear", "clearFirst", "free", "freeFirst", "links"} =>
          pc[t].of \in Sessions
  BY <1>1 DEF Places
<1>3. CASE LogoutFinds(t)
  <2>1. pc[t].of \in Sessions
    BY <1>2, <1>3 DEF LogoutFinds
  <2>2. /\ [at |-> "clear", of |-> pc[t].of] \in Places
        /\ [at |-> "idle", of |-> Null] \in Places
    BY <2>1 DEF Places
  <2>3. pc' \in [Threads -> Places]
    BY <1>3, <2>2, GotoType DEF LogoutFinds
  <2>. QED
    BY <1>3, <2>3 DEF LogoutFinds, TypeOK
<1>4. CASE Clear(t)
  <2>1. pc[t].of \in Sessions
    BY <1>2, <1>4 DEF Clear
  <2>2. /\ [at |-> "free", of |-> pc[t].of] \in Places
        /\ [at |-> "freeFirst", of |-> pc[t].of] \in Places
    BY <2>1 DEF Places
  <2>3. pc' \in [Threads -> Places]
    BY <1>4, <2>2, GotoType DEF Clear
  <2>. QED
    BY <1>4, <2>1, <2>3 DEF Clear, TypeOK
<1>5. CASE FreeSessoinID(t)
  <2>1. pc[t].of \in Sessions
    BY <1>2, <1>5 DEF FreeSessoinID
  <2>2. /\ [at |-> "links", of |-> pc[t].of] \in Places
        /\ [at |-> "size", of |-> pc[t].of] \in Places
    BY <2>1 DEF Places
  <2>3. pc' \in [Threads -> Places]
    BY <1>5, <2>2, GotoType DEF FreeSessoinID
  <2>. QED
    BY <1>5, <2>3 DEF FreeSessoinID, TypeOK
<1>6. CASE LogoutEnds(t)
  <2>1. [at |-> "idle", of |-> Null] \in Places
    BY DEF Places
  <2>2. pc' \in [Threads -> Places]
    BY <1>6, <2>1, GotoType DEF LogoutEnds
  <2>. QED
    BY <1>6, <2>2 DEF LogoutEnds, TypeOK
<1>. QED
  BY <1>3, <1>4, <1>5, <1>6 DEF Logout

LEMMA ClientType ==
    ASSUME TypeOK, Clients
    PROVE  TypeOK'
<1>. Client \in Threads
  BY DEF Threads
<1>1. pc[Client] \in Places
  BY DEF TypeOK
<1>2. \A at \in {"off", "idle", "join", "size", "first"} : [at |-> at, of |-> Null] \in Places
  BY DEF Places
<1>3. \A at \in {"set", "logout", "clearFirst"}, s \in Sessions :
          [at |-> at, of |-> s] \in Places
  BY DEF Places
<1>4. CASE Start
  <2>1. job' \in Jobs
    BY <1>4 DEF Start, JobDone, Jobs
  <2>2. pc' \in [Threads -> Places]
    BY <1>4, <1>2, GotoType DEF Start
  <2>. QED
    BY <1>4, <2>1, <2>2 DEF Start, TypeOK
<1>5. CASE SetEventCallBack
  <2>1. pc[Client].of \in Sessions
    BY <1>5, <1>1 DEF SetEventCallBack, Places
  <2>2. pc' \in [Threads -> Places]
    BY <1>5, <1>2, GotoType DEF SetEventCallBack
  <2>. QED
    BY <1>5, <2>1, <2>2 DEF SetEventCallBack, TypeOK
<1>6. CASE Cleanup \/ UnInit \/ CleanupSize
  <2>1. pc' \in [Threads -> Places]
    BY <1>6, <1>2, GotoType DEF Cleanup, UnInit, CleanupSize
  <2>. QED
    BY <1>6, <2>1 DEF Cleanup, UnInit, CleanupSize, TypeOK
<1>7. CASE CleanupFirst
  <2>1. pc' \in [Threads -> Places]
    BY <1>7, <1>3, GotoType DEF CleanupFirst, TypeOK
  <2>. QED
    BY <1>7, <2>1 DEF CleanupFirst, TypeOK
<1>8. CASE \E s \in Sessions : Login(s)
  BY <1>8 DEF Login, TypeOK
<1>9. CASE \E s \in Sessions : SetFinds(s) \/ ClientLogout(s)
  <2>1. pc' \in [Threads -> Places]
    BY <1>9, <1>3, GotoType DEF SetFinds, ClientLogout
  <2>. QED
    BY <1>9, <2>1 DEF SetFinds, ClientLogout, TypeOK
<1>10. CASE \E s \in Sessions : Play(s)
  BY <1>10 DEF Play, TypeOK
<1>. QED
  BY <1>4, <1>5, <1>6, <1>7, <1>8, <1>9, <1>10 DEF Clients

\* The event thread has an event in hand while it looks at one, and only then.
LEMMA Hand ==
    ASSUME TypeOK
    PROVE  /\ job.at \in {"handle", "lock", "repost", "call"} =>
                  job.event \in Event /\ job.event # NoEvent
           /\ job.at \in {"none", "test", "pop", "ended"} =>
                  job.event = NoEvent /\ job.callback = Null
           /\ job.at \in {"handle", "lock", "repost"} => job.callback = Null
           /\ job.at \in {"none", "test", "pop", "ended", "handle", "lock", "repost", "call"}
BY DEF TypeOK, Jobs, Event, NoEvent

LEMMA JobType ==
    ASSUME TypeOK, Job
    PROVE  TypeOK'
<1>. USE Hand
<1>1. JobDone => job' \in Jobs
  BY DEF JobDone, Jobs
<1>2. CASE Test
  <2>1. job' \in Jobs
    BY <1>2 DEF Test, JobAt, TypeOK, Jobs
  <2>. QED
    BY <1>2, <2>1 DEF Test, TypeOK
<1>3. CASE PopEvent /\ m_eventQueue = << >>
  BY <1>1, <1>3 DEF PopEvent, TypeOK
<1>4. CASE PopEvent /\ m_eventQueue # << >>
  <2>1. /\ Head(m_eventQueue) \in Event /\ Tail(m_eventQueue) \in Seq(Event)
        /\ Len(Tail(m_eventQueue)) = Len(m_eventQueue) - 1
        /\ Len(m_eventQueue) \in Nat /\ Capacity \in Nat
    BY <1>4, HeadTailProperties, LenProperties, EventAssumption DEF TypeOK
  <2>2. job' \in Jobs
    BY <1>4, <2>1 DEF PopEvent, Jobs
  <2>. QED
    BY <1>4, <2>1, <2>2 DEF PopEvent, TypeOK
<1>5. CASE OnEventCallBack \/ HandleStreamMsg
  <2>1. (JobAt("lock") \/ JobAt("repost")) /\ job.at = "handle" => job' \in Jobs
    BY DEF JobAt, TypeOK, Jobs
  <2>. QED
    BY <1>1, <1>5, <2>1 DEF OnEventCallBack, HandleStreamMsg, TypeOK
<1>6. CASE Repost
  BY <1>1, <1>6, PushType DEF Repost, TypeOK
<1>7. CASE Call
  <2>1. m_EventCallBack[job.event.iSessionID] \in Callbacks \union {Null}
    BY <1>7 DEF Call, TypeOK, Event
  <2>2. job' \in Jobs
    BY <1>1, <1>7, <2>1 DEF Call, TypeOK, Jobs
  <2>. QED
    BY <1>7, <2>2 DEF Call, TypeOK
<1>8. CASE Return
  BY <1>1, <1>8 DEF Return, TypeOK
<1>. QED
  BY <1>2, <1>3, <1>4, <1>5, <1>6, <1>7, <1>8 DEF Job

EventInv == TypeOK /\ LastIsKnown /\ CalledIsRegistered /\ CleanedUpIsQuiet

LEMMA TypeStep ==
    ASSUME TypeOK, LastIsKnown, [Next]_vars
    PROVE  TypeOK' /\ LastIsKnown'
<1>1. TypeOK'
  <2>1. CASE UNCHANGED vars
    BY <2>1 DEF vars, TypeOK
  <2>. QED
    BY <2>1, JobType, PostType, ClientType, LogoutType DEF Next
<1>2. LastIsKnown'
  <2>1. CASE \E s \in Sessions : Login(s)
    BY <2>1 DEF Login, LastIsKnown
  <2>2. CASE \E t \in Threads : FreeSessoinID(t)
    BY <2>2 DEF FreeSessoinID, LastIsKnown
  <2>3. CASE UNCHANGED <<users, m_pUser>>
    BY <2>3 DEF LastIsKnown
  <2>. QED
    BY <2>1, <2>2, <2>3
    DEF Next, vars, Job, Posts, Clients, Logout, Test, PopEvent, OnEventCallBack, HandleStreamMsg,
        Repost, Call, Return, PostNotice, PostStream, PostOffline, Start, SetFinds,
        SetEventCallBack, Play, ClientLogout, Cleanup, UnInit, CleanupSize, CleanupFirst,
        LogoutFinds, Clear, LogoutEnds
<1>. QED
  BY <1>1, <1>2

-----------------------------------------------------------------------------
(* Callbacks *)

\* The mutex is held for a whole callback, and who changes the table takes it.
LEMMA CalledStep ==
    ASSUME EventInv, [Next]_vars
    PROVE  CalledIsRegistered'
<1>. USE Hand DEF EventInv
<1>1. CASE Call
  BY <1>1 DEF Call, JobDone, CalledIsRegistered
<1>2. CASE (\E t \in Threads : Clear(t)) \/ SetEventCallBack
  BY <1>2 DEF Clear, SetEventCallBack, Free, CalledIsRegistered
<1>3. CASE job'.at # "call"
  BY <1>3 DEF CalledIsRegistered
<1>4. CASE UNCHANGED <<job, m_EventCallBack>>
  BY <1>4 DEF CalledIsRegistered
<1>5. Job => Call \/ job'.at # "call"
  BY DEF Job, Test, PopEvent, OnEventCallBack, HandleStreamMsg, Repost, Return, JobAt, JobDone,
         TypeOK, Jobs
<1>6. Start => job'.at # "call"
  BY DEF Start, JobDone
<1>. QED
  BY <1>1, <1>2, <1>3, <1>4, <1>5, <1>6
  DEF Next, vars, Posts, Clients, Logout, PostNotice, PostStream, PostOffline, Login, SetFinds,
      Play, ClientLogout, Cleanup, UnInit, CleanupSize, CleanupFirst, LogoutFinds,
      FreeSessoinID, LogoutEnds

\* A thread that has ended stays ended until the SDK is started again.
LEMMA CleanedUpStep ==
    ASSUME EventInv, [Next]_vars
    PROVE  CleanedUpIsQuiet'
<1>. USE Hand DEF EventInv, Cleaning
<1>. Client \in Threads /\ Client # Dispatcher /\ pc \in [Threads -> Places]
  BY EventAssumption DEF Threads, TypeOK
<1>1. CASE Job
  <2>1. job.at \notin {"none", "ended"} /\ UNCHANGED <<pc, users>>
    BY <1>1 DEF Job, Test, PopEvent, OnEventCallBack, HandleStreamMsg, Repost, Call, Return
  <2>. QED
    BY <2>1 DEF CleanedUpIsQuiet
<1>2. CASE Posts
  BY <1>2 DEF Posts, PostNotice, PostStream, PostOffline, Goto, CleanedUpIsQuiet
<1>3. CASE Clients
  BY <1>3 DEF Clients, Start, SetEventCallBack, Cleanup, UnInit, CleanupSize, CleanupFirst, Login,
              SetFinds, Play, ClientLogout, Goto, CleanedUpIsQuiet
<1>4. CASE \E t \in Threads : Logout(t)
  <2>1. PICK t \in Threads : Logout(t)
    BY <1>4
  <2>2. UNCHANGED job /\ users' \subseteq users
    BY <2>1 DEF Logout, LogoutFinds, Clear, FreeSessoinID, LogoutEnds
  <2>3. CASE t # Client
    BY <2>1, <2>2, <2>3
    DEF Logout, LogoutFinds, Clear, FreeSessoinID, LogoutEnds, Goto, CleanedUpIsQuiet
  <2>4. CASE t = Client
    BY <2>1, <2>2, <2>4
    DEF Logout, LogoutFinds, Clear, FreeSessoinID, LogoutEnds, Goto, CleanedUpIsQuiet
  <2>. QED
    BY <2>3, <2>4
<1>5. CASE UNCHANGED vars
  BY <1>5 DEF vars, CleanedUpIsQuiet
<1>. QED
  BY <1>1, <1>2, <1>3, <1>4, <1>5 DEF Next

LEMMA EventInvInit ==
    ASSUME Init
    PROVE  EventInv
<1>1. m_eventQueue \in Seq(Event) /\ Len(m_eventQueue) = 0
  BY EmptySeq DEF Init
<1>2. pc \in [Threads -> Places]
  BY DEF Init, Places
<1>3. job \in Jobs
  BY DEF Init, Jobs
<1>4. TypeOK
  BY <1>1, <1>2, <1>3, EventAssumption DEF Init, TypeOK
<1>. QED
  BY <1>4 DEF Init, EventInv, LastIsKnown, CalledIsRegistered, CleanedUpIsQuiet

\* The invariant on which everything below rests.
THEOREM EventInvCorrect == Spec => []EventInv
<1>1. Init => EventInv
  BY EventInvInit
<1>2. EventInv /\ [Next]_vars => EventInv'
  BY TypeStep, CalledStep, CleanedUpStep DEF EventInv
<1>. QED
  BY <1>1, <1>2, PTL DEF Spec

\* Every variable has its type: the queue never holds more than Capacity events,
\* and the event thread has an event exactly while it looks at one.
THEOREM TypeCorrect == Spec => []TypeOK
BY EventInvCorrect, PTL DEF EventInv

\* A callback that was replaced or cancelled is not running, for any number of
\* sessions and threads' interleavings.
THEOREM CalledIsRegisteredCorrect == Spec => []CalledIsRegistered
BY EventInvCorrect, PTL DEF EventInv

\* After UnInit no event is looked at; at the end of Cleanup nobody is logged in.
THEOREM CleanedUpIsQuietCorrect == Spec => []CleanedUpIsQuiet
BY EventInvCorrect, PTL DEF EventInv

-----------------------------------------------------------------------------
(* The event queue implements an event feed *)

LEMMA PushPosts ==
    ASSUME NEW e \in Event, Push(e), UNCHANGED <<job, m_EventCallBack>>
    PROVE  Feed!Next
<1>1. Feed!Post(e)
  BY DEF Push, Feed!Post
<1>. QED
  BY <1>1 DEF Feed!Next

\* Whoever sets or cancels a callback does not meet a running one.
LEMMA SetRegisters ==
    ASSUME NEW s \in Sessions, NEW f \in Callbacks \union {Null}, TypeOK, Free,
           m_EventCallBack' = [m_EventCallBack EXCEPT ![s] = f], UNCHANGED <<m_eventQueue, job>>
    PROVE  Feed!Next
<1>. DEFINE old == {r \in Sessions : m_EventCallBack[r] # Null}
            new == {r \in Sessions : m_EventCallBack'[r] # Null}
<1>1. new \in {old \union {s}, old \ {s}}
  <2>1. CASE f = Null
    BY <2>1 DEF TypeOK
  <2>2. CASE f # Null
    BY <2>2 DEF TypeOK
  <2>. QED
    BY <2>1, <2>2
<1>2. Feed!Register(s)
  BY <1>1 DEF Feed!Register, Free
<1>. QED
  BY <1>2 DEF Feed!Next

LEMMA JobFeeds ==
    ASSUME EventInv, Job
    PROVE  [Feed!Next]_(Feed!vars)
<1>. USE Hand DEF EventInv
<1>1. CASE Test
  BY <1>1 DEF Test, JobAt, TypeOK, Jobs, Feed!vars
<1>2. CASE PopEvent /\ m_eventQueue = << >>
  BY <1>2 DEF PopEvent, JobDone, Feed!vars
<1>3. CASE PopEvent /\ m_eventQueue # << >>
  <2>1. Feed!Take
    BY <1>3 DEF PopEvent, Feed!Take
  <2>. QED
    BY <2>1 DEF Feed!Next
<1>4. CASE OnEventCallBack \/ HandleStreamMsg
  <2>1. CASE JobDone
    <3>1. Feed!Finish
      BY <1>4, <2>1 DEF OnEventCallBack, HandleStreamMsg, JobDone, Feed!Finish
    <3>. QED
      BY <3>1 DEF Feed!Next
  <2>2. CASE JobAt("lock") \/ JobAt("repost")
    BY <1>4, <2>2 DEF OnEventCallBack, HandleStreamMsg, JobAt, TypeOK, Jobs, Feed!vars
  <2>. QED
    BY <1>4, <2>1, <2>2 DEF OnEventCallBack, HandleStreamMsg
<1>5. CASE Repost
  <2>1. Feed!PutBack
    BY <1>5 DEF Repost, Push, JobDone, Feed!PutBack
  <2>. QED
    BY <2>1 DEF Feed!Next
<1>6. CASE Call
  <2>1. job.event \in Event /\ job.event.iSessionID \in Sessions
    BY <1>6 DEF Call, Event
  <2>2. CASE m_EventCallBack[job.event.iSessionID] = Null
    <3>1. Feed!Finish
      BY <1>6, <2>2 DEF Call, JobDone, Feed!Finish
    <3>. QED
      BY <3>1 DEF Feed!Next
  <2>3. CASE m_EventCallBack[job.event.iSessionID] # Null
    <3>1. job'.event = job.event /\ job'.at = "call"
      BY <1>6, <2>3 DEF Call, TypeOK, Jobs
    <3>2. Feed!Tell
      BY <1>6, <2>1, <2>3, <3>1 DEF Call, Feed!Tell
    <3>. QED
      BY <3>2 DEF Feed!Next
  <2>. QED
    BY <2>2, <2>3
<1>7. CASE Return
  <2>1. Feed!Finish
    BY <1>7 DEF Return, JobDone, Feed!Finish
  <2>. QED
    BY <2>1 DEF Feed!Next
<1>. QED
  BY <1>1, <1>2, <1>3, <1>4, <1>5, <1>6, <1>7 DEF Job

LEMMA StepFeeds ==
    ASSUME EventInv, [Next]_vars
    PROVE  [Feed!Next]_(Feed!vars)
<1>. USE DEF EventInv
<1>1. CASE Posts
  <2>1. PICK e \in Event : Push(e)
    <3>1. m_pUser \in Sessions \/ ~\E s \in Sessions : PostStream(s)
      BY DEF LastIsKnown, PostStream
    <3>. QED
      BY <1>1, <3>1 DEF Posts, PostNotice, PostStream, PostOffline, Event
  <2>2. UNCHANGED <<job, m_EventCallBack>>
    BY <1>1 DEF Posts, PostNotice, PostStream, PostOffline
  <2>. QED
    BY <2>1, <2>2, PushPosts
<1>2. CASE SetEventCallBack
  <2>1. pc[Client].of \in Sessions
    BY <1>2 DEF SetEventCallBack, TypeOK, Places, Threads
  <2>. QED
    BY <1>2, <2>1, SetRegisters DEF SetEventCallBack
<1>3. CASE \E t \in Threads : Clear(t)
  <2>1. PICK t \in Threads : Clear(t)
    BY <1>3
  <2>2. pc[t].of \in Sessions
    BY <2>1 DEF Clear, TypeOK, Places
  <2>. QED
    BY <2>1, <2>2, SetRegisters DEF Clear
<1>4. CASE Start
  <2>1. job.event = NoEvent /\ job.at # "call"
    BY <1>4, Hand DEF Start, CleanedUpIsQuiet
  <2>. QED
    BY <1>4, <2>1 DEF Start, JobDone, Feed!vars
<1>5. CASE UNCHANGED <<m_eventQueue, job, m_EventCallBack>>
  BY <1>5 DEF Feed!vars
<1>. QED
  BY <1>1, <1>2, <1>3, <1>4, <1>5, JobFeeds
  DEF Next, vars, Clients, Logout, Login, SetFinds, Play, ClientLogout, Cleanup, UnInit,
      CleanupSize, CleanupFirst, LogoutFinds, FreeSessoinID, LogoutEnds

\* The threads together are a feed that keeps the order, tells each event at most
\* once, loses only the oldest one, and calls nobody who has cancelled.
THEOREM ImplementsFeedCorrect == Spec => ImplementsFeed
<1>1. Init => Feed!Init
  BY DEF Init, Feed!Init
<1>2. EventInv /\ [Next]_vars => [Feed!Next]_(Feed!vars)
  BY StepFeeds
<1>. QED
  BY EventInvCorrect, <1>1, <1>2, PTL DEF Spec, ImplementsFeed, Feed!Spec

=============================================================================
