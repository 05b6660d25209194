----------------------------- MODULE RtspSession -----------------------------
(***************************************************************************)
(* One session of the RTSP client library (IVS_SDK/rtsp_client): the calls *)
(* that send a request and wait for its answer, the reactor thread that    *)
(* receives, the timer that sweeps the session list, and the threads that  *)
(* delete what the timer has released.  All handles of the SDK are         *)
(* synchronous (RTSP_CLIENT_GetHandle(true, ...)).                         *)
(*                                                                         *)
(* A call runs under m_SessionMutex, a received message under m_Mutex.  The*)
(* message the call waits for (m_pRtspMsg), the semaphore and the return   *)
(* flag belong to both sides, and a call takes m_Mutex only once it has    *)
(* timed out or was refused: the steps below are cut at these places.       *)
(***************************************************************************)
EXTENDS Integers, Sequences, FiniteSets

CONSTANTS
    Callers,    \* the threads that call the library with the handle
    NoCaller,   \* nobody holds m_SessionMutex
    MaxSeq,     \* bound: requests made in one session (the CSeq's width is not met)
    SetupAgain  \* a caller may send SETUP more than once on one handle

ASSUME CallersAssumption == NoCaller \notin Callers /\ MaxSeq \in Nat

VARIABLES
    s,          \* the CRtspSession object
    listed,     \* it is in CRtspSessionManager's m_RtspSessionList
    registered, \* how many times it is in CRtspReactorManager's m_FreeSessionList
    handle,     \* the client's handle is not 0
    holder,     \* who holds m_SessionMutex
    handler,    \* what the reactor thread does under m_Mutex
    sweeping,   \* the timer has disconnected the session, holding the list's mutex
    requests,   \* requests the server has not answered
    wire,       \* what the server has sent and the session has not read
    announced,  \* bound: the server announces the end of a stream once
    granted,    \* history: the requests the server answered with 200
    spare,      \* history: a token was released that no waiting call was there to take
    pc, op,     \* where each caller is, and in which call
    mine,       \* the request of the caller's current call
    result      \* what the caller's last call returned

vars == <<s, listed, registered, handle, holder, handler, sweeping, requests,
          wire, announced, granted, spare, pc, op, mine, result>>

reactorVars == <<handler, requests, wire, announced, granted>>
callerVars == <<pc, op, mine, result, holder, handle>>

Methods == {"setup", "play", "pause", "teardown"}
Statuses == {"INIT", "READY", "PLAYING", "ABNORMAL", "DELETE"}
NoMsg == [op |-> "none", cseq |-> 0]
Idle == [at |-> "idle", ok |-> FALSE, msg |-> NoMsg]
NoResult == [op |-> "none", cseq |-> 0, ret |-> "none"]
AnnounceMsg == [msg |-> NoMsg, ok |-> TRUE]

\* The constructor of CRtspSession.
Fresh == [object |-> "live", status |-> "INIT", stream |-> "none", msg |-> NoMsg,
          cseq |-> 0, sem |-> 0, retFlag |-> FALSE, retOk |-> TRUE,
          connectFail |-> FALSE, delFlag |-> FALSE, timer |-> FALSE]

Init ==
    /\ s = [Fresh EXCEPT !.object = "none"]
    /\ listed = FALSE /\ registered = 0 /\ handle = FALSE
    /\ holder = NoCaller /\ handler = Idle /\ sweeping = FALSE
    /\ requests = {} /\ wire = <<>> /\ announced = FALSE
    /\ granted = {} /\ spare = FALSE
    /\ pc = [c \in Callers |-> "idle"]
    /\ op = [c \in Callers |-> "none"]
    /\ mine = [c \in Callers |-> NoMsg]
    /\ result = [c \in Callers |-> NoResult]

-----------------------------------------------------------------------------
(* Helpers *)

Live == s.object = "live"

\* Mutant: the RTP timer survives the connection.
DisconnectedKeepsTimer(x) == [x EXCEPT !.stream = "none"]

\* disconnectPeer: the timer is cancelled, the connection closed if there is one.
Disconnected(x) == [x EXCEPT !.timer = FALSE, !.stream = "none"]

\* What is in flight is lost with the connection.
WireLost == requests' = {} /\ wire' = <<>>

\* handleRtsp...Msg, handle_input: the flag is set and the waiting call woken.
Woken(x, flag) == [x EXCEPT !.retFlag = flag, !.sem = @ + 1]
NoteSpare == spare' = (spare \/ s.sem > 0 \/ \A c \in Callers : pc[c] # "wait")

Goto(c, location) == pc' = [pc EXCEPT ![c] = location]

\* The call returns and the guard on m_SessionMutex is destroyed.
Return(c, seq, ret) ==
    /\ Goto(c, "idle")
    /\ holder' = NoCaller
    /\ result' = [result EXCEPT ![c] = [op |-> op[c], cseq |-> seq, ret |-> ret]]
    /\ UNCHANGED <<op, mine>>

-----------------------------------------------------------------------------
(* The calls *)

\* RTSP_CLIENT_GetHandle; the previous session of this handle is gone.
GetHandle ==
    /\ ~handle /\ ~Live /\ registered = 0 /\ \A c \in Callers : pc[c] = "idle"
    /\ s' = Fresh
    /\ listed' = TRUE /\ handle' = TRUE
    /\ WireLost /\ announced' = FALSE /\ granted' = {} /\ spare' = FALSE
    /\ result' = [c \in Callers |-> NoResult]
    /\ UNCHANGED <<registered, holder, handler, sweeping, pc, op, mine>>

\* A call begins: findSession, under the mutex of the list.
Begin(c, o) ==
    /\ pc[c] = "idle" /\ handle /\ listed /\ ~sweeping
    /\ o # "free" => s.cseq + Cardinality({d \in Callers : pc[d] # "idle"}) < MaxSeq
    /\ o = "setup" => SetupAgain \/ s.cseq = 0
    /\ Goto(c, IF o = "free" THEN "freeing" ELSE "locking")
    /\ op' = [op EXCEPT ![c] = o]
    /\ mine' = [mine EXCEPT ![c] = NoMsg]
    /\ UNCHANGED <<s, listed, registered, handle, holder, sweeping, result, spare,
                   reactorVars>>

\* Mutant: FreeHandle deletes a connected session too.
FreeAtOnce(c) ==
    /\ pc[c] = "freeing" /\ Live /\ ~sweeping /\ handler = Idle
    /\ listed' = FALSE /\ handle' = FALSE
    /\ s' = [s EXCEPT !.object = "deleted"]
    /\ Goto(c, "idle")
    /\ UNCHANGED <<registered, holder, sweeping, op, mine, result, spare, reactorVars>>

\* RTSP_CLIENT_FreeHandle of a session whose connect failed: the caller deletes it
\* (the destructor takes m_Mutex).
FreeConnectFailed(c) ==
    /\ pc[c] = "freeing" /\ Live /\ s.connectFail /\ ~sweeping /\ handler = Idle
    /\ listed' = FALSE /\ handle' = FALSE
    /\ s' = [s EXCEPT !.object = "deleted"]
    /\ Goto(c, "idle")
    /\ UNCHANGED <<registered, holder, sweeping, op, mine, result, spare, reactorVars>>

\* ... of any other: m_SessionMutex is wanted.
FreeConnected(c) ==
    /\ pc[c] = "freeing" /\ Live /\ ~s.connectFail
    /\ Goto(c, "locking")
    /\ UNCHANGED <<s, listed, registered, handle, holder, sweeping, op, mine,
                   result, spare, reactorVars>>

\* Mutant: the guard on m_SessionMutex is missing.
LockNothing(c) ==
    /\ pc[c] = "locking" /\ Live
    /\ holder' = c
    /\ Goto(c, "inside")
    /\ UNCHANGED <<s, listed, registered, handle, sweeping, op, mine, result,
                   spare, reactorVars>>

Lock(c) ==
    /\ pc[c] = "locking" /\ Live /\ holder = NoCaller
    /\ holder' = c
    /\ Goto(c, "inside")
    /\ UNCHANGED <<s, listed, registered, handle, sweeping, op, mine, result,
                   spare, reactorVars>>

\* The status a call does not accept, and what it then returns.
Refusal(o) ==
    CASE o = "setup"    -> IF s.status # "INIT" THEN "fail" ELSE "none"
      [] o = "play"     -> IF s.status = "INIT" THEN "fail" ELSE "none"
      [] o = "pause"    -> IF s.status = "READY" THEN "ok"
                           ELSE IF s.status # "PLAYING" THEN "fail" ELSE "none"
      [] o = "teardown" -> IF s.status = "INIT" THEN "ok" ELSE "none"
      [] OTHER          -> "none"

Refuse(c) ==
    /\ pc[c] = "inside" /\ Live /\ op[c] \in Methods /\ Refusal(op[c]) # "none"
    /\ Return(c, 0, Refusal(op[c]))
    /\ UNCHANGED <<s, listed, registered, handle, sweeping, spare, reactorVars>>

\* createRtspMessage deletes the message that is there; nothing but m_SessionMutex
\* is held.
CreateMessage(c) ==
    /\ pc[c] = "inside" /\ Live /\ op[c] \in Methods /\ Refusal(op[c]) = "none"
    /\ LET m == [op |-> op[c], cseq |-> s.cseq + 1] IN
       /\ s' = [s EXCEPT !.msg = m, !.cseq = @ + 1]
       /\ mine' = [mine EXCEPT ![c] = m]
    /\ Goto(c, IF op[c] = "setup" THEN "connect" ELSE "send")
    /\ UNCHANGED <<listed, registered, handle, holder, sweeping, op, result, spare,
                   reactorVars>>

\* RTSP_CLIENT_FreeHandle, and the client forgets its handle.
MarkFreed(c) ==
    /\ pc[c] = "inside" /\ Live /\ op[c] = "free"
    /\ s' = [s EXCEPT !.status = "ABNORMAL"]
    /\ handle' = FALSE
    /\ Return(c, 0, "ok")
    /\ UNCHANGED <<listed, registered, sweeping, spare, reactorVars>>

\* connectPeer: a connection that is there is used; a new one is registered.
Connect(c) ==
    /\ pc[c] = "connect" /\ Live
    /\ IF s.stream # "none"
       THEN UNCHANGED <<s, registered, requests, wire>>
       ELSE /\ s' = [s EXCEPT !.stream = "open"]
            /\ registered' = registered + 1
            /\ WireLost
    /\ Goto(c, "send")
    /\ UNCHANGED <<listed, handle, holder, sweeping, op, mine, result, handler,
                   announced, granted, spare>>

\* connectPeer fails: three times refused, or at the socket's options or the
\* registration, which do not count as a failure to connect.
ConnectFails(c) ==
    /\ pc[c] = "connect" /\ Live /\ s.stream = "none"
    /\ \E refused \in BOOLEAN :
          s' = [Disconnected(s) EXCEPT !.connectFail = @ \/ refused]
    /\ Return(c, 0, "fail")
    /\ UNCHANGED <<listed, registered, handle, sweeping, spare, reactorVars>>

\* sendMessage.  The first send after the server has closed may still succeed.
Send(c) ==
    /\ pc[c] = "send" /\ Live /\ s.stream # "none"
    /\ requests' = IF s.stream = "open" THEN requests \union {mine[c]} ELSE requests
    /\ Goto(c, "wait")
    /\ UNCHANGED <<s, listed, registered, handle, holder, sweeping, op, mine,
                   result, handler, wire, announced, granted, spare>>

\* sendMessage finds the connection lost (the message stays) or cannot send now
\* (the message is destroyed).
SendFails(c) ==
    /\ pc[c] = "send" /\ Live
    /\ \/ /\ s.stream # "open"
          /\ s' = Disconnected(s)
          /\ WireLost
       \/ /\ s.stream # "none"
          /\ s' = [s EXCEPT !.msg = NoMsg]
          /\ UNCHANGED <<requests, wire>>
    /\ Return(c, 0, "fail")
    /\ UNCHANGED <<listed, registered, handle, sweeping, handler, announced, granted,
                   spare>>

\* Mutant: the semaphore is taken although it is 0.
AcquireAnyway(c) ==
    /\ pc[c] = "wait" /\ Live
    /\ s' = [s EXCEPT !.sem = @ - 1]
    /\ Goto(c, "woken")
    /\ UNCHANGED <<listed, registered, handle, holder, sweeping, op, mine, result,
                   spare, reactorVars>>

\* m_pRtspSemaphore->acquire: a token ...
Acquire(c) ==
    /\ pc[c] = "wait" /\ Live /\ s.sem > 0
    /\ s' = [s EXCEPT !.sem = @ - 1]
    /\ Goto(c, "woken")
    /\ UNCHANGED <<listed, registered, handle, holder, sweeping, op, mine, result,
                   spare, reactorVars>>

\* Mutant: the wait has no time limit.
NoTimeout(c) == FALSE /\ c = c /\ UNCHANGED vars

\* ... or, in time, none.
TimeOut(c) ==
    /\ pc[c] = "wait" /\ Live /\ s.sem = 0
    /\ Goto(c, "expired")
    /\ UNCHANGED <<s, listed, registered, handle, holder, sweeping, op, mine,
                   result, spare, reactorVars>>

\* Mutant: the message is destroyed without m_Mutex.
ExpireUnlocked(c) ==
    /\ pc[c] = "expired" /\ Live
    /\ s' = [s EXCEPT !.msg = NoMsg]
    /\ Return(c, 0, "fail")
    /\ UNCHANGED <<listed, registered, handle, sweeping, spare, reactorVars>>

\* Mutant: the message is not destroyed.
ExpireKeepsMessage(c) ==
    /\ pc[c] = "expired" /\ Live /\ handler = Idle
    /\ Return(c, 0, "fail")
    /\ UNCHANGED <<s, listed, registered, handle, sweeping, spare, reactorVars>>

\* RTSP_ERR_TIMEOUT, under m_Mutex.
Expire(c) ==
    /\ pc[c] = "expired" /\ Live /\ handler = Idle
    /\ s' = [s EXCEPT !.msg = NoMsg]
    /\ Return(c, 0, "fail")
    /\ UNCHANGED <<listed, registered, handle, sweeping, spare, reactorVars>>

\* PLAY, PAUSE and TEARDOWN go by the flag alone.  PLAY starts the RTP timer.
ReturnByFlag(c) ==
    /\ pc[c] = "woken" /\ Live /\ op[c] # "setup"
    /\ s' = [s EXCEPT !.timer = @ \/ (s.retFlag /\ op[c] = "play")]
    /\ Return(c, mine[c].cseq, IF s.retFlag THEN "ok" ELSE "fail")
    /\ UNCHANGED <<listed, registered, handle, sweeping, spare, reactorVars>>

\* handleSynchSetup, the flag is set: the answer is read from the message.
SetupDone(c) ==
    /\ pc[c] = "woken" /\ Live /\ op[c] = "setup" /\ s.retFlag
    /\ IF s.msg = NoMsg
       THEN UNCHANGED s /\ Return(c, 0, "fail")
       ELSE /\ s' = [s EXCEPT !.msg = NoMsg, !.status = "READY"]
            /\ Return(c, mine[c].cseq, "ok")
    /\ UNCHANGED <<listed, registered, handle, sweeping, spare, reactorVars>>

\* The flag is not set: m_Mutex is wanted ...
SetupRefused(c) ==
    /\ pc[c] = "woken" /\ Live /\ op[c] = "setup" /\ ~s.retFlag
    /\ Goto(c, "refused")
    /\ UNCHANGED <<s, listed, registered, handle, holder, sweeping, op, mine,
                   result, spare, reactorVars>>

\* ... and m_iRetCode is what the call returns.
ReturnRetCode(c) ==
    /\ pc[c] = "refused" /\ Live /\ handler = Idle
    /\ s' = [s EXCEPT !.msg = NoMsg]
    /\ Return(c, mine[c].cseq, IF s.retOk THEN "ok" ELSE "fail")
    /\ UNCHANGED <<listed, registered, handle, sweeping, spare, reactorVars>>

\* The session was deleted under the caller's feet: the end of the program.
UseDeleted(c) ==
    /\ pc[c] \notin {"idle", "crashed"} /\ ~Live
    /\ Goto(c, "crashed")
    /\ UNCHANGED <<s, listed, registered, handle, holder, sweeping, op, mine,
                   result, spare, reactorVars>>

-----------------------------------------------------------------------------
(* The server *)

Answer(m, ok) ==
    /\ s.stream = "open" /\ m \in requests
    /\ requests' = requests \ {m}
    /\ wire' = Append(wire, [msg |-> m, ok |-> ok])
    /\ granted' = IF ok THEN granted \union {m.cseq} ELSE granted
    /\ UNCHANGED <<s, listed, registered, sweeping, handler, announced, spare,
                   callerVars>>

Announce ==
    /\ s.stream = "open" /\ ~announced
    /\ wire' = Append(wire, AnnounceMsg)
    /\ announced' = TRUE
    /\ UNCHANGED <<s, listed, registered, sweeping, handler, requests, granted, spare,
                   callerVars>>

ServerCloses ==
    /\ s.stream = "open"
    /\ s' = [s EXCEPT !.stream = "reset"]
    /\ requests' = {}
    /\ UNCHANGED <<listed, registered, sweeping, handler, wire, announced, granted,
                   spare, callerVars>>

-----------------------------------------------------------------------------
(* The reactor thread of the session: handle_input, under m_Mutex *)

\* Mutant: the answer's CSeq is not looked at.
TakeInputUnmatched ==
    /\ Live /\ handler = Idle /\ s.stream # "none" /\ wire # <<>>
    /\ wire' = Tail(wire)
    /\ LET in == Head(wire) IN
       handler' = IF in = AnnounceMsg THEN [Idle EXCEPT !.at = "announce"]
                  ELSE IF s.msg # NoMsg
                       THEN [at |-> "apply", ok |-> in.ok, msg |-> s.msg]
                       ELSE Idle
    /\ UNCHANGED <<s, listed, registered, sweeping, requests, announced, granted,
                   spare, callerVars>>

\* An ANNOUNCE is answered; an answer counts when its CSeq is the message's.
TakeInput ==
    /\ Live /\ handler = Idle /\ s.stream # "none" /\ wire # <<>>
    /\ wire' = Tail(wire)
    /\ LET in == Head(wire) IN
       handler' = IF in = AnnounceMsg THEN [Idle EXCEPT !.at = "announce"]
                  ELSE IF s.msg.cseq = in.msg.cseq
                       THEN [at |-> "apply", ok |-> in.ok, msg |-> in.msg]
                       ELSE Idle
    /\ UNCHANGED <<s, listed, registered, sweeping, requests, announced, granted,
                   spare, callerVars>>

Applying(o) == handler.at = "apply" /\ s.msg.op = o
HandlerDone == handler' = Idle /\ UNCHANGED <<listed, registered, sweeping, announced, granted, callerVars>>

\* handleRtspSetupMsg: the message is left to the caller.
ApplySetup ==
    /\ Applying("setup")
    /\ s' = IF s.status = "INIT" /\ handler.ok
            THEN [Woken(s, TRUE) EXCEPT !.status = "READY"]
            ELSE [Woken(s, FALSE) EXCEPT !.retOk = handler.ok]
    /\ NoteSpare /\ HandlerDone /\ UNCHANGED <<requests, wire>>

\* handleRtspPlayMsg.
ApplyPlay ==
    /\ Applying("play")
    /\ s' = IF s.status # "INIT" /\ handler.ok
            THEN [Woken(s, TRUE) EXCEPT !.msg = NoMsg, !.status = "PLAYING"]
            ELSE [Woken(s, FALSE) EXCEPT !.msg = NoMsg]
    /\ NoteSpare /\ HandlerDone /\ UNCHANGED <<requests, wire>>

\* handleRtspPauseMsg: nobody is woken when the status is READY already.
ApplyPause ==
    /\ Applying("pause")
    /\ IF s.status = "READY"
       THEN s' = [s EXCEPT !.msg = NoMsg] /\ UNCHANGED spare
       ELSE /\ s' = IF s.status = "PLAYING" /\ handler.ok
                    THEN [Woken(s, TRUE) EXCEPT !.msg = NoMsg, !.status = "READY"]
                    ELSE [Woken(s, FALSE) EXCEPT !.msg = NoMsg]
            /\ NoteSpare
    /\ HandlerDone /\ UNCHANGED <<requests, wire>>

\* handleRtspTeardownMsg: the connection is closed whatever the answer is.
ApplyTeardown ==
    /\ Applying("teardown")
    /\ IF s.status = "INIT"
       THEN UNCHANGED <<s, requests, wire, spare>>
       ELSE /\ s' = Disconnected(Woken(s, handler.ok))
            /\ WireLost
            /\ NoteSpare
    /\ HandlerDone

\* handleRtspRespMsg finds no message any more.
ApplyNothing ==
    /\ Applying("none")
    /\ HandlerDone /\ UNCHANGED <<s, requests, wire, spare>>

\* handleRtspAnnounceMsg sends its reply with sendMessage, which closes a lost
\* connection and, when it cannot send now, destroys m_pRtspMsg.
AnswerAnnounce ==
    /\ handler.at = "announce"
    /\ \/ UNCHANGED <<s, requests, wire>>
       \/ s.stream # "none" /\ s' = [s EXCEPT !.msg = NoMsg] /\ UNCHANGED <<requests, wire>>
       \/ s.stream # "open" /\ s' = Disconnected(s) /\ WireLost
    /\ HandlerDone /\ UNCHANGED spare

\* recv finds the connection closed: disconnectPeer, and whoever waits is woken.
InputCloses ==
    /\ Live /\ handler = Idle /\ s.stream = "reset" /\ wire = <<>>
    /\ s' = Disconnected(Woken(s, FALSE))
    /\ WireLost /\ NoteSpare /\ HandlerDone

\* handle_timeout: no RTP data for too long; the timer is killed.
RtpTimeout ==
    /\ Live /\ s.timer
    /\ s' = [s EXCEPT !.timer = FALSE]
    /\ UNCHANGED <<listed, registered, sweeping, spare, reactorVars, callerVars>>

-----------------------------------------------------------------------------
(* The timer of the manager and the threads that delete *)

\* handle_timeout of CRtspSessionManager disconnects a session that was freed ...
Sweep ==
    /\ listed /\ Live /\ ~sweeping /\ s.status = "ABNORMAL"
    /\ s' = Disconnected(s)
    /\ WireLost
    /\ sweeping' = TRUE
    /\ UNCHANGED <<listed, registered, handler, announced, granted, spare, callerVars>>

\* ... and marks it, in the same pass ...
SweepMarks ==
    /\ sweeping
    /\ s' = [s EXCEPT !.status = "DELETE"]
    /\ sweeping' = FALSE
    /\ UNCHANGED <<listed, registered, spare, reactorVars, callerVars>>

\* Mutant: setDelFlag is not called.
SweepForgets ==
    /\ listed /\ Live /\ ~sweeping /\ s.status = "DELETE"
    /\ listed' = FALSE
    /\ UNCHANGED <<s, registered, sweeping, spare, reactorVars, callerVars>>

\* ... and takes it off the list a second later.
SweepErases ==
    /\ listed /\ Live /\ ~sweeping /\ s.status = "DELETE"
    /\ listed' = FALSE
    /\ s' = [s EXCEPT !.delFlag = TRUE]
    /\ UNCHANGED <<registered, sweeping, spare, reactorVars, callerVars>>

\* Mutant: the flag is not looked at.
ReapAny ==
    /\ Live /\ registered > 0 /\ handler = Idle
    /\ s' = [s EXCEPT !.object = "deleted"]
    /\ registered' = registered - 1
    /\ UNCHANGED <<listed, sweeping, spare, reactorVars, callerVars>>

\* svc of a reactor thread deletes what is registered and flagged.
Reap ==
    /\ Live /\ registered > 0 /\ s.delFlag /\ handler = Idle
    /\ s' = [s EXCEPT !.object = "deleted"]
    /\ registered' = registered - 1
    /\ UNCHANGED <<listed, sweeping, spare, reactorVars, callerVars>>

-----------------------------------------------------------------------------

\* The steps of a call that has begun.
Proceed(c) ==
    \/ FreeConnectFailed(c) \/ FreeConnected(c) \/ Lock(c)
    \/ Refuse(c) \/ CreateMessage(c) \/ MarkFreed(c)
    \/ Connect(c) \/ ConnectFails(c) \/ Send(c) \/ SendFails(c)
    \/ Acquire(c) \/ TimeOut(c) \/ Expire(c)
    \/ ReturnByFlag(c) \/ SetupDone(c) \/ SetupRefused(c) \/ ReturnRetCode(c)
    \/ UseDeleted(c)

Server ==
    \/ \E m \in requests, ok \in BOOLEAN : Answer(m, ok)
    \/ Announce \/ ServerCloses

Handle ==
    \/ TakeInput \/ InputCloses
    \/ ApplySetup \/ ApplyPlay \/ ApplyPause \/ ApplyTeardown \/ ApplyNothing
    \/ AnswerAnnounce

Manager == Sweep \/ SweepMarks \/ SweepErases \/ Reap

Next ==
    \/ GetHandle
    \/ \E c \in Callers : (\E o \in Methods \union {"free"} : Begin(c, o)) \/ Proceed(c)
    \/ Server \/ Handle \/ RtpTimeout \/ Manager

Spec == Init /\ [][Next]_vars

\* A call that has begun goes on (acquire has a time limit), the reactor threads
\* serve what has arrived, and the timer and the reapers run for ever; nothing
\* obliges the server or the client.
FairSpec ==
    /\ Spec
    /\ \A c \in Callers : WF_vars(Proceed(c))
    /\ WF_vars(Handle)
    /\ WF_vars(Sweep \/ SweepMarks \/ SweepErases)
    /\ WF_vars(Reap)

-----------------------------------------------------------------------------
(* Properties *)

Messages == [op : Methods \union {"none"}, cseq : Nat]
Locations == {"idle", "freeing", "locking", "inside", "connect", "send", "wait",
              "woken", "expired", "refused", "crashed"}
Sessions ==
    [object : {"none", "live", "deleted"}, status : Statuses,
     stream : {"none", "open", "reset"}, msg : Messages, cseq : Nat, sem : Nat,
     retFlag : BOOLEAN, retOk : BOOLEAN, connectFail : BOOLEAN, delFlag : BOOLEAN,
     timer : BOOLEAN]
Handlers == [at : {"idle", "apply", "announce"}, ok : BOOLEAN, msg : Messages]
Arrivals == [msg : Messages, ok : BOOLEAN]
Results == [op : Methods \union {"none", "free"}, cseq : Nat, ret : {"none", "ok", "fail"}]

\* Type invariant of the session, the library and the calls.
TypeOK ==
    /\ s \in Sessions
    /\ listed \in BOOLEAN /\ registered \in Nat /\ handle \in BOOLEAN
    /\ holder \in Callers \union {NoCaller}
    /\ handler \in Handlers /\ sweeping \in BOOLEAN
    /\ requests \subseteq Messages /\ wire \in Seq(Arrivals)
    /\ announced \in BOOLEAN /\ granted \subseteq Nat /\ spare \in BOOLEAN
    /\ pc \in [Callers -> Locations]
    /\ op \in [Callers -> Methods \union {"none", "free"}]
    /\ mine \in [Callers -> Messages]
    /\ result \in [Callers -> Results]

Holding == {"inside", "connect", "send", "wait", "woken", "expired", "refused"}

\* At most one call is past the lock, and as long as it has not returned the
\* message of the session is the one it made, or has been destroyed: the answer
\* a call waits for is never given to the request of another call
\* (createRtspMessage replaces m_pRtspMsg under m_SessionMutex alone).
MessageOwner ==
    \A c \in Callers : pc[c] \in Holding =>
        /\ holder = c
        /\ pc[c] # "inside" => s.msg \in {mine[c], NoMsg}

\* While every token was for a call that waited, a message that the reactor thread
\* is decoding is not replaced or destroyed by a caller: destroyRtspMsg of a call
\* that times out takes m_Mutex, createRtspMessage does not.
HandlerKeepsMessage ==
    handler.at = "apply" /\ ~spare => s.msg = handler.msg

\* No call is running on a session that has been deleted, neither by the thread
\* that reaps nor by the FreeHandle of a failed connection.
NeverUseDeleted == \A c \in Callers : pc[c] # "idle" => Live

\* The reactor's list of sessions holds no session that was deleted already.
RegisteredIsLive == registered > 0 => Live

\* A session is deleted without a connection and without a timer that would call
\* it back.
DeletedIsQuiet == s.object = "deleted" => ~s.timer /\ s.stream = "none"

\* PLAY, PAUSE or TEARDOWN return RET_OK after a request only if the server said
\* so, as long as every token was for a call that waited.
OkMeansGranted ==
    \A c \in Callers :
        /\ result[c].ret = "ok" /\ result[c].cseq > 0 /\ result[c].op # "setup"
        /\ ~spare
        => result[c].cseq \in granted

\* A session that was freed does not come back to life by a late answer.
FreedStaysFreed ==
    [][s.status = "ABNORMAL" /\ Live /\ ~spare =>
          s'.status \in {"ABNORMAL", "DELETE"} \/ s'.object = "deleted"]_vars

\* Every call returns, whatever the server does.
CallReturns == \A c \in Callers : pc[c] # "idle" ~> pc[c] = "idle"

\* A session that was connected and is freed is deleted in the end.
FreedIsDeleted ==
    Live /\ ~handle /\ registered > 0 /\ ~spare ~> s.object = "deleted"

\* What the header comment of SETUP says: RET_OK is success (rtsp_client_api.cpp:512).
SetupOkMeansGranted ==
    \A c \in Callers :
        result[c].ret = "ok" /\ result[c].op = "setup" => result[c].cseq \in granted

=============================================================================
