-------------------------- MODULE RtspSessionProofs --------------------------
(* Theorems about RtspSession for any set of callers, any bound on the       *)
(* requests and with or without repeated SETUPs.                             *)
EXTENDS RtspSession, TLAPS


\* A session stays one when a field is given a value of its type.
LEMMA SetField ==
    ASSUME NEW x \in Sessions
    PROVE  /\ \A v \in {"none", "live", "deleted"} : [x EXCEPT !.object = v] \in Sessions
           /\ \A v \in Statuses : [x EXCEPT !.status = v] \in Sessions
           /\ \A v \in {"none", "open", "reset"} : [x EXCEPT !.stream = v] \in Sessions
           /\ \A v \in Messages : [x EXCEPT !.msg = v] \in Sessions
           /\ \A v \in Nat : [x EXCEPT !.cseq = v] \in Sessions
           /\ \A v \in Nat : [x EXCEPT !.sem = v] \in Sessions
           /\ \A v \in BOOLEAN : [x EXCEPT !.retFlag = v] \in Sessions
           /\ \A v \in BOOLEAN : [x EXCEPT !.retOk = v] \in Sessions
           /\ \A v \in BOOLEAN : [x EXCEPT !.connectFail = v] \in Sessions
           /\ \A v \in BOOLEAN : [x EXCEPT !.delFlag = v] \in Sessions
           /\ \A v \in BOOLEAN : [x EXCEPT !.timer = v] \in Sessions
BY DEF Sessions

\* Two fields given together are two fields given one after the other.
LEMMA SetTwoFields ==
    ASSUME NEW x \in Sessions, NEW u, NEW v
    PROVE  /\ [x EXCEPT !.timer = u, !.stream = v]
                = [[x EXCEPT !.timer = u] EXCEPT !.stream = v]
           /\ [x EXCEPT !.retFlag = u, !.sem = v]
                = [[x EXCEPT !.retFlag = u] EXCEPT !.sem = v]
           /\ [x EXCEPT !.msg = u, !.status = v]
                = [[x EXCEPT !.msg = u] EXCEPT !.status = v]
           /\ [x EXCEPT !.msg = u, !.cseq = v]
                = [[x EXCEPT !.msg = u] EXCEPT !.cseq = v]
BY DEF Sessions

LEMMA Fields ==
    ASSUME NEW x \in Sessions
    PROVE  /\ x.cseq \in Nat /\ x.sem \in Nat /\ x.msg \in Messages
           /\ x.retFlag \in BOOLEAN /\ x.timer \in BOOLEAN /\ x.connectFail \in BOOLEAN
BY DEF Sessions

\* What disconnectPeer and the release of the semaphore make of a session is a
\* session (RtspSession.cpp, disconnectPeer and handleRtsp...Msg).
LEMMA DisconnectedType ==
    ASSUME NEW x \in Sessions
    PROVE  Disconnected(x) \in Sessions
BY SetField, SetTwoFields DEF Disconnected

LEMMA WokenType ==
    ASSUME NEW x \in Sessions, NEW flag \in BOOLEAN
    PROVE  Woken(x, flag) \in Sessions
<1>1. x.sem + 1 \in Nat
  BY Fields
<1>. QED
  BY <1>1, SetField, SetTwoFields DEF Woken

\* A call that returns leaves the callers' state well typed.
LEMMA ReturnType ==
    ASSUME TypeOK, NEW c \in Callers, NEW seq \in Nat, NEW ret \in {"none", "ok", "fail"},
           Return(c, seq, ret)
    PROVE  /\ holder' \in Callers \union {NoCaller}
           /\ pc' \in [Callers -> Locations]
           /\ op' \in [Callers -> Methods \union {"none", "free"}]
           /\ mine' \in [Callers -> Messages]
           /\ result' \in [Callers -> Results]
<1>1. op[c] \in Methods \union {"none", "free"}
  BY DEF TypeOK
<1>2. [op |-> op[c], cseq |-> seq, ret |-> ret] \in Results
  BY <1>1 DEF Results
<1>. QED
  BY <1>2 DEF TypeOK, Return, Goto, Locations

\* The values a session, a handler and a wire start from are well typed.
LEMMA StartTypes ==
    /\ NoMsg \in Messages
    /\ Fresh \in Sessions
    /\ Idle \in Handlers
    /\ NoResult \in Results
    /\ AnnounceMsg \in Arrivals
    /\ <<>> \in Seq(Arrivals)
<1>1. NoMsg \in Messages
  BY DEF NoMsg, Messages
<1>2. Fresh \in Sessions
  BY <1>1 DEF Fresh, Sessions, Statuses
<1>. QED
  BY <1>1, <1>2 DEF Idle, Handlers, NoResult, Results, AnnounceMsg, Arrivals

LEMMA InitTypeOK == Init => TypeOK
<1>. SUFFICES ASSUME Init PROVE TypeOK
  OBVIOUS
<1>1. s \in Sessions
  BY StartTypes, SetField DEF Init
<1>2. "idle" \in Locations
  BY DEF Locations
<1>. QED
  BY <1>1, <1>2, StartTypes DEF Init, TypeOK

\* Every step of a call leaves the state well typed.
LEMMA ProceedTypeOK ==
    ASSUME TypeOK, NEW c \in Callers, Proceed(c)
    PROVE  TypeOK'
<1>s. s \in Sessions /\ Disconnected(s) \in Sessions
  BY DisconnectedType DEF TypeOK
<1>m. mine[c].cseq \in Nat /\ op[c] \in Methods \union {"none", "free"}
  BY DEF TypeOK, Messages
<1>w. WireLost => requests' \subseteq Messages /\ wire' \in Seq(Arrivals)
  BY StartTypes DEF WireLost
\* A step that only moves the caller.
<1>g. ASSUME NEW location \in Locations, Goto(c, location),
             s' \in Sessions, listed' \in BOOLEAN, handle' \in BOOLEAN,
             holder' \in Callers \union {NoCaller}, registered' \in Nat,
             requests' \subseteq Messages, wire' \in Seq(Arrivals),
             mine' \in [Callers -> Messages],
             UNCHANGED <<sweeping, op, result, spare, handler, announced, granted>>
      PROVE  TypeOK'
  BY <1>g DEF TypeOK, Goto
\* A step that returns from the call.
<1>r. ASSUME NEW seq \in Nat, NEW ret \in {"none", "ok", "fail"}, Return(c, seq, ret),
             s' \in Sessions, handle' \in BOOLEAN,
             requests' \subseteq Messages, wire' \in Seq(Arrivals),
             UNCHANGED <<listed, registered, sweeping, spare, handler, announced, granted>>
      PROVE  TypeOK'
  BY <1>r, ReturnType DEF TypeOK
<1>t. /\ listed \in BOOLEAN /\ handle \in BOOLEAN /\ registered \in Nat
      /\ holder \in Callers \union {NoCaller}
      /\ requests \subseteq Messages /\ wire \in Seq(Arrivals)
      /\ mine \in [Callers -> Messages]
  BY DEF TypeOK
<1>l. {"idle", "locking", "inside", "connect", "send", "wait", "woken", "expired",
       "refused", "crashed"} \subseteq Locations
  BY DEF Locations
<1>1. CASE FreeConnectFailed(c)
  <2>1. s' \in Sessions
    BY <1>1, <1>s, SetField DEF FreeConnectFailed
  <2>. QED
    BY <1>1, <1>g, <1>t, <1>l, <2>1 DEF FreeConnectFailed, reactorVars
<1>2. CASE FreeConnected(c)
  BY <1>2, <1>g, <1>t, <1>l, <1>s DEF FreeConnected, reactorVars
<1>3. CASE Lock(c)
  BY <1>3, <1>g, <1>t, <1>l, <1>s DEF Lock, reactorVars
<1>4. CASE Refuse(c)
  <2>1. Refusal(op[c]) \in {"none", "ok", "fail"}
    BY DEF Refusal
  <2>. QED
    BY <1>4, <1>r, <1>t, <1>s, <2>1 DEF Refuse, reactorVars
<1>5. CASE CreateMessage(c)
  <2>1. s.cseq + 1 \in Nat
    BY <1>s, Fields
  <2>2. [op |-> op[c], cseq |-> s.cseq + 1] \in Messages
    BY <1>5, <2>1 DEF CreateMessage, Messages
  <2>3. s' \in Sessions
    BY <1>5, <1>s, <2>1, <2>2, SetField, SetTwoFields DEF CreateMessage
  <2>4. mine' \in [Callers -> Messages]
    BY <1>5, <1>t, <2>2 DEF CreateMessage
  <2>. QED
    BY <1>5, <1>g, <1>t, <1>l, <2>3, <2>4 DEF CreateMessage, reactorVars
<1>6. CASE MarkFreed(c)
  <2>1. s' \in Sessions
    BY <1>6, <1>s, SetField DEF MarkFreed, Statuses
  <2>. QED
    BY <1>6, <1>r, <1>t, <2>1 DEF MarkFreed, reactorVars
<1>7. CASE Connect(c)
  <2>1. s' \in Sessions
    BY <1>7, <1>s, SetField DEF Connect
  <2>2. registered' \in Nat /\ requests' \subseteq Messages /\ wire' \in Seq(Arrivals)
    BY <1>7, <1>t, <1>w DEF Connect
  <2>. QED
    BY <1>7, <1>g, <1>t, <1>l, <2>1, <2>2 DEF Connect
<1>8. CASE ConnectFails(c)
  <2>1. PICK refused \in BOOLEAN :
          s' = [Disconnected(s) EXCEPT !.connectFail = @ \/ refused]
    BY <1>8 DEF ConnectFails
  <2>2. s' \in Sessions
    BY <2>1, <1>s, SetField, Fields
  <2>. QED
    BY <1>8, <1>r, <1>t, <2>2 DEF ConnectFails, reactorVars
<1>9. CASE Send(c)
  <2>1. requests' \subseteq Messages
    BY <1>9, <1>t DEF Send
  <2>. QED
    BY <1>9, <1>g, <1>t, <1>l, <1>s, <2>1 DEF Send
<1>10. CASE SendFails(c)
  <2>1. s' \in Sessions
    BY <1>10, <1>s, SetField, StartTypes DEF SendFails
  <2>2. requests' \subseteq Messages /\ wire' \in Seq(Arrivals)
    BY <1>10, <1>t, <1>w DEF SendFails
  <2>. QED
    BY <1>10, <1>r, <1>t, <2>1, <2>2 DEF SendFails
<1>11. CASE Acquire(c)
  <2>1. s.sem - 1 \in Nat
    BY <1>11, <1>s, Fields DEF Acquire
  <2>2. s' \in Sessions
    BY <1>11, <1>s, <2>1, SetField DEF Acquire
  <2>. QED
    BY <1>11, <1>g, <1>t, <1>l, <2>2 DEF Acquire, reactorVars
<1>12. CASE TimeOut(c)
  BY <1>12, <1>g, <1>t, <1>l, <1>s DEF TimeOut, reactorVars
<1>13. CASE Expire(c)
  <2>1. s' \in Sessions
    BY <1>13, <1>s, SetField, StartTypes DEF Expire
  <2>. QED
    BY <1>13, <1>r, <1>t, <2>1 DEF Expire, reactorVars
<1>14. CASE ReturnByFlag(c)
  <2>1. s' \in Sessions
    BY <1>14, <1>s, SetField, Fields DEF ReturnByFlag
  <2>. QED
    BY <1>14, <1>r, <1>t, <1>m, <2>1 DEF ReturnByFlag, reactorVars
<1>15. CASE SetupDone(c)
  <2>1. s' \in Sessions
    BY <1>15, <1>s, SetField, SetTwoFields, StartTypes DEF SetupDone, Statuses
  <2>. QED
    BY <1>15, <1>r, <1>t, <1>m, <2>1 DEF SetupDone, reactorVars
<1>16. CASE SetupRefused(c)
  BY <1>16, <1>g, <1>t, <1>l, <1>s DEF SetupRefused, reactorVars
<1>17. CASE ReturnRetCode(c)
  <2>1. s' \in Sessions
    BY <1>17, <1>s, SetField, StartTypes DEF ReturnRetCode
  <2>. QED
    BY <1>17, <1>r, <1>t, <1>m, <2>1 DEF ReturnRetCode, reactorVars
<1>18. CASE UseDeleted(c)
  BY <1>18, <1>g, <1>t, <1>l, <1>s DEF UseDeleted, reactorVars
<1>. QED
  BY <1>1, <1>2, <1>3, <1>4, <1>5, <1>6, <1>7, <1>8, <1>9, <1>10, <1>11, <1>12,
     <1>13, <1>14, <1>15, <1>16, <1>17, <1>18 DEF Proceed

\* Every step of the reactor's thread leaves the state well typed.
LEMMA HandleTypeOK ==
    ASSUME TypeOK, Handle
    PROVE  TypeOK'
<1>s. s \in Sessions /\ Disconnected(s) \in Sessions
      /\ Woken(s, TRUE) \in Sessions /\ Woken(s, FALSE) \in Sessions
  BY DisconnectedType, WokenType DEF TypeOK
<1>h. handler.ok \in BOOLEAN /\ Woken(s, handler.ok) \in Sessions
  BY WokenType DEF TypeOK, Handlers
<1>p. NoteSpare \/ UNCHANGED spare => spare' \in BOOLEAN
  <2>1. spare \in BOOLEAN
    BY DEF TypeOK
  <2>. QED
    BY <2>1 DEF NoteSpare
<1>w. UNCHANGED <<requests, wire>> \/ WireLost =>
          requests' \subseteq Messages /\ wire' \in Seq(Arrivals)
  BY StartTypes DEF WireLost, TypeOK
<1>d. ASSUME s' \in Sessions, spare' \in BOOLEAN, HandlerDone,
             requests' \subseteq Messages, wire' \in Seq(Arrivals)
      PROVE  TypeOK'
  BY <1>d, StartTypes DEF HandlerDone, TypeOK, callerVars
<1>1. CASE TakeInput
  <2>1. Head(wire) \in Arrivals /\ Tail(wire) \in Seq(Arrivals)
    BY <1>1 DEF TakeInput, TypeOK
  <2>2. Head(wire).ok \in BOOLEAN /\ Head(wire).msg \in Messages
    BY <2>1 DEF Arrivals
  <2>3. [Idle EXCEPT !.at = "announce"] \in Handlers
    BY StartTypes DEF Handlers
  <2>4. [at |-> "apply", ok |-> Head(wire).ok, msg |-> Head(wire).msg] \in Handlers
    BY <2>2 DEF Handlers
  <2>5. handler' \in Handlers
    BY <1>1, <2>3, <2>4, StartTypes DEF TakeInput
  <2>. QED
    BY <1>1, <2>1, <2>5 DEF TakeInput, TypeOK, callerVars
<1>2. CASE InputCloses
  <2>1. s' \in Sessions
    BY <1>2, <1>s, DisconnectedType DEF InputCloses
  <2>. QED
    BY <1>2, <1>d, <1>w, <1>p, <2>1 DEF InputCloses
<1>3. CASE ApplySetup
  <2>1. s' \in Sessions
    BY <1>3, <1>h, <1>s, SetField DEF ApplySetup, Statuses
  <2>. QED
    BY <1>3, <1>d, <1>w, <1>p, <2>1 DEF ApplySetup
<1>4. CASE ApplyPlay
  <2>1. s' \in Sessions
    BY <1>4, <1>s, SetField, SetTwoFields, StartTypes DEF ApplyPlay, Statuses
  <2>. QED
    BY <1>4, <1>d, <1>w, <1>p, <2>1 DEF ApplyPlay
<1>5. CASE ApplyPause
  <2>1. /\ [s EXCEPT !.msg = NoMsg] \in Sessions
        /\ [Woken(s, FALSE) EXCEPT !.msg = NoMsg] \in Sessions
    BY <1>s, SetField, StartTypes
  <2>2. [Woken(s, TRUE) EXCEPT !.msg = NoMsg, !.status = "READY"] \in Sessions
    BY <1>s, SetField, SetTwoFields, StartTypes DEF Statuses
  <2>3. s' \in Sessions
    BY <1>5, <2>1, <2>2 DEF ApplyPause
  <2>. QED
    BY <1>5, <1>d, <1>w, <1>p, <2>3 DEF ApplyPause
<1>6. CASE ApplyTeardown
  <2>1. s' \in Sessions
    BY <1>6, <1>h, <1>s, DisconnectedType DEF ApplyTeardown
  <2>. QED
    BY <1>6, <1>d, <1>w, <1>p, <2>1 DEF ApplyTeardown
<1>7. CASE ApplyNothing
  BY <1>7, <1>d, <1>w, <1>p, <1>s DEF ApplyNothing
<1>8. CASE AnswerAnnounce
  <2>1. [s EXCEPT !.msg = NoMsg] \in Sessions
    BY <1>s, SetField, StartTypes
  <2>2. s' \in Sessions
    BY <1>8, <1>s, <2>1 DEF AnswerAnnounce
  <2>. QED
    BY <1>8, <1>d, <1>w, <1>p, <2>2 DEF AnswerAnnounce
<1>. QED
  BY <1>1, <1>2, <1>3, <1>4, <1>5, <1>6, <1>7, <1>8 DEF Handle

LEMMA NextTypeOK == TypeOK /\ [Next]_vars => TypeOK'
<1>. SUFFICES ASSUME TypeOK, [Next]_vars PROVE TypeOK'
  OBVIOUS
<1>s. s \in Sessions
  BY DEF TypeOK
<1>w. WireLost => requests' \subseteq Messages /\ wire' \in Seq(Arrivals)
  BY StartTypes DEF WireLost
<1>1. CASE GetHandle
  BY <1>1, <1>w, StartTypes DEF GetHandle, TypeOK
<1>2. ASSUME NEW c \in Callers, NEW o \in Methods \union {"free"}, Begin(c, o) PROVE TypeOK'
  BY <1>2, StartTypes DEF Begin, Goto, TypeOK, reactorVars, Locations
<1>3. ASSUME NEW c \in Callers, Proceed(c) PROVE TypeOK'
  BY <1>3, ProceedTypeOK
<1>4. CASE Server
  <2>1. ASSUME NEW m \in requests, NEW ok \in BOOLEAN, Answer(m, ok) PROVE TypeOK'
    <3>1. m \in Messages /\ m.cseq \in Nat
      BY DEF TypeOK, Messages
    <3>2. [msg |-> m, ok |-> ok] \in Arrivals
      BY <3>1 DEF Arrivals
    <3>3. wire' \in Seq(Arrivals)
      BY <2>1, <3>2 DEF Answer, TypeOK
    <3>4. granted' \subseteq Nat
      BY <2>1, <3>1 DEF Answer, TypeOK
    <3>5. requests' \subseteq Messages
      BY <2>1 DEF Answer, TypeOK
    <3>. QED
      BY <2>1, <3>3, <3>4, <3>5 DEF Answer, TypeOK, callerVars
  <2>2. CASE Announce
    BY <2>2, StartTypes DEF Announce, TypeOK, callerVars
  <2>3. CASE ServerCloses
    <3>1. s' \in Sessions
      BY <2>3, <1>s, SetField DEF ServerCloses
    <3>. QED
      BY <2>3, <3>1 DEF ServerCloses, TypeOK, callerVars
  <2>. QED
    BY <1>4, <2>1, <2>2, <2>3 DEF Server
<1>5. CASE Handle
  BY <1>5, HandleTypeOK
<1>6. CASE RtpTimeout
  <2>1. s' \in Sessions
    BY <1>6, <1>s, SetField DEF RtpTimeout
  <2>. QED
    BY <1>6, <2>1 DEF RtpTimeout, TypeOK, reactorVars, callerVars
<1>7. CASE Manager
  <2>1. s' \in Sessions
    BY <1>7, <1>s, SetField, DisconnectedType
       DEF Manager, Sweep, SweepMarks, SweepErases, Reap, Statuses
  <2>2. CASE Sweep
    BY <2>1, <2>2, <1>w DEF Sweep, TypeOK, callerVars
  <2>3. CASE SweepMarks
    BY <2>1, <2>3 DEF SweepMarks, TypeOK, reactorVars, callerVars
  <2>4. CASE SweepErases
    BY <2>1, <2>4 DEF SweepErases, TypeOK, reactorVars, callerVars
  <2>5. CASE Reap
    <3>1. registered - 1 \in Nat
      BY <2>5 DEF Reap, TypeOK
    <3>. QED
      BY <2>1, <2>5, <3>1 DEF Reap, TypeOK, reactorVars, callerVars
  <2>. QED
    BY <1>7, <2>2, <2>3, <2>4, <2>5 DEF Manager
<1>8. CASE UNCHANGED vars
  BY <1>8 DEF vars, TypeOK
<1>. QED
  BY <1>1, <1>2, <1>3, <1>4, <1>5, <1>6, <1>7, <1>8 DEF Next

\* The session, the library and the calls stay well typed, for any set of callers.
THEOREM TypeCorrect == Spec => []TypeOK
<1>. QED
  BY InitTypeOK, NextTypeOK, PTL DEF Spec

-----------------------------------------------------------------------------

\* The steps that do not belong to a call neither move a caller nor make a message:
\* they can only destroy the one that is there.
LEMMA OtherSteps ==
    ASSUME TypeOK, Server \/ Handle \/ RtpTimeout \/ Manager
    PROVE  /\ UNCHANGED <<pc, mine, holder>>
           /\ s'.msg \in {s.msg, NoMsg}
<1>s. s \in Sessions
  BY DEF TypeOK
<1>w. \A flag \in BOOLEAN : /\ Woken(s, flag) \in Sessions
                            /\ Woken(s, flag).msg = s.msg
  BY <1>s, WokenType DEF Woken, Sessions
<1>d. \A x \in Sessions : Disconnected(x).msg = x.msg
  BY DEF Disconnected, Sessions
<1>f. \A x \in Sessions :
        /\ [x EXCEPT !.msg = NoMsg].msg = NoMsg
        /\ \A v : [x EXCEPT !.msg = NoMsg, !.status = v].msg = NoMsg
        /\ \A v : [x EXCEPT !.status = v].msg = x.msg
        /\ \A v : [x EXCEPT !.stream = v].msg = x.msg
        /\ \A v : [x EXCEPT !.object = v].msg = x.msg
        /\ \A v : [x EXCEPT !.retOk = v].msg = x.msg
        /\ \A v : [x EXCEPT !.timer = v].msg = x.msg
        /\ \A v : [x EXCEPT !.delFlag = v].msg = x.msg
  BY DEF Sessions
<1>1. CASE Server
  <2>1. [s EXCEPT !.stream = "reset"].msg = s.msg
    BY <1>s, <1>f
  <2>. QED
    BY <1>1, <2>1 DEF Server, Answer, Announce, ServerCloses, callerVars
<1>2. CASE Handle
  <2>0. handler.ok \in BOOLEAN
    BY DEF TypeOK, Handlers
  <2>1. CASE TakeInput
    BY <2>1 DEF TakeInput, callerVars
  <2>2. CASE InputCloses
    BY <2>2, <1>w, <1>d DEF InputCloses, HandlerDone, callerVars
  <2>3. CASE ApplySetup
    BY <2>3, <1>w, <1>f DEF ApplySetup, HandlerDone, callerVars
  <2>4. CASE ApplyPlay
    BY <2>4, <1>w, <1>f DEF ApplyPlay, HandlerDone, callerVars
  <2>5. CASE ApplyPause
    <3>1. /\ [s EXCEPT !.msg = NoMsg].msg = NoMsg
          /\ [Woken(s, FALSE) EXCEPT !.msg = NoMsg].msg = NoMsg
      BY <1>s, <1>f, <1>w
    <3>2. [Woken(s, TRUE) EXCEPT !.msg = NoMsg, !.status = "READY"].msg = NoMsg
      BY <1>f, <1>w
    <3>3. s'.msg = NoMsg
      BY <2>5, <3>1, <3>2 DEF ApplyPause
    <3>. QED
      BY <2>5, <3>3 DEF ApplyPause, HandlerDone, callerVars
  <2>6. CASE ApplyTeardown
    BY <2>0, <2>6, <1>w, <1>d DEF ApplyTeardown, HandlerDone, callerVars
  <2>7. CASE ApplyNothing
    BY <2>7 DEF ApplyNothing, HandlerDone, callerVars
  <2>8. CASE AnswerAnnounce
    BY <2>8, <1>s, <1>f, <1>d DEF AnswerAnnounce, HandlerDone, callerVars
  <2>. QED
    BY <1>2, <2>1, <2>2, <2>3, <2>4, <2>5, <2>6, <2>7, <2>8 DEF Handle
<1>3. CASE RtpTimeout
  BY <1>3, <1>s, <1>f DEF RtpTimeout, callerVars
<1>4. CASE Manager
  <2>1. CASE Sweep
    BY <2>1, <1>s, <1>d DEF Sweep, callerVars
  <2>2. CASE SweepMarks
    BY <2>2, <1>s, <1>f DEF SweepMarks, callerVars
  <2>3. CASE SweepErases
    BY <2>3, <1>s, <1>f DEF SweepErases, callerVars
  <2>4. CASE Reap
    BY <2>4, <1>s, <1>f DEF Reap, callerVars
  <2>. QED
    BY <1>4, <2>1, <2>2, <2>3, <2>4 DEF Manager
<1>. QED
  BY <1>1, <1>2, <1>3, <1>4

\* What a step of one call does to the locks and the message of the others.
LEMMA ProceedKeepsOwner ==
    ASSUME TypeOK, MessageOwner, NEW c \in Callers, Proceed(c)
    PROVE  MessageOwner'
<1>n. NoCaller \notin Callers
  BY CallersAssumption
<1>s. s \in Sessions /\ pc \in [Callers -> Locations] /\ mine \in [Callers -> Messages]
  BY DEF TypeOK
<1>f. \A x \in Sessions :
        /\ Disconnected(x).msg = x.msg
        /\ [x EXCEPT !.msg = NoMsg].msg = NoMsg
        /\ \A v : [x EXCEPT !.msg = NoMsg, !.status = v].msg = NoMsg
        /\ \A u, v : [x EXCEPT !.msg = u, !.cseq = v].msg = u
        /\ \A v : [x EXCEPT !.status = v].msg = x.msg
        /\ \A v : [x EXCEPT !.stream = v].msg = x.msg
        /\ \A v : [x EXCEPT !.object = v].msg = x.msg
        /\ \A v : [x EXCEPT !.sem = v].msg = x.msg
        /\ \A v : [x EXCEPT !.timer = v].msg = x.msg
  BY DEF Disconnected, Sessions
\* A call that returns gives the lock back, and it was the holder.
<1>r. ASSUME NEW seq, NEW ret, Return(c, seq, ret), pc[c] \in Holding
      PROVE  MessageOwner'
  <2>1. \A d \in Callers : d # c => pc[d] \notin Holding
    BY <1>r, <1>n DEF MessageOwner
  <2>2. pc' = [pc EXCEPT ![c] = "idle"]
    BY <1>r DEF Return, Goto
  <2>3. \A d \in Callers : pc'[d] \notin Holding
    BY <2>1, <2>2, <1>s DEF Holding
  <2>. QED
    BY <2>3 DEF MessageOwner
\* A call that goes on, as the holder, leaves the others outside.
<1>g. ASSUME NEW location \in Locations, Goto(c, location), pc[c] \in Holding,
             holder' = holder, location # "inside",
             s'.msg \in {mine'[c], NoMsg}
      PROVE  MessageOwner'
  <2>1. \A d \in Callers : d # c => pc[d] \notin Holding
    BY <1>g, <1>n DEF MessageOwner
  <2>. QED
    BY <1>g, <1>s, <2>1 DEF MessageOwner, Goto
\* A call that does not hold the lock after its step changes nothing for the others.
<1>o. ASSUME NEW location \in Locations \ Holding, Goto(c, location),
             UNCHANGED <<holder, mine>>, s'.msg = s.msg
      PROVE  MessageOwner'
  BY <1>o, <1>s DEF MessageOwner, Goto
<1>l. /\ {"idle", "locking", "crashed"} \subseteq Locations \ Holding
      /\ Holding \subseteq Locations
  BY DEF Locations, Holding
<1>1. CASE FreeConnectFailed(c)
  BY <1>1, <1>o, <1>l, <1>s, <1>f DEF FreeConnectFailed
<1>2. CASE FreeConnected(c)
  BY <1>2, <1>o, <1>l DEF FreeConnected
<1>3. CASE Lock(c)
  <2>1. \A d \in Callers : pc[d] \notin Holding
    BY <1>3, <1>n DEF Lock, MessageOwner
  <2>. QED
    BY <1>3, <2>1, <1>s DEF Lock, Goto, MessageOwner
<1>4. CASE Refuse(c)
  BY <1>4, <1>r DEF Refuse, Holding
<1>5. CASE CreateMessage(c)
  <2>1. s'.msg = mine'[c]
    BY <1>5, <1>s, <1>f DEF CreateMessage
  <2>. QED
    BY <1>5, <1>g, <1>l, <2>1 DEF CreateMessage, Holding
<1>6. CASE MarkFreed(c)
  BY <1>6, <1>r DEF MarkFreed, Holding
<1>7. CASE Connect(c)
  <2>1. pc[c] = "connect" /\ s.msg \in {mine[c], NoMsg}
    BY <1>7 DEF Connect, MessageOwner, Holding
  <2>2. s'.msg = s.msg
    <3>1. [s EXCEPT !.stream = "open"].msg = s.msg
      BY <1>s, <1>f
    <3>. QED
      BY <1>7, <3>1 DEF Connect
  <2>. QED
    BY <1>7, <1>g, <1>l, <2>1, <2>2 DEF Connect, Holding
<1>8. CASE ConnectFails(c)
  BY <1>8, <1>r DEF ConnectFails, Holding
<1>9. CASE Send(c)
  <2>1. pc[c] = "send" /\ s.msg \in {mine[c], NoMsg}
    BY <1>9 DEF Send, MessageOwner, Holding
  <2>. QED
    BY <1>9, <1>g, <1>l, <2>1 DEF Send, Holding
<1>10. CASE SendFails(c)
  BY <1>10, <1>r DEF SendFails, Holding
<1>11. CASE Acquire(c)
  <2>1. pc[c] = "wait" /\ s.msg \in {mine[c], NoMsg}
    BY <1>11 DEF Acquire, MessageOwner, Holding
  <2>2. s'.msg = s.msg
    BY <1>11, <1>s, <1>f DEF Acquire
  <2>. QED
    BY <1>11, <1>g, <1>l, <2>1, <2>2 DEF Acquire, Holding
<1>12. CASE TimeOut(c)
  <2>1. pc[c] = "wait" /\ s.msg \in {mine[c], NoMsg}
    BY <1>12 DEF TimeOut, MessageOwner, Holding
  <2>. QED
    BY <1>12, <1>g, <1>l, <2>1 DEF TimeOut, Holding
<1>13. CASE Expire(c)
  BY <1>13, <1>r DEF Expire, Holding
<1>14. CASE ReturnByFlag(c)
  BY <1>14, <1>r DEF ReturnByFlag, Holding
<1>15. CASE SetupDone(c)
  BY <1>15, <1>r DEF SetupDone, Holding
<1>16. CASE SetupRefused(c)
  <2>1. pc[c] = "woken" /\ s.msg \in {mine[c], NoMsg}
    BY <1>16 DEF SetupRefused, MessageOwner, Holding
  <2>. QED
    BY <1>16, <1>g, <1>l, <2>1 DEF SetupRefused, Holding
<1>17. CASE ReturnRetCode(c)
  BY <1>17, <1>r DEF ReturnRetCode, Holding
<1>18. CASE UseDeleted(c)
  BY <1>18, <1>o, <1>l DEF UseDeleted
<1>. QED
  BY <1>1, <1>2, <1>3, <1>4, <1>5, <1>6, <1>7, <1>8, <1>9, <1>10, <1>11, <1>12,
     <1>13, <1>14, <1>15, <1>16, <1>17, <1>18 DEF Proceed

LEMMA NextKeepsOwner == TypeOK /\ MessageOwner /\ [Next]_vars => MessageOwner'
<1>. SUFFICES ASSUME TypeOK, MessageOwner, [Next]_vars PROVE MessageOwner'
  OBVIOUS
<1>p. pc \in [Callers -> Locations]
  BY DEF TypeOK
<1>1. CASE GetHandle
  BY <1>1 DEF GetHandle, MessageOwner, Holding
<1>2. ASSUME NEW c \in Callers, NEW o \in Methods \union {"free"}, Begin(c, o)
      PROVE  MessageOwner'
  <2>1. \A d \in Callers : d # c => pc'[d] = pc[d] /\ mine'[d] = mine[d]
    BY <1>2, <1>p DEF Begin, Goto, TypeOK
  <2>2. pc'[c] \notin Holding
    BY <1>2, <1>p DEF Begin, Goto, Holding
  <2>. QED
    BY <1>2, <2>1, <2>2 DEF Begin, MessageOwner
<1>3. ASSUME NEW c \in Callers, Proceed(c) PROVE MessageOwner'
  BY <1>3, ProceedKeepsOwner
<1>4. CASE Server \/ Handle \/ RtpTimeout \/ Manager
  BY <1>4, OtherSteps DEF MessageOwner
<1>5. CASE UNCHANGED vars
  BY <1>5 DEF vars, MessageOwner
<1>. QED
  BY <1>1, <1>2, <1>3, <1>4, <1>5 DEF Next

\* However many threads share a handle, at most one call is past m_SessionMutex, and
\* the message the reactor matches answers against is that call's or none.
THEOREM OwnerCorrect == Spec => []MessageOwner
<1>1. Init => MessageOwner
  BY DEF Init, MessageOwner, Holding
<1>. QED
  BY <1>1, TypeCorrect, NextKeepsOwner, PTL DEF Spec

=============================================================================
