--------------------------- MODULE RtspLifeProofs ---------------------------
(* Theorems about the life of an RTSP session: with one caller, whose SETUP  *)
(* is sent once, it is deleted once and when nobody uses it; and with any    *)
(* callers a call that succeeds was granted, as long as no token of the      *)
(* semaphore was released that nobody waited for.                            *)
EXTENDS RtspSessionProofs, SequenceTheorems

-----------------------------------------------------------------------------
(* The life of a session with one caller *)

\* CMediaBase uses a handle from one thread at a time and sends SETUP on it once.
Alone == ~SetupAgain /\ \A c, d \in Callers : c = d

Quiet == ~s.timer /\ s.stream = "none"

\* A handle leads to a session that is in the list and has not been freed; without
\* one there is no call.
HandleLeads ==
    /\ handle => /\ Live /\ listed /\ ~sweeping /\ ~s.delFlag
                 /\ s.status \notin {"ABNORMAL", "DELETE"}
    /\ ~handle => \A c \in Callers : pc[c] = "idle"

\* What the sweep has looked at is quiet, and stays in the list until it is flagged.
SweptIsQuiet ==
    /\ sweeping \/ s.delFlag \/ s.status = "DELETE" => Quiet
    /\ sweeping => listed
    /\ s.delFlag => ~listed
    /\ listed => Live

\* A session is registered once, by the one SETUP that connects it; before that it has
\* no connection and no request.
Registration ==
    /\ registered \in {0, 1}
    /\ registered = 1 => Live /\ ~s.connectFail
    /\ registered = 0 =>
          /\ Quiet /\ handler = Idle
          /\ handle => s.status = "INIT"
          /\ \A c \in Callers : pc[c] \in {"idle", "freeing", "locking", "inside", "connect"}
    /\ s.cseq = 0 => registered = 0 /\ ~s.connectFail
    /\ \A c \in Callers :
          /\ pc[c] = "connect" => registered = 0 /\ ~s.connectFail /\ s.cseq > 0
          /\ pc[c] \in {"locking", "inside"} /\ op[c] = "setup" => s.cseq = 0
          /\ pc[c] = "freeing" => op[c] = "free"

LifeInv == HandleLeads /\ SweptIsQuiet /\ Registration

-----------------------------------------------------------------------------
(* Answers and tokens *)

Waits(c) == pc[c] \in {"wait", "expired"}

\* A request is answered once, and its answer read once.
OnceOnly ==
    /\ \A m \in requests : m.cseq \in 1..s.cseq
    /\ \A m, n \in requests : m.cseq = n.cseq => m = n
    /\ \A i \in DOMAIN wire :
          /\ wire[i] = AnnounceMsg \/ wire[i].msg.cseq \in 1..s.cseq
          /\ \A m \in requests : m.cseq # wire[i].msg.cseq
          /\ \A j \in DOMAIN wire :
                wire[i] # AnnounceMsg /\ wire[i].msg.cseq = wire[j].msg.cseq => i = j
    /\ handler.at = "apply" =>
          /\ handler.msg.cseq \in 1..s.cseq
          /\ \A m \in requests : m.cseq # handler.msg.cseq
          /\ \A i \in DOMAIN wire : wire[i].msg.cseq # handler.msg.cseq

\* The request that a call is about to send is the last one, and not yet under way.
Unsent ==
    \A c \in Callers : pc[c] \in {"connect", "send"} =>
        /\ mine[c].cseq = s.cseq /\ s.cseq > 0
        /\ \A m \in requests : m.cseq # s.cseq
        /\ \A i \in DOMAIN wire : wire[i].msg.cseq # s.cseq
        /\ handler.at = "apply" => handler.msg.cseq # s.cseq

\* A granted answer is on the server's record.
AnswersAreTrue ==
    /\ \A i \in DOMAIN wire : wire[i] # AnnounceMsg /\ wire[i].ok => wire[i].msg.cseq \in granted
    /\ handler.at = "apply" /\ handler.ok => handler.msg.cseq \in granted

\* Somebody waits for the answer to m.
Awaited(m) == s.msg = m /\ \E c \in Callers : Waits(c) /\ mine[c] = m

AnswersAwaited ==
    /\ \A m \in requests : m.cseq = s.msg.cseq => Awaited(m)
    /\ \A i \in DOMAIN wire :
          wire[i] # AnnounceMsg /\ wire[i].msg.cseq = s.msg.cseq => Awaited(wire[i].msg)
    /\ handler.at = "apply" => Awaited(handler.msg)

\* No answer is on its way that would be applied.
NoneComes ==
    /\ \A m \in requests : m.cseq # s.msg.cseq
    /\ \A i \in DOMAIN wire : wire[i] # AnnounceMsg => wire[i].msg.cseq # s.msg.cseq
    /\ handler.at # "apply"

\* While every token was for a call that waited: an answer that would be applied is
\* awaited; a token is there only for a call that waits and whose answer has come; and a
\* call that was woken with the flag set was granted what it asked for.
TokensFit ==
    ~spare /\ Live =>
        /\ AnswersAwaited
        /\ s.sem \in {0, 1}
        /\ s.sem = 1 => NoneComes /\ \E c \in Callers : pc[c] = "wait"
        /\ \A c \in Callers :
              /\ pc[c] = "woken" => s.sem = 0
              /\ pc[c] = "woken" \/ (pc[c] = "wait" /\ s.sem = 1) =>
                    (s.retFlag => mine[c].cseq \in granted)

\* The session that is gone has nobody who decodes an answer.
GoneIsIdle == ~Live => handler = Idle

RefusedIsSetup == \A c \in Callers : pc[c] = "refused" => op[c] = "setup"

AnswerInv ==
    OnceOnly /\ Unsent /\ AnswersAreTrue /\ TokensFit /\ GoneIsIdle /\ RefusedIsSetup
    /\ OkMeansGranted

-----------------------------------------------------------------------------

LEMMA CallLife ==
    ASSUME TypeOK, Alone, LifeInv, NEW c \in Callers, Proceed(c)
    PROVE  LifeInv'
<1>a. \A d \in Callers : d = c
  BY DEF Alone
<1>t. pc \in [Callers -> Locations] /\ op \in [Callers -> Methods \union {"none", "free"}]
      /\ s \in Sessions
  BY DEF TypeOK
<1>p. pc[c] # "idle" /\ handle
  <2>1. pc[c] # "idle"
    BY DEF Proceed, FreeConnectFailed, FreeConnected, Lock, Refuse, CreateMessage, MarkFreed, Connect, ConnectFails, Send, SendFails, Acquire, TimeOut, Expire, ReturnByFlag, SetupDone, SetupRefused, ReturnRetCode, UseDeleted
  <2>. QED
    BY <2>1 DEF LifeInv, HandleLeads
<1>1. CASE FreeConnectFailed(c)
  BY <1>1, <1>a, <1>t, <1>p DEF FreeConnectFailed, Goto, reactorVars, LifeInv, HandleLeads, SweptIsQuiet, Registration, Quiet, Live, Sessions
<1>2. CASE FreeConnected(c)
  BY <1>2, <1>a, <1>t, <1>p DEF FreeConnected, Goto, reactorVars, LifeInv, HandleLeads, SweptIsQuiet, Registration, Quiet, Live, Sessions
<1>3. CASE Lock(c)
  BY <1>3, <1>a, <1>t, <1>p DEF Lock, Goto, reactorVars, LifeInv, HandleLeads, SweptIsQuiet, Registration, Quiet, Live, Sessions
<1>4. CASE Refuse(c)
  BY <1>4, <1>a, <1>t, <1>p DEF Refuse, Return, Goto, reactorVars, LifeInv, HandleLeads, SweptIsQuiet, Registration, Quiet, Live, Sessions
<1>5. CASE CreateMessage(c)
  BY <1>5, <1>a, <1>t, <1>p DEF CreateMessage, Goto, Refusal, Methods, reactorVars, LifeInv, HandleLeads, SweptIsQuiet, Registration, Quiet, Live, Sessions
<1>6. CASE MarkFreed(c)
  BY <1>6, <1>a, <1>t, <1>p DEF MarkFreed, Return, Goto, reactorVars, LifeInv, HandleLeads, SweptIsQuiet, Registration, Quiet, Live, Sessions
<1>7. CASE Connect(c)
  BY <1>7, <1>a, <1>t, <1>p DEF Connect, Goto, reactorVars, LifeInv, HandleLeads, SweptIsQuiet, Registration, Quiet, Live, Sessions
<1>8. CASE ConnectFails(c)
  BY <1>8, <1>a, <1>t, <1>p DEF ConnectFails, Return, Disconnected, Goto, reactorVars, LifeInv, HandleLeads, SweptIsQuiet, Registration, Quiet, Live, Sessions
<1>9. CASE Send(c)
  BY <1>9, <1>a, <1>t, <1>p DEF Send, Goto, reactorVars, LifeInv, HandleLeads, SweptIsQuiet, Registration, Quiet, Live, Sessions
<1>10. CASE SendFails(c)
  BY <1>10, <1>a, <1>t, <1>p DEF SendFails, Return, Disconnected, Goto, reactorVars, LifeInv, HandleLeads, SweptIsQuiet, Registration, Quiet, Live, Sessions
<1>11. CASE Acquire(c)
  BY <1>11, <1>a, <1>t, <1>p DEF Acquire, Goto, reactorVars, LifeInv, HandleLeads, SweptIsQuiet, Registration, Quiet, Live, Sessions
<1>12. CASE TimeOut(c)
  BY <1>12, <1>a, <1>t, <1>p DEF TimeOut, Goto, reactorVars, LifeInv, HandleLeads, SweptIsQuiet, Registration, Quiet, Live, Sessions
<1>13. CASE Expire(c)
  BY <1>13, <1>a, <1>t, <1>p DEF Expire, Return, Goto, reactorVars, LifeInv, HandleLeads, SweptIsQuiet, Registration, Quiet, Live, Sessions
<1>14. CASE ReturnByFlag(c)
  BY <1>14, <1>a, <1>t, <1>p DEF ReturnByFlag, Return, Goto, reactorVars, LifeInv, HandleLeads, SweptIsQuiet, Registration, Quiet, Live, Sessions
<1>15. CASE SetupDone(c)
  BY <1>15, <1>a, <1>t, <1>p DEF SetupDone, Return, Goto, reactorVars, LifeInv, HandleLeads, SweptIsQuiet, Registration, Quiet, Live, Sessions
<1>16. CASE SetupRefused(c)
  BY <1>16, <1>a, <1>t, <1>p DEF SetupRefused, Goto, reactorVars, LifeInv, HandleLeads, SweptIsQuiet, Registration, Quiet, Live, Sessions
<1>17. CASE ReturnRetCode(c)
  BY <1>17, <1>a, <1>t, <1>p DEF ReturnRetCode, Return, Goto, reactorVars, LifeInv, HandleLeads, SweptIsQuiet, Registration, Quiet, Live, Sessions
<1>18. CASE UseDeleted(c)
  BY <1>18, <1>a, <1>t, <1>p DEF UseDeleted, Goto, reactorVars, LifeInv, HandleLeads, SweptIsQuiet, Registration, Quiet, Live, Sessions
<1>. QED
  BY <1>1, <1>2, <1>3, <1>4, <1>5, <1>6, <1>7, <1>8, <1>9, <1>10, <1>11, <1>12, <1>13, <1>14, <1>15, <1>16, <1>17, <1>18 DEF Proceed

LEMMA OtherLife ==
    ASSUME TypeOK, LifeInv, Server \/ Handle \/ RtpTimeout \/ Manager
    PROVE  LifeInv'
<1>t. s \in Sessions
  BY DEF TypeOK
<1>0. ASSUME NEW m \in requests, NEW ok \in BOOLEAN, Answer(m, ok) PROVE LifeInv'
  BY <1>0, <1>t DEF Answer, callerVars, LifeInv, HandleLeads, SweptIsQuiet, Registration, Quiet, Live, Sessions
<1>1. CASE Announce
  BY <1>1, <1>t DEF Announce, callerVars, LifeInv, HandleLeads, SweptIsQuiet, Registration, Quiet, Live, Sessions
<1>2. CASE ServerCloses
  BY <1>2, <1>t DEF ServerCloses, callerVars, LifeInv, HandleLeads, SweptIsQuiet, Registration, Quiet, Live, Sessions
<1>3. CASE TakeInput
  BY <1>3, <1>t DEF TakeInput, callerVars, LifeInv, HandleLeads, SweptIsQuiet, Registration, Quiet, Live, Sessions
<1>4. CASE InputCloses
  BY <1>4, <1>t DEF InputCloses, HandlerDone, Woken, Disconnected, callerVars, LifeInv, HandleLeads, SweptIsQuiet, Registration, Quiet, Live, Sessions
<1>5. CASE ApplySetup
  BY <1>5, <1>t DEF ApplySetup, HandlerDone, Applying, Idle, Woken, callerVars, LifeInv, HandleLeads, SweptIsQuiet, Registration, Quiet, Live, Sessions
<1>6. CASE ApplyPlay
  BY <1>6, <1>t DEF ApplyPlay, HandlerDone, Applying, Idle, Woken, callerVars, LifeInv, HandleLeads, SweptIsQuiet, Registration, Quiet, Live, Sessions
<1>7. CASE ApplyPause
  <2>1. /\ s'.object = s.object /\ s'.timer = s.timer /\ s'.stream = s.stream
        /\ s'.delFlag = s.delFlag /\ s'.connectFail = s.connectFail /\ s'.cseq = s.cseq
        /\ s'.status \in {s.status, "READY"} /\ (s'.status # s.status => s.status = "PLAYING")
    <3>1. CASE s' = [s EXCEPT !.msg = NoMsg]
      BY <3>1, <1>t DEF Sessions
    <3>2. CASE s' = [Woken(s, FALSE) EXCEPT !.msg = NoMsg]
      BY <3>2, <1>t DEF Woken, Sessions
    <3>3. CASE s' = [Woken(s, TRUE) EXCEPT !.msg = NoMsg, !.status = "READY"] /\ s.status = "PLAYING"
      BY <3>3, <1>t DEF Woken, Sessions
    <3>. QED
      BY <1>7, <3>1, <3>2, <3>3 DEF ApplyPause
  <2>2. registered = 1
    BY <1>7 DEF ApplyPause, Applying, Idle, LifeInv, Registration
  <2>. QED
    BY <1>7, <2>1, <2>2 DEF ApplyPause, HandlerDone, callerVars, LifeInv, HandleLeads,
                            SweptIsQuiet, Registration, Quiet, Live
<1>8. CASE ApplyTeardown
  BY <1>8, <1>t DEF ApplyTeardown, HandlerDone, Applying, Idle, Woken, Disconnected, callerVars, LifeInv, HandleLeads, SweptIsQuiet, Registration, Quiet, Live, Sessions
<1>9. CASE ApplyNothing
  BY <1>9, <1>t DEF ApplyNothing, HandlerDone, Applying, Idle, callerVars, LifeInv, HandleLeads, SweptIsQuiet, Registration, Quiet, Live, Sessions
<1>10. CASE AnswerAnnounce
  BY <1>10, <1>t DEF AnswerAnnounce, HandlerDone, Disconnected, Idle, callerVars, LifeInv, HandleLeads, SweptIsQuiet, Registration, Quiet, Live, Sessions
<1>11. CASE RtpTimeout
  BY <1>11, <1>t DEF RtpTimeout, reactorVars, callerVars, LifeInv, HandleLeads, SweptIsQuiet, Registration, Quiet, Live, Sessions
<1>12. CASE Sweep
  BY <1>12, <1>t DEF Sweep, Disconnected, callerVars, LifeInv, HandleLeads, SweptIsQuiet, Registration, Quiet, Live, Sessions
<1>13. CASE SweepMarks
  BY <1>13, <1>t DEF SweepMarks, reactorVars, callerVars, LifeInv, HandleLeads, SweptIsQuiet, Registration, Quiet, Live, Sessions
<1>14. CASE SweepErases
  BY <1>14, <1>t DEF SweepErases, reactorVars, callerVars, LifeInv, HandleLeads, SweptIsQuiet, Registration, Quiet, Live, Sessions
<1>15. CASE Reap
  BY <1>15, <1>t DEF Reap, reactorVars, callerVars, LifeInv, HandleLeads, SweptIsQuiet, Registration, Quiet, Live, Sessions
<1>. QED
  BY <1>0, <1>1, <1>2, <1>3, <1>4, <1>5, <1>6, <1>7, <1>8, <1>9, <1>10, <1>11, <1>12, <1>13, <1>14, <1>15 DEF Server, Handle, Manager

LEMMA LifeStep == TypeOK /\ Alone /\ LifeInv /\ [Next]_vars => LifeInv'
<1>. SUFFICES ASSUME TypeOK, Alone, LifeInv, [Next]_vars PROVE LifeInv'
  OBVIOUS
<1>t. pc \in [Callers -> Locations] /\ op \in [Callers -> Methods \union {"none", "free"}]
      /\ s \in Sessions
  BY DEF TypeOK
<1>1. CASE GetHandle
  BY <1>1, <1>t DEF GetHandle, Fresh, LifeInv, HandleLeads, SweptIsQuiet, Registration, Quiet, Live
<1>2. ASSUME NEW c \in Callers, NEW o \in Methods \union {"free"}, Begin(c, o) PROVE LifeInv'
  BY <1>2, <1>t DEF Alone, Begin, Goto, reactorVars, Methods, LifeInv, HandleLeads, SweptIsQuiet,
                    Registration, Quiet, Live
<1>3. ASSUME NEW c \in Callers, Proceed(c) PROVE LifeInv'
  BY <1>3, CallLife
<1>4. CASE Server \/ Handle \/ RtpTimeout \/ Manager
  BY <1>4, OtherLife
<1>5. CASE UNCHANGED vars
  BY <1>5 DEF vars, LifeInv, HandleLeads, SweptIsQuiet, Registration, Quiet, Live
<1>. QED
  BY <1>1, <1>2, <1>3, <1>4, <1>5 DEF Next

LEMMA LifeInvCorrect ==
    ASSUME Alone
    PROVE  Spec => []LifeInv
<1>1. Init => LifeInv
  BY DEF Init, Fresh, LifeInv, HandleLeads, SweptIsQuiet, Registration, Quiet, Live
<1>2. TypeOK /\ LifeInv /\ [Next]_vars => LifeInv'
  BY LifeStep
<1>. QED
  BY <1>1, <1>2, TypeCorrect, PTL DEF Spec

\* A call never runs on a session that was deleted: what the sweep flags and the reactor
\* deletes has no caller, and FreeHandle deletes only what never connected.
THEOREM NeverUseDeletedCorrect ==
    ASSUME Alone
    PROVE  Spec => []NeverUseDeleted
<1>1. LifeInv => NeverUseDeleted
  BY DEF LifeInv, HandleLeads, NeverUseDeleted
<1>. QED
  BY <1>1, LifeInvCorrect, PTL

\* What the reactor has on its list of sessions has not been deleted.
THEOREM RegisteredIsLiveCorrect ==
    ASSUME Alone
    PROVE  Spec => []RegisteredIsLive
<1>1. LifeInv => RegisteredIsLive
  BY DEF LifeInv, Registration, RegisteredIsLive
<1>. QED
  BY <1>1, LifeInvCorrect, PTL

\* A deleted session has neither a connection nor a timer that calls it.
THEOREM DeletedIsQuietCorrect ==
    ASSUME Alone
    PROVE  Spec => []DeletedIsQuiet
<1>1. LifeInv => DeletedIsQuiet
  BY DEF LifeInv, Registration, DeletedIsQuiet, Quiet, Live
<1>. QED
  BY <1>1, LifeInvCorrect, PTL

-----------------------------------------------------------------------------
(* Requests and answers *)

LEMMA OneHolds ==
    ASSUME MessageOwner, NEW c \in Callers, NEW d \in Callers,
           pc[c] \in Holding, pc[d] \in Holding
    PROVE  c = d
BY DEF MessageOwner

\* What is lost, or read and applied, makes no answer appear twice.
LEMMA LessOnWire ==
    ASSUME TypeOK, OnceOnly, AnswersAreTrue,
           requests' \subseteq requests, wire' \in {wire, << >>}, handler' \in {handler, Idle},
           s'.cseq = s.cseq, granted' = granted
    PROVE  (OnceOnly /\ AnswersAreTrue)'
<1>1. DOMAIN << >> = {} /\ Idle.at = "idle"
  BY DEF Idle
<1>. QED
  BY <1>1 DEF OnceOnly, AnswersAreTrue

LEMMA LessUnsent ==
    ASSUME Unsent,
           requests' \subseteq requests, wire' \in {wire, << >>}, handler' \in {handler, Idle},
           s'.cseq = s.cseq,
           \A d \in Callers : pc'[d] \in {"connect", "send"} =>
              pc[d] \in {"connect", "send"} /\ mine'[d] = mine[d]
    PROVE  Unsent'
<1>1. DOMAIN << >> = {} /\ Idle.at = "idle"
  BY DEF Idle
<1>. QED
  BY <1>1 DEF Unsent

Wires == OnceOnly /\ Unsent /\ AnswersAreTrue

LEMMA CallWires ==
    ASSUME TypeOK, MessageOwner, Wires, NEW c \in Callers, Proceed(c)
    PROVE  Wires'
<1>t. pc \in [Callers -> Locations] /\ mine \in [Callers -> Messages] /\ s \in Sessions
      /\ requests \subseteq Messages /\ wire \in Seq(Arrivals) /\ handler \in Handlers
  BY DEF TypeOK
<1>w. WireLost => requests' \subseteq requests /\ wire' \in {wire, << >>}
  BY DEF WireLost
\* A step that sends nothing.
<1>l. ASSUME s'.cseq = s.cseq, granted' = granted, handler' = handler, mine' = mine,
             requests' \subseteq requests, wire' \in {wire, << >>},
             \A d \in Callers : pc'[d] \in {"connect", "send"} => pc[d] \in {"connect", "send"}
      PROVE  Wires'
  BY <1>l, LessOnWire, LessUnsent DEF Wires
<1>r. ASSUME NEW seq, NEW ret, Return(c, seq, ret)
      PROVE  /\ mine' = mine
             /\ \A d \in Callers : pc'[d] \in {"connect", "send"} => pc[d] \in {"connect", "send"}
  BY <1>r, <1>t DEF Return, Goto
<1>1. CASE FreeConnectFailed(c)
  BY <1>1, <1>l, <1>t DEF FreeConnectFailed, Goto, reactorVars, Sessions
<1>2. CASE FreeConnected(c) \/ Lock(c) \/ TimeOut(c) \/ SetupRefused(c) \/ UseDeleted(c)
  BY <1>2, <1>l, <1>t DEF FreeConnected, Lock, TimeOut, SetupRefused, UseDeleted, Goto, reactorVars
<1>4. CASE Refuse(c)
  BY <1>4, <1>l, <1>r, <1>t DEF Refuse, reactorVars
<1>5. CASE CreateMessage(c)
  <2>1. s'.cseq = s.cseq + 1 /\ s.cseq \in Nat /\ mine'[c].cseq = s.cseq + 1
    BY <1>5, <1>t DEF CreateMessage, Sessions
  <2>2. \A d \in Callers : pc'[d] \in {"connect", "send"} => d = c
    BY <1>5, <1>t, OneHolds DEF CreateMessage, Goto, Holding
  <2>3. AnnounceMsg.msg.cseq = 0
    BY DEF AnnounceMsg, NoMsg
  <2>4. UNCHANGED <<handler, requests, wire, granted>>
    BY <1>5 DEF CreateMessage, reactorVars
  <2>. QED
    BY <2>1, <2>2, <2>3, <2>4 DEF Wires, OnceOnly, Unsent, AnswersAreTrue
<1>6. CASE MarkFreed(c)
  BY <1>6, <1>l, <1>r, <1>t DEF MarkFreed, reactorVars, Sessions
<1>7. CASE Connect(c)
  <2>1. requests' \subseteq requests /\ wire' \in {wire, << >>}
    BY <1>7, <1>w DEF Connect
  <2>2. s'.cseq = s.cseq
    BY <1>7, <1>t DEF Connect, Sessions
  <2>. QED
    BY <1>7, <1>l, <1>t, <2>1, <2>2 DEF Connect, Goto
<1>8. CASE ConnectFails(c)
  <2>1. s'.cseq = s.cseq
    BY <1>8, <1>t DEF ConnectFails, Disconnected, Sessions
  <2>. QED
    BY <1>8, <1>l, <1>r, <2>1 DEF ConnectFails, reactorVars
<1>9. CASE Send(c)
  <2>1. /\ requests' \subseteq requests \union {mine[c]}
        /\ UNCHANGED <<s, handler, wire, granted, mine>>
        /\ \A d \in Callers : pc'[d] \in {"connect", "send"} => pc[d] \in {"connect", "send"} /\ d # c
    BY <1>9, <1>t DEF Send, Goto
  <2>2. \A d \in Callers : pc'[d] \in {"connect", "send"} => FALSE
    BY <1>9, <2>1, OneHolds DEF Send, Holding
  <2>3. /\ mine[c].cseq \in 1..s.cseq
        /\ \A m \in requests : m.cseq # mine[c].cseq
        /\ \A i \in DOMAIN wire : wire[i].msg.cseq # mine[c].cseq
        /\ handler.at = "apply" => handler.msg.cseq # mine[c].cseq
    BY <1>9, <1>t DEF Send, Wires, Unsent, Sessions
  <2>. QED
    BY <2>1, <2>2, <2>3 DEF Wires, OnceOnly, Unsent, AnswersAreTrue
<1>10. CASE SendFails(c)
  <2>1. requests' \subseteq requests /\ wire' \in {wire, << >>}
    BY <1>10, <1>w DEF SendFails
  <2>2. s'.cseq = s.cseq
    BY <1>10, <1>t DEF SendFails, Disconnected, Sessions
  <2>. QED
    BY <1>10, <1>l, <1>r, <2>1, <2>2 DEF SendFails
<1>11. CASE Acquire(c)
  BY <1>11, <1>l, <1>t DEF Acquire, Goto, reactorVars, Sessions
<1>12. CASE Expire(c)
  BY <1>12, <1>l, <1>r, <1>t DEF Expire, reactorVars, Sessions
<1>13. CASE ReturnByFlag(c)
  BY <1>13, <1>l, <1>r, <1>t DEF ReturnByFlag, reactorVars, Sessions
<1>14. CASE SetupDone(c)
  <2>1. s'.cseq = s.cseq
    BY <1>14, <1>t DEF SetupDone, Sessions
  <2>2. \E seq \in {0, mine[c].cseq}, ret \in {"ok", "fail"} : Return(c, seq, ret)
    BY <1>14 DEF SetupDone
  <2>. QED
    BY <1>14, <1>l, <1>r, <2>1, <2>2 DEF SetupDone, reactorVars
<1>15. CASE ReturnRetCode(c)
  BY <1>15, <1>l, <1>r, <1>t DEF ReturnRetCode, reactorVars, Sessions
<1>. QED
  BY <1>1, <1>2, <1>4, <1>5, <1>6, <1>7, <1>8, <1>9, <1>10, <1>11, <1>12, <1>13, <1>14,
     <1>15 DEF Proceed

\* What the server and the reactor do to the wire.
LEMMA WireFacts ==
    ASSUME NEW w \in Seq(Arrivals), NEW x \in Arrivals
    PROVE  /\ \A i \in DOMAIN Append(w, x) :
                 \/ (i \in DOMAIN w /\ Append(w, x)[i] = w[i])
                 \/ (i = Len(w) + 1 /\ Append(w, x)[i] = x)
           /\ Len(w) + 1 \notin DOMAIN w
           /\ w # << >> =>
                 /\ 1 \in DOMAIN w /\ Head(w) = w[1]
                 /\ \A i \in DOMAIN Tail(w) :
                       i \in Nat \ {0} /\ i + 1 \in DOMAIN w /\ Tail(w)[i] = w[i + 1]
OBVIOUS

LEMMA OtherWires ==
    ASSUME TypeOK, Wires, Server \/ Handle \/ RtpTimeout \/ Manager
    PROVE  Wires'
<1>t. /\ pc \in [Callers -> Locations] /\ mine \in [Callers -> Messages] /\ s \in Sessions
      /\ requests \subseteq Messages /\ wire \in Seq(Arrivals) /\ handler \in Handlers
  BY DEF TypeOK
<1>a. AnnounceMsg.msg.cseq = 0 /\ AnnounceMsg \in Arrivals
  BY DEF AnnounceMsg, NoMsg, Arrivals, Messages
<1>w. WireLost => requests' \subseteq requests /\ wire' \in {wire, << >>}
  BY DEF WireLost
\* A step that sends nothing.
<1>l. ASSUME s'.cseq = s.cseq, granted' = granted, UNCHANGED <<pc, mine>>,
             requests' \subseteq requests, wire' \in {wire, << >>}, handler' \in {handler, Idle}
      PROVE  Wires'
  BY <1>l, LessOnWire, LessUnsent DEF Wires
<1>k. \A d \in BOOLEAN : Woken(s, d).cseq = s.cseq /\ Disconnected(s).cseq = s.cseq
                         /\ Disconnected(Woken(s, d)).cseq = s.cseq
  BY <1>t DEF Woken, Disconnected, Sessions
<1>0. ASSUME NEW m \in requests, NEW ok \in BOOLEAN, Answer(m, ok) PROVE Wires'
  <2> DEFINE x == [msg |-> m, ok |-> ok]
  <2>1. /\ requests' = requests \ {m} /\ wire' = Append(wire, x) /\ x.msg = m /\ x.ok = ok
        /\ UNCHANGED <<s, handler, pc, mine>>
        /\ granted' = IF ok THEN granted \union {m.cseq} ELSE granted
    BY <1>0 DEF Answer, callerVars
  <2>2. x \in Arrivals
    BY <1>t DEF Arrivals
  <2>3. /\ m.cseq \in 1..s.cseq
        /\ \A n \in requests : n.cseq = m.cseq => n = m
        /\ \A i \in DOMAIN wire : wire[i].msg.cseq # m.cseq
        /\ handler.at = "apply" => handler.msg.cseq # m.cseq
    BY DEF Wires, OnceOnly
  <2>4. /\ \A i \in DOMAIN wire' : \/ (i \in DOMAIN wire /\ wire'[i] = wire[i])
                                  \/ (i = Len(wire) + 1 /\ wire'[i] = x)
        /\ Len(wire) + 1 \notin DOMAIN wire
    <3>1. /\ \A i \in DOMAIN Append(wire, x) :
                \/ (i \in DOMAIN wire /\ Append(wire, x)[i] = wire[i])
                \/ (i = Len(wire) + 1 /\ Append(wire, x)[i] = x)
          /\ Len(wire) + 1 \notin DOMAIN wire
      BY <1>t, <2>2, WireFacts, Zenon
    <3>. QED
      BY <2>1, <3>1, Zenon
  <2>. HIDE DEF x
  <2>5. OnceOnly'
    <3>1. \A i \in DOMAIN wire' :
             /\ wire'[i] = AnnounceMsg \/ wire'[i].msg.cseq \in 1..s.cseq
             /\ \A n \in requests' : n.cseq # wire'[i].msg.cseq
      BY <2>1, <2>3, <2>4 DEF Wires, OnceOnly
    <3>2. ASSUME NEW i \in DOMAIN wire', NEW j \in DOMAIN wire',
                 wire'[i] # AnnounceMsg, wire'[i].msg.cseq = wire'[j].msg.cseq
          PROVE  i = j
      BY <3>2, <2>1, <2>3, <2>4 DEF Wires, OnceOnly
    <3>3. handler'.at = "apply" =>
             /\ handler'.msg.cseq \in 1..s.cseq
             /\ \A n \in requests' : n.cseq # handler'.msg.cseq
             /\ \A i \in DOMAIN wire' : wire'[i].msg.cseq # handler'.msg.cseq
      BY <2>1, <2>3, <2>4 DEF Wires, OnceOnly
    <3>. QED
      BY <2>1, <3>1, <3>2, <3>3 DEF Wires, OnceOnly
  <2>6. Unsent'
    BY <2>1, <2>3, <2>4 DEF Wires, Unsent
  <2>7. AnswersAreTrue'
    BY <2>1, <2>3, <2>4 DEF Wires, AnswersAreTrue
  <2>. QED
    BY <2>5, <2>6, <2>7 DEF Wires
<1>1. CASE Announce
  <2>1. wire' = Append(wire, AnnounceMsg) /\ UNCHANGED <<s, handler, requests, granted, pc, mine>>
    BY <1>1 DEF Announce, callerVars
  <2>4. /\ \A i \in DOMAIN wire' : \/ (i \in DOMAIN wire /\ wire'[i] = wire[i])
                                  \/ (i = Len(wire) + 1 /\ wire'[i] = AnnounceMsg)
        /\ Len(wire) + 1 \notin DOMAIN wire
    <3>1. /\ \A i \in DOMAIN Append(wire, AnnounceMsg) :
                \/ (i \in DOMAIN wire /\ Append(wire, AnnounceMsg)[i] = wire[i])
                \/ (i = Len(wire) + 1 /\ Append(wire, AnnounceMsg)[i] = AnnounceMsg)
          /\ Len(wire) + 1 \notin DOMAIN wire
      BY <1>t, <1>a, WireFacts, Zenon
    <3>. QED
      BY <2>1, <3>1, Zenon
  <2>5. OnceOnly'
    <3>1. \A n \in requests : n.cseq # 0
      BY DEF Wires, OnceOnly
    <3>2. \A i \in DOMAIN wire :
             wire[i] # AnnounceMsg => wire[i].msg.cseq # 0
      BY DEF Wires, OnceOnly
    <3>3. handler.at = "apply" => handler.msg.cseq # 0
      BY DEF Wires, OnceOnly
    <3>4. \A i, j \in DOMAIN wire' :
             wire'[i] # AnnounceMsg /\ wire'[i].msg.cseq = wire'[j].msg.cseq => i = j
      BY <1>a, <2>1, <2>4, <3>2 DEF Wires, OnceOnly
    <3>5. \A i \in DOMAIN wire' :
             /\ wire'[i] = AnnounceMsg \/ wire'[i].msg.cseq \in 1..s.cseq
             /\ \A n \in requests' : n.cseq # wire'[i].msg.cseq
             /\ handler.at = "apply" => wire'[i].msg.cseq # handler.msg.cseq
      BY <1>a, <2>1, <2>4, <3>1, <3>3 DEF Wires, OnceOnly
    <3>. QED
      BY <2>1, <3>4, <3>5 DEF Wires, OnceOnly
  <2>6. Unsent'
    BY <1>a, <2>1, <2>4 DEF Wires, Unsent
  <2>7. AnswersAreTrue'
    BY <2>1, <2>4 DEF Wires, AnswersAreTrue
  <2>. QED
    BY <2>5, <2>6, <2>7 DEF Wires
<1>2. CASE ServerCloses
  <2>1. s'.cseq = s.cseq
    BY <1>2, <1>t DEF ServerCloses, Sessions
  <2>. QED
    BY <1>2, <1>l, <2>1 DEF ServerCloses, callerVars
<1>3. CASE TakeInput
  <2> DEFINE x == Head(wire)
  <2>1. /\ wire # << >> /\ handler = Idle /\ wire' = Tail(wire)
        /\ UNCHANGED <<s, requests, granted, pc, mine>>
        /\ handler'.at = "apply" => x # AnnounceMsg /\ handler'.ok = x.ok /\ handler'.msg = x.msg
    BY <1>3 DEF TakeInput, callerVars, Idle
  <2>2. /\ 1 \in DOMAIN wire /\ x = wire[1]
        /\ \A i \in DOMAIN wire' : i \in Nat \ {0} /\ i + 1 \in DOMAIN wire /\ wire'[i] = wire[i + 1]
    BY <1>t, <2>1, WireFacts
  <2>. HIDE DEF x
  <2>5. OnceOnly'
    <3>1. \A i, j \in DOMAIN wire' :
             wire'[i] # AnnounceMsg /\ wire'[i].msg.cseq = wire'[j].msg.cseq => i = j
      BY <2>2 DEF Wires, OnceOnly
    <3>2. \A i \in DOMAIN wire' :
             /\ wire'[i] = AnnounceMsg \/ wire'[i].msg.cseq \in 1..s.cseq
             /\ \A n \in requests' : n.cseq # wire'[i].msg.cseq
      BY <2>1, <2>2 DEF Wires, OnceOnly
    <3>3. ASSUME x # AnnounceMsg
          PROVE  /\ x.msg.cseq \in 1..s.cseq
                 /\ \A n \in requests : n.cseq # x.msg.cseq
                 /\ \A i \in DOMAIN wire' : wire'[i].msg.cseq # x.msg.cseq
      <4>1. \A i \in DOMAIN wire' : wire[i + 1].msg.cseq # wire[1].msg.cseq
        BY <2>2, <3>3 DEF Wires, OnceOnly
      <4>. QED
        BY <2>2, <3>3, <4>1 DEF Wires, OnceOnly
    <3>. QED
      BY <2>1, <3>1, <3>2, <3>3 DEF Wires, OnceOnly
  <2>6. Unsent'
    BY <2>1, <2>2 DEF Wires, Unsent
  <2>7. AnswersAreTrue'
    BY <2>1, <2>2 DEF Wires, AnswersAreTrue
  <2>. QED
    BY <2>5, <2>6, <2>7 DEF Wires
<1>4. CASE InputCloses
  BY <1>4, <1>l, <1>k, <1>w DEF InputCloses, HandlerDone, callerVars
<1>5. CASE ApplySetup
  <2>1. s'.cseq = s.cseq
    BY <1>5, <1>t DEF ApplySetup, Woken, Sessions
  <2>. QED
    BY <1>5, <1>l, <2>1 DEF ApplySetup, HandlerDone, callerVars
<1>6. CASE ApplyPlay
  <2>1. s'.cseq = s.cseq
    BY <1>6, <1>t DEF ApplyPlay, Woken, Sessions
  <2>. QED
    BY <1>6, <1>l, <2>1 DEF ApplyPlay, HandlerDone, callerVars
<1>7. CASE ApplyPause
  <2>1. s'.cseq = s.cseq
    <3>1. CASE s' = [s EXCEPT !.msg = NoMsg]
      BY <3>1, <1>t DEF Sessions
    <3>2. CASE s' = [Woken(s, FALSE) EXCEPT !.msg = NoMsg]
      BY <3>2, <1>t DEF Woken, Sessions
    <3>3. CASE s' = [Woken(s, TRUE) EXCEPT !.msg = NoMsg, !.status = "READY"]
      BY <3>3, <1>t DEF Woken, Sessions
    <3>. QED
      BY <1>7, <3>1, <3>2, <3>3 DEF ApplyPause
  <2>. QED
    BY <1>7, <1>l, <2>1 DEF ApplyPause, HandlerDone, callerVars
<1>8. CASE ApplyTeardown
  <2>1. handler.ok \in BOOLEAN
    BY <1>t DEF Handlers
  <2>2. s'.cseq = s.cseq /\ requests' \subseteq requests /\ wire' \in {wire, << >>}
    BY <1>8, <1>k, <1>w, <2>1 DEF ApplyTeardown
  <2>. QED
    BY <1>8, <1>l, <2>2 DEF ApplyTeardown, HandlerDone, callerVars
<1>9. CASE ApplyNothing
  BY <1>9, <1>l DEF ApplyNothing, HandlerDone, callerVars
<1>10. CASE AnswerAnnounce
  <2>1. s'.cseq = s.cseq /\ requests' \subseteq requests /\ wire' \in {wire, << >>}
    <3>1. CASE s' = [s EXCEPT !.msg = NoMsg] /\ UNCHANGED <<requests, wire>>
      BY <3>1, <1>t DEF Sessions
    <3>. QED
      BY <1>10, <1>k, <1>w, <3>1 DEF AnswerAnnounce
  <2>. QED
    BY <1>10, <1>l, <2>1 DEF AnswerAnnounce, HandlerDone, callerVars
<1>11. CASE RtpTimeout \/ SweepMarks \/ SweepErases \/ Reap
  <2>1. s'.cseq = s.cseq
    BY <1>11, <1>t DEF RtpTimeout, SweepMarks, SweepErases, Reap, Sessions
  <2>. QED
    BY <1>11, <1>l, <2>1 DEF RtpTimeout, SweepMarks, SweepErases, Reap, reactorVars, callerVars
<1>12. CASE Sweep
  BY <1>12, <1>l, <1>k, <1>w DEF Sweep, callerVars
<1>. QED
  BY <1>0, <1>1, <1>2, <1>3, <1>4, <1>5, <1>6, <1>7, <1>8, <1>9, <1>10, <1>11,
     <1>12 DEF Server, Handle, Manager

-----------------------------------------------------------------------------
(* Tokens *)

\* Where no answer comes and no token is left, nothing is owed to anybody.
LEMMA NothingOwed ==
    ASSUME ~spare' /\ Live' =>
              /\ NoneComes' /\ s'.sem = 0 /\ \A d \in Callers : pc'[d] # "woken"
    PROVE  TokensFit'
BY DEF TokensFit, AnswersAwaited, NoneComes

\* A token that was released for the call that waits, for an answer that is applied.
LEMMA TokenForWaiter ==
    ASSUME MessageOwner, UNCHANGED <<pc, mine>>,
           ~spare' /\ Live' =>
              /\ NoneComes' /\ s'.sem = 1
              /\ \E c \in Callers : pc[c] = "wait" /\ (s'.retFlag => mine[c].cseq \in granted')
    PROVE  TokensFit'
<1>. SUFFICES ASSUME ~spare', Live' PROVE TokensFit'
  BY DEF TokensFit
<1>1. PICK c \in Callers : pc[c] = "wait" /\ (s'.retFlag => mine[c].cseq \in granted')
  OBVIOUS
<1>2. \A d \in Callers : pc[d] \in {"wait", "woken"} => d = c
  BY <1>1, OneHolds DEF Holding
<1>3. \A d \in Callers : pc[d] # "woken"
  BY <1>1, <1>2
<1>. QED
  BY <1>1, <1>2, <1>3 DEF TokensFit, AnswersAwaited, NoneComes

\* A step that adds no answer and no token, and stops nobody who waits.
LEMMA TokensKept ==
    ASSUME TypeOK, OnceOnly, TokensFit, spare' = spare, Live' => Live,
           requests' \subseteq requests, wire' \in {wire, << >>}, handler' = handler \/ handler'.at # "apply",
           s'.sem = s.sem, s'.retFlag = s.retFlag, mine' = mine, granted \subseteq granted',
           s'.msg = s.msg \/ (s'.msg = NoMsg /\ handler'.at # "apply"),
           \A d \in Callers :
              pc'[d] = pc[d] \/ ({pc[d], pc'[d]} \cap {"wait", "woken", "expired"} = {})
    PROVE  TokensFit'
<1>. SUFFICES ASSUME ~spare, Live, Live' PROVE TokensFit'
  BY DEF TokensFit
<1>1. /\ \A m \in requests : m.cseq > 0
      /\ \A i \in DOMAIN wire : wire[i] # AnnounceMsg => wire[i].msg.cseq > 0
      /\ NoMsg.cseq = 0 /\ DOMAIN << >> = {}
  BY DEF OnceOnly, NoMsg
<1>2. \A d \in Callers : /\ Waits(d) <=> Waits(d)'
                         /\ \A l \in {"wait", "woken"} : pc[d] = l <=> pc'[d] = l
  BY DEF Waits
<1>3. CASE s'.msg = s.msg
  <2>1. \A m : Awaited(m) <=> Awaited(m)'
    BY <1>2, <1>3 DEF Awaited
  <2>2. NoneComes => NoneComes'
    BY <1>1, <1>3 DEF NoneComes
  <2>3. AnswersAwaited'
    BY <1>1, <1>3, <2>1 DEF TokensFit, AnswersAwaited
  <2>. QED
    BY <1>2, <2>2, <2>3 DEF TokensFit
<1>4. CASE s'.msg = NoMsg /\ handler'.at # "apply"
  <2>1. NoneComes'
    BY <1>1, <1>4 DEF NoneComes
  <2>. QED
    BY <1>2, <2>1 DEF TokensFit, AnswersAwaited, NoneComes
<1>. QED
  BY <1>3, <1>4

LEMMA CallTokens ==
    ASSUME TypeOK, MessageOwner, AnswerInv, NEW c \in Callers, Proceed(c)
    PROVE  TokensFit'
<1>t. /\ pc \in [Callers -> Locations] /\ mine \in [Callers -> Messages] /\ s \in Sessions
      /\ op \in [Callers -> Methods \union {"none", "free"}]
      /\ requests \subseteq Messages /\ wire \in Seq(Arrivals) /\ handler \in Handlers
  BY DEF TypeOK
<1>i. OnceOnly /\ Unsent /\ TokensFit
  BY DEF AnswerInv
<1>m. /\ \A m \in requests : m.cseq > 0 /\ m.cseq \in 1..s.cseq
      /\ \A i \in DOMAIN wire : wire[i] # AnnounceMsg => wire[i].msg.cseq > 0 /\ wire[i].msg.cseq \in 1..s.cseq
      /\ NoMsg.cseq = 0 /\ DOMAIN << >> = {} /\ Idle.at = "idle"
  BY <1>i DEF OnceOnly, NoMsg, Idle
<1>w. WireLost => requests' = {} /\ wire' = << >>
  BY DEF WireLost
\* The caller is past the lock and waits for nothing.
<1>n. ASSUME pc[c] \in Holding, ~Waits(c), ~spare, Live
      PROVE  NoneComes /\ s.sem = 0 /\ \A d \in Callers : d # c => pc[d] \notin Holding
  <2>1. \A d \in Callers : d # c => pc[d] \notin Holding
    BY <1>n, OneHolds
  <2>2. \A d \in Callers : ~Waits(d)
    BY <1>n, <2>1 DEF Waits, Holding
  <2>3. \A m : ~Awaited(m)
    BY <2>2 DEF Awaited
  <2>. QED
    BY <1>i, <1>n, <2>1, <2>2, <2>3 DEF TokensFit, AnswersAwaited, NoneComes, Waits
\* Such a caller goes on or returns, without an answer more and with this message or none.
<1>l. ASSUME pc[c] \in Holding, ~Waits(c), pc' = [pc EXCEPT ![c] = pc'[c]], pc'[c] # "woken",
             spare' = spare, Live' => Live, s'.sem = s.sem, s'.msg \in {s.msg, NoMsg},
             requests' \subseteq requests, wire' \in {wire, << >>}, handler' = handler
      PROVE  TokensFit'
  <2>. SUFFICES ASSUME ~spare, Live, ~spare', Live'
                PROVE  NoneComes' /\ s'.sem = 0 /\ \A d \in Callers : pc'[d] # "woken"
    BY <1>l, NothingOwed
  <2>1. NoneComes /\ s.sem = 0 /\ \A d \in Callers : d # c => pc[d] \notin Holding
    BY <1>l, <1>n
  <2>2. \A d \in Callers : pc'[d] # "woken"
    BY <1>l, <1>t, <2>1 DEF Holding
  <2>3. NoneComes'
    BY <1>l, <1>m, <2>1 DEF NoneComes
  <2>. QED
    BY <1>l, <2>1, <2>2, <2>3
<1>r. ASSUME NEW seq, NEW ret, Return(c, seq, ret)
      PROVE  pc' = [pc EXCEPT ![c] = pc'[c]] /\ pc'[c] = "idle" /\ mine' = mine
  BY <1>r, <1>t DEF Return, Goto
<1>1. CASE FreeConnectFailed(c)
  <2>1. ~Live'
    BY <1>1, <1>t DEF FreeConnectFailed, Live, Sessions
  <2>. QED
    BY <2>1 DEF TokensFit
<1>2. CASE FreeConnected(c) \/ Lock(c)
  <2>1. /\ UNCHANGED <<s, spare, mine, reactorVars>>
        /\ \A d \in Callers : pc'[d] = pc[d]
                              \/ ({pc[d], pc'[d]} \cap {"wait", "woken", "expired"} = {})
    BY <1>2, <1>t DEF FreeConnected, Lock, Goto
  <2>. QED
    BY <1>i, <2>1, TokensKept DEF reactorVars, Live
<1>3. CASE UseDeleted(c)
  BY <1>3 DEF UseDeleted, TokensFit, Live
<1>4. CASE Refuse(c) \/ MarkFreed(c) \/ ReturnByFlag(c)
  <2>1. s'.sem = s.sem /\ s'.msg = s.msg /\ (Live' => Live)
    BY <1>4, <1>t DEF Refuse, MarkFreed, ReturnByFlag, Sessions
  <2>2. \E seq, ret : Return(c, seq, ret)
    BY <1>4 DEF Refuse, MarkFreed, ReturnByFlag
  <2>3. pc[c] \in Holding /\ ~Waits(c) /\ UNCHANGED <<spare, reactorVars>>
    BY <1>4 DEF Refuse, MarkFreed, ReturnByFlag, Holding, Waits
  <2>. QED
    BY <1>l, <1>r, <2>1, <2>2, <2>3 DEF reactorVars
<1>5. CASE CreateMessage(c)
  <2>. SUFFICES ASSUME ~spare', Live'
                PROVE  NoneComes' /\ s'.sem = 0 /\ \A d \in Callers : pc'[d] # "woken"
    BY NothingOwed
  <2>1. /\ s'.msg.cseq = s.cseq + 1 /\ s.cseq \in Nat /\ s'.sem = s.sem /\ Live
        /\ UNCHANGED <<spare, handler, requests, wire>>
    BY <1>5, <1>t DEF CreateMessage, reactorVars, Sessions
  <2>2. NoneComes /\ s.sem = 0 /\ \A d \in Callers : d # c => pc[d] \notin Holding
    BY <1>5, <1>n, <2>1 DEF CreateMessage, Holding, Waits
  <2>3. \A d \in Callers : pc'[d] # "woken"
    BY <1>5, <1>t, <2>2 DEF CreateMessage, Goto, Holding
  <2>4. NoneComes'
    BY <1>m, <2>1, <2>2 DEF NoneComes
  <2>. QED
    BY <2>1, <2>2, <2>3, <2>4
<1>6. CASE Connect(c)
  <2>1. s'.sem = s.sem /\ s'.msg = s.msg /\ (Live' => Live)
    BY <1>6, <1>t DEF Connect, Sessions
  <2>2. requests' \subseteq requests /\ wire' \in {wire, << >>}
    BY <1>6, <1>w DEF Connect
  <2>3. /\ pc[c] \in Holding /\ ~Waits(c) /\ UNCHANGED <<spare, handler>>
        /\ pc' = [pc EXCEPT ![c] = pc'[c]] /\ pc'[c] = "send"
    BY <1>6, <1>t DEF Connect, Goto, Holding, Waits
  <2>. QED
    BY <1>l, <2>1, <2>2, <2>3
<1>7. CASE ConnectFails(c)
  <2>1. s'.sem = s.sem /\ s'.msg = s.msg /\ (Live' => Live)
    BY <1>7, <1>t DEF ConnectFails, Disconnected, Live, Sessions
  <2>2. pc[c] \in Holding /\ ~Waits(c) /\ UNCHANGED <<spare, reactorVars>>
    BY <1>7 DEF ConnectFails, Holding, Waits
  <2>3. Return(c, 0, "fail")
    BY <1>7 DEF ConnectFails
  <2>. QED
    BY <1>l, <1>r, <2>1, <2>2, <2>3 DEF reactorVars
<1>8. CASE SendFails(c)
  <2>1. s'.sem = s.sem /\ s'.msg \in {s.msg, NoMsg} /\ (Live' => Live)
    BY <1>8, <1>t DEF SendFails, Disconnected, Live, Sessions
  <2>2. requests' \subseteq requests /\ wire' \in {wire, << >>}
    BY <1>8, <1>w DEF SendFails
  <2>3. pc[c] \in Holding /\ ~Waits(c) /\ UNCHANGED <<spare, handler>>
    BY <1>8 DEF SendFails, Holding, Waits
  <2>4. Return(c, 0, "fail")
    BY <1>8 DEF SendFails
  <2>. QED
    BY <1>l, <1>r, <2>1, <2>2, <2>3, <2>4
<1>9. CASE Send(c)
  <2>. SUFFICES ASSUME ~spare, Live PROVE TokensFit'
    BY <1>9 DEF Send, TokensFit, Live
  <2>1. /\ requests' \subseteq requests \union {mine[c]}
        /\ UNCHANGED <<s, handler, wire, mine, spare>> /\ pc[c] = "send"
        /\ pc' = [pc EXCEPT ![c] = "wait"]
    BY <1>9, <1>t DEF Send, Goto
  <2>2. NoneComes /\ s.sem = 0 /\ \A d \in Callers : d # c => pc[d] \notin Holding
    BY <1>n, <2>1 DEF Holding, Waits
  <2>3. \A d \in Callers : pc'[d] # "woken"
    BY <1>t, <2>1, <2>2 DEF Holding
  <2>4. mine[c].cseq = s.msg.cseq => Awaited(mine[c])'
    <3>1. s.msg \in {mine[c], NoMsg} /\ mine[c].cseq > 0
      BY <1>i, <1>t, <2>1 DEF MessageOwner, Holding, Unsent, Sessions
    <3>2. Waits(c)'
      BY <1>t, <2>1 DEF Waits
    <3>. QED
      BY <1>m, <2>1, <3>1, <3>2 DEF Awaited
  <2>. QED
    BY <2>1, <2>2, <2>3, <2>4 DEF TokensFit, AnswersAwaited, NoneComes
<1>10. CASE Acquire(c)
  <2>. SUFFICES ASSUME ~spare, Live PROVE TokensFit'
    BY <1>10 DEF Acquire, TokensFit, Live
  <2>1. /\ s'.sem = s.sem - 1 /\ s'.msg = s.msg /\ s'.retFlag = s.retFlag /\ s.sem > 0
        /\ s'.object = s.object /\ pc[c] = "wait" /\ pc' = [pc EXCEPT ![c] = "woken"]
        /\ UNCHANGED <<handler, requests, wire, granted, mine, spare>>
    BY <1>10, <1>t DEF Acquire, Goto, reactorVars, Sessions
  <2>2. s.sem = 1 /\ NoneComes /\ (s.retFlag => mine[c].cseq \in granted)
    BY <1>i, <2>1 DEF TokensFit
  <2>3. NoneComes'
    BY <2>1, <2>2 DEF NoneComes
  <2>4. \A d \in Callers : pc'[d] = "woken" => d = c
    BY <1>t, <2>1, OneHolds DEF Holding
  <2>. QED
    BY <2>1, <2>2, <2>3, <2>4 DEF TokensFit, AnswersAwaited, NoneComes
<1>11. CASE TimeOut(c)
  <2>. SUFFICES ASSUME ~spare, Live PROVE TokensFit'
    BY <1>11 DEF TimeOut, TokensFit, Live
  <2>1. /\ UNCHANGED <<s, handler, requests, wire, granted, mine, spare>> /\ s.sem = 0
        /\ pc[c] = "wait" /\ pc' = [pc EXCEPT ![c] = "expired"]
    BY <1>11 DEF TimeOut, Goto, reactorVars
  <2>2. \A d \in Callers : Waits(d) => Waits(d)'
    BY <1>t, <2>1 DEF Waits
  <2>3. \A m : Awaited(m) => Awaited(m)'
    BY <2>1, <2>2 DEF Awaited
  <2>4. \A d \in Callers : pc'[d] # "woken"
    BY <1>t, <2>1, OneHolds DEF Holding
  <2>5. AnswersAwaited'
    BY <1>i, <2>1, <2>3 DEF TokensFit, AnswersAwaited
  <2>. QED
    BY <2>1, <2>4, <2>5 DEF TokensFit
<1>12. CASE Expire(c)
  <2>. SUFFICES ASSUME ~spare, Live
                PROVE  NoneComes' /\ s'.sem = 0 /\ \A d \in Callers : pc'[d] # "woken"
    BY <1>12, NothingOwed DEF Expire
  <2>1. /\ s'.sem = s.sem /\ s'.msg = NoMsg /\ pc[c] = "expired" /\ handler = Idle
        /\ pc' = [pc EXCEPT ![c] = "idle"]
        /\ UNCHANGED <<handler, requests, wire>>
    BY <1>12, <1>t DEF Expire, Return, Goto, reactorVars, Sessions
  <2>2. \A d \in Callers : d # c => pc[d] \notin Holding
    BY <2>1, OneHolds DEF Holding
  <2>3. \A d \in Callers : pc[d] # "wait" /\ pc[d] # "woken"
    BY <2>1, <2>2 DEF Holding
  <2>4. s.sem = 0
    BY <1>i, <2>3 DEF TokensFit
  <2>5. NoneComes'
    BY <1>m, <2>1 DEF NoneComes
  <2>6. \A d \in Callers : pc'[d] # "woken"
    BY <1>t, <2>1, <2>3
  <2>. QED
    BY <2>1, <2>4, <2>5, <2>6
<1>13. CASE SetupDone(c) \/ ReturnRetCode(c)
  <2>1. s'.sem = s.sem /\ s'.msg \in {s.msg, NoMsg} /\ (Live' => Live)
    BY <1>13, <1>t DEF SetupDone, ReturnRetCode, Sessions
  <2>2. \E seq, ret : Return(c, seq, ret)
    BY <1>13 DEF SetupDone, ReturnRetCode
  <2>3. pc[c] \in Holding /\ ~Waits(c) /\ UNCHANGED <<spare, reactorVars>>
    BY <1>13 DEF SetupDone, ReturnRetCode, Holding, Waits
  <2>. QED
    BY <1>l, <1>r, <2>1, <2>2, <2>3 DEF reactorVars
<1>14. CASE SetupRefused(c)
  <2>1. /\ UNCHANGED <<s, spare, reactorVars>> /\ pc[c] = "woken" /\ pc'[c] = "refused"
        /\ pc' = [pc EXCEPT ![c] = "refused"]
    BY <1>14, <1>t DEF SetupRefused, Goto
  <2>. QED
    BY <1>l, <2>1 DEF reactorVars, Holding, Waits, Live
<1>. QED
  BY <1>1, <1>2, <1>3, <1>4, <1>5, <1>6, <1>7, <1>8, <1>9, <1>10, <1>11, <1>12, <1>13,
     <1>14 DEF Proceed

LEMMA OtherTokens ==
    ASSUME TypeOK, MessageOwner, AnswerInv, Server \/ Handle \/ RtpTimeout \/ Manager
    PROVE  TokensFit'
<1>t. /\ pc \in [Callers -> Locations] /\ mine \in [Callers -> Messages] /\ s \in Sessions
      /\ requests \subseteq Messages /\ wire \in Seq(Arrivals) /\ handler \in Handlers
  BY DEF TypeOK
<1>i. OnceOnly /\ AnswersAreTrue /\ TokensFit
  BY DEF AnswerInv
<1>m. /\ \A m \in requests : m.cseq > 0
      /\ \A i \in DOMAIN wire : wire[i] # AnnounceMsg => wire[i].msg.cseq > 0
      /\ NoMsg.cseq = 0 /\ DOMAIN << >> = {} /\ Idle.at = "idle" /\ AnnounceMsg \in Arrivals
  BY <1>i DEF OnceOnly, NoMsg, Idle, AnnounceMsg, Arrivals, Messages
<1>w. WireLost => requests' = {} /\ wire' = << >>
  BY DEF WireLost
<1>d. \A b \in BOOLEAN : /\ Disconnected(s) = [s EXCEPT !.timer = FALSE, !.stream = "none"]
                         /\ Disconnected(s).sem = s.sem /\ Disconnected(s).msg = s.msg
                         /\ Disconnected(s).retFlag = s.retFlag
                         /\ Disconnected(s).object = s.object
                         /\ Disconnected(Woken(s, b)).sem = s.sem + 1
                         /\ Disconnected(Woken(s, b)).msg = s.msg
                         /\ Disconnected(Woken(s, b)).retFlag = b
                         /\ Disconnected(Woken(s, b)).object = s.object
  BY <1>t DEF Disconnected, Woken, Sessions
\* A step that leaves the calls alone and adds neither an answer nor a token.
<1>k. ASSUME UNCHANGED <<pc, mine, spare, granted>>, Live' => Live,
             requests' \subseteq requests, wire' \in {wire, << >>},
             handler' = handler \/ handler'.at # "apply",
             s'.sem = s.sem, s'.retFlag = s.retFlag,
             s'.msg = s.msg \/ (s'.msg = NoMsg /\ handler'.at # "apply")
      PROVE  TokensFit'
  BY <1>i, <1>k, TokensKept
\* An answer is applied, and its message is kept or destroyed.
<1>a. ASSUME handler.at = "apply", ~spare, Live
      PROVE  /\ s.sem = 0 /\ s.msg = handler.msg
             /\ handler.ok => handler.msg.cseq \in granted
             /\ \A c \in Callers : pc[c] = "wait" => mine[c] = handler.msg
             /\ \A m \in requests : m.cseq # s.msg.cseq
             /\ \A i \in DOMAIN wire : wire[i].msg.cseq # s.msg.cseq
  <2>1. Awaited(handler.msg) /\ s.sem = 0
    BY <1>a, <1>i, <1>t DEF TokensFit, AnswersAwaited, NoneComes, Sessions
  <2>2. PICK c \in Callers : Waits(c) /\ mine[c] = handler.msg
    BY <2>1 DEF Awaited
  <2>3. \A d \in Callers : pc[d] = "wait" => d = c
    BY <2>2, OneHolds DEF Waits, Holding
  <2>. QED
    BY <1>a, <1>i, <2>1, <2>2, <2>3 DEF Awaited, OnceOnly, AnswersAreTrue
<1>b. ASSUME handler.at = "apply", ~spare, Live, handler' = Idle,
             s'.msg \in {s.msg, NoMsg}, requests' \subseteq requests, wire' \in {wire, << >>}
      PROVE  NoneComes'
  BY <1>a, <1>b, <1>m DEF NoneComes
<1>v. ASSUME NEW flag \in BOOLEAN, handler.at = "apply", flag => handler.ok, HandlerDone, NoteSpare,
             s'.sem = s.sem + 1, s'.retFlag = flag, s'.msg \in {s.msg, NoMsg}, s'.object = s.object,
             requests' \subseteq requests, wire' \in {wire, << >>}
      PROVE  TokensFit'
  <2>0. handler' = Idle /\ UNCHANGED <<pc, mine, granted>>
    BY <1>v DEF HandlerDone, callerVars
  <2>. SUFFICES ASSUME ~spare', Live'
                PROVE  /\ NoneComes' /\ s'.sem = 1
                       /\ \E c \in Callers : pc[c] = "wait" /\ (s'.retFlag => mine[c].cseq \in granted')
    BY <2>0, TokenForWaiter
  <2>1. ~spare /\ Live /\ \E c \in Callers : pc[c] = "wait"
    BY <1>v DEF NoteSpare, Live
  <2>. QED
    BY <1>a, <1>b, <1>v, <2>0, <2>1
\* An answer is applied and wakes nobody.
<1>q. ASSUME handler.at = "apply", HandlerDone, spare' = spare,
             s'.sem = s.sem, s'.msg \in {s.msg, NoMsg}, s'.object = s.object,
             requests' \subseteq requests, wire' \in {wire, << >>}
      PROVE  TokensFit'
  <2>0. handler' = Idle /\ UNCHANGED <<pc, mine, granted>>
    BY <1>q DEF HandlerDone, callerVars
  <2>. SUFFICES ASSUME ~spare, Live PROVE TokensFit'
    BY <1>q DEF TokensFit, Live
  <2>1. s.sem = 0 /\ NoneComes'
    BY <1>a, <1>b, <1>q, <2>0
  <2>2. PICK c \in Callers : Waits(c)
    BY <1>i, <1>q DEF TokensFit, AnswersAwaited, Awaited
  <2>3. \A d \in Callers : pc[d] # "woken"
    BY <2>2, OneHolds DEF Waits, Holding
  <2>. QED
    BY <1>q, <2>0, <2>1, <2>3, NothingOwed
<1>0. ASSUME NEW m \in requests, NEW ok \in BOOLEAN, Answer(m, ok) PROVE TokensFit'
  <2> DEFINE x == [msg |-> m, ok |-> ok]
  <2>. SUFFICES ASSUME ~spare, Live PROVE TokensFit'
    BY <1>0 DEF Answer, TokensFit, Live
  <2>1. /\ requests' \subseteq requests /\ wire' = Append(wire, x) /\ x.msg = m
        /\ UNCHANGED <<s, handler, pc, mine, spare>> /\ granted \subseteq granted'
    BY <1>0 DEF Answer, callerVars
  <2>2. x \in Arrivals
    BY <1>t DEF Arrivals
  <2>4. \A i \in DOMAIN wire' : \/ (i \in DOMAIN wire /\ wire'[i] = wire[i])
                                \/ wire'[i] = x
    <3>1. \A i \in DOMAIN Append(wire, x) :
             \/ (i \in DOMAIN wire /\ Append(wire, x)[i] = wire[i])
             \/ (i = Len(wire) + 1 /\ Append(wire, x)[i] = x)
      BY <1>t, <2>2, WireFacts, Zenon
    <3>. QED
      BY <2>1, <3>1, Zenon
  <2>. HIDE DEF x
  <2>5. \A n : Awaited(n) <=> Awaited(n)'
    BY <2>1 DEF Awaited, Waits
  <2>6. AnswersAwaited'
    BY <1>i, <2>1, <2>4, <2>5 DEF TokensFit, AnswersAwaited
  <2>7. NoneComes => NoneComes'
    BY <2>1, <2>4 DEF NoneComes
  <2>. QED
    BY <1>i, <2>1, <2>6, <2>7 DEF TokensFit
<1>1. CASE Announce
  <2>. SUFFICES ASSUME ~spare, Live PROVE TokensFit'
    BY <1>1 DEF Announce, TokensFit, Live
  <2>1. /\ wire' = Append(wire, AnnounceMsg)
        /\ UNCHANGED <<s, handler, requests, granted, pc, mine, spare>>
    BY <1>1 DEF Announce, callerVars
  <2>4. \A i \in DOMAIN wire' : \/ (i \in DOMAIN wire /\ wire'[i] = wire[i])
                                \/ wire'[i] = AnnounceMsg
    <3>1. \A i \in DOMAIN Append(wire, AnnounceMsg) :
             \/ (i \in DOMAIN wire /\ Append(wire, AnnounceMsg)[i] = wire[i])
             \/ (i = Len(wire) + 1 /\ Append(wire, AnnounceMsg)[i] = AnnounceMsg)
      BY <1>t, <1>m, WireFacts, Zenon
    <3>. QED
      BY <2>1, <3>1, Zenon
  <2>5. \A n : Awaited(n) <=> Awaited(n)'
    BY <2>1 DEF Awaited, Waits
  <2>6. AnswersAwaited'
    BY <1>i, <2>1, <2>4, <2>5 DEF TokensFit, AnswersAwaited
  <2>7. NoneComes => NoneComes'
    BY <2>1, <2>4 DEF NoneComes
  <2>. QED
    BY <1>i, <2>1, <2>6, <2>7 DEF TokensFit
<1>2. CASE ServerCloses
  <2>1. s'.sem = s.sem /\ s'.msg = s.msg /\ s'.retFlag = s.retFlag /\ s'.object = s.object
    BY <1>2, <1>t DEF ServerCloses, Sessions
  <2>. QED
    BY <1>2, <1>k, <2>1 DEF ServerCloses, callerVars, Live
<1>3. CASE TakeInput
  <2> DEFINE x == Head(wire)
  <2>1. /\ wire # << >> /\ handler = Idle /\ wire' = Tail(wire) /\ Live
        /\ UNCHANGED <<s, requests, granted, pc, mine, spare>>
        /\ handler'.at = "apply" =>
              x # AnnounceMsg /\ s.msg.cseq = x.msg.cseq /\ handler'.msg = x.msg
    BY <1>3 DEF TakeInput, callerVars, Idle
  <2>2. /\ 1 \in DOMAIN wire /\ x = wire[1]
        /\ \A i \in DOMAIN wire' : i + 1 \in DOMAIN wire /\ wire'[i] = wire[i + 1]
    BY <1>t, <2>1, WireFacts
  <2>. HIDE DEF x
  <2>. SUFFICES ASSUME ~spare PROVE TokensFit'
    BY <2>1 DEF TokensFit
  <2>5. \A n : Awaited(n) <=> Awaited(n)'
    BY <2>1 DEF Awaited, Waits
  <2>6. AnswersAwaited'
    BY <1>i, <2>1, <2>2, <2>5 DEF TokensFit, AnswersAwaited
  <2>7. NoneComes => NoneComes'
    BY <2>1, <2>2 DEF NoneComes
  <2>. QED
    BY <1>i, <2>1, <2>6, <2>7 DEF TokensFit
<1>4. CASE InputCloses
  <2>0. handler' = Idle /\ UNCHANGED <<pc, mine, granted>>
    BY <1>4 DEF InputCloses, HandlerDone, callerVars
  <2>. SUFFICES ASSUME ~spare', Live'
                PROVE  /\ NoneComes' /\ s'.sem = 1
                       /\ \E c \in Callers : pc[c] = "wait" /\ (s'.retFlag => mine[c].cseq \in granted')
    BY <2>0, TokenForWaiter
  <2>1. /\ requests' = {} /\ wire' = << >> /\ s'.sem = s.sem + 1 /\ s'.retFlag = FALSE
        /\ s.sem = 0 /\ \E c \in Callers : pc[c] = "wait"
    <3>1. requests' = {} /\ wire' = << >> /\ s'.sem = s.sem + 1 /\ s'.retFlag = FALSE
      BY <1>4, <1>d, <1>w DEF InputCloses
    <3>2. ~(s.sem > 0) /\ \E c \in Callers : pc[c] = "wait"
      BY <1>4 DEF InputCloses, NoteSpare
    <3>. QED
      BY <1>t, <3>1, <3>2 DEF Sessions
  <2>2. NoneComes'
    BY <1>m, <2>0, <2>1 DEF NoneComes
  <2>. QED
    BY <2>1, <2>2
<1>5. CASE ApplySetup
  <2>1. /\ s'.sem = s.sem + 1 /\ s'.msg = s.msg /\ s'.object = s.object
        /\ \E flag \in BOOLEAN : s'.retFlag = flag /\ (flag => handler.ok)
    BY <1>5, <1>t DEF ApplySetup, Woken, Sessions, Handlers
  <2>. QED
    BY <1>5, <1>v, <2>1 DEF ApplySetup, Applying
<1>6. CASE ApplyPlay
  <2>1. /\ s'.sem = s.sem + 1 /\ s'.msg = NoMsg /\ s'.object = s.object
        /\ \E flag \in BOOLEAN : s'.retFlag = flag /\ (flag => handler.ok)
    BY <1>6, <1>t DEF ApplyPlay, Woken, Sessions, Handlers
  <2>. QED
    BY <1>6, <1>v, <2>1 DEF ApplyPlay, Applying
<1>7. CASE ApplyPause
  <2>1. CASE s.status = "READY"
    <3>1. s'.sem = s.sem /\ s'.msg = NoMsg /\ s'.object = s.object /\ spare' = spare
      BY <1>7, <1>t, <2>1 DEF ApplyPause, Sessions
    <3>. QED
      BY <1>7, <1>q, <3>1 DEF ApplyPause, Applying
  <2>2. CASE s.status # "READY"
    <3>1. /\ s'.sem = s.sem + 1 /\ s'.msg = NoMsg /\ s'.object = s.object
          /\ \E flag \in BOOLEAN : s'.retFlag = flag /\ (flag => handler.ok)
      <4>1. CASE s' = [Woken(s, FALSE) EXCEPT !.msg = NoMsg]
        BY <4>1, <1>t DEF Woken, Sessions
      <4>2. CASE s' = [Woken(s, TRUE) EXCEPT !.msg = NoMsg, !.status = "READY"] /\ handler.ok
        BY <4>2, <1>t DEF Woken, Sessions
      <4>. QED
        BY <1>7, <2>2, <4>1, <4>2 DEF ApplyPause
    <3>. QED
      BY <1>7, <1>v, <2>2, <3>1 DEF ApplyPause, Applying
  <2>. QED
    BY <2>1, <2>2
<1>8. CASE ApplyTeardown
  <2>1. CASE s.status = "INIT"
    BY <1>8, <1>q, <2>1 DEF ApplyTeardown, Applying
  <2>2. CASE s.status # "INIT"
    <3>1. handler.ok \in BOOLEAN
      BY <1>t DEF Handlers
    <3>2. /\ s'.sem = s.sem + 1 /\ s'.msg = s.msg /\ s'.object = s.object /\ s'.retFlag = handler.ok
          /\ requests' \subseteq requests /\ wire' \in {wire, << >>}
      BY <1>8, <1>d, <1>w, <2>2, <3>1 DEF ApplyTeardown
    <3>. QED
      BY <1>8, <1>v, <2>2, <3>1, <3>2 DEF ApplyTeardown, Applying
  <2>. QED
    BY <2>1, <2>2
<1>9. CASE ApplyNothing
  BY <1>9, <1>q DEF ApplyNothing, Applying
<1>10. CASE AnswerAnnounce
  <2>1. /\ s'.sem = s.sem /\ s'.msg \in {s.msg, NoMsg} /\ s'.retFlag = s.retFlag /\ s'.object = s.object
        /\ requests' \subseteq requests /\ wire' \in {wire, << >>}
    <3>1. CASE s' = [s EXCEPT !.msg = NoMsg] /\ UNCHANGED <<requests, wire>>
      BY <3>1, <1>t DEF Sessions
    <3>. QED
      BY <1>10, <1>d, <1>w, <3>1 DEF AnswerAnnounce
  <2>. QED
    BY <1>10, <1>k, <1>m, <2>1 DEF AnswerAnnounce, HandlerDone, callerVars, Live
<1>11. CASE RtpTimeout \/ SweepMarks \/ SweepErases
  <2>1. s'.sem = s.sem /\ s'.msg = s.msg /\ s'.retFlag = s.retFlag /\ s'.object = s.object
    BY <1>11, <1>t DEF RtpTimeout, SweepMarks, SweepErases, Sessions
  <2>. QED
    BY <1>11, <1>k, <2>1 DEF RtpTimeout, SweepMarks, SweepErases, reactorVars, callerVars, Live
<1>12. CASE Sweep
  BY <1>12, <1>k, <1>d, <1>w DEF Sweep, callerVars, Live
<1>13. CASE Reap
  BY <1>13, <1>t DEF Reap, TokensFit, Live, Sessions
<1>. QED
  BY <1>0, <1>1, <1>2, <1>3, <1>4, <1>5, <1>6, <1>7, <1>8, <1>9, <1>10, <1>11,
     <1>12, <1>13 DEF Server, Handle, Manager

LEMMA ResultStep ==
    ASSUME TypeOK, AnswerInv, [Next]_vars
    PROVE  (GoneIsIdle /\ RefusedIsSetup /\ OkMeansGranted)'
<1>t. /\ pc \in [Callers -> Locations] /\ mine \in [Callers -> Messages] /\ s \in Sessions
      /\ op \in [Callers -> Methods \union {"none", "free"}] /\ result \in [Callers -> Results]
      /\ handler \in Handlers
  BY DEF TypeOK
<1>i. GoneIsIdle /\ RefusedIsSetup /\ OkMeansGranted /\ TokensFit
  BY DEF AnswerInv
\* A call that returns, and what it tells.
<1>r. ASSUME NEW c \in Callers, NEW seq, NEW ret, Return(c, seq, ret),
             UNCHANGED <<spare, granted>>,
             ret = "ok" /\ seq > 0 /\ op[c] # "setup" /\ ~spare => seq \in granted
      PROVE  RefusedIsSetup' /\ OkMeansGranted'
  <2>1. result' = [result EXCEPT ![c] = [op |-> op[c], cseq |-> seq, ret |-> ret]]
        /\ op' = op /\ pc' = [pc EXCEPT ![c] = "idle"]
    BY <1>r DEF Return, Goto
  <2>2. \A d \in Callers : d # c => result'[d] = result[d]
    BY <1>t, <2>1
  <2>3. result'[c] = [op |-> op[c], cseq |-> seq, ret |-> ret]
    BY <1>t, <2>1
  <2>4. OkMeansGranted'
    BY <1>r, <1>i, <2>2, <2>3 DEF OkMeansGranted
  <2>5. RefusedIsSetup'
    BY <1>t, <1>i, <2>1 DEF RefusedIsSetup
  <2>. QED
    BY <2>4, <2>5
\* No call returns.
<1>s. ASSUME UNCHANGED <<result, spare>> \/ (result' = result /\ (spare => spare')),
             granted \subseteq granted',
             \A c \in Callers : pc'[c] = "refused" =>
                (pc[c] = "refused" /\ op'[c] = op[c]) \/ op'[c] = "setup"
      PROVE  RefusedIsSetup' /\ OkMeansGranted'
  BY <1>s, <1>i DEF RefusedIsSetup, OkMeansGranted
<1>n. NoteSpare => (spare => spare')
  BY DEF NoteSpare
<1>1. CASE GetHandle
  <2>1. \A c \in Callers : result'[c].ret = "none" /\ pc'[c] = "idle"
    BY <1>1 DEF GetHandle, NoResult
  <2>2. handler' = Idle
    BY <1>1, <1>i DEF GetHandle, GoneIsIdle
  <2>. QED
    BY <2>1, <2>2 DEF GoneIsIdle, RefusedIsSetup, OkMeansGranted
<1>2. ASSUME NEW c \in Callers, NEW o \in Methods \union {"free"}, Begin(c, o)
      PROVE  (GoneIsIdle /\ RefusedIsSetup /\ OkMeansGranted)'
  <2>1. \A d \in Callers : pc'[d] = "refused" => pc[d] = "refused" /\ op'[d] = op[d]
    BY <1>2, <1>t DEF Begin, Goto
  <2>. QED
    BY <1>2, <1>s, <1>i, <2>1 DEF Begin, reactorVars, GoneIsIdle, Live
<1>3. ASSUME NEW c \in Callers, Proceed(c)
      PROVE  (GoneIsIdle /\ RefusedIsSetup /\ OkMeansGranted)'
  <2>0. GoneIsIdle'
    <3>1. handler' = handler
      BY <1>3 DEF Proceed, FreeConnectFailed, FreeConnected, Lock, Refuse, CreateMessage, MarkFreed,
         Connect, ConnectFails, Send, SendFails, Acquire, TimeOut, Expire, ReturnByFlag, SetupDone,
         SetupRefused, ReturnRetCode, UseDeleted, reactorVars
    <3>2. CASE FreeConnectFailed(c) \/ UseDeleted(c)
      BY <1>i, <3>1, <3>2 DEF FreeConnectFailed, UseDeleted, GoneIsIdle, Live
    <3>3. CASE ~(FreeConnectFailed(c) \/ UseDeleted(c))
      <4>1. s'.object = s.object
        BY <1>3, <1>t, <3>3 DEF Proceed, FreeConnected, Lock, Refuse, CreateMessage, MarkFreed,
           Connect, ConnectFails, Send, SendFails, Acquire, TimeOut, Expire, ReturnByFlag, SetupDone,
           SetupRefused, ReturnRetCode, Disconnected, Sessions
      <4>. QED
        BY <1>i, <3>1, <4>1 DEF GoneIsIdle, Live
    <3>. QED
      BY <3>2, <3>3
  <2>1. CASE FreeConnectFailed(c) \/ FreeConnected(c) \/ Lock(c) \/ CreateMessage(c) \/ Connect(c)
             \/ Send(c) \/ Acquire(c) \/ TimeOut(c) \/ UseDeleted(c)
    <3>1. /\ UNCHANGED <<result, spare, granted, op>>
          /\ \A d \in Callers : pc'[d] = "refused" => pc[d] = "refused"
      BY <2>1, <1>t DEF FreeConnectFailed, FreeConnected, Lock, CreateMessage, Connect, Send, Acquire,
                        TimeOut, UseDeleted, Goto, reactorVars
    <3>. QED
      BY <1>s, <2>0, <3>1
  <2>2. CASE SetupRefused(c)
    <3>1. /\ UNCHANGED <<result, spare, granted, op>>
          /\ \A d \in Callers : pc'[d] = "refused" => pc[d] = "refused" \/ op[d] = "setup"
      BY <2>2, <1>t DEF SetupRefused, Goto, reactorVars
    <3>. QED
      BY <1>s, <2>0, <3>1
  <2>3. CASE Refuse(c) \/ MarkFreed(c) \/ ConnectFails(c) \/ SendFails(c) \/ Expire(c)
    <3>1. (\E ret : Return(c, 0, ret)) /\ UNCHANGED <<spare, granted>>
      BY <2>3 DEF Refuse, MarkFreed, ConnectFails, SendFails, Expire, reactorVars
    <3>. QED
      BY <1>r, <2>0, <3>1
  <2>4. CASE ReturnByFlag(c)
    <3>1. ~spare /\ s.retFlag => mine[c].cseq \in granted
      BY <1>i, <2>4 DEF ReturnByFlag, TokensFit
    <3>2. /\ Return(c, mine[c].cseq, IF s.retFlag THEN "ok" ELSE "fail")
          /\ UNCHANGED <<spare, granted>>
      BY <2>4 DEF ReturnByFlag, reactorVars
    <3>. QED
      BY <1>r, <2>0, <3>1, <3>2
  <2>5. CASE SetupDone(c) \/ ReturnRetCode(c)
    <3>1. op[c] = "setup"
      BY <1>i, <2>5 DEF SetupDone, ReturnRetCode, RefusedIsSetup
    <3>2. (\E seq, ret : Return(c, seq, ret)) /\ UNCHANGED <<spare, granted>>
      BY <2>5 DEF SetupDone, ReturnRetCode, reactorVars
    <3>. QED
      BY <1>r, <2>0, <3>1, <3>2
  <2>. QED
    BY <1>3, <2>1, <2>2, <2>3, <2>4, <2>5 DEF Proceed
<1>4. CASE Server \/ Handle \/ RtpTimeout \/ Manager
  <2>1. UNCHANGED <<pc, op, result>> /\ granted \subseteq granted' /\ (spare => spare')
    <3>0. ASSUME NEW m \in requests, NEW ok \in BOOLEAN, Answer(m, ok)
          PROVE  UNCHANGED <<callerVars, spare>> /\ granted \subseteq granted'
      BY <3>0 DEF Answer
    <3>1. CASE Announce \/ ServerCloses \/ RtpTimeout \/ Manager
      <4>1. UNCHANGED <<callerVars, granted, spare>>
        BY <3>1 DEF Announce, ServerCloses, RtpTimeout, Manager, Sweep, SweepMarks, SweepErases, Reap,
           reactorVars
      <4>. QED
        BY <4>1 DEF callerVars
    <3>2. CASE Handle
      <4>1. UNCHANGED <<callerVars, granted>>
        BY <3>2 DEF Handle, TakeInput, InputCloses, ApplySetup, ApplyPlay, ApplyPause, ApplyTeardown,
           ApplyNothing, AnswerAnnounce, HandlerDone
      <4>2. spare' = spare \/ NoteSpare
        BY <3>2, Zenon DEF Handle, TakeInput, InputCloses, ApplySetup, ApplyPlay, ApplyPause,
           ApplyTeardown, ApplyNothing, AnswerAnnounce
      <4>. QED
        BY <4>1, <4>2, <1>n DEF callerVars
    <3>. QED
      BY <1>4, <3>0, <3>1, <3>2 DEF Server, callerVars
  <2>2. CASE Handle \/ Reap
    <3>1. handler' = Idle \/ (Live /\ s' = s)
      BY <2>2, <1>i DEF Handle, TakeInput, InputCloses, ApplySetup, ApplyPlay, ApplyPause, ApplyTeardown,
         ApplyNothing, AnswerAnnounce, HandlerDone, Reap, reactorVars
    <3>. QED
      BY <1>s, <2>1, <3>1 DEF GoneIsIdle, Live
  <2>3. CASE Server \/ RtpTimeout \/ Sweep \/ SweepMarks \/ SweepErases
    <3>1. handler' = handler /\ s'.object = s.object
      BY <2>3, <1>t DEF Server, Answer, Announce, ServerCloses, RtpTimeout, Sweep, SweepMarks,
         SweepErases, Disconnected, reactorVars, Sessions
    <3>. QED
      BY <1>s, <1>i, <2>1, <3>1 DEF GoneIsIdle, Live
  <2>. QED
    BY <1>4, <2>2, <2>3 DEF Manager
<1>5. CASE UNCHANGED vars
  BY <1>5, <1>i DEF vars, GoneIsIdle, RefusedIsSetup, OkMeansGranted, Live
<1>. QED
  BY <1>1, <1>2, <1>3, <1>4, <1>5 DEF Next

LEMMA AnswerStep == TypeOK /\ MessageOwner /\ AnswerInv /\ [Next]_vars => AnswerInv'
<1>. SUFFICES ASSUME TypeOK, MessageOwner, AnswerInv, [Next]_vars PROVE Wires' /\ TokensFit'
  BY ResultStep DEF AnswerInv, Wires
<1>t. pc \in [Callers -> Locations] /\ s \in Sessions
  BY DEF TypeOK
<1>i. Wires /\ TokensFit
  BY DEF AnswerInv, Wires
<1>1. CASE GetHandle
  <2>1. /\ s' = Fresh /\ requests' = {} /\ wire' = << >> /\ handler' = Idle
        /\ \A c \in Callers : pc'[c] = "idle"
    BY <1>1 DEF GetHandle, WireLost, AnswerInv, GoneIsIdle
  <2>2. Fresh.sem = 0 /\ Fresh.msg = NoMsg /\ DOMAIN << >> = {} /\ Idle.at = "idle"
    BY DEF Fresh, Idle
  <2>3. Wires'
    BY <2>1, <2>2 DEF Wires, OnceOnly, Unsent, AnswersAreTrue
  <2>. QED
    BY <2>1, <2>2, <2>3, NothingOwed DEF NoneComes
<1>2. ASSUME NEW c \in Callers, NEW o \in Methods \union {"free"}, Begin(c, o)
      PROVE  Wires' /\ TokensFit'
  <2>1. /\ UNCHANGED <<s, handler, requests, wire, granted, spare>> /\ pc[c] = "idle"
        /\ pc'[c] \in {"freeing", "locking"}
        /\ \A d \in Callers : d # c => pc'[d] = pc[d] /\ mine'[d] = mine[d]
    BY <1>2, <1>t DEF Begin, Goto, reactorVars, TypeOK
  <2>2. \A d \in Callers : pc'[d] \in {"connect", "send", "wait", "woken", "expired"}
                           => pc'[d] = pc[d] /\ mine'[d] = mine[d]
    BY <2>1
  <2>3. \A d \in Callers : pc[d] \in {"wait", "woken", "expired"}
                           => pc'[d] = pc[d] /\ mine'[d] = mine[d]
    BY <2>1
  <2>4. \A m : Awaited(m) <=> Awaited(m)'
    BY <2>1, <2>2, <2>3 DEF Awaited, Waits
  <2>5. AnswersAwaited <=> AnswersAwaited'
    BY <2>1, <2>4 DEF AnswersAwaited
  <2>6. TokensFit'
    BY <1>i, <2>1, <2>2, <2>3, <2>5 DEF TokensFit, NoneComes, Live
  <2>7. Wires'
    BY <1>i, <2>1, <2>2 DEF Wires, OnceOnly, Unsent, AnswersAreTrue
  <2>. QED
    BY <2>6, <2>7
<1>3. ASSUME NEW c \in Callers, Proceed(c) PROVE Wires' /\ TokensFit'
  BY <1>3, <1>i, CallWires, CallTokens
<1>4. CASE Server \/ Handle \/ RtpTimeout \/ Manager
  BY <1>4, <1>i, OtherWires, OtherTokens
<1>5. CASE UNCHANGED vars
  BY <1>5, <1>i DEF vars, Wires, OnceOnly, Unsent, AnswersAreTrue, TokensFit, AnswersAwaited, Awaited,
                    NoneComes, Waits, Live
<1>. QED
  BY <1>1, <1>2, <1>3, <1>4, <1>5 DEF Next

LEMMA AnswerInvCorrect == Spec => []AnswerInv
<1>1. Init => AnswerInv
  <2>. SUFFICES ASSUME Init PROVE AnswerInv
    OBVIOUS
  <2>1. /\ requests = {} /\ wire = << >> /\ handler = Idle /\ ~Live
        /\ \A c \in Callers : pc[c] = "idle" /\ result[c].ret = "none"
    BY DEF Init, Live, Fresh, NoResult
  <2>2. DOMAIN << >> = {} /\ Idle.at = "idle"
    BY DEF Idle
  <2>. QED
    BY <2>1, <2>2 DEF AnswerInv, OnceOnly, Unsent, AnswersAreTrue, TokensFit, GoneIsIdle,
                      RefusedIsSetup, OkMeansGranted
<1>2. TypeOK /\ MessageOwner /\ AnswerInv /\ [Next]_vars => AnswerInv'
  BY AnswerStep
<1>. QED
  BY <1>1, <1>2, TypeCorrect, OwnerCorrect, PTL DEF Spec

\* While every token of the semaphore was for a call that waited, what the reactor thread
\* decodes is the message of the session: no caller replaces or destroys it meanwhile.
THEOREM HandlerKeepsMessageCorrect == Spec => []HandlerKeepsMessage
<1>1. AnswerInv => HandlerKeepsMessage
  <2>. SUFFICES ASSUME AnswerInv, handler.at = "apply", ~spare PROVE s.msg = handler.msg
    BY DEF HandlerKeepsMessage
  <2>1. Live
    BY DEF AnswerInv, GoneIsIdle, Idle
  <2>. QED
    BY <2>1 DEF AnswerInv, TokensFit, AnswersAwaited, Awaited
<1>. QED
  BY <1>1, AnswerInvCorrect, PTL

\* As long as no token was released that nobody waited for, PLAY, PAUSE and TEARDOWN
\* return RET_OK after a request only if the server granted it.
THEOREM OkMeansGrantedCorrect == Spec => []OkMeansGranted
<1>1. AnswerInv => OkMeansGranted
  BY DEF AnswerInv
<1>. QED
  BY <1>1, AnswerInvCorrect, PTL

-----------------------------------------------------------------------------

\* With one caller, a session that was freed does not come back to life by a late answer:
\* nobody waits any more, so no answer is applied, as long as no token was released that
\* nobody waited for.
THEOREM FreedStaysFreedCorrect ==
    ASSUME Alone
    PROVE  Spec => FreedStaysFreed
<1> DEFINE Stays == s.status = "ABNORMAL" /\ Live /\ ~spare =>
                       s'.status \in {"ABNORMAL", "DELETE"} \/ s'.object = "deleted"
<1>1. TypeOK /\ LifeInv /\ AnswerInv /\ [Next]_vars => [Stays]_vars
  <2>. SUFFICES ASSUME TypeOK, LifeInv, AnswerInv, Next, s.status = "ABNORMAL", Live, ~spare
                PROVE  s'.status \in {"ABNORMAL", "DELETE"}
    OBVIOUS
  <2>t. s \in Sessions
    BY DEF TypeOK
  <2>1. \A c \in Callers : pc[c] = "idle"
    BY DEF LifeInv, HandleLeads
  <2>2. handler.at # "apply"
    BY <2>1 DEF AnswerInv, TokensFit, AnswersAwaited, Awaited, Waits
  <2>3. ~GetHandle
    BY DEF GetHandle
  <2>4. ASSUME NEW c \in Callers, NEW o \in Methods \union {"free"}, Begin(c, o)
        PROVE  s'.status \in {"ABNORMAL", "DELETE"}
    BY <2>4 DEF Begin
  <2>5. ASSUME NEW c \in Callers, Proceed(c) PROVE FALSE
    BY <2>1, <2>5 DEF Proceed, FreeConnectFailed, FreeConnected, Lock, Refuse, CreateMessage, MarkFreed,
       Connect, ConnectFails, Send, SendFails, Acquire, TimeOut, Expire, ReturnByFlag, SetupDone,
       SetupRefused, ReturnRetCode, UseDeleted
  <2>6. CASE Server \/ RtpTimeout \/ Manager
    BY <2>6, <2>t DEF Server, Answer, Announce, ServerCloses, RtpTimeout, Manager, Sweep, SweepMarks,
       SweepErases, Reap, Disconnected, Sessions
  <2>7. CASE Handle
    BY <2>7, <2>t, <2>2 DEF Handle, TakeInput, InputCloses, ApplySetup, ApplyPlay, ApplyPause,
       ApplyTeardown, ApplyNothing, AnswerAnnounce, Applying, Disconnected, Woken, Sessions
  <2>. QED
    BY <2>3, <2>4, <2>5, <2>6, <2>7 DEF Next
<1>2. Spec => [][Stays]_vars
  BY <1>1, TypeCorrect, LifeInvCorrect, AnswerInvCorrect, PTL DEF Spec
<1>. QED
  BY <1>2 DEF FreedStaysFreed

=============================================================================
