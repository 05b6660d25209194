----------------------------- MODULE SessionSlots -----------------------------
(***************************************************************************)
(* The user slots of the SDK (CSDKInterface: the flags, the map and the     *)
(* array of CUserMgr), which the calls of the client share: login by        *)
(* password, by ticket and as Windows user, each of which first logs the    *)
(* same user out, and logout, the client's or the one of an offline notice. *)
(* With them the state of a slot that a login builds and a logout takes     *)
(* down: user info, signalling links, and the thread that logs in to the OMU.*)
(***************************************************************************)
EXTENDS Integers

CONSTANTS
    Slots,          \* the session ids, 0 to SDK_CLIENT_TOTAL - 1
    Accounts,       \* names of users; the ticket of an account stands under its name
    Threads,        \* threads that call the SDK, the one of the server's notices too
    Logins,         \* how accounts log in: <<kind, account>>
    Failures,       \* what fails: "smu" login, "user" request, "late" in the login
    None,
    SlotRests       \* no thread takes or logs out a slot another is busy with

ASSUME SlotAssumption ==
    /\ Slots \subseteq Nat
    /\ None \notin Accounts
    /\ Logins \subseteq {"pwd", "tkt", "win"} \X Accounts
    /\ Failures \subseteq {"smu", "user", "late"}
    /\ SlotRests \in BOOLEAN

VARIABLES
    m_SessionIDFlagArray,   \* the slots in use
    m_mapSession,           \* m_mapSessionIDToSingleSvrProxy: the slots of users
    m_iSessionID,           \* the session id that a CUserMgr knows
    m_userInfo,             \* its CUserInfo
    m_LinkRouteMap,         \* CLinkRouteMgr: whose link leads to the SMU, the OMU
    m_bLoginOmuThreadRun,
    omu,                    \* where the OMU login thread of a slot is
    pc                      \* where a thread is, and its login or logout

vars == <<m_SessionIDFlagArray, m_mapSession, m_iSessionID, m_userInfo, m_LinkRouteMap,
          m_bLoginOmuThreadRun, omu, pc>>

slotVars == <<m_SessionIDFlagArray, m_mapSession>>
userVars == <<m_iSessionID, m_userInfo>>
omuVars == <<m_bLoginOmuThreadRun, omu>>

SDK_SESSIONID_INIT == -1
Sids == Slots \union {SDK_SESSIONID_INIT}
NoInfo == [sid |-> SDK_SESSIONID_INIT, name |-> None, ticket |-> None, domain |-> FALSE]
NoLinks == [smu |-> None, omu |-> None]
NoThread == [at |-> "none", sid |-> SDK_SESSIONID_INIT]
Idle == [at |-> "idle", kind |-> "none", user |-> None, slot |-> SDK_SESSIONID_INIT,
         sid |-> SDK_SESSIONID_INIT]

Init ==
    /\ m_SessionIDFlagArray = {}
    /\ m_mapSession = {}
    /\ m_iSessionID = [s \in Slots |-> SDK_SESSIONID_INIT]
    /\ m_userInfo = [s \in Slots |-> NoInfo]
    /\ m_LinkRouteMap = [s \in Sids |-> NoLinks]
    /\ m_bLoginOmuThreadRun = [s \in Slots |-> FALSE]
    /\ omu = [s \in Slots |-> NoThread]
    /\ pc = [t \in Threads |-> Idle]

-----------------------------------------------------------------------------
(* Helpers *)

\* A thread goes on with a slot, and in a login with the id it has read.
GotoWith(t, location, s, sid) ==
    pc' = [pc EXCEPT ![t] = [at |-> location, kind |-> pc[t].kind, user |-> pc[t].user,
                             slot |-> s, sid |-> sid]]
Goto(t, location) == GotoWith(t, location, pc[t].slot, pc[t].sid)
Return(t) == pc' = [pc EXCEPT ![t] = Idle]

\* No thread works on the slot, where the model asks for that.
Rests(s) == SlotRests => \A r \in Threads : pc[r].slot # s

\* Mutant: logins by password are not kept apart.
Unlocked(kind) == kind # "tkt" \/ \A r \in Threads : pc[r].kind # kind

\* m_pMutexLoginLock and m_pMutexLoginByTktLock are held for a whole login; a
\* Windows login takes neither.
LoginLockFree(kind) == kind = "win" \/ \A r \in Threads : pc[r].kind # kind

\* RemoveUser takes a session for the same user's by its name, and a Windows login
\* by the domain too; RemoveUserByTicketID by its ticket.
SameUser(s, kind, user) ==
    CASE kind = "pwd" -> m_userInfo[s].name = user
      [] kind = "win" -> m_userInfo[s].name = user /\ m_userInfo[s].domain
      [] kind = "tkt" -> m_userInfo[s].ticket = user /\ m_userInfo[s].name # None

Same(kind, user) == {s \in m_mapSession : SameUser(s, kind, user)}

Free == Slots \ m_SessionIDFlagArray

First(s, set) == s \in set /\ \A r \in set : s <= r

StoreLink(sid, type, user) ==
    m_LinkRouteMap' = [m_LinkRouteMap EXCEPT ![sid][type] = user]

DeleteLinkList(sid) == m_LinkRouteMap' = [m_LinkRouteMap EXCEPT ![sid] = NoLinks]

-----------------------------------------------------------------------------
(* Login *)

Login(t, kind, user) ==
    /\ pc[t].at = "idle" /\ LoginLockFree(kind)
    /\ pc' = [pc EXCEPT ![t] = [at |-> "remove", kind |-> kind, user |-> user,
                                slot |-> SDK_SESSIONID_INIT, sid |-> SDK_SESSIONID_INIT]]
    /\ UNCHANGED <<slotVars, userVars, m_LinkRouteMap, omuVars>>

\* RemoveUser, RemoveUserByTicketID: the first session that matches is logged out,
\* by the id in its user info.
RemoveUser(t) ==
    /\ pc[t].at = "remove"
    /\ \/ /\ Same(pc[t].kind, pc[t].user) = {}
          /\ Goto(t, "take")
       \/ \E s \in Slots :
            /\ First(s, Same(pc[t].kind, pc[t].user))
            /\ IF m_userInfo[s].sid = SDK_SESSIONID_INIT
               THEN Goto(t, "take")
               ELSE /\ Rests(m_userInfo[s].sid)
                    /\ GotoWith(t, "find", m_userInfo[s].sid, pc[t].sid)
    /\ UNCHANGED <<slotVars, userVars, m_LinkRouteMap, omuVars>>

\* Mutant: one slot too many.
TakeBeyond(t) ==
    /\ pc[t].at = "take"
    /\ \E s \in Slots \union {IF Free = {} THEN 128 ELSE CHOOSE r \in Free : First(r, Free)} :
         /\ Rests(s)
         /\ m_SessionIDFlagArray' = m_SessionIDFlagArray \union {s}
         /\ GotoWith(t, "bind", s, pc[t].sid)
    /\ UNCHANGED <<m_mapSession, userVars, m_LinkRouteMap, omuVars>>

\* GetSessoinID: the lowest free slot, or the login fails.
GetSessoinID(t) ==
    /\ pc[t].at = "take"
    /\ \/ \E s \in Slots :
            /\ First(s, Free) /\ Rests(s)
            /\ m_SessionIDFlagArray' = m_SessionIDFlagArray \union {s}
            /\ GotoWith(t, "bind", s, pc[t].sid)
       \/ /\ Free = {}
          /\ Return(t)
          /\ UNCHANGED m_SessionIDFlagArray
    /\ UNCHANGED <<m_mapSession, userVars, m_LinkRouteMap, omuVars>>

\* SetSessionID and AddSessoinID_SingleSvrProxyToMap.
AddToMap(t) ==
    /\ pc[t].at = "bind"
    /\ m_iSessionID' = [m_iSessionID EXCEPT ![pc[t].slot] = pc[t].slot]
    /\ m_mapSession' = m_mapSession \union {pc[t].slot}
    /\ Goto(t, "connect")
    /\ UNCHANGED <<m_SessionIDFlagArray, m_userInfo, m_LinkRouteMap, omuVars>>

\* LoginSmu, LoginSmuByTicket: the session id is read and the link opened.  Only a
\* ticket login stores the link before the server has answered.
CreateSmuLink(t) ==
    /\ pc[t].at = "connect"
    /\ \/ /\ GotoWith(t, "answer", pc[t].slot, m_iSessionID[pc[t].slot])
          /\ IF pc[t].kind = "tkt"
             THEN StoreLink(m_iSessionID[pc[t].slot], "smu", pc[t].user)
             ELSE UNCHANGED m_LinkRouteMap
       \/ /\ "smu" \in Failures
          /\ Goto(t, "fail")
          /\ UNCHANGED m_LinkRouteMap
    /\ UNCHANGED <<slotVars, userVars, omuVars>>

\* The SMU answers, or not.
SmuAnswers(t) ==
    /\ pc[t].at = "answer"
    /\ \/ /\ pc[t].kind = "tkt"
          /\ Goto(t, "user")
          /\ UNCHANGED m_LinkRouteMap
       \/ /\ pc[t].kind # "tkt"
          /\ StoreLink(pc[t].sid, "smu", pc[t].user)
          /\ Goto(t, "info")
       \/ /\ "smu" \in Failures
          /\ DeleteLinkList(pc[t].sid)
          /\ Goto(t, "fail")
    /\ UNCHANGED <<slotVars, userVars, omuVars>>

\* A ticket login asks the server for the user's name.
GetUserInfo(t) ==
    /\ pc[t].at = "user"
    /\ \/ /\ Goto(t, "info")
          /\ UNCHANGED m_LinkRouteMap
       \/ /\ "user" \in Failures
          /\ DeleteLinkList(m_iSessionID[pc[t].slot])
          /\ Goto(t, "fail")
    /\ UNCHANGED <<slotVars, userVars, omuVars>>

\* CUserInfo::Init: a password login leaves the ticket as it is.
InitUserInfo(t) ==
    /\ pc[t].at = "info"
    /\ LET s == pc[t].slot
       IN  m_userInfo' = [m_userInfo EXCEPT ![s] =
              [sid |-> m_iSessionID[s], name |-> pc[t].user, domain |-> pc[t].kind = "win",
               ticket |-> IF pc[t].kind = "tkt" THEN pc[t].user ELSE m_userInfo[s].ticket]]
    /\ Goto(t, "omu")
    /\ UNCHANGED <<slotVars, m_iSessionID, m_LinkRouteMap, omuVars>>

\* A client of the types CLIENT_PC_CHILD and CLIENT_TV_WALL has no OMU link.  The
\* model follows one OMU login thread of a slot.
CreateOmuThread(t) ==
    /\ pc[t].at = "omu"
    /\ \/ UNCHANGED omu
       \/ /\ omu[pc[t].slot] = NoThread
          /\ omu' = [omu EXCEPT ![pc[t].slot].at = "start"]
    /\ Goto(t, "route")
    /\ UNCHANGED <<slotVars, userVars, m_LinkRouteMap, m_bLoginOmuThreadRun>>

\* CUserMgr::Login asks for the domain routes; if that fails, and for a Windows user
\* who is to change the password, the login fails as it stands.
GetDomainRoute(t) ==
    /\ pc[t].at = "route"
    /\ \E fails \in {FALSE, "late" \in Failures} :
          IF fails THEN Goto(t, "fail") ELSE Return(t)
    /\ UNCHANGED <<slotVars, userVars, m_LinkRouteMap, omuVars>>

FreeSlot(s) ==
    /\ m_SessionIDFlagArray' = m_SessionIDFlagArray \ {s}
    /\ m_mapSession' = m_mapSession \ {s}

LoginFails(t) ==
    /\ pc[t].at = "fail"
    /\ FreeSlot(pc[t].slot)
    /\ Goto(t, "unbind")
    /\ UNCHANGED <<userVars, m_LinkRouteMap, omuVars>>

\* ... and SetSessionID.
LoginFailed(t) ==
    /\ pc[t].at = "unbind"
    /\ m_iSessionID' = [m_iSessionID EXCEPT ![pc[t].slot] = SDK_SESSIONID_INIT]
    /\ Return(t)
    /\ UNCHANGED <<slotVars, m_userInfo, m_LinkRouteMap, omuVars>>

-----------------------------------------------------------------------------
(* Logout *)

Logout(t, s) ==
    /\ pc[t].at = "idle" /\ Rests(s)
    /\ GotoWith(t, "find", s, pc[t].sid)
    /\ UNCHANGED <<slotVars, userVars, m_LinkRouteMap, omuVars>>

\* A login that has logged the same user out goes on.
LogoutReturns(t) ==
    IF pc[t].kind = "none"
    THEN Return(t)
    ELSE GotoWith(t, "take", SDK_SESSIONID_INIT, pc[t].sid)

GetUserMgr(t) ==
    /\ pc[t].at = "find"
    /\ IF pc[t].slot \in m_mapSession THEN Goto(t, "free") ELSE LogoutReturns(t)
    /\ UNCHANGED <<slotVars, userVars, m_LinkRouteMap, omuVars>>

\* The slot is free before the user is logged out.
FreeSessoinID(t) ==
    /\ pc[t].at = "free"
    /\ FreeSlot(pc[t].slot)
    /\ Goto(t, "stop")
    /\ UNCHANGED <<userVars, m_LinkRouteMap, omuVars>>

\* CLoginMgr::Logout stops the thread that logs in to the OMU, if there is one ...
StopOmuThread(t) ==
    /\ pc[t].at = "stop"
    /\ IF omu[pc[t].slot] = NoThread
       THEN /\ Goto(t, "clear")
            /\ UNCHANGED m_bLoginOmuThreadRun
       ELSE /\ m_bLoginOmuThreadRun' = [m_bLoginOmuThreadRun EXCEPT ![pc[t].slot] = FALSE]
            /\ Goto(t, "join")
    /\ UNCHANGED <<slotVars, userVars, m_LinkRouteMap, omu>>

\* Mutant: nobody waits for the thread.
JoinForgotten(t) ==
    /\ pc[t].at = "join"
    /\ Goto(t, "clear")
    /\ UNCHANGED <<slotVars, userVars, m_LinkRouteMap, omuVars>>

\* ... and waits for it to end.
JoinOmuThread(t) ==
    /\ pc[t].at = "join" /\ omu[pc[t].slot].at \in {"done", "none"}
    /\ omu' = [omu EXCEPT ![pc[t].slot] = NoThread]
    /\ Goto(t, "clear")
    /\ UNCHANGED <<slotVars, userVars, m_LinkRouteMap, m_bLoginOmuThreadRun>>

\* CUserInfo::Clear does not clear the ticket.
ClearUserInfo(t) ==
    /\ pc[t].at = "clear"
    /\ m_userInfo' = [m_userInfo EXCEPT ![pc[t].slot].sid = SDK_SESSIONID_INIT,
                                        ![pc[t].slot].name = None]
    /\ Goto(t, "links")
    /\ UNCHANGED <<slotVars, m_iSessionID, m_LinkRouteMap, omuVars>>

DeleteLinks(t) ==
    /\ pc[t].at = "links"
    /\ DeleteLinkList(m_iSessionID[pc[t].slot])
    /\ Goto(t, "reset")
    /\ UNCHANGED <<slotVars, userVars, omuVars>>

ResetSessionID(t) ==
    /\ pc[t].at = "reset"
    /\ m_iSessionID' = [m_iSessionID EXCEPT ![pc[t].slot] = SDK_SESSIONID_INIT]
    /\ LogoutReturns(t)
    /\ UNCHANGED <<slotVars, m_userInfo, m_LinkRouteMap, omuVars>>

-----------------------------------------------------------------------------
(* LoginOmuThreadEntry, the OMU login thread of slot s *)

OmuAt(s, location) == omu' = [omu EXCEPT ![s].at = location]

\* The thread sets its own run flag, whenever it starts.
OmuStart(s) ==
    /\ omu[s].at = "start"
    /\ m_bLoginOmuThreadRun' = [m_bLoginOmuThreadRun EXCEPT ![s] = TRUE]
    /\ OmuAt(s, "loop")
    /\ UNCHANGED <<slotVars, userVars, m_LinkRouteMap, pc>>

OmuLoop(s) ==
    /\ omu[s].at = "loop"
    /\ IF m_bLoginOmuThreadRun[s]
       THEN omu' = [omu EXCEPT ![s] = [at |-> "login", sid |-> m_iSessionID[s]]]
       ELSE OmuAt(s, "done")
    /\ UNCHANGED <<slotVars, userVars, m_LinkRouteMap, m_bLoginOmuThreadRun, pc>>

\* LoginOmu: the link is stored before the OMU has let the user in.
OmuConnects(s) ==
    /\ omu[s].at = "login"
    /\ \/ /\ StoreLink(omu[s].sid, "omu", m_userInfo[s].name)
          /\ OmuAt(s, "auth")
       \/ /\ OmuAt(s, "loop")
          /\ UNCHANGED m_LinkRouteMap
    /\ UNCHANGED <<slotVars, userVars, m_bLoginOmuThreadRun, pc>>

\* Mutant: the flag stays, and the thread logs in again.
OmuAgain(s) ==
    /\ omu[s].at = "auth"
    /\ OmuAt(s, "loop")
    /\ UNCHANGED <<slotVars, userVars, m_LinkRouteMap, m_bLoginOmuThreadRun, pc>>

OmuLetsIn(s) ==
    /\ omu[s].at = "auth"
    /\ m_bLoginOmuThreadRun' = [m_bLoginOmuThreadRun EXCEPT ![s] = FALSE]
    /\ OmuAt(s, "done")
    /\ UNCHANGED <<slotVars, userVars, m_LinkRouteMap, pc>>

\* Mutant: all links of the session are deleted.
OmuRefusesAll(s) ==
    /\ omu[s].at = "auth"
    /\ DeleteLinkList(omu[s].sid)
    /\ OmuAt(s, "loop")
    /\ UNCHANGED <<slotVars, userVars, m_bLoginOmuThreadRun, pc>>

\* RemoveLinkInfo.
OmuRefuses(s) ==
    /\ omu[s].at = "auth"
    /\ StoreLink(omu[s].sid, "omu", None)
    /\ OmuAt(s, "loop")
    /\ UNCHANGED <<slotVars, userVars, m_bLoginOmuThreadRun, pc>>

-----------------------------------------------------------------------------

LoginStep(t) ==
    \/ RemoveUser(t) \/ GetSessoinID(t) \/ AddToMap(t) \/ CreateSmuLink(t) \/ SmuAnswers(t)
    \/ GetUserInfo(t) \/ InitUserInfo(t) \/ CreateOmuThread(t) \/ GetDomainRoute(t)
    \/ LoginFails(t) \/ LoginFailed(t)

LogoutStep(t) ==
    \/ GetUserMgr(t) \/ FreeSessoinID(t) \/ StopOmuThread(t) \/ JoinOmuThread(t)
    \/ ClearUserInfo(t) \/ DeleteLinks(t) \/ ResetSessionID(t)

OmuStep(s) ==
    OmuStart(s) \/ OmuLoop(s) \/ OmuConnects(s) \/ OmuLetsIn(s) \/ OmuRefuses(s)

Next ==
    \/ \E t \in Threads, l \in Logins : Login(t, l[1], l[2])
    \/ \E t \in Threads, s \in Slots : Logout(t, s)
    \/ \E t \in Threads : LoginStep(t) \/ LogoutStep(t)
    \/ \E s \in Slots : OmuStep(s)

Spec == Init /\ [][Next]_vars

\* Calls go on, also when the slot they wait for is in use again and again, and an
\* OMU that is asked again and again lets the user in some time.
FairSpec ==
    /\ Spec
    /\ \A t \in Threads : SF_vars(LoginStep(t) \/ LogoutStep(t))
    /\ \A s \in Slots :
         /\ WF_vars(OmuStep(s))
         /\ SF_vars(OmuConnects(s) /\ omu'[s].at = "auth")
         /\ SF_vars(OmuLetsIn(s))

-----------------------------------------------------------------------------
(* Properties *)

Infos == [sid : Sids, name : Accounts \union {None}, ticket : Accounts \union {None},
          domain : BOOLEAN]
Links == [smu : Accounts \union {None}, omu : Accounts \union {None}]
ThreadOmu == [at : {"none", "start", "loop", "login", "auth", "done"}, sid : Sids]

LoginPlaces == {"bind", "connect", "answer", "user", "info", "omu", "route", "fail", "unbind"}
LogoutPlaces == {"find", "free", "stop", "join", "clear", "links", "reset"}
LoginKinds == {"pwd", "tkt", "win"}

Works ==
    {Idle}
    \union [at : {"remove", "take"}, kind : LoginKinds, user : Accounts,
            slot : {SDK_SESSIONID_INIT}, sid : {SDK_SESSIONID_INIT}]
    \union [at : LoginPlaces, kind : LoginKinds, user : Accounts, slot : Slots, sid : Sids]
    \union [at : LogoutPlaces, kind : LoginKinds, user : Accounts,
            slot : Slots, sid : {SDK_SESSIONID_INIT}]
    \union [at : LogoutPlaces, kind : {"none"}, user : {None},
            slot : Slots, sid : {SDK_SESSIONID_INIT}]

\* Type invariant: a thread has a slot exactly while it works on one.
TypeOK ==
    /\ m_SessionIDFlagArray \subseteq Slots
    /\ m_mapSession \subseteq Slots
    /\ m_iSessionID \in [Slots -> Sids]
    /\ m_userInfo \in [Slots -> Infos]
    /\ m_LinkRouteMap \in [Sids -> Links]
    /\ m_bLoginOmuThreadRun \in [Slots -> BOOLEAN]
    /\ omu \in [Slots -> ThreadOmu]
    /\ pc \in [Threads -> Works]

Busy(s) == \E t \in Threads : pc[t].slot = s

\* A slot that is free, and nobody works on, has nothing of its last user: no
\* session id, name, link or thread (CUserMgr::Logout, UserMgr.cpp:317-341, the
\* failed login of SDKInterface.cpp:606-612).
FreeIsEmpty ==
    \A s \in Free : ~Busy(s) =>
        /\ m_iSessionID[s] = SDK_SESSIONID_INIT
        /\ m_userInfo[s].sid = SDK_SESSIONID_INIT /\ m_userInfo[s].name = None
        /\ m_LinkRouteMap[s] = NoLinks
        /\ omu[s] = NoThread

\* A user who is logged in has a CUserMgr that knows its session id (UserMgr.h:242),
\* the user's info and a link to the SMU, and whatever leads to the OMU is the
\* user's: no login, logout or OMU thread of another slot or of an earlier user
\* has touched them.
SessionIsWhole ==
    \A s \in m_mapSession : ~Busy(s) =>
        /\ s \in m_SessionIDFlagArray
        /\ m_iSessionID[s] = s /\ m_userInfo[s].sid = s
        /\ m_userInfo[s].name # None
        /\ m_LinkRouteMap[s].smu = m_userInfo[s].name
        /\ m_LinkRouteMap[s].omu \in {None, m_userInfo[s].name}

\* A user who always logs in by password is logged in once (the comment at
\* SDKInterface.cpp:573), however many threads log the user in.
PasswordUserOnce ==
    \A u \in Accounts : (\A l \in Logins : l[2] = u => l[1] = "pwd") =>
        \A s, r \in m_mapSession :
            m_userInfo[s].name = u /\ m_userInfo[r].name = u => s = r

\* Every login and logout returns, although logout waits for a thread that may
\* start only then.
CallReturns == \A t \in Threads : pc[t].at # "idle" ~> pc[t].at = "idle"

=============================================================================
