------------------------- MODULE SessionSlotsProofs -------------------------
(* Theorems about SessionSlots, for any number of slots, threads and         *)
(* accounts.                                                                 *)
EXTENDS SessionSlots, TLAPS

-----------------------------------------------------------------------------
(* What a thread has in hand *)

LEMMA WorkFacts ==
    ASSUME TypeOK, NEW t \in Threads
    PROVE  /\ pc[t].at \in {"idle", "remove", "take"} \union LoginPlaces \union LogoutPlaces
           /\ pc[t].at = "idle" => pc[t] = Idle
           /\ pc[t].at \in {"remove", "take"} =>
                /\ pc[t].kind \in LoginKinds /\ pc[t].user \in Accounts
                /\ pc[t].slot = SDK_SESSIONID_INIT /\ pc[t].sid = SDK_SESSIONID_INIT
           /\ pc[t].at \in LoginPlaces =>
                /\ pc[t].kind \in LoginKinds /\ pc[t].user \in Accounts
                /\ pc[t].slot \in Slots /\ pc[t].sid \in Sids
           /\ pc[t].at \in LogoutPlaces =>
                /\ pc[t].slot \in Slots /\ pc[t].sid = SDK_SESSIONID_INIT
                /\ \/ pc[t].kind \in LoginKinds /\ pc[t].user \in Accounts
                   \/ pc[t].kind = "none" /\ pc[t].user = None
           /\ pc[t] = [at |-> pc[t].at, kind |-> pc[t].kind, user |-> pc[t].user,
                       slot |-> pc[t].slot, sid |-> pc[t].sid]
<1>1. pc[t] \in Works
  BY DEF TypeOK
<1>. QED
  BY <1>1 DEF Works, Idle, LoginPlaces, LogoutPlaces, LoginKinds, Sids, SDK_SESSIONID_INIT

\* No session id is the initial one.
LEMMA SlotIsId == \A s \in Slots : s \in Sids /\ s # SDK_SESSIONID_INIT
BY SlotAssumption DEF Sids, SDK_SESSIONID_INIT

LEMMA Move ==
    ASSUME TypeOK, NEW t \in Threads, NEW x \in Works, pc' = [pc EXCEPT ![t] = x]
    PROVE  /\ pc' \in [Threads -> Works]
           /\ pc'[t] = x
           /\ \A r \in Threads \ {t} : pc'[r] = pc[r]
BY DEF TypeOK

\* A thread that goes on.
LEMMA Goes ==
    ASSUME TypeOK, NEW t \in Threads, NEW at, NEW s, NEW i, GotoWith(t, at, s, i),
           \/ pc[t].at = "idle" /\ at = "find" /\ s \in Slots /\ i = SDK_SESSIONID_INIT
           \/ /\ pc[t].at \in {"remove", "take"}
              /\ \/ at \in {"bind", "find"} /\ s \in Slots
                 \/ at = "take" /\ s = pc[t].slot
              /\ i = pc[t].sid
           \/ pc[t].at \in LoginPlaces /\ at \in LoginPlaces /\ s = pc[t].slot /\ i \in Sids
           \/ pc[t].at \in LogoutPlaces /\ at \in LogoutPlaces /\ s = pc[t].slot /\ i = pc[t].sid
           \/ /\ pc[t].at \in LogoutPlaces /\ pc[t].kind # "none" /\ at = "take"
              /\ s = SDK_SESSIONID_INIT /\ i = pc[t].sid
    PROVE  /\ pc' \in [Threads -> Works]
           /\ pc'[t] = [at |-> at, kind |-> pc[t].kind, user |-> pc[t].user,
                        slot |-> s, sid |-> i]
           /\ \A r \in Threads \ {t} : pc'[r] = pc[r]
<1>. DEFINE x == [at |-> at, kind |-> pc[t].kind, user |-> pc[t].user,
                  slot |-> s, sid |-> i]
<1>1. pc[t].at = "idle" => pc[t].kind = "none" /\ pc[t].user = None
  <2>1. pc[t].at = "idle" => pc[t] = Idle
    BY WorkFacts
  <2>. QED
    BY <2>1 DEF Idle
<1>2. x \in Works
  <2>1. CASE pc[t].at = "idle"
    BY <1>1, <2>1 DEF Works, LoginPlaces, LogoutPlaces
  <2>2. CASE pc[t].at \in {"remove", "take"}
    BY <2>2, WorkFacts DEF Works, LoginPlaces, LogoutPlaces, Sids
  <2>3. CASE pc[t].at \in LoginPlaces
    BY <2>3, WorkFacts DEF Works, LoginPlaces, LogoutPlaces
  <2>4. CASE pc[t].at \in LogoutPlaces
    BY <2>4, WorkFacts DEF Works, LoginPlaces, LogoutPlaces
  <2>. QED
    BY <2>1, <2>2, <2>3, <2>4, WorkFacts
<1>. QED
  BY <1>2, Move DEF GotoWith

LEMMA Returns ==
    ASSUME TypeOK, NEW t \in Threads, Return(t)
    PROVE  /\ pc' \in [Threads -> Works]
           /\ pc'[t] = Idle
           /\ \A r \in Threads \ {t} : pc'[r] = pc[r]
<1>1. Idle \in Works
  BY DEF Works
<1>. QED
  BY <1>1, Move DEF Return

-----------------------------------------------------------------------------
(* Type correctness *)

LEMMA LoginStepType ==
    ASSUME TypeOK, NEW t \in Threads, LoginStep(t)
    PROVE  TypeOK'
<1>. USE SlotIsId
<1>1. CASE RemoveUser(t)
  <2>1. \A s \in Slots : m_userInfo[s].sid \in Sids
    BY DEF TypeOK, Infos
  <2>2. pc' \in [Threads -> Works]
    <3>1. CASE Goto(t, "take")
      BY <1>1, <3>1, Goes DEF RemoveUser, Goto
    <3>2. CASE \E s \in Slots : m_userInfo[s].sid # SDK_SESSIONID_INIT
                                /\ GotoWith(t, "find", m_userInfo[s].sid, pc[t].sid)
      BY <1>1, <2>1, <3>2, Goes DEF RemoveUser, Sids
    <3>. QED
      BY <1>1, <3>1, <3>2 DEF RemoveUser
  <2>. QED
    BY <1>1, <2>2 DEF RemoveUser, TypeOK, slotVars, userVars, omuVars
<1>2. CASE GetSessoinID(t)
  <2>1. pc' \in [Threads -> Works]
    BY <1>2, Goes, Returns DEF GetSessoinID
  <2>2. m_SessionIDFlagArray' \subseteq Slots
    BY <1>2 DEF GetSessoinID, TypeOK
  <2>. QED
    BY <1>2, <2>1, <2>2 DEF GetSessoinID, TypeOK, userVars, omuVars
<1>3. CASE AddToMap(t)
  <2>1. pc[t].slot \in Slots
    BY <1>3, WorkFacts DEF AddToMap, LoginPlaces
  <2>2. pc' \in [Threads -> Works]
    BY <1>3, WorkFacts, Goes DEF AddToMap, Goto, LoginPlaces
  <2>. QED
    BY <1>3, <2>1, <2>2 DEF AddToMap, TypeOK, omuVars
<1>4. CASE CreateSmuLink(t)
  <2>1. pc[t].slot \in Slots /\ pc[t].user \in Accounts /\ pc[t].sid \in Sids
    BY <1>4, WorkFacts DEF CreateSmuLink, LoginPlaces
  <2>2. m_iSessionID[pc[t].slot] \in Sids
    BY <2>1 DEF TypeOK
  <2>3. pc' \in [Threads -> Works]
    BY <1>4, <2>1, <2>2, Goes DEF CreateSmuLink, Goto, LoginPlaces
  <2>4. m_LinkRouteMap' \in [Sids -> Links]
    <3>1. CASE StoreLink(m_iSessionID[pc[t].slot], "smu", pc[t].user)
      BY <2>1, <2>2, <3>1 DEF StoreLink, TypeOK, Links
    <3>2. CASE UNCHANGED m_LinkRouteMap
      BY <3>2 DEF TypeOK
    <3>. QED
      BY <1>4, <3>1, <3>2 DEF CreateSmuLink
  <2>. QED
    BY <1>4, <2>3, <2>4 DEF CreateSmuLink, TypeOK, slotVars, userVars, omuVars
<1>5. CASE SmuAnswers(t)
  <2>1. pc[t].user \in Accounts /\ pc[t].sid \in Sids
    BY <1>5, WorkFacts DEF SmuAnswers, LoginPlaces
  <2>2. pc' \in [Threads -> Works]
    BY <1>5, <2>1, Goes DEF SmuAnswers, Goto, LoginPlaces
  <2>3. m_LinkRouteMap' \in [Sids -> Links]
    BY <1>5, <2>1 DEF SmuAnswers, StoreLink, DeleteLinkList, NoLinks, TypeOK, Links
  <2>. QED
    BY <1>5, <2>2, <2>3 DEF SmuAnswers, TypeOK, slotVars, userVars, omuVars
<1>6. CASE GetUserInfo(t)
  <2>1. pc[t].slot \in Slots /\ pc[t].sid \in Sids
    BY <1>6, WorkFacts DEF GetUserInfo, LoginPlaces
  <2>2. pc' \in [Threads -> Works]
    BY <1>6, <2>1, Goes DEF GetUserInfo, Goto, LoginPlaces
  <2>3. m_LinkRouteMap' \in [Sids -> Links]
    BY <1>6, <2>1 DEF GetUserInfo, DeleteLinkList, NoLinks, TypeOK, Links
  <2>. QED
    BY <1>6, <2>2, <2>3 DEF GetUserInfo, TypeOK, slotVars, userVars, omuVars
<1>7. CASE InitUserInfo(t)
  <2>1. pc[t].slot \in Slots /\ pc[t].user \in Accounts /\ pc[t].sid \in Sids
    BY <1>7, WorkFacts DEF InitUserInfo, LoginPlaces
  <2>2. pc' \in [Threads -> Works]
    BY <1>7, <2>1, Goes DEF InitUserInfo, Goto, LoginPlaces
  <2>3. /\ m_iSessionID[pc[t].slot] \in Sids
        /\ m_userInfo[pc[t].slot].ticket \in Accounts \union {None}
    BY <2>1 DEF TypeOK, Infos
  <2>4. m_userInfo' \in [Slots -> Infos]
    BY <1>7, <2>1, <2>3 DEF InitUserInfo, TypeOK, Infos
  <2>. QED
    BY <1>7, <2>2, <2>4 DEF InitUserInfo, TypeOK, slotVars, omuVars
<1>8. CASE CreateOmuThread(t)
  <2>1. pc[t].slot \in Slots /\ pc[t].sid \in Sids
    BY <1>8, WorkFacts DEF CreateOmuThread, LoginPlaces
  <2>2. pc' \in [Threads -> Works]
    BY <1>8, <2>1, Goes DEF CreateOmuThread, Goto, LoginPlaces
  <2>3. omu' \in [Slots -> ThreadOmu]
    <3>1. omu[pc[t].slot].sid \in Sids
      BY <2>1 DEF TypeOK, ThreadOmu
    <3>2. CASE omu' = [omu EXCEPT ![pc[t].slot].at = "start"]
      BY <2>1, <3>1, <3>2 DEF TypeOK, ThreadOmu
    <3>. QED
      BY <1>8, <3>2 DEF CreateOmuThread, TypeOK
  <2>. QED
    BY <1>8, <2>2, <2>3 DEF CreateOmuThread, TypeOK, slotVars, userVars
<1>9. CASE GetDomainRoute(t)
  <2>1. pc[t].sid \in Sids
    BY <1>9, WorkFacts DEF GetDomainRoute, LoginPlaces
  <2>2. pc' \in [Threads -> Works]
    BY <1>9, <2>1, Goes, Returns DEF GetDomainRoute, Goto, LoginPlaces
  <2>. QED
    BY <1>9, <2>2 DEF GetDomainRoute, TypeOK, slotVars, userVars, omuVars
<1>10. CASE LoginFails(t)
  <2>1. pc[t].sid \in Sids
    BY <1>10, WorkFacts DEF LoginFails, LoginPlaces
  <2>2. pc' \in [Threads -> Works]
    BY <1>10, <2>1, Goes DEF LoginFails, Goto, LoginPlaces
  <2>. QED
    BY <1>10, <2>2 DEF LoginFails, FreeSlot, TypeOK, userVars, omuVars
<1>11. CASE LoginFailed(t)
  <2>1. pc' \in [Threads -> Works]
    BY <1>11, Returns DEF LoginFailed
  <2>2. SDK_SESSIONID_INIT \in Sids
    BY DEF Sids
  <2>. QED
    BY <1>11, <2>1, <2>2 DEF LoginFailed, TypeOK, slotVars, omuVars
<1>. QED
  BY <1>1, <1>2, <1>3, <1>4, <1>5, <1>6, <1>7, <1>8, <1>9, <1>10, <1>11 DEF LoginStep

LEMMA LogoutStepType ==
    ASSUME TypeOK, NEW t \in Threads, LogoutStep(t)
    PROVE  TypeOK'
<1>. USE SlotIsId
<1>0. pc[t].at \in LogoutPlaces => pc[t].slot \in Slots
  BY WorkFacts
<1>1. CASE GetUserMgr(t)
  <2>1. pc' \in [Threads -> Works]
    BY <1>1, Goes, Returns DEF GetUserMgr, LogoutReturns, Goto, LogoutPlaces
  <2>. QED
    BY <1>1, <2>1 DEF GetUserMgr, TypeOK, slotVars, userVars, omuVars
<1>2. CASE FreeSessoinID(t)
  <2>1. pc' \in [Threads -> Works]
    BY <1>2, Goes DEF FreeSessoinID, Goto, LogoutPlaces
  <2>. QED
    BY <1>2, <2>1 DEF FreeSessoinID, FreeSlot, TypeOK, userVars, omuVars
<1>3. CASE StopOmuThread(t)
  <2>1. pc' \in [Threads -> Works]
    BY <1>3, Goes DEF StopOmuThread, Goto, LogoutPlaces
  <2>2. m_bLoginOmuThreadRun' \in [Slots -> BOOLEAN]
    BY <1>3 DEF StopOmuThread, TypeOK
  <2>. QED
    BY <1>3, <2>1, <2>2 DEF StopOmuThread, TypeOK, slotVars, userVars
<1>4. CASE JoinOmuThread(t)
  <2>1. pc' \in [Threads -> Works]
    BY <1>4, Goes DEF JoinOmuThread, Goto, LogoutPlaces
  <2>2. omu' \in [Slots -> ThreadOmu]
    BY <1>4 DEF JoinOmuThread, TypeOK, NoThread, ThreadOmu, Sids
  <2>. QED
    BY <1>4, <2>1, <2>2 DEF JoinOmuThread, TypeOK, slotVars, userVars
<1>5. CASE ClearUserInfo(t)
  <2>1. pc' \in [Threads -> Works]
    BY <1>5, Goes DEF ClearUserInfo, Goto, LogoutPlaces
  <2>2. m_userInfo' \in [Slots -> Infos]
    BY <1>0, <1>5 DEF ClearUserInfo, LogoutPlaces, TypeOK, Infos, Sids
  <2>. QED
    BY <1>5, <2>1, <2>2 DEF ClearUserInfo, TypeOK, slotVars, omuVars
<1>6. CASE DeleteLinks(t)
  <2>1. pc' \in [Threads -> Works]
    BY <1>6, Goes DEF DeleteLinks, Goto, LogoutPlaces
  <2>2. m_LinkRouteMap' \in [Sids -> Links]
    BY <1>6 DEF DeleteLinks, DeleteLinkList, NoLinks, TypeOK, Links
  <2>. QED
    BY <1>6, <2>1, <2>2 DEF DeleteLinks, TypeOK, slotVars, userVars, omuVars
<1>7. CASE ResetSessionID(t)
  <2>1. pc' \in [Threads -> Works]
    BY <1>7, Goes, Returns DEF ResetSessionID, LogoutReturns, LogoutPlaces
  <2>2. SDK_SESSIONID_INIT \in Sids
    BY DEF Sids
  <2>. QED
    BY <1>7, <2>1, <2>2 DEF ResetSessionID, TypeOK, slotVars, omuVars
<1>. QED
  BY <1>1, <1>2, <1>3, <1>4, <1>5, <1>6, <1>7 DEF LogoutStep

LEMMA OmuStepType ==
    ASSUME TypeOK, NEW s \in Slots, OmuStep(s)
    PROVE  TypeOK'
<1>0. omu[s] \in ThreadOmu /\ m_iSessionID[s] \in Sids /\ m_userInfo[s] \in Infos
  BY DEF TypeOK
<1>1. omu' \in [Slots -> ThreadOmu]
  BY <1>0 DEF OmuStep, OmuStart, OmuLoop, OmuConnects, OmuLetsIn, OmuRefuses, OmuAt,
              TypeOK, ThreadOmu
<1>2. m_bLoginOmuThreadRun' \in [Slots -> BOOLEAN]
  BY DEF OmuStep, OmuStart, OmuLoop, OmuConnects, OmuLetsIn, OmuRefuses, TypeOK, omuVars
<1>3. m_LinkRouteMap' \in [Sids -> Links]
  <2>1. omu[s].sid \in Sids /\ m_userInfo[s].name \in Accounts \union {None}
    BY <1>0 DEF ThreadOmu, Infos
  <2>2. ASSUME NEW u \in Accounts \union {None}, StoreLink(omu[s].sid, "omu", u)
        PROVE  m_LinkRouteMap' \in [Sids -> Links]
    BY <2>1, <2>2 DEF StoreLink, TypeOK, Links
  <2>3. CASE UNCHANGED m_LinkRouteMap
    BY <2>3 DEF TypeOK
  <2>. QED
    BY <2>1, <2>2, <2>3 DEF OmuStep, OmuStart, OmuLoop, OmuConnects, OmuLetsIn, OmuRefuses
<1>. QED
  BY <1>1, <1>2, <1>3 DEF OmuStep, OmuStart, OmuLoop, OmuConnects, OmuLetsIn, OmuRefuses,
                         TypeOK, slotVars, userVars

LEMMA InitType == Init => TypeOK
<1>. SUFFICES ASSUME Init PROVE TypeOK
  OBVIOUS
<1>1. NoInfo \in Infos /\ NoLinks \in Links /\ NoThread \in ThreadOmu /\ Idle \in Works
  BY DEF NoInfo, Infos, NoLinks, Links, NoThread, ThreadOmu, Works, Sids
<1>. QED
  BY <1>1 DEF Init, TypeOK, Sids

LEMMA NextType == TypeOK /\ [Next]_vars => TypeOK'
<1>. SUFFICES ASSUME TypeOK, [Next]_vars PROVE TypeOK'
  OBVIOUS
<1>1. CASE UNCHANGED vars
  BY <1>1 DEF TypeOK, vars
<1>2. ASSUME NEW t \in Threads, NEW l \in Logins, Login(t, l[1], l[2]) PROVE TypeOK'
  <2>1. l[1] \in LoginKinds /\ l[2] \in Accounts
    BY SlotAssumption DEF LoginKinds
  <2>2. pc' \in [Threads -> Works]
    BY <1>2, <2>1, Move DEF Login, Works
  <2>. QED
    BY <1>2, <2>2 DEF Login, TypeOK, slotVars, userVars, omuVars
<1>3. ASSUME NEW t \in Threads, NEW s \in Slots, Logout(t, s) PROVE TypeOK'
  <2>1. pc[t] = Idle
    BY <1>3, WorkFacts DEF Logout
  <2>2. pc[t].sid = SDK_SESSIONID_INIT
    BY <2>1 DEF Idle
  <2>3. pc' \in [Threads -> Works]
    BY <1>3, <2>2, Goes DEF Logout
  <2>. QED
    BY <1>3, <2>3 DEF Logout, TypeOK, slotVars, userVars, omuVars
<1>. QED
  BY <1>1, <1>2, <1>3, LoginStepType, LogoutStepType, OmuStepType DEF Next

\* A thread has a slot exactly while it works on one, whatever the slots rest.
THEOREM TypeCorrect == Spec => []TypeOK
BY InitType, NextType, PTL DEF Spec

-----------------------------------------------------------------------------
(* What a slot has at every place of a login and a logout, when no thread     *)
(* takes or logs out a slot that another is busy with                         *)

\* No user and no thread.
Bare(s) ==
    /\ m_userInfo[s].sid = SDK_SESSIONID_INIT /\ m_userInfo[s].name = None
    /\ omu[s] = NoThread

Empty(s) ==
    Bare(s) /\ m_iSessionID[s] = SDK_SESSIONID_INIT /\ m_LinkRouteMap[s] = NoLinks

\* All that a session has.
Kept(s) ==
    /\ m_iSessionID[s] = s /\ m_userInfo[s].sid = s
    /\ m_userInfo[s].name \in Accounts
    /\ m_LinkRouteMap[s].smu = m_userInfo[s].name
    /\ m_LinkRouteMap[s].omu \in {None, m_userInfo[s].name}
    /\ omu[s].at \in {"login", "auth"} => omu[s].sid = s

Used(s) == s \in m_SessionIDFlagArray /\ s \in m_mapSession
Unused(s) == s \notin m_SessionIDFlagArray /\ s \notin m_mapSession

Rest(s) == (Used(s) /\ Kept(s)) \/ (Unused(s) /\ Empty(s))

\* A slot that a login has, without the user's info.
Begun(s) == Used(s) /\ Bare(s) /\ m_iSessionID[s] = s

\* A slot that a logout has freed, without the user's info.
Ended(s) == Unused(s) /\ Bare(s) /\ m_iSessionID[s] = s

StageAt(s, at, kind, user, sid) ==
    /\ at = "bind" => /\ s \in m_SessionIDFlagArray /\ s \notin m_mapSession
                      /\ Empty(s)
    /\ at \in {"connect", "fail"} => Begun(s) /\ m_LinkRouteMap[s] = NoLinks
    /\ at = "answer" =>
         /\ Begun(s) /\ sid = s
         /\ m_LinkRouteMap[s] = [smu |-> IF kind = "tkt" THEN user ELSE None, omu |-> None]
    /\ at \in {"user", "info"} => Begun(s) /\ m_LinkRouteMap[s] = [smu |-> user, omu |-> None]
    /\ at = "omu" => Used(s) /\ Kept(s) /\ omu[s] = NoThread
    /\ at = "route" => Used(s) /\ Kept(s)
    /\ at = "unbind" => Ended(s) /\ m_LinkRouteMap[s] = NoLinks
    /\ at = "find" => Rest(s)
    /\ at = "free" => Used(s) /\ Kept(s)
    /\ at \in {"stop", "join"} => Unused(s) /\ Kept(s)
    /\ at = "clear" => Unused(s) /\ Kept(s) /\ omu[s] = NoThread
    /\ at = "links" => Ended(s)
    /\ at = "reset" => Ended(s) /\ m_LinkRouteMap[s] = NoLinks

Stage(t) == StageAt(pc[t].slot, pc[t].at, pc[t].kind, pc[t].user, pc[t].sid)

\* One thread works on a slot.
Alone ==
    \A t, r \in Threads : t # r /\ pc[t].slot = pc[r].slot => pc[t].slot = SDK_SESSIONID_INIT

SlotInv ==
    /\ TypeOK
    /\ Alone
    /\ \A s \in Slots : ~Busy(s) => Rest(s)
    /\ \A t \in Threads : Stage(t)

\* What a slot is made of stays.
SlotStays(r) ==
    /\ r \in m_SessionIDFlagArray' <=> r \in m_SessionIDFlagArray
    /\ r \in m_mapSession' <=> r \in m_mapSession
    /\ m_iSessionID'[r] = m_iSessionID[r] /\ m_userInfo'[r] = m_userInfo[r]
    /\ m_LinkRouteMap'[r] = m_LinkRouteMap[r] /\ omu'[r] = omu[r]

LEMMA StayKeeps ==
    ASSUME NEW s, SlotStays(s)
    PROVE  /\ Rest(s) => Rest(s)'
           /\ \A at, kind, user, sid :
                StageAt(s, at, kind, user, sid) => StageAt(s, at, kind, user, sid)'
BY DEF SlotStays, StageAt, Rest, Used, Unused, Kept, Empty, Bare, Begun, Ended

LEMMA NoSlotNoStage ==
    ASSUME TypeOK, NEW t \in Threads, pc[t].slot = SDK_SESSIONID_INIT
    PROVE  pc[t].at \in {"idle", "remove", "take"}
BY WorkFacts, SlotIsId

LEMMA SlotAtWork ==
    ASSUME TypeOK, NEW t \in Threads, pc[t].slot # SDK_SESSIONID_INIT
    PROVE  pc[t].slot \in Slots /\ pc[t].at \in LoginPlaces \union LogoutPlaces
<1>1. pc[t].at # "idle"
  <2>1. pc[t].at = "idle" => pc[t] = Idle
    BY WorkFacts
  <2>. QED
    BY <2>1 DEF Idle
<1>. QED
  BY <1>1, WorkFacts

\* A thread that works on slot s only leaves the others as they are.
LEMMA Frame ==
    ASSUME SlotInv, TypeOK', NEW t \in Threads, NEW s \in Sids,
           \A r \in Threads \ {t} : pc'[r] = pc[r],
           pc[t].slot \in {s, SDK_SESSIONID_INIT},
           pc'[t].slot \in {s, SDK_SESSIONID_INIT},
           pc[t].slot = s \/ \A r \in Threads \ {t} : pc[r].slot # s,
           \A r \in Slots \ {s} : SlotStays(r),
           Stage(t)',
           s \in Slots /\ pc'[t].slot = SDK_SESSIONID_INIT => Rest(s)'
    PROVE  SlotInv'
<1>. USE SlotIsId
<1>1. \A r \in Threads \ {t} : pc[r].slot = s => s = SDK_SESSIONID_INIT
  BY DEF SlotInv, Alone
<1>2. Alone'
  BY <1>1 DEF SlotInv, Alone
<1>3. ASSUME NEW r \in Slots, ~Busy(r)' PROVE Rest(r)'
  <2>1. CASE r = s
    BY <1>3, <2>1 DEF Busy
  <2>2. CASE r # s
    <3>1. ~Busy(r)
      BY <1>3, <2>2 DEF Busy
    <3>. QED
      BY <2>2, <3>1, StayKeeps DEF SlotInv
  <2>. QED
    BY <2>1, <2>2
<1>4. ASSUME NEW r \in Threads PROVE Stage(r)'
  <2>1. CASE r = t
    BY <2>1
  <2>2. CASE r # t /\ pc[r].slot = SDK_SESSIONID_INIT
    <3>1. pc'[r].at \in {"idle", "remove", "take"}
      BY <2>2, NoSlotNoStage DEF SlotInv
    <3>. QED
      BY <3>1 DEF Stage, StageAt
  <2>3. CASE r # t /\ pc[r].slot # SDK_SESSIONID_INIT
    <3>1. pc[r].slot \in Slots /\ pc[r].slot # s
      BY <1>1, <2>3, SlotAtWork DEF SlotInv
    <3>2. SlotStays(pc[r].slot) /\ pc'[r] = pc[r]
      BY <2>3, <3>1
    <3>3. Stage(r)
      BY DEF SlotInv
    <3>. QED
      BY <3>2, <3>3, StayKeeps DEF Stage
  <2>. QED
    BY <2>1, <2>2, <2>3
<1>. QED
  BY <1>2, <1>3, <1>4 DEF SlotInv

\* A slot with an OMU login thread is that of a session.
LEMMA OmuIsKept ==
    ASSUME SlotInv, NEW s \in Slots, omu[s] # NoThread
    PROVE  /\ Kept(s)
           /\ \A t \in Threads : pc[t].slot = s =>
                pc[t].at \in {"route", "find", "free", "stop", "join"}
<1>1. CASE ~Busy(s)
  BY <1>1 DEF SlotInv, Busy, Rest, Empty, Bare
<1>2. ASSUME NEW t \in Threads, pc[t].slot = s
      PROVE  Kept(s) /\ pc[t].at \in {"route", "find", "free", "stop", "join"}
  <2>1. pc[t].at \in LoginPlaces \union LogoutPlaces
    BY <1>2, SlotAtWork, SlotIsId DEF SlotInv
  <2>2. Stage(t)
    BY DEF SlotInv
  <2>. QED
    BY <1>2, <2>1, <2>2 DEF LoginPlaces, LogoutPlaces, Stage, StageAt, Rest, Empty, Begun,
                            Ended, Bare
<1>. QED
  BY <1>1, <1>2 DEF Busy

-----------------------------------------------------------------------------
(* The steps of a thread keep the slots as they should be *)

\* A step of a thread that keeps its slot.
LEMMA OwnFrame ==
    ASSUME SlotInv, TypeOK', NEW t \in Threads, pc[t].slot \in Slots,
           \A r \in Threads \ {t} : pc'[r] = pc[r],
           pc'[t].slot = pc[t].slot,
           \A r \in Slots \ {pc[t].slot} : SlotStays(r),
           Stage(t)'
    PROVE  SlotInv'
BY Frame, SlotIsId

\* A step of a thread that leaves its slot.
LEMMA LeaveFrame ==
    ASSUME SlotInv, TypeOK', NEW t \in Threads, NEW s \in Slots, pc[t].slot = s,
           \A r \in Threads \ {t} : pc'[r] = pc[r],
           pc'[t].slot = SDK_SESSIONID_INIT,
           \A r \in Slots \ {s} : SlotStays(r),
           Rest(s)'
    PROVE  SlotInv'
<1>1. pc'[t] \in Works
  BY DEF TypeOK
<1>2. pc'[t].at \in {"idle", "remove", "take"}
  BY <1>1, SlotIsId DEF Works, Idle
<1>3. Stage(t)'
  BY <1>2 DEF Stage, StageAt
<1>. QED
  BY <1>3, Frame, SlotIsId

\* A thread that keeps its slot.
LEMMA GoesOn ==
    ASSUME TypeOK, NEW t \in Threads, NEW at, NEW sid,
           GotoWith(t, at, pc[t].slot, sid),
           \/ pc[t].at \in LoginPlaces /\ at \in LoginPlaces /\ sid \in Sids
           \/ pc[t].at \in LogoutPlaces /\ at \in LogoutPlaces /\ sid = pc[t].sid
    PROVE  /\ pc'[t].at = at /\ pc'[t].slot = pc[t].slot /\ pc'[t].sid = sid
           /\ pc'[t].kind = pc[t].kind /\ pc'[t].user = pc[t].user
           /\ \A r \in Threads \ {t} : pc'[r] = pc[r]
<1>1. pc'[t] = [at |-> at, kind |-> pc[t].kind, user |-> pc[t].user,
                slot |-> pc[t].slot, sid |-> sid]
  BY DEF GotoWith, TypeOK
<1>2. \A r \in Threads \ {t} : pc'[r] = pc[r]
  BY DEF GotoWith, TypeOK
<1>. QED
  BY <1>1, <1>2

LEMMA GotoOn ==
    ASSUME TypeOK, NEW t \in Threads, NEW at, Goto(t, at),
           \/ pc[t].at \in LoginPlaces /\ at \in LoginPlaces
           \/ pc[t].at \in LogoutPlaces /\ at \in LogoutPlaces
    PROVE  /\ pc'[t].at = at /\ pc'[t].slot = pc[t].slot /\ pc'[t].sid = pc[t].sid
           /\ pc'[t].kind = pc[t].kind /\ pc'[t].user = pc[t].user
           /\ \A r \in Threads \ {t} : pc'[r] = pc[r]
BY GoesOn, WorkFacts DEF Goto

LEMMA SmuStored ==
    ASSUME TypeOK, NEW sid \in Sids, NEW user, StoreLink(sid, "smu", user)
    PROVE  /\ m_LinkRouteMap'[sid] = [smu |-> user, omu |-> m_LinkRouteMap[sid].omu]
           /\ \A r \in Sids \ {sid} : m_LinkRouteMap'[r] = m_LinkRouteMap[r]
<1>1. m_LinkRouteMap[sid] \in Links
  BY DEF TypeOK
<1>2. [m_LinkRouteMap[sid] EXCEPT !["smu"] = user]
        = [smu |-> user, omu |-> m_LinkRouteMap[sid].omu]
  BY <1>1 DEF Links
<1>3. m_LinkRouteMap'[sid] = [m_LinkRouteMap[sid] EXCEPT !["smu"] = user]
  BY DEF StoreLink, TypeOK
<1>. QED
  BY <1>2, <1>3 DEF StoreLink, TypeOK

LEMMA OmuStored ==
    ASSUME TypeOK, NEW sid \in Sids, NEW user, StoreLink(sid, "omu", user)
    PROVE  /\ m_LinkRouteMap'[sid].smu = m_LinkRouteMap[sid].smu
           /\ m_LinkRouteMap'[sid].omu = user
           /\ \A r \in Sids \ {sid} : m_LinkRouteMap'[r] = m_LinkRouteMap[r]
<1>1. m_LinkRouteMap[sid] \in Links
  BY DEF TypeOK
<1>2. [m_LinkRouteMap[sid] EXCEPT !["omu"] = user]
        = [smu |-> m_LinkRouteMap[sid].smu, omu |-> user]
  BY <1>1 DEF Links
<1>3. m_LinkRouteMap'[sid] = [m_LinkRouteMap[sid] EXCEPT !["omu"] = user]
  BY DEF StoreLink, TypeOK
<1>. QED
  BY <1>2, <1>3 DEF StoreLink, TypeOK

LEMMA LinksDeleted ==
    ASSUME TypeOK, NEW sid \in Sids, DeleteLinkList(sid)
    PROVE  /\ m_LinkRouteMap'[sid] = NoLinks
           /\ \A r \in Sids \ {sid} : m_LinkRouteMap'[r] = m_LinkRouteMap[r]
BY DEF DeleteLinkList, TypeOK

\* What a login or logout that works on its slot makes of it.

LEMMA AddToMapKeeps ==
    ASSUME SlotInv, TypeOK', NEW t \in Threads, AddToMap(t)
    PROVE  SlotInv'
<1>. USE SlotIsId
<1>1. PICK s \in Slots : pc[t].slot = s
  BY WorkFacts DEF SlotInv, AddToMap, LoginPlaces
<1>2. s \in m_SessionIDFlagArray /\ s \notin m_mapSession /\ Empty(s)
  BY <1>1 DEF SlotInv, Stage, StageAt, AddToMap
<1>3. \A r \in Slots \ {s} : SlotStays(r)
  BY <1>1 DEF SlotInv, TypeOK, SlotStays, AddToMap, omuVars
<1>4. /\ pc'[t].slot = s /\ pc'[t].at = "connect"
      /\ \A r \in Threads \ {t} : pc'[r] = pc[r]
  BY <1>1, GotoOn DEF SlotInv, AddToMap, LoginPlaces
<1>5. Begun(s)' /\ m_LinkRouteMap'[s] = NoLinks
  BY <1>1, <1>2 DEF SlotInv, TypeOK, AddToMap, Begun, Used, Bare, Empty, omuVars
<1>6. Stage(t)'
  BY <1>4, <1>5 DEF Stage, StageAt
<1>. QED
  BY <1>1, <1>3, <1>4, <1>6, OwnFrame

LEMMA CreateSmuLinkKeeps ==
    ASSUME SlotInv, TypeOK', NEW t \in Threads, CreateSmuLink(t)
    PROVE  SlotInv'
<1>. USE SlotIsId
<1>1. PICK s \in Slots : pc[t].slot = s
  BY WorkFacts DEF SlotInv, CreateSmuLink, LoginPlaces
<1>2. Begun(s) /\ m_LinkRouteMap[s] = NoLinks /\ m_iSessionID[s] = s
  BY <1>1 DEF SlotInv, Stage, StageAt, Begun, CreateSmuLink
<1>3. \/ Goto(t, "fail") /\ UNCHANGED m_LinkRouteMap
      \/ /\ GotoWith(t, "answer", pc[t].slot, s)
         /\ \/ pc[t].kind = "tkt" /\ StoreLink(s, "smu", pc[t].user)
            \/ pc[t].kind # "tkt" /\ UNCHANGED m_LinkRouteMap
  BY <1>1, <1>2 DEF CreateSmuLink
<1>4. /\ pc'[t].slot = s /\ pc'[t].kind = pc[t].kind /\ pc'[t].user = pc[t].user
      /\ \A r \in Threads \ {t} : pc'[r] = pc[r]
      /\ \/ pc'[t].at = "answer" /\ pc'[t].sid = s
         \/ pc'[t].at = "fail"
  BY <1>1, <1>3, GotoOn, GoesOn DEF SlotInv, CreateSmuLink, LoginPlaces
<1>5. /\ \A r \in Sids \ {s} : m_LinkRouteMap'[r] = m_LinkRouteMap[r]
      /\ pc'[t].at = "fail" => m_LinkRouteMap'[s] = NoLinks
      /\ pc'[t].at = "answer" =>
            m_LinkRouteMap'[s] = [smu |-> IF pc[t].kind = "tkt" THEN pc[t].user ELSE None,
                                  omu |-> None]
  <2>1. CASE Goto(t, "fail") /\ UNCHANGED m_LinkRouteMap
    BY <1>1, <1>2, <2>1, GotoOn DEF SlotInv, CreateSmuLink, LoginPlaces
  <2>2. CASE pc[t].kind = "tkt" /\ StoreLink(s, "smu", pc[t].user)
             /\ GotoWith(t, "answer", pc[t].slot, s)
    <3>1. pc'[t].at = "answer"
      BY <2>2, GoesOn DEF SlotInv, CreateSmuLink, LoginPlaces
    <3>2. m_LinkRouteMap[s].omu = None
      BY <1>2 DEF NoLinks
    <3>. QED
      BY <2>2, <3>1, <3>2, SmuStored DEF SlotInv
  <2>3. CASE pc[t].kind # "tkt" /\ UNCHANGED m_LinkRouteMap
             /\ GotoWith(t, "answer", pc[t].slot, s)
    <3>1. pc'[t].at = "answer"
      BY <2>3, GoesOn DEF SlotInv, CreateSmuLink, LoginPlaces
    <3>. QED
      BY <1>2, <2>3, <3>1 DEF NoLinks
  <2>. QED
    BY <1>3, <2>1, <2>2, <2>3
<1>6. \A r \in Slots \ {s} : SlotStays(r)
  BY <1>5 DEF SlotStays, CreateSmuLink, slotVars, userVars, omuVars
<1>7. Begun(s)'
  BY <1>2 DEF CreateSmuLink, Begun, Used, Bare, slotVars, userVars, omuVars
<1>8. Stage(t)'
  BY <1>4, <1>5, <1>7 DEF Stage, StageAt
<1>. QED
  BY <1>1, <1>4, <1>6, <1>8, OwnFrame

LEMMA SmuAnswersKeeps ==
    ASSUME SlotInv, TypeOK', NEW t \in Threads, SmuAnswers(t)
    PROVE  SlotInv'
<1>. USE SlotIsId
<1>1. PICK s \in Slots : pc[t].slot = s
  BY WorkFacts DEF SlotInv, SmuAnswers, LoginPlaces
<1>2. /\ Begun(s) /\ pc[t].sid = s
      /\ m_LinkRouteMap[s] = [smu |-> IF pc[t].kind = "tkt" THEN pc[t].user ELSE None,
                              omu |-> None]
  BY <1>1 DEF SlotInv, Stage, StageAt, SmuAnswers
<1>3. \/ Goto(t, "user") /\ pc[t].kind = "tkt" /\ UNCHANGED m_LinkRouteMap
      \/ Goto(t, "info") /\ StoreLink(s, "smu", pc[t].user)
      \/ Goto(t, "fail") /\ DeleteLinkList(s)
  BY <1>2 DEF SmuAnswers
<1>4. /\ pc'[t].slot = s /\ pc'[t].kind = pc[t].kind /\ pc'[t].user = pc[t].user
      /\ \A r \in Threads \ {t} : pc'[r] = pc[r]
      /\ \/ pc'[t].at = "user" /\ pc[t].kind = "tkt" /\ UNCHANGED m_LinkRouteMap
         \/ pc'[t].at = "info" /\ StoreLink(s, "smu", pc[t].user)
         \/ pc'[t].at = "fail" /\ DeleteLinkList(s)
  BY <1>1, <1>3, GotoOn DEF SlotInv, SmuAnswers, LoginPlaces
<1>5. /\ \A r \in Sids \ {s} : m_LinkRouteMap'[r] = m_LinkRouteMap[r]
      /\ pc'[t].at = "fail" => m_LinkRouteMap'[s] = NoLinks
      /\ pc'[t].at \in {"user", "info"} =>
            m_LinkRouteMap'[s] = [smu |-> pc[t].user, omu |-> None]
  BY <1>2, <1>4, SmuStored, LinksDeleted DEF SlotInv
<1>6. \A r \in Slots \ {s} : SlotStays(r)
  BY <1>5 DEF SlotStays, SmuAnswers, slotVars, userVars, omuVars
<1>7. Begun(s)'
  BY <1>2 DEF SmuAnswers, Begun, Used, Bare, slotVars, userVars, omuVars
<1>8. Stage(t)'
  BY <1>4, <1>5, <1>7 DEF Stage, StageAt
<1>. QED
  BY <1>1, <1>4, <1>6, <1>8, OwnFrame

LEMMA GetUserInfoKeeps ==
    ASSUME SlotInv, TypeOK', NEW t \in Threads, GetUserInfo(t)
    PROVE  SlotInv'
<1>. USE SlotIsId
<1>1. PICK s \in Slots : pc[t].slot = s
  BY WorkFacts DEF SlotInv, GetUserInfo, LoginPlaces
<1>2. /\ Begun(s) /\ m_iSessionID[s] = s
      /\ m_LinkRouteMap[s] = [smu |-> pc[t].user, omu |-> None]
  BY <1>1 DEF SlotInv, Stage, StageAt, Begun, GetUserInfo
<1>3. \/ Goto(t, "info") /\ UNCHANGED m_LinkRouteMap
      \/ Goto(t, "fail") /\ DeleteLinkList(s)
  BY <1>1, <1>2 DEF GetUserInfo
<1>4. /\ pc'[t].slot = s /\ pc'[t].user = pc[t].user
      /\ \A r \in Threads \ {t} : pc'[r] = pc[r]
      /\ \/ pc'[t].at = "info" /\ UNCHANGED m_LinkRouteMap
         \/ pc'[t].at = "fail" /\ DeleteLinkList(s)
  BY <1>1, <1>3, GotoOn DEF SlotInv, GetUserInfo, LoginPlaces
<1>5. /\ \A r \in Sids \ {s} : m_LinkRouteMap'[r] = m_LinkRouteMap[r]
      /\ pc'[t].at = "fail" => m_LinkRouteMap'[s] = NoLinks
      /\ pc'[t].at = "info" => m_LinkRouteMap'[s] = [smu |-> pc[t].user, omu |-> None]
  BY <1>2, <1>4, LinksDeleted DEF SlotInv
<1>6. \A r \in Slots \ {s} : SlotStays(r)
  BY <1>5 DEF SlotStays, GetUserInfo, slotVars, userVars, omuVars
<1>7. Begun(s)'
  BY <1>2 DEF GetUserInfo, Begun, Used, Bare, slotVars, userVars, omuVars
<1>8. Stage(t)'
  BY <1>4, <1>5, <1>7 DEF Stage, StageAt
<1>. QED
  BY <1>1, <1>4, <1>6, <1>8, OwnFrame

LEMMA InitUserInfoKeeps ==
    ASSUME SlotInv, TypeOK', NEW t \in Threads, InitUserInfo(t)
    PROVE  SlotInv'
<1>. USE SlotIsId
<1>1. PICK s \in Slots : pc[t].slot = s
  BY WorkFacts DEF SlotInv, InitUserInfo, LoginPlaces
<1>2. /\ Begun(s) /\ m_iSessionID[s] = s
      /\ m_LinkRouteMap[s] = [smu |-> pc[t].user, omu |-> None]
  BY <1>1 DEF SlotInv, Stage, StageAt, Begun, InitUserInfo
<1>3. \A r \in Slots \ {s} : SlotStays(r)
  BY <1>1 DEF SlotInv, TypeOK, SlotStays, InitUserInfo, slotVars, omuVars
<1>4. /\ pc'[t].slot = s /\ pc'[t].at = "omu"
      /\ \A r \in Threads \ {t} : pc'[r] = pc[r]
  BY <1>1, GotoOn DEF SlotInv, InitUserInfo, LoginPlaces
<1>5. m_userInfo'[s].sid = s /\ m_userInfo'[s].name = pc[t].user /\ pc[t].user \in Accounts
  BY <1>1, <1>2, WorkFacts DEF SlotInv, TypeOK, InitUserInfo, LoginPlaces
<1>6. Used(s)' /\ Kept(s)' /\ omu'[s] = NoThread
  BY <1>2, <1>5 DEF InitUserInfo, Begun, Used, Bare, Kept, NoThread, slotVars, omuVars
<1>7. Stage(t)'
  BY <1>4, <1>6 DEF Stage, StageAt
<1>. QED
  BY <1>1, <1>3, <1>4, <1>7, OwnFrame

LEMMA CreateOmuThreadKeeps ==
    ASSUME SlotInv, TypeOK', NEW t \in Threads, CreateOmuThread(t)
    PROVE  SlotInv'
<1>. USE SlotIsId
<1>1. PICK s \in Slots : pc[t].slot = s
  BY WorkFacts DEF SlotInv, CreateOmuThread, LoginPlaces
<1>2. Used(s) /\ Kept(s) /\ omu[s] = NoThread
  BY <1>1 DEF SlotInv, Stage, StageAt, CreateOmuThread
<1>3. \A r \in Slots \ {s} : SlotStays(r)
  BY <1>1 DEF SlotInv, TypeOK, SlotStays, CreateOmuThread, slotVars, userVars
<1>4. /\ pc'[t].slot = s /\ pc'[t].at = "route"
      /\ \A r \in Threads \ {t} : pc'[r] = pc[r]
  BY <1>1, GotoOn DEF SlotInv, CreateOmuThread, LoginPlaces
<1>5. omu'[s].at \in {"none", "start"}
  BY <1>1, <1>2 DEF SlotInv, TypeOK, CreateOmuThread, NoThread
<1>6. Used(s)' /\ Kept(s)'
  BY <1>2, <1>5 DEF CreateOmuThread, Used, Kept, slotVars, userVars
<1>7. Stage(t)'
  BY <1>4, <1>6 DEF Stage, StageAt
<1>. QED
  BY <1>1, <1>3, <1>4, <1>7, OwnFrame

LEMMA LoginFailsKeeps ==
    ASSUME SlotInv, TypeOK', NEW t \in Threads, LoginFails(t)
    PROVE  SlotInv'
<1>. USE SlotIsId
<1>1. PICK s \in Slots : pc[t].slot = s
  BY WorkFacts DEF SlotInv, LoginFails, LoginPlaces
<1>2. Begun(s) /\ m_LinkRouteMap[s] = NoLinks
  BY <1>1 DEF SlotInv, Stage, StageAt, LoginFails
<1>3. \A r \in Slots \ {s} : SlotStays(r)
  BY <1>1 DEF SlotStays, LoginFails, FreeSlot, userVars, omuVars
<1>4. /\ pc'[t].slot = s /\ pc'[t].at = "unbind"
      /\ \A r \in Threads \ {t} : pc'[r] = pc[r]
  BY <1>1, GotoOn DEF SlotInv, LoginFails, LoginPlaces
<1>5. Ended(s)' /\ m_LinkRouteMap'[s] = NoLinks
  BY <1>1, <1>2 DEF LoginFails, FreeSlot, Begun, Ended, Unused, Bare, userVars, omuVars
<1>6. Stage(t)'
  BY <1>4, <1>5 DEF Stage, StageAt
<1>. QED
  BY <1>1, <1>3, <1>4, <1>6, OwnFrame

LEMMA LoginFailedKeeps ==
    ASSUME SlotInv, TypeOK', NEW t \in Threads, LoginFailed(t)
    PROVE  SlotInv'
<1>. USE SlotIsId
<1>1. PICK s \in Slots : pc[t].slot = s
  BY WorkFacts DEF SlotInv, LoginFailed, LoginPlaces
<1>2. Ended(s) /\ m_LinkRouteMap[s] = NoLinks
  BY <1>1 DEF SlotInv, Stage, StageAt, LoginFailed
<1>3. \A r \in Slots \ {s} : SlotStays(r)
  BY <1>1 DEF SlotInv, TypeOK, SlotStays, LoginFailed, slotVars, omuVars
<1>4. pc'[t] = Idle /\ \A r \in Threads \ {t} : pc'[r] = pc[r]
  BY Returns DEF SlotInv, LoginFailed
<1>5. Rest(s)'
  BY <1>1, <1>2 DEF SlotInv, TypeOK, LoginFailed, Rest, Ended, Unused, Empty, Bare, slotVars,
                    omuVars
<1>6. pc'[t].slot = SDK_SESSIONID_INIT
  BY <1>4 DEF Idle
<1>. QED
  BY <1>1, <1>3, <1>4, <1>5, <1>6, LeaveFrame

LEMMA GetDomainRouteKeeps ==
    ASSUME SlotInv, TypeOK', NEW t \in Threads, GetDomainRoute(t), "late" \notin Failures
    PROVE  SlotInv'
<1>1. PICK s \in Slots : pc[t].slot = s
  BY WorkFacts DEF SlotInv, GetDomainRoute, LoginPlaces
<1>2. Used(s) /\ Kept(s)
  BY <1>1 DEF SlotInv, Stage, StageAt, GetDomainRoute
<1>3. \A r \in Slots : SlotStays(r)
  BY DEF SlotStays, GetDomainRoute, slotVars, userVars, omuVars
<1>4. pc'[t] = Idle /\ \A r \in Threads \ {t} : pc'[r] = pc[r]
  BY Returns DEF SlotInv, GetDomainRoute
<1>5. pc'[t].slot = SDK_SESSIONID_INIT
  BY <1>4 DEF Idle
<1>6. Rest(s)'
  BY <1>2, <1>3, StayKeeps DEF Rest
<1>. QED
  BY <1>1, <1>3, <1>4, <1>5, <1>6, LeaveFrame

\* The steps of a logout.

LEMMA LogoutLeaves ==
    ASSUME TypeOK, NEW t \in Threads, pc[t].at \in LogoutPlaces, LogoutReturns(t)
    PROVE  /\ pc'[t].slot = SDK_SESSIONID_INIT
           /\ \A r \in Threads \ {t} : pc'[r] = pc[r]
<1>1. CASE Return(t)
  BY <1>1, Returns DEF Idle
<1>2. CASE GotoWith(t, "take", SDK_SESSIONID_INIT, pc[t].sid)
  BY <1>2 DEF GotoWith, TypeOK
<1>. QED
  BY <1>1, <1>2 DEF LogoutReturns

LEMMA GetUserMgrKeeps ==
    ASSUME SlotInv, TypeOK', NEW t \in Threads, GetUserMgr(t)
    PROVE  SlotInv'
<1>. USE SlotIsId
<1>1. PICK s \in Slots : pc[t].slot = s
  BY WorkFacts DEF SlotInv, GetUserMgr, LogoutPlaces
<1>2. Rest(s)
  BY <1>1 DEF SlotInv, Stage, StageAt, GetUserMgr
<1>3. \A r \in Slots : SlotStays(r)
  BY DEF SlotStays, GetUserMgr, slotVars, userVars, omuVars
<1>4. CASE s \in m_mapSession
  <2>1. /\ pc'[t].slot = s /\ pc'[t].at = "free"
        /\ \A r \in Threads \ {t} : pc'[r] = pc[r]
    BY <1>1, <1>4, GotoOn DEF SlotInv, GetUserMgr, LogoutPlaces
  <2>2. Used(s) /\ Kept(s)
    BY <1>2, <1>4 DEF Rest, Unused
  <2>3. (Used(s) /\ Kept(s))'
    BY <1>3, <2>2 DEF SlotStays, Used, Kept
  <2>4. Stage(t)'
    BY <2>1, <2>3 DEF Stage, StageAt
  <2>. QED
    BY <1>1, <1>3, <2>1, <2>4, OwnFrame
<1>5. CASE s \notin m_mapSession
  <2>1. /\ pc'[t].slot = SDK_SESSIONID_INIT
        /\ \A r \in Threads \ {t} : pc'[r] = pc[r]
    BY <1>1, <1>5, LogoutLeaves DEF SlotInv, GetUserMgr, LogoutPlaces
  <2>2. Rest(s)'
    BY <1>2, <1>3, StayKeeps
  <2>. QED
    BY <1>1, <1>3, <2>1, <2>2, LeaveFrame
<1>. QED
  BY <1>4, <1>5

LEMMA FreeSessoinIDKeeps ==
    ASSUME SlotInv, TypeOK', NEW t \in Threads, FreeSessoinID(t)
    PROVE  SlotInv'
<1>. USE SlotIsId
<1>1. PICK s \in Slots : pc[t].slot = s
  BY WorkFacts DEF SlotInv, FreeSessoinID, LogoutPlaces
<1>2. Used(s) /\ Kept(s)
  BY <1>1 DEF SlotInv, Stage, StageAt, FreeSessoinID
<1>3. \A r \in Slots \ {s} : SlotStays(r)
  BY <1>1 DEF SlotStays, FreeSessoinID, FreeSlot, userVars, omuVars
<1>4. /\ pc'[t].slot = s /\ pc'[t].at = "stop"
      /\ \A r \in Threads \ {t} : pc'[r] = pc[r]
  BY <1>1, GotoOn DEF SlotInv, FreeSessoinID, LogoutPlaces
<1>5. (Unused(s) /\ Kept(s))'
  BY <1>1, <1>2 DEF FreeSessoinID, FreeSlot, Unused, Kept, userVars, omuVars
<1>6. Stage(t)'
  BY <1>4, <1>5 DEF Stage, StageAt
<1>. QED
  BY <1>1, <1>3, <1>4, <1>6, OwnFrame

LEMMA StopOmuThreadKeeps ==
    ASSUME SlotInv, TypeOK', NEW t \in Threads, StopOmuThread(t)
    PROVE  SlotInv'
<1>. USE SlotIsId
<1>1. PICK s \in Slots : pc[t].slot = s
  BY WorkFacts DEF SlotInv, StopOmuThread, LogoutPlaces
<1>2. Unused(s) /\ Kept(s)
  BY <1>1 DEF SlotInv, Stage, StageAt, StopOmuThread
<1>3. \A r \in Slots : SlotStays(r)
  BY DEF SlotStays, StopOmuThread, slotVars, userVars
<1>4. /\ pc'[t].slot = s
      /\ \/ pc'[t].at = "clear" /\ omu[s] = NoThread
         \/ pc'[t].at = "join"
      /\ \A r \in Threads \ {t} : pc'[r] = pc[r]
  BY <1>1, GotoOn DEF SlotInv, StopOmuThread, LogoutPlaces
<1>5. (Unused(s) /\ Kept(s))' /\ (pc'[t].at = "clear" => omu'[s] = NoThread)
  BY <1>2, <1>3, <1>4 DEF SlotStays, Unused, Kept
<1>6. Stage(t)'
  BY <1>4, <1>5 DEF Stage, StageAt
<1>. QED
  BY <1>1, <1>3, <1>4, <1>6, OwnFrame

LEMMA JoinOmuThreadKeeps ==
    ASSUME SlotInv, TypeOK', NEW t \in Threads, JoinOmuThread(t)
    PROVE  SlotInv'
<1>. USE SlotIsId
<1>1. PICK s \in Slots : pc[t].slot = s
  BY WorkFacts DEF SlotInv, JoinOmuThread, LogoutPlaces
<1>2. Unused(s) /\ Kept(s)
  BY <1>1 DEF SlotInv, Stage, StageAt, JoinOmuThread
<1>3. \A r \in Slots \ {s} : SlotStays(r)
  BY <1>1 DEF SlotInv, TypeOK, SlotStays, JoinOmuThread, slotVars, userVars
<1>4. /\ pc'[t].slot = s /\ pc'[t].at = "clear"
      /\ \A r \in Threads \ {t} : pc'[r] = pc[r]
  BY <1>1, GotoOn DEF SlotInv, JoinOmuThread, LogoutPlaces
<1>5. omu'[s] = NoThread
  BY <1>1 DEF SlotInv, TypeOK, JoinOmuThread
<1>6. (Unused(s) /\ Kept(s))'
  BY <1>2, <1>5 DEF JoinOmuThread, Unused, Kept, NoThread, slotVars, userVars
<1>7. Stage(t)'
  BY <1>4, <1>5, <1>6 DEF Stage, StageAt
<1>. QED
  BY <1>1, <1>3, <1>4, <1>7, OwnFrame

LEMMA ClearUserInfoKeeps ==
    ASSUME SlotInv, TypeOK', NEW t \in Threads, ClearUserInfo(t)
    PROVE  SlotInv'
<1>. USE SlotIsId
<1>1. PICK s \in Slots : pc[t].slot = s
  BY WorkFacts DEF SlotInv, ClearUserInfo, LogoutPlaces
<1>2. Unused(s) /\ Kept(s) /\ omu[s] = NoThread
  BY <1>1 DEF SlotInv, Stage, StageAt, ClearUserInfo
<1>3. \A r \in Slots \ {s} : SlotStays(r)
  BY <1>1 DEF SlotInv, TypeOK, SlotStays, ClearUserInfo, slotVars, omuVars
<1>4. /\ pc'[t].slot = s /\ pc'[t].at = "links"
      /\ \A r \in Threads \ {t} : pc'[r] = pc[r]
  BY <1>1, GotoOn DEF SlotInv, ClearUserInfo, LogoutPlaces
<1>5. m_userInfo'[s].sid = SDK_SESSIONID_INIT /\ m_userInfo'[s].name = None
  BY <1>1 DEF SlotInv, TypeOK, Infos, ClearUserInfo
<1>6. Ended(s)'
  BY <1>2, <1>5 DEF ClearUserInfo, Ended, Bare, Unused, Kept, slotVars, omuVars
<1>7. Stage(t)'
  BY <1>4, <1>6 DEF Stage, StageAt
<1>. QED
  BY <1>1, <1>3, <1>4, <1>7, OwnFrame

LEMMA DeleteLinksKeeps ==
    ASSUME SlotInv, TypeOK', NEW t \in Threads, DeleteLinks(t)
    PROVE  SlotInv'
<1>. USE SlotIsId
<1>1. PICK s \in Slots : pc[t].slot = s
  BY WorkFacts DEF SlotInv, DeleteLinks, LogoutPlaces
<1>2. Ended(s) /\ m_iSessionID[s] = s
  BY <1>1 DEF SlotInv, Stage, StageAt, Ended, DeleteLinks
<1>3. DeleteLinkList(s)
  BY <1>1, <1>2 DEF DeleteLinks
<1>4. \A r \in Slots \ {s} : SlotStays(r)
  BY <1>3, LinksDeleted DEF SlotInv, SlotStays, DeleteLinks, slotVars, userVars, omuVars
<1>5. /\ pc'[t].slot = s /\ pc'[t].at = "reset"
      /\ \A r \in Threads \ {t} : pc'[r] = pc[r]
  BY <1>1, GotoOn DEF SlotInv, DeleteLinks, LogoutPlaces
<1>6. Ended(s)' /\ m_LinkRouteMap'[s] = NoLinks
  BY <1>2, <1>3, LinksDeleted DEF SlotInv, DeleteLinks, Ended, Unused, Bare, slotVars, userVars,
                                  omuVars
<1>7. Stage(t)'
  BY <1>5, <1>6 DEF Stage, StageAt
<1>. QED
  BY <1>1, <1>4, <1>5, <1>7, OwnFrame

LEMMA ResetSessionIDKeeps ==
    ASSUME SlotInv, TypeOK', NEW t \in Threads, ResetSessionID(t)
    PROVE  SlotInv'
<1>. USE SlotIsId
<1>1. PICK s \in Slots : pc[t].slot = s
  BY WorkFacts DEF SlotInv, ResetSessionID, LogoutPlaces
<1>2. Ended(s) /\ m_LinkRouteMap[s] = NoLinks
  BY <1>1 DEF SlotInv, Stage, StageAt, ResetSessionID
<1>3. \A r \in Slots \ {s} : SlotStays(r)
  BY <1>1 DEF SlotInv, TypeOK, SlotStays, ResetSessionID, slotVars, omuVars
<1>4. /\ pc'[t].slot = SDK_SESSIONID_INIT
      /\ \A r \in Threads \ {t} : pc'[r] = pc[r]
  BY <1>1, LogoutLeaves DEF SlotInv, ResetSessionID, LogoutPlaces
<1>5. Rest(s)'
  BY <1>1, <1>2 DEF SlotInv, TypeOK, ResetSessionID, Rest, Ended, Unused, Empty, Bare, slotVars,
                    omuVars
<1>. QED
  BY <1>1, <1>3, <1>4, <1>5, LeaveFrame

\* The steps that begin, and the threads that log in to the OMU.

\* A thread that has no slot and takes none.
LEMMA NoSlotFrame ==
    ASSUME SlotInv, TypeOK', NEW t \in Threads,
           \A r \in Threads \ {t} : pc'[r] = pc[r],
           pc[t].slot = SDK_SESSIONID_INIT, pc'[t].slot = SDK_SESSIONID_INIT,
           pc'[t].at \in {"idle", "remove", "take"},
           \A r \in Slots : SlotStays(r)
    PROVE  SlotInv'
<1>1. Stage(t)'
  BY DEF Stage, StageAt
<1>2. SDK_SESSIONID_INIT \in Sids
  BY DEF Sids
<1>. QED
  BY <1>1, <1>2, Frame, SlotIsId

\* A thread that takes a slot which rests.
LEMMA TakeFrame ==
    ASSUME SlotInv, TypeOK', NEW t \in Threads, NEW s \in Slots, NEW at,
           pc[t].slot = SDK_SESSIONID_INIT, GotoWith(t, at, s, pc[t].sid),
           Rests(s), SlotRests,
           \A r \in Slots \ {s} : SlotStays(r),
           at = "find" => SlotStays(s),
           at = "bind" => s \in m_SessionIDFlagArray' /\ s \notin m_mapSession' /\ Empty(s)',
           at \in {"find", "bind"}
    PROVE  SlotInv'
<1>1. /\ pc'[t].slot = s /\ pc'[t].at = at
      /\ \A r \in Threads \ {t} : pc'[r] = pc[r]
  BY DEF SlotInv, TypeOK, GotoWith
<1>2. \A r \in Threads : pc[r].slot # s
  BY DEF Rests
<1>3. Rest(s)
  BY <1>2 DEF SlotInv, Busy
<1>4. Stage(t)'
  BY <1>1, <1>3, StayKeeps DEF Stage, StageAt
<1>. QED
  BY <1>1, <1>2, <1>4, Frame, SlotIsId

LEMMA LoginKeeps ==
    ASSUME SlotInv, TypeOK', NEW t \in Threads, NEW kind, NEW user, Login(t, kind, user)
    PROVE  SlotInv'
<1>1. pc[t] = Idle
  BY WorkFacts DEF SlotInv, Login
<1>2. /\ pc'[t].slot = SDK_SESSIONID_INIT /\ pc'[t].at = "remove"
      /\ \A r \in Threads \ {t} : pc'[r] = pc[r]
  BY DEF SlotInv, TypeOK, Login
<1>3. \A r \in Slots : SlotStays(r)
  BY DEF SlotStays, Login, slotVars, userVars, omuVars
<1>4. pc[t].slot = SDK_SESSIONID_INIT
  BY <1>1 DEF Idle
<1>. QED
  BY <1>2, <1>3, <1>4, NoSlotFrame

LEMMA RemoveUserKeeps ==
    ASSUME SlotInv, TypeOK', NEW t \in Threads, RemoveUser(t), SlotRests
    PROVE  SlotInv'
<1>1. pc[t].slot = SDK_SESSIONID_INIT
  BY WorkFacts DEF SlotInv, RemoveUser
<1>2. \A r \in Slots : SlotStays(r)
  BY DEF SlotStays, RemoveUser, slotVars, userVars, omuVars
<1>3. CASE Goto(t, "take")
  <2>1. /\ pc'[t].slot = SDK_SESSIONID_INIT /\ pc'[t].at = "take"
        /\ \A r \in Threads \ {t} : pc'[r] = pc[r]
    BY <1>1, <1>3 DEF SlotInv, TypeOK, Goto, GotoWith
  <2>. QED
    BY <1>1, <1>2, <2>1, NoSlotFrame
<1>4. ASSUME NEW s \in Slots, m_userInfo[s].sid # SDK_SESSIONID_INIT,
             Rests(m_userInfo[s].sid), GotoWith(t, "find", m_userInfo[s].sid, pc[t].sid)
      PROVE  SlotInv'
  <2>1. m_userInfo[s].sid \in Slots
    BY <1>4 DEF SlotInv, TypeOK, Infos, Sids
  <2>. QED
    BY <1>1, <1>2, <1>4, <2>1, TakeFrame
<1>. QED
  BY <1>3, <1>4 DEF RemoveUser

LEMMA GetSessoinIDKeeps ==
    ASSUME SlotInv, TypeOK', NEW t \in Threads, GetSessoinID(t), SlotRests
    PROVE  SlotInv'
<1>1. pc[t].slot = SDK_SESSIONID_INIT
  BY WorkFacts DEF SlotInv, GetSessoinID
<1>2. CASE Return(t) /\ UNCHANGED m_SessionIDFlagArray
  <2>1. pc'[t] = Idle /\ \A r \in Threads \ {t} : pc'[r] = pc[r]
    BY <1>2, Returns DEF SlotInv
  <2>2. pc'[t].slot = SDK_SESSIONID_INIT /\ pc'[t].at = "idle"
    BY <2>1 DEF Idle
  <2>3. \A r \in Slots : SlotStays(r)
    BY <1>2 DEF SlotStays, GetSessoinID, userVars, omuVars
  <2>. QED
    BY <1>1, <2>1, <2>2, <2>3, NoSlotFrame
<1>3. ASSUME NEW s \in Slots, s \in Free, Rests(s), GotoWith(t, "bind", s, pc[t].sid),
             m_SessionIDFlagArray' = m_SessionIDFlagArray \union {s}
      PROVE  SlotInv'
  <2>1. Unused(s) /\ Empty(s)
    BY <1>3 DEF Rests, SlotInv, Busy, Rest, Used, Free
  <2>2. s \in m_SessionIDFlagArray' /\ s \notin m_mapSession' /\ Empty(s)'
    BY <1>3, <2>1 DEF GetSessoinID, Unused, Empty, Bare, userVars, omuVars
  <2>3. \A r \in Slots \ {s} : SlotStays(r)
    BY <1>3 DEF SlotStays, GetSessoinID, userVars, omuVars
  <2>. QED
    BY <1>1, <1>3, <2>2, <2>3, TakeFrame
<1>. QED
  BY <1>2, <1>3 DEF GetSessoinID, First

LEMMA LogoutKeeps ==
    ASSUME SlotInv, TypeOK', NEW t \in Threads, NEW s \in Slots, Logout(t, s), SlotRests
    PROVE  SlotInv'
<1>1. pc[t] = Idle
  BY WorkFacts DEF SlotInv, Logout
<1>2. pc[t].slot = SDK_SESSIONID_INIT
  BY <1>1 DEF Idle
<1>3. \A r \in Slots : SlotStays(r)
  BY DEF SlotStays, Logout, slotVars, userVars, omuVars
<1>. QED
  BY <1>2, <1>3, TakeFrame DEF Logout

\* A thread that logs in to the OMU works for a session that keeps what it has.
LEMMA OmuStepKeeps ==
    ASSUME SlotInv, TypeOK', NEW s \in Slots, OmuStep(s)
    PROVE  SlotInv'
<1>1. omu[s] # NoThread
  BY DEF OmuStep, OmuStart, OmuLoop, OmuConnects, OmuLetsIn, OmuRefuses, NoThread
<1>2. Kept(s) /\ \A t \in Threads : pc[t].slot = s =>
          pc[t].at \in {"route", "find", "free", "stop", "join"}
  BY <1>1, OmuIsKept
<1>3. UNCHANGED <<pc, slotVars, userVars>>
  BY DEF OmuStep, OmuStart, OmuLoop, OmuConnects, OmuLetsIn, OmuRefuses
<1>4. /\ \A r \in Slots \ {s} : omu'[r] = omu[r] /\ m_LinkRouteMap'[r] = m_LinkRouteMap[r]
      /\ m_LinkRouteMap'[s].smu = m_LinkRouteMap[s].smu
      /\ m_LinkRouteMap'[s].omu \in {None, m_userInfo[s].name, m_LinkRouteMap[s].omu}
      /\ omu'[s].at \in {"login", "auth"} => omu'[s].sid = s
  <2>1. CASE OmuStart(s)
    BY <2>1 DEF SlotInv, TypeOK, ThreadOmu, OmuStart, OmuAt
  <2>2. CASE OmuLoop(s)
    BY <1>2, <2>2 DEF SlotInv, TypeOK, ThreadOmu, OmuLoop, OmuAt, Kept
  <2>3. CASE OmuConnects(s)
    <3>1. omu[s].sid = s
      BY <1>2, <2>3 DEF OmuConnects, Kept
    <3>2. \/ StoreLink(s, "omu", m_userInfo[s].name)
          \/ UNCHANGED m_LinkRouteMap
      BY <2>3, <3>1 DEF OmuConnects
    <3>3. \A r \in Slots \ {s} : omu'[r] = omu[r]
      BY <2>3 DEF SlotInv, TypeOK, OmuConnects, OmuAt
    <3>4. omu'[s].sid = s
      BY <2>3, <3>1 DEF SlotInv, TypeOK, ThreadOmu, OmuConnects, OmuAt
    <3>. QED
      BY <3>2, <3>3, <3>4, OmuStored, SlotIsId DEF SlotInv
  <2>4. CASE OmuLetsIn(s)
    BY <2>4 DEF SlotInv, TypeOK, ThreadOmu, OmuLetsIn, OmuAt
  <2>5. CASE OmuRefuses(s)
    <3>1. StoreLink(s, "omu", None)
      BY <1>2, <2>5 DEF OmuRefuses, Kept
    <3>2. (\A r \in Slots \ {s} : omu'[r] = omu[r]) /\ omu'[s].at = "loop"
      BY <2>5 DEF SlotInv, TypeOK, ThreadOmu, OmuRefuses, OmuAt
    <3>. QED
      BY <3>1, <3>2, OmuStored, SlotIsId DEF SlotInv
  <2>. QED
    BY <2>1, <2>2, <2>3, <2>4, <2>5 DEF OmuStep
<1>5. Kept(s)'
  BY <1>2, <1>3, <1>4 DEF Kept, userVars
<1>6. \A r \in Slots \ {s} : SlotStays(r)
  BY <1>3, <1>4 DEF SlotStays, slotVars, userVars
<1>7. Alone'
  BY <1>3 DEF SlotInv, Alone
<1>8. ASSUME NEW r \in Slots, ~Busy(r)' PROVE Rest(r)'
  <2>1. ~Busy(r)
    BY <1>3, <1>8 DEF Busy
  <2>2. Rest(r)
    BY <2>1 DEF SlotInv
  <2>3. CASE r = s
    <3>1. Used(s)
      BY <1>1, <2>2, <2>3 DEF Rest, Empty, Bare
    <3>. QED
      BY <1>3, <1>5, <2>3, <3>1 DEF Rest, Used, slotVars
  <2>4. CASE r # s
    BY <1>6, <2>2, <2>4, StayKeeps
  <2>. QED
    BY <2>3, <2>4
<1>9. ASSUME NEW t \in Threads PROVE Stage(t)'
  <2>1. Stage(t)
    BY DEF SlotInv
  <2>2. CASE pc[t].slot = s
    <3>1. Used(s) \/ Unused(s)
      BY <1>2, <2>1, <2>2 DEF Stage, StageAt, Rest
    <3>2. /\ pc[t].at \in {"route", "free"} => Used(s)
          /\ pc[t].at = "find" => Used(s)
          /\ pc[t].at \in {"stop", "join"} => Unused(s)
      BY <1>1, <2>1, <2>2 DEF Stage, StageAt, Rest, Empty, Bare
    <3>3. (Used(s) => Used(s)') /\ (Unused(s) => Unused(s)')
      BY <1>3 DEF Used, Unused, slotVars
    <3>4. pc'[t] = pc[t]
      BY <1>3
    <3>. QED
      BY <1>2, <1>5, <2>2, <3>2, <3>3, <3>4 DEF Stage, StageAt, Rest
  <2>3. CASE pc[t].slot \in Slots \ {s}
    BY <1>3, <1>6, <2>1, <2>3, StayKeeps DEF Stage
  <2>4. CASE pc[t].slot \notin Slots
    <3>1. pc[t].at \in {"idle", "remove", "take"}
      BY <2>4, SlotAtWork, NoSlotNoStage DEF SlotInv
    <3>. QED
      BY <1>3, <3>1 DEF Stage, StageAt
  <2>. QED
    BY <2>2, <2>3, <2>4
<1>. QED
  BY <1>7, <1>8, <1>9 DEF SlotInv

\* The invariant, for servers and clients that behave: a slot rests before it is
\* taken or logged out, and a login that has succeeded at the server succeeds.
THEOREM SlotInvCorrect ==
    ASSUME SlotRests, "late" \notin Failures
    PROVE  Spec => []SlotInv
<1>1. Init => SlotInv
  <2>. SUFFICES ASSUME Init, TypeOK PROVE SlotInv
    BY InitType
  <2>1. \A t \in Threads : pc[t].slot = SDK_SESSIONID_INIT /\ pc[t].at = "idle"
    BY DEF Init, Idle
  <2>2. \A s \in Slots : Rest(s)
    BY SlotIsId DEF Init, Rest, Unused, Empty, Bare, NoInfo
  <2>3. \A t \in Threads : Stage(t)
    BY <2>1 DEF Stage, StageAt
  <2>. QED
    BY <2>1, <2>2, <2>3 DEF SlotInv, Alone
<1>2. SlotInv /\ [Next]_vars => SlotInv'
  <2>. SUFFICES ASSUME SlotInv, [Next]_vars PROVE SlotInv'
    OBVIOUS
  <2>1. TypeOK'
    BY NextType DEF SlotInv
  <2>2. CASE UNCHANGED vars
    <3>1. \A s \in Slots : SlotStays(s)
      BY <2>2 DEF SlotStays, vars
    <3>2. \A s \in Slots : ~Busy(s)' => Rest(s)'
      BY <2>2, <3>1, StayKeeps DEF SlotInv, Busy, vars
    <3>3. Alone'
      BY <2>2 DEF SlotInv, Alone, vars
    <3>4. \A t \in Threads : Stage(t)'
      BY <2>2 DEF SlotInv, vars, Stage, StageAt, Rest, Used, Unused, Kept, Empty, Bare, Begun,
                  Ended
    <3>. QED
      BY <2>1, <3>2, <3>3, <3>4 DEF SlotInv
  <2>3. ASSUME NEW t \in Threads, LoginStep(t) PROVE SlotInv'
    BY <2>1, <2>3, RemoveUserKeeps, GetSessoinIDKeeps, AddToMapKeeps, CreateSmuLinkKeeps,
       SmuAnswersKeeps, GetUserInfoKeeps, InitUserInfoKeeps, CreateOmuThreadKeeps,
       GetDomainRouteKeeps, LoginFailsKeeps, LoginFailedKeeps DEF LoginStep
  <2>4. ASSUME NEW t \in Threads, LogoutStep(t) PROVE SlotInv'
    BY <2>1, <2>4, GetUserMgrKeeps, FreeSessoinIDKeeps, StopOmuThreadKeeps, JoinOmuThreadKeeps,
       ClearUserInfoKeeps, DeleteLinksKeeps, ResetSessionIDKeeps DEF LogoutStep
  <2>. QED
    BY <2>1, <2>2, <2>3, <2>4, LoginKeeps, LogoutKeeps, OmuStepKeeps DEF Next
<1>. QED
  BY <1>1, <1>2, PTL DEF Spec

\* A free slot that nobody works on keeps nothing of its last user.
THEOREM FreeIsEmptyCorrect ==
    ASSUME SlotRests, "late" \notin Failures
    PROVE  Spec => []FreeIsEmpty
<1>1. SlotInv => FreeIsEmpty
  BY DEF SlotInv, FreeIsEmpty, Free, Rest, Used, Empty, Bare
<1>. QED
  BY <1>1, SlotInvCorrect, PTL

\* A session that nobody works on has its id, its info and its links.
THEOREM SessionIsWholeCorrect ==
    ASSUME SlotRests, "late" \notin Failures
    PROVE  Spec => []SessionIsWhole
<1>1. SlotInv => SessionIsWhole
  BY SlotAssumption DEF SlotInv, SessionIsWhole, TypeOK, Rest, Used, Unused, Kept
<1>. QED
  BY <1>1, SlotInvCorrect, PTL

-----------------------------------------------------------------------------
(* A user who logs in by password only has one session                       *)

PasswordOnly(u) == \A l \in Logins : l[2] = u => l[1] = "pwd"

\* The sessions of a user.
Named(u) == {s \in m_mapSession : m_userInfo[s].name = u}

\* A thread in a login runs one of the client's logins, and m_pMutexLoginLock lets one
\* password login in at a time.
LoginsRun ==
    /\ \A t \in Threads : pc[t].kind # "none" => <<pc[t].kind, pc[t].user>> \in Logins
    /\ \A t, r \in Threads : pc[t].kind = "pwd" /\ pc[r].kind = "pwd" => t = r

\* A password login that has looked for the user knows of at most one session of the
\* user: the one it is about to log out or has just made; at all other places of none.
KnowsOne(u, t) ==
    pc[t].kind = "pwd" /\ pc[t].user = u =>
        /\ pc[t].at \in {"find", "free", "omu", "route"} => Named(u) \subseteq {pc[t].slot}
        /\ pc[t].at \notin {"remove", "find", "free", "omu", "route"} => Named(u) = {}

OnceInv ==
    /\ LoginsRun
    /\ \A u \in Accounts : PasswordOnly(u) =>
          /\ \A s, r \in Named(u) : s = r
          /\ \A t \in Threads : KnowsOne(u, t)

\* A session in the map with a user's name is whole, whoever works on it.
LEMMA NamedIsKept ==
    ASSUME SlotInv, NEW u \in Accounts, NEW s \in Named(u)
    PROVE  s \in Slots /\ Kept(s)
<1>. USE SlotIsId
<1>0. s \in Slots /\ s \in m_mapSession /\ m_userInfo[s].name = u /\ u # None
  BY SlotAssumption DEF SlotInv, TypeOK, Named
<1>1. CASE ~Busy(s)
  BY <1>0, <1>1 DEF SlotInv, Rest, Empty, Bare
<1>2. ASSUME NEW t \in Threads, pc[t].slot = s PROVE Kept(s)
  <2>1. pc[t].at \in LoginPlaces \union LogoutPlaces
    BY <1>0, <1>2, SlotAtWork DEF SlotInv
  <2>2. Stage(t)
    BY DEF SlotInv
  <2>. QED
    BY <1>0, <1>2, <2>1, <2>2 DEF LoginPlaces, LogoutPlaces, Stage, StageAt, Rest, Empty,
                                  Begun, Ended, Bare
<1>. QED
  BY <1>0, <1>1, <1>2 DEF Busy

LEMMA Going ==
    ASSUME TypeOK, NEW t \in Threads, NEW at, NEW s, NEW i, GotoWith(t, at, s, i)
    PROVE  /\ pc'[t].at = at /\ pc'[t].slot = s
           /\ pc'[t].kind = pc[t].kind /\ pc'[t].user = pc[t].user
           /\ \A r \in Threads \ {t} : pc'[r] = pc[r]
BY DEF TypeOK, GotoWith

LEMMA Returning ==
    ASSUME TypeOK, NEW t \in Threads, Return(t)
    PROVE  pc'[t].kind = "none" /\ \A r \in Threads \ {t} : pc'[r] = pc[r]
BY Returns DEF Idle

\* A step of a thread that gives nobody a session: the others know what they knew.
LEMMA NoneAdded ==
    ASSUME OnceInv, NEW t \in Threads,
           \A r \in Threads \ {t} : pc'[r] = pc[r],
           pc'[t].kind = "none" \/ (pc'[t].kind = pc[t].kind /\ pc'[t].user = pc[t].user),
           \A u \in Accounts : Named(u)' \subseteq Named(u),
           \A u \in Accounts : PasswordOnly(u) => KnowsOne(u, t)'
    PROVE  OnceInv'
<1>1. LoginsRun'
  BY DEF OnceInv, LoginsRun
<1>2. ASSUME NEW u \in Accounts, PasswordOnly(u), NEW r \in Threads PROVE KnowsOne(u, r)'
  <2>1. KnowsOne(u, r) /\ Named(u)' \subseteq Named(u)
    BY <1>2 DEF OnceInv
  <2>2. CASE r = t
    BY <1>2, <2>2
  <2>3. CASE r # t
    BY <2>1, <2>3 DEF KnowsOne
  <2>. QED
    BY <2>2, <2>3
<1>3. \A u \in Accounts : PasswordOnly(u) => \A s, r \in Named(u)' : s = r
  BY DEF OnceInv
<1>. QED
  BY <1>1, <1>2, <1>3 DEF OnceInv, PasswordOnly

\* The steps between two places of the same kind, where the thread knows what it knew.
LEMMA SamePlaces ==
    ASSUME SlotInv, OnceInv, NEW t \in Threads,
           \A r \in Threads \ {t} : pc'[r] = pc[r],
           \/ pc'[t].kind = "none"
           \/ /\ pc'[t].kind = pc[t].kind /\ pc'[t].user = pc[t].user
              /\ \/ /\ pc[t].at \notin {"remove", "find", "free", "omu", "route"}
                    /\ pc'[t].at \notin {"remove", "find", "free", "omu", "route"}
                 \/ /\ {pc[t].at, pc'[t].at} \subseteq {"find", "free", "omu", "route"}
                    /\ pc'[t].slot = pc[t].slot,
           \A u \in Accounts : Named(u)' \subseteq Named(u)
    PROVE  OnceInv'
<1>1. ASSUME NEW u \in Accounts, PasswordOnly(u) PROVE KnowsOne(u, t)'
  <2>1. KnowsOne(u, t) /\ Named(u)' \subseteq Named(u)
    BY <1>1 DEF OnceInv
  <2>. QED
    BY <2>1 DEF KnowsOne
<1>. QED
  BY <1>1, NoneAdded

LEMMA LoginOnce ==
    ASSUME SlotInv, OnceInv, NEW t \in Threads, LoginStep(t), "late" \notin Failures
    PROVE  OnceInv'
<1>. USE DEF SlotInv
<1>n. /\ \A u \in Accounts : u # None
      /\ SDK_SESSIONID_INIT \notin Slots
  BY SlotAssumption, SlotIsId
\* A step that leaves map and names.
<1>s. UNCHANGED <<m_mapSession, m_userInfo>> => \A u : Named(u)' = Named(u)
  BY DEF Named
<1>1. CASE RemoveUser(t)
  <2>1. UNCHANGED <<m_mapSession, m_userInfo>> /\ pc[t].at = "remove"
    BY <1>1 DEF RemoveUser, slotVars, userVars
  <2>2. Same("pwd", pc[t].user) = Named(pc[t].user)
    BY DEF Same, SameUser, Named
  <2>3. ASSUME NEW u \in Accounts, PasswordOnly(u), pc[t].kind = "pwd", pc[t].user = u,
               Goto(t, "take"), NEW s \in Slots, First(s, Same(pc[t].kind, pc[t].user)),
               m_userInfo[s].sid = SDK_SESSIONID_INIT
        PROVE  FALSE
    <3>1. s \in Named(u)
      BY <2>2, <2>3 DEF First
    <3>. QED
      BY <1>n, <2>3, <3>1, NamedIsKept DEF Kept
  <2>4. CASE Goto(t, "take")
    <3>1. /\ pc'[t].at = "take" /\ pc'[t].kind = pc[t].kind /\ pc'[t].user = pc[t].user
          /\ \A r \in Threads \ {t} : pc'[r] = pc[r]
      BY <2>4, Going DEF Goto
    <3>2. ASSUME NEW u \in Accounts, PasswordOnly(u) PROVE KnowsOne(u, t)'
      <4>. SUFFICES ASSUME pc[t].kind = "pwd", pc[t].user = u PROVE Named(u) = {}
        BY <1>s, <2>1, <3>1 DEF KnowsOne
      <4>1. pc'[t].at # "find"
        BY <3>1
      <4>2. ~\E s \in Slots : GotoWith(t, "find", m_userInfo[s].sid, pc[t].sid)
        BY <4>1, Going
      <4>. QED
        BY <1>1, <2>2, <2>3, <2>4, <3>2, <4>2 DEF RemoveUser
    <3>. QED
      BY <1>s, <2>1, <3>1, <3>2, NoneAdded
  <2>5. ASSUME NEW s \in Slots, First(s, Same(pc[t].kind, pc[t].user)),
               GotoWith(t, "find", m_userInfo[s].sid, pc[t].sid)
        PROVE  OnceInv'
    <3>1. /\ pc'[t].at = "find" /\ pc'[t].kind = pc[t].kind /\ pc'[t].user = pc[t].user
          /\ pc'[t].slot = m_userInfo[s].sid
          /\ \A r \in Threads \ {t} : pc'[r] = pc[r]
      BY <2>5, Going
    <3>2. ASSUME NEW u \in Accounts, PasswordOnly(u), pc[t].kind = "pwd", pc[t].user = u
          PROVE  Named(u) \subseteq {m_userInfo[s].sid}
      <4>1. s \in Named(u)
        BY <2>2, <2>5, <3>2 DEF First
      <4>2. m_userInfo[s].sid = s
        BY <4>1, NamedIsKept DEF Kept
      <4>. QED
        BY <3>2, <4>1, <4>2 DEF OnceInv
    <3>3. \A u \in Accounts : PasswordOnly(u) => KnowsOne(u, t)'
      BY <1>s, <2>1, <3>1, <3>2 DEF KnowsOne
    <3>. QED
      BY <1>s, <2>1, <3>1, <3>3, NoneAdded
  <2>. QED
    BY <1>1, <2>4, <2>5 DEF RemoveUser
<1>2. CASE GetSessoinID(t)
  <2>1. UNCHANGED <<m_mapSession, m_userInfo>> /\ pc[t].at = "take"
    BY <1>2 DEF GetSessoinID, userVars
  <2>2. CASE Return(t)
    BY <1>s, <2>1, <2>2, Returning, SamePlaces
  <2>3. ASSUME NEW s \in Slots, GotoWith(t, "bind", s, pc[t].sid) PROVE OnceInv'
    BY <1>s, <2>1, <2>3, Going, SamePlaces
  <2>. QED
    BY <1>2, <2>2, <2>3 DEF GetSessoinID
<1>3. CASE AddToMap(t)
  <2>1. /\ m_mapSession' = m_mapSession \union {pc[t].slot} /\ m_userInfo' = m_userInfo
        /\ pc[t].at = "bind" /\ Goto(t, "connect")
    BY <1>3 DEF AddToMap
  <2>2. Empty(pc[t].slot)
    BY <2>1 DEF Stage, StageAt
  <2>3. \A u \in Accounts : Named(u)' \subseteq Named(u)
    BY <1>n, <2>1, <2>2 DEF Named, Empty, Bare
  <2>. QED
    BY <2>1, <2>3, Going, SamePlaces DEF Goto
<1>4. CASE CreateSmuLink(t)
  <2>1. /\ UNCHANGED <<m_mapSession, m_userInfo>> /\ pc[t].at = "connect"
        /\ \E at \in {"answer", "fail"} : \E i : GotoWith(t, at, pc[t].slot, i)
    BY <1>4 DEF CreateSmuLink, slotVars, userVars, Goto
  <2>. QED
    BY <1>s, <2>1, Going, SamePlaces
<1>5. CASE SmuAnswers(t)
  <2>1. /\ UNCHANGED <<m_mapSession, m_userInfo>> /\ pc[t].at = "answer"
        /\ \E at \in {"user", "info", "fail"} : GotoWith(t, at, pc[t].slot, pc[t].sid)
    BY <1>5 DEF SmuAnswers, slotVars, userVars, Goto
  <2>. QED
    BY <1>s, <2>1, Going, SamePlaces
<1>6. CASE GetUserInfo(t)
  <2>1. /\ UNCHANGED <<m_mapSession, m_userInfo>> /\ pc[t].at = "user"
        /\ \E at \in {"info", "fail"} : GotoWith(t, at, pc[t].slot, pc[t].sid)
    BY <1>6 DEF GetUserInfo, slotVars, userVars, Goto
  <2>. QED
    BY <1>s, <2>1, Going, SamePlaces
<1>7. CASE InitUserInfo(t)
  <2>1. /\ m_mapSession' = m_mapSession /\ pc[t].at = "info" /\ Goto(t, "omu")
        /\ pc[t].slot \in Slots /\ pc[t].kind \in LoginKinds
    BY <1>7, WorkFacts DEF InitUserInfo, slotVars, LoginPlaces
  <2>2. /\ m_userInfo'[pc[t].slot].name = pc[t].user
        /\ \A s \in Slots : s # pc[t].slot => m_userInfo'[s] = m_userInfo[s]
    BY <1>7, <2>1 DEF InitUserInfo, TypeOK
  <2>3. /\ pc'[t].at = "omu" /\ pc'[t].slot = pc[t].slot
        /\ pc'[t].kind = pc[t].kind /\ pc'[t].user = pc[t].user
        /\ \A r \in Threads \ {t} : pc'[r] = pc[r]
    BY <2>1, Going DEF Goto
  <2>4. m_mapSession \subseteq Slots
    BY DEF TypeOK
  <2>5. \A u \in Accounts : u # pc[t].user => Named(u)' \subseteq Named(u)
    BY <2>1, <2>2, <2>4 DEF Named
  <2>6. ASSUME NEW u \in Accounts, PasswordOnly(u), u = pc[t].user
        PROVE  /\ pc[t].kind = "pwd" /\ Named(u) = {}
               /\ \A s \in Named(u)' : s = pc[t].slot
    <3>1. <<pc[t].kind, pc[t].user>> \in Logins
      BY <2>1 DEF OnceInv, LoginsRun, LoginKinds
    <3>2. pc[t].kind = "pwd"
      BY <2>6, <3>1 DEF PasswordOnly
    <3>3. Named(u) = {}
      BY <2>1, <2>6, <3>2 DEF OnceInv, KnowsOne
    <3>4. \A s \in Named(u)' : s # pc[t].slot => s \in Named(u)
      BY <2>1, <2>2, <2>4 DEF Named
    <3>. QED
      BY <3>2, <3>3, <3>4
  <2>7. LoginsRun'
    BY <2>3 DEF OnceInv, LoginsRun
  <2>8. ASSUME NEW u \in Accounts, PasswordOnly(u)
        PROVE  (\A s, r \in Named(u)' : s = r) /\ \A r \in Threads : KnowsOne(u, r)'
    <3>1. CASE u # pc[t].user
      <4>1. Named(u)' \subseteq Named(u) /\ \A s, r \in Named(u) : s = r
        BY <2>5, <2>8, <3>1 DEF OnceInv
      <4>2. ASSUME NEW r \in Threads PROVE KnowsOne(u, r)'
        <5>1. KnowsOne(u, r)
          BY <2>8 DEF OnceInv
        <5>2. CASE r = t
          BY <2>3, <3>1, <5>2 DEF KnowsOne
        <5>3. CASE r # t
          BY <2>3, <4>1, <5>1, <5>3 DEF KnowsOne
        <5>. QED
          BY <5>2, <5>3
      <4>. QED
        BY <4>1, <4>2
    <3>2. CASE u = pc[t].user
      <4>1. (\A s \in Named(u)' : s = pc[t].slot) /\ pc[t].kind = "pwd"
        BY <2>6, <2>8, <3>2
      <4>2. ASSUME NEW r \in Threads PROVE KnowsOne(u, r)'
        <5>1. CASE r = t
          BY <2>3, <4>1, <5>1 DEF KnowsOne
        <5>2. CASE r # t
          <6>1. pc'[r].kind # "pwd"
            BY <2>3, <4>1, <5>2 DEF OnceInv, LoginsRun
          <6>. QED
            BY <6>1 DEF KnowsOne
        <5>. QED
          BY <5>1, <5>2
      <4>. QED
        BY <4>1, <4>2
    <3>. QED
      BY <3>1, <3>2
  <2>. QED
    BY <2>7, <2>8 DEF OnceInv, PasswordOnly
<1>8. CASE CreateOmuThread(t)
  <2>1. /\ UNCHANGED <<m_mapSession, m_userInfo>> /\ pc[t].at = "omu"
        /\ GotoWith(t, "route", pc[t].slot, pc[t].sid)
    BY <1>8 DEF CreateOmuThread, slotVars, userVars, Goto
  <2>. QED
    BY <1>s, <2>1, Going, SamePlaces
<1>9. CASE GetDomainRoute(t)
  <2>1. UNCHANGED <<m_mapSession, m_userInfo>> /\ Return(t)
    BY <1>9 DEF GetDomainRoute, slotVars, userVars
  <2>. QED
    BY <1>s, <2>1, Returning, SamePlaces
<1>10. CASE LoginFails(t)
  <2>1. /\ m_mapSession' \subseteq m_mapSession /\ m_userInfo' = m_userInfo
        /\ pc[t].at = "fail" /\ Goto(t, "unbind")
    BY <1>10 DEF LoginFails, FreeSlot, userVars
  <2>2. \A u \in Accounts : Named(u)' \subseteq Named(u)
    BY <2>1 DEF Named
  <2>. QED
    BY <2>1, <2>2, Going, SamePlaces DEF Goto
<1>11. CASE LoginFailed(t)
  <2>1. UNCHANGED <<m_mapSession, m_userInfo>> /\ Return(t)
    BY <1>11 DEF LoginFailed, slotVars
  <2>. QED
    BY <1>s, <2>1, Returning, SamePlaces
<1>. QED
  BY <1>1, <1>2, <1>3, <1>4, <1>5, <1>6, <1>7, <1>8, <1>9, <1>10, <1>11 DEF LoginStep

LEMMA LogoutOnce ==
    ASSUME SlotInv, OnceInv, NEW t \in Threads, LogoutStep(t)
    PROVE  OnceInv'
<1>. USE DEF SlotInv
<1>s. UNCHANGED <<m_mapSession, m_userInfo>> => \A u : Named(u)' = Named(u)
  BY DEF Named
\* A logout that returns leaves the login that asked for it where no session of the
\* user is left.
<1>r. ASSUME LogoutReturns(t), \A u \in Accounts : Named(u)' \subseteq Named(u),
             \/ pc[t].at \notin {"remove", "find", "free", "omu", "route"}
             \/ pc[t].at = "find" /\ pc[t].slot \notin m_mapSession
      PROVE  OnceInv'
  <2>1. CASE Return(t)
    BY <1>r, <2>1, Returning, SamePlaces
  <2>2. CASE GotoWith(t, "take", SDK_SESSIONID_INIT, pc[t].sid)
    <3>1. /\ pc'[t].at = "take" /\ pc'[t].kind = pc[t].kind /\ pc'[t].user = pc[t].user
          /\ \A r \in Threads \ {t} : pc'[r] = pc[r]
      BY <2>2, Going
    <3>2. ASSUME NEW u \in Accounts, PasswordOnly(u) PROVE KnowsOne(u, t)'
      <4>1. KnowsOne(u, t) /\ Named(u)' \subseteq Named(u) /\ Named(u) \subseteq m_mapSession
        BY <1>r, <3>2 DEF OnceInv, Named
      <4>. QED
        BY <1>r, <3>1, <4>1 DEF KnowsOne
    <3>. QED
      BY <1>r, <3>1, <3>2, NoneAdded
  <2>. QED
    BY <1>r, <2>1, <2>2 DEF LogoutReturns
<1>1. CASE GetUserMgr(t)
  <2>1. UNCHANGED <<m_mapSession, m_userInfo>> /\ pc[t].at = "find"
    BY <1>1 DEF GetUserMgr, slotVars, userVars
  <2>2. CASE Goto(t, "free")
    BY <1>s, <2>1, <2>2, Going, SamePlaces DEF Goto
  <2>3. CASE pc[t].slot \notin m_mapSession /\ LogoutReturns(t)
    BY <1>s, <1>r, <2>1, <2>3
  <2>. QED
    BY <1>1, <2>2, <2>3 DEF GetUserMgr
<1>2. CASE FreeSessoinID(t)
  <2>1. /\ m_mapSession' = m_mapSession \ {pc[t].slot} /\ m_userInfo' = m_userInfo
        /\ pc[t].at = "free" /\ Goto(t, "stop")
    BY <1>2 DEF FreeSessoinID, FreeSlot, userVars
  <2>2. \A u : Named(u)' = Named(u) \ {pc[t].slot}
    BY <2>1 DEF Named
  <2>3. /\ pc'[t].at = "stop" /\ pc'[t].kind = pc[t].kind /\ pc'[t].user = pc[t].user
        /\ \A r \in Threads \ {t} : pc'[r] = pc[r]
    BY <2>1, Going DEF Goto
  <2>4. ASSUME NEW u \in Accounts, PasswordOnly(u) PROVE KnowsOne(u, t)'
    <3>1. KnowsOne(u, t)
      BY <2>4 DEF OnceInv
    <3>. QED
      BY <2>1, <2>2, <2>3, <3>1 DEF KnowsOne
  <2>. QED
    BY <2>2, <2>3, <2>4, NoneAdded
<1>3. CASE StopOmuThread(t)
  <2>1. /\ UNCHANGED <<m_mapSession, m_userInfo>> /\ pc[t].at = "stop"
        /\ \E at \in {"clear", "join"} : GotoWith(t, at, pc[t].slot, pc[t].sid)
    BY <1>3 DEF StopOmuThread, slotVars, userVars, Goto
  <2>. QED
    BY <1>s, <2>1, Going, SamePlaces
<1>4. CASE JoinOmuThread(t)
  <2>1. /\ UNCHANGED <<m_mapSession, m_userInfo>> /\ pc[t].at = "join"
        /\ GotoWith(t, "clear", pc[t].slot, pc[t].sid)
    BY <1>4 DEF JoinOmuThread, slotVars, userVars, Goto
  <2>. QED
    BY <1>s, <2>1, Going, SamePlaces
<1>5. CASE ClearUserInfo(t)
  <2>1. /\ m_mapSession' = m_mapSession /\ m_mapSession \subseteq Slots /\ pc[t].at = "clear"
        /\ GotoWith(t, "links", pc[t].slot, pc[t].sid)
    BY <1>5 DEF ClearUserInfo, slotVars, Goto, TypeOK
  <2>2. \A s \in Slots : m_userInfo'[s].name \in {m_userInfo[s].name, None}
    BY <1>5 DEF ClearUserInfo, TypeOK, Infos
  <2>3. \A u \in Accounts : Named(u)' \subseteq Named(u)
    BY <2>1, <2>2, SlotAssumption DEF Named
  <2>. QED
    BY <2>1, <2>3, Going, SamePlaces
<1>6. CASE DeleteLinks(t)
  <2>1. /\ UNCHANGED <<m_mapSession, m_userInfo>> /\ pc[t].at = "links"
        /\ GotoWith(t, "reset", pc[t].slot, pc[t].sid)
    BY <1>6 DEF DeleteLinks, slotVars, userVars, Goto
  <2>. QED
    BY <1>s, <2>1, Going, SamePlaces
<1>7. CASE ResetSessionID(t)
  <2>1. UNCHANGED <<m_mapSession, m_userInfo>> /\ pc[t].at = "reset" /\ LogoutReturns(t)
    BY <1>7 DEF ResetSessionID, slotVars
  <2>. QED
    BY <1>s, <1>r, <2>1
<1>. QED
  BY <1>1, <1>2, <1>3, <1>4, <1>5, <1>6, <1>7 DEF LogoutStep

LEMMA NextOnce ==
    ASSUME SlotInv, OnceInv, [Next]_vars, "late" \notin Failures
    PROVE  OnceInv'
<1>. USE DEF SlotInv
<1>s. UNCHANGED <<m_mapSession, m_userInfo>> => \A u : Named(u)' = Named(u)
  BY DEF Named
<1>1. ASSUME NEW t \in Threads, NEW l \in Logins, Login(t, l[1], l[2]) PROVE OnceInv'
  <2>1. /\ pc'[t].at = "remove" /\ pc'[t].kind = l[1] /\ pc'[t].user = l[2]
        /\ \A r \in Threads \ {t} : pc'[r] = pc[r]
        /\ UNCHANGED <<m_mapSession, m_userInfo>>
    BY <1>1 DEF Login, TypeOK, slotVars, userVars
  <2>2. l = <<l[1], l[2]>>
    BY SlotAssumption
  <2>3. l[1] = "pwd" => \A r \in Threads : pc[r].kind # "pwd"
    BY <1>1 DEF Login, LoginLockFree
  <2>4. LoginsRun'
    <3>1. ASSUME NEW r \in Threads, pc'[r].kind # "none"
          PROVE  <<pc'[r].kind, pc'[r].user>> \in Logins
      BY <2>1, <2>2, <3>1 DEF OnceInv, LoginsRun
    <3>2. \A r, q \in Threads : pc'[r].kind = "pwd" /\ pc'[q].kind = "pwd" => r = q
      BY <2>1, <2>3 DEF OnceInv, LoginsRun
    <3>. QED
      BY <3>1, <3>2 DEF LoginsRun
  <2>5. ASSUME NEW u \in Accounts, PasswordOnly(u), NEW r \in Threads PROVE KnowsOne(u, r)'
    <3>1. KnowsOne(u, r) /\ Named(u)' = Named(u)
      BY <1>s, <2>1, <2>5 DEF OnceInv
    <3>2. CASE r = t
      BY <2>1, <3>2 DEF KnowsOne
    <3>3. CASE r # t
      BY <2>1, <3>1, <3>3 DEF KnowsOne
    <3>. QED
      BY <3>2, <3>3
  <2>. QED
    BY <1>s, <2>1, <2>4, <2>5 DEF OnceInv, PasswordOnly
<1>2. ASSUME NEW t \in Threads, NEW s \in Slots, Logout(t, s) PROVE OnceInv'
  <2>1. pc[t] = Idle /\ UNCHANGED <<m_mapSession, m_userInfo>>
    BY <1>2, WorkFacts DEF Logout, slotVars, userVars
  <2>2. pc'[t].kind = "none" /\ \A r \in Threads \ {t} : pc'[r] = pc[r]
    BY <1>2, <2>1, Going DEF Logout, Idle
  <2>. QED
    BY <1>s, <2>1, <2>2, SamePlaces
<1>3. CASE UNCHANGED vars \/ \E s \in Slots : OmuStep(s)
  <2>1. UNCHANGED <<m_mapSession, m_userInfo, pc>>
    BY <1>3 DEF vars, OmuStep, OmuStart, OmuLoop, OmuConnects, OmuLetsIn, OmuRefuses,
                slotVars, userVars
  <2>. QED
    BY <2>1 DEF OnceInv, LoginsRun, PasswordOnly, KnowsOne, Named
<1>. QED
  BY <1>1, <1>2, <1>3, LoginOnce, LogoutOnce DEF Next

\* A user who always logs in by password is logged in once, however many threads log the
\* user in and out, on any number of slots (SDKInterface.cpp, Login and RemoveUser); when
\* slots rest and no login fails late.
THEOREM PasswordUserOnceCorrect ==
    ASSUME SlotRests, "late" \notin Failures
    PROVE  Spec => []PasswordUserOnce
<1>1. Init => OnceInv
  BY DEF Init, Idle, OnceInv, LoginsRun, KnowsOne, Named
<1>2. SlotInv /\ OnceInv /\ [Next]_vars => OnceInv'
  BY NextOnce
<1>3. SlotInv /\ OnceInv => PasswordUserOnce
  BY DEF OnceInv, PasswordUserOnce, PasswordOnly, Named
<1>. QED
  BY <1>1, <1>2, <1>3, SlotInvCorrect, PTL DEF Spec

=============================================================================
