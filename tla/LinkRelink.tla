----------------------------- MODULE LinkRelink -----------------------------
(***************************************************************************)
(* The signalling links of one logged-in user: the route table of          *)
(* CLinkRouteMgr, the notices of closed links (CSDKMainctrl), the relink    *)
(* list and its timer thread (CReLink, CLoginMgr::ReLoginSMU), the calls    *)
(* that log in to another domain on demand (CUserMgr::SendCmd), and the     *)
(* logout that tears all of it down.                                        *)
(*                                                                         *)
(* The table and the list have a mutex each, held for one look-up or one    *)
(* update: a login to a server, which looks, connects, asks and stores, is   *)
(* cut at every one of them, and so is the handling of a closed link.       *)
(***************************************************************************)
EXTENDS Naturals, FiniteSets

CONSTANTS
    Local,   \* the SMU the user logged in to
    Omu,     \* the OMU beside it
    Remote,  \* the SMUs of the other domains
    Callers, \* the application's threads
    Fragile, \* bound: servers whose links may go down
    Slots,   \* bound: links the network library has to one server at a time
    SSO,     \* the user logged in by ticket (SSO_LOGIN)
    HasOmu   \* the client is of a kind that logs in to the OMU

ASSUME PeersAssumption ==
    /\ Local \notin Remote /\ Omu \notin Remote /\ Local # Omu
    /\ Fragile \subseteq {Local, Omu} \cup Remote
    /\ Slots \in Nat \ {0} /\ SSO \in BOOLEAN /\ HasOmu \in BOOLEAN

VARIABLES
    table,        \* m_LinkRouteMap: the link and the status of each server
    alive,        \* the links the network library has open
    notices,      \* closed links whose OnLinkClosed is still to come
    m_listRelink, \* servers to reconnect to (the list refuses a duplicate)
    m_bRelink,    \* the relink timer is wanted
    pass,         \* CReLink::onTrigger in the timer's thread
    cb,           \* OnLinkClosed in the network library's thread
    call,         \* each application thread's SendCmd
    session,      \* how far logout has come
    told,         \* the last event the client got about its own server
    stray,        \* links stored under no session
    givenUp       \* history: servers whose reconnection was abandoned

vars == <<table, alive, notices, m_listRelink, m_bRelink, pass, cb, call,
          session, told, stray, givenUp>>

Peers == {Local, Omu} \cup Remote
Links == Peers \X (1..Slots)
NoLink == <<>>
Answers == {"ok", "first", "pwderr", "pwdmod", "restarted", "fail"}
Statuses == {"none", "enabled", "opened", "closed"}

NoEntry == [status |-> "none", link |-> NoLink]
Opened(l) == [status |-> "opened", link |-> l]
Closed == [status |-> "closed", link |-> NoLink]
IdlePass == [at |-> "idle", src |-> {}, fail |-> {}, item |-> Local,
             link |-> NoLink, ret |-> "fail"]
IdleCb == [at |-> "idle", link |-> NoLink]
IdleCall == [at |-> "idle", peer |-> Local, link |-> NoLink, ret |-> "fail"]

-----------------------------------------------------------------------------
(* Helpers *)

\* Links to p that the library may create: no id in use anywhere is taken again.
Unused(p) ==
    {l \in Links : /\ l[1] = p
                   /\ l \notin alive \cup notices \cup stray
                   /\ \A q \in Peers : table[q].link # l
                   /\ \A c \in Callers : call[c].link # l
                   /\ pass.link # l /\ cb.link # l}

\* DeleteClientLinkByAddr: the library drops whatever it has to that address.
WithoutAddr(p) == {l \in alive : l[1] # p}

\* FindSessionIDByLinkID finds the session, as long as its list is there.
Routed(l) == \E p \in Peers : table[p].link = l

\* The domain route cache is cleared when the timers have been stopped.
HasRoutes == session \in {"in", "freed", "stopping"}

\* UpdateLinkInfo(m_iSessionID, ...) for server p; after logout the id is -1.
Store(p, entry) ==
    IF session = "out"
    THEN /\ stray' = stray \cup ({entry.link} \ {NoLink})
         /\ UNCHANGED table
    ELSE /\ table' = [table EXCEPT ![p] = entry]
         /\ UNCHANGED stray

LoggedIn == {Local} \cup (IF HasOmu THEN {Omu} ELSE {})

Init ==
    /\ \E down \in SUBSET Remote :
          /\ table = [p \in Peers |->
                        IF p \in LoggedIn THEN Opened(<<p, 1>>)
                        ELSE IF p = Omu THEN NoEntry
                        ELSE IF p \in down THEN Closed
                        ELSE [status |-> "enabled", link |-> NoLink]]
          /\ m_listRelink = down
    /\ alive = LoggedIn \X {1} /\ notices = {}
    /\ m_bRelink = TRUE /\ pass = IdlePass /\ cb = IdleCb
    /\ call = [c \in Callers |-> IdleCall]
    /\ session = "in" /\ told = "up"
    /\ stray = {} /\ givenUp = {}

-----------------------------------------------------------------------------
(* The network: a server, or the way to it, goes down.                     *)

PeerCloses(l) ==
    /\ l \in alive /\ l[1] \in Fragile
    /\ alive' = alive \ {l} /\ notices' = notices \cup {l}
    /\ UNCHANGED <<table, m_listRelink, m_bRelink, pass, cb, call, session,
                   told, stray, givenUp>>

-----------------------------------------------------------------------------
(* CSDKMainctrl::OnLinkClosed, in the library's thread.                    *)

\* SetLinkIDStatus(strLinkID, LINKID_STATUS_CLOSED).
OnLinkClosed(l) ==
    /\ cb.at = "idle" /\ l \in notices
    /\ notices' = notices \ {l}
    /\ table' = [p \in Peers |-> IF table[p].link = l
                                 THEN [table[p] EXCEPT !.status = "closed"] ELSE table[p]]
    /\ cb' = [at |-> "marked", link |-> l]
    /\ UNCHANGED <<alive, m_listRelink, m_bRelink, pass, call, session, told,
                   stray, givenUp>>

\* FindSessionIDByLinkID, then GetUserMgr: a link that is in no table is forgotten.
FindSession ==
    /\ cb.at = "marked"
    /\ cb' = IF Routed(cb.link) /\ session = "in" THEN [cb EXCEPT !.at = "found"] ELSE IdleCb
    /\ UNCHANGED <<table, alive, notices, m_listRelink, m_bRelink, pass, call,
                   session, told, stray, givenUp>>

\* AddLinkIdToBusinessResumeList: drop the link, tell the client if it is its own server.
NotifyDown ==
    /\ cb.at = "found"
    /\ alive' = alive \ {cb.link}
    /\ told' = IF cb.link[1] = Local /\ session = "in" THEN "down" ELSE told
    /\ cb' = [cb EXCEPT !.at = "notified"]
    /\ UNCHANGED <<table, notices, m_listRelink, m_bRelink, pass, call, session,
                   stray, givenUp>>

\* CReLink::AddLinkIdToBusinessList.
Requeue ==
    /\ cb.at = "notified"
    /\ m_listRelink' = m_listRelink \cup {cb.link[1]}
    /\ givenUp' = givenUp \ {cb.link[1]}
    /\ cb' = IdleCb
    /\ UNCHANGED <<table, alive, notices, m_bRelink, pass, call, session, told, stray>>

-----------------------------------------------------------------------------
(* CReLink::onTrigger, every ten seconds in the relink timer's thread.     *)

\* The pass is done with its item.
ItemDone == [IdlePass EXCEPT !.at = "loop", !.src = pass.src, !.fail = pass.fail]

\* The list is taken and cleared under its mutex.
TakeList ==
    /\ pass.at = "idle" /\ session \in {"in", "freed", "stopping"}
    /\ pass' = [IdlePass EXCEPT !.at = "loop", !.src = m_listRelink]
    /\ m_listRelink' = {}
    /\ UNCHANGED <<table, alive, notices, m_bRelink, cb, call, session, told,
                   stray, givenUp>>

NextItem ==
    /\ pass.at = "loop" /\ m_bRelink
    /\ \E p \in pass.src :
          pass' = [pass EXCEPT !.at = "connect", !.item = p, !.src = @ \ {p}]
    /\ UNCHANGED <<table, alive, notices, m_listRelink, m_bRelink, cb, call,
                   session, told, stray, givenUp>>

\* Mutant: what failed is not put back.
EndPassForgets ==
    /\ pass.at = "loop" /\ (~m_bRelink \/ pass.src = {})
    /\ pass' = IdlePass
    /\ UNCHANGED <<table, alive, notices, m_listRelink, m_bRelink, cb, call,
                   session, told, stray, givenUp>>

\* Mutant: the list is replaced by what failed.
EndPassOverwrites ==
    /\ pass.at = "loop" /\ (~m_bRelink \/ pass.src = {})
    /\ m_listRelink' = pass.fail
    /\ pass' = IdlePass
    /\ UNCHANGED <<table, alive, notices, m_bRelink, cb, call, session, told,
                   stray, givenUp>>

\* What failed goes back; what a stopped timer has not looked at is dropped.
EndPass ==
    /\ pass.at = "loop" /\ (~m_bRelink \/ pass.src = {})
    /\ m_listRelink' = m_listRelink \cup pass.fail
    /\ pass' = IdlePass
    /\ UNCHANGED <<table, alive, notices, m_bRelink, cb, call, session, told,
                   stray, givenUp>>

\* CreateSyncClientLink succeeds ...
PassConnect(l) ==
    /\ pass.at = "connect" /\ l \in Unused(pass.item)
    /\ alive' = alive \cup {l}
    /\ pass' = [pass EXCEPT !.at = "asked", !.link = l]
    /\ UNCHANGED <<table, notices, m_listRelink, m_bRelink, cb, call, session,
                   told, stray, givenUp>>

\* ... or fails, and drops what the library has to that address.
PassConnectFails ==
    /\ pass.at = "connect"
    /\ alive' = WithoutAddr(pass.item)
    /\ pass' = [pass EXCEPT !.at = "decide", !.ret = "fail"]
    /\ UNCHANGED <<table, notices, m_listRelink, m_bRelink, cb, call, session,
                   told, stray, givenUp>>

\* What a login of the pass does with the server's answer: ReLogin for the
\* user's own server (reconnect, then login if it has restarted), ReLoginOmu for
\* the OMU, GeneralLoginSmu for another domain, which keeps a refused link open.
AfterAnswer(p, r) ==
    CASE p = Local -> IF r \in {"ok", "pwdmod"} THEN "refresh"
                      ELSE IF r = "first" THEN "update" ELSE "decide"
      [] p = Omu -> IF r = "ok" THEN "refresh" ELSE "decide"
      [] OTHER -> IF r \in {"ok", "first"} THEN "update" ELSE "decide"

DropsLink(p, r) ==
    \/ p = Local /\ r \notin {"ok", "pwdmod"}
    \/ p = Omu /\ r # "ok"

\* The server answers while the link is up; without one the request times out.
PassAnswer(r) ==
    /\ pass.at = "asked"
    /\ r # "fail" => pass.link \in alive
    /\ r = "restarted" => pass.item = Local /\ SSO
    /\ alive' = IF DropsLink(pass.item, r) THEN alive \ {pass.link} ELSE alive
    /\ pass' = [pass EXCEPT !.at = AfterAnswer(pass.item, r), !.ret = r]
    /\ UNCHANGED <<table, notices, m_listRelink, m_bRelink, cb, call, session,
                   told, stray, givenUp>>

\* RefreshLoginInfo, ReLoginOmu: SetLinkIDByDomainCode.
PassRefresh ==
    /\ pass.at = "refresh"
    /\ table' = IF table[pass.item].status = "none" THEN table
                ELSE [table EXCEPT ![pass.item] = Opened(pass.link)]
    /\ pass' = [pass EXCEPT !.at = IF pass.item = Local /\ pass.ret = "ok"
                                   THEN "update" ELSE "decide"]
    /\ givenUp' = givenUp \ {pass.item}
    /\ UNCHANGED <<alive, notices, m_listRelink, m_bRelink, cb, call, session,
                   told, stray>>

\* ReLoginSMU: the entry is read and stored again as opened.
PassUpdate ==
    /\ pass.at = "update"
    /\ table' = IF table[pass.item].status = "none" THEN table
                ELSE [table EXCEPT ![pass.item] = Opened(pass.link)]
    /\ pass' = [pass EXCEPT !.at = "decide"]
    /\ givenUp' = givenUp \ {pass.item}
    /\ UNCHANGED <<alive, notices, m_listRelink, m_bRelink, cb, call, session,
                   told, stray>>

\* The answers after which the pass is done with a server.
Done == IF pass.item = Omu THEN {"ok"} ELSE {"ok", "pwderr", "pwdmod"}

PassDrops ==
    /\ pass.at = "decide" /\ pass.ret \in Done
    /\ pass' = IF pass.item = Local THEN [pass EXCEPT !.at = "event", !.link = NoLink]
               ELSE ItemDone
    /\ givenUp' = IF \/ pass.ret = "pwderr"
                     \/ pass.ret = "pwdmod" /\ pass.item # Local
                  THEN givenUp \cup {pass.item} ELSE givenUp
    /\ UNCHANGED <<table, alive, notices, m_listRelink, m_bRelink, cb, call,
                   session, told, stray>>

\* The client is told, if it still has a callback registered.
PassTells ==
    /\ pass.at = "event"
    /\ told' = IF session # "in" THEN told
               ELSE IF pass.ret = "pwderr" THEN "failed" ELSE "up"
    /\ pass' = ItemDone
    /\ UNCHANGED <<table, alive, notices, m_listRelink, m_bRelink, cb, call,
                   session, stray, givenUp>>

\* A ticket user is told to log in again when its server has restarted, or when
\* ten minutes of attempts have failed.
PassGivesUp ==
    /\ pass.at = "decide" /\ pass.ret \notin Done
    /\ SSO /\ pass.item = Local
    /\ alive' = WithoutAddr(pass.item)
    /\ told' = IF session = "in" THEN "failed" ELSE told
    /\ givenUp' = givenUp \cup {pass.item}
    /\ pass' = ItemDone
    /\ UNCHANGED <<table, notices, m_listRelink, m_bRelink, cb, call, session,
                   stray>>

\* Any other failure is tried again in the next pass.
PassRetries ==
    /\ pass.at = "decide" /\ pass.ret \notin Done \cup {"restarted"}
    /\ alive' = WithoutAddr(pass.item)
    /\ pass' = [ItemDone EXCEPT !.fail = @ \cup {pass.item}]
    /\ UNCHANGED <<table, notices, m_listRelink, m_bRelink, cb, call, session,
                   told, stray, givenUp>>

-----------------------------------------------------------------------------
(* CUserMgr::SendCmd to another domain: a server that is enabled and not    *)
(* connected is logged in to first (ProcrssEnableLinkNode).                 *)

StartCall(c, p) ==
    /\ call[c].at = "idle" /\ session = "in"
    /\ table[p].status = "enabled"
    /\ call' = [call EXCEPT ![c] = [IdleCall EXCEPT !.at = "connect", !.peer = p]]
    /\ UNCHANGED <<table, alive, notices, m_listRelink, m_bRelink, pass, cb,
                   session, told, stray, givenUp>>

CallConnect(c, l) ==
    /\ call[c].at = "connect" /\ HasRoutes /\ l \in Unused(call[c].peer)
    /\ alive' = alive \cup {l}
    /\ call' = [call EXCEPT ![c].at = "asked", ![c].link = l]
    /\ UNCHANGED <<table, notices, m_listRelink, m_bRelink, pass, cb, session,
                   told, stray, givenUp>>

\* No route to the domain any more, or no connection.
CallConnectFails(c) ==
    /\ call[c].at = "connect"
    /\ alive' = IF HasRoutes THEN WithoutAddr(call[c].peer) ELSE alive
    /\ call' = [call EXCEPT ![c].at = "store", ![c].ret = "fail"]
    /\ UNCHANGED <<table, notices, m_listRelink, m_bRelink, pass, cb, session,
                   told, stray, givenUp>>

CallAnswer(c, r) ==
    /\ call[c].at = "asked"
    /\ r \notin {"restarted"} /\ (r # "fail" => call[c].link \in alive)
    /\ call' = [call EXCEPT ![c].at = "store", ![c].ret = r]
    /\ UNCHANGED <<table, alive, notices, m_listRelink, m_bRelink, pass, cb,
                   session, told, stray, givenUp>>

\* Logged in: the entry is stored as opened and the request goes out on it.
CallOpens(c) ==
    /\ call[c].at = "store" /\ call[c].ret \in {"ok", "first"}
    /\ Store(call[c].peer, Opened(call[c].link))
    /\ call' = [call EXCEPT ![c] = IdleCall]
    /\ givenUp' = givenUp \ {call[c].peer}
    /\ UNCHANGED <<alive, notices, m_listRelink, m_bRelink, pass, cb, session,
                   told>>

\* Not logged in: the entry, as it was read, is stored as closed.
CallCloses(c) ==
    /\ call[c].at = "store" /\ call[c].ret \notin {"ok", "first"}
    /\ Store(call[c].peer, Closed)
    /\ call' = [call EXCEPT ![c] = IF HasRoutes THEN [@ EXCEPT !.at = "queue"] ELSE IdleCall]
    /\ UNCHANGED <<alive, notices, m_listRelink, m_bRelink, pass, cb, session,
                   told, givenUp>>

\* Mutant: the failed link is queued, not its server.
QueuesLink(c) ==
    /\ call[c].at = "queue"
    /\ alive' = alive \ {call[c].link}
    /\ m_listRelink' = m_listRelink \cup {call[c].link}
    /\ givenUp' = givenUp \ {call[c].peer}
    /\ call' = [call EXCEPT ![c] = IdleCall]
    /\ UNCHANGED <<table, notices, m_bRelink, pass, cb, session, told, stray>>

\* AddLinkIdToBusinessResumeList.
CallQueues(c) ==
    /\ call[c].at = "queue"
    /\ alive' = alive \ {call[c].link}
    /\ m_listRelink' = m_listRelink \cup {call[c].peer}
    /\ givenUp' = givenUp \ {call[c].peer}
    /\ call' = [call EXCEPT ![c] = IdleCall]
    /\ UNCHANGED <<table, notices, m_bRelink, pass, cb, session, told, stray>>

\* CDomainRouteMgr::GetDomainRoute(pList): the table has every domain, so only
\* the domains that the server reports offline matter: they are queued.
GetDomainRoute(c, down) ==
    /\ call[c].at = "idle" /\ session = "in" /\ table[Local].status = "opened"
    /\ m_listRelink' = m_listRelink \cup down
    /\ givenUp' = givenUp \ down
    /\ UNCHANGED <<table, alive, notices, m_bRelink, pass, cb, call, session,
                   told, stray>>

-----------------------------------------------------------------------------
(* Logout, by the application or by the server's offline notice.           *)

\* CSDKInterface::Logout: the callbacks and the session id are given up first.
FreeSession(byServer) ==
    /\ session = "in"
    /\ byServer => cb.at = "idle"
    /\ cb' = IF byServer THEN [cb EXCEPT !.at = "logout"] ELSE cb
    /\ session' = "freed"
    /\ UNCHANGED <<table, alive, notices, m_listRelink, m_bRelink, pass, call,
                   told, stray, givenUp>>

\* StopResumeTimer: the flag first ...
StopRelink ==
    /\ session = "freed"
    /\ session' = "stopping" /\ m_bRelink' = FALSE
    /\ UNCHANGED <<table, alive, notices, m_listRelink, pass, cb, call, told,
                   stray, givenUp>>

\* Mutant: the timer is cancelled, and its thread not waited for.
RelinkNotJoined ==
    /\ session = "stopping"
    /\ session' = "stopped"
    /\ UNCHANGED <<table, alive, notices, m_listRelink, m_bRelink, pass, cb,
                   call, told, stray, givenUp>>

\* ... then cancelTimer and exit wait for the pass to end.
RelinkStopped ==
    /\ session = "stopping" /\ pass.at = "idle"
    /\ session' = "stopped"
    /\ UNCHANGED <<table, alive, notices, m_listRelink, m_bRelink, pass, cb,
                   call, told, stray, givenUp>>

\* CLinkRouteMgr::DeleteLinkList.
DeleteLinkList ==
    /\ session = "stopped"
    /\ alive' = alive \ {table[p].link : p \in Peers}
    /\ table' = [p \in Peers |-> NoEntry]
    /\ session' = "unlinked"
    /\ UNCHANGED <<notices, m_listRelink, m_bRelink, pass, cb, call, told,
                   stray, givenUp>>

\* m_iSessionID is reset, and the library's thread is back if it did all this.
LoggedOut ==
    /\ session = "unlinked"
    /\ session' = "out"
    /\ cb' = IF cb.at = "logout" THEN IdleCb ELSE cb
    /\ UNCHANGED <<table, alive, notices, m_listRelink, m_bRelink, pass, call,
                   told, stray, givenUp>>

-----------------------------------------------------------------------------

PassStep ==
    \/ TakeList \/ NextItem \/ EndPass \/ PassConnectFails
    \/ \E l \in Links : PassConnect(l)
    \/ \E r \in Answers : PassAnswer(r)
    \/ PassRefresh \/ PassUpdate \/ PassDrops \/ PassTells
    \/ PassGivesUp \/ PassRetries

CbStep == (\E l \in Links : OnLinkClosed(l)) \/ FindSession \/ NotifyDown \/ Requeue

CallStep(c) ==
    \/ \E p \in Remote : StartCall(c, p)
    \/ \E l \in Links : CallConnect(c, l)
    \/ CallConnectFails(c)
    \/ \E r \in Answers : CallAnswer(c, r)
    \/ CallOpens(c) \/ CallCloses(c) \/ CallQueues(c)
    \/ \E down \in SUBSET Remote : GetDomainRoute(c, down)

LogoutStep ==
    \/ \E byServer \in BOOLEAN : FreeSession(byServer)
    \/ StopRelink \/ RelinkStopped \/ DeleteLinkList \/ LoggedOut

Next ==
    \/ \E l \in Links : PeerCloses(l)
    \/ PassStep \/ CbStep \/ LogoutStep
    \/ \E c \in Callers : CallStep(c)

Spec == Init /\ [][Next]_vars

\* The threads run, and the library reports closed links in turn; and the user's
\* own server, asked again and again, is reached and accepts the login in the end.
FairSpec ==
    /\ Spec /\ WF_vars(PassStep) /\ WF_vars(CbStep)
    /\ \A l \in Links : SF_vars(OnLinkClosed(l))
    /\ SF_vars(pass.item = Local /\ \E l \in Links : PassConnect(l))
    /\ SF_vars(pass.item = Local /\ PassAnswer("ok"))

-----------------------------------------------------------------------------
(* Properties *)

Entries == [status : Statuses, link : Links \cup {NoLink}]

Passes ==
    [at : {"idle", "loop", "connect", "asked", "refresh", "update", "decide", "event"},
     src : SUBSET Peers, fail : SUBSET Peers, item : Peers,
     link : Links \cup {NoLink}, ret : Answers]

Callbacks ==
    [at : {"idle", "marked", "found", "notified", "logout"}, link : Links \cup {NoLink}]

Calls ==
    [at : {"idle", "connect", "asked", "store", "queue"},
     peer : Peers, link : Links \cup {NoLink}, ret : Answers]

TypeOK ==
    /\ table \in [Peers -> Entries]
    /\ alive \subseteq Links /\ notices \subseteq Links /\ stray \subseteq Links
    /\ m_listRelink \subseteq Peers /\ givenUp \subseteq Peers
    /\ m_bRelink \in BOOLEAN /\ told \in {"up", "down", "failed"}
    /\ session \in {"in", "freed", "stopping", "stopped", "unlinked", "out"}
    /\ pass \in Passes /\ cb \in Callbacks /\ call \in [Callers -> Calls]

\* Somebody is about to reconnect to p, or holds p to put it on the list.
Pending(p) ==
    \/ p \in m_listRelink \cup pass.src \cup pass.fail
    \/ pass.at \notin {"idle", "loop", "event"} /\ pass.item = p
    \/ cb.at \in {"marked", "found", "notified"} /\ table[p].link = cb.link
    \/ cb.at \in {"found", "notified"} /\ cb.link[1] = p
    \/ \E c \in Callers : call[c].at = "queue" /\ call[c].peer = p

\* A server whose link is marked closed is never forgotten: it is on the relink
\* list, in the pass that took the list, or in the hands of the thread that is
\* about to put it there, unless the server refused the user.
DownIsQueued ==
    session = "in" =>
        \A p \in Peers : table[p].status = "closed" => Pending(p) \/ p \in givenUp

\* As long as the client has last heard KEEP_ALIVE_FAILED, a reconnection to its
\* server is pending or its outcome is about to be reported.
ToldDownIsPending ==
    session = "in" /\ told = "down" => Pending(Local) \/ pass.at = "event"

\* Once logout has stopped the timer, no relink pass runs on the table and the
\* login data that logout goes on to clear.
StoppedIsIdle ==
    session \in {"stopped", "unlinked", "out"} => pass.at = "idle"

\* UserMgr.cpp:742 sends on a link that is stored as opened because a usable link
\* is there: it is up, its loss is being reported, or its server is being
\* reconnected.
OpenedIsUsable ==
    session = "in" =>
        \A p \in Peers \ {Omu} : table[p].status = "opened" =>
            table[p].link \in alive \cup notices \/ Pending(p)

\* A client that was told its server is lost hears more: that it is back, that
\* the user must log in again, or the user has logged out.
DownIsResolved == told = "down" ~> told # "down" \/ session # "in"

=============================================================================
