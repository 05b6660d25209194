-------------------------- MODULE LinkRelinkProofs --------------------------
(* Theorems about LinkRelink for any set of other domains, any number of     *)
(* application threads and of links, whichever servers fail.                 *)
EXTENDS LinkRelink, TLAPS

\* A reported link is one of the library's.
Reported == cb.at \in {"marked", "found", "notified"} => cb.link \in Links

\* Links belong to the server they are stored for or asked on.
LinksFit ==
    /\ \A p \in Peers : table[p].link \in Links => table[p].link[1] = p
    /\ pass.at \in {"asked", "refresh", "update"} =>
          pass.link \in Links /\ pass.link[1] = pass.item
    /\ \A c \in Callers :
          \/ call[c].at = "asked"
          \/ (call[c].at = "store" /\ call[c].ret \in {"ok", "first"})
          => call[c].link \in Links /\ call[c].link[1] = call[c].peer

\* The relink timer is wanted until logout stops it.
Wanted == session = "in" => m_bRelink

\* Between two passes nothing is in the pass's hands.
IdleIsEmpty == pass.at = "idle" => pass.src = {} /\ pass.fail = {}

\* Somebody other than the pass at its current server remembers p.
Elsewhere(p) ==
    \/ p \in m_listRelink \cup pass.src \cup pass.fail
    \/ (cb.at \in {"marked", "found", "notified"} /\ table[p].link = cb.link)
    \/ (cb.at \in {"found", "notified"} /\ cb.link[1] = p)
    \/ \E c \in Callers : call[c].at = "queue" /\ call[c].peer = p

Forgotten(p) ==
    table[p].status = "closed" /\ ~Elsewhere(p) /\ p \notin givenUp

\* The pass is at server p.
AtItem(p) == pass.at \notin {"idle", "loop", "event"} /\ pass.item = p

\* A server the pass has reconnected to is not forgotten when the pass is done
\* with it, even if its new link has been lost meanwhile.
DecidedIsKept ==
    /\ session = "in"
    /\ pass.at = "decide"
    /\ pass.ret = "ok" \/ (pass.ret = "pwdmod" /\ pass.item = Local)
    => ~Forgotten(pass.item)

QueueInv == Wanted /\ IdleIsEmpty /\ DecidedIsKept /\ DownIsQueued

LEMMA NoLinkIsNone == NoLink \notin Links
BY DEF NoLink, Links

-----------------------------------------------------------------------------
(* Type correctness *)

\* The constant records have their types.
LEMMA Values ==
    /\ IdlePass \in Passes /\ IdleCb \in Callbacks /\ IdleCall \in Calls
    /\ NoEntry \in Entries /\ Closed \in Entries
    /\ \A l \in Links : Opened(l) \in Entries
BY DEF IdlePass, Passes, IdleCb, Callbacks, IdleCall, Calls, NoEntry, Closed,
       Opened, Entries, Statuses, Answers, Peers

\* A record of the model keeps its type when a field gets a value of its type.
LEMMA PassFields ==
    ASSUME NEW x \in Passes
    PROVE  /\ \A v \in {"idle", "loop", "connect", "asked", "refresh", "update",
                         "decide", "event"} : [x EXCEPT !.at = v] \in Passes
           /\ \A v \in Links \cup {NoLink} : [x EXCEPT !.link = v] \in Passes
           /\ \A v \in Answers : [x EXCEPT !.ret = v] \in Passes
           /\ \A v \in SUBSET Peers : [x EXCEPT !.src = v] \in Passes
           /\ \A v \in SUBSET Peers : [x EXCEPT !.fail = v] \in Passes
           /\ \A v \in Peers : [x EXCEPT !.item = v] \in Passes
           /\ x.src \in SUBSET Peers /\ x.fail \in SUBSET Peers
           /\ x.item \in Peers /\ x.link \in Links \cup {NoLink} /\ x.ret \in Answers
BY DEF Passes

LEMMA OtherFields ==
    /\ \A x \in Callbacks :
          /\ x.link \in Links \cup {NoLink}
          /\ \A v \in {"idle", "marked", "found", "notified", "logout"} :
                [x EXCEPT !.at = v] \in Callbacks
    /\ \A x \in Calls :
          /\ x.link \in Links \cup {NoLink} /\ x.peer \in Peers
          /\ \A v \in {"idle", "connect", "asked", "store", "queue"} :
                [x EXCEPT !.at = v] \in Calls
          /\ \A v \in Links \cup {NoLink} : [x EXCEPT !.link = v] \in Calls
          /\ \A v \in Answers : [x EXCEPT !.ret = v] \in Calls
          /\ \A v \in Peers : [x EXCEPT !.peer = v] \in Calls
    /\ \A x \in Entries : [x EXCEPT !.status = "closed"] \in Entries
BY DEF Callbacks, Calls, Entries, Statuses

LEMMA InitTypeOK == Init => TypeOK
<1>. SUFFICES ASSUME Init PROVE TypeOK
  OBVIOUS
<1>1. PICK down \in SUBSET Remote :
         /\ table = [p \in Peers |->
                       IF p \in LoggedIn THEN Opened(<<p, 1>>)
                       ELSE IF p = Omu THEN NoEntry
                       ELSE IF p \in down THEN Closed
                       ELSE [status |-> "enabled", link |-> NoLink]]
         /\ m_listRelink = down
  BY DEF Init
<1>2. \A p \in Peers : <<p, 1>> \in Links
  BY PeersAssumption DEF Links
<1>3. [status |-> "enabled", link |-> NoLink] \in Entries
  BY DEF Entries, Statuses
<1>4. table \in [Peers -> Entries]
  BY <1>1, <1>2, <1>3, Values
<1>5. LoggedIn \X {1} \subseteq Links
  BY PeersAssumption DEF Links, LoggedIn, Peers
<1>. QED
  BY <1>1, <1>4, <1>5, Values DEF Init, TypeOK, Peers

\* A closed link is reported, the client told, the server queued.
LEMMA CbTypeOK == TypeOK /\ Reported /\ CbStep => TypeOK' /\ Reported'
<1>. SUFFICES ASSUME TypeOK, Reported, CbStep PROVE TypeOK' /\ Reported'
  OBVIOUS
<1>1. ASSUME NEW l \in Links, OnLinkClosed(l) PROVE TypeOK' /\ Reported'
  <2>1. table' \in [Peers -> Entries]
    BY <1>1, OtherFields DEF TypeOK, OnLinkClosed
  <2>2. cb' \in Callbacks /\ cb'.link \in Links
    BY <1>1 DEF OnLinkClosed, Callbacks
  <2>. QED
    BY <1>1, <2>1, <2>2 DEF TypeOK, OnLinkClosed, Reported
<1>2. CASE FindSession
  <2>1. cb' \in Callbacks
    BY <1>2, Values, OtherFields DEF TypeOK, FindSession
  <2>2. Reported'
    BY <1>2 DEF TypeOK, FindSession, Reported, IdleCb, Callbacks
  <2>. QED
    BY <1>2, <2>1, <2>2 DEF TypeOK, FindSession
<1>3. CASE NotifyDown
  <2>1. cb' \in Callbacks
    BY <1>3, OtherFields DEF TypeOK, NotifyDown
  <2>2. Reported'
    BY <1>3 DEF TypeOK, NotifyDown, Reported, Callbacks
  <2>. QED
    BY <1>3, <2>1, <2>2 DEF TypeOK, NotifyDown
<1>4. CASE Requeue
  <2>1. cb.link[1] \in Peers
    BY <1>4 DEF Requeue, Reported, Links
  <2>. QED
    BY <1>4, <2>1, Values DEF TypeOK, Requeue, Reported, IdleCb
<1>. QED
  BY <1>1, <1>2, <1>3, <1>4 DEF CbStep

\* Every step of the relink pass leaves the state well typed.
LEMMA PassTypeOK == TypeOK /\ LinksFit /\ PassStep => TypeOK'
<1>. SUFFICES ASSUME TypeOK, LinksFit, PassStep PROVE TypeOK'
  OBVIOUS
<1>p. pass \in Passes /\ ItemDone \in Passes
  <2>1. ItemDone = [[[IdlePass EXCEPT !.at = "loop"] EXCEPT !.src = pass.src]
                       EXCEPT !.fail = pass.fail]
    BY DEF ItemDone, IdlePass
  <2>2. [IdlePass EXCEPT !.at = "loop"] \in Passes
    BY Values, PassFields
  <2>3. [[IdlePass EXCEPT !.at = "loop"] EXCEPT !.src = pass.src] \in Passes
    BY <2>2, PassFields DEF TypeOK
  <2>. QED
    BY <2>1, <2>3, PassFields DEF TypeOK
\* Two fields given together are two fields given one after the other.
<1>t. ASSUME NEW u, NEW v, NEW x \in Passes
      PROVE  /\ [x EXCEPT !.at = u, !.link = v] = [[x EXCEPT !.at = u] EXCEPT !.link = v]
             /\ [x EXCEPT !.at = u, !.ret = v] = [[x EXCEPT !.at = u] EXCEPT !.ret = v]
             /\ [x EXCEPT !.at = u, !.src = v] = [[x EXCEPT !.at = u] EXCEPT !.src = v]
  BY DEF Passes
<1>1. CASE TakeList
  <2>1. [IdlePass EXCEPT !.at = "loop"] \in Passes
    BY Values, PassFields
  <2>2. pass' = [[IdlePass EXCEPT !.at = "loop"] EXCEPT !.src = m_listRelink]
    BY <1>1, <1>t, Values DEF TakeList
  <2>3. pass' \in Passes
    BY <2>1, <2>2, PassFields DEF TypeOK
  <2>. QED
    BY <1>1, <2>3 DEF TypeOK, TakeList
<1>2. CASE NextItem
  <2>1. PICK p \in pass.src :
           pass' = [pass EXCEPT !.at = "connect", !.item = p, !.src = pass.src \ {p}]
    BY <1>2 DEF NextItem
  <2>2. pass' = [[[pass EXCEPT !.at = "connect"] EXCEPT !.item = p]
                    EXCEPT !.src = pass.src \ {p}]
    BY <2>1, <1>p DEF Passes
  <2>3. p \in Peers /\ pass.src \ {p} \in SUBSET Peers
    BY <2>1, <1>p, PassFields
  <2>4. [[pass EXCEPT !.at = "connect"] EXCEPT !.item = p] \in Passes
    <3>1. [pass EXCEPT !.at = "connect"] \in Passes
      BY <1>p, PassFields
    <3>. QED
      BY <3>1, <2>3, PassFields
  <2>5. pass' \in Passes
    BY <2>2, <2>3, <2>4, PassFields
  <2>. QED
    BY <1>2, <2>5 DEF TypeOK, NextItem
<1>3. CASE EndPass
  BY <1>3, <1>p, PassFields, Values DEF TypeOK, EndPass
<1>4. CASE PassConnectFails
  <2>1. [pass EXCEPT !.at = "decide"] \in Passes
    BY <1>p, PassFields
  <2>2. pass' \in Passes
    BY <1>4, <1>p, <1>t, <2>1, PassFields DEF PassConnectFails, Answers
  <2>. QED
    BY <1>4, <2>2 DEF TypeOK, PassConnectFails, WithoutAddr
<1>5. ASSUME NEW l \in Links, PassConnect(l) PROVE TypeOK'
  <2>1. [pass EXCEPT !.at = "asked"] \in Passes
    BY <1>p, PassFields
  <2>2. pass' \in Passes
    BY <1>5, <1>p, <1>t, <2>1, PassFields DEF PassConnect
  <2>. QED
    BY <1>5, <2>2 DEF TypeOK, PassConnect
<1>6. ASSUME NEW r \in Answers, PassAnswer(r) PROVE TypeOK'
  <2>1. AfterAnswer(pass.item, r) \in {"refresh", "update", "decide"}
    BY DEF AfterAnswer
  <2>2. [pass EXCEPT !.at = AfterAnswer(pass.item, r)] \in Passes
    BY <1>p, <2>1, PassFields
  <2>3. pass' \in Passes
    BY <1>6, <1>p, <1>t, <2>2, PassFields DEF PassAnswer
  <2>. QED
    BY <1>6, <2>3 DEF TypeOK, PassAnswer
<1>7. CASE PassRefresh
  <2>1. table' \in [Peers -> Entries]
    BY <1>7, <1>p, Values, PassFields DEF TypeOK, LinksFit, PassRefresh
  <2>2. pass' \in Passes
    BY <1>7, <1>p, PassFields DEF PassRefresh
  <2>. QED
    BY <1>7, <2>1, <2>2 DEF TypeOK, PassRefresh
<1>8. CASE PassUpdate
  <2>1. table' \in [Peers -> Entries]
    BY <1>8, <1>p, Values, PassFields DEF TypeOK, LinksFit, PassUpdate
  <2>2. pass' \in Passes
    BY <1>8, <1>p, PassFields DEF PassUpdate
  <2>. QED
    BY <1>8, <2>1, <2>2 DEF TypeOK, PassUpdate
<1>9. CASE PassDrops
  <2>1. [pass EXCEPT !.at = "event"] \in Passes
    BY <1>p, PassFields
  <2>2. pass' \in Passes
    BY <1>9, <1>p, <1>t, <2>1, PassFields DEF PassDrops
  <2>3. givenUp' \subseteq Peers
    BY <1>9, <1>p, PassFields DEF PassDrops, TypeOK
  <2>. QED
    BY <1>9, <2>2, <2>3 DEF TypeOK, PassDrops
<1>10. CASE PassTells
  BY <1>10, <1>p DEF TypeOK, PassTells
<1>11. CASE PassGivesUp
  BY <1>11, <1>p, PassFields DEF TypeOK, PassGivesUp, WithoutAddr
<1>12. CASE PassRetries
  <2>1. ItemDone.fail \cup {pass.item} \in SUBSET Peers
    BY <1>p, PassFields
  <2>2. pass' \in Passes
    BY <1>12, <2>1, <1>p, PassFields DEF PassRetries
  <2>. QED
    BY <1>12, <2>2 DEF TypeOK, PassRetries, WithoutAddr
<1>. QED
  BY <1>1, <1>2, <1>3, <1>4, <1>5, <1>6, <1>7, <1>8, <1>9, <1>10, <1>11, <1>12
     DEF PassStep

\* Every step of a call leaves the state well typed.
LEMMA CallTypeOK ==
    ASSUME TypeOK, LinksFit, NEW c \in Callers, CallStep(c)
    PROVE  TypeOK'
<1>c. call[c] \in Calls /\ IdleCall \in Calls
  BY Values DEF TypeOK
\* Two fields given together are two fields given one after the other.
<1>t. ASSUME NEW u, NEW v, NEW x \in Calls
      PROVE  /\ [x EXCEPT !.at = u, !.peer = v] = [[x EXCEPT !.at = u] EXCEPT !.peer = v]
             /\ [x EXCEPT !.at = u, !.link = v] = [[x EXCEPT !.at = u] EXCEPT !.link = v]
             /\ [x EXCEPT !.at = u, !.ret = v] = [[x EXCEPT !.at = u] EXCEPT !.ret = v]
  BY DEF Calls
<1>u. \A x \in Calls : \A v \in {"idle", "connect", "asked", "store", "queue"} :
         [x EXCEPT !.at = v] \in Calls
  BY OtherFields
<1>1. ASSUME NEW p \in Remote, StartCall(c, p) PROVE TypeOK'
  <2>1. [IdleCall EXCEPT !.at = "connect", !.peer = p] \in Calls
    <3>1. [IdleCall EXCEPT !.at = "connect"] \in Calls
      BY <1>c, <1>u
    <3>2. [[IdleCall EXCEPT !.at = "connect"] EXCEPT !.peer = p] \in Calls
      BY <3>1, OtherFields DEF Peers
    <3>. QED
      BY <3>2, <1>t, <1>c
  <2>2. call' \in [Callers -> Calls]
    BY <1>1, <2>1 DEF TypeOK, StartCall
  <2>. QED
    BY <1>1, <2>2 DEF TypeOK, StartCall
<1>2. ASSUME NEW l \in Links, CallConnect(c, l) PROVE TypeOK'
  <2>1. [call[c] EXCEPT !.at = "asked", !.link = l] \in Calls
    BY <1>c, <1>t, <1>u, OtherFields
  <2>2. call' = [call EXCEPT ![c] = [call[c] EXCEPT !.at = "asked", !.link = l]]
    BY <1>2, <1>t, <1>c DEF CallConnect, TypeOK
  <2>3. call' \in [Callers -> Calls]
    BY <2>1, <2>2 DEF TypeOK
  <2>. QED
    BY <1>2, <2>3 DEF TypeOK, CallConnect
<1>3. CASE CallConnectFails(c)
  <2>1. [call[c] EXCEPT !.at = "store", !.ret = "fail"] \in Calls
    BY <1>c, <1>t, <1>u, OtherFields DEF Answers
  <2>2. call' = [call EXCEPT ![c] = [call[c] EXCEPT !.at = "store", !.ret = "fail"]]
    BY <1>3, <1>t, <1>c DEF CallConnectFails, TypeOK
  <2>3. call' \in [Callers -> Calls]
    BY <2>1, <2>2 DEF TypeOK
  <2>. QED
    BY <1>3, <2>3 DEF TypeOK, CallConnectFails, WithoutAddr
<1>4. ASSUME NEW r \in Answers, CallAnswer(c, r) PROVE TypeOK'
  <2>1. [call[c] EXCEPT !.at = "store", !.ret = r] \in Calls
    BY <1>c, <1>t, <1>u, OtherFields
  <2>2. call' = [call EXCEPT ![c] = [call[c] EXCEPT !.at = "store", !.ret = r]]
    BY <1>4, <1>t, <1>c DEF CallAnswer, TypeOK
  <2>3. call' \in [Callers -> Calls]
    BY <2>1, <2>2 DEF TypeOK
  <2>. QED
    BY <1>4, <2>3 DEF TypeOK, CallAnswer
<1>5. CASE CallOpens(c)
  <2>1. call[c].link \in Links /\ Opened(call[c].link) \in Entries
    BY <1>5, Values DEF CallOpens, LinksFit
  <2>2. table' \in [Peers -> Entries] /\ stray' \subseteq Links
    BY <1>5, <2>1 DEF TypeOK, CallOpens, Store, Opened
  <2>3. call' \in [Callers -> Calls]
    BY <1>5, <1>c DEF TypeOK, CallOpens
  <2>. QED
    BY <1>5, <2>2, <2>3 DEF TypeOK, CallOpens
<1>6. CASE CallCloses(c)
  <2>1. table' \in [Peers -> Entries] /\ stray' \subseteq Links
    BY <1>6, Values DEF TypeOK, CallCloses, Store, Closed
  <2>2. call' = [call EXCEPT ![c] = IF HasRoutes THEN [call[c] EXCEPT !.at = "queue"]
                                    ELSE IdleCall]
    BY <1>6 DEF CallCloses
  <2>3. call' \in [Callers -> Calls]
    BY <2>2, <1>c, <1>u DEF TypeOK
  <2>. QED
    BY <1>6, <2>1, <2>3 DEF TypeOK, CallCloses
<1>7. CASE CallQueues(c)
  <2>1. call' \in [Callers -> Calls] /\ call[c].peer \in Peers
    BY <1>7, <1>c, OtherFields DEF TypeOK, CallQueues
  <2>. QED
    BY <1>7, <2>1 DEF TypeOK, CallQueues
<1>8. ASSUME NEW down \in SUBSET Remote, GetDomainRoute(c, down) PROVE TypeOK'
  BY <1>8 DEF TypeOK, GetDomainRoute, Peers
<1>. QED
  BY <1>1, <1>2, <1>3, <1>4, <1>5, <1>6, <1>7, <1>8 DEF CallStep

\* Every step of a logout leaves the state well typed.
LEMMA LogoutTypeOK == TypeOK /\ LogoutStep => TypeOK'
<1>. SUFFICES ASSUME TypeOK, LogoutStep PROVE TypeOK'
  OBVIOUS
<1>1. ASSUME NEW byServer \in BOOLEAN, FreeSession(byServer) PROVE TypeOK'
  BY <1>1, OtherFields DEF TypeOK, FreeSession
<1>2. CASE StopRelink
  BY <1>2 DEF TypeOK, StopRelink
<1>3. CASE RelinkStopped
  BY <1>3 DEF TypeOK, RelinkStopped
<1>4. CASE DeleteLinkList
  BY <1>4, Values DEF TypeOK, DeleteLinkList
<1>5. CASE LoggedOut
  BY <1>5, Values DEF TypeOK, LoggedOut
<1>. QED
  BY <1>1, <1>2, <1>3, <1>4, <1>5 DEF LogoutStep

-----------------------------------------------------------------------------
(* Links fit their servers *)

\* The pass asks on a link to its server and stores that link for that server.
LEMMA PassFits == TypeOK /\ LinksFit /\ PassStep => LinksFit'
<1>. SUFFICES ASSUME TypeOK, LinksFit, PassStep PROVE LinksFit'
  OBVIOUS
<1>p. pass \in Passes /\ table \in [Peers -> Entries]
  BY DEF TypeOK
<1>i. ItemDone.at = "loop"
  BY DEF ItemDone, IdlePass
<1>1. CASE TakeList
  BY <1>1 DEF LinksFit, TakeList, IdlePass
<1>2. CASE NextItem
  BY <1>2, <1>p DEF LinksFit, NextItem, Passes
<1>3. CASE EndPass
  BY <1>3 DEF LinksFit, EndPass, IdlePass
<1>4. CASE PassConnectFails
  BY <1>4, <1>p DEF LinksFit, PassConnectFails, Passes
<1>5. ASSUME NEW l \in Links, PassConnect(l) PROVE LinksFit'
  BY <1>5, <1>p DEF LinksFit, PassConnect, Passes, Unused
<1>6. ASSUME NEW r \in Answers, PassAnswer(r) PROVE LinksFit'
  <2>1. pass'.link = pass.link /\ pass'.item = pass.item /\ pass.at = "asked"
    BY <1>6, <1>p DEF PassAnswer, Passes
  <2>. QED
    BY <1>6, <2>1 DEF LinksFit, PassAnswer
<1>7. CASE PassRefresh
  <2>1. pass'.link = pass.link /\ pass'.item = pass.item /\ pass.at = "refresh"
    BY <1>7, <1>p DEF PassRefresh, Passes
  <2>2. \A q \in Peers : table'[q].link = table[q].link
                       \/ (q = pass.item /\ table'[q].link = pass.link)
    BY <1>7, <1>p DEF PassRefresh, Opened
  <2>. QED
    BY <1>7, <2>1, <2>2 DEF LinksFit, PassRefresh
<1>8. CASE PassUpdate
  <2>1. pass'.link = pass.link /\ pass'.item = pass.item /\ pass.at = "update"
    BY <1>8, <1>p DEF PassUpdate, Passes
  <2>2. \A q \in Peers : table'[q].link = table[q].link
                       \/ (q = pass.item /\ table'[q].link = pass.link)
    BY <1>8, <1>p DEF PassUpdate, Opened
  <2>. QED
    BY <1>8, <2>1, <2>2 DEF LinksFit, PassUpdate
<1>9. CASE PassDrops
  <2>1. pass'.at \in {"event", "loop"}
    BY <1>9, <1>p, <1>i DEF PassDrops, Passes
  <2>. QED
    BY <1>9, <2>1 DEF LinksFit, PassDrops
<1>10. CASE PassTells
  BY <1>10, <1>i DEF LinksFit, PassTells
<1>11. CASE PassGivesUp
  BY <1>11, <1>i DEF LinksFit, PassGivesUp
<1>12. CASE PassRetries
  <2>1. pass'.at = "loop"
    BY <1>12 DEF PassRetries, ItemDone, IdlePass
  <2>. QED
    BY <1>12, <2>1 DEF LinksFit, PassRetries
<1>. QED
  BY <1>1, <1>2, <1>3, <1>4, <1>5, <1>6, <1>7, <1>8, <1>9, <1>10, <1>11, <1>12
     DEF PassStep

\* A call asks on a link to its server and stores that link for that server.
LEMMA CallFits ==
    ASSUME TypeOK, LinksFit, NEW c \in Callers, CallStep(c)
    PROVE  LinksFit'
<1>c. call \in [Callers -> Calls] /\ table \in [Peers -> Entries] /\ call[c] \in Calls
  BY DEF TypeOK
\* A step that gives the caller a record that fits, and leaves the table alone.
<1>s. ASSUME NEW x, call' = [call EXCEPT ![c] = x], UNCHANGED <<table, pass>>,
             x.at # "asked", x.at # "store" \/ x.ret = "fail"
      PROVE  LinksFit'
  BY <1>s, <1>c DEF LinksFit
<1>1. ASSUME NEW p \in Remote, StartCall(c, p) PROVE LinksFit'
  <2>1. [IdleCall EXCEPT !.at = "connect", !.peer = p].at = "connect"
    BY DEF IdleCall
  <2>. QED
    BY <1>1, <1>s, <2>1 DEF StartCall
<1>2. ASSUME NEW l \in Links, CallConnect(c, l) PROVE LinksFit'
  <2>1. call'[c].link = l /\ call'[c].peer = call[c].peer /\ l[1] = call[c].peer
    BY <1>2, <1>c DEF CallConnect, Calls, Unused
  <2>2. \A d \in Callers : d # c => call'[d] = call[d]
    BY <1>2, <1>c DEF CallConnect
  <2>. QED
    BY <1>2, <2>1, <2>2 DEF LinksFit, CallConnect
<1>3. CASE CallConnectFails(c)
  <2>1. call'[c].ret = "fail" /\ call'[c].at = "store"
    BY <1>3, <1>c DEF CallConnectFails, Calls
  <2>2. \A d \in Callers : d # c => call'[d] = call[d]
    BY <1>3, <1>c DEF CallConnectFails
  <2>. QED
    BY <1>3, <2>1, <2>2 DEF LinksFit, CallConnectFails
<1>4. ASSUME NEW r \in Answers, CallAnswer(c, r) PROVE LinksFit'
  <2>1. call'[c].link = call[c].link /\ call'[c].peer = call[c].peer /\ call[c].at = "asked"
    BY <1>4, <1>c DEF CallAnswer, Calls
  <2>2. \A d \in Callers : d # c => call'[d] = call[d]
    BY <1>4, <1>c DEF CallAnswer
  <2>3. call'[c].link \in Links /\ call'[c].link[1] = call'[c].peer
    BY <2>1 DEF LinksFit
  <2>4. UNCHANGED <<table, pass>>
    BY <1>4 DEF CallAnswer
  <2>. QED
    BY <2>2, <2>3, <2>4 DEF LinksFit
<1>5. CASE CallOpens(c)
  <2>1. call[c].link \in Links /\ call[c].link[1] = call[c].peer
    BY <1>5 DEF CallOpens, LinksFit
  <2>2. \A q \in Peers : table'[q].link = table[q].link
                       \/ (q = call[c].peer /\ table'[q].link = call[c].link)
    BY <1>5, <1>c DEF CallOpens, Store, Opened
  <2>3. call' = [call EXCEPT ![c] = IdleCall] /\ IdleCall.at = "idle"
    BY <1>5 DEF CallOpens, IdleCall
  <2>4. \A d \in Callers : d # c => call'[d] = call[d]
    BY <2>3, <1>c
  <2>5. call'[c].at = "idle"
    BY <2>3, <1>c
  <2>. QED
    BY <1>5, <2>1, <2>2, <2>4, <2>5 DEF LinksFit, CallOpens
<1>6. CASE CallCloses(c)
  <2>1. \A q \in Peers : table'[q].link = table[q].link \/ table'[q].link = NoLink
    BY <1>6, <1>c DEF CallCloses, Store, Closed
  <2>2. call'[c].at \in {"idle", "queue"}
    BY <1>6, <1>c DEF CallCloses, IdleCall, Calls
  <2>3. \A d \in Callers : d # c => call'[d] = call[d]
    BY <1>6, <1>c DEF CallCloses
  <2>. QED
    BY <1>6, <2>1, <2>2, <2>3, NoLinkIsNone DEF LinksFit, CallCloses
<1>7. CASE CallQueues(c)
  <2>1. IdleCall.at = "idle"
    BY DEF IdleCall
  <2>. QED
    BY <1>7, <1>s, <2>1 DEF CallQueues
<1>8. ASSUME NEW down \in SUBSET Remote, GetDomainRoute(c, down) PROVE LinksFit'
  BY <1>8 DEF LinksFit, GetDomainRoute
<1>. QED
  BY <1>1, <1>2, <1>3, <1>4, <1>5, <1>6, <1>7, <1>8 DEF CallStep

\* The steps of the library and of a logout store no link, and a logout reports none.
LEMMA OthersFit ==
    ASSUME TypeOK, LinksFit, CbStep \/ LogoutStep \/ \E l \in Links : PeerCloses(l)
    PROVE  LinksFit'
<1>t. table \in [Peers -> Entries]
  BY DEF TypeOK
<1>1. ASSUME NEW l \in Links, OnLinkClosed(l) PROVE LinksFit'
  <2>1. \A q \in Peers : table'[q].link = table[q].link
    BY <1>1, <1>t DEF OnLinkClosed, Entries
  <2>. QED
    BY <1>1, <2>1 DEF LinksFit, OnLinkClosed
<1>2. CASE FindSession \/ NotifyDown \/ Requeue
  BY <1>2 DEF LinksFit, FindSession, NotifyDown, Requeue
<1>3. ASSUME NEW l \in Links, PeerCloses(l) PROVE LinksFit'
  BY <1>3 DEF LinksFit, PeerCloses
<1>4. CASE (\E b \in BOOLEAN : FreeSession(b)) \/ StopRelink \/ RelinkStopped \/ LoggedOut
  BY <1>4 DEF LinksFit, FreeSession, StopRelink, RelinkStopped, LoggedOut
<1>5. CASE DeleteLinkList
  BY <1>5, NoLinkIsNone DEF LinksFit, DeleteLinkList, NoEntry
<1>. QED
  BY <1>1, <1>2, <1>3, <1>4, <1>5 DEF CbStep, LogoutStep

LEMMA LogoutReports == TypeOK /\ Reported /\ LogoutStep => Reported'
BY DEF TypeOK, Callbacks, Reported, LogoutStep, FreeSession, StopRelink, RelinkStopped,
       DeleteLinkList, LoggedOut, IdleCb

\* The inductive invariant behind type correctness.
TypeInv == TypeOK /\ Reported /\ LinksFit

LEMMA NextTypeInv == TypeInv /\ [Next]_vars => TypeInv'
<1>. SUFFICES ASSUME TypeOK, Reported, LinksFit, [Next]_vars PROVE TypeInv'
  BY DEF TypeInv
<1>1. ASSUME NEW l \in Links, PeerCloses(l) PROVE TypeInv'
  <2>1. TypeOK' /\ Reported'
    BY <1>1 DEF TypeOK, Reported, PeerCloses
  <2>. QED
    BY <1>1, <2>1, OthersFit DEF TypeInv
<1>2. CASE PassStep
  <2>1. cb' = cb
    BY <1>2 DEF PassStep, TakeList, NextItem, EndPass, PassConnectFails, PassConnect,
       PassAnswer, PassRefresh, PassUpdate, PassDrops, PassTells, PassGivesUp, PassRetries
  <2>. QED
    BY <1>2, <2>1, PassTypeOK, PassFits DEF TypeInv, Reported
<1>3. CASE CbStep
  BY <1>3, CbTypeOK, OthersFit DEF TypeInv
<1>4. CASE LogoutStep
  BY <1>4, LogoutTypeOK, LogoutReports, OthersFit DEF TypeInv
<1>5. ASSUME NEW c \in Callers, CallStep(c) PROVE TypeInv'
  <2>1. cb' = cb
    BY <1>5 DEF CallStep, StartCall, CallConnect, CallConnectFails, CallAnswer,
       CallOpens, CallCloses, CallQueues, GetDomainRoute
  <2>. QED
    BY <1>5, <2>1, CallTypeOK, CallFits DEF TypeInv, Reported
<1>6. CASE UNCHANGED vars
  BY <1>6 DEF vars, TypeInv, TypeOK, Reported, LinksFit
<1>. QED
  BY <1>1, <1>2, <1>3, <1>4, <1>5, <1>6 DEF Next

LEMMA InitTypeInv == Init => TypeInv
<1>. SUFFICES ASSUME Init PROVE TypeInv
  OBVIOUS
<1>1. Reported /\ pass.at = "idle" /\ \A c \in Callers : call[c].at = "idle"
  BY DEF Init, Reported, IdleCb, IdlePass, IdleCall
<1>2. PICK down \in SUBSET Remote :
         table = [p \in Peers |->
                       IF p \in LoggedIn THEN Opened(<<p, 1>>)
                       ELSE IF p = Omu THEN NoEntry
                       ELSE IF p \in down THEN Closed
                       ELSE [status |-> "enabled", link |-> NoLink]]
  BY DEF Init
<1>3. \A p \in Peers : table[p].link = <<p, 1>> \/ table[p].link = NoLink
  BY <1>2 DEF Opened, NoEntry, Closed
<1>4. LinksFit
  BY <1>1, <1>3, NoLinkIsNone DEF LinksFit
<1>. QED
  BY <1>1, <1>4, InitTypeOK DEF TypeInv

LEMMA TypeInvHolds == Spec => []TypeInv
BY InitTypeInv, NextTypeInv, PTL DEF Spec

\* The route table, the relink list, the pass and the calls are well typed in every
\* reachable state (LinkRouteMgr.cpp, ReLink.cpp): in particular what goes back on the
\* relink list is a server and what is stored for it is a link.
THEOREM TypeCorrect == Spec => []TypeOK
<1>1. TypeInv => TypeOK
  BY DEF TypeInv
<1>. QED
  BY <1>1, TypeInvHolds, PTL

-----------------------------------------------------------------------------
(* No closed server is forgotten *)

LEMMA QueuedIff ==
    DownIsQueued <=> (session = "in" => \A p \in Peers : Forgotten(p) => AtItem(p))
BY DEF DownIsQueued, Forgotten, Pending, Elsewhere, AtItem

\* The library's thread keeps every closed server in somebody's hands: a link is
\* marked by the thread that goes on to put its server on the list.
LEMMA CbRemembers ==
    ASSUME TypeInv, session = "in", CbStep
    PROVE  pass' = pass /\ \A p \in Peers : Forgotten(p)' => Forgotten(p)
<1>t. table \in [Peers -> Entries] /\ cb \in Callbacks
  BY DEF TypeInv, TypeOK
<1>1. ASSUME NEW l \in Links, OnLinkClosed(l), NEW p \in Peers, Forgotten(p)'
      PROVE  Forgotten(p)
  <2>1. table'[p].link = table[p].link /\ (table[p].link # l => table'[p] = table[p])
    BY <1>1, <1>t DEF OnLinkClosed, Entries
  <2>2. cb'.at = "marked" /\ cb'.link = l /\ cb.at = "idle"
    BY <1>1 DEF OnLinkClosed
  <2>3. table[p].link # l
    BY <1>1, <2>1, <2>2 DEF Forgotten, Elsewhere
  <2>. QED
    BY <1>1, <2>1, <2>2, <2>3 DEF OnLinkClosed, Forgotten, Elsewhere
<1>2. ASSUME FindSession, NEW p \in Peers, Forgotten(p)' PROVE Forgotten(p)
  <2>1. CASE Routed(cb.link)
    <3>1. cb'.at = "found" /\ cb'.link = cb.link
      BY <1>2, <2>1, <1>t DEF FindSession, Callbacks
    <3>. QED
      BY <1>2, <3>1 DEF FindSession, Forgotten, Elsewhere
  <2>2. CASE ~Routed(cb.link)
    BY <1>2, <2>2 DEF FindSession, Forgotten, Elsewhere, Routed
  <2>. QED
    BY <2>1, <2>2
<1>3. ASSUME NotifyDown, NEW p \in Peers, Forgotten(p)' PROVE Forgotten(p)
  <2>1. cb'.at = "notified" /\ cb'.link = cb.link
    BY <1>3, <1>t DEF NotifyDown, Callbacks
  <2>. QED
    BY <1>3, <2>1 DEF NotifyDown, Forgotten, Elsewhere
<1>4. ASSUME Requeue, NEW p \in Peers, Forgotten(p)' PROVE Forgotten(p)
  <2>1. cb.link \in Links
    BY <1>4 DEF Requeue, TypeInv, Reported
  <2>2. p # cb.link[1]
    BY <1>4 DEF Requeue, Forgotten, Elsewhere
  <2>3. table[p].link # cb.link
    BY <2>1, <2>2 DEF TypeInv, LinksFit
  <2>. QED
    BY <1>4, <2>2, <2>3 DEF Requeue, Forgotten, Elsewhere
<1>5. pass' = pass
  BY DEF CbStep, OnLinkClosed, FindSession, NotifyDown, Requeue
<1>. QED
  BY <1>1, <1>2, <1>3, <1>4, <1>5 DEF CbStep

\* A call that stores a server as closed goes on to put it on the list.
LEMMA CallRemembers ==
    ASSUME TypeInv, session = "in", NEW c \in Callers, CallStep(c)
    PROVE  pass' = pass /\ \A p \in Peers : Forgotten(p)' => Forgotten(p)
<1>t. table \in [Peers -> Entries] /\ call \in [Callers -> Calls]
  BY DEF TypeInv, TypeOK
\* A step in which the caller neither had nor loses a server to put on the list.
<1>s. ASSUME call[c].at # "queue", \A d \in Callers : d # c => call'[d] = call[d],
             UNCHANGED <<table, m_listRelink, pass, cb, givenUp>>,
             NEW p \in Peers, Forgotten(p)'
      PROVE  Forgotten(p)
  BY <1>s DEF Forgotten, Elsewhere
<1>1. ASSUME NEW q \in Remote, StartCall(c, q), NEW p \in Peers, Forgotten(p)'
      PROVE  Forgotten(p)
  BY <1>1, <1>s, <1>t DEF StartCall
<1>2. ASSUME NEW l \in Links, CallConnect(c, l), NEW p \in Peers, Forgotten(p)'
      PROVE  Forgotten(p)
  BY <1>2, <1>s, <1>t DEF CallConnect
<1>3. ASSUME CallConnectFails(c), NEW p \in Peers, Forgotten(p)' PROVE Forgotten(p)
  BY <1>3, <1>s, <1>t DEF CallConnectFails
<1>4. ASSUME NEW r \in Answers, CallAnswer(c, r), NEW p \in Peers, Forgotten(p)'
      PROVE  Forgotten(p)
  BY <1>4, <1>s, <1>t DEF CallAnswer
<1>5. ASSUME CallOpens(c), NEW p \in Peers, Forgotten(p)' PROVE Forgotten(p)
  <2>1. table' = [table EXCEPT ![call[c].peer] = Opened(call[c].link)]
    BY <1>5 DEF CallOpens, Store
  <2>2. p # call[c].peer
    BY <1>5, <2>1, <1>t DEF Forgotten, Opened
  <2>3. table'[p] = table[p]
    BY <2>1, <2>2, <1>t
  <2>4. call[c].at = "store" /\ \A d \in Callers : d # c => call'[d] = call[d]
    BY <1>5, <1>t DEF CallOpens
  <2>5. p \notin givenUp
    BY <1>5, <2>2 DEF CallOpens, Forgotten
  <2>6. UNCHANGED <<m_listRelink, pass, cb>>
    BY <1>5 DEF CallOpens
  <2>. QED
    BY <1>5, <2>3, <2>4, <2>5, <2>6 DEF Forgotten, Elsewhere
<1>6. ASSUME CallCloses(c), NEW p \in Peers, Forgotten(p)' PROVE Forgotten(p)
  <2>1. table' = [table EXCEPT ![call[c].peer] = Closed]
    BY <1>6 DEF CallCloses, Store
  <2>2. call' = [call EXCEPT ![c] = [call[c] EXCEPT !.at = "queue"]]
    BY <1>6 DEF CallCloses, HasRoutes
  <2>3. call'[c].at = "queue" /\ call'[c].peer = call[c].peer
    BY <2>2, <1>t DEF Calls
  <2>4. p # call[c].peer
    BY <1>6, <2>3 DEF Forgotten, Elsewhere
  <2>5. table'[p] = table[p]
    BY <2>1, <2>4, <1>t
  <2>6. call[c].at = "store" /\ \A d \in Callers : d # c => call'[d] = call[d]
    BY <1>6, <2>2, <1>t DEF CallCloses
  <2>7. UNCHANGED <<m_listRelink, pass, cb, givenUp>>
    BY <1>6 DEF CallCloses
  <2>. QED
    BY <1>6, <2>5, <2>6, <2>7 DEF Forgotten, Elsewhere
<1>7. ASSUME CallQueues(c), NEW p \in Peers, Forgotten(p)' PROVE Forgotten(p)
  <2>1. p # call[c].peer /\ p \notin givenUp
    BY <1>7 DEF CallQueues, Forgotten, Elsewhere
  <2>2. \A d \in Callers : d # c => call'[d] = call[d]
    BY <1>7, <1>t DEF CallQueues
  <2>3. UNCHANGED <<table, pass, cb>> /\ m_listRelink \subseteq m_listRelink'
    BY <1>7 DEF CallQueues
  <2>. QED
    BY <1>7, <2>1, <2>2, <2>3 DEF Forgotten, Elsewhere
<1>8. ASSUME NEW down \in SUBSET Remote, GetDomainRoute(c, down), NEW p \in Peers,
             Forgotten(p)'
      PROVE  Forgotten(p)
  BY <1>8 DEF GetDomainRoute, Forgotten, Elsewhere
<1>9. pass' = pass
  BY DEF CallStep, StartCall, CallConnect, CallConnectFails, CallAnswer,
     CallOpens, CallCloses, CallQueues, GetDomainRoute
<1>. QED
  BY <1>1, <1>2, <1>3, <1>4, <1>5, <1>6, <1>7, <1>8, <1>9 DEF CallStep

\* A pass moves what it took from item to item: it loses no server on the way.
LEMMA PassRemembers ==
    ASSUME TypeInv, QueueInv, session = "in", PassStep, NEW p \in Peers, Forgotten(p)'
    PROVE  AtItem(p)'
<1>h. Forgotten(p) => AtItem(p)
  BY QueuedIff DEF QueueInv
<1>p. pass \in Passes /\ table \in [Peers -> Entries] /\ m_bRelink
  BY DEF TypeInv, TypeOK, QueueInv, Wanted
<1>i. ItemDone.at = "loop" /\ ItemDone.src = pass.src /\ ItemDone.fail = pass.fail
  BY DEF ItemDone, IdlePass
\* A step that leaves the pass at its item.
<1>s. ASSUME pass'.src = pass.src, pass'.fail = pass.fail, pass'.item = pass.item,
             pass'.at \notin {"idle", "loop", "event"},
             UNCHANGED <<table, m_listRelink, cb, call, givenUp>>
      PROVE  AtItem(p)'
  BY <1>s, <1>h DEF Forgotten, Elsewhere, AtItem
<1>1. CASE TakeList
  <2>1. pass'.src = m_listRelink /\ pass.src = {} /\ pass.fail = {} /\ pass.at = "idle"
    BY <1>1 DEF TakeList, QueueInv, IdleIsEmpty, IdlePass
  <2>. QED
    BY <1>1, <1>h, <2>1 DEF TakeList, Forgotten, Elsewhere, AtItem
<1>2. CASE NextItem
  <2>1. PICK q \in pass.src :
           pass' = [pass EXCEPT !.at = "connect", !.item = q, !.src = pass.src \ {q}]
    BY <1>2 DEF NextItem
  <2>2. /\ pass'.at = "connect" /\ pass'.item = q
        /\ pass'.src = pass.src \ {q} /\ pass'.fail = pass.fail
    BY <2>1, <1>p DEF Passes
  <2>3. CASE p = q
    BY <2>2, <2>3 DEF AtItem
  <2>4. CASE p # q
    BY <1>2, <1>h, <2>2, <2>4 DEF NextItem, Forgotten, Elsewhere, AtItem
  <2>. QED
    BY <2>3, <2>4
<1>3. CASE EndPass
  <2>1. pass.src = {}
    BY <1>3, <1>p DEF EndPass
  <2>. QED
    BY <1>3, <1>h, <2>1 DEF EndPass, Forgotten, Elsewhere, AtItem
<1>4. CASE PassConnectFails
  BY <1>4, <1>s, <1>p DEF PassConnectFails, Passes
<1>5. ASSUME NEW l \in Links, PassConnect(l) PROVE AtItem(p)'
  BY <1>5, <1>s, <1>p DEF PassConnect, Passes
<1>6. ASSUME NEW r \in Answers, PassAnswer(r) PROVE AtItem(p)'
  <2>1. AfterAnswer(pass.item, r) \in {"refresh", "update", "decide"}
    BY DEF AfterAnswer
  <2>. QED
    BY <1>6, <1>s, <1>p, <2>1 DEF PassAnswer, Passes
<1>7. CASE PassRefresh \/ PassUpdate
  <2>1. /\ pass'.src = pass.src /\ pass'.fail = pass.fail /\ pass'.item = pass.item
        /\ pass'.at \in {"update", "decide"} /\ pass.at \in {"refresh", "update"}
    BY <1>7, <1>p DEF PassRefresh, PassUpdate, Passes
  <2>2. CASE p = pass.item
    BY <2>1, <2>2 DEF AtItem
  <2>3. CASE p # pass.item
    <3>1. table'[p] = table[p]
      BY <1>7, <1>p, <2>3 DEF PassRefresh, PassUpdate
    <3>2. UNCHANGED <<m_listRelink, cb, call>> /\ (p \in givenUp => p \in givenUp')
      BY <1>7, <2>3 DEF PassRefresh, PassUpdate
    <3>. QED
      BY <1>h, <2>1, <2>3, <3>1, <3>2 DEF Forgotten, Elsewhere, AtItem
  <2>. QED
    BY <2>2, <2>3
<1>9. CASE PassDrops
  <2>1. pass'.src = pass.src /\ pass'.fail = pass.fail
    BY <1>9, <1>i, <1>p DEF PassDrops, Passes
  <2>2. Forgotten(p)
    BY <1>9, <2>1 DEF PassDrops, Forgotten, Elsewhere
  <2>3. p = pass.item /\ pass.at = "decide" /\ p \notin givenUp'
    BY <1>9, <1>h, <2>2 DEF PassDrops, AtItem, Forgotten
  <2>4. pass.ret \in {"ok", "pwderr", "pwdmod"}
    BY <1>9 DEF PassDrops, Done
  <2>5. pass.ret # "pwderr" /\ (pass.ret = "pwdmod" => pass.item = Local)
    BY <1>9, <2>3 DEF PassDrops
  <2>. QED
    BY <2>2, <2>3, <2>4, <2>5 DEF QueueInv, DecidedIsKept
<1>10. CASE PassTells
  BY <1>10, <1>h, <1>i DEF PassTells, Forgotten, Elsewhere, AtItem
<1>11. CASE PassGivesUp
  BY <1>11, <1>h, <1>i DEF PassGivesUp, Forgotten, Elsewhere, AtItem
<1>12. CASE PassRetries
  <2>1. pass'.src = pass.src /\ pass'.fail = pass.fail \cup {pass.item}
    BY <1>12 DEF PassRetries, ItemDone, IdlePass
  <2>. QED
    BY <1>12, <1>h, <2>1 DEF PassRetries, Forgotten, Elsewhere, AtItem
<1>. QED
  BY <1>1, <1>2, <1>3, <1>4, <1>5, <1>6, <1>7, <1>9, <1>10, <1>11, <1>12 DEF PassStep

\* The pass is done with a server only when it has stored a link for it, unless the
\* server refused or the attempt failed.
LEMMA PassDecides ==
    ASSUME TypeInv, QueueInv, PassStep
    PROVE  DecidedIsKept'
<1>. SUFFICES ASSUME pass'.at = "decide",
                     pass'.ret = "ok" \/ (pass'.ret = "pwdmod" /\ pass'.item = Local)
              PROVE  ~Forgotten(pass.item)' /\ pass'.item = pass.item
  BY DEF DecidedIsKept, Forgotten, Elsewhere
<1>p. pass \in Passes /\ table \in [Peers -> Entries] /\ pass.item \in Peers
  BY PassFields DEF TypeInv, TypeOK
<1>1. CASE PassRefresh \/ PassUpdate
  <2>1. table'[pass.item].status # "closed"
    BY <1>1, <1>p DEF PassRefresh, PassUpdate, Opened
  <2>2. pass'.item = pass.item
    BY <1>1, <1>p DEF PassRefresh, PassUpdate, Passes
  <2>. QED
    BY <2>1, <2>2 DEF Forgotten
<1>2. ASSUME NEW r \in Answers, PassAnswer(r) PROVE FALSE
  <2>1. pass'.ret = r /\ pass'.item = pass.item /\ AfterAnswer(pass.item, r) = "decide"
    BY <1>2, <1>p DEF PassAnswer, Passes
  <2>. QED
    BY <2>1, PeersAssumption DEF AfterAnswer
<1>3. CASE PassConnectFails
  BY <1>3, <1>p DEF PassConnectFails, Passes
<1>i. ItemDone.at = "loop"
  BY DEF ItemDone, IdlePass
<1>4. CASE PassTells \/ PassGivesUp
  BY <1>4, <1>i DEF PassTells, PassGivesUp
<1>8. CASE TakeList \/ EndPass
  <2>1. TakeList => pass'.at = "loop"
    BY DEF TakeList, IdlePass
  <2>2. EndPass => pass'.at = "idle"
    BY DEF EndPass, IdlePass
  <2>. QED
    BY <1>8, <2>1, <2>2
<1>7. CASE NextItem
  <2>1. pass'.at = "connect"
    BY <1>7, <1>p DEF NextItem, Passes
  <2>. QED
    BY <2>1
<1>5. CASE PassRetries \/ PassDrops
  BY <1>5, <1>p DEF PassRetries, PassDrops, ItemDone, IdlePass, Passes
<1>6. ASSUME NEW l \in Links, PassConnect(l) PROVE FALSE
  BY <1>6, <1>p DEF PassConnect, Passes
<1>. QED
  BY <1>1, <1>2, <1>3, <1>4, <1>5, <1>6, <1>7, <1>8 DEF PassStep

\* Only its end makes the pass idle.
LEMMA PassMoves ==
    ASSUME pass \in Passes, PassStep, ~EndPass
    PROVE  pass'.at # "idle"
<1>i. ItemDone.at = "loop"
  BY DEF ItemDone, IdlePass
<1>1. TakeList => pass'.at = "loop"
  BY DEF TakeList, IdlePass
<1>2. NextItem => pass'.at = "connect"
  BY DEF NextItem, Passes
<1>3. (\E l \in Links : PassConnect(l)) \/ PassConnectFails => pass'.at \in {"asked", "decide"}
  BY DEF PassConnect, PassConnectFails, Passes
<1>4. ASSUME NEW r \in Answers, PassAnswer(r) PROVE pass'.at # "idle"
  BY <1>4 DEF PassAnswer, AfterAnswer, Passes
<1>5. PassRefresh \/ PassUpdate => pass'.at \in {"update", "decide"}
  BY DEF PassRefresh, PassUpdate, Passes
<1>6. PassDrops \/ PassTells \/ PassGivesUp => pass'.at \in {"event", "loop"}
  BY <1>i DEF PassDrops, PassTells, PassGivesUp, Passes
<1>7. PassRetries => pass'.at = "loop"
  BY DEF PassRetries, ItemDone, IdlePass
<1>. QED
  BY <1>1, <1>2, <1>3, <1>4, <1>5, <1>6, <1>7 DEF PassStep

LEMMA NextQueueInv == TypeInv /\ QueueInv /\ [Next]_vars => QueueInv'
<1>. SUFFICES ASSUME TypeInv, QueueInv, [Next]_vars PROVE QueueInv'
  OBVIOUS
<1>p. pass \in Passes
  BY DEF TypeInv, TypeOK
\* A step of the others: the pass stays, and nobody forgets a server.
<1>o. ASSUME pass' = pass, session' = session, m_bRelink' = m_bRelink,
             session = "in" => \A p \in Peers : Forgotten(p)' => Forgotten(p)
      PROVE  QueueInv'
  <2>1. Wanted' /\ IdleIsEmpty'
    BY <1>o DEF QueueInv, Wanted, IdleIsEmpty
  <2>2. DecidedIsKept'
    BY <1>o, <1>p, PassFields DEF QueueInv, DecidedIsKept
  <2>3. DownIsQueued'
    BY <1>o, QueuedIff DEF QueueInv, DownIsQueued, Forgotten, Pending, Elsewhere, AtItem
  <2>. QED
    BY <2>1, <2>2, <2>3 DEF QueueInv
<1>1. ASSUME NEW l \in Links, PeerCloses(l) PROVE QueueInv'
  BY <1>1, <1>o DEF PeerCloses, Forgotten, Elsewhere
<1>2. CASE PassStep
  <2>1. session' = session /\ m_bRelink' = m_bRelink
    BY <1>2 DEF PassStep, TakeList, NextItem, EndPass, PassConnectFails, PassConnect,
       PassAnswer, PassRefresh, PassUpdate, PassDrops, PassTells, PassGivesUp, PassRetries
  <2>2. IdleIsEmpty'
    <3>1. CASE EndPass
      BY <3>1 DEF EndPass, IdlePass, IdleIsEmpty
    <3>. QED
      BY <1>2, <1>p, <3>1, PassMoves DEF IdleIsEmpty
  <2>3. session' = "in" => \A p \in Peers : Forgotten(p)' => AtItem(p)'
    BY <1>2, <2>1, PassRemembers
  <2>4. DownIsQueued'
    BY <2>3 DEF DownIsQueued, Forgotten, Pending, Elsewhere, AtItem
  <2>. QED
    BY <1>2, <2>1, <2>2, <2>4, PassDecides DEF QueueInv, Wanted
<1>3. CASE CbStep
  <2>1. session' = session /\ m_bRelink' = m_bRelink /\ pass' = pass
    BY <1>3 DEF CbStep, OnLinkClosed, FindSession, NotifyDown, Requeue
  <2>. QED
    BY <1>3, <1>o, <2>1, CbRemembers
<1>4. CASE LogoutStep
  <2>1. session' # "in" /\ pass' = pass
    BY <1>4 DEF LogoutStep, FreeSession, StopRelink, RelinkStopped, DeleteLinkList, LoggedOut
  <2>. QED
    BY <2>1 DEF QueueInv, Wanted, IdleIsEmpty, DecidedIsKept, DownIsQueued
<1>5. ASSUME NEW c \in Callers, CallStep(c) PROVE QueueInv'
  <2>1. session' = session /\ m_bRelink' = m_bRelink /\ pass' = pass
    BY <1>5 DEF CallStep, StartCall, CallConnect, CallConnectFails, CallAnswer,
       CallOpens, CallCloses, CallQueues, GetDomainRoute
  <2>. QED
    BY <1>5, <1>o, <2>1, CallRemembers
<1>6. CASE UNCHANGED vars
  BY <1>6, <1>o DEF vars, Forgotten, Elsewhere
<1>. QED
  BY <1>1, <1>2, <1>3, <1>4, <1>5, <1>6 DEF Next

LEMMA InitQueueInv == Init => QueueInv
<1>. SUFFICES ASSUME Init PROVE QueueInv
  OBVIOUS
<1>1. Wanted /\ IdleIsEmpty /\ DecidedIsKept
  BY DEF Init, Wanted, IdleIsEmpty, DecidedIsKept, IdlePass
<1>2. PICK down \in SUBSET Remote :
         /\ table = [p \in Peers |->
                       IF p \in LoggedIn THEN Opened(<<p, 1>>)
                       ELSE IF p = Omu THEN NoEntry
                       ELSE IF p \in down THEN Closed
                       ELSE [status |-> "enabled", link |-> NoLink]]
         /\ m_listRelink = down
  BY DEF Init
<1>3. \A p \in Peers : table[p].status = "closed" => p \in down
  BY <1>2 DEF Opened, NoEntry, Closed
<1>. QED
  BY <1>1, <1>2, <1>3 DEF QueueInv, DownIsQueued, Pending

\* A server whose link is marked closed is on the relink list, in the pass, or in the
\* hands of the thread about to queue it, unless it refused the user: for any number of
\* domains, calls and links, whatever the order in which links fail (ReLink.cpp,
\* LinkRouteMgr.cpp).
THEOREM QueueCorrect == Spec => []DownIsQueued
<1>1. Spec => []QueueInv
  BY InitQueueInv, NextQueueInv, TypeInvHolds, PTL DEF Spec
<1>2. QueueInv => DownIsQueued
  BY DEF QueueInv
<1>. QED
  BY <1>1, <1>2, PTL

-----------------------------------------------------------------------------
(* A stopped timer's pass has ended *)

\* Once logout has joined the relink timer, no relink pass runs, whatever the pass was
\* doing when logout began (UserMgr.cpp, StopResumeTimer).
THEOREM StopCorrect == Spec => []StoppedIsIdle
<1>1. Init => StoppedIsIdle
  BY DEF Init, StoppedIsIdle
<1>2. StoppedIsIdle /\ [Next]_vars => StoppedIsIdle'
  <2>. SUFFICES ASSUME StoppedIsIdle, [Next]_vars PROVE StoppedIsIdle'
    OBVIOUS
  <2>1. CASE PassStep
    <3>1. session' = session
      BY <2>1 DEF PassStep, TakeList, NextItem, EndPass, PassConnectFails, PassConnect,
         PassAnswer, PassRefresh, PassUpdate, PassDrops, PassTells, PassGivesUp, PassRetries
    <3>2. session \notin {"stopped", "unlinked", "out"}
      BY <2>1 DEF StoppedIsIdle, PassStep, TakeList, NextItem, EndPass, PassConnectFails,
         PassConnect, PassAnswer, PassRefresh, PassUpdate, PassDrops, PassTells,
         PassGivesUp, PassRetries
    <3>. QED
      BY <3>1, <3>2 DEF StoppedIsIdle
  <2>2. CASE LogoutStep
    BY <2>2 DEF StoppedIsIdle, LogoutStep, FreeSession, StopRelink, RelinkStopped,
       DeleteLinkList, LoggedOut
  <2>3. CASE CbStep \/ \E l \in Links : PeerCloses(l)
    BY <2>3 DEF StoppedIsIdle, CbStep, PeerCloses, OnLinkClosed, FindSession, NotifyDown,
       Requeue
  <2>4. ASSUME NEW c \in Callers, CallStep(c) PROVE StoppedIsIdle'
    BY <2>4 DEF StoppedIsIdle, CallStep, StartCall, CallConnect, CallConnectFails,
       CallAnswer, CallOpens, CallCloses, CallQueues, GetDomainRoute
  <2>5. CASE UNCHANGED vars
    BY <2>5 DEF StoppedIsIdle, vars
  <2>. QED
    BY <2>1, <2>2, <2>3, <2>4, <2>5 DEF Next
<1>. QED
  BY <1>1, <1>2, PTL DEF Spec

-----------------------------------------------------------------------------
(* A client that was told its server is down *)

\* The reconnection of the server of the user is in hand, or its outcome about to be
\* told.  What Pending says of the table is not needed: the client is told later.
ServerInHand ==
    \/ Local \in m_listRelink \cup pass.src \cup pass.fail
    \/ AtItem(Local) \/ pass.at = "event"
    \/ cb.at = "notified" /\ cb.link[1] = Local

ToldInv == session = "in" /\ told = "down" => ServerInHand

\* A step of the pass lets go of the server only when it tells the client.
LEMMA PassTold ==
    ASSUME TypeInv, QueueInv, session = "in", ServerInHand, PassStep, told' = "down"
    PROVE  ServerInHand'
<1>p. pass \in Passes /\ m_bRelink
  BY DEF TypeInv, TypeOK, QueueInv, Wanted
<1>i. ItemDone.at = "loop" /\ ItemDone.src = pass.src /\ ItemDone.fail = pass.fail
  BY DEF ItemDone, IdlePass
\* A step that leaves the pass at its item.
<1>s. ASSUME pass'.src = pass.src, pass'.fail = pass.fail, pass'.item = pass.item,
             pass.at # "event", pass'.at \notin {"idle", "loop", "event"},
             UNCHANGED <<m_listRelink, cb>>
      PROVE  ServerInHand'
  BY <1>s DEF ServerInHand, AtItem
<1>1. CASE TakeList
  <2>1. pass'.src = m_listRelink /\ pass.src = {} /\ pass.fail = {} /\ pass.at = "idle"
    BY <1>1 DEF TakeList, QueueInv, IdleIsEmpty, IdlePass
  <2>. QED
    BY <1>1, <2>1 DEF TakeList, ServerInHand, AtItem
<1>2. CASE NextItem
  <2>1. PICK q \in pass.src :
           pass' = [pass EXCEPT !.at = "connect", !.item = q, !.src = pass.src \ {q}]
    BY <1>2 DEF NextItem
  <2>2. /\ pass'.at = "connect" /\ pass'.item = q /\ pass.at = "loop"
        /\ pass'.src = pass.src \ {q} /\ pass'.fail = pass.fail
    BY <1>2, <2>1, <1>p DEF NextItem, Passes
  <2>. QED
    BY <1>2, <2>2 DEF NextItem, ServerInHand, AtItem
<1>3. CASE EndPass
  <2>1. pass.src = {} /\ pass.at = "loop"
    BY <1>3, <1>p DEF EndPass
  <2>. QED
    BY <1>3, <2>1 DEF EndPass, ServerInHand, AtItem
<1>4. CASE PassConnectFails
  BY <1>4, <1>s, <1>p DEF PassConnectFails, Passes
<1>5. ASSUME NEW l \in Links, PassConnect(l) PROVE ServerInHand'
  BY <1>5, <1>s, <1>p DEF PassConnect, Passes
<1>6. ASSUME NEW r \in Answers, PassAnswer(r) PROVE ServerInHand'
  <2>1. AfterAnswer(pass.item, r) \in {"refresh", "update", "decide"}
    BY DEF AfterAnswer
  <2>. QED
    BY <1>6, <1>s, <1>p, <2>1 DEF PassAnswer, Passes
<1>7. CASE PassRefresh \/ PassUpdate
  BY <1>7, <1>s, <1>p DEF PassRefresh, PassUpdate, Passes
<1>8. CASE PassDrops
  <2>1. CASE pass.item = Local
    BY <1>8, <2>1, <1>p DEF PassDrops, ServerInHand, Passes
  <2>2. CASE pass.item # Local
    BY <1>8, <2>2, <1>i DEF PassDrops, ServerInHand, AtItem
  <2>. QED
    BY <2>1, <2>2
<1>9. CASE PassTells
  <2>1. told' # "down"
    BY <1>9 DEF PassTells
  <2>. QED
    BY <2>1
<1>10. CASE PassGivesUp
  <2>1. told' # "down"
    BY <1>10 DEF PassGivesUp
  <2>. QED
    BY <2>1
<1>11. CASE PassRetries
  <2>1. /\ pass'.src = pass.src /\ pass'.fail = pass.fail \cup {pass.item}
        /\ pass.at = "decide" /\ UNCHANGED <<m_listRelink, cb>>
    BY <1>11 DEF PassRetries, ItemDone, IdlePass
  <2>. QED
    BY <2>1 DEF ServerInHand, AtItem
<1>. QED
  BY <1>1, <1>2, <1>3, <1>4, <1>5, <1>6, <1>7, <1>8, <1>9, <1>10, <1>11 DEF PassStep

LEMMA NextToldInv == TypeInv /\ QueueInv /\ ToldInv /\ [Next]_vars => ToldInv'
<1>. SUFFICES ASSUME TypeInv, QueueInv, ToldInv, [Next]_vars,
                     session' = "in", told' = "down"
              PROVE  ServerInHand'
  BY DEF ToldInv
<1>1. CASE PassStep
  <2>1. session = "in"
    BY <1>1 DEF PassStep, TakeList, NextItem, EndPass, PassConnectFails, PassConnect,
       PassAnswer, PassRefresh, PassUpdate, PassDrops, PassTells, PassGivesUp, PassRetries
  <2>2. told = "down"
    BY <1>1, <2>1 DEF PassStep, TakeList, NextItem, EndPass, PassConnectFails, PassConnect,
       PassAnswer, PassRefresh, PassUpdate, PassDrops, PassTells, PassGivesUp, PassRetries
  <2>. QED
    BY <1>1, <2>1, <2>2, PassTold DEF ToldInv
<1>2. CASE CbStep
  <2>0. session = "in" /\ pass' = pass
    BY <1>2 DEF CbStep, OnLinkClosed, FindSession, NotifyDown, Requeue
  <2>1. CASE (\E l \in Links : OnLinkClosed(l)) \/ FindSession
    <3>1. UNCHANGED <<m_listRelink, told>> /\ cb.at # "notified"
      BY <2>1 DEF OnLinkClosed, FindSession
    <3>. QED
      BY <2>0, <3>1 DEF ToldInv, ServerInHand, AtItem
  <2>2. CASE NotifyDown
    <3>1. /\ cb'.at = "notified" /\ cb'.link = cb.link /\ m_listRelink' = m_listRelink
          /\ cb.at = "found" /\ (cb.link[1] = Local \/ told = "down")
      BY <2>2 DEF NotifyDown, TypeInv, TypeOK, Callbacks
    <3>. QED
      BY <2>0, <3>1 DEF ToldInv, ServerInHand, AtItem
  <2>3. CASE Requeue
    BY <2>0, <2>3 DEF Requeue, ToldInv, ServerInHand, AtItem
  <2>. QED
    BY <1>2, <2>1, <2>2, <2>3 DEF CbStep
<1>3. CASE LogoutStep
  <2>1. session' # "in"
    BY <1>3 DEF LogoutStep, FreeSession, StopRelink, RelinkStopped, DeleteLinkList, LoggedOut
  <2>. QED
    BY <2>1
<1>4. ASSUME NEW c \in Callers, CallStep(c) PROVE ServerInHand'
  <2>1. UNCHANGED <<session, told, pass, cb>> /\ m_listRelink \subseteq m_listRelink'
    BY <1>4 DEF CallStep, StartCall, CallConnect, CallConnectFails, CallAnswer,
       CallOpens, CallCloses, CallQueues, GetDomainRoute
  <2>. QED
    BY <2>1 DEF ToldInv, ServerInHand, AtItem
<1>5. CASE (\E l \in Links : PeerCloses(l)) \/ UNCHANGED vars
  <2>1. UNCHANGED <<session, told, pass, cb, m_listRelink>>
    BY <1>5 DEF PeerCloses, vars
  <2>. QED
    BY <2>1 DEF ToldInv, ServerInHand, AtItem
<1>. QED
  BY <1>1, <1>2, <1>3, <1>4, <1>5 DEF Next

\* As long as the client has last heard that its server is down, the server is on the
\* relink list, in the pass or about to be queued, or the pass is about to tell the
\* client how it ended, for any number of domains, calls and links (LoginMgr.cpp,
\* ReLoginSMU; ReLink.cpp).
THEOREM ToldDownCorrect == Spec => []ToldDownIsPending
<1>1. Init => ToldInv
  BY DEF Init, ToldInv
<1>2. Spec => []ToldInv
  <2>1. Spec => []QueueInv
    BY InitQueueInv, NextQueueInv, TypeInvHolds, PTL DEF Spec
  <2>. QED
    BY <1>1, <2>1, NextToldInv, TypeInvHolds, PTL DEF Spec
<1>3. ToldInv => ToldDownIsPending
  BY DEF ToldInv, ServerInHand, ToldDownIsPending, Pending, AtItem
<1>. QED
  BY <1>2, <1>3, PTL

=============================================================================
