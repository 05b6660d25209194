# Verification of the IVS client SDK

TLA+ models of the client SDK in `src/source` (C++): a library that a client program links to log in to
a video-surveillance system, send it commands, receive its events, and play live and recorded streams.
The models are written from the code. TLC checks them on small instances, and TLAPS proves some of their
properties for every instance.

To run: `tlc -config MCRtspOne.cfg MCRtspSession` checks one run, `tlapm RtspSessionProofs.tla` one proof
module. `PROJECT.json` lists the runs, the mutants that each property is known to catch, the lines behind
every definition, the hazards of the code and the findings.

## 1. The system

```
   client program
        |  C API (IVS_SDK.cpp)                                ^ event and exception callbacks
   CSDKInterface: session slots ---> one CUserMgr per login --+---- event queue and its thread
        |                               |        |       |
        |          links, relink timer  |        |       | stream resume timer
        |   (CLoginMgr, CLinkRouteMgr,  |        |       |
        |    CReLink, CSDKMainctrl)     |   managers of streams (real play, playback, download)
        |               |               |        |
        |      NSS network library      |   CMediaBase -----> RTSP client (one session per handle)
        |      (vendored, external)     |        |
        |                               |        +----------> NetSource (ports, channels, RTP)
```

| component | state | operations | what is hard in it |
|---|---|---|---|
| stream ports and channels (`IVS_NetSource`) | free and busy port lists, channel map, sockets | lend and return ports, open and close a channel | two lists without a common lock, ports other programs hold, error paths that skip a return |
| stream receiving (`NetSource.cpp`, `UdpSource.cpp`) | receiving threads, RTCP and time-out counters | receive, keep the NAT alive, report a lost stream | callback under a lock, a thread that stops itself, units of time |
| RTSP client (`rtsp_client`) | session list, reactor lists, one `CRtspSession` per handle | SETUP, PLAY, PAUSE, TEARDOWN, free; receive, sweep, reap | one pending message, one semaphore and one flag shared by callers and reactor; time-outs against late answers; deletion in three threads |
| media control (`CMediaBase`) | stream state, RTSP handle, channel | start, restart, stop | order of two libraries' calls, every one of which can fail |
| real play, playback, download managers | handles and their channels | start, stop, control, status events | handle look-ups against stops |
| stream resume (`CAutoResume`) | list of lost streams | retry from a timer | nothing on Linux, where its list is never filled |
| signalling links (`CLinkRouteMgr`, `CReLink`, `CSDKMainctrl`) | link and status of each server, relink list | notice a lost link, reconnect from a timer | three kinds of threads update table and list, each a step at a time |
| login and logout (`CLoginMgr`, `CUserMgr`, `CDomainRouteMgr`) | user data, domain routes, login threads | login, login to another domain on demand, logout | logout against everything else |
| session slots (`CSDKInterface`) | table of `CUserMgr` by slot | init, login, logout, clean-up | a slot reused while its logout goes on |
| events (`CEventMgr`, `CEventCallBackJob`) | bounded queue, callback | receive, filter, queue, call back | a full queue, a callback that logs out |
| timers and threads (`SDKTimer`, `_BaseThread`) | timer items, thread flags | init, run, register, cancel, clear, exit | items marked without the lock and deleted by two threads, triggers that run under a non-recursive lock, a timer that is started again |
| command services (devices, alarms, PTZ, records, ...) | none of their own | build XML, send, parse | nothing beyond the link they use |
| XML, tools, log, encryption | configuration | conversions | data only |
| video wall, network keyboard | request tables, ring buffer | | separate Windows libraries |

What makes each part correct, in one sentence: a port is lent to one stream at a time and comes back; a
request succeeds only if the server granted it, every call returns, and a session is deleted once and
not in use; a server whose link is lost is reconnected or the user is told; a logout leaves nothing
running and nothing behind; a stopped stream stays stopped; an event is delivered at most once and in order.

`PROJECT.json` says of each component whether it is modelled, and lists as hazards, with their lines, the
places where it can go wrong in a way that a test hardly reaches.

## 2. The modules

| module | what it is |
|---|---|
| `NetChannelMgr` | the port pool, the channels and the one client they have, `CMediaBase` |
| `PortLease` | what the streams get from the pool: ports that are leased and given back; `NetChannelMgr` implements it |
| `RtspSession` | one RTSP session: its callers, reactor thread, timers, sweep and reapers |
| `LinkRelink` | the signalling links of one user: table, notices, relink pass, on-demand logins, logout |
| `SDKTimer` | one timer of a user with its trigger, its thread and the login and logout that start and stop it |
| `Trigger` | what the owner of a trigger gets from a timer; `SDKTimer` implements it |
| `EventQueue` | the event queue, its thread, the callbacks of the clients, logout and clean-up as they meet it |
| `EventFeed` | what the clients get from the event queue; `EventQueue` implements it |
| `SessionSlots` | the user slots: logins and logouts of several threads, what a slot holds, the OMU login thread |
| `MediaHandles` | the objects of live streams and playbacks, their handles and references, the receiving threads |
| `...Proofs` | theorems about the module they are named for (`NetChannelProofs`: `NetChannelMgr`) |
| `RtspLifeProofs` | more theorems about `RtspSession`, on top of `RtspSessionProofs`: the life of a session, and answers and tokens |
| `MC...` | the symmetry sets and the reason for the bounds; the `.cfg` files give the values |

A step of a model is what one thread does between two places where another thread can interfere: one
critical section, or one blocking call. Data is kept as far as a property tells it apart: a message is
its method and CSeq, a link is the server it leads to and a number, a port is an integer because the code
does arithmetic on it.

### 2.1 NetChannelMgr

`CNetChannelMgr` keeps the even ports it owns on `m_lstFreePort` and `m_lstBusyPort`. `GetUdpSocketPort`
and `GetTcpSocketPort` pop ports off the first until one can be bound (`Search`, which is one critical
section), and put it on the second under the second list's mutex (`LendVideo`, `LendAudio`).
`FreePortfromList` does the reverse in two critical sections (`Erase`, `Push`). The stream's thread runs
through `pc` in the order of `CMediaBase::StartPlay` and `ReStartStream`: `GetChannel`, the ports,
`Setup` (an RTSP call that may fail), `OpenUnicast` or `OpenMulticast`, `Play`; `Stop`, `CloseNetStream`
and `FreeChannel` undo it, and each failure takes the exit that the code takes, with or without
`CloseNetStream`. `foreign` are ports that other programs hold.

`PortLease` is the pool as the streams see it: one set of free ports, and leases. A search leases a port, a stream whose `Setup` has
succeeded is settled and gives every port back, a start that fails before forgets its ports. `NetChannelMgr` implements it with `Has(m)`, the
ports of the pool that a stream has at its place, as the lease, wherever the two lists have them.

### 2.2 RtspSession

`s` is the `CRtspSession` object. A call (`Begin`, `Lock`, ... , `Return`) finds the session under the
list's mutex, holds `m_SessionMutex` (`holder`) to its end, makes its message, sends it and waits on the
semaphore. The reactor thread reads an answer and applies it in two steps (`TakeInput`, `Apply...`) under
`m_Mutex`, which is held exactly while `handler # Idle`. A caller needs that mutex only after a time-out or a
refusal (`Expire`, `ReturnRetCode`), so everything between can interleave. `Sweep`, `SweepMarks` and `SweepErases`
are the manager's timer, `Reap` the `svc` of the reactor threads. `UseDeleted` is a call that finds its session
deleted. The server may answer any request with success or failure, late or never, announce the end of the
stream, or close. `granted` and `spare` are history variables, read by properties only: which requests
the server granted, and whether a semaphore token was ever released that no waiting caller was there to take.

### 2.3 LinkRelink

`table` is the route table, `m_listRelink` the relink list, `alive` and `notices` what the network library
has: open links, and closed ones whose `OnLinkClosed` is still to come. Four kinds of threads take turns.
`CbStep` is the library's thread in `OnLinkClosed`: mark, look the session up, tell the client, queue.
`PassStep` is `CReLink::onTrigger`: take the list, then for each server connect, ask, store, decide.
`CallStep` is an application thread in `CUserMgr::SendCmd`, which logs in to an enabled domain first, or
refreshes the domain routes. `LogoutStep` is `CSDKInterface::Logout`, by the application or by the server's
offline notice. Every access to the table or the list is a step of its own, because each has its own mutex, held for that access only. `Init` is the
state after a login: `GetDomainRoute` has stored each domain as enabled, or as closed and queued.

### 2.4 SDKTimer

A user has three `CNVSTimer`s, for streams, links and the relink pass, each with one repeated trigger. `Login` is
what `CUserMgr::Login` does to one of them (`init`, `run`, `registerTimer`), `Stop` what `StopResumeTimer` does
(`cancelTimer`, `clearTimer`, `exit`), each cut at every access to what the loop shares: `cancelTimer` writes the
item twice without the mutex (`CancelRemoves`, `CancelForgets`) and only then waits for it (`CancelWaits`). `Loop(n)`
is `mainLoop` of the thread of start `n`: it wakes, takes the mutex, drops removed items, calls the trigger of one
that is due and puts it back. A `CUserMgr` is used again by the next login on its slot, so starts follow each
other; with `LoginFails` a login may fail after it has started the timer, and nothing stops it. Mutex, list, item
and thread are the id of the start that made them, so that a step that takes the wrong one is seen. The mutex,
the list and the thread are replaced by `init` and `run` whatever they were.

`LinkRelink` uses `cancelTimer` and `exit` by their outcome: `StopRelink` leaves no new pass, `RelinkStopped` waits for the
one that runs. What it rests on is `Trigger`, the timer as the owner of a trigger
sees it (armed, called, cancelled), which `SDKTimer` implements by `Phase` and `Calling`, and `StopReturns`.

### 2.5 EventQueue

`PostEvent` and `EventCallBackFun` put an event on `m_eventQueue` and drop the oldest of a full one (`Push`, one critical
section). `Job` is `CEventCallBackJob::MainLoop`: the test of `m_bRun`, the pop, and then by the kind of the event
`OnEventCallBack`, which takes `m_pMutexEventCB` and holds it while the client's callback runs (`Call`, `Return`), or `HandleStreamMsg`,
which looks the stream up, tells the client, and posts the end of a playback again while its buffer is played (`Repost`). `Posts` are what
produces events: notices and alarms of the server, failures of a stream, the offline notice, which is followed by a logout on the same thread
(`Dispatcher`). `Client` logs in, sets and replaces its callback, logs out, and cleans the SDK up. A stream's failure goes to `m_pUser`, the
session that the RTSP library's one callback was last set for. `Logout(t)` is `CSDKInterface::Logout` at the steps the queue can see: cancel
the callback, free the session, drop its links, after which the server has nothing to send on.

### 2.6 SessionSlots

A login walks through the steps of `CSDKInterface::Login`, `LoginByTicket` and `WindowsLogin` (`pc`): find the same user and log it
out (`RemoveUser`), take a free slot (`GetSessoinID`), connect and log in to the SMU, store link and user info, start the OMU thread,
enter the map; a failure takes the code's exit with what the code undoes there. A logout frees the session id and the map entry first
and then takes the `CUserMgr` down: stop and join the OMU thread, delete the links, clear the user info, reset the session id. Each step is one
critical section or one blocking call. `OmuStep(s)` is the slot's login thread: it sets its run flag when it starts, connects, stores the link, logs
in, sleeps and tries again. The password login holds a lock from `RemoveUser` to its end (`LoginLockFree`).
`SlotRests` is an assumption about the callers: no thread takes or logs out a slot while another is busy with it. The code does not see to it
(4, below); the model without it is `SlotRests = FALSE`.

### 2.7 MediaHandles

An object is a `CRealPlay` or a `CPlayback`; its address is the handle the client gets. A start takes an object (`TakeFree` for a playback that is free again,
`New`), opens the stream under the object's mutex (`StartPlay`, `Setup`, `Play`, with `Undo` and `StartFails` on the exits), a stop finds the object in the map, closes
the stream (`Teardown`, `CloseNetStream`, which joins the receiving thread), resets the object in two steps (`RetSet`,
`RetSetHandle`), takes it out of the map and drops a reference (`Erase`, `PutRef`). `Receive(o)` is `CNetSource::MainLoop` with the data callback. The event
thread takes a reference to the object of a failed stream (`GetRealPlayEx`), stops the stream under the same mutex and drops the
reference. A start takes none: on Linux only the event thread counts, so a stop leaves -1, or deletes the object under the event
thread; what that thread then does to the deleted object goes nowhere (`UseDeleted`). `StartsRest` is an assumption like `SlotRests`: a start does not take an object whose
stop is not over.

`EventQueue`, `SessionSlots` and `MediaHandles` see three sides of the same calls, and each has the steps of the others that reach its state: the logout of
`SessionSlots` is `Logout(t)` in `EventQueue` and `LogoutStep` in `LinkRelink`; the event that `EventQueue` hands to `HandleStreamMsg` is one of `MediaHandles`'
`events`.

## 3. The runs

| run | distinct states | what it shows |
|---|---|---|
| `net_mixed` | 863,483 | UDP, TCP and multicast streams of two media objects: no port in two lists or with two streams, none lost but by the 0 a TCP search puts in its place; `PortLease` is implemented |
| `rtsp_one` | 60,132 | one thread on a handle: no use after deletion, no success that was not granted, no late revival; every call returns; a freed session that was connected is deleted |
| `rtsp_two` | 885,738 | two threads on a handle: one owner of the pending message, not replaced under the decoder |
| `rtsp_setup_lost` | violation | SETUP returns `RET_OK` when the connection is lost |
| `relink_call` | 717,256 | two threads logging in to a domain against pass, notices and logout: no closed server is forgotten |
| `relink_omu` | 136,346 | own SMU and OMU failing again and again: a reconnection the client waits for is pending and its outcome is told; no pass after the timer is joined |
| `relink_usable` | violation | a link lost while it is being stored is stored as opened for good |
| `timer_one` | 608 | login and logout again and again on one slot: `Trigger` is implemented, so a cancelled trigger is quiet; no item is deleted twice or used after, nothing is left behind, the logout returns |
| `events_one` | 89,342 | posts of every kind against the event thread, callbacks that change, logout and clean-up: `EventFeed` is implemented, a cancelled callback does not run, every event is taken or dropped, `Cleanup` ends |
| `slots_two` | 1,056,705 | two threads log in by password, ticket and as Windows user and log out on two slots against OMU threads: a free slot is empty, a session has all its own, a password user is logged in once |
| `slots_one` | 8,497 | the same on one slot, under fairness: every login and logout returns |
| `media` | 326,795 | two threads start and stop live streams and playbacks that fail and are stopped by the event thread: nothing deleted is reached, nothing of a stream is left unheld, every call returns |

**Properties worth a second look.** `PortAccounting`: the two lists have no common lock, so it must count the port in
the hands of a search too. `LossIsMarked` is what remains of "no port is ever lost": every lost port is
matched by a 0 in the free list, so there is no second way to lose one. `ImplementsLease` is the
whole of what the lists are for: a port on neither list still has an owner, which changes by a search and by a return only, and a settled stream returns
each port once. `OkMeansGranted` and `FreedStaysFreed` hold as long as no token was released
without a waiter (`spare`); after one, PLAY can return `RET_OK` unanswered (finding 4), so the condition is exact and not a way out.
`DownIsQueued` is the core of the reconnection: between the copy the pass works on, the list, the
notice being handled and the call about to queue, a closed server must be somewhere. `ToldDownIsPending` ties
what the client was told to that. `ImplementsTrigger`
is not a matter of one lock: a trigger that was running when it
was marked puts its item back into the list, so only mark, mutex and the test at the loop's next look together keep it from being called again. `StopReturns` fails
if the mark is written after the mutex is taken, because the loop may then find the trigger due for ever. `ImplementsFeed` has to see
the drop of the oldest and the pop of the thread, two critical sections of different threads, as one queue, and the re-post of a playback's
end as an event behind all others. `CalledIsRegistered` holds only because the mutex is held through the callback, which is also what makes a client block that
logs out there. `SessionIsWhole` ties four tables together that four mutexes protect one by one. `StreamIsHeld` needs the mutex only where
liveness does: in the safety proof the order of `finished`, the map and the join is enough.

**Bounds.**

- `net_mixed`: a pool of three ports (11, 13, 15) and two media objects. Two UDP streams want four ports, so the
  pool runs out with one stream half set up; port 13, in the middle, is the one other programs may take, so a
  search skips a port, finds the next, and wraps around. A third object adds only repetitions: a
  port is contended by two. The group's ports (21, 23) lie outside the pool, as a deployment's do.
- `rtsp_*`: `MaxSeq` requests per session, 3 with one caller and 2 with two: SETUP, a request that times out, and
  the one that meets what it left behind. One ANNOUNCE per session (`announced`). A caller sends SETUP once in the
  runs with one caller, as `CMediaBase` does, and again in `rtsp_two`. A handle's next session starts over, so
  reuse after deletion is reached.
- `relink_*`: one other domain, and `Slots` = 2 links to each server at a time, enough for a link
  that is lost while its successor is being stored; a link number is reused when nothing refers to it any more. `Fragile` names the
  servers that fail: any number of times.
- `timer_one`: three ids of starts, taken again when nothing they name is in use, so logins and logouts have no end. One
  login's objects and the next one's are two; a third adds nothing but is cheap.
- `events_one`: one session, which logs in again and again, two callbacks and a queue of two: an event waits while another is handled and a
  third pushes it out. A second session multiplies the states beyond a run; what it adds to the safety properties is proved.
- `slots_*`: two slots and two threads: both slots taken, one taken again while the other is in use, two logins of one user. One account
  logs in by password only, so `PasswordUserOnce` speaks of it; the other by ticket and as Windows user. The waits of a call are for one slot only, so `slots_one`
  has one. The failures are `"smu"` and `"user"`; a `"late"` one (finding 6) breaks
  `FreeIsEmpty` and is left out.
- `media`: two objects and two threads and the event thread: each has its own object, or all meet at one. One event waits for each object. An address is given to a new object as soon as
  the old one is deleted and no thread holds it, so reuse is reached.

Deadlock is not checked in the runs of `RtspSession` and `LinkRelink`, because the systems may stop: when the
bound on requests is used up or a session has leaked, and when the user has logged out.

**Fairness.** `RtspSession!FairSpec`: weak fairness of each caller's next step (`acquire` has a time limit, so a
wait ends), of the reactor thread, the sweep timer and the reapers, which run for ever in the code; none for the server or for the
client. `LinkRelink!FairSpec`: weak fairness of the pass and of the library's thread; strong fairness
of each link's `OnLinkClosed`, since the library reports every closed link, though the thread is
busy in between; and two assumptions about the world and not the code, that a pass which asks the user's own server for ever
reaches it at some time and is accepted. Without them a client hears nothing because there is nothing to hear.
`SDKTimer!FairSpec`: weak fairness of each loop, so a trigger returns (the relink pass has a time limit on
every request); strong fairness of the steps of a logout that has begun, because between two locks of the mutex the loop sleeps a tick,
in which a thread that waits for the mutex gets it; none for the client. `EventQueue!FairSpec`: weak fairness of the event thread, so callbacks return, and of a
`Cleanup` that has begun; strong fairness of a logout's steps, which wait for the callback mutex that the event thread takes again and
again; none for those who post. `SessionSlots!FairSpec`: strong fairness of a call's steps, because they wait for a slot or a lock
that others take too; weak fairness of the OMU thread; and two assumptions about the world, that an OMU asked for ever is reached and lets the user in
at some time: a logout may have to wait for that, since the thread sets its flag after the logout has cleared it. `MediaHandles!FairSpec`: weak
fairness of each thread; the mutex is not contended for ever.

## 4. Findings

Two runs violate what the repository says of itself; `PROJECT.json` has the quotations.

1. `rtsp_setup_lost`, `rtsp_client_api.cpp:469`: SETUP woken by a lost connection returns `m_iRetCode`, still `RET_OK`.
2. `relink_usable`, `LoginMgr.cpp:1033`: the relink pass stores its new link only after the answer, so its loss in
   between is noticed by nobody.

The models behave as the code does in these cases too, which have no run of their own. Where a constant excludes one, changing it as said shows it.

3. `NetChannelMgr.cpp:597` pushes the out parameter, still 0, in place of the port it could not bind, although the comment at line 593
   says that the port goes to the end of the list (`Lost` becomes non-empty in `net_mixed`).
4. `rtsp_client_api.cpp:651`: a late answer leaves a token and a set flag to the next request; PLAY returns `RET_OK` on it.
5. `UserMgr.cpp:770`: an on-demand login that ends after logout stores its link in the cleared table, whose user's links line 333 speaks of as deleted (`stray` in `LinkRelink`).
6. `UserMgr.cpp:131`: a login that fails in `GetDomainRoute` leaves its timers running, and the logout of the slot's next user does not stop
   them (`SDKTimer` with `LoginFails = TRUE`: `ImplementsTrigger` and `LoggedOutIsEmpty` fail). So does a first login
   through `SDKInterface.cpp:763`, which takes "first login" for a failure where `CUserMgr` takes it for a success (`"late"` in `SessionSlots`).
7. `SDKMainCtrl.cpp:470-474`: the offline notice (`hwsdk.h:92`) is queued and the callback it is for is cancelled by the logout that follows, so the client may
   never hear of it.
8. `EventMgr.cpp:278`: a stream's failure is posted for the session that logged in last, where the stream is not found (`EventQueue` with two
   sessions).
9. `SDKInterface.cpp:872`: logout frees the slot before the user's `Logout`; a login may take it in between and lose its session id
   (`SessionSlots` with `SlotRests = FALSE`: `SessionIsWhole` fails).
10. `SDKInterface.cpp:977`: a slot keeps the ticket of its last user (`UserInfo.cpp:147`), so a login by that ticket logs out whoever
    has the slot now, although line 952 speaks of the user of the ticket.
11. `MediaBase.cpp:438`: an object is free for the next start before the stop has reset its handle and taken it out of the map
    (`MediaHandles` with `StartsRest = FALSE`: `StreamIsHeld` fails).
12. `RealPlayMgr.cpp:59-78, 707`: a start takes no reference, so a stop counts from 0 to -1 and the object is never deleted, or, with
    an event in hand, deletes the object under the event thread.
13. `RtspSessionManager.cpp:87`: a session freed before SETUP connected it is unlisted and
    never deleted; `LoginMgr.cpp:725`: a domain that refuses the user keeps the refused link open, because the
    call that drops it is commented out.

## 5. What is proved

Assumptions: `PoolAssumption` (the range is not empty and starts above 0), `CallersAssumption` (the value for "nobody" is no caller; the bound is a natural number),
`PeersAssumption` (the servers differ, at least one link to each), `StartsAssumption` (NULL is no start), `EventAssumption` (threads and NULL differ, the queue holds at least
one event), `SlotAssumption` (slots are numbers, "nobody" is no account) and `HandleAssumption` (threads, objects and NULL differ). Nothing bounds the number of threads,
requests, domains, links, starts, sessions, slots, objects or events.

- **`NetChannelProofs!TypeCorrect`**, `Spec => []TypeOK`. It needs to know where a search ends (`SearchEnds`, from the least element of a set of numbers) and
  that what it leaves in the list are ports (`SearchTypes`).
- **`NetChannelProofs!PortAccountingCorrect`, `LentOnceCorrect`**, `Spec => []PortAccounting` and `[]LentOnce`, for group ports outside the pool (`GroupsOutside`).
  The list lemmas say what a search and a return make of the free list: `SearchLeaves` (every place of the new list holds what one place of the old
  one held, or 0, and no place is used twice, so no port appears twice and the one that was taken is gone) and `PushAppends`. The invariant
  `PoolInv` says which ports of the pool each stream has at each place of a start or a stop (`Has`), that these sets are disjoint from each other and from
  the free list (`Apart`, `Lists`), and that a port being given back has left the busy list (`LeftBusy`); the two critical sections of a return
  are safe because the port belongs to the stream between them. `StepOfOne` is the frame: a step of one stream touches its own fields and ports only.
- **`NetChannelProofs!LossIsMarkedCorrect`**, `Spec => []LossIsMarked`, under the same condition. The invariant `CountInv` keeps a sum: the places of the free list and
  the ports that are held (`Held`: busy, or in a stream's hands between the lists) are as many as the pool has ports. A search moves one place to a hand, a return one hand to a place
  (`CountTaken`, `CountGivenBack`), a 0 that is put back keeps its place. As the free list has no port twice (`PoolInv`), its places are its ports and its zeros
  (`PlacesOfList`), so what is missing from the ports is the number of zeros.
- **`NetChannelProofs!ImplementsLeaseCorrect`, `GoneStaysGone`**, `Spec => ImplementsLease`, and `[][Gone \subseteq Gone']_vars`, under the same condition. Every step is a step of `PortLease` or a
  stutter (`StepLeases`): `Search` is `Search`, the failures of a start are `Forget`, the answer of `Setup` is `Settle`, `Push` is `GiveBack`, and `Erase`, `LendVideo`, `LendAudio`,
  `Play` and the sockets stutter. `PoolInv` is what the mapping needs: the leases are apart from each other and from the free list. From the same lemmas, a port that is
  neither free nor leased never comes back, so the pool only shrinks: this is what finding 3 and the starts that fail before SETUP has
  succeeded amount to over time.
- **`RtspSessionProofs!TypeCorrect`**, `Spec => []TypeOK`. `TypeOK` is inductive. Each step replaces one or two
  fields of the record `s`; `SetField`, `SetTwoFields`, `DisconnectedType` and `WokenType` say once that this
  keeps it a session, and the steps of a call are two shapes, going on (`<1>g`) and returning (`<1>r`).
- **`RtspSessionProofs!OwnerCorrect`**, `Spec => []MessageOwner`. Inductive together with `TypeOK`:
  a caller past the lock is the holder, so no second one locks, and only a holder makes a message;
  the reactor and the timers can only destroy it (`OtherSteps`).
- **`RtspLifeProofs!HandlerKeepsMessageCorrect`, `OkMeansGrantedCorrect`**, `Spec => []HandlerKeepsMessage` and `[]OkMeansGranted`, for any callers
  and any number of SETUPs. Neither is inductive. `AnswerInv` adds that a request is answered once and its answer read once (`OnceOnly`),
  that the request about to be sent is the newest and not yet under way (`Unsent`), that an answer with 200 is on the server's record
  (`AnswersAreTrue`), and, while `spare` is FALSE, `TokensFit`: an answer that would be applied is awaited by the holder, and a token is there only
  for a call that waits and whose answer has come. So a caller that is past the lock without waiting finds no token, and no answer that
  would be applied: that is why `createRtspMessage` may replace the message without `m_Mutex`. Once a spare token exists nothing of this holds, and
  the run `rtsp_two` has such states.
- **`RtspLifeProofs!NeverUseDeletedCorrect`, `RegisteredIsLiveCorrect`, `DeletedIsQuietCorrect`**, `Spec => []NeverUseDeleted`, `[]RegisteredIsLive`,
  `[]DeletedIsQuiet`, for one caller that sends SETUP once (`Alone`: the way `CMediaBase` uses a handle). `LifeInv` says that a handle leads to a session
  that is listed and not freed, and without one no call runs (`HandleLeads`), that what the sweep has disconnected stays without connection and timer
  (`SweptIsQuiet`), and that a session is registered once, by the SETUP that connects it (`Registration`).
- **`RtspLifeProofs!FreedStaysFreedCorrect`**, `Spec => FreedStaysFreed`, for one caller: by `LifeInv` nobody waits on a freed session, so by `TokensFit` no
  answer is being applied, and only the sweep changes its status.
- **`LinkRelinkProofs!TypeCorrect`**, `Spec => []TypeOK`. `TypeOK` alone is not inductive: `NotifyDown` and
  `Requeue` take the first component of the reported link, and the pass stores its link. `TypeInv` adds that a reported link is
  a link (`Reported`) and that a link in the table, in the pass or in a call leads to the server it is kept for (`LinksFit`).
- **`LinkRelinkProofs!QueueCorrect`**, `Spec => []DownIsQueued`. The invariant `QueueInv` adds three facts.
  `Wanted`: before logout the timer is on, so a pass never ends with servers it has not looked at. `IdleIsEmpty`:
  between passes its two sets are empty. `DecidedIsKept`: a server the pass has just reconnected to, and is
  about to drop from its work, is remembered by somebody else if its new link has been lost already;
  without it `PassDrops` could forget that server. The proof goes backwards: `Forgotten(p)` after a step
  implies `Forgotten(p)` before it, for the notice (`CbRemembers`), the calls (`CallRemembers`) and, unless the
  pass is at `p`, the pass (`PassRemembers`).
- **`LinkRelinkProofs!ToldDownCorrect`**, `Spec => []ToldDownIsPending`. `Pending` also counts a notice that has only marked the table and a call about to queue,
  which are of no use here: the client has heard of the loss already. `ToldInv` says who is responsible for the client's own server as long as the client has heard of its loss: the relink list, the pass, or the
  notice that is about to queue it (`ServerInHand`). The pass lets go of it only to tell the client (`PassTold`).
- **`LinkRelinkProofs!StopCorrect`**, `Spec => []StoppedIsIdle`. Inductive as it stands.

- **`SDKTimerProofs!TypeCorrect`**, `Spec => []TypeOK`, whether or not logins fail. It needs `MadeInOrder`: a step that uses the
  mutex, the thread or the item of a start comes after the one that makes it.
- **`SDKTimerProofs!QuietCorrect`, `LiveCorrect`, `EmptyCorrect`**, `Spec => []CancelledIsQuiet`, `[]ListedIsLive` and
  `[]LoggedOutIsEmpty`, for logins that do not fail late; with those, finding 6 is the counterexample. None is inductive.
  `TimerInv` adds where the four pointers point at each step of login and logout (`OutsideIsOff`, `InsideIsOne`), that the only loop is the thread's and
  holds the mutex while it scans (`OneLoop`), that the only item is the start's, alive and in one place (`OneItem`, `LiveIsHeld`, `NotYetInserted`), and
  that it stays marked until it is deleted (`Marked`). So whoever finds the mutex free knows that no trigger runs
  (`FreeIsQuiet`), and after the mark `Fire` is disabled: that is `CancelledIsQuiet`, which says what `ImplementsTrigger`
  says of the states, and is not checked by a run of its own.
- **`SDKTimerProofs!ImplementsCorrect`**, `Spec => ImplementsTrigger`, by the same invariant: `Register` is `Arm`, `Fire` is `Call`, `Rearm` is `Return`,
  `CancelRemoves` is `Cancel`, `CancelWaits` is `CancelReturns`; every other step stutters.

- **`EventQueueProofs!TypeCorrect`, `CalledIsRegisteredCorrect`, `CleanedUpIsQuietCorrect`**, `Spec => []TypeOK`, `[]CalledIsRegistered`, `[]CleanedUpIsQuiet`. Together, with
  `LastIsKnown` (while a user is logged in the RTSP callback belongs to some session), they are inductive (`EventInv`). Only the two steps that change a callback,
  `SetEventCallBack` and `Clear`, can disturb `CalledIsRegistered`, and each finds the mutex free, that is, no callback running.
- **`EventQueueProofs!ImplementsFeedCorrect`**, `Spec => ImplementsFeed`: every step is a step of `EventFeed` or a stutter, under `EventInv`. `PopEvent` is `Take`, `Call` is `Tell`,
  `Repost` is `PutBack`, and the three ways of `Push` are `Post`.
- **`SessionSlotsProofs!TypeCorrect`**, `Spec => []TypeOK`, whatever fails and whether or not slots rest.
- **`SessionSlotsProofs!FreeIsEmptyCorrect`, `SessionIsWholeCorrect`**, when slots rest and no login fails late. The inductive
  invariant `SlotInv` says for each place of a login or logout what its slot then has (`Stage`), that a slot at rest is in use and whole or
  free and empty (`Rest`), that at most one thread works on a slot (`Alone`), and what the OMU thread of a slot may still do to it. A
  step then moves one slot from one stage to the next, and leaves all others as they are (`SlotStays`).
- **`SessionSlotsProofs!PasswordUserOnceCorrect`**, `Spec => []PasswordUserOnce`, under the same conditions. `OnceInv` adds that one password login runs at a time, and
  that from its search on it knows of at most one session of its user, the one it logs out or has made (`KnowsOne`): other threads only take sessions away.
- **`MediaHandlesProofs!TypeCorrect`**, `Spec => []TypeOK`, without any condition. That a count stays between -1 and 2 needs `Counted`: the count of an
  object in the map is not negative, and an object taken out of it is put by one thread only.
- **`MediaHandlesProofs!ReachedIsLiveCorrect`, `StreamIsHeldCorrect`**, when starts rest. `MediaInv` adds that two threads of the client are never at
  one object (`Apart`) and what each knows of its own at each place of a start or a stop (`Knows`). The event thread is everywhere: what it does
  to an object must keep what the others know of it.

`PoolInv`, `CountInv`, `LifeInv`, `AnswerInv`, `TimerInv`, `QueueInv`, `ToldInv`, `TypeInv`, `EventInv`, `OnceInv`, `SlotInv` and `MediaInv` were checked by TLC before they were proved.

Every invariant and every safety property of a passing run is stated by a theorem. Only model-checked: liveness under fairness (`CallReturns` of three modules, `FreedIsDeleted`, `DownIsResolved`, `StopReturns`, `PostedIsTaken`, `CleanupReturns`) and whatever
needs `ENABLED`, which are out of the proof system's reach, as what a recursive definition computes would be; the modules have none.
The counterexamples of section 4 are TLC's too.

## 6. What is not modelled

- *NetChannelMgr*: data and exception callbacks, IPv6, socket buffers; group ports inside the client's own range.
- *RtspSession*: the asynchronous
  mode, which the SDK never asks for; the RedHat i386 branch that polls the semaphore; library start and stop; RTP data on the
  control connection.
- *LinkRelink*: the first login (its outcome is `Init`), `OnLinkOpened` (empty), links to the SCU, a domain that
  changes its address, the clock behind `ResumeStartTime` (whether its ten minutes are over is a free choice), the next login
  on the same slot.
- *SDKTimer*: one-shot triggers and timers
  with several triggers, which the SDK does not register; calls from inside a trigger (the client's callback); a start that falls between two
  items of a scan of a loop left behind, and a login on a slot whose logout goes on; failures of memory and of thread creation.
- *EventQueue*: calls the client makes from its callback (a logout there blocks for ever, `EventMgr.cpp:648`); a callback that is set for a slot
  between its logout and its next login; an offline notice during `Cleanup`, whose `begin()` of an empty map is undefined
  (`SDKInterface.cpp:325`, `CleansUpAlone`); the contents of notices; `CStreamEventMgr`, dead code on Linux.
- *SessionSlots*: two logouts of one session at once (they join and free one thread twice, `LoginMgr.cpp:255-264`) and a login on a slot
  that is being logged out, unless `SlotRests` is false; the map's reads under another mutex than its writes (`SDKInterface.cpp:400-443`, a data
  race); the link of a failed login, which stays open (`LoginMgr.cpp:385`); NAT and passwords.
- *MediaHandles*: play in a window and file download; controls of a running stream; the failure of `IVS_PLAY_SetRawFrameCallBack` after a start
  (`RealPlay.cpp:597`); a stop from the data callback, which joins itself; `GetPlayHandlebyRtspHandle`, which reads the map without
  its lock; a client that stops one handle twice; restarts, dead code on Linux.
- `WithoutAddr`, `Unused`, `PeerCloses`, the answers of servers and other programs' ports stand for the vendored network library, for
  servers and for the host, and are marked external.
- Parts without a module: XML and tools (data only), command services (no state of their own), stream resume (its list is never filled on
  Linux), RTSP messages (text), `src/platform` (vendored), `IVS_Demo`
  (an example), the video wall and the network keyboard (Windows libraries that are not part of this build). The vendored headers of `src/platform` and
  the command services are most of the repository's lines.

## 7. Plan

What is left, in the order of importance.

1. `CDownloadMgr` as a third kind of `MediaHandles`' objects, and the controls of a playback against its end.
2. `LinkRelink` over `SessionSlots`: the next login on a slot whose relink list was not cleared (`ReLink.cpp:312`).
3. The receiving thread's time-outs and the NAT keep-alive, whose clock counts thousands of seconds (`NetSource.cpp:13`).
4. Abstract specifications: a request and its one outcome (`RtspSession` implements it while `spare` is false); a list of work
   that is never lost (`LinkRelink`), each as a refinement property of a run there is, with its proof.
5. Proofs: what holds of two callers on one RTSP handle beyond `MessageOwner` and the answers, and what remains of the conditional theorems when
   slots or starts do not rest.
