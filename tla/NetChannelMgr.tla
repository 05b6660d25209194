--------------------------- MODULE NetChannelMgr ---------------------------
(***************************************************************************)
(* The local port pool of the stream receiving library and the channels    *)
(* that borrow from it (IVS_NetSource/src/NetChannelMgr.cpp, NetChannel.cpp*)
(* and the connections below it), driven by the one client the SDK has for *)
(* it: CMediaBase::StartPlay, ReStartStream, StopStream and StopPlay.       *)
(*                                                                         *)
(* A media object is used by one thread at a time and owns at most one     *)
(* channel, so a channel is named by its media object.  The two port lists *)
(* have a mutex each; a step of this module is what happens inside one     *)
(* critical section or between two calls of the library.                   *)
(*                                                                         *)
(* A UDP RTP/RTCP pair (p, p + 1) is one socket, named by its RTP port p.  *)
(***************************************************************************)
EXTENDS Integers, Sequences, FiniteSets, SequencesExt

CONSTANTS
    Media,          \* the CMediaBase objects
    BeginPort,      \* NET_SOURCE_BEGIN_PORT
    EndPort,        \* NET_SOURCE_END_PORT
    MaxChannels,    \* NET_SOURCE_TOTAL_CHANNEL_NUM
    Protocols,      \* the transports the callers ask for
    ForeignPorts,   \* the ports other programs of the host may take
    MulticastPorts  \* the group's ports; none: no stream is multicast

ASSUME PoolAssumption ==
    /\ BeginPort \in Nat \ {0} /\ EndPort \in Nat /\ BeginPort < EndPort
    /\ MaxChannels \in Nat
    /\ Protocols \subseteq {"udp", "tcp"}
    /\ ForeignPorts \subseteq Nat \ {0} /\ MulticastPorts \subseteq Nat \ {0}

VARIABLES
    freeList,   \* m_lstFreePort
    busyList,   \* m_lstBusyPort: only pushed to and erased from, so a set
    channels,   \* the media objects whose channel is in m_mapNetChannel
    proto,      \* the channel's protocol type
    local,      \* the channel's local video and audio RTP port, 0 when unset
    sock,       \* the sockets the channel's connections have open
    lostSock,   \* sockets that are open but that no channel refers to
    source,     \* the channel has an m_pSource
    foreign,    \* the ports other programs hold at the moment
    got,        \* the port a search has popped and not yet lent
    restart,    \* the media object is started by ReStartStream
    after,      \* what the media object does once its channel is freed
    pc

vars == <<freeList, busyList, channels, proto, local, sock, lostSock, source,
          foreign, got, restart, after, pc>>

NoPorts == [video |-> 0, audio |-> 0]

Locations == {"idle", "getChannel", "bindVideo", "lendVideo", "bindAudio",
    "lendAudio", "setup", "open", "mcEraseVideo", "mcPushVideo", "mcEraseAudio",
    "mcPushAudio", "ready", "playing", "eraseVideo", "pushVideo", "eraseAudio",
    "pushAudio", "free", "drop"}

\* Mutant: a port for each number of the range, still two apart.
PoolOverrun == [i \in 1 .. EndPort - BeginPort |-> BeginPort + 2 * (i - 1)]

\* The loop of Init: every second port from BeginPort, EndPort excluded.
Pool == [i \in 1 .. (EndPort - BeginPort + 1) \div 2 |-> BeginPort + 2 * (i - 1)]

Init ==
    /\ freeList = Pool
    /\ busyList = {}
    /\ channels = {}
    /\ proto = [m \in Media |-> "udp"]
    /\ local = [m \in Media |-> NoPorts]
    /\ sock = [m \in Media |-> {}]
    /\ lostSock = {}
    /\ source = [m \in Media |-> FALSE]
    /\ foreign = {}
    /\ got = [m \in Media |-> 0]
    /\ restart = [m \in Media |-> FALSE]
    /\ after = [m \in Media |-> "idle"]
    /\ pc = [m \in Media |-> "idle"]

-----------------------------------------------------------------------------
(* Helpers *)

Goto(m, location) == pc' = [pc EXCEPT ![m] = location]

OpenSockets == UNION {sock[m] : m \in Media} \union lostSock

\* CTcpConnection::Bind, CUdpConnection::Bind: port 0 is refused before any
\* socket is created, any other port is refused when somebody holds it.
CanBind(transport, p) ==
    /\ p # 0
    /\ p \notin foreign
    /\ <<transport, p>> \notin OpenSockets

\* The index of the first port of the free list that can be bound, 0 if none.
FirstBindable(transport) ==
    SelectInSeq(freeList, LAMBDA p : CanBind(transport, p))

\* What the search makes of the ports it could not bind: GetUdpSocketPort puts
\* the port itself at the end of the list, GetTcpSocketPort its out parameter,
\* which is still 0.
Rejected(transport, ports) ==
    IF transport = "udp" THEN ports ELSE [i \in DOMAIN ports |-> 0]

\* Mutant: the port that was bound stays in the list.
AfterSearchKept(transport, i) ==
    IF i = 0
    THEN Rejected(transport, freeList)
    ELSE SubSeq(freeList, i, Len(freeList))
            \o Rejected(transport, SubSeq(freeList, 1, i - 1))

\* Mutant: the ports that could not be bound are not put back.
AfterSearchDropped(transport, i) ==
    IF i = 0 THEN <<>> ELSE SubSeq(freeList, i + 1, Len(freeList))

\* The free list once the search has ended at index i (0: every port was tried).
AfterSearch(transport, i) ==
    IF i = 0
    THEN Rejected(transport, freeList)
    ELSE SubSeq(freeList, i + 1, Len(freeList))
            \o Rejected(transport, SubSeq(freeList, 1, i - 1))

\* The critical section of GetUdpSocketPort and GetTcpSocketPort on the free list.
Search(m, found, none) ==
    LET i == FirstBindable(proto[m]) IN
    /\ freeList' = AfterSearch(proto[m], i)
    /\ IF i = 0
       THEN /\ Goto(m, none)
            /\ UNCHANGED <<got, sock>>
       ELSE /\ got' = [got EXCEPT ![m] = freeList[i]]
            /\ sock' = [sock EXCEPT ![m] = @ \union {<<proto[m], freeList[i]>>}]
            /\ Goto(m, found)

\* Mutant: the busy list is not searched.
EraseNothing(m, port, next) ==
    /\ Goto(m, next)
    /\ UNCHANGED <<freeList, busyList, channels, proto, local, sock, lostSock,
                   source, foreign, got, restart, after>>

\* First half of FreePortfromList: every occurrence leaves the busy list.
Erase(m, port, next) ==
    /\ busyList' = busyList \ {port}
    /\ Goto(m, next)
    /\ UNCHANGED <<freeList, channels, proto, local, sock, lostSock, source,
                   foreign, got, restart, after>>

\* Second half: a port of the range goes to the end of the free list.
Returned(port) ==
    IF port \in BeginPort .. EndPort THEN Append(freeList, port) ELSE freeList

Push(m, port, next) ==
    /\ freeList' = Returned(port)
    /\ Goto(m, next)
    /\ UNCHANGED <<busyList, channels, proto, local, sock, lostSock, source,
                   foreign, got, restart, after>>

-----------------------------------------------------------------------------
(* Starting a stream: CMediaBase::StartPlay and ReStartStream *)

\* A channel the media object still holds is closed and freed first.
Start(m, again) ==
    /\ pc[m] = "idle"
    /\ restart' = [restart EXCEPT ![m] = again]
    /\ after' = [after EXCEPT ![m] = "getChannel"]
    /\ Goto(m, IF m \in channels THEN "eraseVideo" ELSE "getChannel")
    /\ UNCHANGED <<freeList, busyList, channels, proto, local, sock, lostSock,
                   source, foreign, got>>

\* GetChannel, SetDataCallBack, SetProtocolType, SetLocalRecvStreamIP.
GetChannel(m) ==
    /\ pc[m] = "getChannel"
    /\ IF Cardinality(channels) < MaxChannels
       THEN /\ channels' = channels \union {m}
            /\ \E p \in Protocols : proto' = [proto EXCEPT ![m] = p]
            /\ Goto(m, "bindVideo")
       ELSE /\ Goto(m, "idle")
            /\ UNCHANGED <<channels, proto>>
    /\ after' = [after EXCEPT ![m] = "idle"]
    /\ UNCHANGED <<freeList, busyList, local, sock, lostSock, source, foreign,
                   got, restart>>

\* GetLocalRecvStreamPort, the (video) port: taken off the free list ...
BindVideo(m) ==
    /\ pc[m] = "bindVideo"
    /\ Search(m, "lendVideo", "drop")
    /\ UNCHANGED <<busyList, channels, proto, local, lostSock, source, foreign,
                   restart, after>>

\* ... and, under the other mutex, put on the busy list.
LendVideo(m) ==
    /\ pc[m] = "lendVideo"
    /\ busyList' = busyList \union {got[m]}
    /\ IF proto[m] = "udp"
       THEN /\ Goto(m, "bindAudio")
            /\ UNCHANGED local
       ELSE /\ local' = [local EXCEPT ![m].video = got[m]]
            /\ Goto(m, "setup")
    /\ UNCHANGED <<freeList, channels, proto, sock, lostSock, source, foreign,
                   got, restart, after>>

\* The audio port of a UDP stream.  When none is left the call fails: the video
\* connections are neither in the channel nor deleted, and the video port, known
\* from sock[m], is not in the channel either.
BindAudio(m) ==
    /\ pc[m] = "bindAudio"
    /\ LET i == FirstBindable("udp") IN
       /\ freeList' = AfterSearch("udp", i)
       /\ IF i = 0
          THEN /\ lostSock' = lostSock \union sock[m]
               /\ sock' = [sock EXCEPT ![m] = {}]
               /\ got' = [got EXCEPT ![m] = 0]
               /\ Goto(m, "drop")
               /\ UNCHANGED local
          ELSE /\ local' = [local EXCEPT ![m].video = got[m]]
               /\ got' = [got EXCEPT ![m] = freeList[i]]
               /\ sock' = [sock EXCEPT ![m] = @ \union {<<"udp", freeList[i]>>}]
               /\ Goto(m, "lendAudio")
               /\ UNCHANGED lostSock
    /\ UNCHANGED <<busyList, channels, proto, source, foreign, restart, after>>

LendAudio(m) ==
    /\ pc[m] = "lendAudio"
    /\ busyList' = busyList \union {got[m]}
    /\ local' = [local EXCEPT ![m].audio = got[m]]
    /\ Goto(m, "setup")
    /\ UNCHANGED <<freeList, channels, proto, sock, lostSock, source, foreign,
                   got, restart, after>>

\* RTSP_CLIENT_SendSetupMsg; its failure frees the channel without closing it.
Setup(m) ==
    /\ pc[m] = "setup"
    /\ got' = [got EXCEPT ![m] = 0]
    /\ \E next \in {"open", "drop"} : Goto(m, next)
    /\ UNCHANGED <<freeList, busyList, channels, proto, local, sock, lostSock,
                   source, foreign, restart, after>>

\* OpenNetStream of a unicast stream: a failed Init of the source shuts the
\* sockets and deletes the source, and the caller closes and frees the channel.
OpenUnicast(m) ==
    /\ pc[m] = "open"
    /\ \/ /\ source' = [source EXCEPT ![m] = TRUE]
          /\ Goto(m, "ready")
          /\ UNCHANGED sock
       \/ /\ sock' = [sock EXCEPT ![m] = {}]
          /\ Goto(m, "eraseVideo")
          /\ UNCHANGED source
    /\ UNCHANGED <<freeList, busyList, channels, proto, local, lostSock,
                   foreign, got, restart, after>>

\* OpenNetStream to a group address, up to the sockets of BindMulticastPort: they
\* are bound anew on the group's ports.  CMulticastSource::Init may still fail
\* (after BindMulticastPort returns); it is decided in McLocal.
OpenMulticast(m, v, a) ==
    /\ pc[m] = "open" /\ proto[m] = "udp"
    /\ LET others == OpenSockets \ sock[m]
           bound  == /\ v # a
                     /\ {v, a} \intersect foreign = {}
                     /\ {<<"udp", v>>, <<"udp", a>>} \intersect others = {}
       IN IF bound
          THEN /\ sock' = [sock EXCEPT ![m] = {<<"udp", v>>, <<"udp", a>>}]
               /\ source' = [source EXCEPT ![m] = TRUE]
               /\ Goto(m, "mcEraseVideo")
          ELSE /\ sock' = [sock EXCEPT ![m] = {}]
               /\ Goto(m, "eraseVideo")
               /\ UNCHANGED source
    /\ UNCHANGED <<freeList, busyList, channels, proto, local, lostSock,
                   foreign, got, restart, after>>

\* BindMulticastPort gives the two pool ports back ...
McFreePorts(m) ==
    \/ pc[m] = "mcEraseVideo" /\ Erase(m, local[m].video, "mcPushVideo")
    \/ pc[m] = "mcPushVideo"  /\ Push(m, local[m].video, "mcEraseAudio")
    \/ pc[m] = "mcEraseAudio" /\ Erase(m, local[m].audio, "mcPushAudio")

\* ... and makes the group's ports the channel's local ports.
McLocal(m, v, a) ==
    /\ pc[m] = "mcPushAudio"
    /\ sock[m] = {<<"udp", v>>, <<"udp", a>>}
    /\ freeList' = Returned(local[m].audio)
    /\ local' = [local EXCEPT ![m] = [video |-> v, audio |-> a]]
    /\ \/ Goto(m, "ready") /\ UNCHANGED <<source, sock>>
       \/ /\ Goto(m, "eraseVideo")
          /\ source' = [source EXCEPT ![m] = FALSE]
          /\ sock' = [sock EXCEPT ![m] = {}]
    /\ UNCHANGED <<busyList, channels, proto, lostSock, foreign, got, restart, after>>

\* Key exchange, StartRecvStream and RTSP_CLIENT_SendPlayMsg.  A failure closes
\* and frees the channel, but ReStartStream returns with the channel still in
\* place when the key is missing.
Play(m) ==
    /\ pc[m] = "ready"
    /\ \/ Goto(m, "playing")
       \/ Goto(m, "eraseVideo")
       \/ restart[m] /\ Goto(m, "idle")
    /\ UNCHANGED <<freeList, busyList, channels, proto, local, sock, lostSock,
                   source, foreign, got, restart, after>>

-----------------------------------------------------------------------------
(* Stopping a stream *)

\* StopPlay, StopStream: of a stream that plays, or of one whose restart left
\* its channel behind.  The RTSP teardown has no effect on the pool.
Stop(m) ==
    /\ pc[m] \in {"playing", "idle"} /\ m \in channels
    /\ Goto(m, "eraseVideo")
    /\ UNCHANGED <<freeList, busyList, channels, proto, local, sock, lostSock,
                   source, foreign, got, restart, after>>

\* Mutant: the video port is put back in the place of the audio port.
CloseTwice(m) ==
    \/ pc[m] = "eraseVideo" /\ Erase(m, local[m].video, "pushVideo")
    \/ /\ pc[m] = "pushVideo"
       /\ Push(m, local[m].video, IF proto[m] = "udp" THEN "eraseAudio" ELSE "free")
    \/ pc[m] = "eraseAudio" /\ Erase(m, local[m].audio, "pushAudio")
    \/ pc[m] = "pushAudio"  /\ Push(m, local[m].video, "free")

\* CNetChannelMgr::CloseNetStream: the ports return to the pool first; then the
\* source, if there is one, is stopped.  The channel keeps its ports, its
\* sockets and its source.
CloseNetStream(m) ==
    \/ pc[m] = "eraseVideo" /\ Erase(m, local[m].video, "pushVideo")
    \/ /\ pc[m] = "pushVideo"
       /\ Push(m, local[m].video, IF proto[m] = "udp" THEN "eraseAudio" ELSE "free")
    \/ pc[m] = "eraseAudio" /\ Erase(m, local[m].audio, "pushAudio")
    \/ pc[m] = "pushAudio"  /\ Push(m, local[m].audio, "free")

\* FreeChannel deletes the channel with its connections and its source; "drop"
\* is the same call made without CloseNetStream before it.
FreeChannel(m) ==
    /\ pc[m] \in {"free", "drop"}
    /\ channels' = channels \ {m}
    /\ local' = [local EXCEPT ![m] = NoPorts]
    /\ sock' = [sock EXCEPT ![m] = {}]
    /\ source' = [source EXCEPT ![m] = FALSE]
    /\ proto' = [proto EXCEPT ![m] = "udp"]
    /\ Goto(m, after[m])
    /\ UNCHANGED <<freeList, busyList, lostSock, foreign, got, restart, after>>

\* Another program opens or closes a port.
Foreign(p) ==
    /\ \/ p \in foreign /\ foreign' = foreign \ {p}
       \/ /\ p \notin foreign
          /\ {<<t, p>> : t \in {"udp", "tcp"}} \intersect OpenSockets = {}
          /\ foreign' = foreign \union {p}
    /\ UNCHANGED <<freeList, busyList, channels, proto, local, sock, lostSock,
                   source, got, restart, after, pc>>

Stream(m) ==
    \/ \E again \in BOOLEAN : Start(m, again)
    \/ GetChannel(m) \/ BindVideo(m) \/ LendVideo(m) \/ BindAudio(m) \/ LendAudio(m)
    \/ Setup(m) \/ OpenUnicast(m) \/ McFreePorts(m)
    \/ \E v, a \in MulticastPorts : OpenMulticast(m, v, a) \/ McLocal(m, v, a)
    \/ Play(m) \/ Stop(m) \/ CloseNetStream(m) \/ FreeChannel(m)

Next ==
    \/ \E m \in Media : Stream(m)
    \/ \E p \in ForeignPorts : Foreign(p)

Spec == Init /\ [][Next]_vars

-----------------------------------------------------------------------------
(* Properties *)

Ports == 0 .. EndPort \union ForeignPorts \union MulticastPorts

\* Type invariant of the pool and of the channels.
TypeOK ==
    /\ freeList \in Seq(Ports)
    /\ busyList \subseteq Ports
    /\ channels \subseteq Media
    /\ proto \in [Media -> {"udp", "tcp"}]
    /\ local \in [Media -> [video : Ports, audio : Ports]]
    /\ sock \in [Media -> SUBSET ({"udp", "tcp"} \X Ports)]
    /\ lostSock \subseteq {"udp", "tcp"} \X Ports
    /\ source \in [Media -> BOOLEAN]
    /\ foreign \subseteq ForeignPorts
    /\ got \in [Media -> Ports]
    /\ restart \in [Media -> BOOLEAN]
    /\ after \in [Media -> {"idle", "getChannel"}]
    /\ pc \in [Media -> Locations]

\* The port a media object has taken off the free list and not yet lent.
InHand == {got[m] : m \in {x \in Media : pc[x] \in {"lendVideo", "lendAudio"}}}

\* A port is handed out by one list only: it is in the free list at most once,
\* and while it is there it is neither in the busy list nor between the two
\* critical sections of a search (GetUdpSocketPort, GetTcpSocketPort,
\* FreePortfromList; the two lists have no common lock).
PortAccounting ==
    /\ \A i, j \in DOMAIN freeList :
          i # j /\ freeList[i] # 0 => freeList[i] # freeList[j]
    /\ \A p \in ToSet(freeList) \ {0} : p \notin busyList \union InHand

\* Two streams that are set up or playing never announce the same local port to
\* the media server, and the two ports of a UDP stream differ.
Announcing(m) == m \in channels /\ pc[m] \in {"setup", "open", "ready", "playing", "idle"}
LocalPorts(m) == {local[m].video, local[m].audio} \ {0}
LentOnce ==
    /\ \A m, n \in Media :
          m # n /\ Announcing(m) /\ Announcing(n) => LocalPorts(m) \intersect LocalPorts(n) = {}
    /\ \A m \in Media :
          Announcing(m) /\ proto[m] = "udp" => local[m].video # local[m].audio

\* A port that is being given back is between the two lists.
BeingReturned ==
    {local[m].video : m \in {x \in Media : pc[x] \in {"mcPushVideo", "pushVideo"}}}
    \union {local[m].audio : m \in {x \in Media : pc[x] \in {"mcPushAudio", "pushAudio"}}}
\* Ports that are neither free nor lent nor about to be.
Lost == ToSet(Pool) \ (ToSet(freeList) \union busyList \union InHand \union BeingReturned)

\* A port is lost in no other way than by the 0 that GetTcpSocketPort puts back
\* in its place: no path through a search, a failed or a successful start, a
\* change to a group's ports or a stop, in any interleaving, loses or invents
\* one, so the pool's size and the marks of what it lost stay in the list.
Marks == {i \in DOMAIN freeList : freeList[i] = 0}
LossIsMarked == Cardinality(Lost) = Cardinality(Marks)

-----------------------------------------------------------------------------
(* Ports as leases *)

PortRange == BeginPort .. EndPort

\* Places where the stream still has the port of a search, its video port, its audio port.
GotHeld == {"lendVideo", "bindAudio", "lendAudio"}
VideoHeld == {"lendAudio", "setup", "open", "mcEraseVideo", "mcPushVideo", "ready", "playing",
              "idle", "eraseVideo", "pushVideo"}
AudioHeld == (VideoHeld \ {"lendAudio"}) \union {"mcEraseAudio", "mcPushAudio", "eraseAudio", "pushAudio"}

\* The ports of the pool that a stream has: nobody else may hand them out.
Has(m) ==
    PortRange \intersect
        ( {p \in {got[m]} : pc[m] \in GotHeld} \union {p \in {local[m].video} : pc[m] \in VideoHeld}
          \union {p \in {local[m].audio} : pc[m] \in AudioHeld} )

SetUp(m) == pc[m] \in AudioHeld \ {"setup"} /\ Has(m) # {}

Lease == INSTANCE PortLease WITH
    Ports   <- ToSet(Pool),
    Streams <- Media,
    free    <- ToSet(freeList) \ {0},
    lease   <- [m \in Media |-> Has(m)],
    settled <- {m \in Media : SetUp(m)}

\* To the streams the two lists are one pool of leases: whatever they and other programs
\* do, a port reaches a stream from the free list alone, in its own two-port start, and one
\* that was set up, restarted, moved to a group's ports or stopped has all its ports put back
\* once, however its steps mix with the others' (StartPlay to FreeChannel).
ImplementsLease == Lease!Spec

=============================================================================
